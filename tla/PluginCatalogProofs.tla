------------------------ MODULE PluginCatalogProofs -------------------------
(***************************************************************************)
(* Proofs about PluginCatalog for every set of plugins and installs and    *)
(* every number of disk changes and failures: the cached verdicts, the     *)
(* rows of the PIPELINE card and the switches of the Plugin Center.        *)
(***************************************************************************)
EXTENDS PluginCatalog, BackgroundTasksProofs

Request == [plugin : Plugin, page : {"toolbox", "settings"}]

\* The pool runs installs and nothing else, and knows what to install until it is
\* answered.
InstallsInv ==
    /\ install \in [Task -> Request \cup {NoInstall}]
    /\ \A t \in Task : future[t] # "none" => t \in handed
    /\ \A t \in handed : answers[t] = <<>> => install[t] \in Request

\* Plugins whose tool has been installed from the Toolbox, which is yet to hear of
\* it and then throws every verdict away.  The installs still running have changed
\* nothing, and the others have left their plugin in stale.
Unheard == {p \in Plugin : \E t \in pending :
    /\ install[t] = [plugin |-> p, page |-> "toolbox"]
    /\ future[t] = "result" /\ answers[t] = <<>>}

\* A cached verdict is the one the probe would give.
CacheInv ==
    \A p \in Plugin \ (stale \cup Unheard) :
        health[p] # None => health[p] = Probe(manifests, p)

\* So is a row of the PIPELINE card, and what it foretold when the run began.
CardInv ==
    visible = "pipeline" =>
        \A p \in Plugin \ changed : pipeline[p] = Probe(manifests, p)
PromiseInv == \A p \in todo \ doubtful : foretold[p] = Probe(manifests, p)

CatalogInv ==
    /\ TasksInv /\ CatalogTypeOK /\ InstallsInv
    /\ CacheInv /\ CardInv /\ PromiseInv
    /\ rows = choice
-----------------------------------------------------------------------------
(***************************************************************************)
(* What the catalog's pages do to the pool and to the poll is what any task*)
(* may do.                                                                 *)
(***************************************************************************)
LEMMA CatalogIsTasks ==
    ASSUME [CatalogNext]_catalogVars
    PROVE  [TasksNext]_taskVars
<1>1. CASE UNCHANGED catalogVars
  BY <1>1 DEF catalogVars
<1>2. CASE ShowPipeline \/ ShowCenter \/ ShowTools \/ OnRecheck \/ OnRescan \/ OnRun \/ Restart
  BY <1>2 DEF ShowPipeline, ShowCenter, ShowTools, OnRecheck, OnRescan, OnRun, Restart
<1>3. CASE PollRest
  BY <1>3 DEF PollRest, TasksNext
<1>4. ASSUME NEW p \in Plugin, OnToggle(p) \/ Step(p) \/ DiskChanges(p)
      PROVE  UNCHANGED taskVars
  BY <1>4 DEF OnToggle, Step, Ended, DiskChanges
<1>5. ASSUME NEW p \in Plugin, NEW t \in Task, OnInstall(t, p)
      PROVE  TasksNext
  BY <1>5 DEF OnInstall, TasksNext
<1>6. ASSUME NEW t \in Task, Begin(t) \/ Ends(t) \/ Answer(t)
      PROVE  TasksNext
  BY <1>6 DEF Begin, Ends, Answer, TasksNext
<1>. QED  BY <1>1, <1>2, <1>3, <1>4, <1>5, <1>6 DEF CatalogNext

(***************************************************************************)
(* The Toolbox and the Settings page use BackgroundTaskRunner as it is to  *)
(* be used: their installs are some of its tasks.                          *)
(***************************************************************************)
THEOREM CatalogUsesTasks == CatalogSpec => TasksSpec
<1>1. CatalogInit => TasksInit
  BY DEF CatalogInit
<1>. QED  BY <1>1, CatalogIsTasks, PTL DEF CatalogSpec, TasksSpec

-----------------------------------------------------------------------------
\* A step that leaves the installs alone.
LEMMA InstallsAlone ==
    ASSUME CatalogInv, UNCHANGED <<taskVars, install>>
    PROVE  /\ TasksInv' /\ InstallsInv' /\ TasksTypeOK'
           /\ Unheard' = Unheard /\ Outstanding' = Outstanding /\ Unheard \subseteq Outstanding
<1>1. TasksInv'
  BY TasksInvStep DEF CatalogInv
<1>. QED  BY <1>1 DEF CatalogInv, InstallsInv, Unheard, Outstanding, TasksInv,
                      taskVars, poolVars, historyVars

\* The probe imports what it finds importable, which changes no other verdict.
LEMMA FillAsks ==
    ASSUME NEW cache \in [Plugin -> Verdict \cup {None}], NEW known \in SUBSET Plugin,
           NEW some \in SUBSET Plugin, Fill(cache, known, some), UNCHANGED <<disk, tools>>
    PROVE  /\ health' \in [Plugin -> Verdict \cup {None}]
           /\ modules' \subseteq modules \cup known
           /\ \A p \in Plugin : Importable(p)' <=> Importable(p)
           /\ \A p \in Plugin : health'[p] =
                 IF p \in some /\ cache[p] = None THEN Probe(known, p) ELSE cache[p]
<1>1. \A p \in Plugin : Probe(known, p) \in Verdict
  BY DEF Probe, Verdict
<1>2. \A p \in modules' \ modules : p \in known /\ Importable(p)
  BY DEF Fill
<1>3. modules \subseteq modules'
  BY DEF Fill
<1>. QED  BY <1>1, <1>2, <1>3 DEF Fill, Filled, Importable

\* The verdict of one plugin does not depend on the others.
LEMMA SameVerdict ==
    ASSUME NEW p \in Plugin, Importable(p)' <=> Importable(p),
           p \in manifests' <=> p \in manifests, p \in tools' <=> p \in tools
    PROVE  Probe(manifests, p)' = Probe(manifests, p)
BY DEF Probe

-----------------------------------------------------------------------------
LEMMA CatalogInvInit ==
    ASSUME CatalogAssumption, CatalogInit
    PROVE  CatalogInv
<1>1. TasksInv
  BY TasksInvInit DEF CatalogInit
<1>2. InstallsInv
  BY DEF InstallsInv, CatalogInit, TasksInit, Request
<1>3. rows \in [Plugin -> PluginRow \cup {None}] /\ manifests \subseteq {p \in Plugin : rows[p] # None}
  <2>1. PICK enabled \in BOOLEAN, known \in {{}, Plugin} :
            rows = [p \in Plugin |-> IF p \in known THEN enabled
                                     ELSE IF p \in Readable THEN TRUE ELSE None]
    BY Zenon DEF CatalogInit
  <2>2. \A p \in Plugin : rows[p] \in BOOLEAN \cup {None}
    BY <2>1
  <2>3. \A p \in Readable : rows[p] # None
    BY <2>1, CatalogAssumption DEF CatalogAssumption, Readable
  <2>. QED  BY <2>1, <2>2, <2>3 DEF CatalogInit, PluginRow, Readable
<1>4. disk \in [Plugin -> Content] /\ tools \subseteq Plugin
  BY DEF CatalogInit, Content
<1>5. modules \subseteq manifests
  BY DEF CatalogInit
<1>6. /\ health \in [Plugin -> Verdict \cup {None}] /\ pipeline \in [Plugin -> Verdict \cup {None}]
      /\ foretold \in [Plugin -> Verdict \cup {None}] /\ boxes \in [Plugin -> BOOLEAN \cup {None}]
  BY DEF CatalogInit, Blank, Verdict
<1>7. CatalogTypeOK
  <2>1. events \in 0..MaxEvents /\ failures \in 0..MaxFailures
    BY CatalogAssumption DEF CatalogAssumption, CatalogInit
  <2>2. \A t \in Task : install[t] = NoInstall
    BY DEF CatalogInit
  <2>3. choice \in [Plugin -> BOOLEAN \cup {None}]
    BY <1>3 DEF CatalogInit, PluginRow
  <2>. QED  BY <1>1, <1>3, <1>4, <1>5, <1>6, <2>1, <2>2, <2>3 DEF CatalogInit, CatalogTypeOK, TasksInv
<1>8. CacheInv /\ CardInv /\ PromiseInv /\ rows = choice
  BY DEF CatalogInit, CacheInv, CardInv, PromiseInv, Probe
<1>. QED  BY <1>1, <1>2, <1>7, <1>8 DEF CatalogInv

\* What the page draws is what the probe says, of all plugins that nothing has
\* happened to.
LEMMA RenderKeeps ==
    ASSUME CatalogInv, NEW cache \in [Plugin -> Verdict \cup {None}],
           cache = Blank \/ (cache = health /\ stale' = stale),
           RenderPipeline(cache), visible' = "pipeline", stale' \subseteq Plugin,
           UNCHANGED <<taskVars, outsideVars, rows, manifests, install, runVars, choice>>
    PROVE  CatalogInv'
<1>1. /\ TasksInv' /\ InstallsInv' /\ TasksTypeOK'
      /\ Unheard' = Unheard /\ Outstanding' = Outstanding /\ Unheard \subseteq Outstanding
  BY InstallsAlone
<1>2. manifests \subseteq Plugin /\ CatalogTypeOK
  BY DEF CatalogInv, CatalogTypeOK
<1>3. Fill(cache, manifests, Plugin) /\ UNCHANGED <<disk, tools>>
  BY DEF RenderPipeline, outsideVars
<1>4. /\ health' \in [Plugin -> Verdict \cup {None}]
      /\ modules' \subseteq modules \cup manifests
      /\ \A p \in Plugin : Importable(p)' <=> Importable(p)
      /\ \A p \in Plugin : health'[p] =
            IF cache[p] = None THEN Probe(manifests, p) ELSE cache[p]
  <2>1. manifests \in SUBSET Plugin /\ Plugin \in SUBSET Plugin
    BY <1>2
  <2>2. /\ health' \in [Plugin -> Verdict \cup {None}]
        /\ modules' \subseteq modules \cup manifests
        /\ \A p \in Plugin : Importable(p)' <=> Importable(p)
        /\ \A p \in Plugin : health'[p] =
              IF p \in Plugin /\ cache[p] = None THEN Probe(manifests, p) ELSE cache[p]
    BY <1>3, <2>1, FillAsks
  <2>. QED  BY <2>2
<1>5. \A p \in Plugin : Probe(manifests, p)' = Probe(manifests, p)
  BY <1>4, SameVerdict DEF outsideVars
<1>6. \A p \in Plugin \ (stale' \cup Unheard) : health'[p] = Probe(manifests, p)
  BY <1>4 DEF CatalogInv, CacheInv, Blank
<1>7. CacheInv'
  BY <1>1, <1>5, <1>6 DEF CacheInv
<1>8. CardInv'
  BY <1>1, <1>5, <1>6 DEF CardInv, RenderPipeline
<1>9. PromiseInv'
  BY <1>2, <1>5 DEF CatalogInv, PromiseInv, runVars, CatalogTypeOK
<1>10. CatalogTypeOK'
  <2>1. boxes' \in [Plugin -> BOOLEAN \cup {None}]
    BY DEF RenderPipeline, Blank
  <2>2. changed' \subseteq Plugin
    BY <1>1 DEF RenderPipeline, Outstanding
  <2>. QED  BY <1>1, <1>2, <1>4, <2>1, <2>2 DEF CatalogTypeOK, RenderPipeline, outsideVars, runVars
<1>. QED  BY <1>1, <1>7, <1>8, <1>9, <1>10 DEF CatalogInv

LEMMA PipelinePageKeeps ==
    ASSUME CatalogInv, ShowPipeline \/ OnRecheck
    PROVE  CatalogInv'
<1>1. health \in [Plugin -> Verdict \cup {None}] /\ stale \subseteq Plugin
  BY DEF CatalogInv, CatalogTypeOK
<1>2. Blank \in [Plugin -> Verdict \cup {None}]
  BY DEF Blank
<1>3. CASE ShowPipeline
  BY <1>1, <1>3, RenderKeeps DEF ShowPipeline
<1>4. CASE OnRecheck
  BY <1>1, <1>2, <1>4, RenderKeeps DEF OnRecheck
<1>. QED  BY <1>3, <1>4

LEMMA ShowCenterKeeps ==
    ASSUME CatalogInv, ShowCenter
    PROVE  CatalogInv'
<1>1. /\ TasksInv' /\ InstallsInv' /\ TasksTypeOK' /\ Unheard' = Unheard
  BY InstallsAlone DEF ShowCenter
<1>2. /\ manifests \in SUBSET Plugin /\ CatalogTypeOK
      /\ health \in [Plugin -> Verdict \cup {None}]
  BY DEF CatalogInv, CatalogTypeOK
<1>3. Fill(health, manifests, manifests) /\ UNCHANGED <<disk, tools>>
  BY DEF ShowCenter, outsideVars
<1>4. /\ health' \in [Plugin -> Verdict \cup {None}]
      /\ modules' \subseteq modules \cup manifests
      /\ \A p \in Plugin : Importable(p)' <=> Importable(p)
      /\ \A p \in Plugin : health'[p] =
            IF p \in manifests /\ health[p] = None THEN Probe(manifests, p) ELSE health[p]
  BY <1>2, <1>3, FillAsks
<1>5. \A p \in Plugin : Probe(manifests, p)' = Probe(manifests, p)
  BY <1>4, SameVerdict DEF ShowCenter, outsideVars
<1>6. CacheInv'
  BY <1>1, <1>4, <1>5 DEF CatalogInv, CacheInv, ShowCenter
<1>7. CardInv'
  BY DEF CardInv, ShowCenter
<1>8. PromiseInv'
  BY <1>2, <1>5 DEF CatalogInv, PromiseInv, ShowCenter, runVars, CatalogTypeOK
<1>9. CatalogTypeOK'
  <2>1. boxes' \in [Plugin -> BOOLEAN \cup {None}]
    BY <1>2 DEF ShowCenter, Boxes, CatalogTypeOK, PluginRow
  <2>2. pipeline' \in [Plugin -> Verdict \cup {None}]
    BY DEF ShowCenter, Blank
  <2>. QED  BY <1>1, <1>2, <1>4, <2>1, <2>2 DEF CatalogTypeOK, ShowCenter, outsideVars, runVars
<1>. QED  BY <1>1, <1>6, <1>7, <1>8, <1>9 DEF CatalogInv, ShowCenter

LEMMA ShowToolsKeeps ==
    ASSUME CatalogInv, ShowTools
    PROVE  CatalogInv'
<1>1. /\ TasksInv' /\ InstallsInv' /\ TasksTypeOK' /\ Unheard' = Unheard
  BY InstallsAlone DEF ShowTools
<1>2. \A p \in Plugin : Probe(manifests, p)' = Probe(manifests, p)
  BY DEF Probe, Importable, ShowTools, outsideVars, managerVars
<1>3. CacheInv' /\ CardInv' /\ PromiseInv'
  BY <1>1, <1>2 DEF CatalogInv, CatalogTypeOK, CacheInv, CardInv, PromiseInv, ShowTools, managerVars, runVars
<1>4. CatalogTypeOK'
  <2>1. boxes' \in [Plugin -> BOOLEAN \cup {None}] /\ pipeline' \in [Plugin -> Verdict \cup {None}]
    BY DEF ShowTools, Blank
  <2>. QED  BY <1>1, <2>1 DEF CatalogInv, CatalogTypeOK, ShowTools, outsideVars, managerVars, runVars
<1>. QED  BY <1>1, <1>3, <1>4 DEF CatalogInv, ShowTools, managerVars

\* A plugin new to the table is enabled, and that is then the choice, too.
LEMMA UpsertKeepsChoice ==
    ASSUME CatalogInv, CatalogAssumption, NEW some \in SUBSET Plugin, rows' = Upsert(some),
           choice' = [p \in Plugin |-> IF choice[p] = None THEN rows'[p] ELSE choice[p]]
    PROVE  /\ rows' \in [Plugin -> PluginRow \cup {None}] /\ rows' = choice'
           /\ \A p \in some : rows'[p] # None
           /\ \A p \in Plugin : rows[p] # None => rows'[p] # None
<1>1. rows \in [Plugin -> PluginRow \cup {None}] /\ rows = choice /\ None \notin BOOLEAN
  BY DEF CatalogInv, CatalogTypeOK, CatalogAssumption
<1>2. \A p \in Plugin : rows'[p] = IF p \in some /\ rows[p] = None THEN TRUE ELSE rows[p]
  BY DEF Upsert
<1>3. \A p \in Plugin : rows'[p] = choice'[p]
  BY <1>1, <1>2
<1>4. rows' = [p \in Plugin |-> rows'[p]] /\ choice' = [p \in Plugin |-> choice'[p]]
  <2>1. DOMAIN rows' = Plugin /\ DOMAIN choice' = Plugin
    BY DEF Upsert
  <2>. QED  BY <2>1 DEF Upsert
<1>5. rows' = choice'
  BY <1>3, <1>4
<1>6. \A p \in Plugin : rows'[p] \in PluginRow \cup {None}
  BY <1>1, <1>2 DEF PluginRow
<1>7. \A p \in some : rows'[p] # None
  BY <1>1, <1>2
<1>. QED  BY <1>1, <1>2, <1>4, <1>5, <1>6, <1>7

LEMMA RescanKeeps ==
    ASSUME CatalogInv, CatalogAssumption, OnRescan
    PROVE  CatalogInv'
<1>1. /\ TasksInv' /\ InstallsInv' /\ TasksTypeOK' /\ Unheard' = Unheard
  BY InstallsAlone DEF OnRescan
<1>2. CatalogTypeOK /\ manifests \subseteq Plugin /\ Readable \subseteq Plugin
  BY DEF CatalogInv, CatalogTypeOK, Readable
<1>3. PICK some \in SUBSET Readable :
          manifests' = manifests \cup some /\ rows' = Upsert(some)
  BY DEF OnRescan
<1>4. some \in SUBSET Plugin /\ manifests' \in SUBSET Plugin
  BY <1>2, <1>3
<1>5. /\ rows' \in [Plugin -> PluginRow \cup {None}] /\ rows' = choice'
      /\ \A p \in some : rows'[p] # None
      /\ \A p \in Plugin : rows[p] # None => rows'[p] # None
  BY <1>3, <1>4, UpsertKeepsChoice DEF OnRescan
<1>6. /\ health' \in [Plugin -> Verdict \cup {None}] /\ modules' \subseteq modules \cup manifests'
      /\ \A p \in Plugin : Importable(p)' <=> Importable(p)
      /\ boxes' \in [Plugin -> BOOLEAN \cup {None}]
      /\ stale' \subseteq Plugin /\ failures' \in 0..MaxFailures
      /\ CacheInv'
  <2>1. CASE /\ Fill(Blank, manifests', manifests') /\ boxes' = Boxes(manifests', rows')
             /\ stale' = {} /\ UNCHANGED failures
    <3>1. Blank \in [Plugin -> Verdict \cup {None}] /\ UNCHANGED <<disk, tools>>
      BY DEF Blank, OnRescan
    <3>2. /\ health' \in [Plugin -> Verdict \cup {None}]
          /\ modules' \subseteq modules \cup manifests'
          /\ \A p \in Plugin : Importable(p)' <=> Importable(p)
          /\ \A p \in Plugin : health'[p] =
                IF p \in manifests' /\ Blank[p] = None THEN Probe(manifests', p) ELSE Blank[p]
      BY <1>4, <2>1, <3>1, FillAsks
    <3>3. \A p \in Plugin : Probe(manifests, p)' = Probe(manifests', p)
      BY <3>1, <3>2 DEF Probe
    <3>4. CacheInv'
      BY <3>2, <3>3 DEF CacheInv, Blank
    <3>5. boxes' \in [Plugin -> BOOLEAN \cup {None}]
      BY <1>5, <2>1 DEF Boxes, PluginRow
    <3>. QED  BY <1>2, <2>1, <3>2, <3>4, <3>5 DEF CatalogTypeOK
  <2>2. CASE /\ failures > 0 /\ failures' = failures - 1
             /\ UNCHANGED <<modules, health, boxes>>
             /\ stale' = stale \cup (manifests' \ manifests)
    <3>1. \A p \in Plugin : Importable(p)' <=> Importable(p)
      BY <2>2 DEF Importable, OnRescan
    <3>2. \A p \in Plugin \ stale' : p \in manifests' <=> p \in manifests
      BY <1>3, <2>2
    <3>3. \A p \in Plugin \ stale' : Probe(manifests, p)' = Probe(manifests, p)
      BY <3>1, <3>2, SameVerdict DEF OnRescan
    <3>4. CacheInv'
      BY <1>1, <2>2, <3>3 DEF CatalogInv, CacheInv
    <3>5. failures' \in 0..MaxFailures
      BY <1>2, <2>2, CatalogAssumption DEF CatalogTypeOK, CatalogAssumption
    <3>. QED  BY <1>2, <1>4, <2>2, <3>1, <3>4, <3>5 DEF CatalogTypeOK
  <2>. QED  BY <2>1, <2>2 DEF OnRescan
<1>7. CardInv'
  BY DEF CardInv, OnRescan
<1>8. PromiseInv'
  <2>1. ASSUME NEW p \in todo', p \notin doubtful'
        PROVE  foretold'[p] = Probe(manifests, p)'
    <3>1. p \in Plugin /\ p \in todo \ doubtful /\ (p \in manifests' <=> p \in manifests)
      BY <1>2, <1>3, <2>1 DEF OnRescan, CatalogTypeOK
    <3>2. Probe(manifests, p)' = Probe(manifests, p)
      BY <1>6, <3>1, SameVerdict DEF OnRescan
    <3>. QED  BY <3>1, <3>2 DEF CatalogInv, PromiseInv, OnRescan
  <2>. QED  BY <2>1 DEF PromiseInv
<1>9. CatalogTypeOK'
  <2>1. manifests' \subseteq {p \in Plugin : rows'[p] # None} /\ modules' \subseteq manifests'
    BY <1>2, <1>3, <1>4, <1>5, <1>6 DEF CatalogTypeOK
  <2>2. choice' \in [Plugin -> BOOLEAN \cup {None}]
    BY <1>5 DEF PluginRow
  <2>3. changed' \subseteq Plugin /\ doubtful' \subseteq Plugin
    BY <1>2, <1>4 DEF OnRescan, CatalogTypeOK
  <2>. QED  BY <1>1, <1>2, <1>5, <1>6, <2>1, <2>2, <2>3 DEF CatalogTypeOK, OnRescan
<1>. QED  BY <1>1, <1>5, <1>6, <1>7, <1>8, <1>9 DEF CatalogInv

\* The row and the choice go the way of the box, or neither does.
LEMMA ToggleKeeps ==
    ASSUME CatalogInv, CatalogAssumption, NEW p \in Plugin, OnToggle(p)
    PROVE  CatalogInv'
<1>1. /\ TasksInv' /\ InstallsInv' /\ TasksTypeOK' /\ Unheard' = Unheard
  BY InstallsAlone DEF OnToggle
<1>2. /\ CatalogTypeOK /\ rows = choice /\ None \notin BOOLEAN
      /\ rows \in [Plugin -> PluginRow \cup {None}] /\ boxes \in [Plugin -> BOOLEAN \cup {None}]
  BY DEF CatalogInv, CatalogTypeOK, CatalogAssumption
<1>3. PICK set \in BOOLEAN : boxes' = [boxes EXCEPT ![p] = set]
  BY Zenon DEF OnToggle
<1>4. boxes'[p] = set /\ boxes' \in [Plugin -> BOOLEAN \cup {None}]
  BY <1>2, <1>3
<1>5. \/ rows' = [rows EXCEPT ![p] = set] /\ choice' = [choice EXCEPT ![p] = set]
      \/ rows' = rows /\ choice' = choice
  BY <1>4, Zenon DEF OnToggle
<1>6. rows' = choice'
  BY <1>2, <1>5
<1>7. rows' \in [Plugin -> PluginRow \cup {None}] /\ \A q \in Plugin : rows[q] # None => rows'[q] # None
  BY <1>2, <1>5 DEF PluginRow
<1>8. failures' \in 0..MaxFailures
  <2>1. failures' = failures \/ (failures > 0 /\ failures' = failures - 1)
    BY DEF OnToggle
  <2>. QED  BY <1>2, <2>1, CatalogAssumption DEF CatalogTypeOK, CatalogAssumption
<1>9. \A q \in Plugin : Probe(manifests, q)' = Probe(manifests, q)
  BY DEF Probe, Importable, OnToggle
<1>10. CacheInv' /\ CardInv' /\ PromiseInv'
  <2>1. UNCHANGED <<health, stale, visible, pipeline, changed, todo, doubtful, foretold>>
    BY DEF OnToggle, runVars
  <2>. QED  BY <1>1, <1>2, <1>9, <2>1 DEF CatalogInv, CatalogTypeOK, CacheInv, CardInv, PromiseInv
<1>11. CatalogTypeOK'
  <2>1. manifests' \subseteq {q \in Plugin : rows'[q] # None} /\ modules' \subseteq manifests'
    BY <1>2, <1>7 DEF OnToggle, CatalogTypeOK
  <2>2. choice' \in [Plugin -> BOOLEAN \cup {None}]
    BY <1>6, <1>7 DEF PluginRow
  <2>. QED  BY <1>1, <1>2, <1>4, <1>7, <1>8, <2>1, <2>2 DEF CatalogTypeOK, OnToggle, runVars
<1>. QED  BY <1>1, <1>6, <1>10, <1>11 DEF CatalogInv

\* A task that waits or runs is an install somebody asked for and awaits.
LEMMA TaskIsInstall ==
    ASSUME CatalogInv, NEW t \in Task, future[t] # "none", answers[t] = <<>>
    PROVE  t \in pending /\ install[t] \in Request
BY DEF CatalogInv, InstallsInv, TasksInv, AnsweredOnce

\* What the answers and the installs of the catalog amount to when no verdict is
\* made or asked for.
LEMMA TaskStepKeeps ==
    ASSUME CatalogInv, [CatalogNext]_catalogVars,
           InstallsInv', CacheInv', CardInv', PromiseInv',
           tools' \subseteq Plugin, failures' \in 0..MaxFailures,
           health' \in [Plugin -> Verdict \cup {None}],
           stale' \cup changed' \cup doubtful' \subseteq Plugin,
           UNCHANGED <<disk, events, managerVars, pageVars, todo, outcome, foretold, choice>>
    PROVE  CatalogInv'
<1>1. TasksInv'
  BY CatalogIsTasks, TasksInvStep DEF CatalogInv
<1>2. CatalogTypeOK'
  <2>1. \A t \in Task : install'[t] = NoInstall \/ install'[t] \in Request
    BY DEF InstallsInv
  <2>. QED  BY <1>1, <2>1 DEF CatalogInv, CatalogTypeOK, TasksInv, managerVars, pageVars, Request
<1>. QED  BY <1>1, <1>2 DEF CatalogInv, managerVars

LEMMA InstallKeeps ==
    ASSUME CatalogInv, NEW p \in Plugin, NEW t \in Task, OnInstall(t, p)
    PROVE  CatalogInv'
<1>1. PICK request \in Request : install' = [install EXCEPT ![t] = request]
  BY DEF OnInstall, Request
<1>2. [CatalogNext]_catalogVars
  BY DEF CatalogNext
<1>3. /\ future[t] = "none" /\ future' = [future EXCEPT ![t] = "queued"] /\ answers' = answers
      /\ handed' = handed \cup {t} /\ pending' = pending \cup {t}
  BY DEF OnInstall, Run, Submit
<1>4. /\ future \in [Task -> Future] /\ install \in [Task -> Request \cup {NoInstall}]
      /\ handed \subseteq Task /\ pending \subseteq Task
  BY DEF CatalogInv, InstallsInv, TasksInv, TasksTypeOK
<1>5. InstallsInv'
  BY <1>1, <1>3, <1>4 DEF CatalogInv, InstallsInv
<1>6. Unheard' = Unheard
  <2>1. future'[t] # "result" /\ future[t] # "result"
    BY <1>3, <1>4
  <2>2. \A x \in Task : x # t => install'[x] = install[x] /\ future'[x] = future[x]
    BY <1>1, <1>3, <1>4
  <2>. QED  BY <1>3, <1>4, <2>1, <2>2 DEF Unheard
<1>7. CacheInv' /\ CardInv' /\ PromiseInv'
  <2>1. \A q \in Plugin : Probe(manifests, q)' = Probe(manifests, q)
    BY DEF Probe, Importable, OnInstall, outsideVars, managerVars
  <2>. QED  BY <1>6, <2>1 DEF CatalogInv, CatalogTypeOK, CacheInv, CardInv, PromiseInv, OnInstall,
                              managerVars, pageVars, runVars
<1>8. /\ tools' \subseteq Plugin /\ failures' \in 0..MaxFailures
      /\ health' \in [Plugin -> Verdict \cup {None}]
      /\ stale' \cup changed' \cup doubtful' \subseteq Plugin
  BY DEF CatalogInv, CatalogTypeOK, OnInstall, outsideVars, runVars
<1>9. UNCHANGED <<disk, events, managerVars, pageVars, todo, outcome, foretold, choice>>
  BY DEF OnInstall, outsideVars, runVars
<1>. QED  BY <1>2, <1>5, <1>7, <1>8, <1>9, TaskStepKeeps

\* A thread takes an install up, or the timer looks round.
LEMMA PoolKeeps ==
    ASSUME CatalogInv, PollRest \/ \E t \in Task : Begin(t)
    PROVE  CatalogInv'
<1>1. [CatalogNext]_catalogVars
  BY DEF CatalogNext
<1>2. /\ UNCHANGED <<outsideVars, managerVars, health, pageVars, install, runVars, choice, stale, changed>>
      /\ UNCHANGED <<answers, handed>>
  BY DEF PollRest, Begin, TakeUp, PollBegin, PollEnd, PollSkip, historyVars
<1>3. /\ \A t \in Task : future'[t] = "none" <=> future[t] = "none"
      /\ \A t \in Task : future'[t] = "result" <=> future[t] = "result"
      /\ \A t \in Task : answers[t] = <<>> => (t \in pending' <=> t \in pending)
  <2>1. CASE PollBegin \/ \E t \in Task : PollSkip(t)
    BY <2>1 DEF PollBegin, PollSkip, poolVars
  <2>2. CASE PollEnd
    BY <2>2 DEF PollEnd, poolVars, CatalogInv, TasksInv, TasksTypeOK, PollInv
  <2>3. CASE \E t \in Task : TakeUp(t)
    <3>1. PICK t \in Task : TakeUp(t)
      BY <2>3
    <3>2. pool_queue \in Seq(Task) /\ pool_queue # <<>> /\ t = pool_queue[1]
      BY <3>1, HeadTailProperties DEF TakeUp, CatalogInv, TasksInv, TasksTypeOK
    <3>3. 1 \in DOMAIN pool_queue
      BY <3>2, EmptySeq
    <3>4. future[t] = "queued"
      BY <3>2, <3>3 DEF CatalogInv, TasksInv, QueueInv
    <3>5. future' = [future EXCEPT ![t] = "running"] /\ pending' = pending /\ future \in [Task -> Future]
      BY <3>1 DEF TakeUp, CatalogInv, TasksInv, TasksTypeOK
    <3>. QED  BY <3>4, <3>5
  <2>. QED  BY <2>1, <2>2, <2>3 DEF PollRest, Begin
<1>4. InstallsInv'
  BY <1>2, <1>3 DEF CatalogInv, InstallsInv, TasksInv, TasksTypeOK
<1>5. Unheard' = Unheard
  <2>1. pending \subseteq Task /\ pending' \subseteq Task
    BY <1>1, CatalogIsTasks, TasksInvStep DEF CatalogInv, TasksInv, TasksTypeOK
  <2>. QED  BY <1>2, <1>3, <2>1 DEF Unheard
<1>6. CacheInv' /\ CardInv' /\ PromiseInv'
  <2>1. \A q \in Plugin : Probe(manifests, q)' = Probe(manifests, q)
    BY <1>2 DEF Probe, Importable, outsideVars, managerVars
  <2>. QED  BY <1>2, <1>5, <2>1 DEF CatalogInv, CatalogTypeOK, CacheInv, CardInv, PromiseInv,
                                     managerVars, pageVars, runVars
<1>7. /\ tools' \subseteq Plugin /\ failures' \in 0..MaxFailures
      /\ health' \in [Plugin -> Verdict \cup {None}]
      /\ stale' \cup changed' \cup doubtful' \subseteq Plugin
  BY <1>2 DEF CatalogInv, CatalogTypeOK, outsideVars, runVars
<1>8. UNCHANGED <<disk, events, managerVars, pageVars, todo, outcome, foretold, choice>>
  BY <1>2 DEF outsideVars, runVars
<1>. QED  BY <1>1, <1>4, <1>6, <1>7, <1>8, TaskStepKeeps

\* The tool is there now, or may be: the verdict is in doubt until it is heard of.
LEMMA EndsKeeps ==
    ASSUME CatalogInv, CatalogAssumption, NEW t \in Task, Ends(t)
    PROVE  CatalogInv'
<1>1. [CatalogNext]_catalogVars
  BY DEF CatalogNext
<1>2. PICK how \in {"result", "error"} : Settle(t, how)
  BY DEF Ends
<1>3. /\ future \in [Task -> Future] /\ answers[t] = <<>> /\ future[t] = "running"
      /\ future' = [future EXCEPT ![t] = how] /\ UNCHANGED <<answers, handed, pending>>
  BY <1>2 DEF Settle, CatalogInv, TasksInv, TasksTypeOK, PollInv, Done, historyVars
<1>4. t \in pending /\ install[t] \in Request
  BY <1>3, TaskIsInstall
<1>5. PICK p \in Plugin, page \in {"toolbox", "settings"} : install[t] = [plugin |-> p, page |-> page]
  BY <1>4 DEF Request
<1>6. /\ Doubt(p) /\ tools' \in {tools, tools \cup {p}}
      /\ stale' \in {stale, stale \cup {p}}
      /\ p \in stale' \/ (page = "toolbox" /\ how = "result")
      /\ failures' = failures \/ (failures > 0 /\ failures' = failures - 1)
  <2>1. install[t].plugin = p /\ install[t].page = page
    BY <1>5
  <2>. QED  BY <1>2, <1>3, <2>1 DEF Ends, Settle
<1>7. UNCHANGED <<disk, events, managerVars, health, pageVars, install, todo, outcome, foretold, choice>>
  BY DEF Ends
<1>8. InstallsInv'
  BY <1>3, <1>7 DEF CatalogInv, InstallsInv
<1>9. Unheard \subseteq Unheard' /\ p \in stale' \cup Unheard'
  <2>1. pending \subseteq Task
    BY DEF CatalogInv, TasksInv, TasksTypeOK
  <2>2. Unheard \subseteq Unheard'
    BY <1>3, <1>7, <2>1 DEF Unheard
  <2>3. page = "toolbox" /\ how = "result" => p \in Unheard'
    BY <1>3, <1>4, <1>5, <1>7, <2>1 DEF Unheard
  <2>. QED  BY <1>6, <2>2, <2>3
<1>10. \A q \in Plugin : q # p => Probe(manifests, q)' = Probe(manifests, q)
  BY <1>6, <1>7 DEF Probe, Importable, managerVars
<1>11. CacheInv'
  BY <1>6, <1>7, <1>9, <1>10 DEF CatalogInv, CacheInv
<1>12. CardInv'
  BY <1>6, <1>7, <1>10 DEF CatalogInv, CardInv, Doubt, pageVars
<1>13. PromiseInv'
  BY <1>6, <1>7, <1>10 DEF CatalogInv, CatalogTypeOK, PromiseInv, Doubt
<1>14. tools' \subseteq Plugin /\ stale' \cup changed' \cup doubtful' \subseteq Plugin
  BY <1>6 DEF CatalogInv, CatalogTypeOK, Doubt
<1>15. failures' \in 0..MaxFailures
  BY <1>6, CatalogAssumption DEF CatalogInv, CatalogTypeOK, CatalogAssumption
<1>16. health' \in [Plugin -> Verdict \cup {None}]
  BY <1>7 DEF CatalogInv, CatalogTypeOK
<1>. QED  BY <1>1, <1>7, <1>8, <1>11, <1>12, <1>13, <1>14, <1>15, <1>16, TaskStepKeeps

\* The Toolbox hears of an install and throws the verdicts away; what else is heard
\* of was in stale, or has been probed since.
LEMMA AnswerKeepsCatalog ==
    ASSUME CatalogInv, NEW t \in Task, Answer(t)
    PROVE  CatalogInv'
<1>1. [CatalogNext]_catalogVars
  BY DEF CatalogNext
<1>2. /\ future \in [Task -> Future] /\ answers \in [Task -> Seq({"result", "error"})]
      /\ install \in [Task -> Request \cup {NoInstall}] /\ handed \subseteq Task /\ pending \subseteq Task
      /\ t \in pending /\ Done(t) /\ answers[t] = <<>>
  BY DEF CatalogInv, InstallsInv, TasksInv, TasksTypeOK, PollInv, Answer, PollAnswer
<1>3. /\ answers' = [answers EXCEPT ![t] = <<future[t]>>] /\ install' = [install EXCEPT ![t] = NoInstall]
      /\ UNCHANGED <<future, handed, pending>>
      /\ UNCHANGED <<outsideVars, managerVars, pageVars, runVars, choice, changed>>
  BY <1>2 DEF Answer, PollAnswer, poolVars
<1>4. install[t] \in Request
  BY <1>2, TaskIsInstall DEF Done
<1>5. InstallsInv'
  BY <1>2, <1>3 DEF CatalogInv, InstallsInv
<1>6. \A q \in Plugin : Probe(manifests, q)' = Probe(manifests, q)
  BY <1>3 DEF Probe, Importable, outsideVars, managerVars
<1>7. CacheInv' /\ health' \in [Plugin -> Verdict \cup {None}] /\ stale' \subseteq Plugin
  <2>1. CASE install[t].page = "toolbox" /\ future[t] = "result"
    BY <2>1 DEF Answer, CacheInv, Blank
  <2>2. CASE ~(install[t].page = "toolbox" /\ future[t] = "result")
    <3>1. UNCHANGED <<health, stale>>
      BY <2>2 DEF Answer
    <3>2. \A q \in Plugin : ~(install[t] = [plugin |-> q, page |-> "toolbox"] /\ future[t] = "result")
      BY <2>2
    <3>3. Unheard \subseteq Unheard'
      BY <1>2, <1>3, <3>2 DEF Unheard
    <3>. QED  BY <1>6, <3>1, <3>3 DEF CatalogInv, CatalogTypeOK, CacheInv
  <2>. QED  BY <2>1, <2>2
<1>8. CardInv' /\ PromiseInv'
  BY <1>3, <1>6 DEF CatalogInv, CatalogTypeOK, CardInv, PromiseInv, pageVars, runVars
<1>9. /\ tools' \subseteq Plugin /\ failures' \in 0..MaxFailures
      /\ stale' \cup changed' \cup doubtful' \subseteq Plugin
  BY <1>3, <1>7 DEF CatalogInv, CatalogTypeOK, outsideVars, runVars
<1>10. UNCHANGED <<disk, events, managerVars, pageVars, todo, outcome, foretold, choice>>
  BY <1>3 DEF outsideVars, runVars
<1>. QED  BY <1>1, <1>5, <1>7, <1>8, <1>9, <1>10, TaskStepKeeps

-----------------------------------------------------------------------------
\* The rows on the screen are the promise, but for those in doubt.
LEMMA RunKeepsPromise ==
    ASSUME CatalogInv, OnRun
    PROVE  CatalogInv'
<1>1. /\ TasksInv' /\ InstallsInv' /\ TasksTypeOK' /\ Unheard' = Unheard
  BY InstallsAlone DEF OnRun
<1>2. \A p \in Plugin : Probe(manifests, p)' = Probe(manifests, p)
  BY DEF Probe, Importable, OnRun, outsideVars, managerVars
<1>3. CacheInv' /\ CardInv' /\ PromiseInv'
  BY <1>1, <1>2 DEF CatalogInv, CacheInv, CardInv, PromiseInv, OnRun, managerVars, pageVars
<1>4. CatalogTypeOK'
  BY <1>1 DEF CatalogInv, CatalogTypeOK, OnRun, outsideVars, managerVars, pageVars
<1>. QED  BY <1>1, <1>3, <1>4 DEF CatalogInv, OnRun, managerVars

Outcome == {"ran", "unmet", "skipped", "failed", "disabled"}

\* A step takes the plugin as it finds it and may import it.
LEMMA StepFacts ==
    ASSUME CatalogInv, NEW p \in Plugin, Step(p)
    PROVE  /\ p \in todo /\ todo' = todo \ {p}
           /\ outcome' \in Outcome
           /\ outcome' = "ran" => rows[p] = TRUE
           /\ outcome' # "disabled" => (outcome' \in Reached(p) <=> Probe(manifests, p) = "healthy")
           /\ modules \subseteq modules' /\ modules' \subseteq manifests
           /\ \A q \in Plugin : Importable(q)' <=> Importable(q)
<1>0. modules \subseteq manifests
  BY DEF CatalogInv, CatalogTypeOK
<1>1. CASE p \in manifests /\ rows[p] = FALSE /\ Ended(p, "disabled") /\ UNCHANGED modules
  BY <1>0, <1>1 DEF Ended, Importable, Outcome, outsideVars
<1>2. CASE /\ ~(p \in manifests /\ (rows[p] = FALSE \/ Importable(p)))
           /\ Ended(p, "failed") /\ UNCHANGED modules
  <2>1. ~(p \in manifests /\ Importable(p))
    BY <1>2
  <2>. QED  BY <1>0, <1>2, <2>1 DEF Ended, Probe, Importable, Outcome, Reached, outsideVars
<1>3. ASSUME NEW how \in HowItEnds(p), rows[p] = TRUE, Loaded(p), Ended(p, how)
      PROVE  /\ p \in todo /\ todo' = todo \ {p}
             /\ outcome' \in Outcome /\ rows[p] = TRUE
             /\ outcome' \in Reached(p) <=> Probe(manifests, p) = "healthy"
             /\ modules \subseteq modules' /\ modules' \subseteq manifests
             /\ \A q \in Plugin : Importable(q)' <=> Importable(q)
  <2>1. how \in Outcome /\ (how \in Reached(p) <=> p \in tools)
    BY DEF HowItEnds, Reached, Outcome
  <2>. QED  BY <1>0, <1>3, <2>1 DEF Ended, Loaded, Probe, Importable, outsideVars
<1>. QED  BY <1>1, <1>2, <1>3 DEF Step

LEMMA StepKeeps ==
    ASSUME CatalogInv, NEW p \in Plugin, Step(p)
    PROVE  CatalogInv'
<1>1. /\ UNCHANGED <<taskVars, outsideVars, rows, manifests, health, pageVars, install, choice,
                     stale, changed>>
      /\ \/ foretold' = Blank /\ doubtful' = {} /\ todo' = {}
         \/ UNCHANGED <<foretold, doubtful>>
  BY DEF Step, Ended
<1>2. /\ TasksInv' /\ InstallsInv' /\ TasksTypeOK' /\ Unheard' = Unheard
  BY <1>1, InstallsAlone
<1>3. /\ todo' = todo \ {p} /\ outcome' \in Outcome
      /\ modules' \subseteq manifests /\ \A q \in Plugin : Importable(q)' <=> Importable(q)
  BY StepFacts
<1>4. \A q \in Plugin : Probe(manifests, q)' = Probe(manifests, q)
  BY <1>1, <1>3, SameVerdict DEF outsideVars
<1>5. CacheInv' /\ CardInv'
  BY <1>1, <1>2, <1>4 DEF CatalogInv, CacheInv, CardInv, pageVars
<1>6. PromiseInv'
  BY <1>1, <1>3, <1>4 DEF CatalogInv, CatalogTypeOK, PromiseInv
<1>7. CatalogTypeOK'
  <2>1. foretold' \in [Plugin -> Verdict \cup {None}] /\ doubtful' \subseteq Plugin
    BY <1>1 DEF CatalogInv, CatalogTypeOK, Blank
  <2>. QED  BY <1>1, <1>2, <1>3, <2>1 DEF CatalogInv, CatalogTypeOK, Outcome, outsideVars, pageVars
<1>. QED  BY <1>1, <1>2, <1>5, <1>6, <1>7 DEF CatalogInv

\* Nobody is told of a change of the disk.
LEMMA DiskKeeps ==
    ASSUME CatalogInv, CatalogAssumption, NEW p \in Plugin, DiskChanges(p)
    PROVE  CatalogInv'
<1>1. /\ TasksInv' /\ InstallsInv' /\ TasksTypeOK' /\ Unheard' = Unheard
  BY InstallsAlone DEF DiskChanges
<1>2. /\ disk' \in [Plugin -> Content] /\ tools' \subseteq Plugin
      /\ \A q \in Plugin : q # p => disk'[q] = disk[q] /\ (q \in tools' <=> q \in tools)
  BY DEF DiskChanges, CatalogInv, CatalogTypeOK
<1>3. events' \in 0..MaxEvents
  BY CatalogAssumption DEF DiskChanges, CatalogInv, CatalogTypeOK, CatalogAssumption
<1>4. \A q \in Plugin : q # p => Probe(manifests, q)' = Probe(manifests, q)
  BY <1>2 DEF Probe, Importable, DiskChanges, managerVars
<1>5. CacheInv'
  BY <1>1, <1>4 DEF CatalogInv, CacheInv, DiskChanges, managerVars
<1>6. CardInv'
  BY <1>4 DEF CatalogInv, CardInv, DiskChanges, Doubt, pageVars
<1>7. PromiseInv'
  BY <1>4 DEF CatalogInv, CatalogTypeOK, PromiseInv, DiskChanges, Doubt
<1>8. CatalogTypeOK'
  <2>1. stale' \cup changed' \cup doubtful' \subseteq Plugin
    BY DEF DiskChanges, Doubt, CatalogInv, CatalogTypeOK
  <2>. QED  BY <1>1, <1>2, <1>3, <2>1 DEF CatalogInv, CatalogTypeOK, DiskChanges, managerVars, pageVars
<1>. QED  BY <1>1, <1>5, <1>6, <1>7, <1>8 DEF CatalogInv, DiskChanges, managerVars

\* The new process probes what it has discovered, and remembers the choices.
LEMMA RestartKeeps ==
    ASSUME CatalogInv, CatalogAssumption, Restart
    PROVE  CatalogInv'
<1>1. /\ TasksInv' /\ InstallsInv' /\ TasksTypeOK' /\ Unheard' = Unheard
  BY InstallsAlone DEF Restart
<1>2. manifests' \in SUBSET Readable /\ Readable \subseteq Plugin
  BY DEF Restart, Readable
<1>3. /\ rows' \in [Plugin -> PluginRow \cup {None}] /\ rows' = choice'
      /\ \A p \in manifests' : rows'[p] # None
  BY <1>2, UpsertKeepsChoice DEF Restart
<1>4. events' \in 0..MaxEvents /\ failures' \in 0..MaxFailures
  <2>1. failures' = failures \/ (failures > 0 /\ failures' = failures - 1)
    BY DEF Restart
  <2>. QED  BY <2>1, CatalogAssumption DEF Restart, CatalogInv, CatalogTypeOK, CatalogAssumption
<1>5. /\ UNCHANGED <<disk, tools>> /\ modules' = {p \in manifests' : disk[p] = "good"}
      /\ health' = [p \in Plugin |-> IF p \in modules' \cap tools THEN "healthy" ELSE "unavailable"]
  BY DEF Restart
<1>6. \A p \in Plugin : health'[p] = Probe(manifests, p)'
  <2>1. \A p \in manifests' : disk[p] \in {"broken", "good"}
    BY <1>2 DEF Readable
  <2>2. \A p \in manifests' : Importable(p)' <=> p \in modules'
    BY <1>5, <2>1 DEF Importable
  <2>. QED  BY <1>5, <2>2 DEF Probe
<1>7. CacheInv' /\ CardInv' /\ PromiseInv'
  BY <1>6 DEF CacheInv, CardInv, PromiseInv, Restart, runVars
<1>8. CatalogTypeOK'
  <2>1. /\ health' \in [Plugin -> Verdict \cup {None}] /\ pipeline' \in [Plugin -> Verdict \cup {None}]
        /\ boxes' \in [Plugin -> BOOLEAN \cup {None}]
    BY DEF Restart, Blank, Verdict
  <2>2. choice' \in [Plugin -> BOOLEAN \cup {None}]
    BY <1>3 DEF PluginRow
  <2>3. manifests' \subseteq {p \in Plugin : rows'[p] # None} /\ modules' \subseteq manifests'
    BY <1>2, <1>3, <1>5
  <2>. QED  BY <1>1, <1>3, <1>4, <2>1, <2>2, <2>3 DEF CatalogInv, CatalogTypeOK, Restart, runVars
<1>. QED  BY <1>1, <1>3, <1>7, <1>8 DEF CatalogInv

-----------------------------------------------------------------------------
LEMMA CatalogInvStep ==
    ASSUME CatalogAssumption, CatalogInv, [CatalogNext]_catalogVars
    PROVE  CatalogInv'
<1>1. CASE UNCHANGED catalogVars
  <2>1. /\ TasksInv' /\ InstallsInv' /\ TasksTypeOK' /\ Unheard' = Unheard
    BY <1>1, InstallsAlone DEF catalogVars
  <2>2. \A q \in Plugin : Probe(manifests, q)' = Probe(manifests, q)
    BY <1>1 DEF Probe, Importable, catalogVars, outsideVars, managerVars
  <2>3. CacheInv' /\ CardInv' /\ PromiseInv'
    BY <1>1, <2>1, <2>2 DEF CatalogInv, CatalogTypeOK, CacheInv, CardInv, PromiseInv, catalogVars,
                            managerVars, pageVars, runVars
  <2>4. CatalogTypeOK'
    BY <1>1, <2>1 DEF CatalogInv, CatalogTypeOK, catalogVars, outsideVars, managerVars, pageVars, runVars
  <2>. QED  BY <1>1, <2>1, <2>3, <2>4 DEF CatalogInv, catalogVars, managerVars
<1>2. CASE ShowPipeline \/ OnRecheck
  BY <1>2, PipelinePageKeeps
<1>3. CASE ShowCenter \/ ShowTools
  BY <1>3, ShowCenterKeeps, ShowToolsKeeps
<1>4. CASE OnRescan \/ OnRun \/ Restart
  BY <1>4, RescanKeeps, RunKeepsPromise, RestartKeeps
<1>5. CASE PollRest \/ \E t \in Task : Begin(t)
  BY <1>5, PoolKeeps
<1>6. ASSUME NEW p \in Plugin, OnToggle(p) \/ Step(p) \/ DiskChanges(p) \/ \E t \in Task : OnInstall(t, p)
      PROVE  CatalogInv'
  BY <1>6, ToggleKeeps, StepKeeps, DiskKeeps, InstallKeeps
<1>7. ASSUME NEW t \in Task, Ends(t) \/ Answer(t)
      PROVE  CatalogInv'
  BY <1>7, EndsKeeps, AnswerKeepsCatalog
<1>. QED  BY <1>1, <1>2, <1>3, <1>4, <1>5, <1>6, <1>7 DEF CatalogNext

LEMMA CatalogInvariant == CatalogSpec => []CatalogInv
<1>1. CatalogInit => CatalogInv
  BY CatalogInvInit, CatalogAssumption
<1>2. CatalogInv /\ [CatalogNext]_catalogVars => CatalogInv'
  BY CatalogInvStep, CatalogAssumption
<1>. QED  BY <1>1, <1>2, PTL DEF CatalogSpec

(***************************************************************************)
(* For any plugins, installs and failures: a verdict in the cache is the   *)
(* one the probe would give, but for plugins that changed in a way no page *)
(* throws the verdicts away for.                                           *)
(***************************************************************************)
THEOREM VerdictsCurrent == CatalogSpec => []HealthIsCurrent
<1>1. CatalogInv => HealthIsCurrent
  <2>. SUFFICES ASSUME CatalogInv PROVE HealthIsCurrent
    OBVIOUS
  <2>1. Unheard \subseteq Outstanding
    BY DEF Unheard, Outstanding
  <2>. QED  BY <2>1 DEF CatalogInv, CacheInv, HealthIsCurrent
<1>. QED  BY <1>1, CatalogInvariant, PTL

(***************************************************************************)
(* Only a step of a workflow takes a plugin off what is ahead of it.       *)
(***************************************************************************)
LEMMA OnlyStepsEnd ==
    ASSUME CatalogInv, [CatalogNext]_catalogVars, NEW p \in todo \ todo'
    PROVE  p \in Plugin /\ Step(p)
<1>1. p \in Plugin
  BY DEF CatalogInv, CatalogTypeOK
<1>2. CASE OnRun
  BY <1>2 DEF OnRun
<1>3. ASSUME NEW q \in Plugin, Step(q) PROVE q = p
  BY <1>3, StepFacts
<1>4. CASE UNCHANGED todo
  BY <1>4
<1>5. OnRun \/ UNCHANGED todo \/ \E q \in Plugin : Step(q)
  <2>1. CASE ShowPipeline \/ ShowCenter \/ ShowTools \/ OnRecheck \/ OnRescan \/ PollRest \/ Restart
    BY <2>1 DEF ShowPipeline, ShowCenter, ShowTools, OnRecheck, OnRescan, PollRest, Restart, runVars
  <2>2. ASSUME NEW q \in Plugin, OnToggle(q) \/ DiskChanges(q) \/ \E t \in Task : OnInstall(t, q)
        PROVE  UNCHANGED todo
    BY <2>2 DEF OnToggle, DiskChanges, OnInstall, runVars
  <2>3. ASSUME NEW t \in Task, Begin(t) \/ Ends(t) \/ Answer(t)
        PROVE  UNCHANGED todo
    BY <2>3 DEF Begin, Ends, Answer, runVars
  <2>4. CASE UNCHANGED catalogVars
    BY <2>4 DEF catalogVars, runVars
  <2>. QED  BY <2>1, <2>2, <2>3, <2>4 DEF CatalogNext
<1>. QED  BY <1>1, <1>2, <1>3, <1>4, <1>5

(***************************************************************************)
(* For any plugins and any order of steps, installs and changes: an        *)
(* enabled step of the workflow gets to its plugin, and the plugin to its  *)
(* tool, exactly if its row said READY; what a plugin wants beyond its     *)
(* tool is all that may still make it skip itself.                         *)
(***************************************************************************)
THEOREM CardForetells == CatalogSpec => PipelineForetells
<1>1. ASSUME CatalogInv, [CatalogNext]_catalogVars
      PROVE  [\A p \in (todo \ todo') \ doubtful :
                 outcome' = "disabled" \/ (outcome' \in Reached(p) <=> foretold[p] = "healthy")]_catalogVars
  <2>1. ASSUME NEW p \in (todo \ todo') \ doubtful
        PROVE  outcome' = "disabled" \/ (outcome' \in Reached(p) <=> foretold[p] = "healthy")
    <3>1. p \in Plugin /\ Step(p)
      BY <1>1, OnlyStepsEnd
    <3>2. outcome' # "disabled" => (outcome' \in Reached(p) <=> Probe(manifests, p) = "healthy")
      BY <1>1, <3>1, StepFacts
    <3>3. foretold[p] = Probe(manifests, p)
      BY <1>1, <2>1 DEF CatalogInv, PromiseInv
    <3>. QED  BY <3>2, <3>3
  <2>. QED  BY <2>1
<1>. QED  BY <1>1, CatalogInvariant, PTL DEF CatalogSpec, PipelineForetells

(***************************************************************************)
(* For any plugins and any history of rescans, restarts and failures: the  *)
(* table says what the user last chose, and no step runs against it.       *)
(***************************************************************************)
THEOREM ChoiceKept == CatalogSpec => ChoiceIsKept
<1>1. ASSUME CatalogInv, CatalogInv', [CatalogNext]_catalogVars
      PROVE  [/\ rows' = choice'
              /\ \A p \in todo \ todo' : outcome' = "ran" => choice[p] = TRUE]_catalogVars
  <2>1. ASSUME NEW p \in todo \ todo', outcome' = "ran" PROVE choice[p] = TRUE
    <3>1. p \in Plugin /\ Step(p)
      BY <1>1, OnlyStepsEnd
    <3>2. rows[p] = TRUE
      BY <1>1, <2>1, <3>1, StepFacts
    <3>. QED  BY <1>1, <3>2 DEF CatalogInv
  <2>. QED  BY <1>1, <2>1 DEF CatalogInv
<1>. QED  BY <1>1, CatalogInvariant, PTL DEF CatalogSpec, ChoiceIsKept
=============================================================================
