---------------------------- MODULE DeviceTools -----------------------------
(***************************************************************************)
(* The Frida Hub, ADB Toolkit and Network Analysis pages: a combo of       *)
(* devices, buttons that submit adb commands for the selected one, slots   *)
(* that show the answers and submit the next command.  Each page asks one  *)
(* thing of a device and turns it on or off: whether frida-server runs,    *)
(* whether the app under test is installed, whether the proxy is set.  The *)
(* iOS page is a simpler one of the kind: its device is the host typed     *)
(* into a field, and it asks whether SSH answers there.                    *)
(***************************************************************************)
EXTENDS BackgroundTasks

CONSTANTS
    Device,         \* serials
    Page,           \* some of "frida", "adb", "network", "ios"
    MaxEvents,      \* bound: changes of the devices from outside, pages gone to
    MaxFailures,    \* bound: adb commands that fail
    None

\* query: get_readiness, list_packages, _collect_state, assess_jailbreak.  on: start_frida_server,
\* install_apk, set_proxy.  off: stop_frida_server, uninstall_app, clear_proxy.
\* use: launch_app, force_stop_app.  props: get_device_properties.  scan:
\* scan_and_sync, _collect_devices.  server: start_adb_server.
Kind == {"query", "on", "off", "use", "props", "scan", "server"}

ASSUME DeviceToolsAssumption ==
    /\ Page \subseteq {"frida", "adb", "network", "ios"}
    /\ MaxEvents \in Nat /\ MaxFailures \in Nat
    /\ None \notin Task \cup Device \cup Page \cup Kind \cup {"settled"}

VARIABLES
    on,             \* page -> devices where its thing is on
    events, failures, \* still allowed
    known,          \* rows of the devices table
    visible,        \* page in the window
    selected,       \* page -> serial its combo shows, or None of an empty one
    jobs,           \* page -> keys of _jobs
    work,           \* task -> page, kind and locals of the command
    shown,          \* page -> last answer rendered, and the device it is of
    status,         \* page -> the command its status line announces, or "settled"
    following,      \* page whose slot is about to submit a query
    chosen,         \* page -> serial it began with or the user has last selected (history)
    crowded,        \* pages that have had two jobs at once (history)
    stale           \* pages whose devices have changed unasked (history)

deviceVars == <<on, events, failures, known>>
pageVars == <<visible, selected, jobs, shown, status, following>>
toolHistory == <<chosen, crowded, stale>>
toolsVars == <<taskVars, deviceVars, pageVars, work, toolHistory>>

NoWork == [page |-> None, kind |-> None, serial |-> None, at |-> "idle", result |-> FALSE]

\* The buttons of each page: which kinds they submit, and those of them that set
\* the status line while they are at it.
FridaButtons == [kinds |-> {"query", "on", "off"}, announced |-> {"query", "on"}]
AdbButtons == [kinds |-> Kind, announced |-> {"query", "on", "props", "scan", "server"}]
NetworkButtons == [kinds |-> {"query", "on", "off"}, announced |-> {"query", "on"}]
IosButtons == [kinds |-> {"query", "scan"}, announced |-> {"query", "scan"}]
Buttons(pg) ==
    CASE pg = "frida" -> FridaButtons [] pg = "adb" -> AdbButtons
      [] pg = "ios" -> IosButtons [] OTHER -> NetworkButtons

\* _on_finished of each page: the answers that write the status line, and those
\* after which the page queries the device selected by then.
FridaFinished(kind, result) == [settles |-> kind # "query", follows |-> kind # "query"]
AdbFinished(kind, result) == [settles |-> kind # "props", follows |-> kind = "off" /\ result]
NetworkFinished(kind, result) == [settles |-> TRUE, follows |-> kind # "query"]
IosFinished(kind, result) == [settles |-> TRUE, follows |-> FALSE]
Finished(t) ==
    LET kind == work[t].kind  result == work[t].result
    IN  CASE work[t].page = "frida" -> FridaFinished(kind, result)
          [] work[t].page = "adb" -> AdbFinished(kind, result)
          [] work[t].page = "ios" -> IosFinished(kind, result)
          [] OTHER -> NetworkFinished(kind, result)
Followed(t) == future[t] = "result" /\ Finished(t).follows

\* Bound: a click leaves a task free, and enough for the queries that will follow.
Free == {t \in Task : future[t] = "none"}
Owed == {t \in Task : t \in pending /\ answers[t] = <<>> /\ work[t].kind \in {"on", "off"}}
MayClick(kind) ==
    /\ Cardinality(Free) > 1
    /\ Cardinality(Free) > Cardinality(Owed) + (IF kind \in {"on", "off"} THEN 1 ELSE 0)

\* The pages are built when the window is: a combo shows the first of the rows there
\* are, if any, and the field of the iOS page is empty.
ToolsInit ==
    /\ TasksInit
    /\ \E all \in {{}, Device} : on = [pg \in Page |-> all]     \* bound: alike at first
    /\ events = MaxEvents /\ failures = MaxFailures
    /\ \E row \in Device \cup {None} :
          /\ known = {row} \ {None}
          /\ selected = [pg \in Page |-> IF pg = "ios" THEN None ELSE row]
    /\ visible \in Page /\ jobs = [pg \in Page |-> {}] /\ work = [t \in Task |-> NoWork]
    /\ shown = [pg \in Page |-> None] /\ status = [pg \in Page |-> None]
    /\ following = None
    /\ chosen = selected /\ crowded = {} /\ stale = {}

-----------------------------------------------------------------------------
\* A command is given the serial selected now.
SubmitFor(t, pg, kind, line) ==
    /\ Run(t)
    /\ jobs' = [jobs EXCEPT ![pg] = @ \cup {t}]
    /\ work' = [work EXCEPT ![t] = [page |-> pg, kind |-> kind, serial |-> selected[pg],
                                    at |-> "submitted", result |-> FALSE]]
    /\ status' = [status EXCEPT ![pg] = line]
    /\ crowded' = IF jobs[pg] = {} THEN crowded ELSE crowded \cup {pg}

Line(pg, kind) == IF kind \in Buttons(pg).announced THEN kind ELSE status[pg]

\* _serial and _package: all but two commands go to the device selected; Launch,
\* Force stop and Uninstall need a package of the last listing rendered, whichever
\* device that was of.
Ready(pg, kind) ==
    /\ kind \in {"scan", "server"} \/ selected[pg] # None
    /\ pg = "adb" /\ kind \in {"off", "use"} => shown[pg] # None /\ shown[pg].value

OnClick(t, pg, kind) ==
    /\ GuiIdle /\ visible = pg /\ kind \in Buttons(pg).kinds /\ MayClick(kind)
    /\ Ready(pg, kind)
    /\ SubmitFor(t, pg, kind, Line(pg, kind))
    /\ UNCHANGED <<deviceVars, visible, selected, shown, following, chosen, stale>>

\* A slot that misses something says what and submits nothing; no APK may have been
\* picked, and a port must be a number.  The Frida Hub says nothing.
Refuse(pg, kind) ==
    /\ GuiIdle /\ visible = pg /\ kind \in Buttons(pg).kinds
    /\ ~Ready(pg, kind) \/ (pg \in {"adb", "network"} /\ kind = "on")
    /\ status' = IF pg = "frida" THEN status ELSE [status EXCEPT ![pg] = "settled"]
    /\ UNCHANGED <<taskVars, deviceVars, visible, selected, jobs, shown, following, work, toolHistory>>

\* A row of the combo; on the iOS page whatever is typed.
Selectable(pg) == IF pg = "ios" THEN Device \cup {None} ELSE known

OnSelect(pg, d) ==
    /\ GuiIdle /\ visible = pg /\ d \in Selectable(pg) \ {selected[pg]}
    /\ selected' = [selected EXCEPT ![pg] = d]
    /\ chosen' = [chosen EXCEPT ![pg] = d]
    /\ UNCHANGED <<taskVars, deviceVars, visible, jobs, shown, status, following, work, crowded, stale>>

\* Mutant: the combo is filled anew and shows its first row.
ReloadAtFirst(pg) ==
    IF pg = "ios" \/ known = {} THEN UNCHANGED selected
    ELSE \E row \in known : selected' = [selected EXCEPT ![pg] = row]

\* The combo is filled anew; its selection is looked up again, and without one the
\* combo shows its first row by itself.  The field of the iOS page is left alone.
Reload(pg) ==
    IF pg = "ios" \/ known = {} THEN UNCHANGED selected
    ELSE \E row \in known :
            selected' = [selected EXCEPT ![pg] = IF @ \in known THEN @ ELSE row]

\* The page is shown: BasePage.showEvent.
Show(pg) ==
    /\ GuiIdle /\ events > 0 /\ events' = events - 1
    /\ visible' = pg /\ Reload(pg)
    /\ UNCHANGED <<taskVars, on, failures, known, jobs, shown, status, following, work, toolHistory>>

-----------------------------------------------------------------------------
\* The threads.
Begin(t) ==
    /\ TakeUp(t)
    /\ work' = [work EXCEPT ![t].at = "running"]
    /\ UNCHANGED <<deviceVars, pageVars, toolHistory>>

At(t, place) == future[t] = "running" /\ work[t].at = place
Fails(pg) == failures > 0 /\ failures' = failures - 1 /\ stale' = stale \cup {pg}
Return(t, value) ==
    /\ Settle(t, "result")
    /\ work' = [work EXCEPT ![t].at = "ended", ![t].result = value]
Raise(t) == Settle(t, "error") /\ work' = [work EXCEPT ![t].at = "ended"]

\* A command that does not get through answers with nothing.
Query(t) ==
    /\ At(t, "running") /\ work[t].kind = "query"
    /\ \/ Return(t, work[t].serial \in on[work[t].page]) /\ UNCHANGED <<failures, stale>>
       \/ Fails(work[t].page) /\ Return(t, FALSE)
    /\ UNCHANGED <<on, events, known, pageVars, chosen, crowded>>

\* start_frida_server may raise before it launches anything; what each reports of
\* its success goes to the status line only.
TurnOn(t) ==
    /\ At(t, "running") /\ work[t].kind = "on"
    /\ \/ /\ on' = [on EXCEPT ![work[t].page] = @ \cup {work[t].serial}]
          /\ stale' = IF work[t].page = "adb" THEN stale \cup {"adb"} ELSE stale
          /\ Return(t, TRUE) /\ UNCHANGED failures
       \/ /\ Fails(work[t].page) /\ UNCHANGED on
          /\ \/ Return(t, FALSE)
             \/ work[t].page # "adb" /\ Raise(t)
    /\ UNCHANGED <<events, known, pageVars, chosen, crowded>>

\* stop and clear_proxy return nothing, whatever adb did.
TurnOff(t) ==
    /\ At(t, "running") /\ work[t].kind = "off"
    /\ LET pg == work[t].page
       IN  \/ /\ Return(t, work[t].serial \in on[pg])
              /\ on' = [on EXCEPT ![pg] = @ \ {work[t].serial}]
              /\ UNCHANGED <<failures, stale>>
           \/ Fails(pg) /\ Return(t, FALSE) /\ UNCHANGED on
    /\ UNCHANGED <<events, known, pageVars, chosen, crowded>>

Use(t) ==
    /\ At(t, "running") /\ work[t].kind = "use"
    /\ Return(t, work[t].serial \in on["adb"])
    /\ UNCHANGED <<deviceVars, pageVars, toolHistory>>

\* What else the ADB Toolkit asks adb for: an answer, or an error.
ReadOrStart(t) ==
    /\ At(t, "running") /\ work[t].kind \in {"props", "server"}
    /\ Return(t, TRUE) \/ Raise(t)
    /\ UNCHANGED <<deviceVars, pageVars, toolHistory>>

\* scan_and_sync: new rows, or an error.
Scan(t) ==
    /\ At(t, "running") /\ work[t].kind = "scan" /\ work[t].page = "adb"
    /\ \/ known' = Device /\ Return(t, TRUE)
       \/ Raise(t) /\ UNCHANGED known
    /\ UNCHANGED <<on, events, failures, pageVars, toolHistory>>

\* _collect_devices keeps the errors of its two listings for the card; no row is
\* written.
CollectDevices(t) ==
    /\ At(t, "running") /\ work[t].kind = "scan" /\ work[t].page = "ios"
    /\ Return(t, TRUE)
    /\ UNCHANGED <<deviceVars, pageVars, toolHistory>>

\* A server dies, a setting is changed by hand, another page acts.  Bound: only once
\* the page has asked; before that it is one more initial state.
Change(pg, d) ==
    /\ events > 0 /\ events' = events - 1
    /\ jobs[pg] # {} \/ shown[pg] # None
    /\ on' = [on EXCEPT ![pg] = IF d \in @ THEN @ \ {d} ELSE @ \cup {d}]
    /\ stale' = stale \cup {pg}
    /\ UNCHANGED <<taskVars, failures, known, pageVars, work, chosen, crowded>>

\* The Devices page has scanned.
Discover ==
    /\ events > 0 /\ events' = events - 1
    /\ known # Device /\ known' = Device
    /\ UNCHANGED <<taskVars, on, failures, pageVars, work, toolHistory>>

-----------------------------------------------------------------------------
\* The slots.  Every page hears every answer and looks the job up in its own.
\* Mutant: a failed job is not taken out.
ForgetFinished(t) ==
    jobs' = IF future[t] = "error" THEN jobs ELSE [jobs EXCEPT ![work[t].page] = @ \ {t}]

Forget(t) == jobs' = [jobs EXCEPT ![work[t].page] = @ \ {t}]

Render(t) ==
    shown' = IF work[t].kind = "query" /\ future[t] = "result"
             THEN [shown EXCEPT ![work[t].page] = [serial |-> work[t].serial, value |-> work[t].result]]
             ELSE shown

\* A failure is written to every page's line.
SettleLine(t) ==
    status' = [pg \in Page |->
                  IF future[t] = "error" \/ (pg = work[t].page /\ Finished(t).settles)
                  THEN "settled" ELSE status[pg]]

AnswerPage(t) ==
    /\ following = None /\ PollAnswer(t)
    /\ Forget(t) /\ Render(t) /\ SettleLine(t)
    /\ following' = IF Followed(t) THEN work[t].page ELSE None
    /\ IF work[t].kind = "scan" /\ work[t].page = "adb" /\ future[t] = "result"
       THEN Reload("adb") ELSE UNCHANGED selected
    /\ work' = [work EXCEPT ![t] = NoWork]
    /\ UNCHANGED <<deviceVars, visible, toolHistory>>

\* Mutant: a switch that has been thrown is not looked at again.
FollowUpNever(pg) ==
    /\ following' = None
    /\ UNCHANGED <<taskVars, deviceVars, visible, selected, jobs, shown, status, work, toolHistory>>

\* _on_check, _on_list_packages at the end of the slot: for the device selected now.
\* There is one, the page having had one for the command and no row being deleted.
FollowUp(pg) ==
    /\ following' = None
    /\ \E t \in Free : SubmitFor(t, pg, "query", "query")
    /\ UNCHANGED <<deviceVars, visible, selected, shown, chosen, stale>>

PollRest ==
    /\ following = None
    /\ PollBegin \/ PollEnd \/ \E t \in Task : PollSkip(t)
    /\ UNCHANGED <<deviceVars, pageVars, work, toolHistory>>

-----------------------------------------------------------------------------
Thread(t) == Begin(t) \/ Query(t) \/ TurnOn(t) \/ TurnOff(t) \/ Use(t)
             \/ ReadOrStart(t) \/ Scan(t) \/ CollectDevices(t)
Poll ==
    \/ PollRest
    \/ \E t \in Task : AnswerPage(t)
    \/ \E pg \in Page : following = pg /\ FollowUp(pg)

ToolsNext ==
    \/ \E t \in Task : Thread(t)
    \/ \E t \in Task, pg \in Page, kind \in Kind : OnClick(t, pg, kind)
    \/ \E pg \in Page, kind \in Kind : Refuse(pg, kind)
    \/ \E pg \in Page, d \in Device \cup {None} : OnSelect(pg, d)
    \/ \E pg \in Page : Show(pg) \/ \E d \in Device : Change(pg, d)
    \/ Discover \/ Poll

ToolsSpec == ToolsInit /\ [][ToolsNext]_toolsVars

-----------------------------------------------------------------------------
ToolsTypeOK ==
    /\ TasksTypeOK
    /\ on \in [Page -> SUBSET Device] /\ known \subseteq Device
    /\ events \in 0..MaxEvents /\ failures \in 0..MaxFailures
    /\ visible \in Page /\ jobs \in [Page -> SUBSET Task]
    /\ selected \in [Page -> Device \cup {None}]
    /\ \A pg \in Page : selected[pg] \in Selectable(pg) \cup {None}
    /\ \A t \in Task :
          /\ work[t].page \in Page \cup {None} /\ work[t].kind \in Kind \cup {None}
          /\ work[t].serial \in Device \cup {None} /\ work[t].result \in BOOLEAN
          /\ work[t].at \in {"idle", "submitted", "running", "ended"}
    /\ shown \in [Page -> {None} \cup [serial : Device, value : BOOLEAN]]
    /\ status \in [Page -> Kind \cup {None, "settled"}] /\ following \in Page \cup {None}
    /\ chosen \in [Page -> Device \cup {None}] /\ crowded \subseteq Page /\ stale \subseteq Page

Unanswered(t) == t \in pending /\ answers[t] = <<>>

\* "Querying ..." and "Reading properties from ...": no answer takes them back.
Lingering(pg) == CASE pg = "frida" -> {"query"} [] pg = "adb" -> {"props"} [] OTHER -> {}

(***************************************************************************)
(* _jobs of a page are its jobs yet to be answered, whichever pages hear   *)
(* the answer, and a line that announces a command has one of that kind    *)
(* outstanding.  Left out of the second half are the two announcements     *)
(* that no answer takes back, the Frida Hub's "Querying ..." and the ADB   *)
(* Toolkit's "Reading properties from ...".                                *)
(***************************************************************************)
JobsAreOutstanding ==
    /\ ToolsTypeOK
    /\ \A pg \in Page :
          /\ jobs[pg] = {t \in Task : work[t].page = pg /\ Unanswered(t)}
          /\ \A kind \in Kind \ Lingering(pg) :
                status[pg] = kind => \E t \in jobs[pg] : work[t].kind = kind

(***************************************************************************)
(* What a page shows of a device is true of it when the page's jobs are    *)
(* all answered, as long as the page never had two at once, no command     *)
(* failed and nothing changed that the page does not ask about: turning    *)
(* frida-server or the proxy on or off and uninstalling are always followed*)
(* by a query, and the query's answer is shown.                            *)
(***************************************************************************)
ShownIsTrue ==
    \A pg \in Page \ (crowded \cup stale) :
        jobs[pg] = {} /\ following # pg /\ shown[pg] # None /\ shown[pg].serial = selected[pg] =>
            (shown[pg].value <=> shown[pg].serial \in on[pg])

(***************************************************************************)
(* The device a page acts on is the one the user chose there: neither a    *)
(* refresh while jobs run nor a rescan moves the selection away from a     *)
(* device.  The one selection a page makes by itself is in an empty combo, *)
(* when the first devices are found.                                       *)
(***************************************************************************)
TargetIsUsers ==
    [][\A pg \in Page :
          selected'[pg] # selected[pg] =>
              \/ chosen'[pg] = selected'[pg]
              \/ selected[pg] = None /\ chosen[pg] = None /\ selected'[pg] \in known']_toolsVars
=============================================================================
