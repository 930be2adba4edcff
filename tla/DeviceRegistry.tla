--------------------------- MODULE DeviceRegistry ---------------------------
(***************************************************************************)
(* DeviceConnectionManager and DeviceSetupWizard on the threads of the     *)
(* pool, with the Devices page, against phones that come, go and change    *)
(* between two adb commands.  A phone is its serial; what adb and its shell*)
(* would answer is read when the command runs.                             *)
(***************************************************************************)
EXTENDS BackgroundTasks

CONSTANTS
    Device,         \* serials
    MaxEvents,      \* bound: what happens to the phones from outside
    MaxFailures,    \* bound: adb commands that fail or time out
    None

Link == {"absent", "unauthorized", "offline", "device"}
Status == {"ready", "unauthorized", "disconnected"}

ASSUME DeviceAssumption ==
    /\ MaxEvents \in Nat /\ MaxFailures \in Nat
    /\ None \notin Task \cup Device \cup Link \cup Status

VARIABLES
    adb,            \* the adb tool is installed
    link,           \* serial -> what "adb devices" says of it
    server,         \* phones on which frida-server runs
    certified,      \* phones with a user CA certificate
    events, failures, \* still allowed
    rows,           \* the devices table: serial -> status
    call,           \* task -> scan_and_sync or wizard.run, its place and locals
    listed,         \* serials the page shows
    scan_button,    \* _scan_btn is enabled
    dialog,         \* _wizard_dialog
    seen,           \* serial -> its state in the newest listing with it (history)
    overlapped,     \* a scan listed while another had yet to store (history)
    disturbed       \* wizards since whose start somebody else acted (history)

phoneVars == <<adb, link, server, certified, events>>
pageVars == <<listed, scan_button, dialog>>
scanHistory == <<seen, overlapped>>
registryVars == <<taskVars, phoneVars, failures, rows, call, pageVars, scanHistory, disturbed>>

Attached == {d \in Device : link[d] # "absent"}

\* _status_for_state
StatusOf == [device |-> "ready", unauthorized |-> "unauthorized", offline |-> "disconnected"]

\* listing: entries of scan_and_sync; fresh: serials its query has missed;
\* asked: the serial wizard.run was given; results: its WizardStepResults, as
\* <<step, passed>>.
Call(place, serial) ==
    [at |-> place, asked |-> serial, serial |-> serial, listing |-> <<>>, fresh |-> {}, results |-> <<>>]
NoDialog == [open |-> FALSE, serial |-> None, shows |-> None]

IsScan(t) == call[t].at \in {"scan", "query", "sync", "scanned"}
IsWizard(t) == call[t].at \notin {"idle", "scan", "query", "sync", "scanned"}

RegistryInit ==
    /\ TasksInit
    /\ adb \in BOOLEAN
    /\ link \in [Device -> {"absent", "device"}] /\ server = {}
    /\ certified \in {{}, Device}                      \* bound: alike at first
    /\ events = MaxEvents /\ failures = MaxFailures
    /\ \E known \in {{}, Device} :                   \* by an earlier process
          /\ seen = [d \in Device |-> IF d \in known THEN "device" ELSE None]
          /\ rows = [d \in Device |-> IF d \in known THEN StatusOf["device"] ELSE None]
          /\ listed = known
    /\ call = [t \in Task |-> Call("idle", None)]
    /\ scan_button = TRUE /\ dialog = NoDialog
    /\ overlapped = FALSE /\ disturbed = {}

-----------------------------------------------------------------------------
\* The phones, their owner, other programs.
Disturb == disturbed' = {t \in Task : IsWizard(t)}

Outside ==
    /\ Disturb
    /\ UNCHANGED <<taskVars, adb, failures, rows, call, pageVars, scanHistory>>

Happens == events > 0 /\ events' = events - 1

Plug(d) ==
    /\ Outside /\ Happens /\ link[d] = "absent"
    /\ \E how \in Link \ {"absent"} : link' = [link EXCEPT ![d] = how]
    /\ UNCHANGED <<server, certified>>

Unplug(d) ==
    /\ Outside /\ Happens /\ link[d] # "absent"
    /\ link' = [link EXCEPT ![d] = "absent"]
    /\ UNCHANGED <<server, certified>>

AcceptRSA(d) ==
    /\ Outside /\ UNCHANGED events /\ link[d] = "unauthorized"
    /\ link' = [link EXCEPT ![d] = "device"]
    /\ UNCHANGED <<server, certified>>

Reboot(d) ==
    /\ Outside /\ Happens /\ d \in server
    /\ link' = [link EXCEPT ![d] = "absent"] /\ server' = server \ {d}
    /\ UNCHANGED certified

InstallCertificate(d) ==
    /\ Outside /\ Happens /\ d \notin certified
    /\ certified' = certified \cup {d}
    /\ UNCHANGED <<link, server>>

-----------------------------------------------------------------------------
\* The page.  While the wizard's dialog is open it is modal.
Available == GuiIdle /\ ~dialog.open

SubmitScan(t) ==
    /\ Run(t)
    /\ scan_button' = FALSE
    /\ call' = [call EXCEPT ![t] = Call("scan", None)]
    /\ UNCHANGED <<listed, dialog>>

OnScan(t) ==
    /\ Available /\ scan_button
    /\ SubmitScan(t)
    /\ UNCHANGED <<phoneVars, failures, rows, scanHistory, disturbed>>

\* The wireless dialog's connect runs on the GUI thread; once it has succeeded
\* the page scans, whether or not a scan is under way.
OnConnectWireless(t, d) ==
    /\ Available /\ adb /\ link[d] = "absent" /\ events > 0
    /\ \E how \in {"device", "unauthorized"} : link' = [link EXCEPT ![d] = how]
    /\ events' = events - 1 /\ Disturb
    /\ SubmitScan(t)
    /\ UNCHANGED <<adb, server, certified, failures, rows, scanHistory>>

OnRunWizard(t, d) ==
    /\ Available /\ d \in listed
    /\ Run(t)
    /\ call' = [call EXCEPT ![t] = Call("submitted", d)]
    /\ dialog' = [open |-> TRUE, serial |-> d, shows |-> None]
    /\ disturbed' = disturbed \ {t}
    /\ UNCHANGED <<phoneVars, failures, rows, listed, scan_button, scanHistory>>

CloseDialog ==
    /\ GuiIdle /\ dialog.open
    /\ dialog' = [dialog EXCEPT !.open = FALSE]
    /\ UNCHANGED <<taskVars, phoneVars, failures, rows, call, listed, scan_button, scanHistory,
                   disturbed>>
-----------------------------------------------------------------------------
\* The threads.
Begin(t) ==
    /\ TakeUp(t)
    /\ call' = [call EXCEPT ![t].at = CASE @ = "scan" -> "scan"
                                        [] @ = "submitted" -> "adb"
                                        [] OTHER -> @]
    /\ UNCHANGED <<phoneVars, failures, rows, pageVars, scanHistory, disturbed>>

Running(t, place) == future[t] = "running" /\ call[t].at = place
Fails == failures > 0 /\ failures' = failures - 1 /\ Disturb
Works == UNCHANGED <<failures, disturbed>>
Return(t, how, place) == Settle(t, how) /\ call' = [call EXCEPT ![t].at = place]
Raise(t) == Return(t, "error", IF IsScan(t) THEN "scanned" ELSE "raised")

\* list_devices, as scan_and_sync starts with it: no entry at all raises.
ListDevices(t) ==
    /\ Running(t, "scan")
    /\ \/ Fails /\ adb /\ Raise(t) /\ UNCHANGED scanHistory
       \/ Works /\ (~adb \/ Attached = {}) /\ Raise(t) /\ UNCHANGED scanHistory
       \/ /\ Works /\ adb /\ Attached # {}
          /\ call' = [call EXCEPT ![t].at = "query",
                                  ![t].listing = [d \in Attached |-> link[d]]]
          /\ seen' = [d \in Device |-> IF d \in Attached THEN link[d] ELSE seen[d]]
          /\ overlapped' = (overlapped \/ \E x \in Task \ {t} : call[x].at \in {"query", "sync"})
          /\ UNCHANGED taskVars
    /\ UNCHANGED <<phoneVars, rows, pageVars>>

\* The first query of the transaction.
QueryRows(t) ==
    /\ Running(t, "query")
    /\ call' = [call EXCEPT ![t].at = "sync",
                            ![t].fresh = {d \in DOMAIN call[t].listing : rows[d] = None}]
    /\ Works
    /\ UNCHANGED <<taskVars, phoneVars, rows, pageVars, scanHistory>>

\* Mutant: rows are inserted, never updated.
UpsertNewOnly(old, listing) ==
    [d \in Device |-> IF d \in DOMAIN listing /\ old[d] = None THEN StatusOf[listing[d]] ELSE old[d]]

Upsert(old, listing) ==
    [d \in Device |-> IF d \in DOMAIN listing THEN StatusOf[listing[d]] ELSE old[d]]

\* The first write takes the database's lock: only the entry it is for may have
\* got its row from another scan since it was queried, and is then a duplicate.
SyncRows(t) ==
    /\ Running(t, "sync")
    /\ \E first \in DOMAIN call[t].listing :
          IF first \in call[t].fresh /\ rows[first] # None
          THEN Raise(t) /\ UNCHANGED rows
          ELSE Return(t, "result", "scanned") /\ rows' = Upsert(rows, call[t].listing)
    /\ Works
    /\ UNCHANGED <<phoneVars, pageVars, scanHistory>>

\* A step of the wizard: its result, and where run() goes from there.
Report(t, step, passed, next) ==
    /\ UNCHANGED taskVars
    /\ call' = [call EXCEPT ![t].results = Append(@, <<step, passed>>), ![t].at = next]
Blocked(t, step) ==
    /\ Settle(t, "result")
    /\ call' = [call EXCEPT ![t].results = Append(@, <<step, FALSE>>), ![t].at = "stopped"]

\* _check_adb: start-server fails, or the tool is missing, which is no
\* ADBNotFoundError.
CheckAdb(t) ==
    /\ Running(t, "adb")
    /\ \/ Works /\ adb /\ Report(t, "Check ADB", TRUE, "detect")
       \/ Fails /\ adb /\ Blocked(t, "Check ADB")
       \/ Works /\ ~adb /\ Raise(t)
    /\ UNCHANGED <<phoneVars, rows, pageVars, scanHistory>>

Targets(serial) == IF serial \in Attached THEN {serial} ELSE Attached

DetectDevice(t) ==
    /\ Running(t, "detect")
    /\ \/ /\ Works
          /\ \E d \in Targets(call[t].serial) :
                /\ call' = [call EXCEPT ![t].results = Append(@, <<"Detect Device", TRUE>>),
                                        ![t].serial = d, ![t].at = "authorize"]
                /\ UNCHANGED taskVars
       \/ Works /\ Attached = {} /\ Blocked(t, "Detect Device")
       \/ Fails /\ Blocked(t, "Detect Device")
    /\ UNCHANGED <<phoneVars, rows, pageVars, scanHistory>>

\* require_authorized lists again; a listing that fails is nobody's to catch.
CheckAuthorized(t) ==
    /\ Running(t, "authorize")
    /\ \/ Works /\ link[call[t].serial] = "device" /\ Report(t, "Accept RSA", TRUE, "root")
       \/ Works /\ link[call[t].serial] # "device" /\ Blocked(t, "Accept RSA")
       \/ Fails /\ Raise(t)
    /\ UNCHANGED <<phoneVars, rows, pageVars, scanHistory>>

\* What a shell command finds: nothing, when it does not get through.
Shell(d, found) == \/ Works /\ (found <=> link[d] = "device")
                   \/ Fails /\ ~found
ServerSeen(d, found) == \/ Works /\ (found <=> link[d] = "device" /\ d \in server)
                        \/ Fails /\ ~found
CertificateSeen(d, found) == \/ Works /\ (found <=> link[d] = "device" /\ d \in certified)
                             \/ Fails /\ ~found

\* Informational: passes either way.
CheckRoot(t) ==
    /\ Running(t, "root")
    /\ Works
    /\ Report(t, "Root Check", TRUE, "frida")
    /\ UNCHANGED <<phoneVars, rows, pageVars, scanHistory>>

CheckFridaServer(t) ==
    /\ Running(t, "frida")
    /\ \E found \in BOOLEAN :
          /\ ServerSeen(call[t].serial, found)
          /\ IF found
             THEN Report(t, "Start Frida", TRUE, "certificate")
             ELSE UNCHANGED taskVars /\ call' = [call EXCEPT ![t].at = "push"]
    /\ UNCHANGED <<phoneVars, rows, pageVars, scanHistory>>

\* start_frida_server up to the push: the ABI is read from the phone, and the
\* frida-server of that ABI may be none the registry knows, or not installed.
PushFridaServer(t) ==
    /\ Running(t, "push")
    /\ \E through \in BOOLEAN :
          /\ Shell(call[t].serial, through)
          /\ \/ through /\ UNCHANGED taskVars /\ call' = [call EXCEPT ![t].at = "launch"]
             \/ Report(t, "Start Frida", FALSE, "certificate")
    /\ UNCHANGED <<phoneVars, rows, pageVars, scanHistory>>

\* As root, if the phone grants it.
LaunchFridaServer(t) ==
    /\ Running(t, "launch")
    /\ \/ Works /\ UNCHANGED server
       \/ Fails /\ UNCHANGED server
       \/ /\ link[call[t].serial] = "device"
          /\ server' = server \cup {call[t].serial}
          /\ disturbed' = disturbed \cup {x \in Task \ {t} : IsWizard(x)}
          /\ UNCHANGED failures
    /\ call' = [call EXCEPT ![t].at = "verify"]
    /\ UNCHANGED <<taskVars, adb, link, certified, events, rows, pageVars, scanHistory>>

\* Mutant: a server that has been pushed is a server that runs.
VerifyNothing(t) ==
    /\ Running(t, "verify")
    /\ Works
    /\ Report(t, "Start Frida", TRUE, "certificate")
    /\ UNCHANGED <<phoneVars, rows, pageVars, scanHistory>>

VerifyFridaServer(t) ==
    /\ Running(t, "verify")
    /\ \E found \in BOOLEAN :
          /\ ServerSeen(call[t].serial, found)
          /\ Report(t, "Start Frida", found, "certificate")
    /\ UNCHANGED <<phoneVars, rows, pageVars, scanHistory>>

CheckCertificate(t) ==
    /\ Running(t, "certificate")
    /\ \E found \in BOOLEAN :
          /\ CertificateSeen(call[t].serial, found)
          /\ Report(t, "Install Burp Certificate", found, "ready")
    /\ UNCHANGED <<phoneVars, rows, pageVars, scanHistory>>

\* get_readiness reads the server, then the certificates.
FinalReady(t) ==
    /\ \E found \in BOOLEAN :
          \/ /\ Running(t, "ready")
             /\ ServerSeen(call[t].serial, found)
             /\ IF found THEN UNCHANGED taskVars /\ call' = [call EXCEPT ![t].at = "ready, certificate"]
                         ELSE Blocked(t, "Ready")
          \/ /\ Running(t, "ready, certificate")
             /\ CertificateSeen(call[t].serial, found)
             /\ IF found
                THEN /\ Settle(t, "result")
                     /\ call' = [call EXCEPT ![t].results = Append(@, <<"Ready", TRUE>>),
                                             ![t].at = "stopped"]
                ELSE Blocked(t, "Ready")
    /\ UNCHANGED <<phoneVars, rows, pageVars, scanHistory>>

-----------------------------------------------------------------------------
\* The page's slots.  Mutant: a failed scan leaves the button as it is.
ScanAnsweredOnSuccess(t) ==
    /\ IsScan(t)
    /\ scan_button' = (scan_button \/ future[t] = "result")
    /\ listed' = IF future[t] = "result" THEN {d \in Device : rows[d] # None} ELSE listed
    /\ UNCHANGED dialog

ScanAnswered(t) ==
    /\ IsScan(t)
    /\ scan_button' = TRUE
    /\ listed' = IF future[t] = "result" THEN {d \in Device : rows[d] # None} ELSE listed
    /\ UNCHANGED dialog

\* Shown in the dialog opened last, which may be closed, or another wizard's.
WizardAnswered(t) ==
    /\ IsWizard(t)
    /\ dialog' = [dialog EXCEPT !.shows = t]
    /\ UNCHANGED <<listed, scan_button>>

AnswerPage(t) ==
    /\ PollAnswer(t)
    /\ ScanAnswered(t) \/ WizardAnswered(t)
    /\ UNCHANGED <<phoneVars, failures, rows, call, scanHistory, disturbed>>

PollRest ==
    /\ PollBegin \/ PollEnd \/ \E t \in Task : PollSkip(t)
    /\ UNCHANGED <<phoneVars, failures, rows, call, pageVars, scanHistory, disturbed>>

-----------------------------------------------------------------------------
Wizard(t) ==
    \/ CheckAdb(t) \/ DetectDevice(t) \/ CheckAuthorized(t) \/ CheckRoot(t)
    \/ CheckFridaServer(t) \/ PushFridaServer(t) \/ LaunchFridaServer(t) \/ VerifyFridaServer(t)
    \/ CheckCertificate(t) \/ FinalReady(t)
Thread(t) == Begin(t) \/ ListDevices(t) \/ QueryRows(t) \/ SyncRows(t) \/ Wizard(t)
Poll == PollRest \/ \E t \in Task : AnswerPage(t)
Phones ==
    \E d \in Device : Plug(d) \/ Unplug(d) \/ AcceptRSA(d) \/ Reboot(d) \/ InstallCertificate(d)

RegistryNext ==
    \/ \E t \in Task : OnScan(t) \/ Thread(t)
    \/ \E t \in Task, d \in Device : OnConnectWireless(t, d) \/ OnRunWizard(t, d)
    \/ CloseDialog \/ Phones \/ Poll

RegistrySpec == RegistryInit /\ [][RegistryNext]_registryVars

-----------------------------------------------------------------------------
Places ==
    {"idle", "scan", "query", "sync", "scanned", "submitted", "adb", "detect", "authorize", "root",
     "frida", "push", "launch", "verify", "certificate", "ready", "ready, certificate", "stopped",
     "raised"}
\* A row of devices is its status: nothing reads the other columns back.
DeviceRow == Status

RegistryTypeOK ==
    /\ TasksTypeOK
    /\ adb \in BOOLEAN
    /\ server \subseteq Device /\ certified \subseteq Device
    /\ link \in [Device -> Link] /\ events \in 0..MaxEvents /\ failures \in 0..MaxFailures
    /\ rows \in [Device -> DeviceRow \cup {None}]
    /\ \A t \in Task : /\ call[t].at \in Places /\ call[t].serial \in Device \cup {None}
                       /\ call[t].fresh \subseteq Device /\ Len(call[t].results) <= 7
    /\ listed \subseteq {d \in Device : rows[d] # None} /\ scan_button \in BOOLEAN
    /\ dialog.serial \in Device \cup {None} /\ dialog.shows \in Task \cup {None}
    /\ disturbed \subseteq Task

Unanswered(t) == t \in pending /\ answers[t] = <<>>
Ready(t) == call[t].results # <<>> /\ call[t].results[Len(call[t].results)] = <<"Ready", TRUE>>
Mid(t) == call[t].at \in {"query", "sync"}

(***************************************************************************)
(* The devices table between scans is what the newest listing with each    *)
(* phone said, and a scan whose listing had entries stores them, as long as*)
(* no scan listed while another had yet to store.                          *)
(***************************************************************************)
ScansAreFaithful ==
    /\ RegistryTypeOK
    /\ ~overlapped =>
          /\ \A d \in Device :
                (\A t \in Task : Mid(t) => d \notin DOMAIN call[t].listing) =>
                    rows[d] = IF seen[d] = None THEN None ELSE StatusOf[seen[d]]
          /\ \A t \in Task : IsScan(t) /\ call[t].listing # <<>> => future[t] # "error"

(***************************************************************************)
(* A locked Scan button waits for a scan yet to be answered, a dialog that *)
(* still says "Running setup wizard..." for a wizard: the slots give back  *)
(* what they took whatever the job did, also when a wireless connection    *)
(* has started a second scan.                                              *)
(***************************************************************************)
PageFollowsJobs ==
    /\ ~scan_button => \E t \in Task : IsScan(t) /\ Unanswered(t)
    /\ dialog.open /\ dialog.shows = None =>
          \E t \in Task : IsWizard(t) /\ call[t].asked = dialog.serial /\ Unanswered(t)

(***************************************************************************)
(* What the wizard says of a phone nobody else has touched since it began, *)
(* no command having failed, is true of the phone: it is ready exactly if  *)
(* it is authorised, runs frida-server and has a certificate; and the Frida*)
(* step passes exactly if frida-server runs.                               *)
(***************************************************************************)
PhoneReady(d) == link[d] = "device" /\ d \in server /\ d \in certified
VerdictMatchesPhone ==
    \A t \in Task : call[t].at = "stopped" /\ t \notin disturbed =>
        /\ Ready(t) <=> PhoneReady(call[t].serial)
        /\ \A n \in DOMAIN call[t].results :
              call[t].results[n][1] = "Start Frida" =>
                  (call[t].results[n][2] <=> call[t].serial \in server)

(***************************************************************************)
(* A wizard examines the phone it was asked to, if that one is there.      *)
(***************************************************************************)
WizardStaysWithPhone ==
    \A t \in Task : IsWizard(t) /\ t \notin disturbed /\ call[t].asked \in Attached =>
        call[t].serial = call[t].asked

(***************************************************************************)
(* The wizard's report is true, and of the phone it was asked about.       *)
(***************************************************************************)
WizardIsRight == VerdictMatchesPhone /\ WizardStaysWithPhone
=============================================================================
