------------------------ MODULE DeviceRegistryProofs -------------------------
(***************************************************************************)
(* The devices table, the page and the wizard's report, for any phones and *)
(* any number of scans and wizards.                                        *)
(***************************************************************************)
EXTENDS DeviceRegistry, BackgroundTasksProofs

Step == {"Check ADB", "Detect Device", "Accept RSA", "Root Check", "Start Frida",
         "Install Burp Certificate", "Ready"}
StepResult == Step \X BOOLEAN
Seen == Link \ {"absent"}
Listing == UNION {[S -> Seen] : S \in SUBSET Device}
Calls == [at : Places, asked : Device \cup {None}, serial : Device \cup {None}, listing : Listing,
          fresh : SUBSET Device, results : Seq(StepResult)]
Dialogs == [open : BOOLEAN, serial : Device \cup {None}, shows : Task \cup {None}]

\* Where a call is tells how far its future is, and how many steps it has reported.
WizardPlaces ==
    {"adb", "detect", "authorize", "root", "frida", "push", "launch", "verify", "certificate",
     "ready", "ready, certificate"}
Over == {"scanned", "stopped", "raised"}
Reported(at) ==
    CASE at = "detect" -> 1 [] at = "authorize" -> 2 [] at = "root" -> 3
      [] at \in {"frida", "push", "launch", "verify"} -> 4
      [] at = "certificate" -> 5 [] at \in {"ready", "ready, certificate"} -> 6 [] OTHER -> 0
Unlisted(t) == call[t].listing = <<>>
PlaceOf(t) ==
    /\ call[t].at = "idle" <=> future[t] = "none"
    /\ call[t].at = "scan" => future[t] \in {"queued", "running"} /\ Unlisted(t)
    /\ call[t].at = "submitted" => future[t] = "queued"
    /\ call[t].at \in WizardPlaces \cup {"query", "sync"} => future[t] = "running"
    /\ call[t].at \in Over => Done(t)
    /\ call[t].at \notin Over => Len(call[t].results) = Reported(call[t].at)
    /\ Len(call[t].results) <= 7
    /\ IsWizard(t) => call[t].serial \in Device /\ call[t].asked \in Device
    /\ Mid(t) => DOMAIN call[t].listing # {}

CallInv ==
    /\ call \in [Task -> Calls] /\ seen \in [Device -> Seen \cup {None}]
    /\ \A t \in Task : PlaceOf(t)
    /\ dialog \in Dialogs

\* One scan at a time stores what it has listed, which nobody has listed since.
StoreInv ==
    ~overlapped =>
        /\ \A t, u \in Task : Mid(t) /\ Mid(u) => t = u
        /\ \A t \in Task : Mid(t) => \A d \in DOMAIN call[t].listing : seen[d] = call[t].listing[d]
        /\ \A t \in Task : call[t].at = "sync" =>
              call[t].fresh = {d \in DOMAIN call[t].listing : rows[d] = None}

\* What the wizard knows of the phone by the time it is where it is.
FridaUnsaid(t) == \A n \in DOMAIN call[t].results : call[t].results[n][1] # "Start Frida"
FridaSaid(t) ==
    \A n \in DOMAIN call[t].results :
        call[t].results[n][1] = "Start Frida" =>
            (call[t].results[n][2] <=> call[t].serial \in server)
Early == {"submitted", "adb", "detect"}
Rooted ==
    {"root", "frida", "push", "launch", "verify", "certificate", "ready", "ready, certificate"}
WizardKnows(t) ==
    /\ call[t].at \in Early => call[t].serial = call[t].asked
    /\ call[t].asked \in Attached => call[t].serial = call[t].asked
    /\ call[t].at \in Rooted => link[call[t].serial] = "device"
    /\ call[t].at \in Early \cup {"authorize", "root", "frida", "push", "launch", "verify"} =>
          FridaUnsaid(t)
    /\ call[t].at \in {"certificate", "ready", "ready, certificate", "stopped"} => FridaSaid(t)
    /\ call[t].at = "push" => call[t].serial \notin server
    /\ call[t].at = "ready, certificate" => call[t].serial \in server
    /\ call[t].at = "stopped" => (Ready(t) <=> PhoneReady(call[t].serial))
WizardInv == \A t \in Task : IsWizard(t) /\ t \notin disturbed => WizardKnows(t)

RegistryInv ==
    /\ TasksInv /\ CallInv /\ StoreInv /\ ScansAreFaithful /\ PageFollowsJobs /\ WizardInv

-----------------------------------------------------------------------------
\* The page uses the runner as BackgroundTasks says.
LEMMA RegistryIsTasks == [RegistryNext]_registryVars => [TasksNext]_taskVars
<1>. SUFFICES ASSUME [RegistryNext]_registryVars PROVE TasksNext \/ UNCHANGED taskVars
  OBVIOUS
<1>1. ASSUME NEW t \in Task, Thread(t) PROVE TasksNext \/ UNCHANGED taskVars
  <2>1. TakeUp(t) \/ Settle(t, "result") \/ Settle(t, "error") \/ UNCHANGED taskVars
    BY <1>1 DEF Thread, Begin, ListDevices, QueryRows, SyncRows, Wizard, CheckAdb, DetectDevice,
                CheckAuthorized, CheckRoot, CheckFridaServer, PushFridaServer, LaunchFridaServer,
                VerifyFridaServer, CheckCertificate, FinalReady, Report, Blocked, Return, Raise
  <2>. QED  BY <2>1 DEF TasksNext
<1>2. ASSUME NEW t \in Task,
             OnScan(t) \/ \E d \in Device : OnConnectWireless(t, d) \/ OnRunWizard(t, d)
      PROVE  TasksNext
  BY <1>2 DEF OnScan, OnConnectWireless, OnRunWizard, SubmitScan, TasksNext
<1>3. CASE CloseDialog \/ Phones \/ UNCHANGED registryVars
  BY <1>3 DEF CloseDialog, Phones, Plug, Unplug, AcceptRSA, Reboot, InstallCertificate, Outside,
              registryVars
<1>4. CASE Poll
  BY <1>4 DEF Poll, PollRest, AnswerPage, TasksNext
<1>. QED  BY <1>1, <1>2, <1>3, <1>4 DEF RegistryNext

(***************************************************************************)
(* The scans and the wizards use the runner as BackgroundTasks says.       *)
(***************************************************************************)
THEOREM RegistryUsesTasks == RegistrySpec => TasksSpec
<1>1. RegistryInit => TasksInit
  BY DEF RegistryInit
<1>. QED  BY <1>1, RegistryIsTasks, PTL DEF RegistrySpec, TasksSpec

(***************************************************************************)
(* Whatever the phones do, the page hears of each scan and each wizard at  *)
(* most once, and until then _poll still looks at it.                      *)
(***************************************************************************)
THEOREM ScansAnsweredOnce == RegistrySpec => []AnsweredOnce
BY RegistryUsesTasks, TasksAnsweredOnce

-----------------------------------------------------------------------------
\* A wizard learns nothing new of a phone that is left alone.
LEMMA KnowsKept ==
    ASSUME NEW t \in Task, call'[t] = call[t], UNCHANGED <<link, server, certified>>, WizardKnows(t)
    PROVE  WizardKnows(t)'
BY DEF WizardKnows, Attached, FridaUnsaid, FridaSaid, Ready, PhoneReady

\* A row is never taken out of the table.
RowsStay ==
    /\ rows' \in [Device -> DeviceRow \cup {None}]
    /\ \A d \in Device : rows[d] # None => rows'[d] # None

\* The table after the step is what the newest listings said.
StoredInv ==
    ~overlapped =>
        /\ \A d \in Device :
              (\A t \in Task : Mid(t) => d \notin DOMAIN call[t].listing) =>
                  rows[d] = IF seen[d] = None THEN None ELSE StatusOf[seen[d]]
        /\ \A t \in Task : IsScan(t) /\ call[t].listing # <<>> => future[t] # "error"

\* A step of a thread on the call it makes.
LEMMA CallKeeps ==
    ASSUME RegistryInv, TasksInv', NEW t \in Task, future[t] \in {"queued", "running"},
           call' \in [Task -> Calls],
           \A u \in Task : u # t => call'[u] = call[u] /\ future'[u] = future[u],
           UNCHANGED <<pending, answers, adb, link, certified, events, pageVars>>,
           call'[t].asked = call[t].asked,
           IsScan(t) => IsScan(t)', IsWizard(t) => IsWizard(t)',
           PlaceOf(t)', seen' \in [Device -> Seen \cup {None}],
           RowsStay, StoreInv', StoredInv',
           failures' \in 0..MaxFailures, server' \subseteq Device,
           disturbed' \subseteq Task,
           \A u \in Task : IsWizard(u) /\ u # t /\ u \notin disturbed' =>
               u \notin disturbed /\ server' = server,
           IsWizard(t)' /\ t \notin disturbed' => WizardKnows(t)'
    PROVE  RegistryInv'
<1>1. CallInv'
  <2>1. ASSUME NEW u \in Task, u # t PROVE PlaceOf(u)'
    BY <2>1 DEF RegistryInv, CallInv, PlaceOf, Unlisted, IsWizard, Mid, Done
  <2>. QED  BY <2>1 DEF RegistryInv, CallInv, pageVars
<1>2. RegistryTypeOK'
  <2>1. ASSUME NEW u \in Task
        PROVE  /\ call'[u].at \in Places /\ call'[u].serial \in Device \cup {None}
               /\ call'[u].fresh \subseteq Device /\ Len(call'[u].results) <= 7
    BY <1>1 DEF CallInv, Calls, PlaceOf
  <2>2. listed' \subseteq {d \in Device : rows'[d] # None}
    BY DEF RegistryInv, ScansAreFaithful, RegistryTypeOK, RowsStay, pageVars
  <2>. QED  BY <2>1, <2>2
            DEF RegistryInv, ScansAreFaithful, RegistryTypeOK, RowsStay, pageVars, TasksInv
<1>3. ScansAreFaithful'
  BY <1>2 DEF ScansAreFaithful, StoredInv
<1>4. PageFollowsJobs'
  <2>1. \A u \in Task : /\ IsScan(u) => IsScan(u)' 
                        /\ IsWizard(u) => IsWizard(u)' /\ call'[u].asked = call[u].asked
                        /\ Unanswered(u)' = Unanswered(u)
    BY DEF IsScan, IsWizard, Unanswered
  <2>. QED  BY <2>1 DEF RegistryInv, PageFollowsJobs, pageVars
<1>5. WizardInv'
  <2>1. ASSUME NEW u \in Task, u # t, IsWizard(u)', u \notin disturbed'
        PROVE  WizardKnows(u)'
    <3>1. IsWizard(u) /\ u \notin disturbed /\ server' = server
      BY <2>1 DEF IsWizard
    <3>. QED  BY <2>1, <3>1, KnowsKept DEF RegistryInv, WizardInv
  <2>. QED  BY <2>1 DEF WizardInv
<1>. QED  BY <1>1, <1>3, <1>4, <1>5, TasksInv' DEF RegistryInv

-----------------------------------------------------------------------------
\* What a step of run() does to the wizard's call.
LEMMA Moves ==
    ASSUME call \in [Task -> Calls], NEW t \in Task, NEW place \in Places,
           call' = [call EXCEPT ![t].at = place]
    PROVE  /\ call' \in [Task -> Calls] /\ \A u \in Task : u # t => call'[u] = call[u]
           /\ call'[t].at = place /\ call'[t].asked = call[t].asked
           /\ call'[t].serial = call[t].serial /\ call'[t].listing = call[t].listing
           /\ call'[t].fresh = call[t].fresh /\ call'[t].results = call[t].results
<1>1. call[t] \in Calls
  OBVIOUS
<1>2. [call[t] EXCEPT !.at = place] \in Calls
  BY <1>1 DEF Calls
<1>3. call' = [call EXCEPT ![t] = [call[t] EXCEPT !.at = place]]
  OBVIOUS
<1>4. call' \in [Task -> Calls] /\ \A u \in Task : u # t => call'[u] = call[u]
  BY <1>2, <1>3
<1>5. call'[t] = [call[t] EXCEPT !.at = place]
  BY <1>3
<1>. QED  BY <1>1, <1>4, <1>5 DEF Calls

\* One more step result.
LEMMA LastReported ==
    ASSUME NEW old \in Seq(StepResult), NEW result \in StepResult
    PROVE  /\ Append(old, result) \in Seq(StepResult)
           /\ Len(Append(old, result)) = Len(old) + 1 /\ Len(old) \in Nat
           /\ \A n \in DOMAIN Append(old, result) :
                 \/ n \in DOMAIN old /\ Append(old, result)[n] = old[n]
                 \/ Append(old, result)[n] = result
           /\ Append(old, result) # <<>>
           /\ Append(old, result)[Len(Append(old, result))] = result
<1>1. PICK new \in Seq(StepResult) : new = Append(old, result)
  BY AppendProperties
<1>2. /\ Len(new) = Len(old) + 1 /\ Len(old) \in Nat
      /\ \A n \in 1..Len(old) : new[n] = old[n]
      /\ new[Len(old) + 1] = result
      /\ DOMAIN new = 1..(Len(old) + 1) /\ DOMAIN old = 1..Len(old)
  BY <1>1, AppendProperties
<1>3. \A n \in DOMAIN new : n \in DOMAIN old \/ n = Len(old) + 1
  BY <1>2
<1>4. new # <<>> /\ new[Len(new)] = result
  BY <1>2
<1>. QED  BY <1>1, <1>2, <1>3, <1>4

\* result is of the Frida step; what it says of the phone is so.
OfFrida(result) == result[1] = "Start Frida"
Truthful(result, serial) == OfFrida(result) => (result[2] <=> serial \in server)
Says(t, result, serial, next) ==
    \/ call' = [call EXCEPT ![t].results = Append(@, result), ![t].serial = serial, ![t].at = next]
    \/ call' = [call EXCEPT ![t].results = Append(@, result), ![t].at = next]
       /\ serial = call[t].serial

\* What is so once it has been said.
Said(t, result, serial, next) ==
    /\ call' \in [Task -> Calls] /\ \A u \in Task : u # t => call'[u] = call[u]
    /\ call'[t].at = next /\ call'[t].asked = call[t].asked /\ call'[t].serial = serial
    /\ Len(call'[t].results) = Len(call[t].results) + 1
    /\ Ready(t)' <=> result = <<"Ready", TRUE>>
    /\ FridaUnsaid(t) /\ ~OfFrida(result) => FridaUnsaid(t)'
    /\ FridaSaid(t) /\ ~OfFrida(result) /\ serial = call[t].serial /\ server' = server => FridaSaid(t)'
    /\ FridaUnsaid(t) /\ Truthful(result, serial)' => FridaSaid(t)'

LEMMA Reports ==
    ASSUME call \in [Task -> Calls], NEW t \in Task, NEW next \in Places, NEW serial \in Device,
           NEW result \in StepResult, Says(t, result, serial, next)
    PROVE  Said(t, result, serial, next)
<1>1. call[t] \in Calls
  OBVIOUS
<1>2. call[t].results \in Seq(StepResult)
  BY <1>1 DEF Calls
<1>3. PICK new \in Seq(StepResult) :
          /\ new = Append(call[t].results, result)
          /\ Len(new) = Len(call[t].results) + 1 /\ Len(call[t].results) \in Nat
          /\ \A n \in DOMAIN new :
                \/ n \in DOMAIN call[t].results /\ new[n] = call[t].results[n]
                \/ new[n] = result
          /\ new # <<>> /\ new[Len(new)] = result
  <2>. DEFINE new == Append(call[t].results, result)
  <2>1. /\ new \in Seq(StepResult)
        /\ Len(new) = Len(call[t].results) + 1 /\ Len(call[t].results) \in Nat
        /\ \A n \in DOMAIN new :
              \/ n \in DOMAIN call[t].results /\ new[n] = call[t].results[n]
              \/ new[n] = result
        /\ new # <<>> /\ new[Len(new)] = result
    BY <1>2, LastReported
  <2>2. new = Append(call[t].results, result)
    OBVIOUS
  <2>. HIDE DEF new
  <2>. QED  BY <2>1, <2>2
<1>4. [call[t] EXCEPT !.results = new, !.serial = serial, !.at = next] \in Calls
  BY <1>1 DEF Calls
<1>5. call' = [call EXCEPT ![t] = [call[t] EXCEPT !.results = new, !.serial = serial, !.at = next]]
  <2>1. CASE call' = [call EXCEPT ![t].results = Append(@, result), ![t].serial = serial,
                                  ![t].at = next]
    BY <1>3, <2>1
  <2>2. CASE call' = [call EXCEPT ![t].results = Append(@, result), ![t].at = next]
             /\ serial = call[t].serial
    <3>1. [call[t] EXCEPT !.results = new, !.serial = serial, !.at = next]
              = [call[t] EXCEPT !.results = new, !.at = next]
      BY <1>1, <2>2 DEF Calls
    <3>2. call' = [call EXCEPT ![t] = [call[t] EXCEPT !.results = new, !.at = next]]
      BY <1>3, <2>2
    <3>. QED  BY <3>1, <3>2
  <2>. QED  BY <2>1, <2>2 DEF Says
<1>6. call' \in [Task -> Calls] /\ \A u \in Task : u # t => call'[u] = call[u]
  BY <1>4, <1>5
<1>7. call'[t] = [call[t] EXCEPT !.results = new, !.serial = serial, !.at = next]
  BY <1>5
<1>8. /\ call'[t].at = next /\ call'[t].asked = call[t].asked
      /\ call'[t].serial = serial /\ call'[t].listing = call[t].listing
      /\ call'[t].fresh = call[t].fresh /\ call'[t].results = new
  BY <1>1, <1>7 DEF Calls
<1>9. Ready(t)' <=> result = <<"Ready", TRUE>>
  BY <1>3, <1>8 DEF Ready
<1>10. FridaUnsaid(t) /\ ~OfFrida(result) => FridaUnsaid(t)'
  BY <1>3, <1>8 DEF FridaUnsaid, OfFrida
<1>11. FridaSaid(t)' <=>
           \A n \in DOMAIN new : new[n][1] = "Start Frida" => (new[n][2] <=> serial \in server')
  BY <1>8 DEF FridaSaid
<1>12. ASSUME FridaSaid(t), ~OfFrida(result), serial = call[t].serial, server' = server
       PROVE  FridaSaid(t)'
  BY <1>3, <1>11, <1>12 DEF FridaSaid, OfFrida
<1>13. ASSUME FridaUnsaid(t), Truthful(result, serial)'
       PROVE  FridaSaid(t)'
  BY <1>3, <1>11, <1>13 DEF FridaUnsaid, OfFrida, Truthful
<1>. QED  BY <1>3, <1>6, <1>8, <1>9, <1>10, <1>12, <1>13 DEF Said

\* A step of the wizard touches no row and no scan.
LEMMA WizardKeeps ==
    ASSUME RegistryInv, TasksInv', NEW t \in Task, future[t] = "running",
           call[t].at \in WizardPlaces,
           call' \in [Task -> Calls],
           \A u \in Task : u # t => call'[u] = call[u] /\ future'[u] = future[u],
           UNCHANGED <<pending, answers, adb, link, certified, events, pageVars, rows, scanHistory>>,
           call'[t].asked = call[t].asked, call'[t].serial \in Device,
           \/ call'[t].at \in WizardPlaces /\ future'[t] = "running"
              /\ Len(call'[t].results) = Reported(call'[t].at)
           \/ call'[t].at \in {"stopped", "raised"} /\ Done(t)',
           Len(call'[t].results) <= 7,
           failures' \in 0..MaxFailures, server' \subseteq Device, disturbed' \subseteq Task,
           \A u \in Task : IsWizard(u) /\ u # t /\ u \notin disturbed' =>
               u \notin disturbed /\ server' = server,
           t \notin disturbed' => WizardKnows(t)'
    PROVE  RegistryInv'
<1>1. IsWizard(t) /\ ~IsScan(t) /\ ~Mid(t) /\ IsWizard(t)' /\ ~IsScan(t)' /\ ~Mid(t)'
  BY DEF IsWizard, IsScan, Mid, WizardPlaces
<1>2. PlaceOf(t)'
  <2>1. CASE call'[t].at \in WizardPlaces
    BY <1>1, <2>1 DEF PlaceOf, WizardPlaces, Over, RegistryInv, CallInv, Mid, IsWizard, Done
  <2>2. CASE call'[t].at \in {"stopped", "raised"}
    BY <1>1, <2>2 DEF PlaceOf, WizardPlaces, Over, RegistryInv, CallInv, Mid, IsWizard, Done
  <2>. QED  BY <2>1, <2>2
<1>3. seen' \in [Device -> Seen \cup {None}] /\ RowsStay
  BY DEF RegistryInv, CallInv, ScansAreFaithful, RegistryTypeOK, RowsStay, scanHistory
<1>4. \A u \in Task : /\ Mid(u)' = Mid(u) /\ (Mid(u) => call'[u] = call[u])
                      /\ call'[u].at = "sync" => call[u].at = "sync" /\ call'[u] = call[u]
                      /\ IsScan(u)' = IsScan(u) /\ (IsScan(u) => call'[u] = call[u])
                      /\ IsScan(u) => future'[u] = future[u]
  BY <1>1 DEF Mid, IsScan
<1>5. StoreInv'
  BY <1>4 DEF RegistryInv, StoreInv, scanHistory
<1>6. StoredInv'
  BY <1>4 DEF RegistryInv, ScansAreFaithful, StoredInv, scanHistory
<1>. QED  BY <1>1, <1>2, <1>3, <1>5, <1>6, CallKeeps

\* A call at work has reported what it did so far.
LEMMA AtWork ==
    ASSUME RegistryInv, NEW t \in Task, call[t].at \in WizardPlaces
    PROVE  /\ call \in [Task -> Calls] /\ Len(call[t].results) = Reported(call[t].at)
           /\ Reported(call[t].at) \in 0..6 /\ IsWizard(t)
           /\ call[t].serial \in Device /\ call[t].asked \in Device
<1>1. IsWizard(t) /\ call[t].at \notin Over
  BY DEF WizardPlaces, IsWizard, Over
<1>2. \A at : Reported(at) \in 0..6
  BY DEF Reported
<1>. QED  BY <1>1, <1>2 DEF RegistryInv, CallInv, PlaceOf

\* A command that fails disturbs every wizard there is.
LEMMA CommandFails ==
    ASSUME RegistryInv, DeviceAssumption, Works \/ Fails
    PROVE  /\ failures' \in 0..MaxFailures /\ disturbed' \subseteq Task
           /\ \A u \in Task : IsWizard(u) /\ u \notin disturbed' => u \notin disturbed /\ Works
<1>1. /\ failures \in 0..MaxFailures /\ MaxFailures \in Nat /\ disturbed \subseteq Task
  BY DEF RegistryInv, ScansAreFaithful, RegistryTypeOK, DeviceAssumption
<1>2. CASE Works
  BY <1>1, <1>2 DEF Works
<1>3. CASE Fails
  <2>1. failures > 0 /\ failures' = failures - 1 /\ disturbed' = {u \in Task : IsWizard(u)}
    BY <1>3 DEF Fails, Disturb
  <2>2. failures' \in 0..MaxFailures
    BY <1>1, <2>1
  <2>. QED  BY <2>1, <2>2
<1>. QED  BY <1>2, <1>3

\* The callable goes on, or returns or raises.
Goes(t, next) ==
    \/ next \in WizardPlaces /\ UNCHANGED taskVars
    \/ next = "stopped" /\ Settle(t, "result")
    \/ next = "raised" /\ Settle(t, "error")

LEMMA GoesOn ==
    ASSUME RegistryInv, NEW t \in Task, NEW next \in Places, Goes(t, next), future[t] = "running"
    PROVE  /\ \A u \in Task : u # t => future'[u] = future[u]
           /\ next \in WizardPlaces => future'[t] = "running"
           /\ next \in {"stopped", "raised"} => Done(t)'
           /\ next \in WizardPlaces \cup {"stopped", "raised"}
           /\ UNCHANGED <<pending, answers>>
<1>1. future \in [Task -> Future]
  BY DEF RegistryInv, TasksInv, TasksTypeOK
<1>2. CASE next \in WizardPlaces /\ UNCHANGED taskVars
  BY <1>2 DEF taskVars, poolVars, historyVars, WizardPlaces
<1>3. ASSUME NEW how \in {"result", "error"}, Settle(t, how), next \in {"stopped", "raised"}
      PROVE  /\ \A u \in Task : u # t => future'[u] = future[u]
             /\ Done(t)' /\ next \notin WizardPlaces
             /\ UNCHANGED <<pending, answers>>
  BY <1>1, <1>3 DEF Settle, historyVars, Done, WizardPlaces
<1>. QED  BY <1>2, <1>3 DEF Goes

\* A step reports and goes on to the next, or is the last.
LEMMA ReportKeeps ==
    ASSUME RegistryInv, DeviceAssumption, TasksInv', NEW t \in Task, future[t] = "running",
           call[t].at \in WizardPlaces,
           NEW result \in StepResult, NEW serial \in Device, NEW next \in Places,
           Says(t, result, serial, next),
           Goes(t, next), next \in WizardPlaces => Reported(next) = Reported(call[t].at) + 1,
           Works \/ Fails, UNCHANGED <<phoneVars, rows, pageVars, scanHistory>>,
           Works /\ WizardKnows(t) => WizardKnows(t)'
    PROVE  RegistryInv'
<1>1. /\ call \in [Task -> Calls] /\ Len(call[t].results) = Reported(call[t].at)
      /\ Reported(call[t].at) \in 0..6 /\ IsWizard(t)
  BY AtWork
<1>2. /\ call' \in [Task -> Calls] /\ \A u \in Task : u # t => call'[u] = call[u]
      /\ call'[t].at = next /\ call'[t].asked = call[t].asked /\ call'[t].serial = serial
      /\ Len(call'[t].results) = Len(call[t].results) + 1
  BY <1>1, Reports DEF Said
<1>3. /\ server' = server /\ server \subseteq Device
      /\ UNCHANGED <<adb, link, certified, events>>
  BY DEF phoneVars, RegistryInv, ScansAreFaithful, RegistryTypeOK
<1>4. t \notin disturbed' => WizardKnows(t)'
  BY <1>1, CommandFails DEF RegistryInv, WizardInv
<1>. QED  BY <1>1, <1>2, <1>3, <1>4, GoesOn, CommandFails, WizardKeeps

\* A step goes on without a report, or raises.
LEMMA MoveKeeps ==
    ASSUME RegistryInv, DeviceAssumption, TasksInv', NEW t \in Task, future[t] = "running",
           call[t].at \in WizardPlaces, NEW next \in Places,
           call' = [call EXCEPT ![t].at = next],
           Goes(t, next), next \in WizardPlaces => Reported(next) = Reported(call[t].at),
           Works \/ Fails, UNCHANGED <<phoneVars, rows, pageVars, scanHistory>>,
           Works /\ WizardKnows(t) => WizardKnows(t)'
    PROVE  RegistryInv'
<1>1. /\ call \in [Task -> Calls] /\ Len(call[t].results) = Reported(call[t].at)
      /\ Reported(call[t].at) \in 0..6 /\ IsWizard(t) /\ call[t].serial \in Device
  BY AtWork
<1>2. /\ call' \in [Task -> Calls] /\ \A u \in Task : u # t => call'[u] = call[u]
      /\ call'[t].at = next /\ call'[t].asked = call[t].asked /\ call'[t].serial = call[t].serial
      /\ call'[t].results = call[t].results
  BY <1>1, Moves
<1>3. /\ server' = server /\ server \subseteq Device
      /\ UNCHANGED <<adb, link, certified, events>>
  BY DEF phoneVars, RegistryInv, ScansAreFaithful, RegistryTypeOK
<1>4. t \notin disturbed' => WizardKnows(t)'
  BY <1>1, CommandFails DEF RegistryInv, WizardInv
<1>. QED  BY <1>1, <1>2, <1>3, <1>4, GoesOn, CommandFails, WizardKeeps

-----------------------------------------------------------------------------
\* What the steps of the wizard report, and where they go.
\* What is known after the next report.
Tell(t, result, serial, next) ==
    /\ Says(t, result, serial, next)
    /\ next # "push" /\ next # "ready, certificate"
Learns(t, result, serial, next) ==
    /\ next \in Early => serial = call[t].asked
    /\ call[t].asked \in Attached => serial = call[t].asked
    /\ next \in Rooted => link[serial] = "device"
    /\ next \in Early \cup {"authorize", "root", "frida", "push", "launch", "verify"} =>
          FridaUnsaid(t) /\ ~OfFrida(result)
    /\ next \in {"certificate", "ready", "stopped"} =>
          \/ FridaSaid(t) /\ ~OfFrida(result) /\ serial = call[t].serial
          \/ FridaUnsaid(t) /\ Truthful(result, serial)
    /\ next = "stopped" => (result = <<"Ready", TRUE>> <=> PhoneReady(serial))

LEMMA TellsTruly ==
    ASSUME call \in [Task -> Calls], NEW t \in Task, NEW next \in Places, NEW serial \in Device,
           NEW result \in StepResult, Says(t, result, serial, next),
           next # "push" /\ next # "ready, certificate",
           UNCHANGED <<link, server, certified>>, Learns(t, result, serial, next)
    PROVE  WizardKnows(t)'
<1>0. Said(t, result, serial, next)
  BY Reports
<1>1. /\ call'[t].at = next /\ call'[t].asked = call[t].asked /\ call'[t].serial = serial
      /\ (Ready(t)' <=> result = <<"Ready", TRUE>>)
  BY <1>0 DEF Said
<1>2. FridaUnsaid(t) /\ ~OfFrida(result) => FridaUnsaid(t)'
  BY <1>0 DEF Said
<1>3. FridaSaid(t) /\ ~OfFrida(result) /\ serial = call[t].serial => FridaSaid(t)'
  BY <1>0 DEF Said
<1>4. FridaUnsaid(t) /\ Truthful(result, serial) => FridaSaid(t)'
  BY <1>0 DEF Said, Truthful
<1>5. next \in {"certificate", "ready", "ready, certificate", "stopped"} => FridaSaid(t)'
  BY <1>3, <1>4 DEF Learns
<1>6. next = "stopped" => (Ready(t)' <=> PhoneReady(serial)')
  BY <1>1 DEF Learns, PhoneReady
<1>7. call'[t].asked \in Attached' => serial = call'[t].asked
  BY <1>1 DEF Learns, Attached
<1>8. next \in Early \cup {"authorize", "root", "frida", "push", "launch", "verify"} =>
          FridaUnsaid(t)'
  BY <1>2 DEF Learns
<1>. QED  BY <1>1, <1>5, <1>6, <1>7, <1>8 DEF Learns, WizardKnows, PhoneReady

LEMMA TellKeeps ==
    ASSUME RegistryInv, DeviceAssumption, TasksInv', NEW t \in Task, future[t] = "running",
           call[t].at \in WizardPlaces,
           NEW result \in StepResult, NEW serial \in Device, NEW next \in Places,
           Tell(t, result, serial, next), Goes(t, next),
           next \in WizardPlaces => Reported(next) = Reported(call[t].at) + 1,
           Works \/ Fails, UNCHANGED <<phoneVars, rows, pageVars, scanHistory>>,
           Works /\ WizardKnows(t) => Learns(t, result, serial, next)
    PROVE  RegistryInv'
<1>1. call \in [Task -> Calls] /\ Says(t, result, serial, next)
  BY AtWork DEF Tell
<1>2. UNCHANGED <<link, server, certified>> /\ next # "push" /\ next # "ready, certificate"
  BY DEF phoneVars, Tell
<1>3. Works /\ WizardKnows(t) => WizardKnows(t)'
  BY <1>1, <1>2, TellsTruly
<1>. QED  BY <1>1, <1>3, ReportKeeps

\* A command that gets through has not failed.
LEMMA WorksOrFails ==
    ASSUME RegistryInv, DeviceAssumption, Fails
    PROVE  ~Works
<1>1. failures \in Int /\ failures' = failures - 1
  BY DEF RegistryInv, ScansAreFaithful, RegistryTypeOK, Fails, DeviceAssumption
<1>. QED  BY <1>1 DEF Works

LEMMA ResultOf ==
    ASSUME NEW step \in Step, NEW passed \in BOOLEAN
    PROVE  \E result \in StepResult :
              result = <<step, passed>> /\ result[1] = step /\ result[2] = passed
<1>1. <<step, passed>> \in StepResult
  BY DEF StepResult
<1>2. <<step, passed>>[1] = step /\ <<step, passed>>[2] = passed
  OBVIOUS
<1>. QED  BY <1>1, <1>2

-----------------------------------------------------------------------------
\* The adb server answers, does not start, or is not there to start.
LEMMA CheckAdbKeeps ==
    ASSUME RegistryInv, DeviceAssumption, TasksInv', NEW t \in Task, CheckAdb(t)
    PROVE  RegistryInv'
<1>1. /\ future[t] = "running" /\ call[t].at = "adb" /\ call[t].at \in WizardPlaces
      /\ UNCHANGED <<phoneVars, rows, pageVars, scanHistory>>
      /\ UNCHANGED <<link, server, certified>>
  BY DEF CheckAdb, Running, phoneVars, WizardPlaces
<1>2. call \in [Task -> Calls] /\ call[t].serial \in Device
  BY <1>1, AtWork
<1>3. CASE Works /\ Report(t, "Check ADB", TRUE, "detect")
  <2>1. PICK result \in StepResult :
            result = <<"Check ADB", TRUE>> /\ result[1] = "Check ADB" /\ result[2] = TRUE
    BY ResultOf DEF Step
  <2>2. Tell(t, result, call[t].serial, "detect")
    BY <1>3, <2>1 DEF Report, Tell, Says
  <2>3. Goes(t, "detect")
    BY <1>3 DEF Report, Goes, WizardPlaces
  <2>4. WizardKnows(t) => Learns(t, result, call[t].serial, "detect")
    BY <1>1, <2>1 DEF WizardKnows, Learns, Early, Rooted, OfFrida
  <2>5. "detect" \in Places /\ Reported("detect") = Reported(call[t].at) + 1
    BY <1>1 DEF Places, Reported
  <2>. QED  BY <1>1, <1>2, <1>3, <2>2, <2>3, <2>4, <2>5, TellKeeps
<1>4. CASE Fails /\ Blocked(t, "Check ADB")
  <2>1. PICK result \in StepResult :
            result = <<"Check ADB", FALSE>> /\ result[1] = "Check ADB" /\ result[2] = FALSE
    BY ResultOf DEF Step
  <2>2. Tell(t, result, call[t].serial, "stopped")
    BY <1>4, <2>1 DEF Blocked, Tell, Says
  <2>3. Goes(t, "stopped") /\ "stopped" \in Places /\ "stopped" \notin WizardPlaces
    BY <1>4 DEF Blocked, Goes, WizardPlaces, Places
  <2>. QED  BY <1>1, <1>2, <1>4, <2>2, <2>3, TellKeeps, WorksOrFails
<1>5. CASE Works /\ ~adb /\ Raise(t)
  <2>1. call' = [call EXCEPT ![t].at = "raised"] /\ Goes(t, "raised")
    BY <1>1, <1>5 DEF Raise, Return, Goes, IsScan
  <2>2. "raised" \in Places /\ "raised" \notin WizardPlaces
    BY DEF Places, WizardPlaces
  <2>3. /\ call'[t].at = "raised" /\ call'[t].asked = call[t].asked
        /\ call'[t].serial = call[t].serial
    BY <1>2, <2>1, <2>2, Moves
  <2>4. WizardKnows(t) => WizardKnows(t)'
    BY <1>1, <2>3 DEF WizardKnows, Early, Rooted, Attached
  <2>. QED  BY <1>1, <1>2, <1>5, <2>1, <2>2, <2>4, MoveKeeps
<1>. QED  BY <1>3, <1>4, <1>5 DEF CheckAdb

\* The phone asked about if it is attached, else another one, or none.
LEMMA DetectDeviceKeeps ==
    ASSUME RegistryInv, DeviceAssumption, TasksInv', NEW t \in Task, DetectDevice(t)
    PROVE  RegistryInv'
<1>1. /\ future[t] = "running" /\ call[t].at = "detect" /\ call[t].at \in WizardPlaces
      /\ UNCHANGED <<phoneVars, rows, pageVars, scanHistory>>
  BY DEF DetectDevice, Running, WizardPlaces
<1>2. call \in [Task -> Calls] /\ call[t].serial \in Device
  BY <1>1, AtWork
<1>3. ASSUME Works, NEW d \in Targets(call[t].serial), UNCHANGED taskVars,
             call' = [call EXCEPT ![t].results = Append(@, <<"Detect Device", TRUE>>),
                                  ![t].serial = d, ![t].at = "authorize"]
      PROVE  RegistryInv'
  <2>. d \in Device
    BY <1>2 DEF Targets, Attached
  <2>1. PICK result \in StepResult :
            result = <<"Detect Device", TRUE>> /\ result[1] = "Detect Device" /\ result[2] = TRUE
    BY ResultOf DEF Step
  <2>2. Tell(t, result, d, "authorize")
    BY <1>3, <2>1 DEF Tell, Says
  <2>3. Goes(t, "authorize")
    BY <1>3 DEF Goes, WizardPlaces
  <2>4. WizardKnows(t) => Learns(t, result, d, "authorize")
    BY <1>1, <2>1 DEF WizardKnows, Learns, Early, Rooted, OfFrida, Targets
  <2>5. "authorize" \in Places /\ Reported("authorize") = Reported(call[t].at) + 1
    BY <1>1 DEF Places, Reported
  <2>. QED  BY <1>1, <1>2, <1>3, <2>2, <2>3, <2>4, <2>5, TellKeeps
<1>4. CASE Works /\ Attached = {} /\ Blocked(t, "Detect Device")
  <2>1. PICK result \in StepResult :
            result = <<"Detect Device", FALSE>> /\ result[1] = "Detect Device" /\ result[2] = FALSE
    BY ResultOf DEF Step
  <2>2. Tell(t, result, call[t].serial, "stopped") /\ result # <<"Ready", TRUE>>
    BY <1>4, <2>1 DEF Blocked, Tell, Says
  <2>3. Goes(t, "stopped") /\ "stopped" \in Places /\ "stopped" \notin WizardPlaces
    BY <1>4 DEF Blocked, Goes, WizardPlaces, Places
  <2>4. WizardKnows(t) => Learns(t, result, call[t].serial, "stopped")
    BY <1>1, <1>2, <1>4, <2>1, <2>2
    DEF WizardKnows, Learns, Early, Rooted, OfFrida, Truthful, PhoneReady,
                                        Attached
  <2>. QED  BY <1>1, <1>2, <1>4, <2>2, <2>3, <2>4, TellKeeps
<1>5. CASE Fails /\ Blocked(t, "Detect Device")
  <2>1. PICK result \in StepResult :
            result = <<"Detect Device", FALSE>> /\ result[1] = "Detect Device" /\ result[2] = FALSE
    BY ResultOf DEF Step
  <2>2. Tell(t, result, call[t].serial, "stopped")
    BY <1>5, <2>1 DEF Blocked, Tell, Says
  <2>3. Goes(t, "stopped") /\ "stopped" \in Places /\ "stopped" \notin WizardPlaces
    BY <1>5 DEF Blocked, Goes, WizardPlaces, Places
  <2>. QED  BY <1>1, <1>2, <1>5, <2>2, <2>3, TellKeeps, WorksOrFails
<1>. QED  BY <1>3, <1>4, <1>5 DEF DetectDevice

\* The phone has accepted the host's key, or not, or the listing fails.
LEMMA CheckAuthorizedKeeps ==
    ASSUME RegistryInv, DeviceAssumption, TasksInv', NEW t \in Task, CheckAuthorized(t)
    PROVE  RegistryInv'
<1>1. /\ future[t] = "running" /\ call[t].at = "authorize" /\ call[t].at \in WizardPlaces
      /\ UNCHANGED <<phoneVars, rows, pageVars, scanHistory>>
  BY DEF CheckAuthorized, Running, WizardPlaces
<1>2. call \in [Task -> Calls] /\ call[t].serial \in Device
  BY <1>1, AtWork
<1>3. CASE Works /\ link[call[t].serial] = "device" /\ Report(t, "Accept RSA", TRUE, "root")
  <2>1. PICK result \in StepResult :
            result = <<"Accept RSA", TRUE>> /\ result[1] = "Accept RSA" /\ result[2] = TRUE
    BY ResultOf DEF Step
  <2>2. Tell(t, result, call[t].serial, "root")
    BY <1>3, <2>1 DEF Report, Tell, Says
  <2>3. Goes(t, "root")
    BY <1>3 DEF Report, Goes, WizardPlaces
  <2>4. Works /\ WizardKnows(t) => Learns(t, result, call[t].serial, "root")
    BY <1>1, <1>3, <2>1 DEF WizardKnows, Learns, Early, Rooted, OfFrida
  <2>5. "root" \in Places
        /\ ("root" \in WizardPlaces => Reported("root") = Reported(call[t].at) + 1)
    BY <1>1 DEF Places, Reported, WizardPlaces
  <2>. QED  BY <1>1, <1>2, <1>3, <2>2, <2>3, <2>4, <2>5, TellKeeps
<1>4. CASE Works /\ link[call[t].serial] # "device" /\ Blocked(t, "Accept RSA")
  <2>1. PICK result \in StepResult :
            result = <<"Accept RSA", FALSE>> /\ result[1] = "Accept RSA" /\ result[2] = FALSE
    BY ResultOf DEF Step
  <2>2. Tell(t, result, call[t].serial, "stopped") /\ result # <<"Ready", TRUE>>
    BY <1>4, <2>1 DEF Blocked, Tell, Says
  <2>3. Goes(t, "stopped") /\ "stopped" \in Places /\ "stopped" \notin WizardPlaces
    BY <1>4 DEF Blocked, Goes, WizardPlaces, Places
  <2>4. WizardKnows(t) => Learns(t, result, call[t].serial, "stopped")
    BY <1>1, <1>4, <2>1, <2>2 DEF WizardKnows, Learns, Early, Rooted, OfFrida, Truthful, PhoneReady
  <2>. QED  BY <1>1, <1>2, <1>4, <2>2, <2>3, <2>4, TellKeeps
<1>5. CASE Fails /\ Raise(t)
  <2>1. call' = [call EXCEPT ![t].at = "raised"] /\ Goes(t, "raised")
    BY <1>1, <1>5 DEF Raise, Return, Goes, IsScan
  <2>2. "raised" \in Places /\ "raised" \notin WizardPlaces
    BY DEF Places, WizardPlaces
  <2>. QED  BY <1>1, <1>2, <1>5, <2>1, <2>2, MoveKeeps, WorksOrFails
<1>. QED  BY <1>3, <1>4, <1>5 DEF CheckAuthorized

\* Rooted or not, the wizard goes on.
LEMMA CheckRootKeeps ==
    ASSUME RegistryInv, DeviceAssumption, TasksInv', NEW t \in Task, CheckRoot(t)
    PROVE  RegistryInv'
<1>1. /\ future[t] = "running" /\ call[t].at = "root" /\ call[t].at \in WizardPlaces
      /\ UNCHANGED <<phoneVars, rows, pageVars, scanHistory>>
  BY DEF CheckRoot, Running, WizardPlaces
<1>2. call \in [Task -> Calls] /\ call[t].serial \in Device
  BY <1>1, AtWork
<1>3. CASE Works /\ Report(t, "Root Check", TRUE, "frida")
  <2>1. PICK result \in StepResult :
            result = <<"Root Check", TRUE>> /\ result[1] = "Root Check" /\ result[2] = TRUE
    BY ResultOf DEF Step
  <2>2. Tell(t, result, call[t].serial, "frida")
    BY <1>3, <2>1 DEF Report, Tell, Says
  <2>3. Goes(t, "frida")
    BY <1>3 DEF Report, Goes, WizardPlaces
  <2>4. Works /\ WizardKnows(t) => Learns(t, result, call[t].serial, "frida")
    BY <1>1, <1>3, <2>1 DEF WizardKnows, Learns, Early, Rooted, OfFrida
  <2>5. "frida" \in Places
        /\ ("frida" \in WizardPlaces => Reported("frida") = Reported(call[t].at) + 1)
    BY <1>1 DEF Places, Reported, WizardPlaces
  <2>. QED  BY <1>1, <1>2, <1>3, <2>2, <2>3, <2>4, <2>5, TellKeeps
<1>. QED  BY <1>3 DEF CheckRoot

\* frida-server runs, or is to be pushed.
LEMMA CheckFridaServerKeeps ==
    ASSUME RegistryInv, DeviceAssumption, TasksInv', NEW t \in Task, CheckFridaServer(t)
    PROVE  RegistryInv'
<1>1. /\ future[t] = "running" /\ call[t].at = "frida" /\ call[t].at \in WizardPlaces
      /\ UNCHANGED <<phoneVars, rows, pageVars, scanHistory>>
  BY DEF CheckFridaServer, Running, WizardPlaces
<1>2. call \in [Task -> Calls] /\ call[t].serial \in Device
  BY <1>1, AtWork
<1>3. ASSUME NEW found \in BOOLEAN, ServerSeen(call[t].serial, found), found,
             Report(t, "Start Frida", TRUE, "certificate")
      PROVE  RegistryInv'
  <2>1. PICK result \in StepResult :
            result = <<"Start Frida", TRUE>> /\ result[1] = "Start Frida" /\ result[2] = TRUE
    BY ResultOf DEF Step
  <2>2. Tell(t, result, call[t].serial, "certificate")
    BY <1>3, <2>1 DEF Report, Tell, Says
  <2>3. Goes(t, "certificate")
    BY <1>3 DEF Report, Goes, WizardPlaces
  <2>4. Works /\ WizardKnows(t) => Learns(t, result, call[t].serial, "certificate")
    BY <1>1, <1>3, <2>1, WorksOrFails DEF WizardKnows, Learns, Early, Rooted, OfFrida, Truthful,
                                           ServerSeen
  <2>5. "certificate" \in Places /\ Reported("certificate") = Reported(call[t].at) + 1
    BY <1>1 DEF Places, Reported
  <2>6. Works \/ Fails
    BY <1>3 DEF ServerSeen
  <2>. QED  BY <1>1, <1>2, <1>3, <2>2, <2>3, <2>4, <2>5, <2>6, TellKeeps
<1>4. ASSUME NEW found \in BOOLEAN, ServerSeen(call[t].serial, found), ~found,
             UNCHANGED taskVars, call' = [call EXCEPT ![t].at = "push"]
      PROVE  RegistryInv'
  <2>1. call' = [call EXCEPT ![t].at = "push"] /\ Goes(t, "push")
    BY <1>4 DEF Goes, WizardPlaces
  <2>2. "push" \in Places /\ Reported("push") = Reported(call[t].at)
    BY <1>1 DEF Places, Reported
  <2>3. /\ call'[t].at = "push" /\ call'[t].asked = call[t].asked
        /\ call'[t].serial = call[t].serial /\ call'[t].results = call[t].results
    BY <1>2, <2>1, <2>2, Moves
  <2>4. Works \/ Fails
    BY <1>4 DEF ServerSeen
  <2>5. UNCHANGED <<link, server, certified>>
    BY <1>1 DEF phoneVars
  <2>6. Works /\ WizardKnows(t) => call[t].serial \notin server
    BY <1>1, <1>4, WorksOrFails DEF WizardKnows, Rooted, ServerSeen
  <2>7. Works /\ WizardKnows(t) => WizardKnows(t)'
    BY <1>1, <2>3, <2>5, <2>6 DEF WizardKnows, Early, Rooted, Attached, FridaUnsaid, FridaSaid
  <2>. QED  BY <1>1, <1>2, <1>4, <2>1, <2>2, <2>4, <2>7, MoveKeeps
<1>. QED  BY <1>3, <1>4 DEF CheckFridaServer

\* The binary is pushed and will be launched, or there is none to push.
LEMMA PushFridaServerKeeps ==
    ASSUME RegistryInv, DeviceAssumption, TasksInv', NEW t \in Task, PushFridaServer(t)
    PROVE  RegistryInv'
<1>1. /\ future[t] = "running" /\ call[t].at = "push" /\ call[t].at \in WizardPlaces
      /\ UNCHANGED <<phoneVars, rows, pageVars, scanHistory>>
  BY DEF PushFridaServer, Running, WizardPlaces
<1>2. call \in [Task -> Calls] /\ call[t].serial \in Device
  BY <1>1, AtWork
<1>3. ASSUME NEW through \in BOOLEAN, Shell(call[t].serial, through), through,
             UNCHANGED taskVars, call' = [call EXCEPT ![t].at = "launch"]
      PROVE  RegistryInv'
  <2>1. call' = [call EXCEPT ![t].at = "launch"] /\ Goes(t, "launch")
    BY <1>3 DEF Goes, WizardPlaces
  <2>2. "launch" \in Places /\ Reported("launch") = Reported(call[t].at)
    BY <1>1 DEF Places, Reported
  <2>3. /\ call'[t].at = "launch" /\ call'[t].asked = call[t].asked
        /\ call'[t].serial = call[t].serial /\ call'[t].results = call[t].results
    BY <1>2, <2>1, <2>2, Moves
  <2>4. Works \/ Fails
    BY <1>3 DEF Shell
  <2>5. UNCHANGED <<link, server, certified>>
    BY <1>1 DEF phoneVars
  <2>6. Works /\ WizardKnows(t) => WizardKnows(t)'
    BY <1>1, <1>3, <2>3, <2>5, WorksOrFails DEF WizardKnows, Early, Rooted, Attached, FridaUnsaid,
                                                 FridaSaid, Shell
  <2>. QED  BY <1>1, <1>2, <1>3, <2>1, <2>2, <2>4, <2>6, MoveKeeps
<1>4. ASSUME NEW through \in BOOLEAN, Shell(call[t].serial, through),
             Report(t, "Start Frida", FALSE, "certificate")
      PROVE  RegistryInv'
  <2>1. PICK result \in StepResult :
            result = <<"Start Frida", FALSE>> /\ result[1] = "Start Frida" /\ result[2] = FALSE
    BY ResultOf DEF Step
  <2>2. Tell(t, result, call[t].serial, "certificate")
    BY <1>4, <2>1 DEF Report, Tell, Says
  <2>3. Goes(t, "certificate")
    BY <1>4 DEF Report, Goes, WizardPlaces
  <2>4. Works /\ WizardKnows(t) => Learns(t, result, call[t].serial, "certificate")
    BY <1>1, <1>4, <2>1, WorksOrFails DEF WizardKnows, Learns, Early, Rooted, OfFrida, Truthful,
                                           Shell
  <2>5. "certificate" \in Places /\ Reported("certificate") = Reported(call[t].at) + 1
    BY <1>1 DEF Places, Reported
  <2>6. Works \/ Fails
    BY <1>4 DEF Shell
  <2>. QED  BY <1>1, <1>2, <1>4, <2>2, <2>3, <2>4, <2>5, <2>6, TellKeeps
<1>. QED  BY <1>3, <1>4 DEF PushFridaServer

\* frida-server runs now, or does not.
LEMMA VerifyFridaServerKeeps ==
    ASSUME RegistryInv, DeviceAssumption, TasksInv', NEW t \in Task, VerifyFridaServer(t)
    PROVE  RegistryInv'
<1>1. /\ future[t] = "running" /\ call[t].at = "verify" /\ call[t].at \in WizardPlaces
      /\ UNCHANGED <<phoneVars, rows, pageVars, scanHistory>>
  BY DEF VerifyFridaServer, Running, WizardPlaces
<1>2. call \in [Task -> Calls] /\ call[t].serial \in Device
  BY <1>1, AtWork
<1>3. ASSUME NEW found \in BOOLEAN, ServerSeen(call[t].serial, found),
             Report(t, "Start Frida", found, "certificate")
      PROVE  RegistryInv'
  <2>1. PICK result \in StepResult :
            result = <<"Start Frida", found>> /\ result[1] = "Start Frida" /\ result[2] = found
    BY ResultOf DEF Step
  <2>2. Tell(t, result, call[t].serial, "certificate")
    BY <1>3, <2>1 DEF Report, Tell, Says
  <2>3. Goes(t, "certificate")
    BY <1>3 DEF Report, Goes, WizardPlaces
  <2>4. Works /\ WizardKnows(t) => Learns(t, result, call[t].serial, "certificate")
    BY <1>1, <1>3, <2>1, WorksOrFails DEF WizardKnows, Learns, Early, Rooted, OfFrida, Truthful,
                                           ServerSeen
  <2>5. "certificate" \in Places /\ Reported("certificate") = Reported(call[t].at) + 1
    BY <1>1 DEF Places, Reported
  <2>6. Works \/ Fails
    BY <1>3 DEF ServerSeen
  <2>. QED  BY <1>1, <1>2, <1>3, <2>2, <2>3, <2>4, <2>5, <2>6, TellKeeps
<1>. QED  BY <1>3 DEF VerifyFridaServer

\* The phone has a user certificate, or not.
LEMMA CheckCertificateKeeps ==
    ASSUME RegistryInv, DeviceAssumption, TasksInv', NEW t \in Task, CheckCertificate(t)
    PROVE  RegistryInv'
<1>1. /\ future[t] = "running" /\ call[t].at = "certificate" /\ call[t].at \in WizardPlaces
      /\ UNCHANGED <<phoneVars, rows, pageVars, scanHistory>>
  BY DEF CheckCertificate, Running, WizardPlaces
<1>2. call \in [Task -> Calls] /\ call[t].serial \in Device
  BY <1>1, AtWork
<1>3. ASSUME NEW found \in BOOLEAN, CertificateSeen(call[t].serial, found),
             Report(t, "Install Burp Certificate", found, "ready")
      PROVE  RegistryInv'
  <2>1. PICK result \in StepResult :
            result = <<"Install Burp Certificate", found>> /\ result[1] = "Install Burp Certificate"
            /\ result[2] = found
    BY ResultOf DEF Step
  <2>2. Tell(t, result, call[t].serial, "ready")
    BY <1>3, <2>1 DEF Report, Tell, Says
  <2>3. Goes(t, "ready")
    BY <1>3 DEF Report, Goes, WizardPlaces
  <2>4. Works /\ WizardKnows(t) => Learns(t, result, call[t].serial, "ready")
    BY <1>1, <1>3, <2>1, WorksOrFails DEF WizardKnows, Learns, Early, Rooted, OfFrida, Truthful,
                                           CertificateSeen
  <2>5. "ready" \in Places /\ Reported("ready") = Reported(call[t].at) + 1
    BY <1>1 DEF Places, Reported
  <2>6. Works \/ Fails
    BY <1>3 DEF CertificateSeen
  <2>. QED  BY <1>1, <1>2, <1>3, <2>2, <2>3, <2>4, <2>5, <2>6, TellKeeps
<1>. QED  BY <1>3 DEF CheckCertificate

\* frida-server may run from now on, which the other wizards have not expected.
LEMMA LaunchFridaServerKeeps ==
    ASSUME RegistryInv, DeviceAssumption, TasksInv', NEW t \in Task, LaunchFridaServer(t)
    PROVE  RegistryInv'
<1>1. /\ future[t] = "running" /\ call[t].at = "launch" /\ call[t].at \in WizardPlaces
      /\ call' = [call EXCEPT ![t].at = "verify"]
      /\ UNCHANGED <<taskVars, adb, link, certified, events, rows, pageVars, scanHistory>>
  BY DEF LaunchFridaServer, Running, WizardPlaces
<1>2. /\ call \in [Task -> Calls] /\ Len(call[t].results) = Reported(call[t].at) /\ IsWizard(t)
      /\ call[t].serial \in Device
  BY <1>1, AtWork
<1>3. "verify" \in Places /\ "verify" \in WizardPlaces /\ Reported("verify") = Reported(call[t].at)
      /\ Reported(call[t].at) <= 7
  BY <1>1 DEF Places, WizardPlaces, Reported
<1>4. /\ call' \in [Task -> Calls] /\ \A u \in Task : u # t => call'[u] = call[u]
      /\ call'[t].at = "verify" /\ call'[t].asked = call[t].asked
      /\ call'[t].serial = call[t].serial /\ call'[t].results = call[t].results
  BY <1>1, <1>2, <1>3, Moves
<1>5. /\ future' = future /\ UNCHANGED <<pending, answers>>
  BY <1>1 DEF taskVars, poolVars, historyVars
<1>6. failures' \in 0..MaxFailures /\ server' \subseteq Device /\ disturbed' \subseteq Task
  <2>1. server \subseteq Device /\ disturbed \subseteq Task /\ failures \in 0..MaxFailures
    BY DEF RegistryInv, ScansAreFaithful, RegistryTypeOK
  <2>2. CASE Works \/ Fails
    BY <1>1, <1>2, <2>1, <2>2, CommandFails DEF LaunchFridaServer, Works, Fails
  <2>3. CASE ~(Works \/ Fails)
    BY <1>2, <2>1, <2>3 DEF LaunchFridaServer
  <2>. QED  BY <2>2, <2>3
<1>7. \A u \in Task : IsWizard(u) /\ u # t /\ u \notin disturbed' =>
          u \notin disturbed /\ server' = server
  <2>1. CASE Works \/ Fails
    BY <2>1, CommandFails, WorksOrFails DEF LaunchFridaServer, Works, Fails, Disturb
  <2>2. CASE ~(Works \/ Fails)
    BY <2>2 DEF LaunchFridaServer
  <2>. QED  BY <2>1, <2>2
<1>8. t \notin disturbed' => t \notin disturbed
  BY <1>2, CommandFails DEF LaunchFridaServer
<1>9. t \notin disturbed' => WizardKnows(t)'
  <2>1. FridaUnsaid(t) => FridaUnsaid(t)'
    BY <1>4 DEF FridaUnsaid
  <2>2. Attached' = Attached /\ link' = link
    BY <1>1 DEF Attached
  <2>3. call[t].at = "launch" /\ call'[t].at = "verify" /\ call'[t].serial = call[t].serial
        /\ call'[t].asked = call[t].asked
    BY <1>1, <1>4
  <2>4. WizardKnows(t) => WizardKnows(t)'
    BY <2>1, <2>2, <2>3 DEF WizardKnows, Early, Rooted
  <2>. QED  BY <1>2, <1>8, <2>4 DEF RegistryInv, WizardInv
<1>. QED  BY <1>1, <1>2, <1>3, <1>4, <1>5, <1>6, <1>7, <1>9, WizardKeeps

\* The verdict: what the two commands find of a phone nobody touches is how it is.
LEMMA FinalReadyKeeps ==
    ASSUME RegistryInv, DeviceAssumption, TasksInv', NEW t \in Task, FinalReady(t)
    PROVE  RegistryInv'
<1>1. /\ future[t] = "running" /\ call[t].at \in {"ready", "ready, certificate"}
      /\ call[t].at \in WizardPlaces
      /\ UNCHANGED <<phoneVars, rows, pageVars, scanHistory>>
  BY DEF FinalReady, Running, WizardPlaces
<1>2. call \in [Task -> Calls] /\ call[t].serial \in Device
  BY <1>1, AtWork
<1>3. UNCHANGED <<link, server, certified>>
  BY <1>1 DEF phoneVars
<1>4. ASSUME NEW found \in BOOLEAN, call[t].at = "ready", ServerSeen(call[t].serial, found), found,
             UNCHANGED taskVars, call' = [call EXCEPT ![t].at = "ready, certificate"]
      PROVE  RegistryInv'
  <2>1. Goes(t, "ready, certificate") /\ "ready, certificate" \in Places
        /\ Reported("ready, certificate") = Reported(call[t].at)
    BY <1>4 DEF Goes, WizardPlaces, Places, Reported
  <2>2. /\ call'[t].at = "ready, certificate" /\ call'[t].asked = call[t].asked
        /\ call'[t].serial = call[t].serial /\ call'[t].results = call[t].results
    BY <1>2, <1>4, <2>1, Moves
  <2>3. Works /\ call[t].serial \in server
    BY <1>4 DEF ServerSeen
  <2>4. FridaSaid(t) => FridaSaid(t)'
    BY <1>3, <2>2 DEF FridaSaid
  <2>5. ASSUME WizardKnows(t)
        PROVE  WizardKnows(t)'
    <3>. call[t].at = "ready"
      BY <1>4
    <3>1. /\ FridaSaid(t)'
          /\ (call[t].asked \in Attached => call[t].serial = call[t].asked)
      BY <2>4, <2>5 DEF WizardKnows
    <3>2. link[call[t].serial] = "device"
      BY <2>5 DEF WizardKnows, Rooted
    <3>3. Attached' = Attached
      BY <1>3 DEF Attached
    <3>. QED  BY <1>3, <2>2, <2>3, <3>1, <3>2, <3>3 DEF WizardKnows, Early
  <2>. QED  BY <1>1, <1>2, <1>4, <2>1, <2>3, <2>5, MoveKeeps
<1>5. ASSUME NEW found \in BOOLEAN, ~found, Blocked(t, "Ready"), Works \/ Fails,
             Works => ~PhoneReady(call[t].serial)
      PROVE  RegistryInv'
  <2>1. PICK result \in StepResult :
            result = <<"Ready", FALSE>> /\ result[1] = "Ready" /\ result[2] = FALSE
    BY ResultOf DEF Step
  <2>2. Tell(t, result, call[t].serial, "stopped") /\ result # <<"Ready", TRUE>>
    BY <1>5, <2>1 DEF Blocked, Tell, Says
  <2>3. Goes(t, "stopped") /\ "stopped" \in Places /\ "stopped" \notin WizardPlaces
    BY <1>5 DEF Blocked, Goes, WizardPlaces, Places
  <2>4. Works /\ WizardKnows(t) => Learns(t, result, call[t].serial, "stopped")
    BY <1>1, <1>5, <2>1, <2>2 DEF WizardKnows, Learns, Early, Rooted, OfFrida
  <2>. QED  BY <1>1, <1>2, <1>5, <2>2, <2>3, <2>4, TellKeeps
<1>6. ASSUME Works, Settle(t, "result"), call[t].at = "ready, certificate",
             link[call[t].serial] = "device", call[t].serial \in certified,
             call' = [call EXCEPT ![t].results = Append(@, <<"Ready", TRUE>>), ![t].at = "stopped"]
      PROVE  RegistryInv'
  <2>1. PICK result \in StepResult :
            result = <<"Ready", TRUE>> /\ result[1] = "Ready" /\ result[2] = TRUE
    BY ResultOf DEF Step
  <2>2. Tell(t, result, call[t].serial, "stopped")
    BY <1>6, <2>1 DEF Tell, Says
  <2>3. Goes(t, "stopped") /\ "stopped" \in Places /\ "stopped" \notin WizardPlaces
    BY <1>6 DEF Goes, WizardPlaces, Places
  <2>4. WizardKnows(t) => Learns(t, result, call[t].serial, "stopped")
    BY <1>6, <2>1 DEF WizardKnows, Learns, Early, Rooted, OfFrida, PhoneReady
  <2>. QED  BY <1>1, <1>2, <1>6, <2>2, <2>3, <2>4, TellKeeps
<1>7. ASSUME NEW found \in BOOLEAN, call[t].at = "ready", ServerSeen(call[t].serial, found), ~found
      PROVE  (Works \/ Fails) /\ (Works => ~PhoneReady(call[t].serial))
  BY <1>7, WorksOrFails DEF ServerSeen, PhoneReady
<1>8. ASSUME NEW found \in BOOLEAN, CertificateSeen(call[t].serial, found)
      PROVE  /\ ~found => (Works \/ Fails) /\ (Works => ~PhoneReady(call[t].serial))
             /\ found => /\ Works /\ link[call[t].serial] = "device"
                         /\ call[t].serial \in certified
  BY <1>8, WorksOrFails DEF CertificateSeen, PhoneReady
<1>9. PICK found \in BOOLEAN :
          \/ /\ Running(t, "ready")
             /\ ServerSeen(call[t].serial, found)
             /\ IF found THEN UNCHANGED taskVars /\ call' = [call EXCEPT ![t].at = "ready, certificate"]
                         ELSE Blocked(t, "Ready")
          \/ /\ Running(t, "ready, certificate")
             /\ CertificateSeen(call[t].serial, found)
             /\ IF found
                THEN /\ Settle(t, "result")
                     /\ call' = [call EXCEPT ![t].results = Append(@, <<"Ready", TRUE>>),
                                             ![t].at = "stopped"]
                ELSE Blocked(t, "Ready")
  BY DEF FinalReady
<1>10. CASE Running(t, "ready") /\ found
  BY <1>4, <1>9, <1>10 DEF Running
<1>11. CASE Running(t, "ready") /\ ~found
  BY <1>5, <1>7, <1>9, <1>11 DEF Running
<1>12. CASE Running(t, "ready, certificate") /\ found
  BY <1>6, <1>8, <1>9, <1>12 DEF Running
<1>13. CASE Running(t, "ready, certificate") /\ ~found
  BY <1>5, <1>8, <1>9, <1>13 DEF Running
<1>. QED  BY <1>9, <1>10, <1>11, <1>12, <1>13

LEMMA WizardStepKeeps ==
    ASSUME RegistryInv, DeviceAssumption, TasksInv', NEW t \in Task, Wizard(t)
    PROVE  RegistryInv'
BY CheckAdbKeeps, DetectDeviceKeeps, CheckAuthorizedKeeps, CheckRootKeeps, CheckFridaServerKeeps,
   PushFridaServerKeeps, LaunchFridaServerKeeps, VerifyFridaServerKeeps, CheckCertificateKeeps,
   FinalReadyKeeps
DEF Wizard

-----------------------------------------------------------------------------
\* The threads take up a call; a scan lists, queries and stores.
LEMMA StatusOfSeen == \A state \in Seen : StatusOf[state] \in Status
<1>1. StatusOf["device"] \in Status
  BY DEF StatusOf, Status
<1>2. StatusOf["unauthorized"] \in Status
  BY DEF StatusOf, Status
<1>3. StatusOf["offline"] \in Status
  BY DEF StatusOf, Status
<1>4. \A state \in Seen : state = "device" \/ state = "unauthorized" \/ state = "offline"
  BY DEF Seen, Link
<1>. QED  BY <1>1, <1>2, <1>3, <1>4

\* Of the wizards a scan's step disturbs none, unless its command fails.
LEMMA ScanDisturbs ==
    ASSUME RegistryInv, DeviceAssumption, Works \/ Fails, server' = server
    PROVE  /\ failures' \in 0..MaxFailures /\ disturbed' \subseteq Task /\ server' \subseteq Device
           /\ \A u \in Task : IsWizard(u) /\ u \notin disturbed' =>
                 u \notin disturbed /\ server' = server
BY CommandFails DEF RegistryInv, ScansAreFaithful, RegistryTypeOK

LEMMA BeginKeeps ==
    ASSUME RegistryInv, DeviceAssumption, TasksInv', NEW t \in Task, Begin(t)
    PROVE  RegistryInv'
<1>1. /\ call \in [Task -> Calls] /\ PlaceOf(t)
      /\ \A u \in Task : PlaceOf(u)
  BY DEF RegistryInv, CallInv
<1>2. /\ future[t] = "queued" /\ future' = [future EXCEPT ![t] = "running"]
      /\ UNCHANGED <<pending, answers>> /\ future \in [Task -> Future]
  <2>1. /\ pool_queue # <<>> /\ t = Head(pool_queue)
        /\ future' = [future EXCEPT ![t] = "running"] /\ UNCHANGED <<pending, answers>>
    BY DEF Begin, TakeUp, historyVars
  <2>2. /\ pool_queue \in Seq(Task) /\ future \in [Task -> Future]
        /\ \A i \in DOMAIN pool_queue : future[pool_queue[i]] = "queued"
    BY DEF RegistryInv, TasksInv, TasksTypeOK, QueueInv
  <2>3. 1 \in DOMAIN pool_queue /\ t = pool_queue[1]
    BY <2>1, <2>2
  <2>. QED  BY <2>1, <2>2, <2>3
<1>3. /\ future'[t] = "running"
      /\ \A u \in Task : u # t => future'[u] = future[u]
  BY <1>2
<1>4. call[t].at \in {"scan", "submitted"}
  BY <1>1, <1>2 DEF PlaceOf, Calls, Places, WizardPlaces, Over, Done
<1>5. PICK place \in {"scan", "adb"} :
          /\ call' = [call EXCEPT ![t].at = place]
          /\ place = "scan" <=> call[t].at = "scan"
  BY <1>4 DEF Begin
<1>6. place \in Places
  BY DEF Places
<1>7. /\ call' \in [Task -> Calls] /\ \A u \in Task : u # t => call'[u] = call[u]
      /\ call'[t].at = place /\ call'[t].asked = call[t].asked
      /\ call'[t].serial = call[t].serial /\ call'[t].listing = call[t].listing
      /\ call'[t].results = call[t].results
  BY <1>1, <1>5, <1>6, Moves
<1>8. /\ IsScan(t)' = IsScan(t) /\ IsWizard(t)' = IsWizard(t)
      /\ ~Mid(t) /\ ~Mid(t)'
  BY <1>4, <1>5, <1>7 DEF IsScan, IsWizard, Mid
<1>9. PlaceOf(t)'
  <2>1. /\ Reported("scan") = 0 /\ Reported("submitted") = 0 /\ Reported("adb") = 0
        /\ call[t].at \notin Over
    BY <1>4 DEF Reported, Over
  <2>2. CASE place = "scan"
    <3>1. call[t].at = "scan" /\ call'[t].at = "scan" /\ ~IsWizard(t)'
      BY <1>5, <1>7, <1>8, <2>2 DEF IsWizard
    <3>2. Unlisted(t) /\ Len(call[t].results) = 0
      BY <1>1, <2>1, <3>1 DEF PlaceOf
    <3>. QED  BY <1>3, <1>7, <1>8, <2>1, <3>1, <3>2 DEF PlaceOf, Unlisted, WizardPlaces, Over
  <2>3. CASE place = "adb"
    <3>1. call[t].at = "submitted" /\ call'[t].at = "adb" /\ IsWizard(t)
      BY <1>4, <1>5, <1>7, <2>3 DEF IsWizard
    <3>2. call[t].serial \in Device /\ call[t].asked \in Device /\ Len(call[t].results) = 0
      BY <1>1, <2>1, <3>1 DEF PlaceOf
    <3>. QED  BY <1>3, <1>7, <1>8, <2>1, <3>1, <3>2 DEF PlaceOf, Unlisted, WizardPlaces, Over
  <2>. QED  BY <2>2, <2>3
<1>10. UNCHANGED <<phoneVars, failures, rows, pageVars, scanHistory, disturbed>>
  BY DEF Begin
<1>11. /\ seen' \in [Device -> Seen \cup {None}] /\ RowsStay
       /\ failures' \in 0..MaxFailures /\ server' \subseteq Device /\ disturbed' \subseteq Task
       /\ UNCHANGED <<adb, link, server, certified, events, rows>>
  BY <1>10 DEF RegistryInv, CallInv, ScansAreFaithful, RegistryTypeOK, RowsStay, scanHistory,
              phoneVars
<1>12. \A u \in Task : /\ Mid(u)' = Mid(u) /\ (Mid(u) => call'[u] = call[u])
                       /\ call'[u].at = "sync" => call[u].at = "sync" /\ call'[u] = call[u]
                       /\ IsScan(u)' = IsScan(u) /\ call'[u].listing = call[u].listing
                       /\ future'[u] = "error" => future[u] = "error"
  BY <1>3, <1>4, <1>5, <1>7, <1>8 DEF Mid, IsScan
<1>13. StoreInv'
  BY <1>10, <1>11, <1>12 DEF RegistryInv, StoreInv, scanHistory
<1>14. StoredInv'
  BY <1>10, <1>11, <1>12 DEF RegistryInv, ScansAreFaithful, StoredInv, scanHistory
<1>15. IsWizard(t) /\ t \notin disturbed => WizardKnows(t)'
  <2>1. ASSUME IsWizard(t), t \notin disturbed
        PROVE  WizardKnows(t) /\ call[t].at = "submitted" /\ call'[t].at = "adb"
    BY <1>4, <1>5, <1>7, <2>1 DEF RegistryInv, WizardInv, IsWizard
  <2>. QED  BY <1>7, <1>11, <2>1 DEF WizardKnows, Early, Rooted, Attached, FridaUnsaid
<1>. QED  BY <1>2, <1>3, <1>7, <1>8, <1>9, <1>10, <1>11, <1>13, <1>14, <1>15, CallKeeps

LEMMA ListDevicesKeeps ==
    ASSUME RegistryInv, DeviceAssumption, TasksInv', NEW t \in Task, ListDevices(t)
    PROVE  RegistryInv'
<1>1. /\ call \in [Task -> Calls] /\ PlaceOf(t) /\ future \in [Task -> Future]
      /\ future[t] = "running" /\ call[t].at = "scan" /\ call[t].listing = <<>>
      /\ ~Mid(t) /\ IsScan(t) /\ ~IsWizard(t)
  BY DEF RegistryInv, CallInv, TasksInv, TasksTypeOK, ListDevices, Running, PlaceOf, Unlisted, Mid,
         IsScan, IsWizard
<1>2. /\ Works \/ Fails
      /\ UNCHANGED <<phoneVars, rows, pageVars>>
      /\ UNCHANGED <<adb, link, server, certified, events>>
  BY DEF ListDevices, phoneVars
<1>3. /\ failures' \in 0..MaxFailures /\ disturbed' \subseteq Task /\ server' \subseteq Device
      /\ \A u \in Task : IsWizard(u) /\ u \notin disturbed' =>
            u \notin disturbed /\ server' = server
  BY <1>2, ScanDisturbs
<1>4. RowsStay
  BY <1>2 DEF RegistryInv, ScansAreFaithful, RegistryTypeOK, RowsStay
<1>5. CASE Raise(t) /\ UNCHANGED scanHistory
  <2>1. /\ call' = [call EXCEPT ![t].at = "scanned"] /\ future' = [future EXCEPT ![t] = "error"]
        /\ UNCHANGED <<pending, answers, seen, overlapped>> /\ "scanned" \in Places
    BY <1>1, <1>5 DEF Raise, Return, Settle, historyVars, scanHistory, Places
  <2>2. /\ call' \in [Task -> Calls] /\ \A u \in Task : u # t => call'[u] = call[u]
        /\ call'[t].at = "scanned" /\ call'[t].asked = call[t].asked
        /\ call'[t].serial = call[t].serial /\ call'[t].listing = call[t].listing
        /\ call'[t].results = call[t].results
    BY <1>1, <2>1, Moves
  <2>3. future'[t] = "error" /\ \A u \in Task : u # t => future'[u] = future[u]
    BY <1>1, <2>1
  <2>4. ~Mid(t)' /\ IsScan(t)' /\ ~IsWizard(t)'
    BY <2>2 DEF Mid, IsScan, IsWizard
  <2>5. PlaceOf(t)'
    BY <1>1, <2>2, <2>3, <2>4 DEF PlaceOf, WizardPlaces, Over, Done, Reported
  <2>6. \A u \in Task : /\ Mid(u)' = Mid(u) /\ (Mid(u) => call'[u] = call[u])
                        /\ call'[u].at = "sync" => call[u].at = "sync" /\ call'[u] = call[u]
                        /\ IsScan(u)' = IsScan(u) /\ call'[u].listing = call[u].listing
                        /\ u # t => future'[u] = future[u]
    BY <1>1, <2>2, <2>3, <2>4 DEF Mid, IsScan
  <2>7. StoreInv' /\ seen' \in [Device -> Seen \cup {None}]
    BY <1>2, <2>1, <2>6 DEF RegistryInv, CallInv, StoreInv
  <2>8. StoredInv'
    BY <1>1, <1>2, <2>1, <2>2, <2>6 DEF RegistryInv, ScansAreFaithful, StoredInv
  <2>. QED  BY <1>1, <1>2, <1>3, <1>4, <2>1, <2>2, <2>3, <2>4, <2>5, <2>7, <2>8, CallKeeps
<1>6. CASE /\ Works /\ adb /\ Attached # {}
           /\ call' = [call EXCEPT ![t].at = "query",
                                   ![t].listing = [d \in Attached |-> link[d]]]
           /\ seen' = [d \in Device |-> IF d \in Attached THEN link[d] ELSE seen[d]]
           /\ overlapped' = (overlapped \/ \E x \in Task \ {t} : call[x].at \in {"query", "sync"})
           /\ UNCHANGED taskVars
  <2>. DEFINE listing == [d \in Attached |-> link[d]]
  <2>1. link \in [Device -> Link] /\ seen \in [Device -> Seen \cup {None}]
    BY DEF RegistryInv, CallInv, ScansAreFaithful, RegistryTypeOK
  <2>2. listing \in Listing /\ DOMAIN listing = Attached /\ \A d \in Attached : listing[d] = link[d]
    <3>1. \A d \in Attached : link[d] \in Seen
      BY <2>1 DEF Attached, Seen
    <3>2. listing \in [Attached -> Seen] /\ Attached \in SUBSET Device
      BY <3>1 DEF Attached
    <3>. QED  BY <3>2 DEF Listing
  <2>3. call' = [call EXCEPT ![t] = [call[t] EXCEPT !.at = "query", !.listing = listing]]
    BY <1>6
  <2>. HIDE DEF listing
  <2>4. [call[t] EXCEPT !.at = "query", !.listing = listing] \in Calls
    <3>1. call[t] \in Calls
      BY <1>1
    <3>. QED  BY <2>2, <3>1 DEF Calls, Places
  <2>5. /\ call' \in [Task -> Calls] /\ \A u \in Task : u # t => call'[u] = call[u]
    BY <1>1, <2>3, <2>4
  <2>6. /\ call'[t].at = "query" /\ call'[t].asked = call[t].asked
        /\ call'[t].serial = call[t].serial /\ call'[t].listing = listing
        /\ call'[t].results = call[t].results
    <3>1. call[t] \in Calls /\ call'[t] = [call[t] EXCEPT !.at = "query", !.listing = listing]
      BY <1>1, <2>3
    <3>. QED  BY <3>1 DEF Calls
  <2>7. future' = future /\ UNCHANGED <<pending, answers>>
    BY <1>6 DEF taskVars, poolVars, historyVars
  <2>8. Mid(t)' /\ IsScan(t)' /\ ~IsWizard(t)'
    BY <2>6 DEF Mid, IsScan, IsWizard
  <2>9. PlaceOf(t)'
    BY <1>1, <1>6, <2>2, <2>6, <2>7, <2>8 DEF PlaceOf, WizardPlaces, Over, Reported
  <2>10. /\ seen' \in [Device -> Seen \cup {None}]
         /\ \A d \in Attached : seen'[d] = link[d]
         /\ \A d \in Device \ Attached : seen'[d] = seen[d]
         /\ Attached \subseteq Device
    <3>1. \A d \in Attached : link[d] \in Seen
      BY <2>1 DEF Attached, Seen
    <3>. QED  BY <1>6, <2>1, <3>1 DEF Attached
  <2>11. ~overlapped' => ~overlapped /\ \A u \in Task : u # t => ~Mid(u)' /\ ~Mid(u)
    BY <1>6, <2>5 DEF Mid
  <2>12. StoreInv'
    BY <2>2, <2>6, <2>8, <2>10, <2>11 DEF StoreInv, Mid
  <2>13. ASSUME ~overlapped'
         PROVE  /\ \A d \in Device :
                      (\A u \in Task : Mid(u)' => d \notin DOMAIN call'[u].listing) =>
                          rows'[d] = IF seen'[d] = None THEN None ELSE StatusOf[seen'[d]]
                /\ \A u \in Task : IsScan(u)' /\ call'[u].listing # <<>> => future'[u] # "error"
    <3>1. ~overlapped /\ \A u \in Task : ~Mid(u)
      BY <1>1, <2>11, <2>13
    <3>2. ASSUME NEW d \in Device, d \notin DOMAIN call'[t].listing
          PROVE  rows'[d] = IF seen'[d] = None THEN None ELSE StatusOf[seen'[d]]
      BY <1>2, <2>2, <2>6, <2>10, <3>1, <3>2 DEF RegistryInv, ScansAreFaithful
    <3>3. ASSUME NEW u \in Task, IsScan(u)', call'[u].listing # <<>>
          PROVE  future'[u] # "error"
      <4>1. CASE u = t
        BY <1>1, <2>7, <4>1
      <4>2. CASE u # t
        BY <2>5, <2>7, <3>1, <3>3, <4>2 DEF RegistryInv, ScansAreFaithful, IsScan
      <4>. QED  BY <4>1, <4>2
    <3>. QED  BY <2>8, <3>2, <3>3
  <2>14. StoredInv'
    BY <2>13 DEF StoredInv
  <2>. QED  BY <1>1, <1>2, <1>3, <1>4, <2>5, <2>6, <2>7, <2>8, <2>9, <2>10, <2>12, <2>14, CallKeeps
<1>. QED  BY <1>5, <1>6 DEF ListDevices

LEMMA QueryRowsKeeps ==
    ASSUME RegistryInv, DeviceAssumption, TasksInv', NEW t \in Task, QueryRows(t)
    PROVE  RegistryInv'
<1>. DEFINE fresh == {d \in DOMAIN call[t].listing : rows[d] = None}
<1>1. /\ call \in [Task -> Calls] /\ PlaceOf(t)
      /\ future[t] = "running" /\ call[t].at = "query"
      /\ Mid(t) /\ IsScan(t) /\ ~IsWizard(t)
  BY DEF RegistryInv, CallInv, QueryRows, Running, Mid, IsScan, IsWizard
<1>2. /\ Works /\ call' = [call EXCEPT ![t].at = "sync", ![t].fresh = fresh]
      /\ UNCHANGED <<future, pending, answers, rows, pageVars, scanHistory, seen, overlapped>>
      /\ UNCHANGED <<adb, link, server, certified, events>>
  BY DEF QueryRows, phoneVars, taskVars, poolVars, historyVars, scanHistory
<1>3. fresh \in SUBSET Device
  <2>1. call[t].listing \in Listing
    BY <1>1 DEF Calls
  <2>. QED  BY <2>1 DEF Listing
<1>4. call' = [call EXCEPT ![t] = [call[t] EXCEPT !.at = "sync", !.fresh = fresh]]
  BY <1>2
<1>. HIDE DEF fresh
<1>5. UNCHANGED <<future, rows, seen, overlapped>>
  BY <1>2
<1>6. /\ call'[t] = [call[t] EXCEPT !.at = "sync", !.fresh = fresh] /\ call[t] \in Calls
      /\ \A u \in Task : u # t => call'[u] = call[u]
  BY <1>1, <1>4
<1>7. [call[t] EXCEPT !.at = "sync", !.fresh = fresh] \in Calls
  BY <1>3, <1>6 DEF Calls, Places
<1>8. call' \in [Task -> Calls]
  BY <1>1, <1>4, <1>7
<1>9. /\ call'[t].at = "sync" /\ call'[t].asked = call[t].asked
      /\ call'[t].serial = call[t].serial /\ call'[t].listing = call[t].listing
      /\ call'[t].fresh = fresh /\ call'[t].results = call[t].results
  BY <1>6 DEF Calls
<1>10. Mid(t)' /\ IsScan(t)' /\ ~IsWizard(t)'
  BY <1>9 DEF Mid, IsScan, IsWizard
<1>11. PlaceOf(t)'
  BY <1>1, <1>2, <1>9, <1>10 DEF PlaceOf, WizardPlaces, Over, Reported
<1>12. /\ failures' \in 0..MaxFailures /\ disturbed' \subseteq Task /\ server' \subseteq Device
       /\ \A u \in Task : IsWizard(u) /\ u \notin disturbed' =>
             u \notin disturbed /\ server' = server
  BY <1>2, ScanDisturbs
<1>13. RowsStay /\ seen' \in [Device -> Seen \cup {None}]
  BY <1>2 DEF RegistryInv, CallInv, ScansAreFaithful, RegistryTypeOK, RowsStay
<1>14. ASSUME NEW u \in Task
       PROVE  /\ Mid(u)' = Mid(u) /\ call'[u].listing = call[u].listing
              /\ IsScan(u)' = IsScan(u)
  <2>1. CASE u = t
    BY <1>1, <1>9, <1>10, <2>1
  <2>2. CASE u # t
    BY <1>6, <2>2 DEF Mid, IsScan
  <2>. QED  BY <2>1, <2>2
<1>15. StoreInv'
  <2>1. \A u \in Task : u # t /\ call'[u].at = "sync" => call[u].at = "sync" /\ call'[u] = call[u]
    BY <1>6
  <2>2. call'[t].fresh = {d \in DOMAIN call'[t].listing : rows'[d] = None}
    BY <1>2, <1>9 DEF fresh
  <2>3. ASSUME ~overlapped', NEW u \in Task, call'[u].at = "sync"
        PROVE  call'[u].fresh = {d \in DOMAIN call'[u].listing : rows'[d] = None}
    <3>1. CASE u = t
      BY <2>2, <3>1
    <3>2. CASE u # t
      <4>. call[u].at = "sync" /\ call'[u] = call[u]
        BY <2>1, <2>3, <3>2
      <4>. QED  BY <1>5, <2>3 DEF RegistryInv, StoreInv
    <3>. QED  BY <3>1, <3>2
  <2>4. ASSUME ~overlapped'
        PROVE  /\ \A u, v \in Task : Mid(u)' /\ Mid(v)' => u = v
               /\ \A u \in Task : Mid(u)' =>
                     \A d \in DOMAIN call'[u].listing : seen'[d] = call'[u].listing[d]
    BY <1>5, <1>14, <2>4 DEF RegistryInv, StoreInv
  <2>. QED  BY <2>3, <2>4 DEF StoreInv
<1>16. StoredInv'
  BY <1>5, <1>14 DEF RegistryInv, ScansAreFaithful, StoredInv
<1>. QED  BY <1>1, <1>2, <1>6, <1>8, <1>9, <1>10, <1>11, <1>12, <1>13, <1>15, <1>16, CallKeeps

LEMMA SyncRowsKeeps ==
    ASSUME RegistryInv, DeviceAssumption, TasksInv', NEW t \in Task, SyncRows(t)
    PROVE  RegistryInv'
<1>1. /\ call \in [Task -> Calls] /\ PlaceOf(t) /\ future \in [Task -> Future]
      /\ future[t] = "running" /\ call[t].at = "sync"
      /\ Mid(t) /\ IsScan(t) /\ ~IsWizard(t)
  BY DEF RegistryInv, CallInv, TasksInv, TasksTypeOK, SyncRows, Running, Mid, IsScan, IsWizard
<1>2. PICK first \in DOMAIN call[t].listing, how \in {"result", "error"} :
          /\ call' = [call EXCEPT ![t].at = "scanned"] /\ Settle(t, how)
          /\ \/ how = "error" /\ first \in call[t].fresh /\ rows[first] # None /\ UNCHANGED rows
             \/ how = "result" /\ rows' = Upsert(rows, call[t].listing)
  BY <1>1 DEF SyncRows, Raise, Return
<1>3. /\ Works
      /\ UNCHANGED <<pageVars, scanHistory, seen, overlapped>>
      /\ UNCHANGED <<adb, link, server, certified, events>>
  BY DEF SyncRows, phoneVars, scanHistory
<1>4. "scanned" \in Places
  BY DEF Places
<1>5. /\ call' \in [Task -> Calls] /\ \A u \in Task : u # t => call'[u] = call[u]
      /\ call'[t].at = "scanned" /\ call'[t].asked = call[t].asked
      /\ call'[t].serial = call[t].serial /\ call'[t].listing = call[t].listing
      /\ call'[t].results = call[t].results
  BY <1>1, <1>2, <1>4, Moves
<1>6. /\ future'[t] = how /\ \A u \in Task : u # t => future'[u] = future[u]
      /\ UNCHANGED <<pending, answers>>
  BY <1>1, <1>2 DEF Settle, historyVars
<1>7. ~Mid(t)' /\ IsScan(t)' /\ ~IsWizard(t)'
  BY <1>5 DEF Mid, IsScan, IsWizard
<1>8. PlaceOf(t)'
  BY <1>1, <1>5, <1>6, <1>7 DEF PlaceOf, WizardPlaces, Over, Done, Reported
<1>9. /\ failures' \in 0..MaxFailures /\ disturbed' \subseteq Task /\ server' \subseteq Device
      /\ \A u \in Task : IsWizard(u) /\ u \notin disturbed' =>
            u \notin disturbed /\ server' = server
  BY <1>3, ScanDisturbs
<1>10. /\ rows \in [Device -> Status \cup {None}] /\ seen' \in [Device -> Seen \cup {None}]
       /\ None \notin Link /\ None \notin Status /\ None \notin Seen
  BY <1>3 DEF RegistryInv, CallInv, ScansAreFaithful, RegistryTypeOK, DeviceRow, DeviceAssumption,
              Seen
<1>11. \A d \in DOMAIN call[t].listing : d \in Device /\ call[t].listing[d] \in Seen
  <2>1. call[t].listing \in Listing
    BY <1>1 DEF Calls
  <2>. QED  BY <2>1 DEF Listing
<1>12. RowsStay
  <2>1. CASE UNCHANGED rows
    BY <1>10, <2>1 DEF RowsStay, DeviceRow
  <2>2. CASE rows' = Upsert(rows, call[t].listing)
    BY <1>10, <1>11, <2>2, StatusOfSeen DEF RowsStay, DeviceRow, Upsert
  <2>. QED  BY <1>2, <2>1, <2>2
<1>13. \A u \in Task : u # t => /\ Mid(u)' = Mid(u) /\ call'[u] = call[u]
                                /\ IsScan(u)' = IsScan(u)
  BY <1>5 DEF Mid, IsScan
<1>14. ~overlapped => /\ \A u \in Task : ~Mid(u)'
                      /\ \A u \in Task : u # t => ~Mid(u)
  BY <1>1, <1>7, <1>13 DEF RegistryInv, StoreInv
<1>15. StoreInv'
  BY <1>3, <1>14 DEF StoreInv, Mid
<1>16. ASSUME ~overlapped
       PROVE  /\ how = "result" /\ rows' = Upsert(rows, call[t].listing)
              /\ \A d \in DOMAIN call[t].listing : seen[d] = call[t].listing[d]
  BY <1>1, <1>2, <1>16 DEF RegistryInv, StoreInv
<1>17. ASSUME ~overlapped, NEW d \in Device
       PROVE  rows'[d] = IF seen'[d] = None THEN None ELSE StatusOf[seen'[d]]
  <2>1. CASE d \in DOMAIN call[t].listing
    BY <1>3, <1>10, <1>11, <1>16, <1>17, <2>1 DEF Upsert
  <2>2. CASE d \notin DOMAIN call[t].listing
    <3>1. rows'[d] = rows[d]
      BY <1>16, <1>17, <2>2 DEF Upsert
    <3>2. \A u \in Task : Mid(u) => d \notin DOMAIN call[u].listing
      BY <1>14, <1>17, <2>2
    <3>. QED  BY <1>3, <1>17, <3>1, <3>2 DEF RegistryInv, ScansAreFaithful
  <2>. QED  BY <2>1, <2>2
<1>18. ASSUME ~overlapped, NEW u \in Task, IsScan(u)', call'[u].listing # <<>>
       PROVE  future'[u] # "error"
  <2>1. CASE u = t
    BY <1>6, <1>16, <1>18, <2>1
  <2>2. CASE u # t
    BY <1>6, <1>13, <1>18, <2>2 DEF RegistryInv, ScansAreFaithful
  <2>. QED  BY <2>1, <2>2
<1>19. StoredInv'
  BY <1>3, <1>17, <1>18 DEF StoredInv
<1>. QED  BY <1>1, <1>3, <1>5, <1>6, <1>7, <1>8, <1>9, <1>10, <1>12, <1>15, <1>19, CallKeeps

-----------------------------------------------------------------------------
\* What the page, the poll and the phones do leaves every call where it is.
LEMMA AroundCalls ==
    ASSUME RegistryInv, TasksInv', UNCHANGED <<future, rows, call, seen, overlapped, failures, adb>>,
           link' \in [Device -> Link], server' \subseteq Device, certified' \subseteq Device,
           events' \in 0..MaxEvents,
           listed' \subseteq {d \in Device : rows[d] # None}, scan_button' \in BOOLEAN,
           dialog' \in Dialogs, PageFollowsJobs', disturbed' \subseteq Task,
           \A u \in Task : IsWizard(u) /\ u \notin disturbed' =>
               u \notin disturbed /\ UNCHANGED <<link, server, certified>>
    PROVE  RegistryInv'
<1>1. CallInv'
  BY DEF RegistryInv, CallInv, PlaceOf, Unlisted, IsWizard, Mid, Done
<1>2. StoreInv'
  BY DEF RegistryInv, StoreInv, Mid
<1>3. RegistryTypeOK'
  <2>1. /\ dialog'.serial \in Device \cup {None} /\ dialog'.shows \in Task \cup {None}
    BY DEF Dialogs
  <2>. QED  BY <2>1 DEF RegistryInv, ScansAreFaithful, RegistryTypeOK, TasksInv
<1>4. ScansAreFaithful'
  BY <1>3 DEF RegistryInv, ScansAreFaithful, Mid, IsScan
<1>5. WizardInv'
  <2>1. ASSUME NEW u \in Task, IsWizard(u)', u \notin disturbed'
        PROVE  WizardKnows(u)'
    <3>1. IsWizard(u) /\ u \notin disturbed /\ UNCHANGED <<link, server, certified>>
      BY <2>1 DEF IsWizard
    <3>. QED  BY <3>1, KnowsKept DEF RegistryInv, WizardInv
  <2>. QED  BY <2>1 DEF WizardInv
<1>. QED  BY <1>1, <1>2, <1>4, <1>5 DEF RegistryInv

LEMMA PageTyped ==
    ASSUME RegistryInv
    PROVE  /\ link \in [Device -> Link] /\ server \subseteq Device /\ certified \subseteq Device
           /\ events \in 0..MaxEvents /\ failures \in 0..MaxFailures
           /\ listed \subseteq {d \in Device : rows[d] # None} /\ scan_button \in BOOLEAN
           /\ dialog \in Dialogs /\ disturbed \subseteq Task
           /\ adb \in BOOLEAN /\ rows \in [Device -> DeviceRow \cup {None}]
BY DEF RegistryInv, CallInv, ScansAreFaithful, RegistryTypeOK

\* A wizard whose answer the page shows is no longer waited for.
LEMMA AnswerPageKeeps ==
    ASSUME RegistryInv, DeviceAssumption, TasksInv', NEW t \in Task, AnswerPage(t)
    PROVE  RegistryInv'
<1>1. /\ UNCHANGED <<phoneVars, failures, rows, call, scanHistory, disturbed>>
      /\ PollAnswer(t) /\ (ScanAnswered(t) \/ WizardAnswered(t))
  BY DEF AnswerPage
<1>2. /\ UNCHANGED <<future, rows, call, seen, overlapped, failures, adb, link, server, certified,
                     events, disturbed, pending>>
      /\ \A u \in Task : u # t => answers'[u] = answers[u]
  <2>1. answers \in [Task -> Seq({"result", "error"})]
    BY DEF RegistryInv, TasksInv, TasksTypeOK
  <2>. QED  BY <1>1, <2>1 DEF PollAnswer, phoneVars, poolVars, scanHistory
<1>3. \A u \in Task : /\ IsScan(u)' = IsScan(u) /\ IsWizard(u)' = IsWizard(u)
                      /\ u # t /\ Unanswered(u) => Unanswered(u)'
  BY <1>2 DEF IsScan, IsWizard, Unanswered
<1>4. CASE ScanAnswered(t)
  <2>1. /\ scan_button' = TRUE /\ dialog' = dialog /\ IsScan(t) /\ ~IsWizard(t)
        /\ listed' \subseteq {d \in Device : rows[d] # None}
    BY <1>4, PageTyped DEF ScanAnswered, IsScan, IsWizard
  <2>2. PageFollowsJobs'
    BY <1>2, <1>3, <2>1 DEF RegistryInv, PageFollowsJobs
  <2>. QED  BY <1>2, <2>1, <2>2, PageTyped, AroundCalls
<1>5. CASE WizardAnswered(t)
  <2>1. /\ dialog' = [dialog EXCEPT !.shows = t] /\ UNCHANGED <<listed, scan_button>>
        /\ IsWizard(t) /\ ~IsScan(t)
    BY <1>5 DEF WizardAnswered, IsScan, IsWizard
  <2>2. dialog' \in Dialogs /\ dialog'.shows = t
    BY <2>1, PageTyped DEF Dialogs
  <2>3. t # None
    BY DEF DeviceAssumption
  <2>4. PageFollowsJobs'
    BY <1>2, <1>3, <2>1, <2>2, <2>3 DEF RegistryInv, PageFollowsJobs
  <2>. QED  BY <1>2, <2>1, <2>2, <2>4, PageTyped, AroundCalls
<1>. QED  BY <1>1, <1>4, <1>5

\* What _poll forgets has been answered.
LEMMA PollRestKeeps ==
    ASSUME RegistryInv, TasksInv', PollRest
    PROVE  RegistryInv'
<1>1. UNCHANGED <<phoneVars, failures, rows, call, pageVars, scanHistory, disturbed>>
  BY DEF PollRest
<1>2. UNCHANGED <<future, rows, call, seen, overlapped, failures, adb, link, server, certified,
                  events, disturbed, listed, scan_button, dialog, answers>>
  BY <1>1 DEF PollRest, PollBegin, PollEnd, PollSkip, phoneVars, poolVars, scanHistory, pageVars,
              historyVars
<1>3. \A u \in Task : Unanswered(u) => u \in pending'
  BY DEF PollRest, PollBegin, PollEnd, PollSkip, RegistryInv, TasksInv, PollInv, Unanswered
<1>4. \A u \in Task : /\ IsScan(u)' = IsScan(u) /\ IsWizard(u)' = IsWizard(u)
                      /\ Unanswered(u) => Unanswered(u)'
  BY <1>2, <1>3 DEF IsScan, IsWizard, Unanswered
<1>5. PageFollowsJobs'
  BY <1>2, <1>4 DEF RegistryInv, PageFollowsJobs
<1>. QED  BY <1>2, <1>5, PageTyped, AroundCalls

LEMMA CloseDialogKeeps ==
    ASSUME RegistryInv, TasksInv', CloseDialog
    PROVE  RegistryInv'
<1>1. /\ dialog' = [dialog EXCEPT !.open = FALSE]
      /\ UNCHANGED <<taskVars, phoneVars, failures, rows, call, listed, scan_button, scanHistory,
                     disturbed>>
  BY DEF CloseDialog
<1>2. UNCHANGED <<future, rows, call, seen, overlapped, failures, adb, link, server, certified,
                  events, disturbed, listed, scan_button, pending, answers>>
  BY <1>1 DEF taskVars, phoneVars, poolVars, scanHistory, historyVars
<1>3. dialog' \in Dialogs /\ dialog'.open = FALSE
  BY <1>1, PageTyped DEF Dialogs
<1>4. PageFollowsJobs'
  BY <1>2, <1>3 DEF RegistryInv, PageFollowsJobs, Unanswered, IsScan
<1>. QED  BY <1>2, <1>3, <1>4, PageTyped, AroundCalls

\* Whatever happens to a phone happens to every wizard there is.
LEMMA PhonesKeep ==
    ASSUME RegistryInv, DeviceAssumption, TasksInv', Phones
    PROVE  RegistryInv'
<1>1. PICK d \in Device : Plug(d) \/ Unplug(d) \/ AcceptRSA(d) \/ Reboot(d) \/ InstallCertificate(d)
  BY DEF Phones
<1>2. Outside
  BY <1>1 DEF Plug, Unplug, AcceptRSA, Reboot, InstallCertificate
<1>3. /\ disturbed' = {u \in Task : IsWizard(u)}
      /\ UNCHANGED <<future, rows, call, seen, overlapped, failures, adb, listed, scan_button, dialog,
                     pending, answers>>
  BY <1>2 DEF Outside, Disturb, taskVars, poolVars, scanHistory, historyVars, pageVars
<1>4. events' \in 0..MaxEvents
  <2>1. events \in 0..MaxEvents /\ MaxEvents \in Nat
    BY PageTyped DEF DeviceAssumption
  <2>2. CASE Happens
    BY <2>1, <2>2 DEF Happens
  <2>3. CASE UNCHANGED events
    BY <2>1, <2>3
  <2>. QED  BY <1>1, <2>2, <2>3 DEF Plug, Unplug, AcceptRSA, Reboot, InstallCertificate
<1>5. link' \in [Device -> Link]
  BY <1>1, PageTyped DEF Plug, Unplug, AcceptRSA, Reboot, InstallCertificate, Link
<1>6. server' \subseteq Device /\ certified' \subseteq Device
  BY <1>1, PageTyped DEF Plug, Unplug, AcceptRSA, Reboot, InstallCertificate
<1>7. PageFollowsJobs'
  BY <1>3 DEF RegistryInv, PageFollowsJobs, Unanswered, IsScan, IsWizard
<1>. QED  BY <1>3, <1>4, <1>5, <1>6, <1>7, PageTyped, AroundCalls

-----------------------------------------------------------------------------
\* A call as it is made.
LEMMA CallMade ==
    ASSUME NEW place \in Places, NEW serial \in Device \cup {None}
    PROVE  /\ Call(place, serial) \in Calls
           /\ Call(place, serial).at = place /\ Call(place, serial).asked = serial
           /\ Call(place, serial).serial = serial /\ Call(place, serial).listing = <<>>
           /\ Call(place, serial).results = <<>>
<1>1. <<>> \in Listing
  <2>1. <<>> \in [{} -> Seen]
    OBVIOUS
  <2>. QED  BY <2>1 DEF Listing
<1>2. <<>> \in Seq(StepResult)
  OBVIOUS
<1>. QED  BY <1>1, <1>2 DEF Call, Calls

LEMMA PlacedFirst ==
    ASSUME NEW t \in Task, call'[t].at \in {"scan", "submitted"}, future'[t] = "queued",
           Len(call'[t].results) = 0, Unlisted(t)', ~Mid(t)',
           IsWizard(t)' => call'[t].serial \in Device /\ call'[t].asked \in Device
    PROVE  PlaceOf(t)'
<1>1. Reported(call'[t].at) = 0
  BY DEF Reported
<1>2. CASE call'[t].at = "scan"
  BY <1>1, <1>2 DEF PlaceOf, WizardPlaces, Over, Done
<1>3. CASE call'[t].at = "submitted"
  BY <1>1, <1>3 DEF PlaceOf, WizardPlaces, Over, Done
<1>. QED  BY <1>2, <1>3

\* A task that is handed over makes its call from the start; nobody else's changes.
LEMMA CallSubmitted ==
    ASSUME RegistryInv, DeviceAssumption, TasksInv', NEW t \in Task, Run(t),
           NEW place \in {"scan", "submitted"}, NEW serial \in Device \cup {None},
           place = "submitted" => serial \in Device,
           call' = [call EXCEPT ![t] = Call(place, serial)],
           UNCHANGED <<adb, server, certified, failures, rows, seen, overlapped, listed>>,
           link' \in [Device -> Link], events' \in 0..MaxEvents,
           scan_button' \in BOOLEAN, dialog' \in Dialogs, disturbed' \subseteq Task,
           \A u \in Task : IsWizard(u) /\ u \notin disturbed' => u \notin disturbed /\ link' = link,
           ~scan_button' => ~scan_button \/ place = "scan",
           dialog' = dialog \/ (place = "submitted" /\ dialog'.serial = serial)
    PROVE  RegistryInv'
<1>1. /\ call \in [Task -> Calls] /\ future \in [Task -> Future] /\ future[t] = "none"
      /\ answers[t] = <<>> /\ \A u \in Task : PlaceOf(u)
  BY DEF RegistryInv, CallInv, TasksInv, TasksTypeOK, PollInv, Run, Submit, Done
<1>2. /\ future' = [future EXCEPT ![t] = "queued"] /\ pending' = pending \cup {t}
      /\ answers' = answers
  BY DEF Run, Submit
<1>3. future'[t] = "queued" /\ \A u \in Task : u # t => future'[u] = future[u]
  BY <1>1, <1>2
<1>4. /\ call' \in [Task -> Calls] /\ \A u \in Task : u # t => call'[u] = call[u]
      /\ call'[t].at = place /\ call'[t].asked = serial /\ call'[t].serial = serial
      /\ call'[t].listing = <<>> /\ call'[t].results = <<>>
  <2>1. place \in Places
    BY DEF Places
  <2>2. PICK new \in Calls : new = Call(place, serial)
    BY <2>1, CallMade
  <2>3. call' = [call EXCEPT ![t] = new]
    BY <2>2
  <2>4. call'[t] = new /\ call' \in [Task -> Calls] /\ \A u \in Task : u # t => call'[u] = call[u]
    BY <1>1, <2>3
  <2>5. /\ new.at = place /\ new.asked = serial /\ new.serial = serial
        /\ new.listing = <<>> /\ new.results = <<>>
    BY <2>1, <2>2, CallMade
  <2>. QED  BY <2>4, <2>5
<1>5. /\ ~IsScan(t) /\ ~IsWizard(t) /\ ~Mid(t) /\ ~Mid(t)'
      /\ IsScan(t)' = (place = "scan") /\ IsWizard(t)' = (place = "submitted")
  <2>1. call[t].at = "idle"
    BY <1>1 DEF PlaceOf
  <2>. QED  BY <1>4, <2>1 DEF IsScan, IsWizard, Mid
<1>6. \A u \in Task : u # t =>
          /\ IsScan(u)' = IsScan(u) /\ IsWizard(u)' = IsWizard(u) /\ Mid(u)' = Mid(u)
          /\ Unanswered(u)' = Unanswered(u)
  BY <1>2, <1>4 DEF IsScan, IsWizard, Mid, Unanswered
<1>7. CallInv'
  <2>1. Len(call'[t].results) = 0
    BY <1>4
  <2>2. PlaceOf(t)'
    <3>1. Unlisted(t)'
      BY <1>4 DEF Unlisted
    <3>2. IsWizard(t)' => call'[t].serial \in Device /\ call'[t].asked \in Device
      BY <1>4, <1>5
    <3>3. call'[t].at \in {"scan", "submitted"}
      BY <1>4
    <3>4. future'[t] = "queued" /\ ~Mid(t)'
      BY <1>3, <1>5
    <3>. QED  BY <2>1, <3>1, <3>2, <3>3, <3>4, PlacedFirst
  <2>3. ASSUME NEW u \in Task, u # t PROVE PlaceOf(u)'
    BY <1>1, <1>3, <1>4, <1>6, <2>3 DEF PlaceOf, Unlisted, Done
  <2>. QED  BY <1>4, <2>2, <2>3 DEF CallInv, RegistryInv
<1>8. StoreInv'
  <2>1. \A u \in Task : Mid(u)' => Mid(u) /\ call'[u] = call[u]
    BY <1>4, <1>5, <1>6
  <2>2. \A u \in Task : call'[u].at = "sync" => call[u].at = "sync" /\ call'[u] = call[u]
    BY <1>4
  <2>. QED  BY <2>1, <2>2 DEF RegistryInv, StoreInv
<1>9. RegistryTypeOK'
  <2>1. ASSUME NEW u \in Task
        PROVE  /\ call'[u].at \in Places /\ call'[u].serial \in Device \cup {None}
               /\ call'[u].fresh \subseteq Device /\ Len(call'[u].results) <= 7
    BY <1>7 DEF CallInv, Calls, PlaceOf
  <2>2. /\ dialog'.serial \in Device \cup {None} /\ dialog'.shows \in Task \cup {None}
    BY DEF Dialogs
  <2>. QED  BY <2>1, <2>2 DEF RegistryInv, ScansAreFaithful, RegistryTypeOK, TasksInv
<1>10. ScansAreFaithful'
  <2>1. \A u \in Task : Mid(u) => Mid(u)' /\ call'[u] = call[u]
    BY <1>4, <1>5, <1>6
  <2>2. \A u \in Task : IsScan(u)' /\ call'[u].listing # <<>> =>
            IsScan(u) /\ call'[u] = call[u] /\ future'[u] = future[u]
    BY <1>3, <1>4, <1>6
  <2>. QED  BY <1>9, <2>1, <2>2 DEF RegistryInv, ScansAreFaithful
<1>11. PageFollowsJobs'
  <2>1. Unanswered(t)'
    BY <1>1, <1>2 DEF Unanswered
  <2>2. \A u \in Task : /\ IsScan(u) /\ Unanswered(u) => IsScan(u)' /\ Unanswered(u)'
                        /\ IsWizard(u) /\ Unanswered(u) =>
                               IsWizard(u)' /\ Unanswered(u)' /\ call'[u].asked = call[u].asked
    BY <1>4, <1>5, <1>6
  <2>3. ~scan_button' => \E u \in Task : IsScan(u)' /\ Unanswered(u)'
    BY <1>5, <2>1, <2>2 DEF RegistryInv, PageFollowsJobs
  <2>4. dialog'.open /\ dialog'.shows = None =>
            \E u \in Task : IsWizard(u)' /\ call'[u].asked = dialog'.serial /\ Unanswered(u)'
    <3>1. CASE dialog' = dialog
      BY <2>2, <3>1 DEF RegistryInv, PageFollowsJobs
    <3>2. CASE place = "submitted" /\ dialog'.serial = serial
      BY <1>4, <1>5, <2>1, <3>2
    <3>. QED  BY <3>1, <3>2
  <2>. QED  BY <2>3, <2>4 DEF PageFollowsJobs
<1>12. WizardInv'
  <2>1. ASSUME NEW u \in Task, u # t, IsWizard(u)', u \notin disturbed'
        PROVE  WizardKnows(u)'
    <3>1. /\ IsWizard(u) /\ u \notin disturbed /\ UNCHANGED <<link, server, certified>>
          /\ call'[u] = call[u]
      BY <1>4, <1>6, <2>1
    <3>. QED  BY <3>1, KnowsKept DEF RegistryInv, WizardInv
  <2>2. ASSUME IsWizard(t)'
        PROVE  WizardKnows(t)'
    <3>1. call'[t].at = "submitted" /\ FridaUnsaid(t)'
      <4>1. DOMAIN call'[t].results = {}
        BY <1>4
      <4>. QED  BY <1>4, <1>5, <2>2, <4>1 DEF FridaUnsaid
    <3>. QED  BY <1>4, <3>1 DEF WizardKnows, Early, Rooted
  <2>. QED  BY <2>1, <2>2 DEF WizardInv
<1>. QED  BY <1>7, <1>8, <1>10, <1>11, <1>12, TasksInv' DEF RegistryInv

LEMMA OnScanKeeps ==
    ASSUME RegistryInv, DeviceAssumption, TasksInv', NEW t \in Task, OnScan(t)
    PROVE  RegistryInv'
<1>1. /\ Run(t) /\ scan_button' = FALSE /\ call' = [call EXCEPT ![t] = Call("scan", None)]
      /\ UNCHANGED <<adb, link, server, certified, events, failures, rows, seen, overlapped, disturbed,
                     listed, dialog>>
  BY DEF OnScan, SubmitScan, phoneVars, scanHistory
<1>. QED  BY <1>1, PageTyped, CallSubmitted

LEMMA OnConnectWirelessKeeps ==
    ASSUME RegistryInv, DeviceAssumption, TasksInv', NEW t \in Task, NEW d \in Device,
           OnConnectWireless(t, d)
    PROVE  RegistryInv'
<1>1. /\ Run(t) /\ scan_button' = FALSE /\ call' = [call EXCEPT ![t] = Call("scan", None)]
      /\ UNCHANGED <<adb, server, certified, failures, rows, seen, overlapped, listed, dialog>>
      /\ disturbed' = {u \in Task : IsWizard(u)}
  BY DEF OnConnectWireless, SubmitScan, scanHistory, Disturb
<1>2. link' \in [Device -> Link]
  BY PageTyped DEF OnConnectWireless, Link
<1>3. events' \in 0..MaxEvents
  <2>1. events \in 0..MaxEvents /\ MaxEvents \in Nat /\ events > 0 /\ events' = events - 1
    BY PageTyped DEF DeviceAssumption, OnConnectWireless
  <2>. QED  BY <2>1
<1>. QED  BY <1>1, <1>2, <1>3, PageTyped, CallSubmitted

LEMMA OnRunWizardKeeps ==
    ASSUME RegistryInv, DeviceAssumption, TasksInv', NEW t \in Task, NEW d \in Device,
           OnRunWizard(t, d)
    PROVE  RegistryInv'
<1>1. /\ Run(t) /\ call' = [call EXCEPT ![t] = Call("submitted", d)]
      /\ UNCHANGED <<adb, link, server, certified, events, failures, rows, seen, overlapped, listed,
                     scan_button>>
      /\ dialog' = [open |-> TRUE, serial |-> d, shows |-> None]
      /\ disturbed' = disturbed \ {t}
  BY DEF OnRunWizard, phoneVars, scanHistory
<1>2. dialog' \in Dialogs /\ dialog'.serial = d
  BY <1>1 DEF Dialogs
<1>3. \A u \in Task : IsWizard(u) => u # t
  BY DEF OnRunWizard, Run, Submit, RegistryInv, CallInv, PlaceOf, IsWizard
<1>4. \A u \in Task : IsWizard(u) /\ u \notin disturbed' => u \notin disturbed /\ link' = link
  BY <1>1, <1>3
<1>. QED  BY <1>1, <1>2, <1>4, PageTyped, CallSubmitted

-----------------------------------------------------------------------------
LEMMA RegistryInvInit ==
    ASSUME DeviceAssumption, RegistryInit
    PROVE  RegistryInv
<1>1. TasksInv
  BY TasksInvInit DEF RegistryInit
<1>2. /\ future = [t \in Task |-> "none"] /\ call = [t \in Task |-> Call("idle", None)]
      /\ overlapped = FALSE /\ disturbed = {} /\ scan_button = TRUE /\ dialog = NoDialog
  BY DEF RegistryInit, TasksInit
<1>3. /\ call \in [Task -> Calls]
      /\ \A t \in Task : /\ call[t].at = "idle" /\ call[t].serial = None /\ call[t].listing = <<>>
                          /\ call[t].results = <<>> /\ future[t] = "none"
  <2>1. "idle" \in Places
    BY DEF Places
  <2>2. PICK new \in Calls : new = Call("idle", None)
    BY <2>1, CallMade
  <2>3. /\ new.at = "idle" /\ new.serial = None /\ new.listing = <<>> /\ new.results = <<>>
    BY <2>1, <2>2, CallMade
  <2>. QED  BY <1>2, <2>2, <2>3
<1>4. \A t \in Task : ~IsScan(t) /\ ~IsWizard(t) /\ ~Mid(t)
  BY <1>3 DEF IsScan, IsWizard, Mid
<1>5. PICK known \in {{}, Device} :
          /\ seen = [d \in Device |-> IF d \in known THEN "device" ELSE None]
          /\ rows = [d \in Device |-> IF d \in known THEN StatusOf["device"] ELSE None]
          /\ listed = known
  BY DEF RegistryInit
<1>6. /\ None \notin Link /\ None \notin Status /\ None \notin Seen
      /\ "device" \in Seen /\ StatusOf["device"] \in Status
  BY StatusOfSeen DEF DeviceAssumption, Seen, Link
<1>7. dialog \in Dialogs
  BY <1>2 DEF NoDialog, Dialogs
<1>8. CallInv
  <2>1. ASSUME NEW t \in Task
        PROVE  PlaceOf(t)
    <3>1. Len(call[t].results) = 0 /\ Reported("idle") = 0
      BY <1>3 DEF Reported
    <3>2. call[t].at = "idle" /\ future[t] = "none"
      BY <1>3
    <3>. QED  BY <1>4, <3>1, <3>2 DEF PlaceOf, WizardPlaces, Over, Done
  <2>2. seen \in [Device -> Seen \cup {None}]
    BY <1>5, <1>6
  <2>. QED  BY <1>3, <1>7, <2>1, <2>2 DEF CallInv
<1>9. StoreInv
  BY <1>3, <1>4 DEF StoreInv
<1>10. ScansAreFaithful
  <2>1. rows \in [Device -> DeviceRow \cup {None}] /\ listed \subseteq {d \in Device : rows[d] # None}
    BY <1>5, <1>6 DEF DeviceRow
  <2>2. \A d \in Device : rows[d] = IF seen[d] = None THEN None ELSE StatusOf[seen[d]]
    BY <1>5, <1>6
  <2>3. \A t \in Task : /\ call[t].at \in Places /\ call[t].serial \in Device \cup {None}
                        /\ call[t].fresh \subseteq Device /\ Len(call[t].results) <= 7
    BY <1>3 DEF Calls
  <2>4. /\ adb \in BOOLEAN /\ server \subseteq Device /\ certified \subseteq Device
        /\ link \in [Device -> Link] /\ events \in 0..MaxEvents /\ failures \in 0..MaxFailures
    BY DEF RegistryInit, DeviceAssumption, Link
  <2>5. RegistryTypeOK
    BY <1>1, <1>2, <1>7, <2>1, <2>3, <2>4 DEF RegistryTypeOK, TasksInv, Dialogs
  <2>. QED  BY <1>3, <1>4, <2>2, <2>5 DEF ScansAreFaithful
<1>11. PageFollowsJobs
  BY <1>2 DEF PageFollowsJobs, NoDialog
<1>12. WizardInv
  BY <1>4 DEF WizardInv
<1>. QED  BY <1>1, <1>8, <1>9, <1>10, <1>11, <1>12 DEF RegistryInv

LEMMA RegistryInvStep ==
    ASSUME RegistryInv, DeviceAssumption, [RegistryNext]_registryVars
    PROVE  RegistryInv'
<1>1. TasksInv'
  BY RegistryIsTasks, TasksInvStep DEF RegistryInv
<1>2. CASE UNCHANGED registryVars
  <2>1. UNCHANGED <<future, rows, call, seen, overlapped, failures, adb, link, server, certified,
                    events, disturbed, listed, scan_button, dialog, answers, pending>>
    BY <1>2 DEF registryVars, taskVars, phoneVars, poolVars, scanHistory, pageVars, historyVars
  <2>2. PageFollowsJobs'
    BY <2>1 DEF RegistryInv, PageFollowsJobs, Unanswered, IsScan, IsWizard
  <2>. QED  BY <1>1, <2>1, <2>2, PageTyped, AroundCalls
<1>3. ASSUME NEW t \in Task, OnScan(t) \/ Thread(t)
      PROVE  RegistryInv'
  BY <1>1, <1>3, OnScanKeeps, BeginKeeps, ListDevicesKeeps, QueryRowsKeeps, SyncRowsKeeps,
     WizardStepKeeps DEF Thread
<1>4. ASSUME NEW t \in Task, NEW d \in Device, OnConnectWireless(t, d) \/ OnRunWizard(t, d)
      PROVE  RegistryInv'
  BY <1>1, <1>4, OnConnectWirelessKeeps, OnRunWizardKeeps
<1>5. CASE CloseDialog \/ Phones \/ Poll
  BY <1>1, <1>5, CloseDialogKeeps, PhonesKeep, PollRestKeeps, AnswerPageKeeps DEF Poll
<1>. QED  BY <1>2, <1>3, <1>4, <1>5 DEF RegistryNext

LEMMA RegistryInvariant == RegistrySpec => []RegistryInv
<1>1. RegistryInit => RegistryInv
  BY DeviceAssumption, RegistryInvInit
<1>2. RegistryInv /\ [RegistryNext]_registryVars => RegistryInv'
  BY DeviceAssumption, RegistryInvStep
<1>. QED  BY <1>1, <1>2, PTL DEF RegistrySpec

(***************************************************************************)
(* However many scans and wizards there are and whatever their phones do,  *)
(* the devices table is what the newest listings said, as long as no scan  *)
(* listed while another had yet to store.                                  *)
(***************************************************************************)
THEOREM ScansFaithful == RegistrySpec => []ScansAreFaithful
<1>1. RegistryInv => ScansAreFaithful
  BY DEF RegistryInv
<1>. QED  BY <1>1, RegistryInvariant, PTL

(***************************************************************************)
(* A locked Scan button and a dialog that waits have a job to wait for.    *)
(***************************************************************************)
THEOREM PageFollows == RegistrySpec => []PageFollowsJobs
<1>1. RegistryInv => PageFollowsJobs
  BY DEF RegistryInv
<1>. QED  BY <1>1, RegistryInvariant, PTL

(***************************************************************************)
(* The report of a wizard nobody disturbs is true, and of the phone it was *)
(* asked about.                                                            *)
(***************************************************************************)
THEOREM WizardRight == RegistrySpec => []WizardIsRight
<1>1. RegistryInv => WizardIsRight
  <2>. SUFFICES ASSUME RegistryInv PROVE WizardIsRight
    OBVIOUS
  <2>1. ASSUME NEW t \in Task, call[t].at = "stopped", t \notin disturbed
        PROVE  /\ Ready(t) <=> PhoneReady(call[t].serial)
               /\ FridaSaid(t)
    <3>1. IsWizard(t)
      BY <2>1 DEF IsWizard
    <3>. QED  BY <2>1, <3>1 DEF RegistryInv, WizardInv, WizardKnows
  <2>2. ASSUME NEW t \in Task, IsWizard(t), t \notin disturbed, call[t].asked \in Attached
        PROVE  call[t].serial = call[t].asked
    BY <2>2 DEF RegistryInv, WizardInv, WizardKnows
  <2>3. VerdictMatchesPhone
    BY <2>1 DEF VerdictMatchesPhone, FridaSaid
  <2>. QED  BY <2>2, <2>3 DEF WizardIsRight, WizardStaysWithPhone
<1>. QED  BY <1>1, RegistryInvariant, PTL
=============================================================================
