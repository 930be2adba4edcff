--------------------------- MODULE AnalysisPipelines ---------------------------
(***************************************************************************)
(* The shipped plugins and the workflows of WORKFLOW_REGISTRY that string  *)
(* them together.  WorkflowEngine treats a plugin as a box; here each box  *)
(* is open: what it needs from context.shared_data, what it reads of the   *)
(* APK, of the project's workspace directory and of the device, and what   *)
(* it leaves there for the steps and the analyses after it.                *)
(*                                                                         *)
(* One project: its APK file (whose content may be rebuilt in place), its  *)
(* workspace with apktool_output, jadx_output and quark_report.json, the   *)
(* app on one device, and the jobs that analyse it.  Content is known by   *)
(* the version of the APK it was made from.                                *)
(***************************************************************************)
EXTENDS Naturals, Sequences, FiniteSets

CONSTANTS
    Job,
    Version,          \* contents the APK file can have
    Permissive,       \* the versions whose manifest requests a permission
    MaxReplacements,  \* bound: how often the APK file is replaced
    MaxTroubles,      \* bound: plugins that lack their tool and steps that go wrong
    DeviceLog,        \* the log of the device, which is of no version
    None

ASSUME PipelineAssumption ==
    /\ Permissive \subseteq Version
    /\ DeviceLog \notin Version \cup {None} /\ None \notin Version /\ None \notin {"success", "failed", "skipped"}
    /\ MaxReplacements \in Nat /\ MaxTroubles \in Nat

VARIABLES
    apk,         \* version of the file at target_path
    workspace,   \* what the workspace directory holds, by version
    installed,   \* version of the app on the device, if any
    missing,     \* plugins without the tool, library, API key or server they use
    flow,        \* the job's workflow
    next,        \* the job's position in its workflow
    pc,          \* "idle", "step", "tool" (an external program is running), "done"
    shared,      \* keys of the job's context.shared_data
    status,      \* the status each step was recorded with
    basis,       \* ghost: what the job's findings were read from
    begun,       \* ghost: the version when the job was submitted
    disturbed,   \* ghost: jobs whose inputs another job or a leftover could have touched
    overlapped,  \* ghost: jobs that ran while another one did
    replacements, faults

jobVars == <<flow, next, pc, shared, status, basis, begun, disturbed, overlapped>>
pipelineVars == <<apk, workspace, installed, missing, jobVars, replacements, faults>>

WORKFLOW_REGISTRY == [
    static |-> <<"apk_validator", "certificate_analysis", "apktool_decode",
                 "jadx_decompile", "manifest_analysis", "network_security_config",
                 "secrets_detection", "code_analysis", "tracker_detection">>,
    malware |-> <<"file_hashing", "certificate_analysis", "virustotal_lookup",
                  "yara_scan", "apkid_scan", "quark_engine", "apktool_decode",
                  "jadx_decompile", "manifest_analysis", "ioc_extraction",
                  "mitre_attack_mapping">>,
    dynamic |-> <<"apk_validator", "apktool_decode", "manifest_analysis",
                  "app_deployment", "frida_instrumentation", "logcat_capture">>,
    privacy |-> <<"apk_validator", "apktool_decode", "manifest_analysis",
                  "network_security_config", "tracker_detection", "ioc_extraction">>,
    reverse_engineering |-> <<"apk_validator", "apktool_decode", "jadx_decompile">>]

Flow == DOMAIN WORKFLOW_REGISTRY
PluginId == UNION {{WORKFLOW_REGISTRY[f][i] : i \in DOMAIN WORKFLOW_REGISTRY[f]} : f \in Flow}
Required(i) == i = 1

\* Plugins that look for something that may not be there, and skip without it.
Optional == {"apktool_decode", "jadx_decompile", "quark_engine", "apkid_scan",
             "yara_scan", "virustotal_lookup", "frida_instrumentation"}
SharedKey == {"apktool_output_dir", "jadx_output_dir", "file_hashes",
              "requested_permissions", "package_name", "extracted_iocs"}
Workspace == [decoded : SUBSET Version, manifest : Version \cup {None},
              sources : SUBSET Version, report : Version \cup {None}]

Source == Version \cup {DeviceLog}

PluginAt(j) == WORKFLOW_REGISTRY[flow[j]][next[j]]
Running(j) == pc[j] \in {"step", "tool"}

PipelineInit ==
    /\ apk \in Version
    /\ workspace = [decoded |-> {}, manifest |-> None, sources |-> {}, report |-> None]
    /\ installed = None
    /\ missing \in {m \in SUBSET Optional : Cardinality(m) <= MaxTroubles}
    /\ flow = [j \in Job |-> None]
    /\ next = [j \in Job |-> 1]
    /\ pc = [j \in Job |-> "idle"]
    /\ shared = [j \in Job |-> {}]
    /\ status = [j \in Job |-> [p \in PluginId |-> None]]
    /\ basis = [j \in Job |-> {}]
    /\ begun = [j \in Job |-> None]
    /\ disturbed = {} /\ overlapped = {}
    /\ replacements = MaxReplacements
    /\ faults = MaxTroubles - Cardinality(missing)

\* Content of another version that a step which does not clean up would pick up.
Leftover(versions) == versions \ {apk, None} # {}

\* The Run button of an analysis page.  The Dynamic Analysis page refuses without a
\* device, and no page deletes one, so there always is one here.
Submit(j, f) ==
    LET others == {k \in Job : Running(k)} IN
    /\ pc[j] = "idle"
    /\ pc' = [pc EXCEPT ![j] = "step"]
    /\ flow' = [flow EXCEPT ![j] = f]
    /\ begun' = [begun EXCEPT ![j] = apk]
    /\ overlapped' = overlapped \cup (IF others = {} THEN {} ELSE others \cup {j})
    /\ disturbed' = disturbed \cup
         (IF Leftover(workspace.sources \cup {workspace.report, installed})
          THEN {j} ELSE {})
    /\ UNCHANGED <<apk, workspace, installed, missing, next, shared, status, basis,
                   replacements, faults>>

-----------------------------------------------------------------------------
\* What a plugin's run() may return when nothing goes wrong: its status, the
\* shared_data keys it sets, and what its findings are read from.
Out(result, keys, from) == [status |-> result, keys |-> keys, from |-> from \ {None}]
Skipped == Out("skipped", {}, {})
Success(keys, from) == Out("success", keys, from)

Has(j, key) == key \in shared[j]

ApkValidator(j) == {Success({}, {apk})}
FileHashing(j) == {Success({"file_hashes"}, {apk})}

\* The signing block, else keytool: without a JDK or a signature it is skipped.
CertificateAnalysis(j) == {Success({}, {apk}), Skipped}

\* A lookup of the hash: it reads nothing that file_hashing has not read.
VirusTotalLookup(j) == IF Has(j, "file_hashes") THEN {Success({}, {})} ELSE {Skipped}

YaraScan(j) == {Success({}, {apk})}
ApkidScan(j) == {Success({}, {apk})}

\* An empty list of permissions is as good as none to the step that reads it.
ManifestAnalysis(j) ==
    IF ~Has(j, "apktool_output_dir") \/ workspace.manifest = None THEN {Skipped}
    ELSE {Success({"package_name"} \cup
                  (IF workspace.manifest \in Permissive
                   THEN {"requested_permissions"} ELSE {}), {workspace.manifest})}

\* No config file is a finding of its own.
NetworkSecurityConfig(j) ==
    IF Has(j, "apktool_output_dir") THEN {Success({}, workspace.decoded)} ELSE {Skipped}

\* secrets_detection and ioc_extraction walk whichever roots there are.
ScanRoots(j, keys) ==
    IF ~Has(j, "jadx_output_dir") /\ ~Has(j, "apktool_output_dir") THEN {Skipped}
    ELSE {Success(keys,
            (IF Has(j, "jadx_output_dir") THEN workspace.sources ELSE {})
              \cup (IF Has(j, "apktool_output_dir") THEN workspace.decoded ELSE {}))}
SecretsDetection(j) == ScanRoots(j, {})
IocExtraction(j) == ScanRoots(j, {"extracted_iocs"})

\* Mutant: looks for sources in the workspace, not for the key.
ScanSourcesOfWorkspace(j) ==
    IF workspace.sources # {} THEN {Success({}, workspace.sources)} ELSE {Skipped}

ScanSources(j) ==
    IF Has(j, "jadx_output_dir") THEN {Success({}, workspace.sources)} ELSE {Skipped}
CodeAnalysis(j) == ScanSources(j)
TrackerDetection(j) == ScanSources(j)

MitreAttackMapping(j) ==
    IF Has(j, "requested_permissions") THEN {Success({}, {})} ELSE {Skipped}

\* frida spawns the package by name, whichever build of it is installed.
FridaInstrumentation(j) ==
    IF ~Has(j, "package_name") THEN {Skipped}
    ELSE IF installed = None THEN {Out("failed", {}, {})}
    ELSE {Success({}, {installed})}

\* "adb logcat -v brief" without -c, --pid, -T or a filter: whatever the device's
\* ring buffers hold, of any process and from before the run.
LogcatCapture(j) == {Success({}, {DeviceLog})}

Returns(j, p) ==
    CASE p = "apk_validator"           -> ApkValidator(j)
      [] p = "file_hashing"            -> FileHashing(j)
      [] p = "certificate_analysis"    -> CertificateAnalysis(j)
      [] p = "virustotal_lookup"       -> VirusTotalLookup(j)
      [] p = "yara_scan"               -> YaraScan(j)
      [] p = "apkid_scan"              -> ApkidScan(j)
      [] p = "manifest_analysis"       -> ManifestAnalysis(j)
      [] p = "network_security_config" -> NetworkSecurityConfig(j)
      [] p = "secrets_detection"       -> SecretsDetection(j)
      [] p = "ioc_extraction"          -> IocExtraction(j)
      [] p = "code_analysis"           -> CodeAnalysis(j)
      [] p = "tracker_detection"       -> TrackerDetection(j)
      [] p = "mitre_attack_mapping"    -> MitreAttackMapping(j)
      [] p = "frida_instrumentation"   -> FridaInstrumentation(j)
      [] p = "logcat_capture"          -> LogcatCapture(j)

-----------------------------------------------------------------------------
\* _execute records the step and goes on, unless a required step failed.
Record(j, output) ==
    /\ status' = [status EXCEPT ![j][PluginAt(j)] = output.status]
    /\ shared' = [shared EXCEPT ![j] = @ \cup output.keys]
    /\ basis' = [basis EXCEPT ![j] = @ \cup output.from]
    /\ next' = [next EXCEPT ![j] = @ + 1]
    /\ pc' = [pc EXCEPT ![j] =
                IF \/ (output.status = "failed" /\ Required(next[j]))
                   \/ next[j] = Len(WORKFLOW_REGISTRY[flow[j]])
                THEN "done" ELSE "step"]
    /\ UNCHANGED <<flow, begun, disturbed, overlapped>>

\* A step skips before it does anything when its tool is missing.
Skip(j) ==
    /\ pc[j] = "step"
    /\ PluginAt(j) \in missing
    /\ Record(j, Skipped)
    /\ UNCHANGED <<apk, workspace, installed, missing, replacements, faults>>

UsesTool == {"apktool_decode", "jadx_decompile", "quark_engine", "app_deployment"}

\* A plugin that runs in one go.
Run(j) ==
    /\ pc[j] = "step"
    /\ PluginAt(j) \notin missing
    /\ PluginAt(j) \notin UsesTool
    /\ \E output \in Returns(j, PluginAt(j)) : Record(j, output)
    /\ UNCHANGED <<apk, workspace, installed, missing, replacements, faults>>

\* It raises, or it reports a failure: an APK that is no archive, a file that
\* does not parse, no answer from the network, a frida exception.
RunFails(j) ==
    /\ pc[j] = "step"
    /\ PluginAt(j) \notin missing
    /\ PluginAt(j) \notin UsesTool
    /\ faults > 0 /\ faults' = faults - 1
    /\ Record(j, Out("failed", {}, {}))
    /\ UNCHANGED <<apk, workspace, installed, missing, replacements>>

\* Mutant: apktool without -f, which clears the directory first.
ClearedNever(p) == workspace

Cleared(p) ==
    IF p = "apktool_decode" THEN [workspace EXCEPT !.decoded = {}, !.manifest = None]
    ELSE workspace

\* The plugin starts the program; "apktool d -f" empties its output directory,
\* jadx and quark leave theirs as it is.  app_deployment needs the package name.
BeginTool(j) ==
    /\ pc[j] = "step"
    /\ PluginAt(j) \notin missing
    /\ PluginAt(j) \in UsesTool
    /\ PluginAt(j) = "app_deployment" => Has(j, "package_name")
    /\ workspace' = Cleared(PluginAt(j))
    /\ pc' = [pc EXCEPT ![j] = "tool"]
    /\ UNCHANGED <<apk, installed, missing, flow, next, shared, status,
                   basis, begun, disturbed, overlapped, replacements, faults>>

DeployWithoutPackage(j) ==
    /\ pc[j] = "step"
    /\ PluginAt(j) \notin missing
    /\ PluginAt(j) = "app_deployment"
    /\ ~Has(j, "package_name")
    /\ Record(j, Skipped)
    /\ UNCHANGED <<apk, workspace, installed, missing, replacements, faults>>

Written(p) ==
    CASE p = "apktool_decode" -> [workspace EXCEPT !.decoded = @ \cup {apk}, !.manifest = apk]
      [] p = "jadx_decompile" -> [workspace EXCEPT !.sources = @ \cup {apk}]
      [] p = "quark_engine"   -> [workspace EXCEPT !.report = apk]
      [] p = "app_deployment" -> workspace

\* What the plugin makes of what it now finds.
Judged(p, files) ==
    CASE p = "apktool_decode" -> Success({"apktool_output_dir"}, {})
      [] p = "jadx_decompile" -> Success({"jadx_output_dir"}, {})
      [] p = "quark_engine"   -> Success({}, {files.report})
      [] p = "app_deployment" -> Success({}, {apk})

ToolSucceeds(j) ==
    /\ pc[j] = "tool"
    /\ workspace' = Written(PluginAt(j))
    /\ installed' = IF PluginAt(j) = "app_deployment" THEN apk ELSE installed
    /\ Record(j, Judged(PluginAt(j), Written(PluginAt(j))))
    /\ UNCHANGED <<apk, missing, replacements, faults>>

\* After a failing or timed-out program: apktool and adb go by its exit code,
\* jadx by a sources directory and quark by a readable report being there.
JudgedAfterFailure(p, files) ==
    CASE p = "jadx_decompile" /\ files.sources # {} -> Success({"jadx_output_dir"}, {})
      [] p = "quark_engine" /\ files.report # None  -> Success({}, {files.report})
      [] OTHER                                      -> Out("failed", {}, {})

\* What it may leave behind: nothing new, or part of its output, which of quark's
\* report is none that can be read.
Partial(p) ==
    {workspace,
     CASE p = "apktool_decode" -> [workspace EXCEPT !.decoded = @ \cup {apk}]
       [] p = "jadx_decompile" -> [workspace EXCEPT !.sources = @ \cup {apk}]
       [] p = "quark_engine"   -> [workspace EXCEPT !.report = None]
       [] p = "app_deployment" -> workspace}

\* Of adb's two commands, the install or only the launch may fail.
ToolFails(j) ==
    /\ pc[j] = "tool"
    /\ faults > 0 /\ faults' = faults - 1
    /\ \E files \in Partial(PluginAt(j)) :
          /\ workspace' = files
          /\ Record(j, JudgedAfterFailure(PluginAt(j), files))
    /\ installed' \in {installed} \cup (IF PluginAt(j) = "app_deployment" THEN {apk} ELSE {})
    /\ UNCHANGED <<apk, missing, replacements>>

\* The user builds the app again, into the same file.
Replace(v) ==
    /\ replacements > 0 /\ replacements' = replacements - 1
    /\ v # apk
    /\ apk' = v
    /\ disturbed' = disturbed \cup {j \in Job : Running(j)}
    /\ UNCHANGED <<workspace, installed, missing, flow, next, pc, shared,
                   status, basis, begun, overlapped, faults>>

PipelineNext ==
    \/ \E j \in Job :
         \/ \E f \in Flow : Submit(j, f)
         \/ Skip(j) \/ Run(j) \/ RunFails(j) \/ BeginTool(j) \/ DeployWithoutPackage(j)
         \/ ToolSucceeds(j) \/ ToolFails(j)
    \/ \E v \in Version : Replace(v)

PipelineSpec == PipelineInit /\ [][PipelineNext]_pipelineVars

-----------------------------------------------------------------------------
PipelineTypeOK ==
    /\ apk \in Version /\ workspace \in Workspace /\ installed \in Version \cup {None}
    /\ missing \subseteq Optional
    /\ flow \in [Job -> Flow \cup {None}]
    /\ next \in [Job -> Nat \ {0}]
    /\ pc \in [Job -> {"idle", "step", "tool", "done"}]
    /\ shared \in [Job -> SUBSET SharedKey]
    /\ status \in [Job -> [PluginId -> {"success", "failed", "skipped", None}]]
    /\ basis \in [Job -> SUBSET Source] /\ begun \in [Job -> Version \cup {None}]
    /\ disturbed \subseteq Job /\ overlapped \subseteq Job
    /\ replacements \in Nat /\ faults \in Nat

(***************************************************************************)
(* The findings of an analysis are about the APK it was started on: a      *)
(* decode of an earlier build, a failed decode, a half-written one or      *)
(* another analysis of the project long finished never leaks into it.      *)
(* What can leak is exactly what is excluded: Java sources, a quark report *)
(* or an installed app left by another build, an APK replaced meanwhile,   *)
(* and a second analysis of the project at the same time.  The findings of *)
(* logcat_capture, and only they, are of another kind: the code cannot     *)
(* tell whose lines of the device's log they are, and stores them as       *)
(* findings of this APK.                                                   *)
(***************************************************************************)
FindingsAreOfTheApk ==
    /\ PipelineTypeOK
    /\ \A j \in Job \ (disturbed \cup overlapped) : basis[j] \subseteq {begun[j], DeviceLog}
    /\ \A j \in Job : DeviceLog \in basis[j] <=> status[j]["logcat_capture"] = "success"

(***************************************************************************)
(* The steps of every workflow are in an order in which data arrives       *)
(* before the step that reads it: of an analysis that ran alone, a step    *)
(* that has its tool and did not fail is skipped exactly when none of the  *)
(* steps it can read from succeeded.  About                                *)
(* WORKFLOW_REGISTRY and the shared_data keys of nineteen plugins, which   *)
(* nothing but their spelling connects.                                    *)
(***************************************************************************)
ReadsFrom == [
    manifest_analysis       |-> {"apktool_decode"},
    network_security_config |-> {"apktool_decode"},
    secrets_detection       |-> {"apktool_decode", "jadx_decompile"},
    ioc_extraction          |-> {"apktool_decode", "jadx_decompile"},
    code_analysis           |-> {"jadx_decompile"},
    tracker_detection       |-> {"jadx_decompile"},
    app_deployment          |-> {"manifest_analysis"},
    frida_instrumentation   |-> {"manifest_analysis"},
    virustotal_lookup       |-> {"file_hashing"}]

StepsFollowTheirData ==
    \A j \in Job \ overlapped : pc[j] = "done" =>
        \A p \in DOMAIN ReadsFrom :
            status[j][p] \in {"success", "skipped"} /\ p \notin missing =>
                (status[j][p] = "success"
                   <=> \E q \in ReadsFrom[p] : status[j][q] = "success")

(***************************************************************************)
(* A finished privacy analysis with every tool at hand and no failed step  *)
(* has looked for tracking SDKs, as its page says it does.                 *)
(***************************************************************************)
TrackersAreLookedFor ==
    \A j \in Job :
        pc[j] = "done" /\ flow[j] = "privacy" /\ faults = MaxTroubles =>
            status[j]["tracker_detection"] = "success"
=============================================================================
