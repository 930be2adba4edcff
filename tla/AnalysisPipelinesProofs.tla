----------------------- MODULE AnalysisPipelinesProofs -----------------------
(***************************************************************************)
(* Proofs about the shipped workflows for any jobs, any versions of the    *)
(* APK and any number of faults: the findings of an analysis, and the order*)
(* of its steps.                                                           *)
(***************************************************************************)
EXTENDS AnalysisPipelines, FiniteSetTheorems, TLAPS

At(j, i) == WORKFLOW_REGISTRY[flow[j]][i]
Length(j) == Len(WORKFLOW_REGISTRY[flow[j]])

\* Where a job is in its workflow, and which step may have a program running.
PositionInv ==
    \A j \in Job :
        /\ pc[j] = "idle" => shared[j] = {} /\ basis[j] = {} /\ next[j] = 1
        /\ pc[j] # "idle" => flow[j] \in Flow
        /\ Running(j) => next[j] \in 1..Length(j)
        /\ pc[j] = "tool" => PluginAt(j) \in UsesTool
        /\ pc[j] = "tool" /\ PluginAt(j) = "app_deployment" => Has(j, "package_name")

\* A step is recorded when the job has gone past it, and not before.
RecordedInv ==
    \A j \in Job, p \in PluginId :
        status[j][p] # None =>
            /\ pc[j] # "idle"
            /\ \E i \in 1..Length(j) : i < next[j] /\ At(j, i) = p

\* Whose key a key of shared_data is.
SetBy == [
    apktool_output_dir |-> "apktool_decode",
    jadx_output_dir    |-> "jadx_decompile",
    file_hashes        |-> "file_hashing",
    package_name       |-> "manifest_analysis"]
KeysInv ==
    \A j \in Job, key \in DOMAIN SetBy :
        Has(j, key) <=> status[j][SetBy[key]] = "success"

\* A job that does not overlap another has the project's workspace for itself.
AloneInv ==
    \A j \in Job \ overlapped :
        Running(j) =>
            /\ \A k \in Job : Running(k) => k = j
            /\ Has(j, "apktool_output_dir") => workspace.manifest # None

\* What such a job can come to read is of the APK it was started on, if nothing
\* else was there then.
ReadableOf(j) ==
    /\ begun[j] = apk
    /\ workspace.sources \subseteq {apk} /\ {workspace.report, installed} \subseteq {apk, None}
    /\ \/ Has(j, "apktool_output_dir")
       \/ pc[j] = "tool" /\ PluginAt(j) = "apktool_decode"
       => workspace.decoded \subseteq {apk} /\ workspace.manifest \in {apk, None}
VersionsInv ==
    \A j \in Job \ (disturbed \cup overlapped) :
        /\ basis[j] \subseteq {begun[j], DeviceLog}
        /\ Running(j) => ReadableOf(j)

\* Only logcat_capture reads the device's log.
LogInv == \A j \in Job : DeviceLog \in basis[j] <=> status[j]["logcat_capture"] = "success"

\* A recorded step followed the steps it reads from.
Followed(j, p) ==
    status[j][p] \in {"success", "skipped"} /\ p \notin missing =>
        (status[j][p] = "success" <=> \E q \in ReadsFrom[p] : status[j][q] = "success")
FollowedInv == \A j \in Job \ overlapped, p \in DOMAIN ReadsFrom : Followed(j, p)

PipelineInv ==
    /\ PipelineTypeOK /\ PositionInv /\ RecordedInv /\ KeysInv
    /\ AloneInv /\ VersionsInv /\ LogInv /\ FollowedInv

-----------------------------------------------------------------------------
(***************************************************************************)
(* One order of the nineteen plugins that every workflow follows, and in   *)
(* which each of them comes after those it reads from.                     *)
(***************************************************************************)
Rank == [
    apk_validator |-> 1, file_hashing |-> 2, certificate_analysis |-> 3, virustotal_lookup |-> 4,
    yara_scan |-> 5, apkid_scan |-> 6, quark_engine |-> 7, apktool_decode |-> 8,
    jadx_decompile |-> 9, manifest_analysis |-> 10, network_security_config |-> 11,
    secrets_detection |-> 12, code_analysis |-> 13, tracker_detection |-> 14,
    ioc_extraction |-> 15, mitre_attack_mapping |-> 16, app_deployment |-> 17,
    frida_instrumentation |-> 18, logcat_capture |-> 19]

\* A workflow climbs in the order.
Climbs(w) ==
    /\ w \in Seq(DOMAIN Rank) /\ Len(w) \in Nat \ {0}
    /\ \A i, k \in 1..Len(w) : i < k => Rank[w[i]] < Rank[w[k]]

LEMMA RankOf ==
    /\ Rank["apk_validator"] = 1 /\ Rank["file_hashing"] = 2 /\ Rank["certificate_analysis"] = 3
    /\ Rank["virustotal_lookup"] = 4 /\ Rank["yara_scan"] = 5 /\ Rank["apkid_scan"] = 6
    /\ Rank["quark_engine"] = 7 /\ Rank["apktool_decode"] = 8 /\ Rank["jadx_decompile"] = 9
    /\ Rank["manifest_analysis"] = 10 /\ Rank["network_security_config"] = 11
    /\ Rank["secrets_detection"] = 12 /\ Rank["code_analysis"] = 13
    /\ Rank["tracker_detection"] = 14 /\ Rank["ioc_extraction"] = 15
    /\ Rank["mitre_attack_mapping"] = 16 /\ Rank["app_deployment"] = 17
    /\ Rank["frida_instrumentation"] = 18 /\ Rank["logcat_capture"] = 19
BY DEF Rank

\* The five workflows, step by step.
LEMMA StaticClimbs == Climbs(WORKFLOW_REGISTRY.static)
<1>1. WORKFLOW_REGISTRY.static =
        <<"apk_validator", "certificate_analysis", "apktool_decode",
          "jadx_decompile", "manifest_analysis", "network_security_config",
          "secrets_detection", "code_analysis", "tracker_detection">>
  BY DEF WORKFLOW_REGISTRY
<1>. DEFINE w == WORKFLOW_REGISTRY.static
<1>2. w \in Seq(DOMAIN Rank) /\ Len(w) = 9
  BY <1>1 DEF Rank
<1>3. /\ Rank[w[1]] = 1 /\ Rank[w[2]] = 3 /\ Rank[w[3]] = 8 /\ Rank[w[4]] = 9
      /\ Rank[w[5]] = 10 /\ Rank[w[6]] = 11 /\ Rank[w[7]] = 12 /\ Rank[w[8]] = 13
      /\ Rank[w[9]] = 14
  BY <1>1, RankOf
<1>4. \A i, k \in 1..9 : i < k => Rank[w[i]] < Rank[w[k]]
  BY <1>3
<1>. HIDE DEF w
<1>5. Len(w) \in Nat \ {0} /\ 1..Len(w) = 1..9
  BY <1>2
<1>6. Climbs(w)
  BY <1>2, <1>4, <1>5 DEF Climbs
<1>. QED  BY <1>6 DEF w

LEMMA MalwareClimbs == Climbs(WORKFLOW_REGISTRY.malware)
<1>1. WORKFLOW_REGISTRY.malware =
        <<"file_hashing", "certificate_analysis", "virustotal_lookup",
          "yara_scan", "apkid_scan", "quark_engine", "apktool_decode",
          "jadx_decompile", "manifest_analysis", "ioc_extraction",
          "mitre_attack_mapping">>
  BY DEF WORKFLOW_REGISTRY
<1>. DEFINE w == WORKFLOW_REGISTRY.malware
<1>2. w \in Seq(DOMAIN Rank) /\ Len(w) = 11
  BY <1>1 DEF Rank
<1>3. /\ Rank[w[1]] = 2 /\ Rank[w[2]] = 3 /\ Rank[w[3]] = 4 /\ Rank[w[4]] = 5
      /\ Rank[w[5]] = 6 /\ Rank[w[6]] = 7 /\ Rank[w[7]] = 8 /\ Rank[w[8]] = 9
      /\ Rank[w[9]] = 10 /\ Rank[w[10]] = 15 /\ Rank[w[11]] = 16
  BY <1>1, RankOf
<1>4. \A i, k \in 1..11 : i < k => Rank[w[i]] < Rank[w[k]]
  BY <1>3
<1>. HIDE DEF w
<1>5. Len(w) \in Nat \ {0} /\ 1..Len(w) = 1..11
  BY <1>2
<1>6. Climbs(w)
  BY <1>2, <1>4, <1>5 DEF Climbs
<1>. QED  BY <1>6 DEF w

LEMMA DynamicClimbs == Climbs(WORKFLOW_REGISTRY.dynamic)
<1>1. WORKFLOW_REGISTRY.dynamic =
        <<"apk_validator", "apktool_decode", "manifest_analysis",
          "app_deployment", "frida_instrumentation", "logcat_capture">>
  BY DEF WORKFLOW_REGISTRY
<1>. DEFINE w == WORKFLOW_REGISTRY.dynamic
<1>2. w \in Seq(DOMAIN Rank) /\ Len(w) = 6
  BY <1>1 DEF Rank
<1>3. /\ Rank[w[1]] = 1 /\ Rank[w[2]] = 8 /\ Rank[w[3]] = 10 /\ Rank[w[4]] = 17
      /\ Rank[w[5]] = 18 /\ Rank[w[6]] = 19
  BY <1>1, RankOf
<1>4. \A i, k \in 1..6 : i < k => Rank[w[i]] < Rank[w[k]]
  BY <1>3
<1>. HIDE DEF w
<1>5. Len(w) \in Nat \ {0} /\ 1..Len(w) = 1..6
  BY <1>2
<1>6. Climbs(w)
  BY <1>2, <1>4, <1>5 DEF Climbs
<1>. QED  BY <1>6 DEF w

LEMMA PrivacyClimbs == Climbs(WORKFLOW_REGISTRY.privacy)
<1>1. WORKFLOW_REGISTRY.privacy =
        <<"apk_validator", "apktool_decode", "manifest_analysis",
          "network_security_config", "tracker_detection", "ioc_extraction">>
  BY DEF WORKFLOW_REGISTRY
<1>. DEFINE w == WORKFLOW_REGISTRY.privacy
<1>2. w \in Seq(DOMAIN Rank) /\ Len(w) = 6
  BY <1>1 DEF Rank
<1>3. /\ Rank[w[1]] = 1 /\ Rank[w[2]] = 8 /\ Rank[w[3]] = 10 /\ Rank[w[4]] = 11
      /\ Rank[w[5]] = 14 /\ Rank[w[6]] = 15
  BY <1>1, RankOf
<1>4. \A i, k \in 1..6 : i < k => Rank[w[i]] < Rank[w[k]]
  BY <1>3
<1>. HIDE DEF w
<1>5. Len(w) \in Nat \ {0} /\ 1..Len(w) = 1..6
  BY <1>2
<1>6. Climbs(w)
  BY <1>2, <1>4, <1>5 DEF Climbs
<1>. QED  BY <1>6 DEF w

LEMMA ReverseClimbs == Climbs(WORKFLOW_REGISTRY.reverse_engineering)
<1>1. WORKFLOW_REGISTRY.reverse_engineering =
        <<"apk_validator", "apktool_decode", "jadx_decompile">>
  BY DEF WORKFLOW_REGISTRY
<1>. DEFINE w == WORKFLOW_REGISTRY.reverse_engineering
<1>2. w \in Seq(DOMAIN Rank) /\ Len(w) = 3
  BY <1>1 DEF Rank
<1>3. /\ Rank[w[1]] = 1 /\ Rank[w[2]] = 8 /\ Rank[w[3]] = 9
  BY <1>1, RankOf
<1>4. \A i, k \in 1..3 : i < k => Rank[w[i]] < Rank[w[k]]
  BY <1>3
<1>. HIDE DEF w
<1>5. Len(w) \in Nat \ {0} /\ 1..Len(w) = 1..3
  BY <1>2
<1>6. Climbs(w)
  BY <1>2, <1>4, <1>5 DEF Climbs
<1>. QED  BY <1>6 DEF w

LEMMA WorkflowsClimb == \A f \in Flow : Climbs(WORKFLOW_REGISTRY[f])
<1>1. Flow = {"static", "malware", "dynamic", "privacy", "reverse_engineering"}
  BY DEF Flow, WORKFLOW_REGISTRY
<1>. QED  BY <1>1, StaticClimbs, MalwareClimbs, DynamicClimbs, PrivacyClimbs, ReverseClimbs

LEMMA PluginsRanked ==
    /\ PluginId \subseteq DOMAIN Rank
    /\ \A p \in DOMAIN Rank : Rank[p] \in Nat
<1>1. \A f \in Flow : WORKFLOW_REGISTRY[f] \in Seq(DOMAIN Rank)
  BY WorkflowsClimb DEF Climbs
<1>2. PluginId \subseteq DOMAIN Rank
  <2>1. ASSUME NEW p \in PluginId PROVE p \in DOMAIN Rank
    <3>1. PICK f \in Flow : p \in {WORKFLOW_REGISTRY[f][i] : i \in DOMAIN WORKFLOW_REGISTRY[f]}
      BY DEF PluginId
    <3>2. PICK i \in DOMAIN WORKFLOW_REGISTRY[f] : p = WORKFLOW_REGISTRY[f][i]
      BY <3>1
    <3>. QED  BY <1>1, <3>2
  <2>. QED  BY <2>1
<1>3. DOMAIN Rank = {"apk_validator", "file_hashing", "certificate_analysis",
        "virustotal_lookup", "yara_scan", "apkid_scan", "quark_engine", "apktool_decode",
        "jadx_decompile", "manifest_analysis", "network_security_config", "secrets_detection",
        "code_analysis", "tracker_detection", "ioc_extraction", "mitre_attack_mapping",
        "app_deployment", "frida_instrumentation", "logcat_capture"}
  BY DEF Rank
<1>4. \A p \in DOMAIN Rank : Rank[p] \in Nat
  BY <1>3, RankOf
<1>. QED  BY <1>2, <1>4

\* What a step reads from is above it.
LEMMA ReadsUpstream ==
    ASSUME NEW p \in DOMAIN ReadsFrom, NEW q \in ReadsFrom[p]
    PROVE  p \in DOMAIN Rank /\ q \in DOMAIN Rank /\ Rank[q] < Rank[p]
<1>1. p \in DOMAIN Rank
  BY DEF ReadsFrom, Rank
<1>2. q \in {"apktool_decode", "jadx_decompile", "manifest_analysis", "file_hashing"}
  BY DEF ReadsFrom
<1>3. q \in DOMAIN Rank
  BY <1>2 DEF Rank
<1>4. Rank[q] < Rank[p]
  BY <1>2, RankOf DEF ReadsFrom
<1>. QED  BY <1>1, <1>3, <1>4

\* The steps that read, and those that set a key, are steps of some workflow.
LEMMA ReadersAreSteps ==
    /\ DOMAIN ReadsFrom \subseteq PluginId
    /\ \A p \in DOMAIN ReadsFrom : ReadsFrom[p] \subseteq PluginId
    /\ \A key \in DOMAIN SetBy : SetBy[key] \in PluginId
    /\ "logcat_capture" \in PluginId
<1>1. ASSUME NEW f \in Flow, NEW i \in DOMAIN WORKFLOW_REGISTRY[f]
      PROVE  WORKFLOW_REGISTRY[f][i] \in PluginId
  BY DEF PluginId
<1>2. {"static", "malware", "dynamic"} \subseteq Flow
  BY DEF Flow, WORKFLOW_REGISTRY
<1>3. /\ DOMAIN WORKFLOW_REGISTRY["static"] = 1..9
      /\ WORKFLOW_REGISTRY["static"][3] = "apktool_decode"
      /\ WORKFLOW_REGISTRY["static"][4] = "jadx_decompile"
      /\ WORKFLOW_REGISTRY["static"][5] = "manifest_analysis"
      /\ WORKFLOW_REGISTRY["static"][6] = "network_security_config"
      /\ WORKFLOW_REGISTRY["static"][7] = "secrets_detection"
      /\ WORKFLOW_REGISTRY["static"][8] = "code_analysis"
      /\ WORKFLOW_REGISTRY["static"][9] = "tracker_detection"
  BY DEF WORKFLOW_REGISTRY
<1>4. /\ DOMAIN WORKFLOW_REGISTRY["malware"] = 1..11
      /\ WORKFLOW_REGISTRY["malware"][1] = "file_hashing"
      /\ WORKFLOW_REGISTRY["malware"][3] = "virustotal_lookup"
      /\ WORKFLOW_REGISTRY["malware"][10] = "ioc_extraction"
  BY DEF WORKFLOW_REGISTRY
<1>5. /\ DOMAIN WORKFLOW_REGISTRY["dynamic"] = 1..6
      /\ WORKFLOW_REGISTRY["dynamic"][4] = "app_deployment"
      /\ WORKFLOW_REGISTRY["dynamic"][5] = "frida_instrumentation"
      /\ WORKFLOW_REGISTRY["dynamic"][6] = "logcat_capture"
  BY DEF WORKFLOW_REGISTRY
<1>6. /\ {"apktool_decode", "jadx_decompile", "manifest_analysis", "network_security_config",
          "secrets_detection", "code_analysis", "tracker_detection"} \subseteq PluginId
      /\ {"file_hashing", "virustotal_lookup", "ioc_extraction"} \subseteq PluginId
      /\ {"app_deployment", "frida_instrumentation", "logcat_capture"} \subseteq PluginId
  <2>1. 3 \in 1..9 /\ 4 \in 1..9 /\ 5 \in 1..9 /\ 6 \in 1..9 /\ 7 \in 1..9 /\ 8 \in 1..9 /\ 9 \in 1..9
    OBVIOUS
  <2>2. 1 \in 1..11 /\ 3 \in 1..11 /\ 10 \in 1..11 /\ 4 \in 1..6 /\ 5 \in 1..6 /\ 6 \in 1..6
    OBVIOUS
  <2>. QED  BY <1>1, <1>2, <1>3, <1>4, <1>5, <2>1, <2>2
<1>. QED  BY <1>6 DEF ReadsFrom, SetBy

\* The step a job is at is not recorded yet, nor is any that reads from it.
LEMMA StepIsNew ==
    ASSUME PipelineInv, NEW j \in Job, Running(j)
    PROVE  /\ next[j] \in 1..Length(j) /\ Length(j) \in Nat
           /\ PluginAt(j) \in PluginId /\ PluginAt(j) = At(j, next[j])
           /\ flow[j] \in Flow
           /\ status[j][PluginAt(j)] = None
           /\ \A p \in DOMAIN ReadsFrom : PluginAt(j) \in ReadsFrom[p] => status[j][p] = None
<1>1. flow[j] \in Flow /\ next[j] \in 1..Length(j)
  BY DEF PipelineInv, PositionInv, Running
<1>2. Climbs(WORKFLOW_REGISTRY[flow[j]])
  BY <1>1, WorkflowsClimb
<1>3. Length(j) \in Nat /\ DOMAIN WORKFLOW_REGISTRY[flow[j]] = 1..Length(j)
  BY <1>2 DEF Climbs, Length
<1>4. PluginAt(j) = At(j, next[j]) /\ PluginAt(j) \in PluginId
  BY <1>1, <1>3 DEF PluginAt, At, PluginId
<1>5. \A i \in 1..Length(j) : i < next[j] => Rank[At(j, i)] < Rank[PluginAt(j)]
  BY <1>1, <1>2, <1>4 DEF Climbs, At, Length
<1>6. \A p \in PluginId : Rank[p] \in Nat
  BY PluginsRanked
<1>7. status[j][PluginAt(j)] = None
  BY <1>4, <1>5, <1>6 DEF PipelineInv, RecordedInv
<1>8. ASSUME NEW p \in DOMAIN ReadsFrom, PluginAt(j) \in ReadsFrom[p]
      PROVE  status[j][p] = None
  <2>1. p \in PluginId /\ Rank[PluginAt(j)] < Rank[p]
    BY <1>8, ReadersAreSteps, ReadsUpstream
  <2>. QED  BY <1>4, <1>5, <1>6, <2>1 DEF PipelineInv, RecordedInv
<1>. QED  BY <1>1, <1>3, <1>4, <1>7, <1>8

-----------------------------------------------------------------------------
\* What a step may return: its own key and no other's, what its readings allow,
\* and findings of the APK it was started on.
Fits(j, output) ==
    /\ output.status \in {"success", "failed", "skipped"}
    /\ output.keys \subseteq SharedKey /\ output.from \subseteq Source
    /\ \A key \in DOMAIN SetBy :
          key \in output.keys <=> PluginAt(j) = SetBy[key] /\ output.status = "success"
    /\ j \notin overlapped /\ PluginAt(j) \in DOMAIN ReadsFrom
         /\ output.status # "failed" /\ PluginAt(j) \notin missing
         => (output.status = "success"
               <=> \E q \in ReadsFrom[PluginAt(j)] : status[j][q] = "success")
    /\ j \notin disturbed \cup overlapped => output.from \subseteq {apk, DeviceLog}
    /\ DeviceLog \in output.from <=> PluginAt(j) = "logcat_capture" /\ output.status = "success"

\* The log is of no version.
LEMMA VersionsAreNoLog ==
    ASSUME PipelineAssumption, NEW from, from \subseteq Version
    PROVE  from \subseteq Source /\ DeviceLog \notin from /\ from \ {None} = from
BY DEF PipelineAssumption, Source

LEMMA RecordChanges ==
    ASSUME PipelineTypeOK, NEW j \in Job, NEW output, Record(j, output), PluginAt(j) \in PluginId
    PROVE  /\ \A i \in Job : i # j => status'[i] = status[i] /\ shared'[i] = shared[i]
                 /\ basis'[i] = basis[i] /\ next'[i] = next[i] /\ pc'[i] = pc[i]
           /\ \A p \in PluginId : status'[j][p] = IF p = PluginAt(j) THEN output.status ELSE status[j][p]
           /\ shared'[j] = shared[j] \cup output.keys /\ basis'[j] = basis[j] \cup output.from
           /\ next'[j] = next[j] + 1 /\ pc'[j] \in {"step", "done"}
           /\ pc'[j] = "step" => next[j] # Length(j)
           /\ UNCHANGED <<flow, begun, disturbed, overlapped>>
BY DEF PipelineTypeOK, Record, Length

LEMMA RecordTyped ==
    ASSUME PipelineInv, NEW j \in Job, Running(j), NEW output, Record(j, output), Fits(j, output)
    PROVE  /\ status' \in [Job -> [PluginId -> {"success", "failed", "skipped", None}]]
           /\ shared' \in [Job -> SUBSET SharedKey] /\ basis' \in [Job -> SUBSET Source]
           /\ next' \in [Job -> Nat \ {0}] /\ pc' \in [Job -> {"idle", "step", "tool", "done"}]
<1>. DEFINE Status == {"success", "failed", "skipped", None}
<1>1. /\ status \in [Job -> [PluginId -> Status]] /\ shared \in [Job -> SUBSET SharedKey]
      /\ basis \in [Job -> SUBSET Source] /\ next \in [Job -> Nat \ {0}]
      /\ pc \in [Job -> {"idle", "step", "tool", "done"}]
  BY DEF PipelineInv, PipelineTypeOK
<1>2. /\ output.status \in Status /\ output.keys \subseteq SharedKey /\ output.from \subseteq Source
  BY DEF Fits
<1>3. status' \in [Job -> [PluginId -> Status]]
  <2>1. status[j] \in [PluginId -> Status]
    BY <1>1
  <2>2. [status[j] EXCEPT ![PluginAt(j)] = output.status] \in [PluginId -> Status]
    BY <1>2, <2>1
  <2>. HIDE DEF Status
  <2>3. status' = [status EXCEPT ![j] = [status[j] EXCEPT ![PluginAt(j)] = output.status]]
    BY DEF Record
  <2>. QED  BY <1>1, <2>2, <2>3
<1>4. shared' \in [Job -> SUBSET SharedKey]
  BY <1>1, <1>2 DEF Record
<1>5. basis' \in [Job -> SUBSET Source]
  BY <1>1, <1>2 DEF Record
<1>6. next' \in [Job -> Nat \ {0}]
  BY <1>1 DEF Record
<1>7. pc' \in [Job -> {"idle", "step", "tool", "done"}]
  BY <1>1 DEF Record
<1>. QED  BY <1>3, <1>4, <1>5, <1>6, <1>7

\* A step is recorded: it was not before, and no step after it can contradict it.
LEMMA RecordKeeps ==
    ASSUME PipelineInv, PipelineAssumption, NEW j \in Job, Running(j),
           NEW output, Record(j, output), Fits(j, output),
           j \notin overlapped /\ Has(j, "apktool_output_dir")' => workspace'.manifest # None,
           j \notin disturbed \cup overlapped => ReadableOf(j)',
           UNCHANGED <<apk, missing, replacements>>, workspace' \in Workspace,
           installed' \in Version \cup {None}, faults' \in Nat
    PROVE  PipelineInv'
<1>0. PipelineTypeOK
  BY DEF PipelineInv
<1>1. /\ next[j] \in 1..Length(j) /\ Length(j) \in Nat
      /\ PluginAt(j) \in PluginId /\ PluginAt(j) = At(j, next[j]) /\ flow[j] \in Flow
      /\ status[j][PluginAt(j)] = None
      /\ \A p \in DOMAIN ReadsFrom : PluginAt(j) \in ReadsFrom[p] => status[j][p] = None
  BY StepIsNew
<1>2. /\ \A i \in Job : i # j => status'[i] = status[i] /\ shared'[i] = shared[i]
            /\ basis'[i] = basis[i] /\ next'[i] = next[i] /\ pc'[i] = pc[i]
      /\ \A p \in PluginId : status'[j][p] = IF p = PluginAt(j) THEN output.status ELSE status[j][p]
      /\ shared'[j] = shared[j] \cup output.keys /\ basis'[j] = basis[j] \cup output.from
      /\ next'[j] = next[j] + 1 /\ pc'[j] \in {"step", "done"}
      /\ pc'[j] = "step" => next[j] # Length(j)
      /\ UNCHANGED <<flow, begun, disturbed, overlapped>>
  BY <1>0, <1>1, RecordChanges
<1>3. PipelineTypeOK'
  <2>1. /\ status' \in [Job -> [PluginId -> {"success", "failed", "skipped", None}]]
        /\ shared' \in [Job -> SUBSET SharedKey] /\ basis' \in [Job -> SUBSET Source]
        /\ next' \in [Job -> Nat \ {0}] /\ pc' \in [Job -> {"idle", "step", "tool", "done"}]
    BY RecordTyped
  <2>. QED  BY <1>0, <1>2, <2>1 DEF PipelineTypeOK
<1>4. \A i \in Job : Length(i)' = Length(i) /\ \A k \in 1..Length(i) : At(i, k)' = At(i, k)
  BY <1>2 DEF At, Length
<1>5. PositionInv'
  <2>1. ASSUME NEW i \in Job, i # j
        PROVE  /\ pc'[i] = "idle" => shared'[i] = {} /\ basis'[i] = {} /\ next'[i] = 1
               /\ pc'[i] # "idle" => flow'[i] \in Flow
               /\ Running(i)' => next'[i] \in 1..Length(i)'
               /\ pc'[i] = "tool" => PluginAt(i)' \in UsesTool
               /\ pc'[i] = "tool" /\ PluginAt(i)' = "app_deployment" => Has(i, "package_name")'
    BY <1>2, <1>4, <2>1 DEF PipelineInv, PositionInv, PluginAt, Running, Has
  <2>2. Running(j)' => next'[j] \in 1..Length(j)'
    BY <1>1, <1>2, <1>4 DEF Running
  <2>. QED  BY <1>1, <1>2, <2>1, <2>2 DEF PositionInv
<1>6. RecordedInv'
  <2>1. ASSUME NEW p \in PluginId, status'[j][p] # None
        PROVE  \E i \in 1..Length(j) : i < next'[j] /\ At(j, i) = p
    <3>1. CASE p = PluginAt(j)
      <4>1. next[j] < next'[j]
        BY <1>1, <1>2
      <4>. QED  BY <1>1, <3>1, <4>1
    <3>2. CASE p # PluginAt(j)
      <4>1. PICK i \in 1..Length(j) : i < next[j] /\ At(j, i) = p
        BY <1>2, <2>1, <3>2 DEF PipelineInv, RecordedInv
      <4>. QED  BY <1>1, <1>2, <4>1
    <3>. QED  BY <3>1, <3>2
  <2>2. ASSUME NEW i \in Job, i # j, NEW p \in PluginId, status'[i][p] # None
        PROVE  pc'[i] # "idle" /\ \E k \in 1..Length(i) : k < next'[i] /\ At(i, k) = p
    BY <1>2, <2>2 DEF PipelineInv, RecordedInv
  <2>. QED  BY <1>2, <1>4, <2>1, <2>2 DEF RecordedInv
<1>7. KeysInv'
  <2>1. ASSUME NEW key \in DOMAIN SetBy
        PROVE  key \in shared'[j] <=> status'[j][SetBy[key]] = "success"
    <3>1. key \in shared[j] <=> status[j][SetBy[key]] = "success"
      BY DEF PipelineInv, KeysInv, Has
    <3>2. key \in output.keys <=> PluginAt(j) = SetBy[key] /\ output.status = "success"
      BY DEF Fits
    <3>3. SetBy[key] \in PluginId /\ None # "success"
      BY ReadersAreSteps, PipelineAssumption DEF PipelineAssumption
    <3>. QED  BY <1>1, <1>2, <3>1, <3>2, <3>3
  <2>. QED  BY <1>2, <2>1 DEF PipelineInv, KeysInv, Has
<1>8. \A i \in Job : Running(i)' => Running(i)
  BY <1>2 DEF Running
<1>9. ASSUME NEW i \in Job \ overlapped, i # j PROVE ~Running(i)'
  BY <1>8, <1>9 DEF PipelineInv, AloneInv
<1>10. AloneInv'
  BY <1>2, <1>8, <1>9 DEF PipelineInv, AloneInv
<1>11. VersionsInv'
  <2>1. ASSUME NEW i \in Job \ (disturbed \cup overlapped), i # j
        PROVE  basis'[i] \subseteq {begun'[i], DeviceLog} /\ ~Running(i)'
    BY <1>2, <1>9, <2>1 DEF PipelineInv, VersionsInv
  <2>2. ASSUME j \notin disturbed \cup overlapped
        PROVE  basis'[j] \subseteq {begun'[j], DeviceLog}
    <3>1. begun[j] = apk /\ basis[j] \subseteq {begun[j], DeviceLog}
      BY <2>2 DEF PipelineInv, VersionsInv, ReadableOf
    <3>2. output.from \subseteq {apk, DeviceLog}
      BY <2>2 DEF Fits
    <3>. QED  BY <1>2, <3>1, <3>2
  <2>. QED  BY <1>2, <2>1, <2>2 DEF VersionsInv
<1>12. FollowedInv'
  <2>1. ASSUME NEW p \in DOMAIN ReadsFrom, j \notin overlapped PROVE Followed(j, p)'
    <3>1. p \in PluginId /\ ReadsFrom[p] \subseteq PluginId
      BY ReadersAreSteps
    <3>2. CASE p = PluginAt(j)
      <4>1. p \notin ReadsFrom[p]
        BY <3>1, ReadsUpstream, PluginsRanked
      <4>2. \A q \in ReadsFrom[p] : status'[j][q] = status[j][q]
        BY <1>2, <3>1, <3>2, <4>1
      <4>3. status'[j][p] = output.status
        BY <1>2, <3>1, <3>2
      <4>. QED  BY <2>1, <3>2, <4>2, <4>3 DEF Fits, Followed
    <3>3. CASE p # PluginAt(j) /\ PluginAt(j) \in ReadsFrom[p]
      <4>1. status'[j][p] = None
        BY <1>1, <1>2, <3>1, <3>3
      <4>. QED  BY <4>1, PipelineAssumption DEF Followed, PipelineAssumption
    <3>4. CASE p # PluginAt(j) /\ PluginAt(j) \notin ReadsFrom[p]
      <4>1. status'[j][p] = status[j][p] /\ \A q \in ReadsFrom[p] : status'[j][q] = status[j][q]
        BY <1>2, <3>1, <3>4
      <4>2. Followed(j, p)
        BY <2>1 DEF PipelineInv, FollowedInv
      <4>. QED  BY <4>1, <4>2 DEF Followed
    <3>. QED  BY <3>2, <3>3, <3>4
  <2>2. ASSUME NEW i \in Job \ overlapped, i # j, NEW p \in DOMAIN ReadsFrom
        PROVE  Followed(i, p)'
    <3>1. Followed(i, p)
      BY DEF PipelineInv, FollowedInv
    <3>. QED  BY <1>2, <2>2, <3>1 DEF Followed
  <2>. QED  BY <1>2, <2>1, <2>2 DEF FollowedInv
<1>13. LogInv'
  <2>1. DeviceLog \in output.from <=> PluginAt(j) = "logcat_capture" /\ output.status = "success"
    BY DEF Fits
  <2>2. "logcat_capture" \in PluginId /\ None # "success"
    BY ReadersAreSteps, PipelineAssumption DEF PipelineAssumption
  <2>3. \A i \in Job : DeviceLog \in basis[i] <=> status[i]["logcat_capture"] = "success"
    BY DEF PipelineInv, LogInv
  <2>. QED  BY <1>1, <1>2, <2>1, <2>2, <2>3 DEF LogInv
<1>. QED  BY <1>3, <1>5, <1>6, <1>7, <1>10, <1>11, <1>12, <1>13 DEF PipelineInv

-----------------------------------------------------------------------------
LEMMA Tables ==
    /\ DOMAIN SetBy = {"apktool_output_dir", "jadx_output_dir", "file_hashes", "package_name"}
    /\ SetBy["apktool_output_dir"] = "apktool_decode" /\ SetBy["jadx_output_dir"] = "jadx_decompile"
    /\ SetBy["file_hashes"] = "file_hashing" /\ SetBy["package_name"] = "manifest_analysis"
    /\ DOMAIN ReadsFrom = {"manifest_analysis", "network_security_config", "secrets_detection",
          "ioc_extraction", "code_analysis", "tracker_detection", "app_deployment",
          "frida_instrumentation", "virustotal_lookup"}
    /\ ReadsFrom["manifest_analysis"] = {"apktool_decode"}
    /\ ReadsFrom["network_security_config"] = {"apktool_decode"}
    /\ ReadsFrom["secrets_detection"] = {"apktool_decode", "jadx_decompile"}
    /\ ReadsFrom["ioc_extraction"] = {"apktool_decode", "jadx_decompile"}
    /\ ReadsFrom["code_analysis"] = {"jadx_decompile"}
    /\ ReadsFrom["tracker_detection"] = {"jadx_decompile"}
    /\ ReadsFrom["app_deployment"] = {"manifest_analysis"}
    /\ ReadsFrom["frida_instrumentation"] = {"manifest_analysis"}
    /\ ReadsFrom["virustotal_lookup"] = {"file_hashing"}
BY DEF SetBy, ReadsFrom

LEMMA KeyNames ==
    {"apktool_output_dir", "jadx_output_dir", "file_hashes", "package_name",
     "requested_permissions", "extracted_iocs"} \subseteq SharedKey
BY DEF SharedKey

\* What a job can tell from its keys and find in the workspace.
LEMMA JobFinds ==
    ASSUME PipelineInv, NEW j \in Job
    PROVE  /\ Has(j, "apktool_output_dir") <=> status[j]["apktool_decode"] = "success"
           /\ Has(j, "jadx_output_dir") <=> status[j]["jadx_decompile"] = "success"
           /\ Has(j, "file_hashes") <=> status[j]["file_hashing"] = "success"
           /\ Has(j, "package_name") <=> status[j]["manifest_analysis"] = "success"
           /\ apk \in Version /\ installed \in Version \cup {None}
           /\ workspace.decoded \subseteq Version /\ workspace.manifest \in Version \cup {None}
           /\ workspace.sources \subseteq Version /\ workspace.report \in Version \cup {None}
           /\ workspace \in Workspace
           /\ Running(j) /\ j \notin disturbed \cup overlapped => ReadableOf(j)
           /\ Running(j) /\ j \notin overlapped /\ Has(j, "apktool_output_dir") => workspace.manifest # None
<1>1. \A key \in DOMAIN SetBy : Has(j, key) <=> status[j][SetBy[key]] = "success"
  BY DEF PipelineInv, KeysInv
<1>2. apk \in Version /\ workspace \in Workspace /\ installed \in Version \cup {None}
  BY DEF PipelineInv, PipelineTypeOK
<1>3. /\ workspace.decoded \subseteq Version /\ workspace.manifest \in Version \cup {None}
      /\ workspace.sources \subseteq Version /\ workspace.report \in Version \cup {None}
  BY <1>2 DEF Workspace
<1>. QED  BY <1>1, <1>2, <1>3, Tables DEF PipelineInv, VersionsInv, AloneInv

\* A step that reads and writes no shared_data but perhaps the APK or the device.
LEMMA PlainFits ==
    ASSUME PipelineAssumption, NEW j \in Job, NEW output, output.status \in {"success", "skipped"},
           output.keys \subseteq SharedKey, output.from \subseteq Version,
           PluginAt(j) \in DOMAIN Rank,
           PluginAt(j) \notin {"apktool_decode", "jadx_decompile", "file_hashing", "manifest_analysis",
                             "logcat_capture"},
           output.keys \cap DOMAIN SetBy = {}, PluginAt(j) \notin DOMAIN ReadsFrom,
           j \notin disturbed \cup overlapped => output.from \subseteq {apk}
    PROVE  Fits(j, output)
<1>1. output.from \subseteq Source /\ DeviceLog \notin output.from
  BY PipelineAssumption DEF PipelineAssumption, Source
<1>. QED  BY <1>1, Tables DEF Fits

\* A step that reads.
LEMMA ReaderFits ==
    ASSUME PipelineAssumption, NEW j \in Job, NEW output, output.status \in {"success", "skipped", "failed"},
           output.keys \subseteq SharedKey, output.from \subseteq Version,
           PluginAt(j) \in DOMAIN ReadsFrom,
           \A key \in DOMAIN SetBy :
              key \in output.keys <=> PluginAt(j) = SetBy[key] /\ output.status = "success",
           j \notin overlapped /\ output.status # "failed" =>
              (output.status = "success"
                 <=> \E q \in ReadsFrom[PluginAt(j)] : status[j][q] = "success"),
           j \notin disturbed \cup overlapped => output.from \subseteq {apk}
    PROVE  Fits(j, output)
<1>1. output.from \subseteq Source /\ DeviceLog \notin output.from /\ PluginAt(j) # "logcat_capture"
  BY PipelineAssumption DEF PipelineAssumption, Source, ReadsFrom
<1>. QED  BY <1>1 DEF Fits

LEMMA ReturnsFit ==
    ASSUME PipelineInv, PipelineAssumption, NEW j \in Job, Running(j), PluginAt(j) \notin UsesTool,
           NEW output \in Returns(j, PluginAt(j))
    PROVE  Fits(j, output)
<1>1. PluginAt(j) \in DOMAIN Rank \ UsesTool
  BY StepIsNew, PluginsRanked
<1>2. /\ Has(j, "apktool_output_dir") <=> status[j]["apktool_decode"] = "success"
      /\ Has(j, "jadx_output_dir") <=> status[j]["jadx_decompile"] = "success"
      /\ Has(j, "file_hashes") <=> status[j]["file_hashing"] = "success"
      /\ Has(j, "package_name") <=> status[j]["manifest_analysis"] = "success"
      /\ apk \in Version /\ installed \in Version \cup {None}
      /\ workspace.decoded \subseteq Version /\ workspace.manifest \in Version \cup {None}
      /\ workspace.sources \subseteq Version
      /\ j \notin overlapped /\ Has(j, "apktool_output_dir") => workspace.manifest # None
  BY JobFinds
<1>3. j \notin disturbed \cup overlapped =>
        /\ workspace.sources \subseteq {apk} /\ installed \in {apk, None}
        /\ Has(j, "apktool_output_dir")
             => workspace.decoded \subseteq {apk} /\ workspace.manifest \in {apk, None}
  <2>1. j \notin disturbed \cup overlapped => ReadableOf(j)
    BY JobFinds
  <2>. QED  BY <2>1 DEF ReadableOf
<1>4. CASE PluginAt(j) \in {"apk_validator", "yara_scan", "apkid_scan"}
  <2>1. output = [status |-> "success", keys |-> {}, from |-> {apk} \ {None}]
    BY <1>4 DEF Returns, ApkValidator, YaraScan, ApkidScan, Success, Out
  <2>. QED  BY <1>1, <1>2, <1>4, <2>1, PlainFits, Tables
<1>5. CASE PluginAt(j) = "certificate_analysis"
  <2>1. \/ output = [status |-> "success", keys |-> {}, from |-> {apk} \ {None}]
        \/ output = [status |-> "skipped", keys |-> {}, from |-> {} \ {None}]
    BY <1>5 DEF Returns, CertificateAnalysis, Success, Skipped, Out
  <2>. QED  BY <1>1, <1>2, <1>5, <2>1, PlainFits, Tables
<1>6. CASE PluginAt(j) = "mitre_attack_mapping"
  <2>1. \/ output = [status |-> "success", keys |-> {}, from |-> {} \ {None}]
        \/ output = [status |-> "skipped", keys |-> {}, from |-> {} \ {None}]
    BY <1>6 DEF Returns, MitreAttackMapping, Success, Skipped, Out
  <2>. QED  BY <1>1, <1>2, <1>6, <2>1, PlainFits, Tables
<1>7. CASE PluginAt(j) = "logcat_capture"
  <2>1. output = [status |-> "success", keys |-> {}, from |-> {DeviceLog} \ {None}]
    BY <1>7 DEF Returns, LogcatCapture, Success, Out
  <2>2. {DeviceLog} \ {None} = {DeviceLog} /\ DeviceLog \in Source
    BY PipelineAssumption DEF PipelineAssumption, Source
  <2>. QED  BY <1>7, <2>1, <2>2, Tables DEF Fits
<1>8. CASE PluginAt(j) = "file_hashing"
  <2>1. output = [status |-> "success", keys |-> {"file_hashes"}, from |-> {apk} \ {None}]
    BY <1>8 DEF Returns, FileHashing, Success, Out
  <2>2. output.from = {apk} /\ {apk} \subseteq Version
    BY <1>2, <2>1, PipelineAssumption DEF PipelineAssumption
  <2>. QED  BY <1>8, <2>1, <2>2, VersionsAreNoLog, Tables, KeyNames DEF Fits
<1>9. CASE PluginAt(j) = "virustotal_lookup"
  <2>1. output = [status |-> IF Has(j, "file_hashes") THEN "success" ELSE "skipped",
                  keys |-> {}, from |-> {} \ {None}]
    BY <1>9 DEF Returns, VirusTotalLookup, Success, Skipped, Out
  <2>. QED  BY <1>2, <1>9, <2>1, ReaderFits, Tables
<1>10. CASE PluginAt(j) = "manifest_analysis"
  <2>1. CASE ~Has(j, "apktool_output_dir") \/ workspace.manifest = None
    <3>1. output = [status |-> "skipped", keys |-> {}, from |-> {} \ {None}]
      BY <1>10, <2>1 DEF Returns, ManifestAnalysis, Skipped, Out
    <3>. QED  BY <1>2, <1>10, <2>1, <3>1, ReaderFits, Tables
  <2>2. CASE Has(j, "apktool_output_dir") /\ workspace.manifest # None
    <3>1. PICK keys \in {{"package_name"}, {"package_name", "requested_permissions"}} :
              output = [status |-> "success", keys |-> keys, from |-> {workspace.manifest} \ {None}]
      <4>1. output = [status |-> "success",
                      keys |-> {"package_name"} \cup
                          (IF workspace.manifest \in Permissive THEN {"requested_permissions"} ELSE {}),
                      from |-> {workspace.manifest} \ {None}]
        BY <1>10, <2>2 DEF Returns, ManifestAnalysis, Success, Out
      <4>. QED  BY <4>1
    <3>2. keys \subseteq SharedKey
      BY KeyNames
    <3>. QED  BY <1>2, <1>3, <1>10, <2>2, <3>1, <3>2, ReaderFits, Tables
  <2>. QED  BY <2>1, <2>2
<1>11. CASE PluginAt(j) = "network_security_config"
  <2>1. output = IF Has(j, "apktool_output_dir")
                   THEN [status |-> "success", keys |-> {}, from |-> workspace.decoded \ {None}]
                   ELSE [status |-> "skipped", keys |-> {}, from |-> {} \ {None}]
    BY <1>11 DEF Returns, NetworkSecurityConfig, Success, Skipped, Out
  <2>. QED  BY <1>2, <1>3, <1>11, <2>1, ReaderFits, Tables
<1>12. CASE PluginAt(j) \in {"secrets_detection", "ioc_extraction"}
  <2>1. PICK keys \in {{}, {"extracted_iocs"}} : output \in ScanRoots(j, keys)
    BY <1>12 DEF Returns, SecretsDetection, IocExtraction
  <2>2. CASE ~Has(j, "jadx_output_dir") /\ ~Has(j, "apktool_output_dir")
    <3>1. output = [status |-> "skipped", keys |-> {}, from |-> {} \ {None}]
      BY <2>1, <2>2 DEF ScanRoots, Skipped, Out
    <3>. QED  BY <1>2, <1>12, <2>2, <3>1, ReaderFits, Tables
  <2>3. CASE Has(j, "jadx_output_dir") \/ Has(j, "apktool_output_dir")
    <3>1. PICK from : /\ output = [status |-> "success", keys |-> keys, from |-> from]
                      /\ from = ((IF Has(j, "jadx_output_dir") THEN workspace.sources ELSE {}) \cup
                                 (IF Has(j, "apktool_output_dir") THEN workspace.decoded ELSE {}))
                                \ {None}
      BY <2>1, <2>3 DEF ScanRoots, Success, Out
    <3>2. from \subseteq Version /\ (j \notin disturbed \cup overlapped => from \subseteq {apk})
      BY <1>2, <1>3, <3>1, PipelineAssumption DEF PipelineAssumption
    <3>3. keys \subseteq SharedKey /\ keys \cap DOMAIN SetBy = {}
      BY KeyNames, Tables
    <3>4. \E q \in ReadsFrom[PluginAt(j)] : status[j][q] = "success"
      BY <1>2, <1>12, <2>3, Tables
    <3>5. \A key \in DOMAIN SetBy : PluginAt(j) # SetBy[key]
      BY <1>12, Tables
    <3>. QED  BY <1>12, <3>1, <3>2, <3>3, <3>4, <3>5, ReaderFits, Tables
  <2>. QED  BY <2>2, <2>3
<1>13. CASE PluginAt(j) \in {"code_analysis", "tracker_detection"}
  <2>1. output = IF Has(j, "jadx_output_dir")
                   THEN [status |-> "success", keys |-> {}, from |-> workspace.sources \ {None}]
                   ELSE [status |-> "skipped", keys |-> {}, from |-> {} \ {None}]
    BY <1>13 DEF Returns, CodeAnalysis, TrackerDetection, ScanSources, Success, Skipped, Out
  <2>. QED  BY <1>2, <1>3, <1>13, <2>1, ReaderFits, Tables
<1>14. CASE PluginAt(j) = "frida_instrumentation"
  <2>1. CASE ~Has(j, "package_name")
    <3>1. output = [status |-> "skipped", keys |-> {}, from |-> {} \ {None}]
      BY <1>14, <2>1 DEF Returns, FridaInstrumentation, Skipped, Out
    <3>. QED  BY <1>2, <1>14, <2>1, <3>1, ReaderFits, Tables
  <2>2. CASE Has(j, "package_name") /\ installed = None
    <3>1. output = [status |-> "failed", keys |-> {}, from |-> {} \ {None}]
      BY <1>14, <2>2 DEF Returns, FridaInstrumentation, Out
    <3>. QED  BY <1>2, <1>14, <2>2, <3>1, ReaderFits, Tables
  <2>3. CASE Has(j, "package_name") /\ installed # None
    <3>1. output = [status |-> "success", keys |-> {}, from |-> {installed} \ {None}]
      BY <1>14, <2>3 DEF Returns, FridaInstrumentation, Success, Out
    <3>. QED  BY <1>2, <1>3, <1>14, <2>3, <3>1, ReaderFits, Tables
  <2>. QED  BY <2>1, <2>2, <2>3
<1>. QED
  BY <1>1, <1>4, <1>5, <1>6, <1>7, <1>8, <1>9, <1>10, <1>11, <1>12, <1>13, <1>14 DEF Rank, UsesTool

-----------------------------------------------------------------------------
\* A step that is skipped or that goes wrong leaves everything as it was.
LEMMA QuietKeeps ==
    ASSUME PipelineInv, PipelineAssumption, NEW j \in Job, pc[j] = "step",
           NEW output, Record(j, output), Fits(j, output),
           "apktool_output_dir" \notin output.keys,
           UNCHANGED <<apk, workspace, installed, missing, replacements>>, faults' \in Nat
    PROVE  PipelineInv'
<1>1. /\ Running(j) /\ PipelineTypeOK /\ PluginAt(j) \in PluginId
      /\ workspace \in Workspace /\ installed \in Version \cup {None}
      /\ j \notin disturbed \cup overlapped => ReadableOf(j)
      /\ j \notin overlapped /\ Has(j, "apktool_output_dir") => workspace.manifest # None
  BY StepIsNew, JobFinds DEF Running, PipelineInv
<1>2. /\ shared'[j] = shared[j] \cup output.keys /\ pc'[j] \in {"step", "done"}
      /\ UNCHANGED begun
  BY <1>1, RecordChanges
<1>3. Has(j, "apktool_output_dir")' <=> Has(j, "apktool_output_dir")
  BY <1>2 DEF Has
<1>4. j \notin disturbed \cup overlapped => ReadableOf(j)'
  BY <1>1, <1>2, <1>3 DEF ReadableOf
<1>. QED  BY <1>1, <1>3, <1>4, RecordKeeps

LEMMA SkippedFits ==
    ASSUME PipelineInv, NEW j \in Job, Running(j),
           \/ PluginAt(j) \in missing
           \/ PluginAt(j) = "app_deployment" /\ ~Has(j, "package_name")
    PROVE  Fits(j, Skipped) /\ Skipped.keys = {} /\ Skipped.status = "skipped"
<1>1. Skipped = [status |-> "skipped", keys |-> {}, from |-> {} \ {None}]
  BY DEF Skipped, Out
<1>2. Has(j, "package_name") <=> status[j]["manifest_analysis"] = "success"
  BY JobFinds
<1>. QED  BY <1>1, <1>2, Tables DEF Fits

LEMMA FailedFits ==
    ASSUME NEW j \in Job
    PROVE  /\ Fits(j, Out("failed", {}, {}))
           /\ Out("failed", {}, {}).keys = {} /\ Out("failed", {}, {}).status = "failed"
BY DEF Fits, Out

LEMMA SkipKeeps ==
    ASSUME PipelineInv, PipelineAssumption, NEW j \in Job, Skip(j) \/ DeployWithoutPackage(j)
    PROVE  PipelineInv'
<1>1. /\ pc[j] = "step" /\ Running(j) /\ Record(j, Skipped)
      /\ UNCHANGED <<apk, workspace, installed, missing, replacements, faults>>
      /\ \/ PluginAt(j) \in missing
         \/ PluginAt(j) = "app_deployment" /\ ~Has(j, "package_name")
  BY DEF Skip, DeployWithoutPackage, Running
<1>2. Fits(j, Skipped) /\ Skipped.keys = {}
  BY <1>1, SkippedFits
<1>3. faults' \in Nat
  BY <1>1 DEF PipelineInv, PipelineTypeOK
<1>. QED  BY <1>1, <1>2, <1>3, QuietKeeps

LEMMA RunFailsKeeps ==
    ASSUME PipelineInv, PipelineAssumption, NEW j \in Job, RunFails(j)
    PROVE  PipelineInv'
<1>1. /\ pc[j] = "step" /\ Record(j, Out("failed", {}, {}))
      /\ UNCHANGED <<apk, workspace, installed, missing, replacements>> /\ faults' \in Nat
  BY DEF RunFails, PipelineInv, PipelineTypeOK
<1>2. Fits(j, Out("failed", {}, {})) /\ Out("failed", {}, {}).keys = {}
  BY FailedFits
<1>. QED  BY <1>1, <1>2, QuietKeeps

LEMMA RunKeeps ==
    ASSUME PipelineInv, PipelineAssumption, NEW j \in Job, Run(j)
    PROVE  PipelineInv'
<1>1. PICK output \in Returns(j, PluginAt(j)) : Record(j, output)
  BY DEF Run
<1>2. /\ pc[j] = "step" /\ Running(j) /\ PluginAt(j) \notin UsesTool
      /\ UNCHANGED <<apk, workspace, installed, missing, replacements, faults>>
  BY DEF Run, Running
<1>3. Fits(j, output)
  BY <1>2, ReturnsFit
<1>4. "apktool_output_dir" \notin output.keys
  BY <1>2, <1>3, Tables DEF Fits, UsesTool
<1>5. faults' \in Nat
  BY <1>2 DEF PipelineInv, PipelineTypeOK
<1>. QED  BY <1>1, <1>2, <1>3, <1>4, <1>5, QuietKeeps

-----------------------------------------------------------------------------
\* A program is started: apktool finds its output directory and empties it.
LEMMA BeginToolKeeps ==
    ASSUME PipelineInv, NEW j \in Job, BeginTool(j)
    PROVE  PipelineInv'
<1>1. /\ pc[j] = "step" /\ Running(j) /\ PluginAt(j) \in UsesTool
      /\ PluginAt(j) = "app_deployment" => Has(j, "package_name")
      /\ pc' = [pc EXCEPT ![j] = "tool"]
      /\ UNCHANGED <<apk, installed, missing, flow, next, shared, status,
                     basis, begun, disturbed, overlapped, replacements, faults>>
  BY DEF BeginTool, Running
<1>2. /\ PipelineTypeOK /\ PositionInv /\ workspace \in Workspace
      /\ pc \in [Job -> {"idle", "step", "tool", "done"}]
  BY DEF PipelineInv, PipelineTypeOK
<1>3. \/ PluginAt(j) # "apktool_decode" /\ workspace' = workspace
      \/ PluginAt(j) = "apktool_decode"
           /\ workspace' = [workspace EXCEPT !.decoded = {}, !.manifest = None]
  BY DEF BeginTool, Cleared
<1>4. /\ workspace' \in Workspace
      /\ workspace'.sources = workspace.sources /\ workspace'.report = workspace.report
  BY <1>2, <1>3 DEF Workspace
<1>5. pc'[j] = "tool" /\ \A i \in Job : i # j => pc'[i] = pc[i]
  BY <1>1, <1>2
<1>6. /\ \A i \in Job : Running(i)' <=> Running(i)
      /\ \A i \in Job : PluginAt(i)' = PluginAt(i) /\ Length(i)' = Length(i)
      /\ \A i \in Job : \A k \in 1..Length(i) : At(i, k)' = At(i, k)
      /\ \A i \in Job, key \in SharedKey : Has(i, key)' <=> Has(i, key)
  BY <1>1, <1>5 DEF Running, PluginAt, Length, At, Has
<1>7. PipelineTypeOK'
  BY <1>1, <1>2, <1>4 DEF PipelineTypeOK
<1>8. PositionInv'
  BY <1>1, <1>2, <1>5, <1>6, KeyNames DEF PositionInv
<1>9. RecordedInv'
  BY <1>1, <1>5, <1>6 DEF PipelineInv, RecordedInv
<1>10. KeysInv' /\ FollowedInv'
  BY <1>1, <1>6 DEF PipelineInv, KeysInv, FollowedInv, Followed, Has
<1>14. LogInv'
  BY <1>1 DEF PipelineInv, LogInv
<1>11. PluginAt(j) = "apktool_decode" => ~Has(j, "apktool_output_dir")
  <2>1. status[j][PluginAt(j)] # "success"
    BY <1>1, StepIsNew, PipelineAssumption DEF PipelineAssumption
  <2>. QED  BY <2>1, JobFinds
<1>12. AloneInv'
  <2>1. ASSUME NEW i \in Job \ overlapped, Running(i)
        PROVE  i = j /\ \A k \in Job : Running(k) => k = i
    BY <1>1, <2>1 DEF PipelineInv, AloneInv
  <2>2. j \notin overlapped /\ Has(j, "apktool_output_dir") => workspace'.manifest # None
    BY <1>1, <1>3, <1>11, JobFinds
  <2>. QED  BY <1>1, <1>6, <2>1, <2>2, KeyNames DEF AloneInv
<1>13. VersionsInv'
  <2>1. ASSUME NEW i \in Job \ (disturbed \cup overlapped)
        PROVE  basis[i] \subseteq {begun[i], DeviceLog} /\ (Running(i) => i = j)
    BY <1>1, <2>1 DEF PipelineInv, AloneInv, VersionsInv
  <2>2. ASSUME j \notin disturbed \cup overlapped
        PROVE  ReadableOf(j)'
    <3>1. ReadableOf(j)
      BY <1>1, <2>2, JobFinds
    <3>2. CASE PluginAt(j) # "apktool_decode" /\ workspace' = workspace
      BY <1>1, <1>5, <1>6, <3>1, <3>2, KeyNames DEF ReadableOf
    <3>3. CASE workspace' = [workspace EXCEPT !.decoded = {}, !.manifest = None]
      <4>1. workspace'.decoded = {} /\ workspace'.manifest = None
        BY <1>2, <3>3 DEF Workspace
      <4>. QED  BY <1>1, <1>4, <3>1, <4>1 DEF ReadableOf
    <3>. QED  BY <1>3, <3>2, <3>3
  <2>. QED  BY <1>1, <1>6, <2>1, <2>2 DEF VersionsInv
<1>. QED  BY <1>7, <1>8, <1>9, <1>10, <1>12, <1>13, <1>14 DEF PipelineInv

\* What a program may have done to the workspace when it ends: nothing of another
\* version than the APK's, and a manifest only once.
LEMMA ToolEnds ==
    ASSUME PipelineInv, PipelineAssumption, NEW j \in Job, pc[j] = "tool",
           NEW output, Record(j, output), Fits(j, output),
           UNCHANGED <<apk, missing, replacements>>, workspace' \in Workspace, faults' \in Nat,
           workspace'.decoded \subseteq workspace.decoded \cup {apk},
           workspace'.sources \subseteq workspace.sources \cup {apk},
           workspace'.report \in {workspace.report, apk, None}, installed' \in {installed, apk},
           workspace'.manifest \in {workspace.manifest, apk},
           "apktool_output_dir" \in output.keys => workspace'.manifest = apk,
           "apktool_output_dir" \in output.keys => PluginAt(j) = "apktool_decode"
    PROVE  PipelineInv'
<1>1. /\ Running(j) /\ PipelineTypeOK /\ PluginAt(j) \in PluginId /\ apk \in Version
      /\ installed \in Version \cup {None}
      /\ j \notin disturbed \cup overlapped => ReadableOf(j)
      /\ j \notin overlapped /\ Has(j, "apktool_output_dir") => workspace.manifest # None
  BY StepIsNew, JobFinds DEF Running, PipelineInv
<1>2. /\ shared'[j] = shared[j] \cup output.keys /\ pc'[j] \in {"step", "done"}
      /\ UNCHANGED begun
  BY <1>1, RecordChanges
<1>3. Has(j, "apktool_output_dir")' => Has(j, "apktool_output_dir") \/ "apktool_output_dir" \in output.keys
  BY <1>2 DEF Has
<1>4. apk # None
  BY <1>1, PipelineAssumption DEF PipelineAssumption
<1>5. j \notin overlapped /\ Has(j, "apktool_output_dir")' => workspace'.manifest # None
  BY <1>1, <1>3, <1>4
<1>6. ASSUME j \notin disturbed \cup overlapped
      PROVE  ReadableOf(j)'
  <2>1. ReadableOf(j)
    BY <1>1, <1>6
  <2>2. /\ begun'[j] = apk' /\ workspace'.sources \subseteq {apk'}
        /\ {workspace'.report, installed'} \subseteq {apk', None}
    BY <1>2, <2>1 DEF ReadableOf
  <2>3. ASSUME Has(j, "apktool_output_dir")'
        PROVE  workspace'.decoded \subseteq {apk'} /\ workspace'.manifest \in {apk', None}
    <3>1. workspace.decoded \subseteq {apk} /\ workspace.manifest \in {apk, None}
      BY <1>3, <2>1, <2>3 DEF ReadableOf
    <3>. QED  BY <3>1
  <2>. QED  BY <1>2, <2>2, <2>3 DEF ReadableOf
<1>7. installed' \in Version \cup {None}
  BY <1>1
<1>. QED  BY <1>1, <1>5, <1>6, <1>7, RecordKeeps

LEMMA ToolSucceedsKeeps ==
    ASSUME PipelineInv, PipelineAssumption, NEW j \in Job, ToolSucceeds(j)
    PROVE  PipelineInv'
<1>. DEFINE output == Judged(PluginAt(j), Written(PluginAt(j)))
<1>1. /\ pc[j] = "tool" /\ Running(j) /\ Record(j, output)
      /\ workspace' = Written(PluginAt(j)) /\ installed' \in {installed, apk}
      /\ UNCHANGED <<apk, missing, replacements, faults>>
  BY DEF ToolSucceeds, Running
<1>2. PluginAt(j) \in UsesTool /\ (PluginAt(j) = "app_deployment" => Has(j, "package_name"))
  BY <1>1 DEF PipelineInv, PositionInv
<1>3. /\ workspace \in Workspace /\ apk \in Version /\ faults' \in Nat /\ apk # None
      /\ Has(j, "package_name") <=> status[j]["manifest_analysis"] = "success"
  BY <1>1, JobFinds, PipelineAssumption DEF PipelineInv, PipelineTypeOK, PipelineAssumption
<1>4. CASE PluginAt(j) = "apktool_decode"
  <2>1. workspace' = [workspace EXCEPT !.decoded = @ \cup {apk}, !.manifest = apk]
    BY <1>1, <1>4 DEF Written
  <2>2. /\ workspace' \in Workspace /\ workspace'.decoded = workspace.decoded \cup {apk}
        /\ workspace'.manifest = apk /\ workspace'.sources = workspace.sources
        /\ workspace'.report = workspace.report
    BY <1>3, <2>1 DEF Workspace
  <2>3. output = [status |-> "success", keys |-> {"apktool_output_dir"}, from |-> {} \ {None}]
    BY <1>4 DEF Judged, Success, Out
  <2>4. Fits(j, output)
    BY <1>4, <2>3, Tables, KeyNames DEF Fits
  <2>. QED  BY <1>1, <1>3, <1>4, <2>2, <2>3, <2>4, ToolEnds
<1>5. CASE PluginAt(j) = "jadx_decompile"
  <2>1. workspace' = [workspace EXCEPT !.sources = @ \cup {apk}]
    BY <1>1, <1>5 DEF Written
  <2>2. /\ workspace' \in Workspace /\ workspace'.decoded = workspace.decoded
        /\ workspace'.manifest = workspace.manifest /\ workspace'.sources = workspace.sources \cup {apk}
        /\ workspace'.report = workspace.report
    BY <1>3, <2>1 DEF Workspace
  <2>3. output = [status |-> "success", keys |-> {"jadx_output_dir"}, from |-> {} \ {None}]
    BY <1>5 DEF Judged, Success, Out
  <2>4. Fits(j, output)
    BY <1>5, <2>3, Tables, KeyNames DEF Fits
  <2>. QED  BY <1>1, <1>3, <1>5, <2>2, <2>3, <2>4, ToolEnds
<1>6. CASE PluginAt(j) = "quark_engine"
  <2>1. workspace' = [workspace EXCEPT !.report = apk]
    BY <1>1, <1>6 DEF Written
  <2>2. /\ workspace' \in Workspace /\ workspace'.decoded = workspace.decoded
        /\ workspace'.manifest = workspace.manifest /\ workspace'.sources = workspace.sources
        /\ workspace'.report = apk
    BY <1>3, <2>1 DEF Workspace
  <2>3. output = [status |-> "success", keys |-> {}, from |-> {apk} \ {None}]
    BY <1>1, <1>6, <2>2 DEF Judged, Success, Out
  <2>4. Fits(j, output)
    BY <1>3, <1>6, <2>3, VersionsAreNoLog, Tables DEF Fits
  <2>. QED  BY <1>1, <1>3, <1>6, <2>2, <2>3, <2>4, ToolEnds
<1>7. CASE PluginAt(j) = "app_deployment"
  <2>1. workspace' = workspace
    BY <1>1, <1>7 DEF Written
  <2>2. output = [status |-> "success", keys |-> {}, from |-> {apk} \ {None}]
    BY <1>7 DEF Judged, Success, Out
  <2>3. Fits(j, output)
    BY <1>2, <1>3, <1>7, <2>2, VersionsAreNoLog, Tables DEF Fits
  <2>. QED  BY <1>1, <1>3, <1>7, <2>1, <2>2, <2>3, ToolEnds
<1>. QED  BY <1>2, <1>4, <1>5, <1>6, <1>7 DEF UsesTool

LEMMA ToolFailsKeeps ==
    ASSUME PipelineInv, PipelineAssumption, NEW j \in Job, ToolFails(j)
    PROVE  PipelineInv'
<1>1. PICK files \in Partial(PluginAt(j)) :
          workspace' = files /\ Record(j, JudgedAfterFailure(PluginAt(j), files))
  BY DEF ToolFails
<1>. DEFINE output == JudgedAfterFailure(PluginAt(j), files)
<1>2. /\ pc[j] = "tool" /\ Running(j) /\ Record(j, output)
      /\ installed' \in {installed, apk} /\ UNCHANGED <<apk, missing, replacements>>
  BY <1>1 DEF ToolFails, Running
<1>3. PluginAt(j) \in UsesTool
  BY <1>2 DEF PipelineInv, PositionInv
<1>4. /\ workspace \in Workspace /\ apk \in Version /\ faults' \in Nat
      /\ workspace.report \in Version \cup {None}
      /\ j \notin disturbed \cup overlapped => workspace.report \in {apk, None}
  <2>1. j \notin disturbed \cup overlapped => ReadableOf(j)
    BY <1>2, JobFinds
  <2>. QED  BY <2>1, JobFinds DEF ToolFails, PipelineInv, PipelineTypeOK, ReadableOf
<1>5. /\ workspace' \in Workspace /\ workspace'.decoded \subseteq workspace.decoded \cup {apk}
      /\ workspace'.sources \subseteq workspace.sources \cup {apk}
      /\ workspace'.manifest = workspace.manifest /\ workspace'.report \in {workspace.report, None}
  <2>1. \/ workspace' = workspace
        \/ workspace' = [workspace EXCEPT !.decoded = @ \cup {apk}]
        \/ workspace' = [workspace EXCEPT !.sources = @ \cup {apk}]
        \/ workspace' = [workspace EXCEPT !.report = None]
    BY <1>1, <1>3 DEF Partial, UsesTool
  <2>2. CASE workspace' = workspace
    BY <1>4, <2>2 DEF Workspace
  <2>3. CASE workspace' = [workspace EXCEPT !.decoded = @ \cup {apk}]
    BY <1>4, <2>3 DEF Workspace
  <2>4. CASE workspace' = [workspace EXCEPT !.sources = @ \cup {apk}]
    BY <1>4, <2>4 DEF Workspace
  <2>5. CASE workspace' = [workspace EXCEPT !.report = None]
    BY <1>4, <2>5 DEF Workspace
  <2>. QED  BY <2>1, <2>2, <2>3, <2>4, <2>5
<1>6. CASE PluginAt(j) = "jadx_decompile" /\ files.sources # {}
  <2>1. output = [status |-> "success", keys |-> {"jadx_output_dir"}, from |-> {} \ {None}]
    BY <1>6 DEF JudgedAfterFailure, Success, Out
  <2>2. Fits(j, output)
    BY <1>6, <2>1, Tables, KeyNames DEF Fits
  <2>. QED  BY <1>2, <1>4, <1>5, <2>1, <2>2, ToolEnds
<1>7. CASE PluginAt(j) = "quark_engine" /\ files.report # None
  <2>1. output = [status |-> "success", keys |-> {}, from |-> {files.report} \ {None}]
    BY <1>7 DEF JudgedAfterFailure, Success, Out
  <2>2. Fits(j, output)
    BY <1>1, <1>4, <1>5, <1>7, <2>1, VersionsAreNoLog, Tables DEF Fits
  <2>. QED  BY <1>2, <1>4, <1>5, <2>1, <2>2, ToolEnds
<1>8. CASE /\ ~(PluginAt(j) = "jadx_decompile" /\ files.sources # {})
           /\ ~(PluginAt(j) = "quark_engine" /\ files.report # None)
  <2>1. output = Out("failed", {}, {})
    BY <1>8 DEF JudgedAfterFailure
  <2>2. Fits(j, output) /\ output.keys = {}
    BY <2>1, FailedFits
  <2>. QED  BY <1>2, <1>4, <1>5, <2>2, ToolEnds
<1>. QED  BY <1>6, <1>7, <1>8

-----------------------------------------------------------------------------
LEMMA PipelineInvInit ==
    ASSUME PipelineAssumption, PipelineInit
    PROVE  PipelineInv
<1>1. PICK m \in SUBSET Optional : missing = m /\ Cardinality(m) <= MaxTroubles
  BY DEF PipelineInit
<1>2. Cardinality(m) \in Nat
  <2>1. IsFiniteSet(Optional)
    <3>1. IsFiniteSet({}) /\ \A S, x : IsFiniteSet(S) => IsFiniteSet(S \cup {x})
      BY FS_EmptySet, FS_AddElement
    <3>2. Optional = {} \cup {"apktool_decode"} \cup {"jadx_decompile"} \cup {"quark_engine"}
             \cup {"apkid_scan"} \cup {"yara_scan"} \cup {"virustotal_lookup"}
             \cup {"frida_instrumentation"}
      BY DEF Optional
    <3>. QED  BY <3>1, <3>2
  <2>. QED  BY <2>1, FS_Subset, FS_CardinalityType
<1>3. faults \in Nat /\ replacements \in Nat
  <2>1. faults = MaxTroubles - Cardinality(m) /\ MaxTroubles \in Nat
    BY <1>1, PipelineAssumption DEF PipelineInit, PipelineAssumption
  <2>2. faults \in Nat
    BY <1>1, <1>2, <2>1
  <2>. QED  BY <2>2, PipelineAssumption DEF PipelineInit, PipelineAssumption
<1>4. /\ workspace = [decoded |-> {}, manifest |-> None, sources |-> {}, report |-> None]
      /\ apk \in Version /\ installed = None /\ missing \subseteq Optional
      /\ disturbed = {} /\ overlapped = {}
  BY DEF PipelineInit
<1>5. \A j \in Job : /\ flow[j] = None /\ next[j] = 1 /\ pc[j] = "idle" /\ shared[j] = {}
                     /\ basis[j] = {} /\ begun[j] = None
                     /\ \A p \in PluginId : status[j][p] = None
  BY DEF PipelineInit
<1>6. PipelineTypeOK
  <2>1. workspace \in Workspace
    BY <1>4 DEF Workspace
  <2>2. /\ flow \in [Job -> Flow \cup {None}] /\ next \in [Job -> Nat \ {0}]
        /\ pc \in [Job -> {"idle", "step", "tool", "done"}] /\ shared \in [Job -> SUBSET SharedKey]
    BY DEF PipelineInit
  <2>3. status \in [Job -> [PluginId -> {"success", "failed", "skipped", None}]]
    BY DEF PipelineInit
  <2>4. basis \in [Job -> SUBSET Source] /\ begun \in [Job -> Version \cup {None}]
    BY DEF PipelineInit
  <2>. QED  BY <1>3, <1>4, <2>1, <2>2, <2>3, <2>4 DEF PipelineTypeOK
<1>7. \A j \in Job : ~Running(j)
  BY <1>5 DEF Running
<1>8. PositionInv /\ RecordedInv /\ AloneInv /\ VersionsInv
  BY <1>5, <1>7 DEF PositionInv, RecordedInv, AloneInv, VersionsInv
<1>9. KeysInv /\ FollowedInv
  BY <1>5, ReadersAreSteps, PipelineAssumption
     DEF KeysInv, Has, FollowedInv, Followed, PipelineAssumption
<1>10. LogInv
  BY <1>5, ReadersAreSteps, PipelineAssumption DEF LogInv, PipelineAssumption
<1>. QED  BY <1>6, <1>8, <1>9, <1>10 DEF PipelineInv

\* An analysis begins: alone, with nothing of another build about, or else it is
\* marked, and so is every other that is running.
LEMMA SubmitKeeps ==
    ASSUME PipelineInv, PipelineAssumption, NEW j \in Job, NEW f \in Flow, Submit(j, f)
    PROVE  PipelineInv'
<1>1. /\ PipelineTypeOK /\ pc[j] = "idle"
      /\ shared[j] = {} /\ basis[j] = {} /\ next[j] = 1 /\ ~Running(j)
  BY DEF Submit, PipelineInv, PositionInv, Running
<1>2. /\ pc' = [pc EXCEPT ![j] = "step"] /\ flow' = [flow EXCEPT ![j] = f]
      /\ begun' = [begun EXCEPT ![j] = apk]
      /\ UNCHANGED <<apk, workspace, installed, missing, next, shared, status, basis,
                     replacements, faults>>
  BY DEF Submit
<1>3. /\ pc \in [Job -> {"idle", "step", "tool", "done"}] /\ flow \in [Job -> Flow \cup {None}]
      /\ begun \in [Job -> Version \cup {None}] /\ apk \in Version
  BY <1>1 DEF PipelineTypeOK
<1>4. /\ pc'[j] = "step" /\ flow'[j] = f /\ begun'[j] = apk
      /\ \A i \in Job : i # j => pc'[i] = pc[i] /\ flow'[i] = flow[i] /\ begun'[i] = begun[i]
  BY <1>2, <1>3
<1>5. /\ overlapped \subseteq overlapped' /\ disturbed \subseteq disturbed'
      /\ overlapped' \subseteq Job /\ disturbed' \subseteq Job
      /\ \A i \in Job : Running(i) => i \in overlapped' /\ j \in overlapped'
      /\ j \notin disturbed' => ~Leftover(workspace.sources \cup {workspace.report, installed})
  <2>. DEFINE others == {k \in Job : Running(k)}
  <2>1. /\ overlapped' = overlapped \cup (IF others = {} THEN {} ELSE others \cup {j})
        /\ disturbed' = disturbed \cup
             (IF Leftover(workspace.sources \cup {workspace.report, installed}) THEN {j} ELSE {})
    BY DEF Submit
  <2>. QED  BY <1>1, <2>1 DEF PipelineTypeOK
<1>6. /\ \A i \in Job : i # j => (Running(i)' <=> Running(i)) /\ PluginAt(i)' = PluginAt(i)
                                  /\ Length(i)' = Length(i)
      /\ \A i \in Job : i # j => \A k \in 1..Length(i) : At(i, k)' = At(i, k)
  BY <1>2, <1>4 DEF Running, PluginAt, Length, At
<1>7. \A i \in Job : Running(i)' /\ i \notin overlapped' => i = j
  BY <1>5, <1>6
<1>8. PipelineTypeOK'
  BY <1>1, <1>2, <1>3, <1>5 DEF PipelineTypeOK
<1>9. PositionInv'
  <2>1. Length(j)' \in Nat \ {0}
    BY <1>4, WorkflowsClimb DEF Length, Climbs
  <2>2. next'[j] \in 1..Length(j)'
    BY <1>1, <1>2, <2>1
  <2>3. ASSUME NEW i \in Job, i # j
        PROVE  /\ pc'[i] = "idle" => shared'[i] = {} /\ basis'[i] = {} /\ next'[i] = 1
               /\ pc'[i] # "idle" => flow'[i] \in Flow
               /\ Running(i)' => next'[i] \in 1..Length(i)'
               /\ pc'[i] = "tool" => PluginAt(i)' \in UsesTool
               /\ pc'[i] = "tool" /\ PluginAt(i)' = "app_deployment" => Has(i, "package_name")'
    BY <1>2, <1>4, <1>6, <2>3 DEF PipelineInv, PositionInv, Has
  <2>. QED  BY <1>4, <2>2, <2>3 DEF PositionInv
<1>10. RecordedInv'
  BY <1>1, <1>2, <1>4, <1>6 DEF PipelineInv, RecordedInv
<1>11. KeysInv'
  BY <1>2 DEF PipelineInv, KeysInv, Has
<1>12. FollowedInv'
  BY <1>2, <1>5 DEF PipelineInv, FollowedInv, Followed
<1>13. AloneInv'
  <2>1. j \notin overlapped' => \A k \in Job : Running(k)' => k = j
    BY <1>5, <1>6
  <2>2. ~Has(j, "apktool_output_dir")'
    BY <1>1, <1>2 DEF Has
  <2>. QED  BY <1>7, <2>1, <2>2 DEF AloneInv
<1>14. VersionsInv'
  <2>1. ASSUME NEW i \in Job \ (disturbed' \cup overlapped'), i # j
        PROVE  basis'[i] \subseteq {begun'[i], DeviceLog} /\ ~Running(i)'
    BY <1>2, <1>4, <1>5, <1>7, <2>1 DEF PipelineInv, VersionsInv
  <2>2. ASSUME j \notin disturbed'
        PROVE  ReadableOf(j)'
    <3>1. (workspace.sources \cup {workspace.report, installed}) \subseteq {apk, None}
      BY <1>5, <2>2 DEF Leftover
    <3>2. workspace.sources \subseteq {apk}
      <4>1. workspace.sources \subseteq Version /\ None \notin Version
        BY JobFinds, PipelineAssumption DEF PipelineAssumption
      <4>. QED  BY <3>1, <4>1
    <3>3. ~Has(j, "apktool_output_dir")' /\ pc'[j] # "tool"
      BY <1>1, <1>2, <1>4 DEF Has
    <3>. QED  BY <1>2, <1>4, <3>1, <3>2, <3>3 DEF ReadableOf
  <2>. QED  BY <1>1, <1>2, <2>1, <2>2 DEF VersionsInv
<1>15. LogInv'
  BY <1>2 DEF PipelineInv, LogInv
<1>. QED  BY <1>8, <1>9, <1>10, <1>11, <1>12, <1>13, <1>14, <1>15 DEF PipelineInv

LEMMA ReplaceKeeps ==
    ASSUME PipelineInv, NEW v \in Version, Replace(v)
    PROVE  PipelineInv'
<1>1. /\ UNCHANGED <<workspace, installed, missing, flow, next, pc, shared,
                     status, basis, begun, overlapped, faults>>
      /\ apk' = v /\ disturbed' = disturbed \cup {j \in Job : Running(j)}
      /\ replacements > 0 /\ replacements' = replacements - 1
  BY DEF Replace
<1>2. PipelineTypeOK'
  BY <1>1 DEF PipelineInv, PipelineTypeOK
<1>3. PositionInv' /\ RecordedInv' /\ KeysInv' /\ FollowedInv'
  BY <1>1 DEF PipelineInv, PositionInv, RecordedInv, KeysInv, FollowedInv, Followed, Running, Has,
              PluginAt, Length, At
<1>4. AloneInv'
  BY <1>1 DEF PipelineInv, AloneInv, Running, Has
<1>5. VersionsInv'
  BY <1>1 DEF PipelineInv, VersionsInv, Running
<1>6. LogInv'
  BY <1>1 DEF PipelineInv, LogInv
<1>. QED  BY <1>2, <1>3, <1>4, <1>5, <1>6 DEF PipelineInv

LEMMA PipelineInvStep ==
    ASSUME PipelineAssumption, PipelineInv, [PipelineNext]_pipelineVars
    PROVE  PipelineInv'
<1>1. ASSUME NEW j \in Job, NEW f \in Flow, Submit(j, f) PROVE PipelineInv'
  BY <1>1, SubmitKeeps
<1>2. ASSUME NEW j \in Job, Skip(j) \/ Run(j) \/ RunFails(j) \/ BeginTool(j) \/ DeployWithoutPackage(j)
      PROVE  PipelineInv'
  BY <1>2, SkipKeeps, RunKeeps, RunFailsKeeps, BeginToolKeeps
<1>3. ASSUME NEW j \in Job, ToolSucceeds(j) \/ ToolFails(j) PROVE PipelineInv'
  BY <1>3, ToolSucceedsKeeps, ToolFailsKeeps
<1>4. ASSUME NEW v \in Version, Replace(v) PROVE PipelineInv'
  BY <1>4, ReplaceKeeps
<1>5. CASE UNCHANGED pipelineVars
  <2>1. PipelineTypeOK' /\ VersionsInv'
    BY <1>5 DEF pipelineVars, jobVars, PipelineInv, PipelineTypeOK, VersionsInv, ReadableOf, Running,
                Has, PluginAt
  <2>2. PositionInv' /\ RecordedInv' /\ KeysInv' /\ AloneInv' /\ LogInv' /\ FollowedInv'
    BY <1>5 DEF pipelineVars, jobVars, PipelineInv, PositionInv, RecordedInv, KeysInv, AloneInv,
                LogInv, FollowedInv, Followed, Running, Has, PluginAt, Length, At
  <2>. QED  BY <2>1, <2>2 DEF PipelineInv
<1>. QED  BY <1>1, <1>2, <1>3, <1>4, <1>5 DEF PipelineNext

LEMMA PipelineInvariant == PipelineSpec => []PipelineInv
<1>1. PipelineInit => PipelineInv
  BY PipelineInvInit, PipelineAssumption
<1>2. PipelineInv /\ [PipelineNext]_pipelineVars => PipelineInv'
  BY PipelineInvStep, PipelineAssumption
<1>. QED  BY <1>1, <1>2, PTL DEF PipelineSpec

(***************************************************************************)
(* For any jobs, versions and faults: an analysis that ran by itself, in a *)
(* workspace without leftovers, has findings of the APK it was started on, *)
(* of no other build, and of the device's log exactly if logcat_capture    *)
(* succeeded.                                                              *)
(***************************************************************************)
THEOREM FindingsOfTheApk == PipelineSpec => []FindingsAreOfTheApk
<1>1. PipelineInv => FindingsAreOfTheApk
  BY DEF PipelineInv, VersionsInv, LogInv, FindingsAreOfTheApk
<1>. QED  BY <1>1, PipelineInvariant, PTL

(***************************************************************************)
(* For any jobs and faults: in each of the five workflows a step with its  *)
(* tool at hand is skipped only for want of what no earlier step found.    *)
(***************************************************************************)
THEOREM DataIsFollowed == PipelineSpec => []StepsFollowTheirData
<1>1. PipelineInv => StepsFollowTheirData
  BY DEF PipelineInv, FollowedInv, Followed, StepsFollowTheirData
<1>. QED  BY <1>1, PipelineInvariant, PTL
=============================================================================
