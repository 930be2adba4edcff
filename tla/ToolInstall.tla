----------------------------- MODULE ToolInstall ----------------------------
(***************************************************************************)
(* DependencyManager.install of one tool, called by several pages on the   *)
(* threads of the pool, with the pages' buttons.  Installs of different    *)
(* tools share no file, so one tool is enough; it may be any of the kinds  *)
(* of TOOL_REGISTRY that are installed.                                    *)
(*                                                                         *)
(* A download is two halves, written one after the other into the file its *)
(* name denotes when it is opened, a half of one release unlike that of    *)
(* another.                                                                *)
(***************************************************************************)
EXTENDS BackgroundTasks

CONSTANTS
    Page,           \* pages with a row and a button for the tool
    ListPage,       \* those that also run status_all: Toolbox, Dependency Manager
    MaxRelease,     \* bound: releases upstream publishes
    MaxFailures,    \* bound: failing requests and subprocesses
    Tree,           \* the file an archive is unpacked to
    None

Released == 1..MaxRelease
Content == [1..2 -> Released \cup {None}]
Empty == [h \in 1..2 |-> None]
Whole(r) == [h \in 1..2 |-> r]
Torn(c) == c \notin {Whole(r) : r \in Released}

ASSUME InstallAssumption ==
    /\ ListPage \subseteq Page
    /\ MaxRelease \in Nat \ {0} /\ MaxFailures \in Nat
    /\ Tree \notin Task /\ None \notin Task \cup Page \cup Nat \cup {Tree} \cup Content

VARIABLES
    tool,           \* which tool
    latest,         \* newest release upstream
    failures,       \* failures still allowed
    frame,          \* task -> its place in install or status_all, and its locals
    archive,        \* archive name -> file of that name
    bytes,          \* file -> its halves
    checksum,       \* .sha256
    binary,         \* file at the tool's binary path
    metadata,       \* version of .install_metadata.json
    venv,           \* the virtualenv directory
    caller,         \* task -> page that submitted it
    status_job,     \* page -> _status_job
    button,         \* page -> what its row offers
    overlapped      \* two installs have run at once (history)

dirVars == <<archive, bytes, checksum, binary, metadata, venv>>
worldVars == <<tool, latest, failures>>
pageVars == <<caller, status_job, button>>
installVars == <<taskVars, worldVars, frame, dirVars, pageVars, overlapped>>

InstallMethod ==
    [jadx |-> "github_release", apktool |-> "github_release", frida_server |-> "github_release",
     adb |-> "direct_url", frida |-> "pip_venv"]
Suffix == [jadx |-> "zip", apktool |-> "jar", frida_server |-> "xz", adb |-> "zip", frida |-> "none"]

method == InstallMethod[tool]
\* Asset names carry the version; the vendor's URL is always the same, and what
\* is installed from it, or by pip, counts as "latest".
Unversioned == 0
ArchiveName == Released \cup {Unversioned}
NameOf(t) == IF method = "github_release" THEN frame[t].release ELSE Unversioned
File == Task \cup {Tree}

\* Local variables: the release, the file being written, sha256.
Frame(place) == [at |-> place, release |-> None, handle |-> None, digest |-> Empty]

InstallInit ==
    /\ TasksInit
    /\ tool \in DOMAIN InstallMethod /\ latest = 1 /\ failures = MaxFailures
    /\ frame = [t \in Task |-> Frame("idle")]
    /\ archive = [n \in ArchiveName |-> None] /\ bytes = [f \in File |-> Empty]
    /\ checksum = None /\ binary = None /\ metadata = None /\ venv = "none"
    /\ caller = [t \in Task |-> None] /\ status_job = [pg \in Page |-> None]
    /\ button = [pg \in Page |-> "Install"]
    /\ overlapped = FALSE

Installing(t) == frame[t].at \notin {"idle", "status", "missing", "present", "ended"}

-----------------------------------------------------------------------------
\* The pages.  Mutant: the button stays enabled.
OnInstallUnlocked(t, pg) ==
    /\ GuiIdle /\ button[pg] # "Installing..."
    /\ Run(t)
    /\ caller' = [caller EXCEPT ![t] = pg]
    /\ frame' = [frame EXCEPT ![t] = Frame("submitted")]
    /\ UNCHANGED <<worldVars, dirVars, status_job, button, overlapped>>

OnInstall(t, pg) ==
    /\ GuiIdle /\ button[pg] # "Installing..."
    /\ Run(t)
    /\ caller' = [caller EXCEPT ![t] = pg]
    /\ button' = [button EXCEPT ![pg] = "Installing..."]
    /\ frame' = [frame EXCEPT ![t] = Frame("submitted")]
    /\ UNCHANGED <<worldVars, dirVars, status_job, overlapped>>

\* refresh: the header's button, or the page being shown.
RefreshStatus(t, pg) ==
    /\ GuiIdle /\ pg \in ListPage /\ status_job[pg] = None
    /\ Run(t)
    /\ caller' = [caller EXCEPT ![t] = pg]
    /\ status_job' = [status_job EXCEPT ![pg] = t]
    /\ frame' = [frame EXCEPT ![t] = Frame("status")]
    /\ UNCHANGED <<worldVars, dirVars, button, overlapped>>

\* An analysis occupies a thread for a while.
RunAnalysis(t) ==
    /\ GuiIdle /\ SubmitAnalysis(t)
    /\ UNCHANGED <<worldVars, frame, dirVars, pageVars, overlapped>>

-----------------------------------------------------------------------------
\* The threads.
Continue(t, place) == frame' = [frame EXCEPT ![t].at = place] /\ UNCHANGED taskVars
End(t, how, place) == Settle(t, how) /\ frame' = [frame EXCEPT ![t] = Frame(place)]
Raise(t) == End(t, "error", "ended")

Fails == failures > 0 /\ failures' = failures - 1

Begin(t) ==
    /\ TakeUp(t)
    /\ IF frame[t].at = "submitted"
       THEN /\ frame' = [frame EXCEPT ![t].at = IF method = "pip_venv" THEN "venv" ELSE "query"]
            /\ overlapped' = (overlapped
                              \/ \E x \in Task \ {t} : Installing(x) /\ future[x] = "running")
       ELSE UNCHANGED <<frame, overlapped>>
    /\ UNCHANGED <<worldVars, dirVars, pageVars>>

\* The latest release and its asset; DIRECT_URL has nothing to ask.
Query(t) ==
    /\ frame[t].at = "query"
    /\ \/ Fails /\ method = "github_release" /\ Raise(t)
       \/ /\ frame' = [frame EXCEPT ![t].at = "open", ![t].release = latest]
          /\ UNCHANGED <<taskVars, failures>>
    /\ UNCHANGED <<tool, latest, dirVars, pageVars, overlapped>>

\* _download up to open(dest_path, "wb"): a new file, or the file of that name
\* emptied.  What the vendor's URL serves is decided by now.
Open(t) ==
    /\ frame[t].at = "open"
    /\ \/ Fails /\ Raise(t) /\ UNCHANGED <<archive, bytes>>
       \/ LET file == IF archive[NameOf(t)] = None THEN t ELSE archive[NameOf(t)]
          IN  /\ archive' = [archive EXCEPT ![NameOf(t)] = file]
              /\ bytes' = [bytes EXCEPT ![file] = Empty]
              /\ frame' = [frame EXCEPT
                               ![t].at = "first half", ![t].handle = file,
                               ![t].release = IF method = "direct_url" THEN latest ELSE @]
              /\ UNCHANGED <<taskVars, failures>>
    /\ UNCHANGED <<tool, latest, checksum, binary, metadata, venv, pageVars,
                   overlapped>>

WriteHalf(t, half, place, next) ==
    /\ frame[t].at = place
    /\ \/ Fails /\ Raise(t) /\ UNCHANGED bytes
       \/ /\ bytes' = [bytes EXCEPT ![frame[t].handle][half] = frame[t].release]
          /\ Continue(t, next) /\ UNCHANGED failures
    /\ UNCHANGED <<tool, latest, archive, checksum, binary, metadata,
                   venv, pageVars, overlapped>>

Download(t) ==
    WriteHalf(t, 1, "first half", "second half") \/ WriteHalf(t, 2, "second half", "hash")

\* _verify_or_record_checksum reads the archive anew, by its name.
Hash(t) ==
    /\ frame[t].at = "hash"
    /\ IF archive[NameOf(t)] = None
       THEN Raise(t)
       ELSE /\ frame' = [frame EXCEPT ![t].at = "verify", ![t].digest = bytes[archive[NameOf(t)]]]
            /\ UNCHANGED taskVars
    /\ UNCHANGED <<worldVars, dirVars, pageVars, overlapped>>

\* Mutant: only a first install is worth a look at the hash.
VerifyNothing(t) ==
    /\ frame[t].at = "verify"
    /\ Continue(t, IF checksum = None THEN "record" ELSE "extract")
    /\ UNCHANGED <<worldVars, dirVars, pageVars, overlapped>>

Verify(t) ==
    /\ frame[t].at = "verify"
    /\ IF checksum \in {None, frame[t].digest}
       THEN Continue(t, IF checksum = None THEN "record" ELSE "extract")
       ELSE Raise(t)
    /\ UNCHANGED <<worldVars, dirVars, pageVars, overlapped>>

Record(t) ==
    /\ frame[t].at = "record"
    /\ checksum' = frame[t].digest /\ Continue(t, "extract")
    /\ UNCHANGED <<worldVars, archive, bytes, binary, metadata, venv,
                   pageVars, overlapped>>

\* _extract_or_place takes the archive by its name once more.  What has no end
\* of a zip in it is no zip but a raw binary, moved like a jar, to a directory
\* that an earlier install has made.
IsRaw(file) == Suffix[tool] = "jar" \/ (Suffix[tool] = "zip" /\ bytes[file][2] = None)

Place(t, file) ==
    /\ IsRaw(file)
    /\ IF Suffix[tool] = "zip" /\ binary = None
       THEN Raise(t) /\ UNCHANGED <<archive, binary>>
       ELSE /\ binary' = file
            /\ archive' = [archive EXCEPT ![NameOf(t)] = None]
            /\ Continue(t, "metadata")
    /\ UNCHANGED bytes

\* A damaged member raises, before or after the binary has been written.
Unpack(t, file) ==
    /\ ~IsRaw(file)
    /\ IF Torn(bytes[file])
       THEN /\ \/ binary' = Tree /\ bytes' = [bytes EXCEPT ![Tree] = bytes[file]]
               \/ Suffix[tool] = "zip" /\ UNCHANGED <<binary, bytes>>
            /\ Raise(t) /\ UNCHANGED archive
       ELSE /\ binary' = Tree
            /\ bytes' = [bytes EXCEPT ![Tree] = bytes[file]]
            /\ archive' = [archive EXCEPT ![NameOf(t)] = None]    \* unlinked
            /\ Continue(t, "metadata")

Extract(t) ==
    /\ frame[t].at = "extract"
    /\ LET file == archive[NameOf(t)]
       IN  \/ file = None /\ Raise(t) /\ UNCHANGED <<archive, binary, bytes>>
           \/ file # None /\ (Place(t, file) \/ Unpack(t, file))
    /\ UNCHANGED <<worldVars, checksum, metadata, venv, pageVars,
                   overlapped>>

WriteMetadata(t) ==
    /\ frame[t].at = "metadata"
    /\ metadata' = NameOf(t)
    /\ End(t, "result", "ended")
    /\ UNCHANGED <<worldVars, archive, bytes, checksum, binary, venv,
                   pageVars, overlapped>>

\* venv_dir.exists() decides whether the virtualenv is made; python -m venv
\* creates the directory first.
CreateVenv(t) ==
    /\ \/ /\ frame[t].at = "venv"
          /\ IF venv = "none" THEN venv' = "half" /\ Continue(t, "venv made")
                              ELSE UNCHANGED venv /\ Continue(t, "pip")
          /\ UNCHANGED failures
       \/ /\ frame[t].at = "venv made"
          /\ \/ venv' = "ready" /\ Continue(t, "pip") /\ UNCHANGED failures
             \/ Fails /\ Raise(t) /\ UNCHANGED venv
    /\ UNCHANGED <<tool, latest, archive, bytes, checksum, binary,
                   metadata, pageVars, overlapped>>

\* A half-made virtualenv has no interpreter yet, or no pip.
PipInstall(t) ==
    /\ frame[t].at = "pip"
    /\ \/ /\ venv = "ready"
          /\ binary' = Tree /\ bytes' = [bytes EXCEPT ![Tree] = Whole(latest)]
          /\ Continue(t, "metadata") /\ UNCHANGED failures
       \/ venv = "ready" /\ Fails /\ Raise(t) /\ UNCHANGED <<binary, bytes>>
       \/ venv = "half" /\ Raise(t) /\ UNCHANGED <<failures, binary, bytes>>
    /\ UNCHANGED <<tool, latest, archive, checksum, metadata,
                   venv, pageVars, overlapped>>

\* status_all: is there a file at the binary path?
Installed == binary # None

ReadStatus(t) ==
    /\ frame[t].at = "status" /\ future[t] = "running"
    /\ End(t, "result", IF Installed THEN "present" ELSE "missing")
    /\ UNCHANGED <<worldVars, dirVars, pageVars, overlapped>>

EndAnalysis(t) ==
    /\ frame[t].at = "idle" /\ \E how \in {"result", "error"} : Settle(t, how)
    /\ UNCHANGED <<worldVars, frame, dirVars, pageVars, overlapped>>

Publish ==
    /\ latest < MaxRelease
    /\ latest' = latest + 1
    /\ UNCHANGED <<taskVars, tool, failures, frame, dirVars, pageVars, overlapped>>

-----------------------------------------------------------------------------
\* The button of a row: apply_status, and set_failed.
ButtonOf(installed) == IF installed THEN "Reinstall" ELSE "Install"
FailedButton == "Retry Install"

\* The slots of finished and failed: a status_all overwrites the row whatever
\* the row is waiting for.
ShowStatus(t, pg) ==
    /\ frame[t].at \in {"missing", "present"}
    /\ status_job' = [status_job EXCEPT ![pg] = None]
    /\ button' = [button EXCEPT ![pg] = ButtonOf(frame[t].at = "present")]

\* Mutant: only failures give the button back.
ShowFailure(t, pg) ==
    /\ frame[t].at = "ended"
    /\ button' = [button EXCEPT ![pg] = IF future[t] = "result" THEN @ ELSE FailedButton]
    /\ UNCHANGED status_job

ShowInstall(t, pg) ==
    /\ frame[t].at = "ended"
    /\ button' = [button EXCEPT ![pg] = IF future[t] = "result" THEN ButtonOf(TRUE)
                                                             ELSE FailedButton]
    /\ UNCHANGED status_job

AnswerPage(t) ==
    /\ PollAnswer(t)
    /\ ShowStatus(t, caller[t]) \/ ShowInstall(t, caller[t])
    /\ UNCHANGED <<worldVars, frame, dirVars, caller, overlapped>>

PollRest ==
    /\ PollBegin \/ PollEnd \/ \E t \in Task : PollSkip(t)
    /\ UNCHANGED <<worldVars, frame, dirVars, pageVars, overlapped>>

-----------------------------------------------------------------------------
Thread(t) ==
    \/ Begin(t)
    \/ Query(t) \/ Open(t) \/ Download(t) \/ Hash(t) \/ Verify(t) \/ Record(t)
    \/ Extract(t) \/ WriteMetadata(t)
    \/ CreateVenv(t) \/ PipInstall(t)
    \/ ReadStatus(t) \/ EndAnalysis(t)
Poll == PollRest \/ \E t \in Task : AnswerPage(t)

InstallNext ==
    \/ \E t \in Task, pg \in Page : OnInstall(t, pg) \/ RefreshStatus(t, pg)
    \/ \E t \in Task : RunAnalysis(t) \/ Thread(t)
    \/ Poll \/ Publish

InstallSpec == InstallInit /\ [][InstallNext]_installVars

\* Requests and subprocesses have timeouts, the timer fires while it is active.
InstallFairSpec ==
    InstallSpec /\ WF_installVars(Poll) /\ \A t \in Task : WF_installVars(Thread(t))

-----------------------------------------------------------------------------
InstallTypeOK ==
    /\ TasksTypeOK
    /\ tool \in DOMAIN InstallMethod /\ latest \in Released /\ failures \in 0..MaxFailures
    /\ \A t \in Task :
          /\ frame[t].release \in Released \cup {None} /\ frame[t].handle \in Task \cup {None}
          /\ frame[t].digest \in Content
    /\ archive \in [ArchiveName -> Task \cup {None}]
    /\ bytes \in [File -> Content] /\ checksum \in Content \cup {None}
    /\ binary \in File \cup {None} /\ metadata \in ArchiveName \cup {None}
    /\ venv \in {"none", "half", "ready"}
    /\ caller \in [Task -> Page \cup {None}] /\ status_job \in [Page -> Task \cup {None}]
    /\ button \in [Page -> {"Install", "Installing...", "Reinstall", "Retry Install"}]

Unanswered(t) == t \in pending /\ answers[t] = <<>>
InstallOf(t, pg) == caller[t] = pg /\ (Installing(t) \/ frame[t].at = "ended")

(***************************************************************************)
(* The slots and the buttons: a row that says "Installing..." is waiting   *)
(* for an install of its page that is yet to be answered.  Where no status *)
(* job can overwrite the row (the Settings page), an install yet to be     *)
(* answered locks the button, so there is never a second one.              *)
(***************************************************************************)
RowFollowsInstall ==
    \A pg \in Page :
        LET waiting == {t \in Task : InstallOf(t, pg) /\ Unanswered(t)}
        IN  /\ button[pg] = "Installing..." => waiting # {}
            /\ pg \notin ListPage => /\ waiting # {} => button[pg] = "Installing..."
                                     /\ Cardinality(waiting) <= 1

(***************************************************************************)
(* Trust on first install: as long as no two installs have run at once,    *)
(* what has been downloaded to the binary path is whole and is what .sha256*)
(* was recorded for, and between installs the metadata name its release.   *)
(***************************************************************************)
SoloInstallsAreSound ==
    ~overlapped /\ binary # None /\ method # "pip_venv" =>
        /\ bytes[binary] = checksum /\ ~Torn(checksum)
        /\ method = "github_release" /\ (\A t \in Task : ~Installing(t))
               => bytes[binary] = Whole(metadata)

(***************************************************************************)
(* install raises only with a cause: a request or a subprocess failed, the *)
(* release upstream is not the first one, or two installs ran at once.  In *)
(* particular nothing an install leaves behind makes a reinstall fail.     *)
(***************************************************************************)
FailureHasCause ==
    (\E t \in Task : frame[t].at = "ended" /\ future[t] = "error") =>
        overlapped \/ failures < MaxFailures \/ latest > 1

(***************************************************************************)
(* An install ends in a sound tool or in an error with a cause.            *)
(***************************************************************************)
InstallsAreSound == InstallTypeOK /\ SoloInstallsAreSound /\ FailureHasCause

(***************************************************************************)
(* Every job handed to the runner is answered, and every button comes back.*)
(***************************************************************************)
EveryTaskAnswered == \A t \in Task : t \in pending ~> t \notin pending
EveryButtonReturns ==
    \A pg \in Page : button[pg] = "Installing..." ~> button[pg] # "Installing..."
EverythingReturns == EveryTaskAnswered /\ EveryButtonReturns
=============================================================================
