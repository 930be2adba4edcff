-------------------------- MODULE ToolInstallProofs -------------------------
(***************************************************************************)
(* The installs and the pages are one set of tasks BackgroundTaskRunner    *)
(* answers; installs that do not overlap are sound, for any number of      *)
(* tasks, pages, releases and failures.                                    *)
(***************************************************************************)
EXTENDS ToolInstall, BackgroundTasksProofs, FiniteSetTheorems

\* Where a call is in its download, or in its virtualenv.
Loading == {"query", "open", "first half", "second half", "hash", "verify", "record", "extract"}
Loaded == {"hash", "verify", "record", "extract"}
Making == {"venv", "venv made", "pip"}
Unopened == {"idle", "submitted", "query", "open"}
MidPlaces == Loading \cup Making \cup {"metadata"}
Status == {"status", "missing", "present"}
Places == MidPlaces \cup Status \cup {"idle", "submitted", "ended"}
Frames ==
    [at : Places, release : Released \cup {None}, handle : Task \cup {None}, digest : Content]
Mid(t) == frame[t].at \in MidPlaces
Published == 1..latest

\* Where a call is tells how far its future is, whose it is and what it has.
PlaceOf(t) ==
    /\ future[t] = "none" => frame[t].at = "idle"
    /\ frame[t].at = "submitted" => future[t] = "queued"
    /\ frame[t].at = "status" => future[t] \in {"queued", "running"}
    /\ Mid(t) => future[t] = "running"
    /\ frame[t].at \in {"missing", "present", "ended"} => Done(t)
    /\ frame[t].at # "idle" => caller[t] \in Page
    /\ frame[t].at \in Status => caller[t] \in ListPage
    /\ frame[t].at \in Loading => method # "pip_venv"
    /\ frame[t].at \in Making => method = "pip_venv"
    /\ frame[t].release \in Published \cup {None}
    /\ frame[t].at \in Loading \cup {"metadata"} /\ frame[t].at # "query" =>
          method = "pip_venv" \/ frame[t].release \in Published
FramesInv == frame \in [Task -> Frames] /\ \A t \in Task : PlaceOf(t)

\* One install at a time: what it has downloaded so far.
Progress(t) ==
    /\ frame[t].at \in Unopened => binary # t /\ \A n \in ArchiveName : archive[n] # t
    /\ frame[t].at \in {"first half", "second half"} \cup Loaded =>
          frame[t].handle # None /\ archive[NameOf(t)] = frame[t].handle
    /\ frame[t].at = "second half" => bytes[frame[t].handle][1] = frame[t].release
    /\ frame[t].at \in Loaded => bytes[frame[t].handle] = Whole(frame[t].release)
    /\ frame[t].at \in {"verify", "record", "extract"} => frame[t].digest = Whole(frame[t].release)
    /\ frame[t].at = "record" => checksum = None
    /\ frame[t].at = "extract" => checksum = frame[t].digest
    /\ frame[t].at = "metadata" /\ method # "pip_venv" =>
          binary # None /\ bytes[binary] = Whole(frame[t].release)

\* The directory of the tool between two steps of the only install.
DirectoryInv ==
    /\ \A n \in ArchiveName : archive[n] # None =>
          archive[n] # binary /\ \A m \in ArchiveName : archive[m] = archive[n] => m = n
    /\ checksum # None => \E r \in Published : checksum = Whole(r)
    /\ binary # None /\ method # "pip_venv" => bytes[binary] = checksum
    /\ binary # None /\ method = "github_release" /\ (\A t \in Task : frame[t].at # "metadata") =>
          bytes[binary] = Whole(metadata)
    /\ venv = "half" => failures < MaxFailures \/ \E t \in Task : frame[t].at = "venv made"
SoloInv ==
    ~overlapped =>
        /\ \A t, u \in Task : Mid(t) /\ Mid(u) => t = u
        /\ \A t \in Task : Progress(t)
        /\ DirectoryInv

\* A row that waits, and of a page without a status job only one at a time.
RowsInv ==
    /\ \A pg \in Page : button[pg] = "Installing..." =>
          \E t \in Task : InstallOf(t, pg) /\ Unanswered(t)
    /\ \A t, u \in Task : \A pg \in Page \ ListPage : InstallOf(t, pg) /\ Unanswered(t) =>
          /\ button[pg] = "Installing..."
          /\ InstallOf(u, pg) /\ Unanswered(u) => t = u

InstallInv ==
    TasksInv /\ InstallTypeOK /\ FramesInv /\ SoloInv /\ RowsInv /\ FailureHasCause

-----------------------------------------------------------------------------
\* A step of an install does to the pool what a step of some task does.
LEMMA ThreadIsTask ==
    ASSUME NEW t \in Task, Thread(t)
    PROVE  TasksNext \/ UNCHANGED taskVars
<1>1. \/ TakeUp(t) \/ Settle(t, "result") \/ Settle(t, "error") \/ UNCHANGED taskVars
  BY DEF Thread, Begin, Query, Open, Download, WriteHalf, Hash, Verify, Record, Extract, Place,
         Unpack, WriteMetadata, CreateVenv, PipInstall, ReadStatus, EndAnalysis, Continue, End,
         Raise
<1>. QED  BY <1>1 DEF TasksNext

LEMMA InstallIsTasks == [InstallNext]_installVars => [TasksNext]_taskVars
<1>. SUFFICES ASSUME [InstallNext]_installVars PROVE TasksNext \/ UNCHANGED taskVars
  OBVIOUS
<1>1. ASSUME NEW t \in Task, NEW pg \in Page, OnInstall(t, pg) \/ RefreshStatus(t, pg)
      PROVE  TasksNext
  BY <1>1 DEF OnInstall, RefreshStatus, TasksNext
<1>2. ASSUME NEW t \in Task, RunAnalysis(t)
      PROVE  TasksNext
  BY <1>2 DEF RunAnalysis, TasksNext
<1>3. CASE Poll
  BY <1>3 DEF Poll, PollRest, AnswerPage, TasksNext
<1>4. CASE Publish \/ UNCHANGED installVars
  BY <1>4 DEF Publish, installVars
<1>. QED  BY <1>1, <1>2, <1>3, <1>4, ThreadIsTask DEF InstallNext

(***************************************************************************)
(* The pages and the installs use the runner as BackgroundTasks says: what *)
(* a step of theirs does to the pool and the poll is a step of some task.  *)
(***************************************************************************)
THEOREM InstallUsesTasks == InstallSpec => TasksSpec
<1>1. InstallInit => TasksInit
  BY DEF InstallInit
<1>. QED  BY <1>1, InstallIsTasks, PTL DEF InstallSpec, TasksSpec

(***************************************************************************)
(* Whatever the installs do, a page is told of the end of its install, or  *)
(* of its status_all, at most once, and until then _poll still looks at it.*)
(***************************************************************************)
THEOREM InstallsAnsweredOnce == InstallSpec => []AnsweredOnce
BY InstallUsesTasks, TasksAnsweredOnce
-----------------------------------------------------------------------------
\* What of the installer a thread can change, and what it leaves alone.
DirectoryOK ==
    /\ failures \in 0..MaxFailures
    /\ archive \in [ArchiveName -> Task \cup {None}]
    /\ bytes \in [File -> Content] /\ checksum \in Content \cup {None}
    /\ binary \in File \cup {None} /\ metadata \in ArchiveName \cup {None}
    /\ venv \in {"none", "half", "ready"}

ThreadStep(t, rec) ==
    /\ frame' = [frame EXCEPT ![t] = rec]
    /\ \A u \in Task : u # t => future'[u] = future[u]
    /\ failures' <= failures
    /\ UNCHANGED <<tool, latest, pageVars, pending, answers>>

Cause == overlapped \/ failures < MaxFailures \/ latest > 1

\* No install.
Aside == {"idle", "status", "missing", "present"}

\* What a step leaves alone of a call, and of what the call goes by.
LEMMA SamePlace ==
    ASSUME NEW t \in Task, PlaceOf(t), frame'[t] = frame[t], future'[t] = future[t],
           caller'[t] = caller[t], UNCHANGED <<tool, latest>>
    PROVE  PlaceOf(t)'
<1>1. Published' = Published /\ method' = method
  BY DEF Published, method
<1>. QED  BY <1>1 DEF PlaceOf, Mid, Done

LEMMA SameProgress ==
    ASSUME NEW t \in Task, Progress(t), frame'[t] = frame[t], tool' = tool,
           UNCHANGED <<archive, bytes, checksum, binary>>
    PROVE  Progress(t)'
<1>1. NameOf(t)' = NameOf(t) /\ method' = method
  BY DEF NameOf, method
<1>. QED  BY <1>1 DEF Progress

LEMMA Methods ==
    ASSUME InstallTypeOK
    PROVE  method \in {"github_release", "direct_url", "pip_venv"}
<1>1. tool \in {"jadx", "apktool", "frida_server", "adb", "frida"}
  BY DEF InstallTypeOK, InstallMethod
<1>. QED  BY <1>1 DEF method, InstallMethod

LEMMA FramesTyped ==
    ASSUME InstallAssumption
    PROVE  /\ Empty \in Content /\ \A r \in Released : Whole(r) \in Content
           /\ \A place \in Places : Frame(place) \in Frames /\ Frame(place).at = place
                                    /\ Frame(place).release = None
<1>1. Empty \in Content /\ \A r \in Released : Whole(r) \in Content
  BY DEF Empty, Whole, Content
<1>. QED  BY <1>1 DEF Frame, Frames

\* A thread's step disturbs the place, the directory and the cause of a failure only.
LEMMA ThreadKeeps ==
    ASSUME InstallInv, InstallAssumption, TasksInv', NEW t \in Task, NEW rec \in Frames,
           ThreadStep(t, rec), PlaceOf(t)', DirectoryOK',
           rec.at \in Aside <=> frame[t].at \in Aside,
           overlapped => overlapped', SoloInv',
           rec.at = "ended" /\ future'[t] = "error" => Cause'
    PROVE  InstallInv'
<1>1. /\ frame \in [Task -> Frames] /\ InstallTypeOK /\ \A u \in Task : PlaceOf(u)
  BY DEF InstallInv, FramesInv
<1>2. /\ frame'[t] = rec /\ \A u \in Task : u # t => frame'[u] = frame[u] /\ future'[u] = future[u]
      /\ frame' \in [Task -> Frames]
      /\ failures' <= failures
      /\ UNCHANGED <<tool, latest, caller, status_job, button, pending, answers>>
  BY <1>1 DEF ThreadStep, pageVars
<1>3. FramesInv'
  <2>1. ASSUME NEW u \in Task, u # t PROVE PlaceOf(u)'
    BY <1>1, <1>2, <2>1, SamePlace
  <2>. QED  BY <1>2, <2>1 DEF FramesInv
<1>4. InstallTypeOK'
  <2>1. \A u \in Task : frame'[u] \in Frames
    BY <1>2
  <2>. QED  BY <1>1, <1>2, <2>1 DEF InstallTypeOK, DirectoryOK, TasksInv, Frames
<1>5. \A u \in Task, pg \in Page : InstallOf(u, pg)' <=> InstallOf(u, pg)
  <2>1. \A u \in Task, pg \in Page : InstallOf(u, pg) <=> caller[u] = pg /\ frame[u].at \notin Aside
    BY DEF InstallOf, Installing, Aside
  <2>2. \A u \in Task, pg \in Page :
            InstallOf(u, pg)' <=> caller'[u] = pg /\ frame'[u].at \notin Aside
    BY DEF InstallOf, Installing, Aside
  <2>. QED  BY <1>2, <2>1, <2>2
<1>6. RowsInv'
  <2>1. \A u \in Task : Unanswered(u)' <=> Unanswered(u)
    BY <1>2 DEF Unanswered
  <2>. QED  BY <1>2, <1>5, <2>1 DEF InstallInv, RowsInv
<1>7. FailureHasCause'
  <2>1. CASE frame'[t].at = "ended" /\ future'[t] = "error"
    BY <1>2, <2>1 DEF FailureHasCause, Cause
  <2>2. ASSUME NEW u \in Task, u # t, frame'[u].at = "ended", future'[u] = "error"
        PROVE  Cause'
    <3>1. Cause
      BY <1>2, <2>2 DEF InstallInv, FailureHasCause, Cause
    <3>2. failures \in 0..MaxFailures /\ failures' \in 0..MaxFailures /\ MaxFailures \in Nat
      BY <1>1, <1>4 DEF InstallTypeOK, InstallAssumption
    <3>. QED  BY <1>2, <3>1, <3>2 DEF Cause
  <2>. QED  BY <2>1, <2>2 DEF FailureHasCause, Cause
<1>. QED  BY <1>3, <1>4, <1>6, <1>7, TasksInv' DEF InstallInv

\* The step of the only install: the others have no file yet.
LEMMA SoloKeeps ==
    ASSUME SoloInv, NEW t \in Task, Mid(t), NEW rec, frame \in [Task -> Frames],
           frame' = [frame EXCEPT ![t] = rec], tool' = tool,
           overlapped' = overlapped,
           ~overlapped => /\ \A u \in Task \ {t} : Progress(u) /\ frame[u].at \in Unopened =>
                                 binary' # u /\ \A n \in ArchiveName : archive'[n] # u
                          /\ Progress(t)' /\ DirectoryInv'
    PROVE  SoloInv'
<1>. SUFFICES ASSUME ~overlapped
              PROVE  /\ \A u, v \in Task : Mid(u)' /\ Mid(v)' => u = v
                     /\ \A u \in Task : Progress(u)'
  BY DEF SoloInv
<1>1. \A u \in Task : u # t => frame'[u] = frame[u] /\ ~Mid(u) /\ Progress(u)
  BY DEF SoloInv
<1>2. \A u \in Task : u # t => ~Mid(u)'
  BY <1>1 DEF Mid
<1>3. ASSUME NEW u \in Task, u # t PROVE Progress(u)'
  <2>1. frame'[u].at \notin MidPlaces /\ frame'[u] = frame[u]
    BY <1>1, <1>2, <1>3 DEF Mid
  <2>2. frame'[u].at \in Unopened => binary' # u /\ \A n \in ArchiveName : archive'[n] # u
    BY <1>1, <1>3, <2>1
  <2>. QED  BY <2>1, <2>2 DEF Progress, MidPlaces, Loading, Loaded
<1>. QED  BY <1>2, <1>3

LEMMA Lower ==
    ASSUME NEW n \in Nat, NEW k \in 0..n, NEW l \in 0..n, l <= k, k < n
    PROVE  l < n
OBVIOUS

\* A call goes on.
LEMMA AdvanceKeeps ==
    ASSUME InstallInv, InstallAssumption, TasksInv', NEW t \in Task, NEW rec \in Frames,
           Mid(t), ThreadStep(t, rec), UNCHANGED <<future, overlapped>>, DirectoryOK',
           rec.at \in MidPlaces,
           rec.at \in Loading => method # "pip_venv",
           rec.at \in Making => method = "pip_venv",
           rec.release \in Published \cup {None},
           rec.at # "query" /\ method # "pip_venv" => rec.release \in Published,
           ~overlapped => /\ \A u \in Task \ {t} : Progress(u) /\ frame[u].at \in Unopened =>
                                 binary' # u /\ \A n \in ArchiveName : archive'[n] # u
                          /\ Progress(t)' /\ DirectoryInv'
    PROVE  InstallInv'
<1>1. /\ frame \in [Task -> Frames] /\ InstallTypeOK /\ PlaceOf(t) /\ SoloInv
  BY DEF InstallInv, FramesInv
<1>2. /\ frame' = [frame EXCEPT ![t] = rec] /\ frame'[t] = rec
      /\ UNCHANGED <<tool, latest, caller>>
  BY <1>1 DEF ThreadStep, pageVars
<1>3. future[t] = "running" /\ caller[t] \in Page
  BY <1>1 DEF PlaceOf, Mid, MidPlaces, Loading, Making
<1>4. PlaceOf(t)'
  BY <1>2, <1>3 DEF PlaceOf, Mid, MidPlaces, Loading, Making, Status, Published, method, Done
<1>5. SoloInv'
  BY <1>1, <1>2, SoloKeeps
<1>6. rec.at \notin Aside /\ frame[t].at \notin Aside /\ rec.at # "ended"
  BY DEF Aside, Mid, MidPlaces, Loading, Making
<1>. QED  BY <1>4, <1>5, <1>6, ThreadKeeps

\* A call raises.  If it is the only one it has a cause and leaves everything as it is.
LEMMA RaiseKeeps ==
    ASSUME InstallInv, InstallAssumption, TasksInv', NEW t \in Task,
           Mid(t), frame[t].at # "metadata", Raise(t), failures' <= failures,
           UNCHANGED <<tool, latest, pageVars, overlapped>>, DirectoryOK',
           ~overlapped => /\ UNCHANGED dirVars
                          /\ failures' < MaxFailures \/ (latest > 1 /\ frame[t].at # "venv made")
    PROVE  InstallInv'
<1>1. /\ frame \in [Task -> Frames] /\ InstallTypeOK /\ PlaceOf(t) /\ SoloInv /\ TasksTypeOK
  BY DEF InstallInv, FramesInv, TasksInv
<1>2. PICK rec \in Frames : rec = Frame("ended") /\ rec.at = "ended" /\ rec.release = None
  BY FramesTyped DEF Places
<1>3. /\ frame' = [frame EXCEPT ![t] = rec] /\ frame'[t] = rec
      /\ future' = [future EXCEPT ![t] = "error"]
      /\ UNCHANGED <<tool, latest, caller, pending, answers>>
  BY <1>1, <1>2 DEF Raise, End, Settle, pageVars, historyVars
<1>4. ThreadStep(t, rec)
  BY <1>1, <1>3 DEF ThreadStep, TasksTypeOK
<1>5. PlaceOf(t)'
  <2>1. future'[t] = "error" /\ caller[t] \in Page
    BY <1>1, <1>3 DEF TasksTypeOK, PlaceOf, Mid, MidPlaces, Loading, Making
  <2>. QED  BY <1>2, <1>3, <2>1
            DEF PlaceOf, Mid, MidPlaces, Loading, Making, Status, Published, Done
<1>6. SoloInv'
  <2>1. ASSUME ~overlapped
        PROVE  /\ \A u \in Task \ {t} : Progress(u) /\ frame[u].at \in Unopened =>
                      binary' # u /\ \A n \in ArchiveName : archive'[n] # u
               /\ Progress(t)' /\ DirectoryInv'
    <3>1. UNCHANGED <<archive, bytes, checksum, binary, metadata, venv>>
      BY <2>1 DEF dirVars
    <3>2. \A u \in Task \ {t} : Progress(u) /\ frame[u].at \in Unopened =>
              binary' # u /\ \A n \in ArchiveName : archive'[n] # u
      BY <3>1 DEF Progress
    <3>3. Progress(t)'
      BY <1>2, <1>3 DEF Progress, Loaded, Unopened
    <3>4. \A u \in Task : u # t => ~Mid(u)
      BY <1>1, <2>1 DEF SoloInv
    <3>5. \A u \in Task : frame[u].at # "metadata"
      BY <3>4 DEF Mid, MidPlaces
    <3>6. venv = "half" => failures' < MaxFailures \/ \E u \in Task : frame'[u].at = "venv made"
      <4>1. venv = "half" => failures < MaxFailures \/ \E u \in Task : frame[u].at = "venv made"
        BY <1>1, <2>1 DEF SoloInv, DirectoryInv
      <4>2. ASSUME NEW u \in Task, frame[u].at = "venv made" PROVE u = t
        BY <3>4, <4>2 DEF Mid, MidPlaces, Making
      <4>3. frame[t].at = "venv made" => failures' < MaxFailures
        BY <2>1
      <4>4. failures < MaxFailures => failures' < MaxFailures
        <5>1. failures \in 0..MaxFailures /\ failures' \in 0..MaxFailures /\ MaxFailures \in Nat
          BY <1>1 DEF InstallTypeOK, DirectoryOK, InstallAssumption
        <5>. QED  BY <5>1, Lower
      <4>. QED  BY <4>1, <4>2, <4>3, <4>4
    <3>7. DirectoryInv'
      <4>1. DirectoryInv
        BY <1>1, <2>1 DEF SoloInv
      <4>. QED  BY <1>3, <3>1, <3>5, <3>6, <4>1 DEF DirectoryInv, Published, method
    <3>. QED  BY <3>2, <3>3, <3>7
  <2>. QED  BY <1>1, <1>3, <2>1, SoloKeeps
<1>7. Cause'
  BY DEF Cause
<1>8. rec.at \notin Aside /\ frame[t].at \notin Aside
  BY <1>2 DEF Aside, Mid, MidPlaces, Loading, Making
<1>. QED  BY <1>4, <1>5, <1>6, <1>7, <1>8, ThreadKeeps

Moves(t, place, rec) ==
    /\ ThreadStep(t, rec) /\ rec = frame'[t] /\ rec.at = place
    /\ rec.release = frame[t].release /\ rec.handle = frame[t].handle
    /\ rec.digest = frame[t].digest
    /\ UNCHANGED <<future, pending, answers>>
    /\ \A u \in Task : u # t => frame'[u] = frame[u]

LEMMA Continued ==
    ASSUME frame \in [Task -> Frames], NEW t \in Task, NEW place \in Places, Continue(t, place),
           failures' <= failures, UNCHANGED <<tool, latest, pageVars>>
    PROVE  \E rec \in Frames : Moves(t, place, rec)
<1>1. UNCHANGED <<future, pending, answers>>
  BY DEF Continue, taskVars, poolVars, historyVars
<1>2. frame' = [frame EXCEPT ![t] = [frame[t] EXCEPT !.at = place]]
  BY DEF Continue
<1>3. frame[t] \in Frames
  OBVIOUS
<1>4. [frame[t] EXCEPT !.at = place] \in Frames
  BY <1>3 DEF Frames
<1>5. ThreadStep(t, [frame[t] EXCEPT !.at = place])
  BY <1>1, <1>2 DEF ThreadStep
<1>6. Moves(t, place, [frame[t] EXCEPT !.at = place])
  BY <1>1, <1>2, <1>3, <1>5 DEF Frames, Moves
<1>. QED  BY <1>4, <1>6

LEMMA FailsLess ==
    ASSUME InstallAssumption, DirectoryOK, Fails
    PROVE  failures' \in 0..MaxFailures /\ failures' <= failures /\ failures' < MaxFailures
<1>1. failures \in 0..MaxFailures /\ MaxFailures \in Nat /\ failures > 0 /\ failures' = failures - 1
  BY DEF InstallAssumption, DirectoryOK, Fails
<1>. QED  BY <1>1

LEMMA PublishedReleased ==
    ASSUME latest \in Released, NEW r \in Published
    PROVE  r \in Released
<1>1. latest \in 1..MaxRelease /\ r \in 1..latest /\ MaxRelease \in Nat
  BY InstallAssumption DEF Released, Published
<1>. QED  BY <1>1 DEF Released

LEMMA Grows ==
    ASSUME NEW l \in Nat, NEW m \in Nat, m >= l
    PROVE  /\ \A r \in 1..l : r \in 1..m
           /\ l > 1 => m > 1
OBVIOUS

LEMMA TwoReleases ==
    ASSUME latest \in Published, NEW r \in Published, NEW q \in Published, r # q
    PROVE  latest > 1
BY DEF Published

LEMMA Here ==
    ASSUME InstallInv, InstallAssumption, NEW t \in Task, Mid(t)
    PROVE  /\ frame \in [Task -> Frames] /\ frame[t] \in Frames /\ InstallTypeOK /\ DirectoryOK
           /\ PlaceOf(t)
           /\ latest \in Released /\ latest \in Published /\ Published \subseteq Released
           /\ frame[t].at \in Loading \cup {"metadata"} /\ frame[t].at # "query" =>
                  NameOf(t) \in ArchiveName
           /\ ~overlapped => /\ Progress(t) /\ DirectoryInv
                             /\ \A u \in Task : u # t => ~Mid(u)
<1>1. /\ frame \in [Task -> Frames] /\ frame[t] \in Frames /\ InstallTypeOK /\ DirectoryOK
      /\ PlaceOf(t)
  BY DEF InstallInv, FramesInv, InstallTypeOK, DirectoryOK
<1>2. latest \in Released /\ latest \in Published /\ Published \subseteq Released
  <2>1. latest \in 1..MaxRelease /\ MaxRelease \in Nat
    BY <1>1 DEF InstallTypeOK, Released, InstallAssumption
  <2>2. latest \in 1..latest /\ \A n \in 1..latest : n \in 1..MaxRelease
    BY <2>1
  <2>. QED  BY <2>1, <2>2 DEF Released, Published
<1>3. ASSUME frame[t].at \in Loading \cup {"metadata"}, frame[t].at # "query"
      PROVE  NameOf(t) \in ArchiveName
  <2>1. method = "pip_venv" \/ frame[t].release \in Published
    BY <1>1, <1>3 DEF PlaceOf
  <2>. QED  BY <1>2, <2>1 DEF NameOf, ArchiveName
<1>4. ~overlapped => /\ Progress(t) /\ DirectoryInv
                     /\ \A u \in Task : u # t => ~Mid(u)
  BY DEF InstallInv, SoloInv
<1>. QED  BY <1>1, <1>2, <1>3, <1>4

LEMMA QueryKeeps ==
    ASSUME InstallInv, InstallAssumption, TasksInv', NEW t \in Task, Query(t)
    PROVE  InstallInv'
<1>1. /\ Mid(t) /\ frame[t].at = "query"
      /\ UNCHANGED <<tool, latest, dirVars, pageVars, overlapped>>
      /\ UNCHANGED <<archive, bytes, checksum, binary, metadata, venv>>
  BY DEF Query, Mid, MidPlaces, Loading, dirVars
<1>2. /\ frame \in [Task -> Frames] /\ frame[t] \in Frames /\ DirectoryOK /\ PlaceOf(t)
      /\ latest \in Released /\ latest \in Published /\ Published \subseteq Released
      /\ ~overlapped => /\ Progress(t) /\ DirectoryInv
                        /\ \A u \in Task : u # t => ~Mid(u)
  BY <1>1, Here
<1>3. CASE Fails /\ Raise(t)
  <2>1. failures' <= failures /\ failures' < MaxFailures /\ DirectoryOK'
    BY <1>1, <1>2, <1>3, FailsLess DEF DirectoryOK
  <2>. QED  BY <1>1, <1>3, <2>1, RaiseKeeps
<1>4. CASE ~Fails \/ ~Raise(t)
  <2>1. /\ frame' = [frame EXCEPT ![t].at = "open", ![t].release = latest]
        /\ UNCHANGED <<taskVars, failures>>
    BY <1>4 DEF Query
  <2>2. PICK rec \in Frames : rec = [frame[t] EXCEPT !.at = "open", !.release = latest]
    BY <1>2 DEF Frames, Places, MidPlaces, Loading
  <2>3. /\ rec.at = "open" /\ rec.release = latest /\ frame' = [frame EXCEPT ![t] = rec]
        /\ UNCHANGED <<future, pending, answers>>
    BY <1>2, <2>1, <2>2 DEF Frames, taskVars, poolVars, historyVars
  <2>4. failures' <= failures /\ DirectoryOK'
    BY <1>1, <1>2, <2>1 DEF DirectoryOK
  <2>5. ThreadStep(t, rec) /\ frame'[t] = rec /\ \A u \in Task : u # t => frame'[u] = frame[u]
    BY <1>1, <1>2, <2>3, <2>4 DEF ThreadStep
  <2>6. ASSUME ~overlapped
        PROVE  /\ \A u \in Task \ {t} : Progress(u) /\ frame[u].at \in Unopened =>
                      binary' # u /\ \A n \in ArchiveName : archive'[n] # u
               /\ Progress(t)' /\ DirectoryInv'
    <3>1. Progress(t) /\ DirectoryInv
      BY <1>2, <2>6
    <3>2. Progress(t)'
      BY <1>1, <2>3, <2>5, <3>1 DEF Progress, Unopened, Loaded
    <3>3. DirectoryInv'
      <4>1. \A u \in Task : frame[u].at # "metadata" /\ frame[u].at # "venv made"
        BY <1>1, <1>2, <2>6 DEF Mid, MidPlaces, Making
      <4>. QED  BY <1>1, <2>1, <3>1, <4>1 DEF DirectoryInv, Published, method
    <3>. QED  BY <1>1, <3>2, <3>3 DEF Progress
  <2>7. method # "pip_venv"
    BY <1>1, <1>2 DEF PlaceOf, Loading
  <2>. QED  BY <1>1, <1>2, <2>3, <2>4, <2>5, <2>6, <2>7, AdvanceKeeps
            DEF MidPlaces, Loading, Making
<1>. QED  BY <1>3, <1>4

\* _download opens its file: a new one, or the one of that name, which no other
\* call has and which is not the binary.
LEMMA OpenKeeps ==
    ASSUME InstallInv, InstallAssumption, TasksInv', NEW t \in Task, Open(t)
    PROVE  InstallInv'
<1>1. /\ Mid(t) /\ frame[t].at = "open"
      /\ UNCHANGED <<tool, latest, checksum, binary, metadata, venv, pageVars, overlapped>>
  BY DEF Open, Mid, MidPlaces, Loading
<1>2. /\ frame \in [Task -> Frames] /\ frame[t] \in Frames /\ DirectoryOK /\ PlaceOf(t)
      /\ latest \in Released /\ latest \in Published /\ NameOf(t) \in ArchiveName
      /\ method # "pip_venv" /\ frame[t].release \in Published
      /\ ~overlapped => /\ Progress(t) /\ DirectoryInv
                        /\ \A u \in Task : u # t => ~Mid(u)
  <2>1. method # "pip_venv" /\ frame[t].release \in Published
    BY <1>1, Here DEF PlaceOf, Loading
  <2>. QED  BY <1>1, <2>1, Here DEF Loading
<1>3. CASE Fails /\ Raise(t) /\ UNCHANGED <<archive, bytes>>
  <2>1. failures' <= failures /\ failures' < MaxFailures /\ DirectoryOK' /\ UNCHANGED dirVars
    BY <1>1, <1>2, <1>3, FailsLess DEF DirectoryOK, dirVars
  <2>. QED  BY <1>1, <1>3, <2>1, RaiseKeeps
<1>4. CASE ~(Fails /\ Raise(t) /\ UNCHANGED <<archive, bytes>>)
  <2>1. PICK file : /\ file = IF archive[NameOf(t)] = None THEN t ELSE archive[NameOf(t)]
                    /\ archive' = [archive EXCEPT ![NameOf(t)] = file]
                    /\ bytes' = [bytes EXCEPT ![file] = Empty]
                    /\ frame' = [frame EXCEPT
                                     ![t].at = "first half", ![t].handle = file,
                                     ![t].release = IF method = "direct_url" THEN latest ELSE @]
                    /\ UNCHANGED <<taskVars, failures>>
    BY <1>4 DEF Open
  <2>2. file \in Task /\ file # None /\ file \in File
    BY <1>2, <2>1 DEF DirectoryOK, InstallAssumption, File
  <2>3. PICK release \in Published :
            release = IF method = "direct_url" THEN latest ELSE frame[t].release
    BY <1>2
  <2>4. PICK rec \in Frames :
            rec = [frame[t] EXCEPT !.at = "first half", !.handle = file, !.release = release]
    <3>1. release \in Released /\ "first half" \in Places
      BY <1>1, <2>3, Here DEF Places, MidPlaces, Loading
    <3>. QED  BY <1>2, <2>2, <3>1 DEF Frames
  <2>5. /\ rec.at = "first half" /\ rec.release = release /\ rec.handle = file
        /\ frame' = [frame EXCEPT ![t] = rec] /\ frame'[t] = rec
        /\ \A u \in Task : u # t => frame'[u] = frame[u]
    BY <1>2, <2>1, <2>3, <2>4 DEF Frames
  <2>6. UNCHANGED <<future, pending, answers, failures>>
    BY <2>1 DEF taskVars, poolVars, historyVars
  <2>7. /\ archive' \in [ArchiveName -> Task \cup {None}] /\ archive'[NameOf(t)] = file
        /\ \A n \in ArchiveName : n # NameOf(t) => archive'[n] = archive[n]
        /\ bytes' \in [File -> Content] /\ \A f \in File : f # file => bytes'[f] = bytes[f]
    <3>1. archive \in [ArchiveName -> Task \cup {None}] /\ bytes \in [File -> Content]
      BY <1>2 DEF DirectoryOK
    <3>. QED  BY <1>2, <2>1, <2>2, <3>1, FramesTyped
  <2>8. failures' <= failures /\ DirectoryOK'
    BY <1>1, <1>2, <2>6, <2>7 DEF DirectoryOK
  <2>9. ThreadStep(t, rec)
    BY <1>1, <2>5, <2>6, <2>8 DEF ThreadStep
  <2>10. ASSUME ~overlapped
         PROVE  /\ \A u \in Task \ {t} : Progress(u) /\ frame[u].at \in Unopened =>
                       binary' # u /\ \A n \in ArchiveName : archive'[n] # u
                /\ Progress(t)' /\ DirectoryInv'
    <3>1. Progress(t) /\ DirectoryInv
      BY <1>2, <2>10
    <3>2. \A n \in ArchiveName : n # NameOf(t) => archive[n] # file
      BY <1>1, <1>2, <2>1, <3>1 DEF Progress, Unopened, DirectoryInv
    <3>3. binary # file
      BY <1>1, <1>2, <2>1, <3>1 DEF Progress, Unopened, DirectoryInv
    <3>4. \A u \in Task \ {t} : Progress(u) /\ frame[u].at \in Unopened =>
              binary' # u /\ \A n \in ArchiveName : archive'[n] # u
      BY <1>1, <1>2, <2>1, <2>7 DEF Progress
    <3>5. Progress(t)'
      <4>1. NameOf(t)' = NameOf(t)
        BY <1>1, <1>2, <2>3, <2>5 DEF NameOf, method
      <4>. QED  BY <2>2, <2>5, <2>7, <4>1 DEF Progress, Unopened, Loaded
    <3>6. DirectoryInv'
      <4>1. \A n \in ArchiveName : archive'[n] # None =>
                archive'[n] # binary /\ \A m \in ArchiveName : archive'[m] = archive'[n] => m = n
        BY <1>2, <2>2, <2>7, <3>1, <3>2, <3>3 DEF DirectoryInv
      <4>2. binary # None => bytes'[binary] = bytes[binary]
        BY <1>2, <2>7, <3>3 DEF DirectoryOK
      <4>3. \A u \in Task : frame[u].at # "metadata" /\ frame[u].at # "venv made"
        BY <1>1, <1>2, <2>10 DEF Mid, MidPlaces, Making
      <4>. QED  BY <1>1, <2>6, <3>1, <4>1, <4>2, <4>3 DEF DirectoryInv, Published, method
    <3>. QED  BY <3>4, <3>5, <3>6
  <2>. QED  BY <1>1, <1>2, <2>3, <2>5, <2>6, <2>8, <2>9, <2>10, AdvanceKeeps
            DEF MidPlaces, Loading, Making
<1>. QED  BY <1>3, <1>4

LEMMA HalfWritten ==
    ASSUME NEW c \in Content, NEW r \in Released
    PROVE  /\ [c EXCEPT ![1] = r] \in Content /\ [c EXCEPT ![2] = r] \in Content
           /\ [c EXCEPT ![1] = r][1] = r
           /\ c[1] = r => [c EXCEPT ![2] = r] = Whole(r)
<1>1. c \in [1..2 -> Released \cup {None}] /\ DOMAIN c = 1..2 /\ 1 \in 1..2 /\ 2 \in 1..2
  BY DEF Content
<1>2. /\ [c EXCEPT ![1] = r] \in [1..2 -> Released \cup {None}]
      /\ [c EXCEPT ![2] = r] \in [1..2 -> Released \cup {None}]
      /\ [c EXCEPT ![1] = r][1] = r /\ [c EXCEPT ![2] = r][2] = r
  BY <1>1
<1>3. ASSUME c[1] = r PROVE \A h \in 1..2 : [c EXCEPT ![2] = r][h] = r
  <2>1. \A h \in 1..2 : h = 1 \/ h = 2
    OBVIOUS
  <2>. QED  BY <1>1, <1>2, <1>3, <2>1
<1>4. Whole(r) \in [1..2 -> Released \cup {None}] /\ \A h \in 1..2 : Whole(r)[h] = r
  BY DEF Whole
<1>. QED  BY <1>2, <1>3, <1>4 DEF Content

LEMMA SameFailures ==
    ASSUME DirectoryOK, UNCHANGED failures
    PROVE  failures' <= failures
<1>1. failures \in 0..MaxFailures /\ failures' = failures
  BY DEF DirectoryOK
<1>. QED  BY <1>1

Written(t, next, content) ==
    /\ frame[t].handle \in Task => content \in Content
    /\ \/ /\ frame[t].at = "first half" /\ next = "second half"
          /\ frame[t].handle \in Task => content[1] = frame[t].release
       \/ /\ frame[t].at = "second half" /\ next = "hash"
          /\ frame[t].handle \in Task /\ bytes[frame[t].handle][1] = frame[t].release =>
                content = Whole(frame[t].release)

\* Half of the asset goes to the open file, which is the archive and not the binary.
LEMMA HalfKeeps ==
    ASSUME InstallInv, InstallAssumption, TasksInv', NEW t \in Task, NEW next,
           UNCHANGED <<tool, latest, failures, archive, checksum, binary, metadata, venv, pageVars,
                       overlapped>>,
           Continue(t, next), NEW content,
           bytes' = [bytes EXCEPT ![frame[t].handle] = content], Written(t, next, content)
    PROVE  InstallInv'
<1>0. /\ frame[t].handle \in Task => content \in Content
      /\ \/ /\ frame[t].at = "first half" /\ next = "second half"
            /\ frame[t].handle \in Task => content[1] = frame[t].release
         \/ /\ frame[t].at = "second half" /\ next = "hash"
            /\ frame[t].handle \in Task /\ bytes[frame[t].handle][1] = frame[t].release =>
                  content = Whole(frame[t].release)
  BY DEF Written
<1>1. /\ Mid(t) /\ frame[t].at \in {"first half", "second half"} /\ next \in {"second half", "hash"}
      /\ UNCHANGED <<tool, latest, archive, checksum, binary, metadata, venv, pageVars, overlapped>>
  BY <1>0 DEF Mid, MidPlaces, Loading
<1>2. /\ frame \in [Task -> Frames] /\ frame[t] \in Frames /\ DirectoryOK /\ PlaceOf(t)
      /\ NameOf(t) \in ArchiveName
      /\ method # "pip_venv" /\ frame[t].release \in Published
      /\ ~overlapped => /\ Progress(t) /\ DirectoryInv
                        /\ \A u \in Task : u # t => ~Mid(u)
  <2>1. method # "pip_venv" /\ frame[t].release \in Published
    BY <1>1, Here DEF PlaceOf, Loading
  <2>. QED  BY <1>1, <2>1, Here DEF Loading
<1>3. failures' <= failures
  BY <1>2, SameFailures
<1>4. PICK rec \in Frames :
          /\ ThreadStep(t, rec) /\ rec = frame'[t] /\ rec.at = next
          /\ rec.release = frame[t].release /\ rec.handle = frame[t].handle
          /\ UNCHANGED <<future, pending, answers>>
          /\ \A u \in Task : u # t => frame'[u] = frame[u]
  <2>1. next \in Places
    BY <1>1 DEF Places, MidPlaces, Loading
  <2>. QED  BY <1>1, <1>2, <1>3, <2>1, Continued DEF Moves
<1>5. /\ bytes' \in [File -> Content]
      /\ \A f \in File : f # frame[t].handle => bytes'[f] = bytes[f]
      /\ frame[t].handle \in File => bytes'[frame[t].handle] = content
  <2>1. bytes \in [File -> Content] /\ (frame[t].handle \in File => content \in Content)
    BY <1>0, <1>2 DEF DirectoryOK, File, Frames, InstallAssumption
  <2>. QED  BY <2>1
<1>6. DirectoryOK'
  BY <1>1, <1>2, <1>5 DEF DirectoryOK
<1>7. ASSUME ~overlapped
      PROVE  /\ \A u \in Task \ {t} : Progress(u) /\ frame[u].at \in Unopened =>
                    binary' # u /\ \A n \in ArchiveName : archive'[n] # u
             /\ Progress(t)' /\ DirectoryInv'
  <2>1. Progress(t) /\ DirectoryInv
    BY <1>2, <1>7
  <2>2. /\ frame[t].handle # None /\ archive[NameOf(t)] = frame[t].handle
        /\ frame[t].handle \in Task /\ frame[t].handle \in File /\ frame[t].handle # binary
    BY <1>1, <1>2, <2>1 DEF Progress, DirectoryInv, DirectoryOK, File
  <2>3. Progress(t)'
    <3>1. NameOf(t)' = NameOf(t)
      BY <1>1, <1>4 DEF NameOf, method
    <3>. QED  BY <1>0, <1>4, <1>5, <2>1, <2>2, <3>1 DEF Progress, Unopened, Loaded
  <2>4. DirectoryInv'
    <3>1. binary # None => bytes'[binary] = bytes[binary]
      BY <1>2, <1>5, <2>2 DEF DirectoryOK
    <3>2. \A u \in Task : frame[u].at # "metadata" /\ frame[u].at # "venv made"
      BY <1>1, <1>2, <1>7 DEF Mid, MidPlaces, Making
    <3>. QED  BY <1>1, <2>1, <3>1, <3>2 DEF DirectoryInv, Published, method
  <2>. QED  BY <1>1, <2>3, <2>4 DEF Progress
<1>. QED  BY <1>1, <1>2, <1>3, <1>4, <1>6, <1>7, AdvanceKeeps DEF MidPlaces, Loading, Making

LEMMA DownloadKeeps ==
    ASSUME InstallInv, InstallAssumption, TasksInv', NEW t \in Task, Download(t)
    PROVE  InstallInv'
<1>1. /\ Mid(t) /\ frame[t].at \in {"first half", "second half"}
      /\ UNCHANGED <<tool, latest, archive, checksum, binary, metadata, venv, pageVars, overlapped>>
  BY DEF Download, WriteHalf, Mid, MidPlaces, Loading
<1>2. /\ frame \in [Task -> Frames] /\ DirectoryOK /\ bytes \in [File -> Content]
      /\ frame[t].release \in Released
  <2>1. frame[t].release \in Published
    BY <1>1, Here DEF PlaceOf, Loading
  <2>. QED  BY <1>1, <2>1, Here DEF DirectoryOK
<1>3. CASE Fails /\ Raise(t) /\ UNCHANGED bytes
  <2>1. failures' <= failures /\ failures' < MaxFailures /\ DirectoryOK' /\ UNCHANGED dirVars
    BY <1>1, <1>2, <1>3, FailsLess DEF DirectoryOK, dirVars
  <2>. QED  BY <1>1, <1>3, <2>1, RaiseKeeps
<1>4. CASE /\ frame[t].at = "first half" /\ Continue(t, "second half") /\ UNCHANGED failures
           /\ bytes' = [bytes EXCEPT ![frame[t].handle][1] = frame[t].release]
  <2>1. PICK content :
            /\ content = [bytes[frame[t].handle] EXCEPT ![1] = frame[t].release]
            /\ bytes' = [bytes EXCEPT ![frame[t].handle] = content]
    BY <1>4
  <2>2. frame[t].handle \in Task => content \in Content /\ content[1] = frame[t].release
    BY <1>2, <2>1, HalfWritten DEF File
  <2>3. Written(t, "second half", content)
    BY <1>4, <2>2 DEF Written
  <2>. QED  BY <1>1, <1>4, <2>1, <2>3, HalfKeeps
<1>5. CASE /\ frame[t].at = "second half" /\ Continue(t, "hash") /\ UNCHANGED failures
           /\ bytes' = [bytes EXCEPT ![frame[t].handle][2] = frame[t].release]
  <2>1. PICK content :
            /\ content = [bytes[frame[t].handle] EXCEPT ![2] = frame[t].release]
            /\ bytes' = [bytes EXCEPT ![frame[t].handle] = content]
    BY <1>5
  <2>2. /\ frame[t].handle \in Task => content \in Content
        /\ frame[t].handle \in Task /\ bytes[frame[t].handle][1] = frame[t].release =>
              content = Whole(frame[t].release)
    BY <1>2, <2>1, HalfWritten DEF File
  <2>3. Written(t, "hash", content)
    BY <1>5, <2>2 DEF Written
  <2>. QED  BY <1>1, <1>5, <2>1, <2>3, HalfKeeps
<1>. QED  BY <1>3, <1>4, <1>5 DEF Download, WriteHalf

LEMMA HashKeeps ==
    ASSUME InstallInv, InstallAssumption, TasksInv', NEW t \in Task, Hash(t)
    PROVE  InstallInv'
<1>1. /\ Mid(t) /\ frame[t].at = "hash"
      /\ UNCHANGED <<tool, latest, failures, dirVars, pageVars, overlapped>>
      /\ UNCHANGED <<archive, bytes, checksum, binary, metadata, venv>>
  BY DEF Hash, Mid, MidPlaces, Loading, dirVars, worldVars
<1>2. /\ frame \in [Task -> Frames] /\ frame[t] \in Frames /\ DirectoryOK /\ PlaceOf(t)
      /\ NameOf(t) \in ArchiveName
      /\ method # "pip_venv" /\ frame[t].release \in Published
      /\ ~overlapped => /\ Progress(t) /\ DirectoryInv
                        /\ \A u \in Task : u # t => ~Mid(u)
  <2>1. method # "pip_venv" /\ frame[t].release \in Published
    BY <1>1, Here DEF PlaceOf, Loading
  <2>. QED  BY <1>1, <2>1, Here DEF Loading
<1>3. failures' <= failures /\ DirectoryOK'
  BY <1>1, <1>2 DEF DirectoryOK
<1>4. CASE archive[NameOf(t)] = None
  <2>1. Raise(t)
    BY <1>4 DEF Hash
  <2>2. ~overlapped => FALSE
    BY <1>1, <1>2, <1>4 DEF Progress, Loaded
  <2>. QED  BY <1>1, <1>3, <2>1, <2>2, RaiseKeeps
<1>5. CASE archive[NameOf(t)] # None
  <2>1. /\ frame' = [frame EXCEPT ![t].at = "verify", ![t].digest = bytes[archive[NameOf(t)]]]
        /\ UNCHANGED taskVars
    BY <1>5 DEF Hash
  <2>2. bytes[archive[NameOf(t)]] \in Content
    BY <1>2, <1>5 DEF DirectoryOK, File
  <2>3. PICK rec \in Frames :
            rec = [frame[t] EXCEPT !.at = "verify", !.digest = bytes[archive[NameOf(t)]]]
    BY <1>2, <2>2 DEF Frames, Places, MidPlaces, Loading
  <2>4. /\ rec.at = "verify" /\ rec.release = frame[t].release /\ rec.handle = frame[t].handle
        /\ rec.digest = bytes[archive[NameOf(t)]]
        /\ frame' = [frame EXCEPT ![t] = rec] /\ frame'[t] = rec
        /\ \A u \in Task : u # t => frame'[u] = frame[u]
    BY <1>2, <2>1, <2>3 DEF Frames
  <2>5. UNCHANGED <<future, pending, answers>>
    BY <2>1 DEF taskVars, poolVars, historyVars
  <2>6. ThreadStep(t, rec)
    BY <1>1, <1>3, <2>4, <2>5 DEF ThreadStep
  <2>7. ASSUME ~overlapped
        PROVE  /\ \A u \in Task \ {t} : Progress(u) /\ frame[u].at \in Unopened =>
                      binary' # u /\ \A n \in ArchiveName : archive'[n] # u
               /\ Progress(t)' /\ DirectoryInv'
    <3>1. Progress(t) /\ DirectoryInv
      BY <1>2, <2>7
    <3>2. Progress(t)'
      <4>1. NameOf(t)' = NameOf(t)
        BY <1>1, <2>4 DEF NameOf, method
      <4>. QED  BY <1>1, <2>4, <3>1, <4>1 DEF Progress, Unopened, Loaded
    <3>3. DirectoryInv'
      <4>1. \A u \in Task : frame[u].at # "metadata" /\ frame[u].at # "venv made"
        BY <1>1, <1>2, <2>7 DEF Mid, MidPlaces, Making
      <4>. QED  BY <1>1, <3>1, <4>1 DEF DirectoryInv, Published, method
    <3>. QED  BY <1>1, <3>2, <3>3 DEF Progress
  <2>. QED  BY <1>1, <1>2, <1>3, <2>4, <2>5, <2>6, <2>7, AdvanceKeeps
            DEF MidPlaces, Loading, Making
<1>. QED  BY <1>4, <1>5

LEMMA VerifyKeeps ==
    ASSUME InstallInv, InstallAssumption, TasksInv', NEW t \in Task, Verify(t)
    PROVE  InstallInv'
<1>1. /\ Mid(t) /\ frame[t].at = "verify"
      /\ UNCHANGED <<tool, latest, failures, dirVars, pageVars, overlapped>>
      /\ UNCHANGED <<archive, bytes, checksum, binary, metadata, venv>>
  BY DEF Verify, Mid, MidPlaces, Loading, dirVars, worldVars
<1>2. /\ frame \in [Task -> Frames] /\ DirectoryOK /\ PlaceOf(t) /\ latest \in Published
      /\ NameOf(t) \in ArchiveName
      /\ method # "pip_venv" /\ frame[t].release \in Published
      /\ ~overlapped => /\ Progress(t) /\ DirectoryInv
                        /\ \A u \in Task : u # t => ~Mid(u)
  <2>1. method # "pip_venv" /\ frame[t].release \in Published
    BY <1>1, Here DEF PlaceOf, Loading
  <2>. QED  BY <1>1, <2>1, Here DEF Loading
<1>3. failures' <= failures /\ DirectoryOK'
  BY <1>1, <1>2, SameFailures DEF DirectoryOK
<1>4. CASE checksum \notin {None, frame[t].digest}
  <2>1. Raise(t)
    BY <1>4 DEF Verify
  <2>2. ASSUME ~overlapped PROVE latest > 1
    <3>1. frame[t].digest = Whole(frame[t].release)
      BY <1>1, <1>2, <2>2 DEF Progress
    <3>2. PICK r \in Published : checksum = Whole(r)
      BY <1>2, <1>4, <2>2 DEF DirectoryInv
    <3>3. r # frame[t].release
      BY <1>4, <3>1, <3>2
    <3>. QED  BY <1>2, <3>3, TwoReleases
  <2>. QED  BY <1>1, <1>3, <2>1, <2>2, RaiseKeeps
<1>5. CASE checksum \in {None, frame[t].digest}
  <2>1. PICK place \in {"record", "extract"} :
            /\ place = IF checksum = None THEN "record" ELSE "extract"
            /\ Continue(t, place)
    BY <1>5 DEF Verify
  <2>2. PICK rec \in Frames :
            /\ ThreadStep(t, rec) /\ rec = frame'[t] /\ rec.at = place
            /\ rec.release = frame[t].release /\ rec.handle = frame[t].handle
            /\ rec.digest = frame[t].digest
            /\ UNCHANGED <<future, pending, answers>>
            /\ \A u \in Task : u # t => frame'[u] = frame[u]
    <3>1. place \in Places
      BY DEF Places, MidPlaces, Loading
    <3>. QED  BY <1>1, <1>2, <1>3, <2>1, <3>1, Continued DEF Moves
  <2>3. ASSUME ~overlapped
        PROVE  /\ \A u \in Task \ {t} : Progress(u) /\ frame[u].at \in Unopened =>
                      binary' # u /\ \A n \in ArchiveName : archive'[n] # u
               /\ Progress(t)' /\ DirectoryInv'
    <3>1. Progress(t) /\ DirectoryInv
      BY <1>2, <2>3
    <3>2. Progress(t)'
      <4>1. NameOf(t)' = NameOf(t)
        BY <1>1, <2>2 DEF NameOf, method
      <4>. QED  BY <1>1, <1>5, <2>1, <2>2, <3>1, <4>1 DEF Progress, Unopened, Loaded
    <3>3. DirectoryInv'
      <4>1. \A u \in Task : frame[u].at # "metadata" /\ frame[u].at # "venv made"
        BY <1>1, <1>2, <2>3 DEF Mid, MidPlaces, Making
      <4>. QED  BY <1>1, <3>1, <4>1 DEF DirectoryInv, Published, method
    <3>. QED  BY <1>1, <3>2, <3>3 DEF Progress
  <2>. QED  BY <1>1, <1>2, <1>3, <2>1, <2>2, <2>3, AdvanceKeeps DEF MidPlaces, Loading, Making
<1>. QED  BY <1>4, <1>5

\* Trust on first install: nothing is at the binary path of a tool without a .sha256.
LEMMA RecordKeeps ==
    ASSUME InstallInv, InstallAssumption, TasksInv', NEW t \in Task, Record(t)
    PROVE  InstallInv'
<1>1. /\ Mid(t) /\ frame[t].at = "record" /\ checksum' = frame[t].digest /\ Continue(t, "extract")
      /\ UNCHANGED <<tool, latest, failures, archive, bytes, binary, metadata, venv, pageVars,
                     overlapped>>
  BY DEF Record, Mid, MidPlaces, Loading, worldVars
<1>2. /\ frame \in [Task -> Frames] /\ frame[t].digest \in Content /\ DirectoryOK /\ PlaceOf(t)
      /\ NameOf(t) \in ArchiveName
      /\ method # "pip_venv" /\ frame[t].release \in Published
      /\ ~overlapped => /\ Progress(t) /\ DirectoryInv
                        /\ \A u \in Task : u # t => ~Mid(u)
  <2>1. method # "pip_venv" /\ frame[t].release \in Published
    BY <1>1, Here DEF PlaceOf, Loading
  <2>. QED  BY <1>1, <2>1, Here DEF Loading, Frames
<1>3. failures' <= failures /\ DirectoryOK'
  BY <1>1, <1>2, SameFailures DEF DirectoryOK
<1>4. PICK rec \in Frames :
          /\ ThreadStep(t, rec) /\ rec = frame'[t] /\ rec.at = "extract"
          /\ rec.release = frame[t].release /\ rec.handle = frame[t].handle
          /\ rec.digest = frame[t].digest
          /\ UNCHANGED <<future, pending, answers>>
          /\ \A u \in Task : u # t => frame'[u] = frame[u]
  <2>1. "extract" \in Places
    BY DEF Places, MidPlaces, Loading
  <2>. QED  BY <1>1, <1>2, <1>3, <2>1, Continued DEF Moves
<1>5. ASSUME ~overlapped
      PROVE  /\ \A u \in Task \ {t} : Progress(u) /\ frame[u].at \in Unopened =>
                    binary' # u /\ \A n \in ArchiveName : archive'[n] # u
             /\ Progress(t)' /\ DirectoryInv'
  <2>1. Progress(t) /\ DirectoryInv
    BY <1>2, <1>5
  <2>2. Progress(t)'
    <3>1. NameOf(t)' = NameOf(t)
      BY <1>1, <1>4 DEF NameOf, method
    <3>. QED  BY <1>1, <1>4, <2>1, <3>1 DEF Progress, Unopened, Loaded
  <2>3. DirectoryInv'
    <3>1. \A u \in Task : frame[u].at # "metadata" /\ frame[u].at # "venv made"
      BY <1>1, <1>2, <1>5 DEF Mid, MidPlaces, Making
    <3>2. binary = None
      <4>1. checksum = None
        BY <1>1, <2>1 DEF Progress
      <4>2. binary # None => bytes[binary] = None /\ bytes[binary] \in Content
        BY <1>2, <2>1, <4>1 DEF DirectoryInv, DirectoryOK
      <4>. QED  BY <4>2 DEF InstallAssumption
    <3>3. checksum' = Whole(frame[t].release)
      BY <1>1, <2>1 DEF Progress
    <3>. QED  BY <1>1, <1>2, <2>1, <3>1, <3>2, <3>3 DEF DirectoryInv, Published, method
  <2>. QED  BY <1>1, <2>2, <2>3 DEF Progress
<1>. QED  BY <1>1, <1>2, <1>3, <1>4, <1>5, AdvanceKeeps DEF MidPlaces, Loading, Making

\* The archive becomes the binary, or is unpacked beside the other archives.
LEMMA PlacedKeeps ==
    ASSUME InstallInv, InstallAssumption, TasksInv', NEW t \in Task, frame[t].at = "extract",
           NEW file, file = archive[NameOf(t)], file # None,
           archive' = [archive EXCEPT ![NameOf(t)] = None], Continue(t, "metadata"),
           \/ binary' = file /\ UNCHANGED bytes
           \/ binary' = Tree /\ bytes' = [bytes EXCEPT ![Tree] = bytes[file]],
           UNCHANGED <<tool, latest, failures, checksum, metadata, venv, pageVars, overlapped>>
    PROVE  InstallInv'
<1>1. Mid(t) /\ UNCHANGED <<tool, latest, failures, checksum, metadata, venv, overlapped>>
  BY DEF Mid, MidPlaces, Loading
<1>2. /\ frame \in [Task -> Frames] /\ DirectoryOK /\ PlaceOf(t)
      /\ NameOf(t) \in ArchiveName
      /\ method # "pip_venv" /\ frame[t].release \in Published
      /\ ~overlapped => /\ Progress(t) /\ DirectoryInv
                        /\ \A u \in Task : u # t => ~Mid(u)
  <2>1. method # "pip_venv" /\ frame[t].release \in Published
    BY <1>1, Here DEF PlaceOf, Loading
  <2>. QED  BY <1>1, <2>1, Here DEF Loading
<1>3. /\ archive \in [ArchiveName -> Task \cup {None}] /\ bytes \in [File -> Content]
      /\ file \in Task /\ file \in File /\ Tree \in File /\ None \notin File /\ Tree \notin Task
  BY <1>2 DEF DirectoryOK, File, InstallAssumption
<1>4. /\ archive' \in [ArchiveName -> Task \cup {None}] /\ archive'[NameOf(t)] = None
      /\ \A n \in ArchiveName : n # NameOf(t) => archive'[n] = archive[n]
      /\ bytes' \in [File -> Content] /\ binary' \in {file, Tree} /\ bytes'[binary'] = bytes[file]
  BY <1>2, <1>3
<1>5. failures' <= failures /\ DirectoryOK'
  BY <1>1, <1>2, <1>3, <1>4, SameFailures DEF DirectoryOK
<1>6. PICK rec \in Frames :
          /\ ThreadStep(t, rec) /\ rec = frame'[t] /\ rec.at = "metadata"
          /\ rec.release = frame[t].release
          /\ UNCHANGED <<future, pending, answers>>
          /\ \A u \in Task : u # t => frame'[u] = frame[u]
  <2>1. "metadata" \in Places
    BY DEF Places, MidPlaces
  <2>. QED  BY <1>1, <1>2, <1>5, <2>1, Continued DEF Moves
<1>7. ASSUME ~overlapped
      PROVE  /\ \A u \in Task \ {t} : Progress(u) /\ frame[u].at \in Unopened =>
                    binary' # u /\ \A n \in ArchiveName : archive'[n] # u
             /\ Progress(t)' /\ DirectoryInv'
  <2>1. Progress(t) /\ DirectoryInv
    BY <1>2, <1>7
  <2>2. \A u \in Task \ {t} : Progress(u) /\ frame[u].at \in Unopened =>
            binary' # u /\ \A n \in ArchiveName : archive'[n] # u
    <3>1. ASSUME NEW u \in Task, \A n \in ArchiveName : archive[n] # u
          PROVE  binary' # u /\ \A n \in ArchiveName : archive'[n] # u
      <4>1. file # u /\ Tree # u /\ None # u
        BY <1>2, <1>3, <3>1 DEF File
      <4>. QED  BY <1>4, <3>1, <4>1
    <3>. QED  BY <3>1 DEF Progress
  <2>3. bytes[file] = Whole(frame[t].release) /\ checksum = bytes[file]
    BY <2>1 DEF Progress, Loaded
  <2>4. Progress(t)'
    BY <1>3, <1>4, <1>6, <2>3 DEF Progress, Unopened, Loaded
  <2>5. DirectoryInv'
    <3>1. \A n \in ArchiveName : archive'[n] # None =>
              archive'[n] # binary' /\ \A m \in ArchiveName : archive'[m] = archive'[n] => m = n
      <4>1. ASSUME NEW n \in ArchiveName, archive'[n] # None
            PROVE  /\ n # NameOf(t) /\ archive'[n] = archive[n] /\ archive[n] \in Task
                   /\ archive[n] # file
        BY <1>2, <1>3, <1>4, <2>1, <4>1 DEF DirectoryInv
      <4>2. \A n \in ArchiveName : archive'[n] # None => archive'[n] # binary'
        BY <1>3, <1>4, <4>1
      <4>3. ASSUME NEW n \in ArchiveName, NEW m \in ArchiveName, archive'[n] # None,
                   archive'[m] = archive'[n]
            PROVE  m = n
        <5>1. archive[n] # None /\ archive[m] = archive[n]
          BY <4>1, <4>3
        <5>. QED  BY <2>1, <5>1 DEF DirectoryInv
      <4>. QED  BY <4>2, <4>3
    <3>2. frame'[t].at = "metadata" /\ \A u \in Task : frame[u].at # "venv made"
      BY <1>1, <1>2, <1>6, <1>7 DEF Mid, MidPlaces, Making
    <3>3. checksum' = bytes'[binary'] /\ checksum' = Whole(frame[t].release)
      BY <1>1, <1>4, <2>3
    <3>4. venv' = "half" => failures' < MaxFailures
      BY <1>1, <2>1, <3>2 DEF DirectoryInv
    <3>. QED  BY <1>1, <1>2, <3>1, <3>2, <3>3, <3>4 DEF DirectoryInv, Published
  <2>. QED  BY <2>2, <2>4, <2>5
<1>. QED  BY <1>1, <1>2, <1>5, <1>6, <1>7, AdvanceKeeps DEF MidPlaces, Loading, Making

\* Only an archive that two installs have written at once is damaged or missing.
LEMMA ExtractKeeps ==
    ASSUME InstallInv, InstallAssumption, TasksInv', NEW t \in Task, Extract(t)
    PROVE  InstallInv'
<1>1. /\ Mid(t) /\ frame[t].at = "extract"
      /\ UNCHANGED <<tool, latest, failures, checksum, metadata, venv, pageVars, overlapped>>
  BY DEF Extract, Mid, MidPlaces, Loading, worldVars
<1>2. /\ DirectoryOK /\ NameOf(t) \in ArchiveName /\ frame[t].release \in Released
      /\ ~overlapped => Progress(t)
  <2>1. frame[t].release \in Released
    BY <1>1, Here DEF PlaceOf, Loading
  <2>. QED  BY <1>1, <2>1, Here DEF Loading
<1>3. failures' <= failures
  BY <1>1, <1>2, SameFailures
<1>4. PICK file : file = archive[NameOf(t)]
  OBVIOUS
<1>5. /\ archive \in [ArchiveName -> Task \cup {None}] /\ bytes \in [File -> Content]
      /\ Tree \in File
      /\ file # None => file \in File /\ bytes[file] \in Content
  BY <1>2, <1>4 DEF DirectoryOK, File
<1>6. ~overlapped => file # None /\ bytes[file] = Whole(frame[t].release)
  BY <1>1, <1>2, <1>4 DEF Progress, Loaded
<1>7. Whole(frame[t].release)[2] # None /\ ~Torn(Whole(frame[t].release))
  BY <1>2 DEF Whole, Torn, Released, InstallAssumption
<1>8. CASE file = None /\ Raise(t) /\ UNCHANGED <<archive, binary, bytes>>
  <2>1. DirectoryOK'
    BY <1>1, <1>2, <1>8 DEF DirectoryOK
  <2>. QED  BY <1>1, <1>3, <1>6, <1>8, <2>1, RaiseKeeps
<1>9. CASE file # None /\ Place(t, file)
  <2>1. CASE Suffix[tool] = "zip" /\ binary = None
    <3>1. Raise(t) /\ UNCHANGED <<archive, binary, bytes>> /\ bytes[file][2] = None
      BY <1>9, <2>1 DEF Place, IsRaw
    <3>2. DirectoryOK'
      BY <1>1, <1>2, <3>1 DEF DirectoryOK
    <3>3. ~overlapped => FALSE
      BY <1>6, <1>7, <3>1
    <3>. QED  BY <1>1, <1>3, <3>1, <3>2, <3>3, RaiseKeeps
  <2>2. CASE ~(Suffix[tool] = "zip" /\ binary = None)
    <3>1. /\ binary' = file /\ archive' = [archive EXCEPT ![NameOf(t)] = None]
          /\ Continue(t, "metadata") /\ UNCHANGED bytes
      BY <1>9, <2>2 DEF Place
    <3>. QED  BY <1>1, <1>4, <1>9, <3>1, PlacedKeeps
  <2>. QED  BY <2>1, <2>2
<1>10. CASE file # None /\ Unpack(t, file)
  <2>1. CASE Torn(bytes[file])
    <3>1. /\ Raise(t) /\ UNCHANGED archive
          /\ \/ binary' = Tree /\ bytes' = [bytes EXCEPT ![Tree] = bytes[file]]
             \/ UNCHANGED <<binary, bytes>>
      BY <1>10, <2>1 DEF Unpack
    <3>2. binary' \in File \cup {None} /\ bytes' \in [File -> Content]
      <4>1. binary \in File \cup {None} /\ bytes[file] \in Content
        BY <1>2, <1>5, <1>10 DEF DirectoryOK
      <4>2. [bytes EXCEPT ![Tree] = bytes[file]] \in [File -> Content]
        BY <1>5, <4>1
      <4>. QED  BY <1>5, <3>1, <4>1, <4>2
    <3>3. DirectoryOK'
      BY <1>1, <1>2, <3>1, <3>2 DEF DirectoryOK
    <3>4. ~overlapped => FALSE
      BY <1>6, <1>7, <2>1
    <3>. QED  BY <1>1, <1>3, <3>1, <3>3, <3>4, RaiseKeeps
  <2>2. CASE ~Torn(bytes[file])
    <3>1. /\ binary' = Tree /\ archive' = [archive EXCEPT ![NameOf(t)] = None]
          /\ bytes' = [bytes EXCEPT ![Tree] = bytes[file]] /\ Continue(t, "metadata")
      BY <1>10, <2>2 DEF Unpack
    <3>. QED  BY <1>1, <1>4, <1>10, <3>1, PlacedKeeps
  <2>. QED  BY <2>1, <2>2
<1>. QED  BY <1>4, <1>8, <1>9, <1>10 DEF Extract

\* The install is done: the metadata name what is at the binary path.
LEMMA MetadataKeeps ==
    ASSUME InstallInv, InstallAssumption, TasksInv', NEW t \in Task, WriteMetadata(t)
    PROVE  InstallInv'
<1>1. /\ Mid(t) /\ frame[t].at = "metadata" /\ metadata' = NameOf(t) /\ End(t, "result", "ended")
      /\ UNCHANGED <<tool, latest, failures, archive, bytes, checksum, binary, venv, pageVars,
                     overlapped>>
  BY DEF WriteMetadata, Mid, MidPlaces, worldVars
<1>2. /\ frame \in [Task -> Frames] /\ InstallTypeOK /\ DirectoryOK /\ PlaceOf(t)
      /\ NameOf(t) \in ArchiveName
      /\ ~overlapped => /\ Progress(t) /\ DirectoryInv
                        /\ \A u \in Task : u # t => ~Mid(u)
  BY <1>1, Here
<1>3. failures' <= failures /\ DirectoryOK'
  BY <1>1, <1>2, SameFailures DEF DirectoryOK
<1>4. PICK rec \in Frames : rec = Frame("ended") /\ rec.at = "ended" /\ rec.release = None
  BY FramesTyped DEF Places
<1>5. /\ frame' = [frame EXCEPT ![t] = rec] /\ frame'[t] = rec
      /\ \A u \in Task : u # t => frame'[u] = frame[u]
      /\ future' = [future EXCEPT ![t] = "result"]
      /\ UNCHANGED <<tool, latest, caller, pending, answers>>
  BY <1>1, <1>2, <1>4 DEF End, Settle, pageVars, historyVars
<1>6. ThreadStep(t, rec) /\ future'[t] = "result"
  BY <1>1, <1>2, <1>3, <1>5 DEF ThreadStep, InstallTypeOK, TasksTypeOK
<1>7. PlaceOf(t)'
  <2>1. caller[t] \in Page
    BY <1>1, <1>2 DEF PlaceOf
  <2>. QED  BY <1>4, <1>5, <1>6, <2>1
            DEF PlaceOf, Mid, MidPlaces, Loading, Making, Status, Published, Done
<1>8. ASSUME ~overlapped
      PROVE  /\ \A u \in Task \ {t} : Progress(u) /\ frame[u].at \in Unopened =>
                    binary' # u /\ \A n \in ArchiveName : archive'[n] # u
             /\ Progress(t)' /\ DirectoryInv'
  <2>1. Progress(t) /\ DirectoryInv
    BY <1>2, <1>8
  <2>2. Progress(t)'
    BY <1>4, <1>5 DEF Progress, Loaded, Unopened
  <2>3. DirectoryInv'
    <3>1. \A u \in Task : frame[u].at # "venv made"
      BY <1>1, <1>2, <1>8 DEF Mid, MidPlaces, Making
    <3>2. binary # None /\ method = "github_release" => bytes[binary] = Whole(NameOf(t))
      BY <1>1, <2>1 DEF Progress, NameOf
    <3>. QED  BY <1>1, <2>1, <3>1, <3>2 DEF DirectoryInv, Published, method
  <2>. QED  BY <1>1, <2>2, <2>3 DEF Progress
<1>9. SoloInv'
  BY <1>1, <1>2, <1>5, <1>8, SoloKeeps DEF InstallInv
<1>10. rec.at \notin Aside /\ frame[t].at \notin Aside
  BY <1>1, <1>4 DEF Aside
<1>. QED  BY <1>1, <1>3, <1>6, <1>7, <1>9, <1>10, ThreadKeeps

LEMMA VenvKeeps ==
    ASSUME InstallInv, InstallAssumption, TasksInv', NEW t \in Task, CreateVenv(t)
    PROVE  InstallInv'
<1>1. /\ Mid(t) /\ frame[t].at \in {"venv", "venv made"}
      /\ UNCHANGED <<tool, latest, archive, bytes, checksum, binary, metadata, pageVars, overlapped>>
  BY DEF CreateVenv, Mid, MidPlaces, Making
<1>2. /\ frame \in [Task -> Frames] /\ DirectoryOK /\ PlaceOf(t)
      /\ method = "pip_venv" /\ frame[t].release \in Published \cup {None}
      /\ ~overlapped => /\ Progress(t) /\ DirectoryInv
                        /\ \A u \in Task : u # t => ~Mid(u)
  <2>1. method = "pip_venv" /\ frame[t].release \in Published \cup {None}
    BY <1>1, Here DEF PlaceOf, Making
  <2>. QED  BY <1>1, <2>1, Here
<1>3. CASE frame[t].at = "venv made" /\ Fails /\ Raise(t) /\ UNCHANGED venv
  <2>1. failures' <= failures /\ failures' < MaxFailures /\ DirectoryOK'
    BY <1>1, <1>2, <1>3, FailsLess DEF DirectoryOK
  <2>. QED  BY <1>1, <1>3, <2>1, RaiseKeeps DEF dirVars
<1>4. CASE ~(frame[t].at = "venv made" /\ Fails /\ Raise(t) /\ UNCHANGED venv)
  <2>1. PICK place \in {"venv made", "pip"} :
            /\ Continue(t, place) /\ UNCHANGED failures
            /\ \/ frame[t].at = "venv" /\ place = "venv made" /\ venv' = "half"
               \/ frame[t].at = "venv" /\ place = "pip" /\ venv' = venv
               \/ frame[t].at = "venv made" /\ place = "pip" /\ venv' = "ready"
    BY <1>4 DEF CreateVenv
  <2>2. failures' <= failures /\ UNCHANGED failures
    BY <1>2, <2>1, SameFailures
  <2>3. DirectoryOK'
    BY <1>1, <1>2, <2>1 DEF DirectoryOK
  <2>4. PICK rec \in Frames :
            /\ ThreadStep(t, rec) /\ rec = frame'[t] /\ rec.at = place
            /\ rec.release = frame[t].release
            /\ UNCHANGED <<future, pending, answers>>
            /\ \A u \in Task : u # t => frame'[u] = frame[u]
    <3>1. place \in Places
      BY DEF Places, MidPlaces, Making
    <3>. QED  BY <1>1, <1>2, <2>1, <2>2, <3>1, Continued DEF Moves
  <2>5. ASSUME ~overlapped
        PROVE  /\ \A u \in Task \ {t} : Progress(u) /\ frame[u].at \in Unopened =>
                      binary' # u /\ \A n \in ArchiveName : archive'[n] # u
               /\ Progress(t)' /\ DirectoryInv'
    <3>1. Progress(t) /\ DirectoryInv
      BY <1>2, <2>5
    <3>2. Progress(t)'
      BY <2>4 DEF Progress, Unopened, Loaded
    <3>3. DirectoryInv'
      <4>1. venv' = "half" => failures < MaxFailures \/ place = "venv made"
        <5>1. \A u \in Task : frame[u].at = "venv made" => u = t
          BY <1>2, <2>5 DEF Mid, MidPlaces, Making
        <5>. QED  BY <2>1, <3>1, <5>1 DEF DirectoryInv
      <4>2. venv' = "half" => failures' < MaxFailures \/ \E u \in Task : frame'[u].at = "venv made"
        BY <2>2, <2>4, <4>1
      <4>3. method' = "pip_venv"
        BY <1>1, <1>2 DEF method
      <4>. QED  BY <1>1, <3>1, <4>2, <4>3 DEF DirectoryInv, Published
    <3>. QED  BY <1>1, <3>2, <3>3 DEF Progress
  <2>. QED  BY <1>1, <1>2, <2>2, <2>3, <2>4, <2>5, AdvanceKeeps DEF MidPlaces, Loading, Making
<1>. QED  BY <1>3, <1>4

\* A half-made virtualenv is another install's, or a failure has left it.
LEMMA PipKeeps ==
    ASSUME InstallInv, InstallAssumption, TasksInv', NEW t \in Task, PipInstall(t)
    PROVE  InstallInv'
<1>1. /\ Mid(t) /\ frame[t].at = "pip"
      /\ UNCHANGED <<tool, latest, archive, checksum, metadata, venv, pageVars, overlapped>>
  BY DEF PipInstall, Mid, MidPlaces, Making
<1>2. /\ frame \in [Task -> Frames] /\ DirectoryOK /\ PlaceOf(t) /\ latest \in Released
      /\ method = "pip_venv" /\ frame[t].release \in Published \cup {None}
      /\ ~overlapped => /\ Progress(t) /\ DirectoryInv
                        /\ \A u \in Task : u # t => ~Mid(u)
  <2>1. method = "pip_venv" /\ frame[t].release \in Published \cup {None}
    BY <1>1, Here DEF PlaceOf, Making
  <2>. QED  BY <1>1, <2>1, Here
<1>3. ~overlapped /\ venv = "half" => failures < MaxFailures
  <2>1. ~overlapped => \A u \in Task : frame[u].at # "venv made"
    BY <1>1, <1>2 DEF Mid, MidPlaces, Making
  <2>. QED  BY <1>2, <2>1 DEF DirectoryInv
<1>4. CASE Fails /\ Raise(t) /\ UNCHANGED <<binary, bytes>>
  <2>1. failures' <= failures /\ failures' < MaxFailures /\ DirectoryOK'
    BY <1>1, <1>2, <1>4, FailsLess DEF DirectoryOK
  <2>. QED  BY <1>1, <1>4, <2>1, RaiseKeeps DEF dirVars
<1>5. CASE venv = "half" /\ Raise(t) /\ UNCHANGED <<failures, binary, bytes>>
  <2>1. failures' <= failures /\ (~overlapped => failures' < MaxFailures) /\ DirectoryOK'
    BY <1>1, <1>2, <1>3, <1>5, SameFailures DEF DirectoryOK
  <2>. QED  BY <1>1, <1>5, <2>1, RaiseKeeps DEF dirVars
<1>6. CASE /\ binary' = Tree /\ bytes' = [bytes EXCEPT ![Tree] = Whole(latest)]
           /\ Continue(t, "metadata") /\ UNCHANGED failures
  <2>1. /\ archive \in [ArchiveName -> Task \cup {None}] /\ Tree \notin Task \cup {None}
        /\ Tree \in File
    BY <1>2 DEF DirectoryOK, File, InstallAssumption
  <2>2. bytes' \in [File -> Content]
    BY <1>2, <1>6, FramesTyped DEF DirectoryOK
  <2>3. failures' <= failures /\ DirectoryOK'
    BY <1>1, <1>2, <1>6, <2>1, <2>2, SameFailures DEF DirectoryOK
  <2>4. PICK rec \in Frames :
            /\ ThreadStep(t, rec) /\ rec = frame'[t] /\ rec.at = "metadata"
            /\ rec.release = frame[t].release
            /\ UNCHANGED <<future, pending, answers>>
            /\ \A u \in Task : u # t => frame'[u] = frame[u]
    <3>1. "metadata" \in Places
      BY DEF Places, MidPlaces
    <3>. QED  BY <1>1, <1>2, <1>6, <2>3, <3>1, Continued DEF Moves
  <2>5. method' = "pip_venv"
    BY <1>1, <1>2 DEF method
  <2>6. ASSUME ~overlapped
        PROVE  /\ \A u \in Task \ {t} : Progress(u) /\ frame[u].at \in Unopened =>
                      binary' # u /\ \A n \in ArchiveName : archive'[n] # u
               /\ Progress(t)' /\ DirectoryInv'
    <3>1. Progress(t) /\ DirectoryInv
      BY <1>2, <2>6
    <3>2. Progress(t)'
      BY <2>4, <2>5 DEF Progress, Unopened, Loaded
    <3>3. \A n \in ArchiveName : archive'[n] # None =>
              archive'[n] # binary' /\ \A m \in ArchiveName : archive'[m] = archive'[n] => m = n
      BY <1>1, <1>6, <2>1, <3>1 DEF DirectoryInv
    <3>4. DirectoryInv'
      BY <1>1, <1>3, <1>6, <2>5, <2>6, <3>1, <3>3 DEF DirectoryInv, Published
    <3>5. \A u \in Task : binary' # u
      BY <1>6, <2>1
    <3>. QED  BY <1>1, <3>2, <3>4, <3>5 DEF Progress
  <2>. QED  BY <1>1, <1>2, <1>6, <2>3, <2>4, <2>6, AdvanceKeeps DEF MidPlaces, Loading, Making
<1>. QED  BY <1>4, <1>5, <1>6 DEF PipInstall

-----------------------------------------------------------------------------
\* A step of a task that is in no install, before and after.
LEMMA SoloStays ==
    ASSUME SoloInv, frame \in [Task -> Frames], NEW t \in Task, NEW rec,
           frame' = [frame EXCEPT ![t] = rec],
           ~Mid(t), rec.at \notin MidPlaces, rec.at \in Unopened => frame[t].at \in Unopened,
           UNCHANGED <<tool, latest, failures, archive, bytes, checksum, binary, metadata, venv,
                       overlapped>>
    PROVE  SoloInv'
<1>. SUFFICES ASSUME ~overlapped
              PROVE  /\ \A u, v \in Task : Mid(u)' /\ Mid(v)' => u = v
                     /\ \A u \in Task : Progress(u)'
                     /\ DirectoryInv'
  BY DEF SoloInv
<1>1. frame'[t] = rec /\ \A u \in Task : u # t => frame'[u] = frame[u]
  OBVIOUS
<1>2. \A u \in Task : Mid(u)' <=> Mid(u)
  BY <1>1 DEF Mid
<1>3. Progress(t)'
  BY <1>1 DEF SoloInv, Progress, MidPlaces, Loading, Loaded
<1>4. ASSUME NEW u \in Task, u # t PROVE Progress(u)'
  <2>1. Progress(u) /\ frame'[u] = frame[u]
    BY <1>1, <1>4 DEF SoloInv
  <2>. QED  BY <2>1, SameProgress
<1>5. DirectoryInv'
  <2>1. frame[t].at # "metadata" /\ frame[t].at # "venv made"
        /\ frame'[t].at # "metadata" /\ frame'[t].at # "venv made"
    BY <1>1 DEF Mid, MidPlaces, Making
  <2>2. /\ (\A u \in Task : frame'[u].at # "metadata") <=> (\A u \in Task : frame[u].at # "metadata")
        /\ (\E u \in Task : frame'[u].at = "venv made")
              <=> \E u \in Task : frame[u].at = "venv made"
    BY <1>1, <2>1
  <2>. QED  BY <2>2 DEF SoloInv, DirectoryInv, Published, method
<1>. QED  BY <1>2, <1>3, <1>4, <1>5 DEF SoloInv

LEMMA StatusKeeps ==
    ASSUME InstallInv, InstallAssumption, TasksInv', NEW t \in Task, ReadStatus(t)
    PROVE  InstallInv'
<1>1. /\ frame[t].at = "status" /\ future[t] = "running"
      /\ UNCHANGED <<tool, latest, failures, pageVars, overlapped>>
      /\ UNCHANGED <<archive, bytes, checksum, binary, metadata, venv>>
  BY DEF ReadStatus, worldVars, dirVars
<1>2. /\ frame \in [Task -> Frames] /\ InstallTypeOK /\ DirectoryOK /\ PlaceOf(t) /\ SoloInv
  BY DEF InstallInv, FramesInv, InstallTypeOK, DirectoryOK
<1>3. failures' <= failures /\ DirectoryOK'
  BY <1>1, <1>2, SameFailures DEF DirectoryOK
<1>4. PICK place \in {"missing", "present"} : End(t, "result", place)
  BY DEF ReadStatus
<1>5. PICK rec \in Frames : rec = Frame(place) /\ rec.at = place /\ rec.release = None
  BY FramesTyped DEF Places, Status
<1>6. /\ frame' = [frame EXCEPT ![t] = rec] /\ frame'[t] = rec
      /\ future' = [future EXCEPT ![t] = "result"]
      /\ UNCHANGED <<tool, latest, caller, pending, answers>>
  BY <1>1, <1>2, <1>4, <1>5 DEF End, Settle, pageVars, historyVars
<1>7. ThreadStep(t, rec) /\ future'[t] = "result"
  BY <1>1, <1>2, <1>3, <1>6 DEF ThreadStep, InstallTypeOK, TasksTypeOK
<1>8. PlaceOf(t)'
  <2>1. caller[t] \in Page /\ caller[t] \in ListPage
    BY <1>1, <1>2 DEF PlaceOf, Status
  <2>. QED  BY <1>5, <1>6, <1>7, <2>1
            DEF PlaceOf, Mid, MidPlaces, Loading, Making, Status, Published, Done
<1>9. SoloInv'
  <2>1. ~Mid(t) /\ rec.at \notin MidPlaces /\ rec.at \notin Unopened
    BY <1>1, <1>5 DEF Mid, MidPlaces, Loading, Making, Unopened
  <2>. QED  BY <1>1, <1>2, <1>6, <2>1, SoloStays
<1>10. rec.at \in Aside /\ frame[t].at \in Aside /\ rec.at # "ended"
  BY <1>1, <1>5 DEF Aside
<1>. QED  BY <1>1, <1>3, <1>7, <1>8, <1>9, <1>10, ThreadKeeps

\* A task taken up, or an analysis ended, that is in no install.
LEMMA OtherTaskKeeps ==
    ASSUME InstallInv, InstallAssumption, TasksInv', NEW t \in Task,
           \/ frame[t].at = "idle" /\ future'[t] \in {"running", "result", "error"}
           \/ frame[t].at = "status" /\ future'[t] = "running",
           \A u \in Task : u # t => future'[u] = future[u],
           UNCHANGED <<pending, answers, worldVars, frame, dirVars, pageVars, overlapped>>
    PROVE  InstallInv'
<1>1. /\ UNCHANGED <<tool, latest, failures, pageVars, overlapped, frame, caller>>
      /\ UNCHANGED <<archive, bytes, checksum, binary, metadata, venv>>
  BY DEF worldVars, dirVars, pageVars
<1>2. /\ frame \in [Task -> Frames] /\ DirectoryOK /\ PlaceOf(t) /\ SoloInv
  BY DEF InstallInv, FramesInv, InstallTypeOK, DirectoryOK
<1>3. failures' <= failures /\ DirectoryOK'
  BY <1>1, <1>2, SameFailures DEF DirectoryOK
<1>4. PICK rec \in Frames : rec = frame[t]
  BY <1>2
<1>5. frame' = [frame EXCEPT ![t] = rec]
  BY <1>1, <1>2, <1>4
<1>6. ThreadStep(t, rec)
  BY <1>1, <1>3, <1>5 DEF ThreadStep
<1>7. PlaceOf(t)'
  BY <1>1, <1>2 DEF PlaceOf, Mid, MidPlaces, Loading, Making, Published, method, Done
<1>8. SoloInv'
  <2>1. ~Mid(t) /\ rec.at \notin MidPlaces
    BY <1>4 DEF Mid, MidPlaces, Loading, Making
  <2>. QED  BY <1>1, <1>2, <1>4, <1>5, <2>1, SoloStays
<1>9. (rec.at \in Aside <=> frame[t].at \in Aside) /\ rec.at # "ended"
  BY <1>4
<1>. QED  BY <1>1, <1>3, <1>6, <1>7, <1>8, <1>9, ThreadKeeps

\* The install begins; if another one is running, both are marked for good.
LEMMA BeginKeeps ==
    ASSUME InstallInv, InstallAssumption, TasksInv', NEW t \in Task, Begin(t)
    PROVE  InstallInv'
<1>1. /\ future' = [future EXCEPT ![t] = "running"]
      /\ UNCHANGED <<pending, answers>>
      /\ UNCHANGED <<worldVars, dirVars, pageVars>>
      /\ UNCHANGED <<tool, latest, failures, caller>>
      /\ UNCHANGED <<archive, bytes, checksum, binary, metadata, venv>>
  BY DEF Begin, TakeUp, historyVars, worldVars, dirVars, pageVars
<1>2. /\ frame \in [Task -> Frames] /\ InstallTypeOK /\ DirectoryOK /\ SoloInv
      /\ \A u \in Task : PlaceOf(u)
      /\ pool_queue \in Seq(Task) /\ QueueInv /\ future \in [Task -> Future]
  BY DEF InstallInv, FramesInv, InstallTypeOK, DirectoryOK, TasksInv, TasksTypeOK
<1>3. /\ future[t] = "queued" /\ future'[t] = "running"
      /\ \A u \in Task : u # t => future'[u] = future[u]
  <2>1. pool_queue # <<>> /\ t = Head(pool_queue)
    BY DEF Begin, TakeUp
  <2>2. 1 \in DOMAIN pool_queue /\ t = pool_queue[1]
    BY <1>2, <2>1
  <2>3. future[t] = "queued"
    BY <1>2, <2>2 DEF QueueInv
  <2>. QED  BY <1>1, <1>2, <2>3
<1>4. CASE frame[t].at # "submitted"
  <2>1. UNCHANGED <<frame, overlapped>>
    BY <1>4 DEF Begin
  <2>2. frame[t].at = "idle" \/ frame[t].at = "status"
    <3>1. ~Mid(t) /\ ~Done(t) /\ frame[t].at \in Places
      BY <1>2, <1>3 DEF PlaceOf, Done, Frames
    <3>. QED  BY <1>2, <1>3, <1>4, <3>1 DEF PlaceOf, Mid, Places, Status
  <2>. QED  BY <1>1, <1>3, <2>1, <2>2, OtherTaskKeeps
<1>5. CASE frame[t].at = "submitted"
  <2>1. PICK place \in {"venv", "query"} :
            /\ place = IF method = "pip_venv" THEN "venv" ELSE "query"
            /\ frame' = [frame EXCEPT ![t].at = place]
            /\ overlapped' = (overlapped
                              \/ \E x \in Task \ {t} : Installing(x) /\ future[x] = "running")
    BY <1>5 DEF Begin
  <2>2. PICK rec \in Frames : rec = [frame[t] EXCEPT !.at = place]
    <3>1. frame[t] \in Frames /\ place \in Places
      BY <1>2 DEF Places, MidPlaces, Loading, Making
    <3>. QED  BY <3>1 DEF Frames
  <2>3. /\ rec.at = place /\ rec.release = frame[t].release
        /\ frame' = [frame EXCEPT ![t] = rec] /\ frame'[t] = rec
        /\ \A u \in Task : u # t => frame'[u] = frame[u]
    BY <1>2, <2>1, <2>2 DEF Frames
  <2>4. failures' <= failures /\ DirectoryOK'
    BY <1>1, <1>2, SameFailures DEF DirectoryOK
  <2>5. ThreadStep(t, rec)
    BY <1>1, <1>3, <2>3, <2>4 DEF ThreadStep
  <2>6. PlaceOf(t)'
    <3>1. caller[t] \in Page /\ frame[t].release \in Published \cup {None}
      BY <1>2, <1>5 DEF PlaceOf
    <3>. QED  BY <1>1, <1>3, <2>1, <2>3, <3>1
              DEF PlaceOf, Mid, MidPlaces, Loading, Making, Status, Published, method, Done
  <2>7. SoloInv'
    <3>. SUFFICES ASSUME ~overlapped'
                  PROVE  /\ \A u, v \in Task : Mid(u)' /\ Mid(v)' => u = v
                         /\ \A u \in Task : Progress(u)'
                         /\ DirectoryInv'
      BY DEF SoloInv
    <3>1. ~overlapped /\ \A x \in Task : x # t => ~(Installing(x) /\ future[x] = "running")
      BY <2>1
    <3>2. \A x \in Task : ~Mid(x)
      <4>1. ASSUME NEW x \in Task, Mid(x) PROVE FALSE
        <5>1. future[x] = "running" /\ Installing(x)
          BY <1>2, <4>1 DEF PlaceOf, Mid, MidPlaces, Loading, Making, Installing
        <5>. QED  BY <1>3, <3>1, <5>1
      <4>. QED  BY <4>1
    <3>3. (\A x \in Task : Progress(x)) /\ DirectoryInv
      BY <1>2, <3>1 DEF SoloInv
    <3>4. \A u, v \in Task : Mid(u)' /\ Mid(v)' => u = v
      BY <2>3, <3>2 DEF Mid
    <3>5. Progress(t)'
      <4>1. binary # t /\ \A n \in ArchiveName : archive[n] # t
        BY <1>5, <3>3 DEF Progress, Unopened
      <4>2. frame'[t].at \in {"venv", "query"}
        BY <2>3
      <4>. QED  BY <1>1, <4>1, <4>2 DEF Progress, Loaded
    <3>6. ASSUME NEW u \in Task, u # t PROVE Progress(u)'
      <4>1. frame'[u].at \notin MidPlaces /\ frame'[u] = frame[u]
        BY <2>3, <3>2, <3>6 DEF Mid
      <4>. QED  BY <1>1, <3>3, <4>1 DEF Progress, MidPlaces, Loading, Loaded
    <3>7. DirectoryInv'
      <4>1. /\ \A u \in Task : frame[u].at # "metadata" /\ frame[u].at # "venv made"
            /\ \A u \in Task : frame'[u].at # "metadata" /\ frame'[u].at # "venv made"
        BY <2>1, <2>3, <3>2 DEF Mid, MidPlaces, Making
      <4>. QED  BY <1>1, <3>3, <4>1 DEF DirectoryInv, Published, method
    <3>. QED  BY <3>4, <3>5, <3>6, <3>7
  <2>8. rec.at \notin Aside /\ frame[t].at \notin Aside /\ rec.at # "ended"
    BY <1>5, <2>1, <2>3 DEF Aside
  <2>9. overlapped => overlapped'
    BY <2>1
  <2>. QED  BY <2>4, <2>5, <2>6, <2>7, <2>8, <2>9, ThreadKeeps
<1>. QED  BY <1>4, <1>5

LEMMA ThreadsKeep ==
    ASSUME InstallInv, InstallAssumption, TasksInv', NEW t \in Task, Thread(t)
    PROVE  InstallInv'
<1>1. CASE EndAnalysis(t)
  <2>1. /\ frame[t].at = "idle" /\ future'[t] \in {"running", "result", "error"}
        /\ \A u \in Task : u # t => future'[u] = future[u]
        /\ UNCHANGED <<pending, answers, worldVars, frame, dirVars, pageVars, overlapped>>
    BY <1>1 DEF EndAnalysis, Settle, historyVars, InstallInv, TasksInv, TasksTypeOK
  <2>. QED  BY <2>1, OtherTaskKeeps
<1>. QED  BY <1>1, BeginKeeps, QueryKeeps, OpenKeeps, DownloadKeeps, HashKeeps, VerifyKeeps,
             RecordKeeps, ExtractKeeps, MetadataKeeps, VenvKeeps, PipKeeps, StatusKeeps
          DEF Thread

-----------------------------------------------------------------------------
\* Who waits for what, after the GUI thread has done something.
Waits(t, pg) == InstallOf(t, pg) /\ Unanswered(t)

LEMMA RowsAre ==
    RowsInv <=>
        /\ \A pg \in Page : button[pg] = "Installing..." => \E t \in Task : Waits(t, pg)
        /\ \A pg \in Page \ ListPage : \A t \in Task : Waits(t, pg) =>
              button[pg] = "Installing..." /\ \A u \in Task : Waits(u, pg) => t = u
BY DEF RowsInv, Waits

LEMMA RowsAreNow ==
    ASSUME \A pg \in Page : button'[pg] = "Installing..." => \E t \in Task : Waits(t, pg)',
           \A pg \in Page \ ListPage : \A t \in Task : Waits(t, pg)' =>
              button'[pg] = "Installing..." /\ \A u \in Task : Waits(u, pg)' => t = u
    PROVE  RowsInv'
BY DEF RowsInv, Waits

\* A page submits an install or a status_all.
LEMMA SubmitsKeep ==
    ASSUME InstallInv, InstallAssumption, TasksInv', NEW t \in Task, NEW pg \in Page,
           OnInstall(t, pg) \/ RefreshStatus(t, pg)
    PROVE  InstallInv'
<1>1. /\ future[t] = "none" /\ future' = [future EXCEPT ![t] = "queued"]
      /\ pending' = pending \cup {t} /\ UNCHANGED <<answers, worldVars, dirVars, overlapped>>
      /\ UNCHANGED <<tool, latest, failures>>
      /\ UNCHANGED <<archive, bytes, checksum, binary, metadata, venv>>
      /\ caller' = [caller EXCEPT ![t] = pg]
  BY DEF OnInstall, RefreshStatus, Run, Submit, worldVars, dirVars
<1>2. PICK place \in {"submitted", "status"} :
          /\ frame' = [frame EXCEPT ![t] = Frame(place)]
          /\ \/ /\ place = "submitted" /\ button[pg] # "Installing..."
                /\ button' = [button EXCEPT ![pg] = "Installing..."] /\ UNCHANGED status_job
             \/ /\ place = "status" /\ pg \in ListPage
                /\ UNCHANGED button /\ status_job' = [status_job EXCEPT ![pg] = t]
  BY DEF OnInstall, RefreshStatus
<1>3. /\ frame \in [Task -> Frames] /\ InstallTypeOK /\ SoloInv /\ RowsInv
      /\ \A u \in Task : PlaceOf(u)
      /\ future \in [Task -> Future] /\ caller \in [Task -> Page \cup {None}]
      /\ button \in [Page -> {"Install", "Installing...", "Reinstall", "Retry Install"}]
      /\ status_job \in [Page -> Task \cup {None}]
  BY DEF InstallInv, FramesInv, InstallTypeOK, TasksInv, TasksTypeOK
<1>4. frame[t].at = "idle" /\ answers[t] = <<>>
  BY <1>1, <1>3 DEF PlaceOf, InstallInv, TasksInv, PollInv, Done
<1>5. PICK rec \in Frames : rec = Frame(place) /\ rec.at = place /\ rec.release = None
  BY FramesTyped DEF Places, Status
<1>6. /\ frame' = [frame EXCEPT ![t] = rec] /\ frame'[t] = rec /\ frame' \in [Task -> Frames]
      /\ future'[t] = "queued" /\ caller'[t] = pg
      /\ \A u \in Task : u # t => /\ frame'[u] = frame[u] /\ future'[u] = future[u]
                                  /\ caller'[u] = caller[u]
  BY <1>1, <1>2, <1>3, <1>5
<1>7. FramesInv'
  <2>1. PlaceOf(t)'
    BY <1>1, <1>2, <1>5, <1>6
       DEF PlaceOf, Mid, MidPlaces, Loading, Making, Status, Published, Done
  <2>2. ASSUME NEW u \in Task, u # t PROVE PlaceOf(u)'
    BY <1>1, <1>3, <1>6, <2>2, SamePlace
  <2>. QED  BY <1>6, <2>1, <2>2 DEF FramesInv
<1>8. SoloInv'
  <2>1. ~Mid(t) /\ rec.at \notin MidPlaces /\ frame[t].at \in Unopened
    BY <1>4, <1>5 DEF Mid, MidPlaces, Loading, Making, Unopened
  <2>. QED  BY <1>1, <1>3, <1>6, <2>1, SoloStays
<1>9. InstallTypeOK'
  <2>1. caller' \in [Task -> Page \cup {None}] /\ status_job' \in [Page -> Task \cup {None}]
        /\ button' \in [Page -> {"Install", "Installing...", "Reinstall", "Retry Install"}]
    <3>1. caller' \in [Task -> Page \cup {None}]
      BY <1>1, <1>3
    <3>2. CASE place = "submitted"
      <4>1. UNCHANGED status_job /\ button' = [button EXCEPT ![pg] = "Installing..."]
        BY <1>2, <3>2
      <4>. QED  BY <1>3, <3>1, <4>1
    <3>3. CASE place = "status"
      <4>1. UNCHANGED button /\ status_job' = [status_job EXCEPT ![pg] = t]
        BY <1>2, <3>3
      <4>. QED  BY <1>3, <3>1, <4>1
    <3>. QED  BY <3>2, <3>3
  <2>2. \A u \in Task : frame'[u] \in Frames
    BY <1>6
  <2>. QED  BY <1>1, <1>3, <2>1, <2>2 DEF InstallTypeOK, Frames, TasksInv
<1>10. \A u \in Task, q \in Page :
           Waits(u, q)' <=> Waits(u, q) \/ (u = t /\ q = pg /\ place = "submitted")
  <2>1. \A u \in Task : u # t => (Unanswered(u)' <=> Unanswered(u))
    BY <1>1 DEF Unanswered
  <2>2. Unanswered(t)'
    BY <1>1, <1>4 DEF Unanswered
  <2>3. \A q \in Page : ~InstallOf(t, q) /\ (InstallOf(t, q)' <=> q = pg /\ place = "submitted")
    BY <1>4, <1>5, <1>6 DEF InstallOf, Installing
  <2>4. \A u \in Task, q \in Page : u # t => (InstallOf(u, q)' <=> InstallOf(u, q))
    BY <1>6 DEF InstallOf, Installing
  <2>. QED  BY <2>1, <2>2, <2>3, <2>4 DEF Waits
<1>11. RowsInv'
  <2>1. /\ \A q \in Page : button[q] = "Installing..." => \E u \in Task : Waits(u, q)
        /\ \A q \in Page \ ListPage : \A u \in Task : Waits(u, q) =>
              button[q] = "Installing..." /\ \A v \in Task : Waits(v, q) => u = v
    BY <1>3, RowsAre
  <2>2. ASSUME NEW q \in Page, button'[q] = "Installing..." PROVE \E u \in Task : Waits(u, q)'
    <3>1. button[q] = "Installing..." \/ (q = pg /\ place = "submitted")
      BY <1>2, <1>3, <2>2
    <3>. QED  BY <1>10, <2>1, <3>1
  <2>3. ASSUME NEW q \in Page \ ListPage, NEW u \in Task, Waits(u, q)'
        PROVE  button'[q] = "Installing..." /\ \A v \in Task : Waits(v, q)' => u = v
    <3>1. CASE place = "submitted" /\ q = pg
      <4>1. button[q] # "Installing..." /\ button'[q] = "Installing..."
        BY <1>2, <1>3, <3>1
      <4>. QED  BY <1>10, <2>1, <2>3, <4>1
    <3>2. CASE ~(place = "submitted" /\ q = pg)
      <4>1. button'[q] = button[q]
        BY <1>2, <1>3, <3>2
      <4>. QED  BY <1>10, <2>1, <2>3, <3>2, <4>1
    <3>. QED  BY <3>1, <3>2
  <2>. QED  BY <2>2, <2>3, RowsAreNow
<1>12. FailureHasCause'
  BY <1>1, <1>2, <1>5, <1>6 DEF InstallInv, FailureHasCause
<1>. QED  BY <1>7, <1>8, <1>9, <1>11, <1>12, TasksInv' DEF InstallInv

LEMMA AnalysisKeeps ==
    ASSUME InstallInv, InstallAssumption, TasksInv', NEW t \in Task, RunAnalysis(t)
    PROVE  InstallInv'
<1>1. /\ future[t] = "none" /\ future' = [future EXCEPT ![t] = "queued"]
      /\ UNCHANGED <<pending, answers, tool, latest, failures, frame, caller, status_job, button,
                     overlapped>>
      /\ UNCHANGED <<archive, bytes, checksum, binary, metadata, venv>>
  BY DEF RunAnalysis, SubmitAnalysis, Submit, historyVars, worldVars, dirVars, pageVars
<1>2. /\ frame \in [Task -> Frames] /\ InstallTypeOK /\ SoloInv /\ RowsInv
      /\ \A u \in Task : PlaceOf(u)
      /\ future \in [Task -> Future]
  BY DEF InstallInv, FramesInv, TasksInv, TasksTypeOK
<1>3. frame[t].at = "idle"
  BY <1>1, <1>2 DEF PlaceOf
<1>4. future'[t] = "queued" /\ \A u \in Task : u # t => future'[u] = future[u]
  BY <1>1, <1>2
<1>5. FramesInv'
  <2>1. PlaceOf(t)'
    BY <1>1, <1>2, <1>3, <1>4 DEF PlaceOf, Mid, MidPlaces, Loading, Making, Published, method, Done
  <2>2. ASSUME NEW u \in Task, u # t PROVE PlaceOf(u)'
    BY <1>1, <1>2, <1>4, <2>2, SamePlace
  <2>. QED  BY <1>1, <1>2, <2>1, <2>2 DEF FramesInv
<1>6. SoloInv'
  <2>1. frame' = [frame EXCEPT ![t] = frame[t]]
    BY <1>1, <1>2
  <2>2. ~Mid(t) /\ frame[t].at \notin MidPlaces
    BY <1>3 DEF Mid, MidPlaces, Loading, Making
  <2>. QED  BY <1>1, <1>2, <2>1, <2>2, SoloStays
<1>7. RowsInv'
  BY <1>1, <1>2 DEF RowsInv, InstallOf, Installing, Unanswered
<1>8. InstallTypeOK'
  BY <1>1, <1>2 DEF InstallTypeOK, TasksInv
<1>9. FailureHasCause'
  BY <1>1, <1>3, <1>4 DEF InstallInv, FailureHasCause
<1>. QED  BY <1>5, <1>6, <1>7, <1>8, <1>9, TasksInv' DEF InstallInv

\* Whatever the poll does, and however upstream goes on, the installs are where they were.
LEMMA InstallsStay ==
    ASSUME InstallInv, InstallAssumption,
           UNCHANGED <<tool, failures, future, frame, caller, overlapped>>,
           UNCHANGED <<archive, bytes, checksum, binary, metadata, venv>>,
           latest' \in Released, latest' >= latest
    PROVE  FramesInv' /\ SoloInv' /\ FailureHasCause'
<1>1. latest \in Released
  BY DEF InstallInv, InstallTypeOK
<1>2. /\ \A r \in Published : r \in Published'
      /\ latest > 1 => latest' > 1
  BY <1>1, Grows DEF Published, Released
<1>3. FramesInv'
  <2>1. frame \in [Task -> Frames] /\ \A u \in Task : PlaceOf(u)
    BY DEF InstallInv, FramesInv
  <2>2. ASSUME NEW u \in Task PROVE PlaceOf(u)'
    BY <1>2, <2>1 DEF PlaceOf, Mid, method, Done
  <2>. QED  BY <2>1, <2>2 DEF FramesInv
<1>4. SoloInv'
  <2>. SUFFICES ASSUME ~overlapped
                PROVE  /\ \A u, v \in Task : Mid(u)' /\ Mid(v)' => u = v
                       /\ \A u \in Task : Progress(u)'
                       /\ DirectoryInv'
    BY DEF SoloInv
  <2>1. /\ \A u, v \in Task : Mid(u) /\ Mid(v) => u = v
        /\ \A u \in Task : Progress(u)
        /\ DirectoryInv
    BY DEF InstallInv, SoloInv
  <2>2. \A u \in Task : Progress(u)'
    BY <2>1, SameProgress
  <2>3. DirectoryInv'
    BY <1>2, <2>1 DEF DirectoryInv, method
  <2>. QED  BY <2>1, <2>2, <2>3 DEF Mid
<1>5. FailureHasCause'
  BY <1>2 DEF InstallInv, FailureHasCause
<1>. QED  BY <1>3, <1>4, <1>5

LEMMA PublishKeeps ==
    ASSUME InstallInv, InstallAssumption, TasksInv', Publish
    PROVE  InstallInv'
<1>1. /\ latest < MaxRelease /\ latest' = latest + 1
      /\ UNCHANGED <<future, pending, answers>>
      /\ UNCHANGED <<tool, failures, frame, caller, status_job, button, overlapped>>
      /\ UNCHANGED <<archive, bytes, checksum, binary, metadata, venv>>
  BY DEF Publish, taskVars, poolVars, historyVars, dirVars, pageVars
<1>2. InstallTypeOK
  BY DEF InstallInv
<1>3. latest' \in Released /\ latest' >= latest
  <2>1. latest \in 1..MaxRelease /\ MaxRelease \in Nat
    BY <1>2 DEF InstallTypeOK, Released, InstallAssumption
  <2>. QED  BY <1>1, <2>1 DEF Released
<1>4. FramesInv' /\ SoloInv' /\ FailureHasCause'
  BY <1>1, <1>3, InstallsStay
<1>5. InstallTypeOK'
  BY <1>1, <1>2, <1>3 DEF InstallTypeOK, TasksInv
<1>6. RowsInv'
  BY <1>1 DEF InstallInv, RowsInv, InstallOf, Installing, Unanswered
<1>. QED  BY <1>4, <1>5, <1>6, TasksInv' DEF InstallInv

\* _poll begins, skips and forgets: who is unanswered stays so.
LEMMA PollRestKeeps ==
    ASSUME InstallInv, InstallAssumption, TasksInv', PollRest
    PROVE  InstallInv'
<1>1. /\ UNCHANGED <<future, answers>>
      /\ UNCHANGED <<tool, latest, failures, frame, caller, status_job, button, overlapped>>
      /\ UNCHANGED <<archive, bytes, checksum, binary, metadata, venv>>
      /\ pending' = pending \/ pending' = pending \ done_jobs
  BY DEF PollRest, PollBegin, PollEnd, PollSkip, poolVars, historyVars, dirVars, pageVars, worldVars
<1>2. \A u \in Task : Unanswered(u)' <=> Unanswered(u)
  BY <1>1 DEF InstallInv, TasksInv, PollInv, Unanswered
<1>3. InstallTypeOK /\ latest \in Released
  BY DEF InstallInv, InstallTypeOK
<1>4. FramesInv' /\ SoloInv' /\ FailureHasCause'
  <2>1. latest' \in Released /\ latest' >= latest
    BY <1>1, <1>3 DEF Released
  <2>. QED  BY <1>1, <2>1, InstallsStay
<1>5. InstallTypeOK'
  BY <1>1, <1>3 DEF InstallTypeOK, TasksInv
<1>6. RowsInv'
  BY <1>1, <1>2 DEF InstallInv, RowsInv, InstallOf, Installing
<1>. QED  BY <1>4, <1>5, <1>6, TasksInv' DEF InstallInv

LEMMA SameLatest ==
    ASSUME latest \in Released, latest' = latest
    PROVE  latest' \in Released /\ latest' >= latest
BY DEF Released

LEMMA AnsweredNow ==
    ASSUME TasksInv, NEW t \in Task, PollAnswer(t)
    PROVE  \A u \in Task : Unanswered(u)' <=> Unanswered(u) /\ u # t
<1>1. /\ answers' = [answers EXCEPT ![t] = Append(@, future[t])] /\ Done(t)
      /\ UNCHANGED pending
      /\ answers \in [Task -> Seq({"result", "error"})] /\ answers[t] = <<>>
  BY DEF PollAnswer, TasksInv, TasksTypeOK, PollInv
<1>2. /\ answers'[t] = <<future[t]>> /\ answers'[t] # <<>>
      /\ \A u \in Task : u # t => answers'[u] = answers[u]
  BY <1>1 DEF Done
<1>. QED  BY <1>1, <1>2 DEF Unanswered

\* A page hears of its job: its row waits no more, and nobody else's changes.
LEMMA AnswerPageKeeps ==
    ASSUME InstallInv, InstallAssumption, TasksInv', NEW t \in Task, AnswerPage(t)
    PROVE  InstallInv'
<1>1. /\ t \in to_poll /\ Done(t) /\ answers' = [answers EXCEPT ![t] = Append(@, future[t])]
      /\ UNCHANGED <<future, pending>>
      /\ UNCHANGED <<tool, latest, failures, frame, caller, overlapped>>
      /\ UNCHANGED <<archive, bytes, checksum, binary, metadata, venv>>
  BY DEF AnswerPage, PollAnswer, poolVars, dirVars, worldVars
<1>2. /\ InstallTypeOK /\ latest \in Released /\ RowsInv /\ PlaceOf(t)
      /\ button \in [Page -> {"Install", "Installing...", "Reinstall", "Retry Install"}]
      /\ status_job \in [Page -> Task \cup {None}]
      /\ answers \in [Task -> Seq({"result", "error"})]
      /\ answers[t] = <<>>
  BY <1>1 DEF InstallInv, InstallTypeOK, FramesInv, TasksInv, TasksTypeOK, PollInv
<1>3. /\ \A u \in Task : Unanswered(u)' <=> Unanswered(u) /\ u # t
  BY AnsweredNow DEF AnswerPage, InstallInv
<1>4. PICK line \in {"Install", "Reinstall", "Retry Install"} :
          /\ button' = [button EXCEPT ![caller[t]] = line]
          /\ \/ frame[t].at \in {"missing", "present"}
                /\ status_job' = [status_job EXCEPT ![caller[t]] = None]
             \/ frame[t].at = "ended" /\ UNCHANGED status_job
  <2>1. CASE ShowStatus(t, caller[t])
    BY <2>1 DEF ShowStatus, ButtonOf
  <2>2. CASE ShowInstall(t, caller[t])
    BY <2>2 DEF ShowInstall, ButtonOf, FailedButton
  <2>. QED  BY <2>1, <2>2 DEF AnswerPage
<1>5. caller[t] \in Page /\ (frame[t].at # "ended" => caller[t] \in ListPage)
  BY <1>2, <1>4 DEF PlaceOf, Status
<1>6. /\ button' \in [Page -> {"Install", "Installing...", "Reinstall", "Retry Install"}]
      /\ status_job' \in [Page -> Task \cup {None}]
      /\ button'[caller[t]] # "Installing..."
      /\ \A q \in Page : q # caller[t] => button'[q] = button[q]
  BY <1>2, <1>4, <1>5
<1>7. FramesInv' /\ SoloInv' /\ FailureHasCause'
  <2>1. latest' \in Released /\ latest' >= latest
    <3>1. latest' = latest /\ latest \in Released
      BY <1>1, <1>2
    <3>. QED  BY <3>1, SameLatest
  <2>. QED  BY <1>1, <2>1, InstallsStay
<1>8. InstallTypeOK'
  BY <1>1, <1>2, <1>6 DEF InstallTypeOK, TasksInv
<1>9. \A u \in Task, q \in Page : Waits(u, q)' <=> Waits(u, q) /\ u # t
  BY <1>1, <1>3 DEF Waits, InstallOf, Installing
<1>10. RowsInv'
  <2>1. /\ \A q \in Page : button[q] = "Installing..." => \E u \in Task : Waits(u, q)
        /\ \A q \in Page \ ListPage : \A u \in Task : Waits(u, q) =>
              button[q] = "Installing..." /\ \A v \in Task : Waits(v, q) => u = v
    BY <1>2, RowsAre
  <2>2. \A q \in Page : Waits(t, q) => q = caller[t]
    BY DEF Waits, InstallOf
  <2>3. ASSUME NEW q \in Page, button'[q] = "Installing..." PROVE \E u \in Task : Waits(u, q)'
    <3>1. q # caller[t] /\ button[q] = "Installing..."
      BY <1>6, <2>3
    <3>2. PICK u \in Task : Waits(u, q)
      BY <2>1, <3>1
    <3>. QED  BY <1>9, <2>2, <3>1, <3>2
  <2>4. ASSUME NEW q \in Page \ ListPage, NEW u \in Task, Waits(u, q)'
        PROVE  button'[q] = "Installing..." /\ \A v \in Task : Waits(v, q)' => u = v
    <3>1. Waits(u, q) /\ u # t
      BY <1>9, <2>4
    <3>2. q # caller[t]
      <4>1. ASSUME q = caller[t] PROVE FALSE
        <5>1. frame[t].at = "ended"
          BY <1>5, <2>4, <4>1
        <5>2. Waits(t, q)
          BY <1>1, <1>2, <4>1, <5>1
             DEF Waits, InstallOf, Unanswered, InstallInv, TasksInv, TasksTypeOK
        <5>. QED  BY <2>1, <3>1, <5>2
      <4>. QED  BY <4>1
    <3>. QED  BY <1>6, <1>9, <2>1, <3>1, <3>2
  <2>. QED  BY <2>3, <2>4, RowsAreNow
<1>. QED  BY <1>7, <1>8, <1>10, TasksInv' DEF InstallInv

-----------------------------------------------------------------------------
LEMMA InstallInvInit ==
    ASSUME InstallAssumption, InstallInit
    PROVE  InstallInv
<1>1. TasksInv
  BY TasksInvInit DEF InstallInit
<1>2. PICK rec \in Frames : rec = Frame("idle") /\ rec.at = "idle" /\ rec.release = None
  BY FramesTyped DEF Places
<1>3. /\ \A t \in Task : frame[t] = rec /\ future[t] = "none" /\ answers[t] = <<>>
      /\ frame \in [Task -> Frames] /\ pending = {}
  BY <1>2 DEF InstallInit, TasksInit
<1>4. latest \in Released /\ failures \in 0..MaxFailures
  BY DEF InstallInit, Released, InstallAssumption
<1>5. FramesInv
  BY <1>2, <1>3
     DEF FramesInv, PlaceOf, Mid, MidPlaces, Loading, Making, Status, Done
<1>6. InstallTypeOK
  <2>1. /\ archive \in [ArchiveName -> Task \cup {None}] /\ bytes \in [File -> Content]
        /\ caller \in [Task -> Page \cup {None}] /\ status_job \in [Page -> Task \cup {None}]
        /\ button \in [Page -> {"Install", "Installing...", "Reinstall", "Retry Install"}]
    BY FramesTyped DEF InstallInit
  <2>2. \A t \in Task : frame[t] \in Frames
    BY <1>3
  <2>3. tool \in DOMAIN InstallMethod /\ checksum = None /\ binary = None /\ metadata = None
        /\ venv = "none"
    BY DEF InstallInit
  <2>. QED  BY <1>1, <1>4, <2>1, <2>2, <2>3 DEF InstallTypeOK, TasksInv, Frames
<1>7. SoloInv
  <2>1. \A n \in ArchiveName : archive[n] = None
    BY DEF InstallInit
  <2>2. \A t \in Task : ~Mid(t) /\ Progress(t)
    BY <1>2, <1>3, <2>1 DEF InstallInit, Progress, Mid, MidPlaces, Loading, Making, Loaded,
                            InstallAssumption
  <2>3. DirectoryInv
    BY <2>1 DEF InstallInit, DirectoryInv
  <2>. QED  BY <2>2, <2>3 DEF SoloInv
<1>8. RowsInv
  BY <1>2, <1>3 DEF InstallInit, RowsInv, Unanswered
<1>9. FailureHasCause
  BY <1>2, <1>3 DEF FailureHasCause
<1>. QED  BY <1>1, <1>5, <1>6, <1>7, <1>8, <1>9 DEF InstallInv

LEMMA InstallInvStep ==
    ASSUME InstallInv, InstallAssumption, [InstallNext]_installVars
    PROVE  InstallInv'
<1>1. TasksInv'
  BY InstallIsTasks, TasksInvStep DEF InstallInv
<1>2. CASE UNCHANGED installVars
  <2>1. UNCHANGED <<future, pending, answers, tool, latest, failures, frame, caller, status_job,
                    button, overlapped>>
        /\ UNCHANGED <<archive, bytes, checksum, binary, metadata, venv>>
    BY <1>2 DEF installVars, taskVars, poolVars, historyVars, worldVars, dirVars, pageVars
  <2>2. InstallTypeOK /\ latest \in Released
    BY DEF InstallInv, InstallTypeOK
  <2>3. FramesInv' /\ SoloInv' /\ FailureHasCause'
    <3>1. latest' \in Released /\ latest' >= latest
      BY <2>1, <2>2 DEF Released
    <3>. QED  BY <2>1, <3>1, InstallsStay
  <2>4. InstallTypeOK'
    BY <1>1, <2>1, <2>2 DEF InstallTypeOK, TasksInv
  <2>5. RowsInv'
    BY <2>1 DEF InstallInv, RowsInv, InstallOf, Installing, Unanswered
  <2>. QED  BY <1>1, <2>3, <2>4, <2>5 DEF InstallInv
<1>. QED  BY <1>1, <1>2, SubmitsKeep, AnalysisKeeps, ThreadsKeep, PollRestKeeps, AnswerPageKeeps,
             PublishKeeps DEF InstallNext, Poll

LEMMA InstallInvariant == InstallSpec => []InstallInv
BY InstallInvInit, InstallInvStep, InstallAssumption, PTL DEF InstallSpec

(***************************************************************************)
(* A row that says "Installing..." waits for an install of its page that   *)
(* is yet to be answered, and no page without a status job ever waits for  *)
(* two.                                                                    *)
(***************************************************************************)
THEOREM RowsFollow == InstallSpec => []RowFollowsInstall
<1>1. RowsInv => RowFollowsInstall
  <2>. SUFFICES ASSUME RowsInv PROVE RowFollowsInstall
    OBVIOUS
  <2>1. ASSUME NEW pg \in Page, NEW waiting,
               waiting = {t \in Task : InstallOf(t, pg) /\ Unanswered(t)}
        PROVE  /\ button[pg] = "Installing..." => waiting # {}
               /\ pg \notin ListPage => /\ waiting # {} => button[pg] = "Installing..."
                                        /\ Cardinality(waiting) <= 1
    <3>1. button[pg] = "Installing..." => waiting # {}
      BY <2>1 DEF RowsInv
    <3>2. pg \notin ListPage /\ waiting # {} =>
              button[pg] = "Installing..." /\ \E t \in Task : waiting = {t}
      BY <2>1 DEF RowsInv
    <3>3. Cardinality({}) = 0 /\ \A t \in Task : Cardinality({t}) = 1
      BY FS_EmptySet, FS_Singleton
    <3>. QED  BY <3>1, <3>2, <3>3
  <2>. QED  BY <2>1 DEF RowFollowsInstall
<1>. QED  BY <1>1, InstallInvariant, PTL DEF InstallInv

(***************************************************************************)
(* As long as no two installs have run at once, what is at the binary path *)
(* is whole, is what .sha256 was recorded for and is of the release the    *)
(* metadata name; and install never raises without a cause.                *)
(***************************************************************************)
THEOREM InstallsSound == InstallSpec => []InstallsAreSound
<1>1. InstallInv => InstallsAreSound
  <2>. SUFFICES ASSUME InstallInv PROVE InstallsAreSound
    OBVIOUS
  <2>1. InstallTypeOK /\ FramesInv /\ SoloInv /\ FailureHasCause
    BY DEF InstallInv
  <2>2. ASSUME ~overlapped, binary # None, method # "pip_venv"
        PROVE  /\ bytes[binary] = checksum /\ ~Torn(checksum)
               /\ method = "github_release" /\ (\A t \in Task : ~Installing(t))
                      => bytes[binary] = Whole(metadata)
    <3>1. DirectoryInv
      BY <2>1, <2>2 DEF SoloInv
    <3>2. bytes[binary] = checksum /\ checksum # None
      <4>1. bytes[binary] = checksum /\ bytes[binary] \in Content
        BY <2>1, <2>2, <3>1 DEF DirectoryInv, InstallTypeOK
      <4>. QED  BY <4>1, InstallAssumption
    <3>3. ~Torn(checksum)
      <4>1. \A r \in Published : r \in Released
        BY <2>1, PublishedReleased DEF InstallTypeOK
      <4>. QED  BY <3>1, <3>2, <4>1 DEF DirectoryInv, Torn
    <3>4. (\A t \in Task : ~Installing(t)) => \A t \in Task : frame[t].at # "metadata"
      BY DEF Installing
    <3>. QED  BY <2>2, <3>1, <3>2, <3>3, <3>4 DEF DirectoryInv
  <2>. QED  BY <2>1, <2>2 DEF InstallsAreSound, SoloInstallsAreSound
<1>. QED  BY <1>1, InstallInvariant, PTL
=============================================================================
