----------------------------- MODULE NzbToMedia -----------------------------
(***************************************************************************)
(* One run of nzbToMedia.py after another: SABnzbd or NZBGet calls it when *)
(* a download ends, a retry in the client calls it again, and a manual run *)
(* goes through the directories it finds.  A run records the download,     *)
(* unpacks it, lets a section look at its videos and hand them to a media  *)
(* manager, and marks and cleans what was accepted, while the manager may  *)
(* still be at work.  The process can die between any two steps;           *)
(* ProcessLock keeps runs from overlapping.                                *)
(***************************************************************************)
EXTENDS DownloadDB

CONSTANTS
    Downloads,
    Texts,          \* the names, agents and ids that occur
    NameOf,         \* [Downloads -> names], the name of the directory
    InputName,      \* [Downloads -> names], the name the client passes
    CleanName,      \* [Texts -> Texts], a name without its extension
    Identified,     \* downloads whose id the client passes
    InitialHolds,   \* what the directories of the downloads may hold at first
    InitialRows,    \* contents of the downloads table left by earlier versions
    Small,          \* downloads of which clean_dir ignores every file: below minSize
    Configs,        \* the settings of autoProcessMedia.cfg to consider
    Faults,         \* the faults that may occur
    MaxRuns         \* bound: how many runs are started

\* Foreign videos are intact, without audio in a language of REQUIRE_LAN.
Contents == {"archive", "intact", "foreign", "broken", "empty"}

FaultKinds == {"config", "crash", "io", "raise", "locked"}

\* What the sections do to the directory before and after the hand-off.
Movies == {"CouchPotato", "Radarr"}
Series == {"SickBeard", "NzbDrone"}
Sections == Movies \cup Series \cup {"HeadPhones"}
CleanedSections == {"CouchPotato", "SickBeard", "HeadPhones"}
Retrying == {"CouchPotato", "SickBeard"}

Settings == [section : Sections, client : {"nzbget", "sabnzbd"}, extract : BOOLEAN,
             noExtractFailed : BOOLEAN, checkMedia : BOOLEAN, byDestination : BOOLEAN,
             processMethod : BOOLEAN, requireLan : BOOLEAN,
             deleteFailed : BOOLEAN, forceClean : BOOLEAN]

ASSUME NzbAssumption ==
    /\ NameOf \in [Downloads -> Texts] /\ InputName \in [Downloads -> Texts]
    /\ {"none", "None", "", "manual", "nzbget", "sabnzbd"} \subseteq Texts
    /\ {NULL, "none", "None", ""} \cap Downloads = {}
    /\ CleanName \in [Texts -> Texts]
    /\ Identified \subseteq Downloads /\ Small \subseteq Downloads
    /\ InitialHolds \subseteq [Downloads -> Contents \ {"empty"}]
    /\ Configs \subseteq Settings
    /\ Faults \subseteq FaultKinds
    /\ MaxRuns \in Nat

\* What a search by name, with or without its extension, may take for another
\* download: one recorded under that name, or one whose directory has it.
Named(d, name) == InputName[d] = name \/ NameOf[d] \in {name, CleanName[name]}

\* Earlier versions recorded each directory under the name of its download, with
\* the id that was passed or found under that name.
ASSUME RowsAssumption ==
    /\ InitialRows \subseteq Table(Downloads, Texts)
    /\ \A tab \in InitialRows : \A i \in DOMAIN tab :
          /\ tab[i].dir \in Downloads => tab[i].name = InputName[tab[i].dir]
          /\ tab[i].id \in Downloads => Named(tab[i].id, tab[i].name)

VARIABLES
    config,     \* the settings this installation runs with
    at,         \* where each download is: under its own name, tagged or gone
    holds,      \* what its directory holds: an archive, intact or broken
                \* videos, or nothing that counts as media
    lib,        \* the downloads of which the manager's library has a copy
    moving,     \* the downloads that the manager is at work on
    rows,       \* the downloads table
    run,        \* the running process, or Idle
    started,    \* how many runs were started
    accepted,   \* downloads whose section returned 0 since they were last recorded
    early,      \* downloads accepted while the manager was at work on them
    settled,    \* downloads marked done under their own name since then
    rejected    \* downloads whose manager was told that they failed

disk == <<at, holds, lib, moving>>
history == <<started, accepted, early, settled, rejected>>
vars == <<config, disk, rows, run, history>>

Idle == [pc |-> "idle", manual |-> FALSE, todo |-> {}, cur |-> "none", dir |-> "own",
         input |-> "own", agent |-> "manual", id |-> "none", name |-> "none",
         said |-> 0, status |-> 0, result |-> 0, FAILED |-> FALSE]

Init ==
    /\ config \in Configs
    /\ at = [d \in Downloads |-> "own"]
    /\ holds \in InitialHolds
    /\ lib = {} /\ moving = {}
    /\ rows \in InitialRows
    /\ run = Idle
    /\ started = 0
    /\ accepted = {} /\ early = {} /\ settled = {} /\ rejected = {}

At(l) == run.pc = l
Goto(l) == run' = [run EXCEPT !.pc = l]
Fault(k) == k \in Faults
cur == run.cur

\* The script ends with an exception, which ends a manual run as well.
Abort == run' = Idle

\* nzb.process returns: to the client, or to the loop of the manual run.
Return == run' = IF run.manual THEN [Idle EXCEPT !.pc = "next", !.manual = TRUE,
                                          !.todo = run.todo, !.FAILED = run.FAILED]
                               ELSE Idle

Present(p) == at[cur] = p
HasVideos(d) == holds[d] \in {"intact", "foreign", "broken"}
Videos == Present(run.dir) /\ HasVideos(cur)
Unpacks == config.extract /\ ~(run.status > 0 /\ config.noExtractFailed)

-----------------------------------------------------------------------------
(* nzbToMedia.main and manual.process: how a run starts and goes on        *)

\* An id that is missing is written to the table as text.
Stored(id) == IF id # "none" THEN id ELSE IF config.client = "sabnzbd" THEN "None" ELSE ""
Loaded(id) == IF id = "" THEN "none" ELSE id

StartClient(d, status) ==
    /\ At("idle") /\ started < MaxRuns
    /\ started' = started + 1
    /\ run' = [Idle EXCEPT !.pc = IF d \in Identified \/ config.client = "nzbget"
                                  THEN "record" ELSE "lookup",
                           !.cur = d, !.agent = config.client, !.name = InputName[d],
                           !.id = IF d \in Identified THEN d ELSE "none",
                           !.said = status, !.status = status]
    /\ UNCHANGED <<config, disk, rows, accepted, early, settled, rejected>>

\* A program that is no client names a directory: nothing is recorded.
StartGeneric(d) ==
    /\ At("idle") /\ started < MaxRuns
    /\ started' = started + 1
    /\ run' = [Idle EXCEPT !.pc = "category", !.cur = d, !.name = InputName[d],
                           !.id = IF d \in Identified THEN d ELSE "none"]
    /\ UNCHANGED <<config, disk, rows, accepted, early, settled, rejected>>

\* get_dirs: directories that are not watched, or hold files still being synced,
\* are passed over.  A loose file has been given a directory of its own by then.
StartManual ==
    /\ At("idle") /\ started < MaxRuns
    /\ started' = started + 1
    /\ \E dirs \in SUBSET {d \in Downloads : at[d] # "gone"} \ {{}} :
            run' = [Idle EXCEPT !.pc = "next", !.manual = TRUE, !.todo = dirs]
    /\ UNCHANGED <<config, disk, rows, accepted, early, settled, rejected>>

\* Broken variant: whatever the name is, the first pending row is taken.
FirstOfAll(d) == {i \in DOMAIN rows : rows[i].status = 0}

\* The rows under the name of the directory, which a tag has changed.
Known(d) == IF at[d] = "own" THEN Pending(rows, NameOf[d]) ELSE {}

NextDir(d) ==
    /\ At("next") /\ d \in run.todo
    /\ LET info == rows[CHOOSE i \in Known(d) : \A j \in Known(d) : i <= j]
           rest == run.todo \ {d}
           begin(agent, id) == [run EXCEPT !.pc = "category", !.todo = rest, !.cur = d,
                                           !.dir = at[d], !.input = at[d], !.name = NameOf[d],
                                           !.agent = agent, !.id = id]
       IN  \/ Known(d) = {} /\ run' = begin("manual", "none")
           \/ /\ Known(d) # {} /\ info.agent \in {"nzbget", "sabnzbd"}
              /\ run' = begin(info.agent, Loaded(info.id))
           \/ /\ Known(d) # {} /\ info.agent \notin {"nzbget", "sabnzbd"}
              /\ run' = [run EXCEPT !.todo = rest]
           \/ Fault("locked") /\ Abort
    /\ UNCHANGED <<config, disk, rows, history>>

EndRun ==
    /\ At("next") /\ run.todo = {}
    /\ run' = Idle
    /\ UNCHANGED <<config, disk, rows, history>>

-----------------------------------------------------------------------------
(* nzb.process, up to the section                                          *)

\* get_nzoid: the queue and the history of SABnzbd are searched for the name; any
\* download of that name may come first.
Lookup ==
    /\ At("lookup")
    /\ \/ \E id \in {d \in Downloads : NameOf[d] \in {run.name, CleanName[run.name]}}
                     \cup {"none"} : run' = [run EXCEPT !.pc = "record", !.id = id]
       \/ Fault("raise") /\ Abort
    /\ UNCHANGED <<config, disk, rows, history>>

\* Broken variant: the id is recorded, but not the name the client passed.
RecordDirName == NameOf[cur]

RecordedName == run.name

Record ==
    /\ At("record")
    /\ \/ /\ UpsertRaises(rows, cur)
          /\ Abort /\ UNCHANGED <<rows, accepted, settled>>
       \/ /\ ~UpsertRaises(rows, cur)
          /\ \E locked \in IF Fault("locked") THEN BOOLEAN ELSE {FALSE} :
                rows' = Upsert(rows, cur, RecordedName, run.agent, Stored(run.id), locked)
          /\ accepted' = accepted \ {cur} /\ settled' = settled \ {cur}
          /\ Goto("category")
       \/ /\ Fault("locked")
          /\ Goto("category") /\ UNCHANGED <<rows, accepted, settled>>
    /\ UNCHANGED <<config, disk, started, early, rejected>>

\* A category for which the configuration does not enable exactly one section
\* ends the call with -1.
Category ==
    /\ At("category")
    /\ \/ Goto("extract")
       \/ Fault("config") /\ Return
    /\ UNCHANGED <<config, disk, rows, history>>

\* Extraction leaves videos, or the archive if it failed.
Unpacked == IF Fault("io") THEN {"archive", "intact", "broken"} ELSE {"intact", "foreign"}

AfterUnpacking(h) ==
    IF Unpacks /\ Present(run.dir) /\ h = "archive" THEN Unpacked ELSE {h}

Extract ==
    /\ At("extract")
    /\ \E h \in AfterUnpacking(holds[cur]) : holds' = [holds EXCEPT ![cur] = h]
    /\ Goto("identify")
    /\ UNCHANGED <<config, at, lib, moving, rows, history>>

-----------------------------------------------------------------------------
(* The section's process function                                          *)

Result(r) == run' = [run EXCEPT !.pc = "plex", !.result = r]
Accept(r) == IF r = 0 THEN /\ accepted' = accepted \cup {cur}
                           /\ early' = early \cup ({cur} \cap moving)
                      ELSE UNCHANGED <<accepted, early>>

\* find_imdbid: an id that only the OMDb server knows is put into the name of
\* the directory, before anything else can fail.
Identify ==
    /\ At("identify")
    /\ \/ Goto("respond") /\ UNCHANGED at
       \/ /\ config.section \in Movies /\ Present("own") /\ run.dir = "own"
          /\ at' = [at EXCEPT ![cur] = "tagged"]
          /\ run' = [run EXCEPT !.pc = "respond", !.dir = "tagged"]
       \/ /\ config.section \in Movies /\ ~Present("own") /\ run.dir = "own"
          /\ Abort /\ UNCHANGED at
    /\ UNCHANGED <<config, holds, lib, moving, rows, history>>

\* Whether the section leaves unpacking to a manager that takes a process method.
Passed == /\ config.section \in Series /\ config.processMethod
          /\ run.agent = "manual" \/ config.byDestination

\* The manager does not answer, or it does; then the sections for series
\* create a directory that is missing, and an archive is tried again.
Respond ==
    /\ At("respond")
    /\ \/ Fault("io") /\ Result(1) /\ UNCHANGED <<at, holds>>
       \/ /\ config.section \in Series /\ at[cur] = "gone"
          /\ at' = [at EXCEPT ![cur] = "own"] /\ holds' = [holds EXCEPT ![cur] = "empty"]
          /\ Goto("judge")
       \/ /\ ~(config.section \in Series /\ at[cur] = "gone")
          /\ \E h \in IF Passed THEN {holds[cur]} ELSE AfterUnpacking(holds[cur]) :
                holds' = [holds EXCEPT ![cur] = h]
          /\ Goto("judge") /\ UNCHANGED at
    /\ UNCHANGED <<config, lib, moving, rows, history>>

\* Broken variant: a video that cannot be checked is taken for a broken one.
OnlyIfChecked == config.checkMedia /\ holds[cur] = "intact"

Fits(d) == holds[d] = "intact" \/ (holds[d] = "foreign" /\ ~config.requireLan)

\* is_video_good: without a check the client is believed.
Good == IF config.checkMedia /\ ~(run.status > 0 /\ config.noExtractFailed)
        THEN Fits(cur) ELSE run.status = 0

\* A series without videos is judged by the client if the manager unpacks.
Believed == config.section \in Series /\ config.byDestination

Status(s) == run' = [run EXCEPT !.pc = "dispatch", !.status = s]

Judge ==
    /\ At("judge")
    /\ \/ config.section = "HeadPhones" /\ Status(run.status)
       \/ config.section # "HeadPhones" /\ Videos /\ Status(IF Good THEN 0 ELSE 1)
       \/ config.section # "HeadPhones" /\ ~Videos /\ run.agent = "manual" /\ Result(0)
       \/ config.section # "HeadPhones" /\ ~Videos /\ run.agent # "manual"
          /\ Status(IF Believed THEN run.status ELSE 1)
    /\ Accept(IF run'.pc = "plex" THEN 0 ELSE 1)
    /\ UNCHANGED <<config, disk, rows, started, settled, rejected>>

\* The manager is asked to process the directory, and goes about it on its own.
HandOver ==
    /\ At("dispatch") /\ run.status = 0
    /\ moving' = moving \cup {cur}
    /\ Goto("wait")
    /\ UNCHANGED <<config, at, holds, lib, rows, history>>

\* The section asks for the outcome for a while, and answers 0 also if it then
\* relies on completed download handling or never asks.
Answer ==
    /\ At("wait")
    /\ \E r \in {0, 1} : Result(r) /\ Accept(r)
    /\ UNCHANGED <<config, disk, rows, started, settled, rejected>>

\* The transcoding or the request failed (1), or no manager is configured (0).
Withhold ==
    /\ At("dispatch") /\ run.status = 0
    /\ \E r \in {0, 1} : Result(r) /\ Accept(r)
    /\ UNCHANGED <<config, disk, rows, started, settled, rejected>>

Deleted == config.section \in CleanedSections /\ config.deleteFailed /\ Present(run.dir)

\* The download failed: the manager is told, which may make it look for another
\* release (0), and the directory is deleted, for SickBeard if it answered.
Reject ==
    /\ At("dispatch") /\ run.status # 0
    /\ rejected' = rejected \cup {cur}
    /\ \E r \in IF config.section \in Retrying THEN {0, 1} ELSE {1} :
          /\ run' = [run EXCEPT !.pc = "plex", !.result = r,
                                !.FAILED = @ \/ config.section # "HeadPhones"]
          /\ Accept(r)
    /\ \/ Deleted /\ at' = [at EXCEPT ![cur] = "gone"] /\ holds' = [holds EXCEPT ![cur] = "empty"]
       \/ ~Deleted /\ UNCHANGED <<at, holds>>
       \/ Deleted /\ config.section = "SickBeard" /\ run'.result = 1 /\ UNCHANGED <<at, holds>>
    /\ UNCHANGED <<config, lib, moving, rows, started, settled>>

\* An exception in the section, or a Plex server that does not answer.
Raise ==
    /\ Fault("raise")
    /\ \/ At("dispatch") \/ At("wait")
       \/ At("plex") /\ ~run.FAILED
    /\ Abort
    /\ UNCHANGED <<config, disk, rows, history>>

-----------------------------------------------------------------------------
(* nzb.process, after the section                                          *)

\* Broken variant: the section's result is not looked at.
IgnoreResult ==
    /\ At("plex")
    /\ Goto(IF run.agent # "manual" THEN "mark" ELSE "clean")
    /\ UNCHANGED <<config, disk, rows, history>>

Plex ==
    /\ At("plex")
    /\ \/ run.result # 0 /\ Return
       \/ run.result = 0 /\ Goto(IF run.agent # "manual" THEN "mark" ELSE "clean")
    /\ UNCHANGED <<config, disk, rows, history>>

Mark ==
    /\ At("mark")
    /\ \/ /\ rows' = SetStatus(rows, run.name, 1)
          /\ settled' = IF run.name = InputName[cur] THEN settled \cup {cur} ELSE settled
       \/ Fault("locked") /\ UNCHANGED <<rows, settled>>
    /\ Goto("clean")
    /\ UNCHANGED <<config, disk, started, accepted, early, rejected>>

Forced == config.forceClean /\ ~run.FAILED

\* Broken variant: files that are still there do not count.
CleanedAnyway == TRUE

\* clean_dir finds no file: there is none, all are ignored, or one was moved while
\* it was listing, which raises and counts as none.
Cleaned == Forced \/ holds[cur] = "empty" \/ cur \in Small \/ cur \in moving

\* clean_directory, of the directory as the run was given it; audio, subtitles or
\* an archive may be left and keep it.
Clean ==
    /\ At("clean")
    /\ \/ /\ config.section \in CleanedSections /\ Present(run.input) /\ Cleaned
          /\ at' = [at EXCEPT ![cur] = "gone"] /\ holds' = [holds EXCEPT ![cur] = "empty"]
       \/ /\ ~(config.section \in CleanedSections /\ Present(run.input) /\ Forced)
          /\ UNCHANGED <<at, holds>>
    /\ Return
    /\ UNCHANGED <<config, lib, moving, rows, history>>

-----------------------------------------------------------------------------
(* The manager                                                             *)

\* The last video is taken, moved or copied.
Take(d) ==
    /\ d \in moving /\ HasVideos(d)
    /\ lib' = lib \cup {d} /\ moving' = moving \ {d}
    /\ \/ UNCHANGED <<at, holds>>
       \/ /\ holds' = [holds EXCEPT ![d] = "empty"]
          /\ at' \in {at, [at EXCEPT ![d] = "gone"]}
    /\ UNCHANGED <<config, rows, run, history>>

\* It imports nothing, or stops half way and leaves the rest where it is.
GiveUp(d) ==
    /\ d \in moving
    /\ moving' = moving \ {d}
    /\ UNCHANGED <<config, at, holds, lib, rows, run, history>>

-----------------------------------------------------------------------------
Crash ==
    /\ Fault("crash") /\ ~At("idle")
    /\ run' = Idle
    /\ UNCHANGED <<config, disk, rows, history>>

Next ==
    \/ \E d \in Downloads : (\E s \in {0, 1} : StartClient(d, s)) \/ StartGeneric(d)
    \/ StartManual
    \/ \E d \in run.todo : NextDir(d)
    \/ EndRun \/ Lookup \/ Record \/ Category \/ Extract
    \/ Identify \/ Respond \/ Judge \/ HandOver \/ Answer \/ Withhold \/ Reject \/ Raise
    \/ Plex \/ Mark \/ Clean
    \/ \E d \in moving : Take(d) \/ GiveUp(d)
    \/ Crash

Spec == Init /\ [][Next]_vars

-----------------------------------------------------------------------------
(* Properties                                                              *)

Steps == {"idle", "next", "lookup", "record", "category", "extract", "identify",
          "respond", "judge", "dispatch", "wait", "plex", "mark", "clean"}

RunType == [pc : Steps, manual : BOOLEAN, todo : SUBSET Downloads,
            cur : Downloads \cup {"none"}, dir : {"own", "tagged", "gone"},
            input : {"own", "tagged", "gone"}, agent : {"manual", "nzbget", "sabnzbd"},
            id : Downloads \cup Texts, name : Texts, said : {0, 1}, status : {0, 1},
            result : {0, 1}, FAILED : BOOLEAN]

TypeOK ==
    /\ config \in Configs
    /\ at \in [Downloads -> {"own", "tagged", "gone"}]
    /\ holds \in [Downloads -> Contents]
    /\ rows \in Table(Downloads, Texts)
    /\ started \in 0..MaxRuns
    /\ lib \cup moving \cup accepted \cup early \cup settled \cup rejected \subseteq Downloads
    /\ run \in RunType /\ (run.pc \notin {"idle", "next"} => run.cur \in Downloads)
    /\ run.pc \in {"mark", "clean"} => run.result = 0

\* Downloads whose name the client passes for no other, nor is it another's
\* directory's: a mark by name can only be theirs.
Unshared == {d \in Downloads : \A e \in Downloads \ {d} :
                                    InputName[d] \notin {InputName[e], NameOf[e]}}

\* ImplementsBookkeeping: whatever fails and however often a download is handed
\* over, one that shares its name with no other is done only after its own section
\* accepted it, and stays so until it is handed over again.
Book == INSTANCE Bookkeeping WITH
            Downloads <- Unshared,
            phase <- [d \in Unshared |-> Phase(rows, InputName[d])],
            accepted <- accepted \cap Unshared

ImplementsBookkeeping == Book!Spec

\* SettledIsDone: a download marked done under its own name, which no other has,
\* is not pending under any of the rows that its hand-overs left behind.
SettledIsDone == \A d \in settled \cap Unshared : Phase(rows, InputName[d]) # "pending"

\* ManualRunsIdentify: the id that a manual run gives the section is that of the
\* download whose directory it processes or of one that shares a name with it,
\* however the rows it found came about (manual.py:41-61, nzb/utils.py:37-55).
ManualRunsIdentify ==
    At("dispatch") /\ run.manual /\ run.id \in Downloads =>
        run.id = cur \/ Named(run.id, NameOf[cur])

\* NoSilentLoss: the videos of a download are in its directory or in the library,
\* except where cleaning is forced or ignores them (minSize), where it failed and
\* failed downloads are deleted, and where the section accepted it while the
\* manager was still at work, and so had its directory cleaned.
NoSilentLoss ==
    \A d \in Downloads :
        \/ d \in lib \/ holds[d] # "empty"
        \/ config.forceClean \/ d \in Small
        \/ config.deleteFailed /\ d \in rejected
        \/ d \in early

\* RejectedForAReason: a manager is not told that a download failed which the
\* client reported as complete and whose videos are intact, in a required language
\* if there are any, unless an earlier run renamed its directory, which a retry by
\* the client does not find.
RejectedForAReason ==
    At("dispatch") /\ run.status # 0 /\ run.said = 0 /\ Fits(cur) =>
        at[cur] = "tagged" /\ run.dir = "own"
=============================================================================
