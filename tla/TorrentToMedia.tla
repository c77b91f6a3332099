--------------------------- MODULE TorrentToMedia ---------------------------
(***************************************************************************)
(* One run of TorrentToMedia.py after another: a torrent client calls it   *)
(* when a download completes, or a manual run goes through the directories *)
(* it finds.  A run records the download, pauses the torrent, links its    *)
(* files into the output directory, lets a section look at them there and  *)
(* hand them to a media manager, and then resumes or removes the torrent,  *)
(* while the manager may still be at work.  The process can die between    *)
(* any two steps; ProcessLock keeps runs from overlapping.                 *)
(***************************************************************************)
EXTENDS DownloadDB, FiniteSets

CONSTANTS
    Torrents,
    Files,          \* the files of all torrents
    Targets,        \* the paths in the output directories they are linked to
    Archives,       \* the files that are archives
    Texts,          \* the names, agents and ids that occur
    NameOf,         \* [Torrents -> names], as the client and the disk have it
    FoundName,      \* [Torrents -> names], after category_search
    Unsafe,         \* torrents whose output is the protected default directory
    CommonDir,      \* torrents downloaded into a directory shared with others
    Failable,       \* torrents whose section handles failed downloads
    Movies,         \* torrents whose section looks for the id of a movie
    UserScript,     \* torrents handled by a user script
    InitialRows,    \* contents of the downloads table left by earlier versions
    Configs,        \* the settings of autoProcessMedia.cfg to consider, each with
                    \* the torrent of every file and its path in the output
                    \* directory, where files of one or two torrents may meet
    Faults,         \* the faults that may occur
    MaxRuns         \* bound: how many calls and directories of manual runs are started

FaultKinds == {"config", "crash", "io", "rpc", "raise", "locked"}

LinkModes == {"no", "hard", "sym", "move", "move-sym"}

\* noLink is Torrent_NoLink; tag says that movie ids can be looked up (omdbapikey),
\* rename that the section finds file names to put right, or transcodes; linksBack
\* that the manager leaves links where it took files, which move-sym asks for; small
\* are the files below minSize.
Settings == [useLink : LinkModes, noLink : BOOLEAN, deleteOriginal : BOOLEAN,
             resume : BOOLEAN, resumeOnFailure : BOOLEAN, forceClean : BOOLEAN,
             extract : BOOLEAN, keepArchive : BOOLEAN, deleteFailed : BOOLEAN,
             tag : BOOLEAN, rename : BOOLEAN, linksBack : BOOLEAN, small : SUBSET Files,
             of : [Files -> Torrents], target : [Files -> Targets]]

ASSUME TorrentAssumption ==
    /\ IsFiniteSet(Torrents) /\ Archives \subseteq Files
    /\ {"none", "manual", "client"} \subseteq Texts
    /\ {NULL, "none"} \cap Torrents = {}
    /\ NameOf \in [Torrents -> Texts] /\ FoundName \in [Torrents -> Texts]
    /\ Unsafe \cup CommonDir \cup Failable \cup Movies \cup UserScript \subseteq Torrents
    /\ Configs \subseteq Settings
    /\ Faults \subseteq FaultKinds
    /\ MaxRuns \in Nat

\* Earlier versions recorded each torrent under its own name and id.
ASSUME RowsAssumption ==
    /\ InitialRows \subseteq Table(Torrents, Texts)
    /\ \A tab \in InitialRows : \A i \in DOMAIN tab :
          /\ tab[i].dir \in Torrents => tab[i].name = NameOf[tab[i].dir]
          /\ tab[i].agent = "client" =>
                tab[i].id \in Torrents /\ tab[i].name = NameOf[tab[i].id]

VARIABLES
    config,     \* the settings this installation runs with, and its torrents' files
    client,     \* each torrent in its client: seeding, paused or removed
    src,        \* each file's path in the download directory
    dst,        \* each path of the output directories
    lib,        \* the files of which the manager's library has a copy
    moving,     \* the directories that the manager is at work on
    rows,       \* the downloads table
    run,        \* the running process, or Idle
    started,    \* how many calls by clients and directories of manual runs
    accepted,   \* torrents whose section returned 0 since they were last recorded
    early,      \* torrents accepted while the manager was taking files from their
                \* directory, or had taken some while the run linked them
    rejected,   \* torrents whose section took them for failed downloads
    settled,    \* torrents marked done since they were last handed over
    passed,     \* files a run went past without a complete copy of them
    replaced,   \* files whose copy in the output directory another file replaced
    stranded,   \* files that were moved and could not be linked back
    hurt        \* torrents met by a fault while being processed

disk == <<src, dst, lib, moving>>
outside == <<config, client, disk, rows>>
verdicts == <<accepted, early, rejected, settled>>
fates == <<passed, replaced, stranded>>
history == <<started, verdicts, fates, hurt>>
vars == <<outside, run, history>>

Of(f) == config.of[f]
FilesOf(t) == {f \in Files : Of(f) = t}
TargetsOf(t) == {config.target[f] : f \in FilesOf(t)}

\* The section may rename the output directory of a torrent and the files in it.
Dirs == {"own", "tagged"}
Slots == Targets \X Dirs \X {"given", "fixed"}
Contents(t, dir) == TargetsOf(t) \X {dir} \X {"given", "fixed"}

\* Where copy_link puts a file, and all the places it may be found at later.
Target(f) == <<config.target[f], "own", "given">>
Homes(f) == {config.target[f]} \X Dirs \X {"given", "fixed"}

\* A path of an output directory: nothing, the data of a file (or a part of it),
\* a link to the download directory or a link to the library.
Nothing == [kind |-> "nothing", file |-> "none"]
Data(f) == [kind |-> "data", file |-> f]
Part(f) == [kind |-> "part", file |-> f]
ToSrc(f) == [kind |-> "toSrc", file |-> f]
ToLib(f) == [kind |-> "toLib", file |-> f]

\* os.path.exists follows links.
Dangling(s) == dst[s].kind = "toSrc" /\ src[dst[s].file] # "data"
Exists(s) == dst[s] # Nothing /\ ~Dangling(s)

Idle == [pc |-> "idle", manual |-> FALSE, todo |-> {}, cur |-> "none",
         from |-> "src", dir |-> "own", agent |-> "manual", id |-> "none", name |-> "none",
         files |-> {}, status |-> 1, result |-> 0, FAILED |-> FALSE]

Init ==
    /\ config \in Configs
    /\ client = [t \in Torrents |-> "seeding"]
    /\ src = [f \in Files |-> "data"]
    /\ dst = [s \in Slots |-> Nothing]
    /\ lib = {} /\ moving = {}
    /\ rows \in InitialRows
    /\ run = Idle
    /\ started = 0
    /\ accepted = {} /\ early = {} /\ rejected = {} /\ settled = {}
    /\ passed = {} /\ replaced = {} /\ stranded = {} /\ hurt = {}

At(l) == run.pc = l
Goto(l) == run' = [run EXCEPT !.pc = l]
Fault(k) == k \in Faults
cur == run.cur

\* The script ends with an exception, or returns a list whose missing
\* status_code raises in main; either way a manual run stops here.
Abort == run' = Idle

DeletesTorrent == config.deleteOriginal \/ config.useLink = "move"

Interrupted == hurt \cup ({cur, run.id} \cap Torrents)

-----------------------------------------------------------------------------
(* main: how a run starts, picks the next directory, and ends              *)

StartClient(t) ==
    /\ At("idle") /\ started < MaxRuns /\ client[t] # "removed"
    /\ started' = started + 1
    /\ run' = [Idle EXCEPT !.pc = "record", !.cur = t, !.agent = "client",
                           !.id = t, !.name = NameOf[t]]
    /\ UNCHANGED <<outside, verdicts, fates, hurt>>

\* get_dirs scans the output directory too when files are moved there.  A loose
\* file gets a directory of its own, one more that no row knows of.
ManualDirs ==
    {<<t, "src">> : t \in {Of(f) : f \in {g \in Files : src[g] # "absent"}}}
    \cup {d \in Torrents \X Dirs : /\ config.useLink = "move"
                                   /\ \E s \in Contents(d[1], d[2]) : dst[s] # Nothing}

\* Directories that are not watched, or hold files still being synced, are passed
\* over.
StartManual ==
    /\ At("idle")
    /\ \E dirs \in SUBSET ManualDirs \ {{}} :
            /\ started + Cardinality(dirs) <= MaxRuns
            /\ started' = started + Cardinality(dirs)
            /\ run' = [Idle EXCEPT !.pc = "next", !.manual = TRUE, !.todo = dirs]
    /\ UNCHANGED <<outside, verdicts, fates, hurt>>

\* A tag is part of the name that is looked for, so no row has it.
Known(d) == IF d[2] = "tagged" THEN {} ELSE Pending(rows, NameOf[d[1]])

\* The agent and the id come from the first pending row of the name, be it this
\* torrent's or that of another with the same name.
NextDir(d) ==
    /\ At("next") /\ d \in run.todo
    /\ LET info == First(rows, NameOf[d[1]])
           rest == run.todo \ {d}
           begin(a, i) == [run EXCEPT !.pc = "search", !.todo = rest, !.cur = d[1], !.from = d[2],
                                      !.dir = IF d[2] = "tagged" THEN "tagged" ELSE "own",
                                      !.agent = a, !.id = i, !.name = NameOf[d[1]], !.status = 1]
       IN  \/ Known(d) = {} /\ run' = begin("manual", "none")
           \/ Known(d) # {} /\ info.agent = "client" /\ run' = begin("client", info.id)
           \/ Known(d) # {} /\ info.agent # "client" /\ run' = [run EXCEPT !.todo = rest]
           \/ Fault("locked") /\ Abort
    /\ UNCHANGED <<outside, history>>

EndRun ==
    /\ At("next") /\ run.todo = {}
    /\ run' = Idle
    /\ UNCHANGED <<outside, history>>

-----------------------------------------------------------------------------
(* process_torrent, up to the output directory                             *)

Record ==
    /\ At("record")
    /\ \/ /\ UpsertRaises(rows, cur)
          /\ Abort /\ UNCHANGED <<rows, accepted, settled>>
       \/ /\ ~UpsertRaises(rows, cur)
          /\ \E locked \in IF Fault("locked") THEN BOOLEAN ELSE {FALSE} :
                rows' = Upsert(rows, cur, run.name, "client", run.id, locked)
          /\ accepted' = accepted \ {cur} /\ settled' = settled \ {cur}
          /\ Goto("search")
       \/ /\ Fault("locked")
          /\ Goto("search") /\ UNCHANGED <<rows, accepted, settled>>
    /\ UNCHANGED <<config, client, disk, started, early, rejected, fates, hurt>>

\* category_search may replace the name; a category for which the configuration
\* does not enable exactly one section ends the run before the torrent is touched.
Search ==
    /\ At("search")
    /\ \/ run' = [run EXCEPT !.pc = "pause",
                        !.name = IF run.manual THEN @ ELSE FoundName[cur]]
       \/ Fault("config") /\ Abort
    /\ UNCHANGED <<outside, history>>

\* A call to the torrent client that fails is logged and forgotten.
Rpc(t, state) ==
    \/ client' = [client EXCEPT ![t] = IF @ = "removed" THEN @ ELSE state] /\ UNCHANGED hurt
    \/ Fault("rpc") /\ UNCHANGED client /\ hurt' = hurt \cup {t}

Pause ==
    /\ At("pause")
    /\ IF run.agent # "manual" THEN Rpc(run.id, "paused") ELSE UNCHANGED <<client, hurt>>
    /\ Goto("prepare")
    /\ UNCHANGED <<config, disk, rows, started, verdicts, fates>>

Resolves(f) == \/ src[f] \in {"data", "toLib"}
               \/ src[f] = "toDst" /\ dst[Target(f)].kind \in {"data", "toLib"}

\* In an output directory every file is its own target and is skipped.
InputFiles == IF run.from # "src" THEN {}
              ELSE {f \in FilesOf(cur) : /\ src[f] # "absent"
                                         /\ config.extract => f \notin Archives}

\* Listing the files asks for the size of each: a dangling link raises.
Unlistable == \E f \in InputFiles : ~Resolves(f)

Prepare ==
    /\ At("prepare")
    /\ IF cur \in Unsafe \/ Unlistable THEN Abort
       ELSE run' = [run EXCEPT !.pc = "link", !.files = InputFiles]
    /\ hurt' = IF Unlistable THEN Interrupted ELSE hurt
    /\ passed' = IF run.from # "src" /\ cur \notin Unsafe
                 THEN passed \cup {f \in FilesOf(cur) : src[f] = "data"} ELSE passed
    /\ UNCHANGED <<outside, started, verdicts, replaced, stranded>>

-----------------------------------------------------------------------------
(* copy_link, one file at a time                                           *)

DoneWith(f) == run' = [run EXCEPT !.files = @ \ {f}]

\* What is found at the target stays there, whatever it is.
SkipExisting(f) ==
    /\ Exists(Target(f))
    /\ passed' = IF dst[Target(f)] = Data(f) THEN passed ELSE passed \cup {f}
    /\ UNCHANGED <<src, dst, stranded>>

\* Torrent_NoLink, or no match for the torrent in a common directory.
SkipUnlinked(f) ==
    /\ config.noLink \/ cur \in CommonDir
    /\ passed' = passed \cup {f}
    /\ UNCHANGED <<src, dst, stranded>>

\* Moving a source that is a link moves the link; one that led to the target, from
\* which the manager has just taken the file, then leads nowhere.
NewDst(f) == IF config.useLink = "sym" \/ src[f] = "toDst" THEN ToSrc(f)
             ELSE IF src[f] = "toLib" THEN ToLib(f) ELSE Data(f)

\* Broken variant: the moved file is not linked back.
NoLinkBack(f) == IF config.useLink \in {"move", "move-sym"} THEN "absent" ELSE src[f]

NewSrc(f) == IF config.useLink = "move" THEN "absent"
             ELSE IF config.useLink = "move-sym" THEN "toDst" ELSE src[f]

LinkInto(f) ==
    /\ dst' = [dst EXCEPT ![Target(f)] = NewDst(f)]
    /\ src' = [src EXCEPT ![f] = NewSrc(f)]
    /\ UNCHANGED <<passed, stranded>>

\* Linking raised: the file is copied instead, or that fails as well.
Copy(f) ==
    /\ src[f] = "data"
    /\ dst' = [dst EXCEPT ![Target(f)] = Data(f)]
    /\ UNCHANGED <<src, passed, stranded>>

CopyFails(f) ==
    /\ \/ src[f] # "toDst" /\ dst' = [dst EXCEPT ![Target(f)] = Part(f)]
       \/ UNCHANGED dst
    /\ passed' = passed \cup {f}
    /\ UNCHANGED <<src, stranded>>

\* Moved, but not linked back: the copy then has no source.
MovedOnly(f) ==
    /\ config.useLink = "move-sym"
    /\ dst' = [dst EXCEPT ![Target(f)] = NewDst(f)]
    /\ src' = [src EXCEPT ![f] = "absent"]
    /\ stranded' = stranded \cup {f}
    /\ UNCHANGED passed

Link(f) ==
    /\ At("link") /\ f \in run.files
    /\ \/ SkipUnlinked(f)
       \/ ~config.noLink /\ SkipExisting(f)
       \/ ~config.noLink /\ ~Exists(Target(f)) /\ LinkInto(f)
       \/ ~config.noLink /\ ~Exists(Target(f)) /\ Fault("io")
          /\ (Copy(f) \/ CopyFails(f) \/ MovedOnly(f))
    /\ DoneWith(f)
    /\ UNCHANGED <<config, client, lib, moving, rows, started, verdicts, replaced, hurt>>

-----------------------------------------------------------------------------
(* Extraction, which also removes the archives from the download directory *)

\* The directory that files are linked into, and that is cleaned in the end.
Output == IF run.from = "tagged" THEN "tagged" ELSE "own"

SourceArchives == IF run.from = "src" /\ config.extract
                  THEN {a \in Archives \cap FilesOf(cur) : src[a] = "data"} ELSE {}

\* Archives that share a stem with another are left to ExtractFiles.
RemovedArchives(done) == IF config.keepArchive THEN {} ELSE done

\* Only these sections are told that a download without videos failed.
StatusWith(d) == IF cur \in Failable /\ config.extract
                    /\ \A s \in Contents(cur, Output) : d[s] = Nothing THEN 1 ELSE 0

Extract ==
    /\ At("link") /\ run.files = {}
    /\ \E done \in IF Fault("io") THEN SUBSET SourceArchives ELSE {SourceArchives} :
        /\ dst' = [s \in Slots |->
                     IF \E a \in done : Target(a) = s
                     THEN Data(CHOOSE a \in done : Target(a) = s) ELSE dst[s]]
        /\ src' = [f \in Files |-> IF f \in RemovedArchives(done) THEN "absent" ELSE src[f]]
        /\ passed' = passed \cup (SourceArchives \ done)
        /\ replaced' = replaced \cup {g \in Files : /\ g \in done \/ dst[Target(g)].file = g
                                                    /\ dst'[Target(g)].file # g}
    /\ run' = [run EXCEPT !.pc = "section", !.status = StatusWith(dst')]
    /\ UNCHANGED <<config, client, lib, moving, rows, started, verdicts, stranded, hurt>>

-----------------------------------------------------------------------------
(* The section's process function                                          *)

Clear(dir) == \A s \in Contents(cur, dir) : dst[s] = Nothing

\* find_imdbid: an id that only the OMDb server knows is put into the name of the
\* directory; os.rename raises if there is none or the new name is taken.
Tag ==
    /\ At("section") /\ config.tag /\ cur \in Movies /\ run.dir = "own"
    /\ \/ /\ Clear("tagged")
          /\ dst' = [s \in Slots |->
                        IF s[1] \notin TargetsOf(cur) THEN dst[s]
                        ELSE IF s[2] = "own" THEN Nothing ELSE dst[<<s[1], "own", s[3]>>]]
          /\ run' = [run EXCEPT !.dir = "tagged"]
          /\ UNCHANGED hurt
       \/ /\ Clear("own") \/ ~Clear("tagged")
          /\ Abort /\ hurt' = Interrupted /\ UNCHANGED dst
    /\ UNCHANGED <<config, client, src, lib, moving, rows, started, verdicts, fates>>

\* process_all_exceptions, the movie id in file names and transcoding give files of
\* the directory other names; what has the new name already is overwritten.
Rename ==
    /\ At("section")
    /\ \E paths \in SUBSET {x \in TargetsOf(cur) : config.rename} :
        LET given(x) == dst[<<x, run.dir, "given">>]
            fixed(x) == dst[<<x, run.dir, "fixed">>]
            named == {x \in paths : given(x) # Nothing}
        IN  /\ dst' = [s \in Slots |->
                         IF s[1] \notin named \/ s[2] # run.dir THEN dst[s]
                         ELSE IF s[3] = "given" THEN Nothing ELSE given(s[1])]
            /\ replaced' = replaced \cup {g \in Files : \E x \in named :
                                             fixed(x).file = g /\ given(x) # fixed(x)}
    /\ Goto("dispatch")
    /\ UNCHANGED <<config, client, src, lib, moving, rows, started, verdicts, passed,
                   stranded, hurt>>

\* A manager is at work on the directory that will be cleaned, or took a file from it
\* while it was linked: listing the directory may raise, or will.
Dead(s) == dst[s].kind = "toSrc" /\ config.useLink # "sym"
Watched == \/ \E m \in moving : m[2] = Output /\ TargetsOf(m[1]) \cap TargetsOf(cur) # {}
           \/ \E s \in Contents(cur, Output) : Dead(s)

Result(r) == run' = [run EXCEPT !.pc = "plex", !.result = r]
Accept(r) == IF r = 0 THEN /\ accepted' = accepted \cup {cur}
                           /\ early' = IF Watched THEN early \cup {cur} ELSE early
                      ELSE UNCHANGED <<accepted, early>>

\* The manager is asked to process the directory, and goes about it on its own.
HandOver ==
    /\ At("dispatch") /\ run.status = 0
    /\ moving' = moving \cup {<<cur, run.dir>>}
    /\ Goto("wait")
    /\ UNCHANGED <<config, client, src, dst, lib, rows, history>>

\* The section asks for the outcome for a while, and answers 0 also if it then
\* relies on completed download handling or never asks.
Answer ==
    /\ At("wait")
    /\ \E r \in {0, 1} : Result(r) /\ Accept(r)
    /\ UNCHANGED <<outside, started, rejected, settled, fates, hurt>>

\* The manager is not asked: it does not answer, transcoding failed, or a manual
\* run or a section without a manager finds nothing to do.
Withhold ==
    /\ At("dispatch")
    /\ \E r \in IF run.status = 0 \/ run.agent = "manual" THEN {0, 1} ELSE {1} :
            Result(r) /\ Accept(r)
    /\ UNCHANGED <<outside, started, rejected, settled, fates, hurt>>

Emptied(t, dir) == [s \in Slots |-> IF s \in Contents(t, dir) THEN Nothing ELSE dst[s]]

\* The download failed, by its status or by the section's own look at the videos:
\* the manager is told, which may make it look for another release (0), and the
\* directory may be deleted.
Reject ==
    /\ At("dispatch") /\ cur \in Failable
    /\ rejected' = rejected \cup {cur}
    /\ \E r \in {0, 1} :
          /\ run' = [run EXCEPT !.pc = "plex", !.result = r, !.FAILED = TRUE]
          /\ Accept(r)
    /\ \/ UNCHANGED dst
       \/ config.deleteFailed /\ dst' = Emptied(cur, run.dir)
    /\ UNCHANGED <<config, client, src, lib, moving, rows, started, settled, fates, hurt>>

\* An exception, a section returning None, or the Plex server not answering.
Raise ==
    /\ Fault("raise")
    /\ run.pc \in {"section", "dispatch", "wait", "plex"}
    /\ hurt' = Interrupted
    /\ Abort
    /\ UNCHANGED <<outside, started, verdicts, fates>>

-----------------------------------------------------------------------------
(* After the section: the torrent client, the table and the leftovers      *)

\* Broken variant: the section's result is not looked at.
IgnoreResult ==
    /\ At("plex")
    /\ Goto(IF run.agent # "manual" THEN "mark" ELSE "clean")
    /\ UNCHANGED <<outside, history>>

\* Broken variant: a manual run is treated like the client's own.
MarkManual ==
    /\ At("plex")
    /\ Goto(IF run.result # 0 THEN "failed" ELSE "mark")
    /\ UNCHANGED <<outside, history>>

Plex ==
    /\ At("plex")
    /\ Goto(IF run.result # 0 THEN "failed" ELSE IF run.agent # "manual" THEN "mark" ELSE "clean")
    /\ UNCHANGED <<outside, history>>

Return == run' = IF run.manual THEN [Idle EXCEPT !.pc = "next", !.manual = TRUE,
                                          !.todo = run.todo, !.FAILED = run.FAILED]
                               ELSE Idle

\* Broken variant: a failed download leaves its torrent as it is.
StayPaused ==
    /\ At("failed")
    /\ Return
    /\ UNCHANGED <<outside, history>>

Failed ==
    /\ At("failed")
    /\ IF config.resumeOnFailure /\ run.agent # "manual" /\ config.resume
       THEN Rpc(run.id, "seeding") ELSE UNCHANGED <<client, hurt>>
    /\ Return
    /\ UNCHANGED <<config, disk, rows, started, verdicts, fates>>

Mark ==
    /\ At("mark")
    /\ \/ /\ rows' = SetStatus(rows, run.name, 1)
          /\ settled' = IF run.name = NameOf[cur] THEN settled \cup {cur} ELSE settled
       \/ Fault("locked") /\ UNCHANGED <<rows, settled>>
    /\ Goto("relink")
    /\ UNCHANGED <<config, client, disk, started, accepted, early, rejected, fates, hurt>>

\* Broken variant: links are taken for direct ones.
Untouched(f) == src[f]

\* replace_links shortens a chain of two links to one; a single link stays.
Shortened(f) == IF src[f] = "toDst" /\ dst[Target(f)].kind = "toLib"
                THEN "toLib" ELSE src[f]

Relink ==
    /\ At("relink")
    /\ src' = IF config.useLink = "move-sym" /\ ~config.deleteOriginal /\ run.from = "src"
              THEN [f \in Files |-> IF Of(f) = cur THEN Shortened(f) ELSE src[f]]
              ELSE src
    /\ Goto("remove")
    /\ UNCHANGED <<config, client, dst, lib, moving, rows, history>>

\* Removing the torrent deletes what is left in its download directory.
Remove ==
    /\ At("remove")
    /\ IF DeletesTorrent
       THEN \/ /\ client' = [client EXCEPT ![run.id] = "removed"]
               /\ src' = [f \in Files |-> IF Of(f) = run.id THEN "absent" ELSE src[f]]
               /\ UNCHANGED hurt
            \/ Fault("rpc") /\ hurt' = hurt \cup {run.id} /\ UNCHANGED <<client, src>>
       ELSE /\ UNCHANGED src
            /\ IF config.resume THEN Rpc(run.id, "seeding") ELSE UNCHANGED <<client, hurt>>
    /\ Goto("clean")
    /\ UNCHANGED <<config, dst, lib, moving, rows, started, verdicts, fates>>

\* Files below minSize do not count, and delete_ignored has the listing delete them.
Ignored(s) == dst[s] = Nothing \/ dst[s].file \in config.small

\* Broken variant: FORCE_CLEAN is not asked for.
AlwaysCleaned == ~run.FAILED

\* FORCE_CLEAN, or the listing finds no file; a dangling link makes it raise, which
\* clean_dir takes for an empty directory.
Cleaned == \/ config.forceClean /\ ~run.FAILED
           \/ \E s \in Contents(cur, Output) : Dangling(s)
           \/ \A s \in Contents(cur, Output) : Ignored(s)

\* The listing raises as well when a file is moved while it is under way.
Clean ==
    /\ At("clean")
    /\ \/ cur \in UserScript /\ UNCHANGED dst
       \/ cur \notin UserScript /\ (Cleaned \/ Watched) /\ dst' = Emptied(cur, Output)
       \/ /\ cur \notin UserScript /\ ~Cleaned
          /\ \/ UNCHANGED dst
             \/ dst' = [s \in Slots |-> IF s \in Contents(cur, Output) /\ Ignored(s)
                                        THEN Nothing ELSE dst[s]]
    /\ Return
    /\ UNCHANGED <<config, client, src, lib, moving, rows, history>>

-----------------------------------------------------------------------------
(* The manager, which takes one file after another                         *)

\* What it takes; a link to the library is one it left itself.
Offered(s) == dst[s].kind = "data" \/ (dst[s].kind = "toSrc" /\ ~Dangling(s))

Take(m, s) ==
    /\ m \in moving /\ s \in Contents(m[1], m[2]) /\ Offered(s)
    /\ LET f == dst[s].file
       IN  \/ lib' = lib \cup {f} /\ UNCHANGED dst
           \/ /\ config.useLink = "move-sym" /\ config.linksBack
              /\ lib' = lib \cup {f} /\ dst' = [dst EXCEPT ![s] = ToLib(f)]
           \/ \* moved; a link is moved as a link
              /\ ~(config.useLink = "move-sym" /\ config.linksBack)
              /\ lib' = IF dst[s].kind = "data" THEN lib \cup {f} ELSE lib
              /\ dst' = [dst EXCEPT ![s] = Nothing]
    /\ UNCHANGED <<config, client, src, moving, rows, run, history>>

\* It is done, imports nothing, or stops half way and leaves the rest where it is.
GiveUp(m) ==
    /\ m \in moving
    /\ moving' = moving \ {m}
    /\ UNCHANGED <<config, client, src, dst, lib, rows, run, history>>

-----------------------------------------------------------------------------
\* The process is killed; a copy under way is cut short.
Crash ==
    /\ Fault("crash") /\ ~At("idle")
    /\ run' = Idle
    /\ hurt' = Interrupted
    /\ \/ UNCHANGED dst
       \/ \E f \in run.files : /\ At("link") /\ src[f] = "data" /\ ~Exists(Target(f))
                               /\ ~config.noLink
                               /\ dst' = [dst EXCEPT ![Target(f)] = Part(f)]
    /\ UNCHANGED <<config, client, src, lib, moving, rows, started, verdicts, fates>>

Next ==
    \/ \E t \in Torrents : StartClient(t)
    \/ StartManual
    \/ \E d \in run.todo : NextDir(d)
    \/ EndRun \/ Record \/ Search \/ Pause \/ Prepare
    \/ \E f \in run.files : Link(f)
    \/ Extract \/ Tag \/ Rename \/ HandOver \/ Answer \/ Withhold \/ Reject \/ Raise \/ Plex
    \/ Failed \/ Mark \/ Relink \/ Remove \/ Clean
    \/ \E m \in moving : GiveUp(m) \/ \E s \in Slots : Take(m, s)
    \/ Crash

Spec == Init /\ [][Next]_vars

-----------------------------------------------------------------------------
(* Properties                                                              *)

Steps == {"idle", "next", "record", "search", "pause", "prepare", "link", "section",
          "dispatch", "wait", "plex", "failed", "mark", "relink", "remove", "clean"}

From == {"src", "own", "tagged"}

RunType == [pc : Steps, manual : BOOLEAN, todo : SUBSET (Torrents \X From),
            cur : Torrents \cup {"none"}, from : From, dir : Dirs,
            agent : {"manual", "client"}, id : Torrents \cup Texts, name : Texts,
            files : SUBSET Files, status : {0, 1}, result : {0, 1}, FAILED : BOOLEAN]

Entries == {Nothing} \cup [kind : {"data", "part", "toSrc", "toLib"}, file : Files]

TypeOK ==
    /\ config \in Configs
    /\ client \in [Torrents -> {"seeding", "paused", "removed"}]
    /\ src \in [Files -> {"data", "toDst", "toLib", "absent"}]
    /\ dst \in [Slots -> Entries]
    /\ rows \in Table(Torrents, Texts)
    /\ started \in 0..MaxRuns /\ moving \subseteq Torrents \X Dirs
    /\ lib \cup passed \cup replaced \cup stranded \subseteq Files
    /\ accepted \cup early \cup rejected \cup settled \cup hurt \subseteq Torrents
    /\ run \in RunType /\ (run.pc \notin {"idle", "next"} => run.cur \in Torrents)

\* Torrents whose names no other has, neither as recorded nor as category_search
\* finds them: rows and marks under those names are theirs alone.
Unshared == {t \in Torrents : \A u \in Torrents \ {t} :
                                    NameOf[t] \notin {NameOf[u], FoundName[u]}}

\* Paths whose directory one of the torrents has files in.
Near(f, ts) == \E t \in ts : config.target[f] \in TargetsOf(t)

Stored(f) == f \in lib \/ \E s \in Homes(f) : dst[s] = Data(f)
Kept(f) == src[f] = "data" \/ Stored(f)

\* NoSilentLoss: without symbolic links and forced cleaning, no crash, failed call,
\* retry or rename loses the last copy of a file, except where it is ignored
\* (minSize), was overwritten by another, was in the directory of a download that
\* failed and is to be deleted or that was accepted while the manager was at work
\* there (see early), or where its torrent was removed after a run that skipped the file or
\* could not link or extract it, or that meant another of the same name.
NoSilentLoss ==
    config.useLink # "sym" /\ ~config.forceClean =>
        \A f \in Files :
            \/ Kept(f)
            \/ client[Of(f)] = "removed" /\ (f \in passed \/ Of(f) \notin Unshared)
            \/ f \in replaced \cup config.small \/ Near(f, early)
            \/ config.deleteFailed /\ Near(f, rejected)

\* RemovedOnlyAccepted: a torrent is deleted from its client only when a section
\* reported success for its files, or for those of a torrent of the same name,
\* since they were last recorded (TorrentToMedia.py:338 goes by the name).
RemovedOnlyAccepted ==
    [][\A t \in Torrents : client[t] # "removed" /\ client'[t] = "removed" =>
            \E u \in accepted : NameOf[u] = NameOf[t]]_vars

\* PausedOnlyWhileProcessing: between runs no torrent stays paused when the
\* settings ask for resuming, unless a fault met its processing.
PausedOnlyWhileProcessing ==
    At("idle") /\ config.resume /\ config.resumeOnFailure =>
        \A t \in Torrents : client[t] = "paused" => t \in hurt

\* SettledIsDone: a download marked done under its own name, which no other has, is
\* not pending, so no manual run takes it up again on the client's behalf.
SettledIsDone == \A t \in settled \cap Unshared : Phase(rows, NameOf[t]) # "pending"

\* ImplementsBookkeeping: whatever fails, the table keeps the promise of
\* Bookkeeping for torrents that share no name: one is done only after its own
\* section accepted it, and stays so until it is handed over again.
Book == INSTANCE Bookkeeping WITH
            Downloads <- Unshared,
            phase <- [t \in Unshared |-> Phase(rows, NameOf[t])],
            accepted <- accepted \cap Unshared

ImplementsBookkeeping == Book!Spec

\* SeedSurvives: a torrent that is to be kept still has the data it shares, through
\* links if its files were moved and linked back, the manager links back too, and
\* the section neither renames nor deletes the directory that the links lead to.
\* It may lose files that the move left without a link, that another file replaced
\* in the output directory, or that cleaning ignores (minSize) or cut short.
Shared(f) == \/ src[f] \in {"data", "toLib"}
             \/ src[f] = "toDst" /\ dst[Target(f)] \in {Data(f), ToLib(f)}

SeedSurvives ==
    /\ ~config.deleteOriginal /\ config.useLink # "move"
    /\ config.keepArchive /\ ~config.forceClean
    /\ config.useLink = "move-sym" => /\ config.linksBack /\ ~config.deleteFailed
                                      /\ ~config.tag /\ ~config.rename
    => \A f \in Files : \/ Shared(f) \/ f \in stranded \cup replaced \cup config.small
                        \/ Near(f, early)

\* CleanKeepsSeed: cleaning the output directory of a download handed over by
\* a client, forced or not, never breaks a shared file whose data is in the
\* library, if the manager had left the directory when the section accepted
\* it: the links that went through the directory were shortened.
CleanKeepsSeed ==
    [][At("clean") /\ run.agent = "client" /\ ~config.deleteOriginal /\ cur \notin early =>
            \A f \in FilesOf(cur) :
                Resolves(f) /\ dst[Target(f)].kind = "toLib" => Resolves(f)']_vars
=============================================================================
