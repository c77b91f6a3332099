--------------------------- MODULE ManagerHandoff ---------------------------
(***************************************************************************)
(* A section hands one successful download to Sonarr (NzbDrone), Radarr or *)
(* Lidarr: it posts a scan command, polls it while the manager moves the   *)
(* files one by one, and answers its caller, which for a torrent then      *)
(* cleans the output directory.  Script and manager run concurrently; the  *)
(* only thing they share is the directory.                                 *)
(***************************************************************************)
EXTENDS Naturals

CONSTANTS
    Media,      \* the media files of the download
    Extras,     \* its samples, and other files with a metaExtensions extension
    Configs     \* the configurations to consider

Contents == Media \cup Extras

Sections == {"NzbDrone", "Radarr", "Lidarr"}
Callers == {"nzb", "torrent"}

Settings == [section : Sections, caller : Callers, importMode : {"Move", "Copy"},
             cdh : BOOLEAN, noStatusCheck : BOOLEAN, forceClean : BOOLEAN,
             ignored : SUBSET Contents,     \* samples, and what minSize is too big for
             deleteIgnored : BOOLEAN]

ASSUME HandoffAssumption == Media \cap Extras = {} /\ Configs \subseteq Settings

\* Polls of one scan; Radarr's loop is limited by time, to as many at most.
MaxPolls == 6

VARIABLES
    config,
    pc,         \* where the script is
    n,          \* polls made
    scan,       \* whether the script knows the id of its command
    status,     \* the command's status as last polled, or "none"
    answer,     \* what the section returned, or "pending"
    early,      \* whether it returned 0 unchecked or while the scan was under way
    listing,    \* files clean_dir has seen and not yet asked for their size
    listed,     \* files clean_dir found
    swept,      \* files deleted before they were in the library
    command,    \* the manager's command
    handling,   \* whether completed download handling has taken over
    folder,     \* the files in the directory
    exists,     \* whether the directory exists
    lib         \* the files in the library

script == <<pc, n, scan, status, answer, early, listing, listed>>
manager == <<command, handling, lib>>
disk == <<folder, exists, swept>>
vars == <<config, script, manager, disk>>

Active == command \in {"queued", "started"}
Section(s) == config.section = s

\* What the caller reads in the answer: 0, 1 or nothing it can use.
Accepted == {"imported", "deferred", "unchecked"}

Init ==
    /\ config \in Configs
    /\ pc = "post" /\ n = 0 /\ scan = FALSE /\ status = "none"
    /\ answer = "pending" /\ early = FALSE
    /\ listing = {} /\ listed = {} /\ swept = {}
    /\ command = "none" /\ handling = FALSE
    /\ folder = Contents /\ exists = TRUE /\ lib = {}

-----------------------------------------------------------------------------
(* The section's process function                                          *)

Answer(a) ==
    /\ answer' = a
    /\ pc' = "answered"
    /\ early' = (a = "unchecked" \/ (a \in Accepted /\ Active))
    /\ UNCHANGED <<listing, listed>>

Goto(l) == pc' = l /\ UNCHANGED <<answer, early, listing, listed>>

\* The answer is lost, but the command may have been queued; a read timeout is
\* no ConnectionError and is not caught.
PostFails ==
    /\ pc = "post"
    /\ command' \in {"none", "queued"}
    /\ \E a \in {"failed", "raised"} : Answer(a)
    /\ UNCHANGED <<config, n, scan, status, handling, lib, disk>>

Posted(known) ==
    /\ pc = "post"
    /\ command' \in IF known THEN {"queued"} ELSE {"none", "queued"}
    /\ scan' = known
    /\ \/ Section("Radarr") /\ config.noStatusCheck /\ Answer("unchecked")
       \/ Section("Radarr") /\ ~config.noStatusCheck /\ Goto("poll")
       \/ ~Section("Radarr") /\ known /\ Goto("poll")
       \/ ~Section("Radarr") /\ ~known /\ Answer("failed")
    /\ UNCHANGED <<config, n, status, handling, lib, disk>>

Post == PostFails \/ \E known \in BOOLEAN : Posted(known)

\* Broken variant: the answer is not checked for a status.
Unread == {command}

\* command_complete: a refused connection, an unexpected status code or a body
\* without a status count as no status; a manager that restarted has forgotten
\* the command.
Replies == {"none"} \cup (IF scan /\ command \in {"queued", "started", "completed", "failed"}
                          THEN {command} ELSE {})

\* A request the manager takes longer than a minute to answer is not caught, nor
\* is the size of a file that is gone when Radarr's loop asks for it.
Raise ==
    /\ pc \in {"poll", "cdh"} \/ (pc = "look" /\ Section("Radarr"))
    /\ Answer("raised")
    /\ UNCHANGED <<config, n, scan, status, manager, disk>>

\* NzbDrone and Lidarr poll until the command ends, six times at most.
Poll ==
    /\ pc = "poll" /\ ~Section("Radarr")
    /\ status' \in Replies
    /\ n' = IF status' \in {"completed", "failed"} THEN n ELSE n + 1
    /\ Goto(IF n' < MaxPolls /\ n' # n THEN "poll" ELSE "look")
    /\ UNCHANGED <<config, scan, manager, disk>>

\* Broken variant: any status that is read counts as success.
AnyStatus == {"queued", "started", "completed", "failed"}

Succeeded == {"completed"}

\* After the polls, whether the directory is gone is asked first.
Look ==
    /\ pc = "look" /\ ~Section("Radarr")
    /\ LET imported == ~exists \/ status \in Succeeded IN
       \/ imported /\ Answer("imported")
       \/ ~imported /\ Section("NzbDrone") /\ Goto("cdh")
       \/ ~imported /\ Section("Lidarr") /\ status = "failed" /\ Answer("None")
       \/ ~imported /\ Section("Lidarr") /\ status # "failed" /\ Answer("deferred")
    /\ UNCHANGED <<config, n, scan, status, manager, disk>>

\* Radarr's loop: a poll, then a look at the directory; a failed command is
\* polled on.
PollRadarr ==
    /\ pc = "poll" /\ Section("Radarr") /\ n < MaxPolls
    /\ status' \in Replies
    /\ n' = n + 1
    /\ IF status' \in Succeeded THEN Answer("imported") ELSE Goto("look")
    /\ UNCHANGED <<config, scan, manager, disk>>

LookRadarr ==
    /\ pc = "look" /\ Section("Radarr")
    /\ IF ~exists \/ folder \cap Media = {} THEN Answer("imported") ELSE Goto("poll")
    /\ UNCHANGED <<config, n, scan, status, manager, disk>>

TimeUp ==
    /\ pc = "poll" /\ Section("Radarr")
    /\ Goto("cdh")
    /\ UNCHANGED <<config, n, scan, status, manager, disk>>

\* Broken variant: completed download handling is taken for granted.
AlwaysOn == TRUE

HandlesCompleted == config.cdh

\* A manager that does not answer counts as not handling completed downloads.
AskCdh ==
    /\ pc = "cdh"
    /\ \/ Answer(IF HandlesCompleted THEN "deferred" ELSE "failed")
       \/ Answer("failed")
    /\ UNCHANGED <<config, n, scan, status, manager, disk>>

-----------------------------------------------------------------------------
(* The caller: nzb.process cleans nothing for these sections, and a result *)
(* of None or an exception ends the script.                                *)

Return ==
    /\ pc = "answered"
    /\ pc' = IF answer \in Accepted /\ config.caller = "torrent" THEN "clean" ELSE "done"
    /\ UNCHANGED <<config, n, scan, status, answer, early, listing, listed, manager, disk>>

\* Broken variant: only media files are looked for.
MediaOnly == folder \cap Media

Listable == folder

\* list_media_files reads the directory, then asks each file for its size.
List ==
    /\ pc = "clean"
    /\ listing' = Listable /\ listed' = {}
    /\ pc' = "size"
    /\ UNCHANGED <<config, n, scan, status, answer, early, manager, disk>>

Ignored == config.ignored

Counts(f) ==
    /\ f \in folder \ Ignored
    /\ listing' = listing \ {f} /\ listed' = listed \cup {f}
    /\ UNCHANGED <<folder, swept>>

\* A sample, or a file below minSize, does not count, and delete_ignored has it
\* deleted at once.
Ignore(f) ==
    /\ f \in Ignored
    /\ listing' = listing \ {f}
    /\ IF config.deleteIgnored
       THEN folder' = folder \ {f} /\ swept' = swept \cup ({f} \cap (folder \ lib))
       ELSE UNCHANGED <<folder, swept>>
    /\ UNCHANGED listed

\* The size of a file that has just been moved raises, and clean_dir then takes
\* the directory for empty.
Gone(f) ==
    /\ f \notin folder
    /\ listing' = {} /\ listed' = {}
    /\ UNCHANGED <<folder, swept>>

Size(f) ==
    /\ pc = "size" /\ f \in listing
    /\ Counts(f) \/ Ignore(f) \/ Gone(f)
    /\ UNCHANGED <<config, pc, n, scan, status, answer, early, manager, exists>>

Sweep ==
    /\ pc = "size" /\ listing = {}
    /\ pc' = "done"
    /\ IF exists /\ (config.forceClean \/ listed = {})
       THEN folder' = {} /\ exists' = FALSE /\ swept' = swept \cup (folder \ lib)
       ELSE UNCHANGED disk
    /\ UNCHANGED <<config, n, scan, status, answer, early, listing, listed, manager>>

-----------------------------------------------------------------------------
(* The manager                                                             *)

Start ==
    /\ command = "queued"
    /\ command' = "started"
    /\ UNCHANGED <<config, script, handling, lib, disk>>

\* A file is taken; the manager may leave any file where it is.
Take(f) ==
    /\ command = "started" \/ handling
    /\ f \in folder \ lib
    /\ lib' = lib \cup {f}
    /\ folder' = IF config.importMode = "Move" THEN folder \ {f} ELSE folder
    /\ UNCHANGED <<config, script, command, handling, exists, swept>>

RemoveFolder ==
    /\ command = "started" \/ handling
    /\ folder = {} /\ exists
    /\ exists' = FALSE
    /\ UNCHANGED <<config, script, manager, folder, swept>>

End ==
    /\ command = "started"
    /\ command' \in {"completed", "failed"}
    /\ UNCHANGED <<config, script, handling, lib, disk>>

Restart ==
    /\ Active
    /\ command' = "forgotten"
    /\ UNCHANGED <<config, script, handling, lib, disk>>

\* Completed download handling takes what the usenet client reports as done.
HandleCompleted ==
    /\ config.cdh /\ config.caller = "nzb"
    /\ pc = "done" /\ answer \in Accepted /\ exists /\ ~handling
    /\ handling' = TRUE
    /\ UNCHANGED <<config, script, command, lib, disk>>

Script ==
    \/ Post \/ Raise \/ Poll \/ Look \/ PollRadarr \/ LookRadarr \/ TimeUp \/ AskCdh
    \/ Return \/ List \/ (\E f \in listing : Size(f)) \/ Sweep

Manager ==
    \/ Start \/ (\E f \in folder : Take(f)) \/ RemoveFolder \/ End \/ Restart
    \/ HandleCompleted

Next == Script \/ Manager

Spec == Init /\ [][Next]_vars

\* The script runs; completed download handling looks at the client regularly.
Fairness == WF_vars(Script) /\ WF_vars(HandleCompleted)

FairSpec == Spec /\ Fairness

-----------------------------------------------------------------------------
(* Properties                                                              *)

Typed ==
    /\ config \in Configs
    /\ pc \in {"post", "poll", "look", "cdh", "answered", "clean", "size", "done"}
    /\ scan \in BOOLEAN
    /\ status \in {"none", "queued", "started", "completed", "failed"}
    /\ answer \in Accepted \cup {"pending", "failed", "raised", "None"}
    /\ early \in BOOLEAN /\ handling \in BOOLEAN /\ exists \in BOOLEAN
    /\ command \in {"none", "queued", "started", "completed", "failed", "forgotten"}
    /\ folder \subseteq Contents /\ lib \subseteq Contents
    /\ listing \subseteq Contents /\ listed \subseteq Contents /\ swept \subseteq Contents
    /\ ~exists => folder = {}

TypeOK == Typed /\ n \in 0 .. MaxPolls

\* SuccessIsFinal: when a section reports an import, the scan it started does
\* not go on moving media files behind the caller's back, although command,
\* directory and answer were looked at one after the other (tv.py:434-462,
\* movies.py:434-468).
SuccessIsFinal == answer = "imported" => ~Active \/ folder \cap Media \subseteq lib

\* SweptOnlyWhenEarly: without forced cleaning, cleaning a torrent's directory
\* (common.py:22-30, paths.py:136-157) deletes a file that is not in the library,
\* and that it was not told to ignore, only if the section had accepted the
\* download while the scan was under way.
SweptOnlyWhenEarly == ~config.forceClean /\ ~(swept \subseteq config.ignored) => early

\* NothingSwept: the caller's cleaning removes "any misc unwanted files and empty
\* directories" (TorrentToMedia.py:286), not files waiting to be imported.
NothingSwept == ~config.forceClean => swept \subseteq config.ignored

\* Accepted for a usenet client by a section that can tell who goes on with it.
Vouched ==
    /\ config.caller = "nzb"
    /\ \/ config.cdh /\ answer \in Accepted
       \/ ~Section("Lidarr") /\ answer \in {"imported", "deferred"}

\* SuccessIsOwned: where the manager handles completed downloads, every usenet
\* download a section accepted (tv.py:434-482, movies.py:400-480, music.py:138-172)
\* was scanned to the end, is in the library or is taken over; where it does not,
\* the same goes for what NzbDrone and Radarr accept after looking.  Without it
\* nobody owns an unchecked success of Radarr nor what Lidarr hands back.
SuccessIsOwned == Vouched ~> command = "completed" \/ Media \subseteq lib \/ handling
=============================================================================
