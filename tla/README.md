# A verification project for nzbToMedia

nzbToMedia is a set of scripts that usenet and torrent clients call when a download completes. A
script records the download in an SQLite table, links and unpacks its files, asks a media manager
(Sonarr, Radarr, Lidarr, CouchPotato, ...) to import them, and then marks, resumes, removes and
cleans up what is left. Called by hand it goes through the download directories and does the same
for what an earlier run left behind.

Every piece of state outlives the script: files, links, torrents in their client, rows in the table,
commands in the manager. The script can be killed or raise at every point between two of them. That
is what the modules model; they are translated from the source, and every definition is mapped to
its lines in `PROJECT.json`.

## 1. Inventory

| Component | Source | State | Operations |
|---|---|---|---|
| Single-instance lock | `core/utils/processes.py`, `configure_process` and `configure_updates` in `core/__init__.py` | abstract Unix socket, or `nzbtomedia.pid` | `alreadyrunning` (polled), `__del__`, `restart` |
| Database schema | `core/databases.py`, `core/main_db.py` | tables `db_version`, `downloads`, `downloads2` | `test`, `execute` (create or migrate) at every start |
| Database rows | `core/main_db.py`, `core/utils/download_info.py` | table `downloads` | `upsert`, UPDATE of a status by name, SELECT by name and status |
| Torrent post-processing | `TorrentToMedia.py` | the run | `main`, `process_torrent` |
| Linking | `core/utils/links.py` | download and output directory | `copy_link`, `replace_links` |
| Torrent client | `core/plugins/downloaders/torrent/utils.py` | the client's torrents | pause, resume, remove |
| Archive extraction | `core/utils/files.py` | archives on disk, two lists of what was extracted | `extract_files` |
| Cleaning | `core/utils/common.py`, `core/utils/paths.py` | output directory | `clean_dir`, `clean_directory` |
| Manager hand-off | `core/auto_process/{tv,movies,music,common}.py` | one command of the manager, polled | `process`, `command_complete`, `completed_download_handling` |
| Usenet post-processing | `core/processor/*.py`, `nzbToMedia.py`, `core/plugins/downloaders/nzb/utils.py` | the run | `nzb.process`, `manual.process`, `main`, `get_nzoid` |
| Identification | `core/utils/identification.py` | the name of the directory | `find_imdbid`, which renames it; `category_search` (strings) |
| Directories of manual runs | `core/utils/common.py` | the watched directories | `get_dirs`, which lists them; `process_dir` first moves or hard-links each loose file into a directory of its own |
| Names and directories of videos | `core/scene_exceptions.py`, `flatten_dir` in `core/utils/paths.py` | the video files | `process_all_exceptions`, `flatten` |
| Transcoder | `core/transcoder.py` | the video files, `VEXTENSION` | `is_video_good`, `transcode_directory`, `process_list`, `combine_cd`, `build_commands` |
| Configuration, fork detection, subtitles, disc images, user scripts, network, updater, logger, encoding | see `PROJECT.json` | options and strings; external programs | not modelled |

**How they interact.** An entry script takes the lock, upgrades the schema, and then processes
downloads one after the other. The lock is what allows `TorrentToMedia` to be modelled as one run
after another. Processing touches the client over its RPC interface, the disk, the table and the
manager; none of the four is in a transaction with another. The manager is a second process that
moves files in the same directory while the script polls it.

**What is hard.** Two launches between the test and the write of the pid file. A crash between two
SQL statements, two links, or the hand-off and the mark. A statement given up silently after five
attempts on a locked database. `shutil.move` that succeeds before the link back fails. Exceptions
that escape between pausing and resuming a torrent. Files of two torrents that meet at one path. A
manager that is still moving files when the script lists or cleans the directory. A section that renames or
deletes the directory that a torrent's links lead to. Two downloads of one name in a table that is read and
marked by name. A retry by the client
that is given a path the run before has renamed, or that finds the leftovers of a transcoding that was cut
off. `hazards` in `PROJECT.json` lists each one at its line.

**What makes it correct.** One copy of the program runs and every launch gets its turn. No upgrade
loses a recorded download. A torrent is paused only while it is processed, removed only when files
recorded under its name were accepted, and a kept torrent keeps its data. No file loses its last copy except in
ways the options ask for, and no video its last whole one. The table agrees with what was accepted. Only extracted archives are removed. An intact download
is not called a failed one. An import is reported when it is final, and what is passed back has an owner.

## 2. The modules

| Module | Models | Built on |
|---|---|---|
| `Mutex` | the abstract lock | |
| `ProcessLock` | `PosixProcess` and its callers, one action per system call | refines `Mutex` |
| `SchemaUpgrade` | the upgrade, one action per SQL statement | |
| `DownloadDB` | the table as a sequence of rows; the three statements that use it | |
| `Bookkeeping` | abstract: a download is recorded, accepted and done, whatever rows say so | |
| `TorrentToMedia` | `main` and `process_torrent`, with linking, client, manager and cleaning | extends `DownloadDB`, refines `Bookkeeping` |
| `NzbToMedia` | `main`, `nzb.process` and `manual.process`, with the sections and cleaning | extends `DownloadDB`, refines `Bookkeeping` |
| `ExtractFiles` | `extract_files`, one action per file visited | |
| `ManagerHandoff` | one hand-off, script and manager as concurrent processes | |
| `Transcoder` | renaming, flattening, checking and transcoding the videos of one download | |
| `*_proofs` (eight) | theorems; those of `DownloadDB` are the lemmas the two processors use | extend the modules they are about |
| `MC*` | instances for TLC: sets, functions and groups of settings | extend the modules they instantiate |

The modules divide the program where it is divided: `ProcessLock` makes runs of the processors exclude each
other, so `TorrentToMedia` and `NzbToMedia` are one run after another; both share the table
(`DownloadDB`); what one step of theirs does in detail (`Extract`, `HandOver` and `Answer`, `Judge`) is
`ExtractFiles`, `ManagerHandoff` and `Transcoder`.

In all of them a *fault* that the environment decides (a crash, a failing call, a locked database) is
an alternative of the step it hits. `Faults` says which kinds a run allows, so one module serves runs
with different fault models. Operators marked `Broken variant` are used by no specification: each is
a plausible bug against which the properties are tested.

### ProcessLock

`pc` holds the position of every launch: polling (`bind`, `sleep`), inside the pid file check (`exists` to
`write`, the set `Window`), at work (`run`), and in `__del__` (`close`, `isfile`, `unlink`). `lockKind` is
the branch of the first `try` in `alreadyrunning`; which one is taken depends on the operating system and
does not change, so it is chosen in `Init` and stays. `Signal` has the three outcomes of `os.kill(pid, 0)`,
including a recycled pid and `EPERM` for a live process of another user. A restart deletes the lock object,
starts the new program, waits for it and exits; the launch it will start is reserved in `child`, which keeps
the processes within `Procs`.

The ghost variable `hazard` records the four weaknesses of a pid file: two launches in `Window` at
once, a live owner taken for dead, a pid that was not written, a recycled pid. `MutexUnlessHazard`
says that nothing else breaks the lock; in particular a crash at any point, which leaves a stale or
an empty file, does not.

### SchemaUpgrade

Each SQL statement commits on its own, hence one action each. `GiveUp` is the five locked attempts
after which `DBConnection.action` returns normally and the next statement follows; `Unreadable` is
the same for a query, where the missing cursor raises. `cut` and `skipped` record which statements a
crash came before and which were given up, so that the properties can say exactly which interruptions
are harmful. `saved` is every row ever recorded.

### DownloadDB and TorrentToMedia

`upsert` is modelled as it is written: an UPDATE by directory, and an INSERT that lists the keys of
`value_dict` only, so that a row added by the current program has a NULL directory and is never found
by a later UPDATE. Rows with a directory come from earlier versions of the schema (`InitialRows`).

`run` is the process; its `pc` goes through `record`, `search`, `pause`, `prepare`, `link`, the section (`section`,
`dispatch`, `wait`), `plex`, `mark` or `failed`, `relink`, `remove` and `clean`, the calls of `process_torrent` in
their order, each early return included. `src` is each file in the download directory and `lib` the files the
library has. A slot of `dst` is a path of an output directory, which the section may rename (`Tag`: the id of a film
is put into its name) and in which it may give files other names (`Rename`: exceptional names, ids in file names,
transcoding); it holds data, a part of a file, a link to the source or a link into the library. `run.FAILED` is the
module variable `core.FAILED`, which is set once and stays set for all directories of a manual run. `Abort` is an
exception that leaves `process_torrent`, and also an early `return` of a list, whose missing `status_code` raises in
`main`.

The section starts the manager (`HandOver`), which takes one file after another (`Take`) until it is through or
gives up (`GiveUp`), while the script goes on: `Answer` may be a success before the manager is through, and the
script then cleans the directory under it. `Withhold` is a section that does not ask the manager. `Reject` is a
download that failed, by its status or by the section's own look at the videos, and deletes the directory under
`delete_failed`. Without `Torrent_NoLink` a file is linked (`Link`, one file at a time, with the fallback of
`copy_link` to a copy); with it nothing is, and the torrent may still be removed.

Names of torrents need not differ: a manual run takes the first pending row of the name (`NextDir`), with the id of
whichever torrent recorded it. Ghost variables say what the code does not remember and the properties must:
`accepted`, `rejected`, `settled`; `early`, an acceptance while the manager was at work in the directory or had taken
a file while it was linked; and for files `passed` (a run went past it without a complete copy), `replaced` (another
file took its place in the output directory) and `stranded` (moved, and not linked back).

### NzbToMedia

A run is started by a client with the status it gave the download (`StartClient`), by another program
(`StartGeneric`), or by hand (`StartManual`); a client may hand the same download over again. `run.pc` goes
through `lookup` (`get_nzoid`, for SABnzbd without an id), `record`, `category`, `extract`, then the section
(`identify`, `respond`, `judge`, `dispatch`), `plex`, `mark` and `clean`; a manual run returns to `next` for
each directory. `at` says whether the directory of a download has its own name, the name `find_imdbid` gave it,
or is gone, and `run.dir` which name the run believes; `holds` is what counts as media in it; `lib` is what the
manager has. A run remembers the name of the directory it was given (`run.input`), because `clean_dir` is
called with that one.

Sections are told apart by what they do: those for films identify and may rename the directory; those
for series create a directory that is missing; CouchPotato, SickBeard and HeadPhones have their directory
cleaned; CouchPotato and SickBeard may answer 0 to a failed download. `HandOver` sets the manager to work, `Answer`
and `Withhold` are what the section says, and the manager goes on by itself (`Take`, `GiveUp`), as `ManagerHandoff`
has it in detail. `Cleaned` is the listing of `clean_dir` with the exception that counts as an empty directory: a
manager that is moving files makes it raise. `early` records an acceptance while the manager was at work.

`holds` says whether the videos are intact, intact without a language of `REQUIRE_LAN` (`foreign`) or broken. Names
are not unique: `Lookup` returns any download whose name is the one searched for, with or without its extension, and
a manual run takes the first pending row of the name of the directory. An id that is missing is written to the
table as the text `None`, and a manual run reads it back as an id (`Stored`, `Loaded`).

### Bookkeeping

The table has several rows for a download: of earlier versions, of other clients, or after a statement was
given up. `Phase` takes a download for pending if any row of its name is pending, for done if all
are done. `Bookkeeping` says how that may change: `Receive` at every hand-over, `Settle` only after `Accept`
of the same download since then. Both processors implement it, with `phase` computed from the rows and
`accepted` the ghost variable of the same name.

### Transcoder

A path is the directory, the words of the name, the number of the disc and the extension: what
renaming, joining, transcoding and tagging change, and where two files can meet. `disk` maps the paths to the
videos a file holds and whether it is whole. Each `os.rename`, `shutil.move`, `os.remove`, ffmpeg call and
`os.unlink` is a step; a crash comes between any two, or cuts off the file ffmpeg is writing. `Begin` starts an
attempt from whatever is on disk: `process_all_exceptions` (`Rename`, `Renamed`), `flatten` (`Flatten`,
`Flattened`), the check for corruption (`Check`), `process_list` (`List`), the loop of `transcode_directory`
(`Pick`, `Encode`, `Unlink`, `UnlinkPart`, `Transcoded`), the tag of films (`Tag`) and the answer of the manager
(`HandOver`).

Later attempts are where it becomes hard, since the program does not know what it did before. The ghost
`history.left` records what an attempt found that an earlier one left: a file cut off, videos moved away, a name
that could not be replaced; and, when the files are listed, a disc without the ones before it, which the attempt
itself may have failed to move. The properties except exactly the kinds
that do harm, and the constraint `Followed` of the instance cuts off behaviours about which `VideosSurvive` and
`SuccessIsWhole` say nothing more; `IntactNotRejected` does speak of some of them, which its theorem covers. `Apart` and `DiscsFit` except the downloads the program does lose videos of, listed under the
observations: names that meet where the code does not keep them apart, and discs it may not join or should not.

The model assumes that ffprobe recognises a file cut off, which holds where the index is written last (mp4). Whether a
video is `whole` is what ffprobe and `REQUIRE_LAN` say of it together. `NOEXTRACTFAILED` is the setting
`noExtractFailed`: a download its client calls failed is then not probed (`Probed`). `combine_cd` looks for the name
of a disc as a substring of the others' names; in the model names that contain one another are equal.
It keeps `VEXTENSION` (a module variable that `build_commands` changes for good) within one attempt, not across
the downloads of one manual run.

### ExtractFiles

An archive is its folder, its name without extension, its format and its parts; the code's lists see only folder and
name, so `a.rar` and `a.zip` are two archives that it takes for one. The two lists `extracted_folder` and
`extracted_archive` are separate in the code and in the model: whether an archive is known is asked of each on its
own. An extraction, also one that fails half way, may put further archive files into the folder (`CameOut`; `inner`
are those), and the second loop lists the disk as it is by then. gunzip deletes what it unpacks (`SelfDeleting`). The
order of visits (length of the path, then the order of the file system) is any order.

### ManagerHandoff

The script's position and its last look at the command's status; the manager's command, the directory
and the library. `Take` moves or copies one file at a time, the command may end as completed or
failed with files left, and a restart forgets it. NzbDrone and Lidarr poll up to six times and then look
at the directory; Radarr looks after every poll. A poll may be refused (`none`), or time out, which is
not caught (`Raise`). `List`, `Size` and `Sweep` are `clean_dir`: the directory is listed, each file is asked
for its size, files that are ignored (samples, `minSize`) do not count or are deleted at once
(`delete_ignored`), and an exception in between counts as an empty directory. `early` records an acceptance
that did not wait for the end of the scan.

## 3. Runs

All runs are exhaustive for their bounds.

| Run | Bounds | Shows |
|---|---|---|
| `Lock` | 3 launches, either kind of lock, pid file absent or empty at first, crashes, restarts | the socket implements `Mutex`; with the pid file a second copy only after one of its four weaknesses, and stale or empty files block nobody, unless their pid was recycled; every launch runs; a restart ends |
| `SchemaUpgrade` | 2 rows; no, old, current and newer database; crashes, locks, any number of restarts | only a skipped copy loses rows; never at work on an old schema; which interruptions make later starts fail |
| `UpgradeNewer` | a database of a later version | finding 1 |
| `ExtractFiles` | up to 3 of 12 archive files: 2 nested directories, 2 names, 2 formats (one of them gunzip's), 2 parts; an archive holds at most one other | each archive once; an archive whose name no other has goes only if it was extracted; what was passed over had its folder and its name among the extracted |
| `ExtractRemoval` | the same | finding 2 |
| `TorrentFaults` | 2 runs; 2 torrents with 1 file each at one shared path, one of them an archive, or 1 torrent with 2 files; 10 installations: every link mode, `Torrent_NoLink`, `delete_failed`, sections that rename, ignored files, archives removed, forced cleaning; crashes and failing links, copies, extractions; the manager at work beside the script | no last copy of a file is lost; a kept torrent keeps its data; cleaning breaks no shared file whose data is in the library; each with the exceptions its comment lists |
| `TorrentClient` | 2 runs; 3 torrents, two of one name, the third renamed by `category_search`, in a shared directory and handled by a user script; unusable category, crashes, failing client calls, raising sections, locked database, old rows, among them one with the id of the other torrent of its name | the table implements `Bookkeeping`; torrents are removed only when one of their name was accepted; paused only while processed, unless a fault met the torrent |
| `TorrentUnsafe` | a torrent saved to the protected default directory, no faults | finding 3 |
| `Nzb` | 2 runs, 2 downloads of which one has no id and, without what looks like an extension, the name of the other; 5 installations, all faults, 3 tables of earlier versions, one of which gives a row the other's id | the table implements `Bookkeeping`; the id of a manual run is that of a download that shares the name; no videos are lost; none called failed without a reason |
| `Transcode` | 4 attempts, 9 downloads of 2 or 3 videos, 16 installations, all faults | no intact video loses its last whole file; an intact download is not called failed for what an attempt did; a success has every video |
| `Handoff` | 3 sections, all options, 2 media files and 1 other file, one of which cleaning may ignore, 6 polls | a reported import is final; cleaning deletes an unimported file it was not told to ignore only after an early acceptance; what a section can vouch for has an owner |
| `HandoffSweep` | Sonarr and a torrent | finding 4 |

*Why the bounds are enough.* Races of the lock need two launches, and a third to be misled by the file the
two leave behind. The migration treats the table as a whole, so two rows tell a full from a partial copy.
Two torrents are needed for shared paths, names and rows; a second file for a death between two links. Two
folders, names, formats and parts give every combination of the two lists; more parts repeat the second. Two media
files give a scan that is half done; the third file is one Radarr's look does not count. Six polls are the
code's own number. `MaxRuns` bounds the calls by clients and the directories of manual runs to two: the first is
interrupted somewhere, the second, of the same or of the other download, meets what it left, with the manager's
steps anywhere in between; the theorems of section 5 hold for any number. In `Transcode` a fourth attempt meets
what a third left of the leftovers of two. Its downloads have the pairs of names that can meet: one stem
with two extensions, two meaningless names in one or two directories, a name taken in advance, discs with
and without the first, discs in a subdirectory one of which may fail to move. Its installations are those where transcoding, the output directory, `duplicate`,
`concat`, the check and ignored extensions meet in different combinations, for series (which are flattened)
and films (which are tagged). `TorrentFaults` and `TorrentClient` split the faults, because a fault of the
disk and one of the client concern different properties; deep combinations of both are not explored by TLC,
but the theorems of section 5 hold for all of them.

*Deadlock checking* is off where the system really stops: when all launches have ended, when all downloads
are processed, when the runs or attempts are used up, or after an extraction or a hand-off. It is on for
`SchemaUpgrade`, where the program can always be started again.

### Findings

1. `UpgradeNewer`: the refusal of a database that a newer version wrote (`core/databases.py:58`) cannot be
   reached, because `test` (`:35`) already takes it for current.
2. `ExtractRemoval`: the removal loop compares names without extension, across folders, with the disk as it is
   after extraction (`core/utils/files.py:200`): an archive whose extraction failed, `a.zip` beside `a.rar`, or that
   only just came out of another, is deleted when one of the same name was extracted, against the comment at `:201`.
3. `TorrentUnsafe`: a torrent whose output directory is the protected default one stays paused
   (`TorrentToMedia.py:143`).
4. `HandoffSweep`: a manager that is still moving files makes the listing of `clean_dir` raise, which counts as
   an empty directory (`core/utils/common.py:28`), and the files not yet imported are deleted with it.

### Observations

Behaviours of the code met while modelling, which the properties except by an explicit condition:

- A crash after the first `CREATE TABLE` leaves a database that every later start refuses as too old
  (`core/databases.py:46`, `:52`).
- On a locked database a skipped `INSERT ... SELECT` is followed by `DROP TABLE` and all rows are gone;
  a skipped `RENAME` leaves a running program without its table.
- A single-file torrent renamed by `category_search` is marked under a name no row has, and stays pending
  (`TorrentToMedia.py:273`): it is handed over again by every manual run.
- `core.NOFLATTEN.extend(input_category)` (`TorrentToMedia.py:148`) adds the letters of the category to the list, so
  the folders of HeadPhones and Lidarr are not preserved as its comment says.
- After `a/x` and `b/y` were extracted, `b/x` counts as known and is skipped (`core/utils/files.py:185`).
- With `move-sym` and forced cleaning, a second run finds dangling links in the download directory, whose
  size raises after the pause: the torrent stays paused.
- A Plex server that does not answer raises after a successful import (`core/plugins/plex.py:50`); the row stays
  pending and the torrent paused.
- In move mode a manual run over the output directory removes a torrent with files never linked, if the
  run before died between two links. A file or partial copy at the target is skipped as linked
  (`core/utils/links.py:31`), and removing the torrent then deletes the last complete copy.
- With `Torrent_NoLink` and `delete_original` the torrent is deleted with data that was never linked anywhere
  (`TorrentToMedia.py:198`, `:282`), if the section reports success.
- A section deletes the output directory of a failed torrent under `delete_failed` (`core/auto_process/movies.py:317`),
  in the move modes with the only copy of the data, and with what another torrent has there.
- In `move-sym` mode `find_imdbid` (`core/utils/identification.py:91`) and the renames of exceptional names move
  the data away from under the links that the torrent seeds from.
- A manager that takes a file between the listing and the linking of a file linked before leaves a link to itself in
  `move-sym` mode; listing the directory raises from then on, so `clean_dir` deletes it.
- Of two torrents with one name a manual run may pause and remove the one whose row comes first
  (`TorrentToMedia.py:338`), with the files of the other processed; likewise two usenet downloads of one name are marked together
  (`core/processor/nzb.py:149`).
- The retry of a usenet download that was imported, and whose directory is gone, is judged failed: the sections for
  series create the directory again, empty (`core/auto_process/tv.py:111`).
- An accepted usenet download is left to nobody when Radarr is told not to check (`no_status_check`,
  `core/auto_process/movies.py:400`) or Lidarr hands it back (`core/auto_process/music.py:168`), and completed
  download handling is off.
- Extraction with `keep_archive = 0` can delete archives a torrent still seeds, when they are linked or read
  from the download directory.
- A failed Lidarr command returns `None` (`core/auto_process/music.py:161`), which raises in the caller and leaves a
  torrent paused; so does a poll that takes longer than a minute (`core/auto_process/common.py:38`).
- A missing id is recorded as the text `None`, which a manual run passes on as an id (`core/processor/nzb.py:53`).
- After `find_imdbid` renamed the directory (`core/utils/identification.py:91`) a retry by the client does not find
  its videos and judges the download failed.
- `user_scripts.py:77` and `:130` compare the same option with `all` and `ALL`.
- Two videos `m.avi` and `m.mp4` in one directory: the second is removed as the target of the first
  (`core/transcoder.py:939`), also with `duplicate = 1`, which "will create a new file"
  (`autoProcessMedia.cfg.spec:507`).
- Discs of an ignored extension are deleted without being transcoded when `duplicate` is off
  (`core/transcoder.py:929`, `:1004`), although such files "will not be transcoded" (`autoProcessMedia.cfg.spec:511`); so
  is a disc without its predecessors next to discs that could be joined (`:691`), for instance because `flatten`
  moved the others and failed to move the one before it.
- Of two files with the same number of a disc the first is joined (`core/transcoder.py:889`) and both are deleted.
- A disc that is cut off spoils the video it is joined to, and without the check the intact discs are deleted for it.
- Discs with a meaningless name are left alone by `process_all_exceptions`, but the video joined of them is renamed by
  the next attempt, and can meet `x.avi` next to `y.cd1.avi` at the name of the download.
- An attempt that ends after the first of several discs was unlinked leaves the others, which the next attempt
  transcodes over the joined video.
- Without the check for corruption a file cut off is transcoded again, over the whole file next to it.
- A third meaningless name replaces the second file, which already has `.NTM` (`core/scene_exceptions.py:76`); a
  rename that failed and is repeated by the next attempt ends at the same name as the file that went on.
- With `outputVideoPath`, after a refused hand-over the download directory is empty: the retry of the client is judged
  failed, and a manual run reports success without handing anything over.
- A transcoded file cut off by a crash makes the check of the next attempt reject the download; with
  `delete_failed` it is deleted, the intact original with it.
- `manual.process()` returns a result that `nzbToMedia.main` ignores (`nzbToMedia.py:774`): a failed manual
  run exits with 0.

## 4. Fairness

- `ProcessLock`: weak fairness of every launch's own steps. Each is scheduled by the operating system, sleeps
  end, and the program comes to its end. Crashes, launches and updates are not forced. Weak fairness suffices
  although launches compete, because the property only asks that a poller runs if the owner leaves *and*
  the number of launches is finite.
- `ManagerHandoff`: weak fairness of the script, which only sleeps and polls, and of completed download
  handling, which the manager runs on a timer when it is enabled. The manager's own command is not assumed to
  make progress.

The other modules are checked for safety only: nothing in the program makes a run start, and every
run ends after a bounded number of steps of its own.

## 5. Proofs

`ProcessLock_proofs`, for any set of launches:

- `TypeCorrect`.
- `SocketExclusion`: with the socket at most one launch runs, whichever kinds are considered. `AtMostOneRuns` is
  not inductive: it does not say why a second launch is refused. `SocketInv` adds that whoever is at work or
  about to close is bound to the socket (`SocketInvariant`, `SocketInvExcludes`).
- `PidfileExclusion`: `MutexUnlessHazard`. `PidfileInv` follows the file through the check: without a hazard at
  most one launch is in `Window`, an owner's pid is in the file until it is unlinked, and a launch past the read
  has read what is still true (`PidfileInvariant`).
- `SocketRefinesMutex`: every step with the socket is a step of `Mutex` or a stutter. `RestartInv` supplies what
  the refinement needs of `child`.

`SchemaUpgrade_proofs`, for any rows, databases and faults, from `DatabasesAssumption` (what earlier
versions can have left):

- `TypeCorrect`.
- `RowsArePreserved`, by `RowsInv`: at each statement, which of the two tables holds all rows.
- `RunsOnCurrentSchema`, by `VersionInv`: the progress of the migration determines the tables.
- `OnlyInterruptionsStick`, by `ShapeInv`: the shapes of the database that an uninterrupted start or a harmless
  crash can leave.

`ExtractFiles_proofs`, for any directories, names, parts and downloads, from `ExtractAssumption`:

- `TypeCorrect`.
- `EachOnce`, `NothingForgotten` and `OnlyExtractedGo` (the properties `ExtractedOnce`, `NoneForgotten` and
  `RemovedWereExtracted`), by `ListsInv`, which ties the two lists to what was really extracted: an extracted
  archive is in both of them (`InBothLists`), each entry was put there by an archive of the download
  (`ListsComeFrom`), and a visited file was extracted, failed, or was taken for known because of two others
  (`VisitedAre`, `Mistaken`). What a listed name says of an archive on disk is only as good as the name is unique,
  among the archives that came out of others too; where it is not, finding 2 shows what happens.

`ManagerHandoff_proofs`, for any files and configurations, from `HandoffAssumption`:

- `TypeCorrect`, with the bound on polls as a lemma of its own.
- `SuccessFinal`, by `FinalInv`: a command is posted once, so a status read as completed stays true while
  directory and answer are looked at later; and an emptied or removed directory stays empty.
- `SweptEarly`, by `SweepInv`: an acceptance that is not early found the manager at rest (`Quiet`), and the
  manager stays so, hence what `clean_dir` has listed and what it still asks about is the whole directory
  (`SeesAll`).

`DownloadDB_proofs`: what the statements do to any table. `UpsertRows` and `SetStatusRows` say which rows an
UPSERT and a mark leave and add, `UpsertPhase` and `SetStatusPhase` what that means for the phase of every
download, `FirstIsPending` that a manual run takes a row of the name asked for. The proofs of both processors
use these and never open the definitions.

`NzbToMedia_proofs`, for any downloads, names, rows, settings, faults and number of runs, from `NzbAssumption` (types;
names need not differ) and `RowsAssumption` (earlier versions recorded each directory under the name of its download,
with an id that was passed or looked up under that name):

- `TypeCorrect`.
- `SettledStaysDone` and `BookkeepingImplemented`, for downloads that share their name with no other (`Unshared`), and
  `ManualRunsKnow`, for all, by `BookInv`: a run works under a name of its download, with an id that was passed or
  found under that name (`Named`), and marks only what was accepted (`RunInv`); a row with the directory of a
  download has its name, and a row with an id a name it may have been looked up by (`RowsInv`).
- `NothingLost` and `NoFalseRejection`, by `DiskInv`: a directory that is gone holds nothing (`GoneInv`), a run
  that has lost sight of a directory with files missed its renaming (`DirInv`), and before the check the
  status is the one the client gave (`StatusInv`). `EarlyInv` covers the cleaning: a directory in which the manager
  is at work when it is cleaned was accepted early.

`TorrentToMedia_proofs`, for any finite set of torrents, any files, layouts, names, rows, settings, faults, number of runs
and behaviour of the manager, from the corresponding assumptions:

- `TypeCorrect`, `SettledStaysDone`, `BookkeepingImplemented`, by a `BookInv` like the one above, the latter two for
  `Unshared` torrents. Types and rows are proved together, because a mark relies on the shape of the table.
- `OnlyAcceptedRemoved`: by `BookInv` the id a run works with belongs to a torrent of the name of the directory, and
  a run that comes to removal was accepted. Two torrents of one name cannot be told apart by it, nor by the code.
- `ResumedBetweenRuns`, assuming no output directory is the protected one (finding 3), by `PausedInv`: a torrent
  is paused only in the steps `Holding`, or was met by a fault.
- `SharedFilesSurvive`, by `SeedInv`: in every mode but `move-sym` the data stays where it was; in `move-sym` a file is
  data, a link into the library, or a link to the path in the output directory that has this very file or a link on to
  the library, also when files of two torrents share that path, unless it is one that the property excepts (`Lost`).
- `WatchInv`: once the section has answered 0, a directory that the manager is still at work on (`Watched`) was
  accepted early. It says when cleaning can take a directory for empty that is not, and the next two rest on it.
- `CleaningKeepsSeed`, by `FromInv` and `RelinkInv`: the output directory is scanned in move mode only, and after
  `replace_links` no file of the torrent that is in the library is reached through the output directory.
- `NothingLost`, for every mode but `sym`, by `LossInv`: a file that is no longer in the download directory has a copy in
  the output directory or the library, or a reason the property names (`Saved`, `Excused`, `Forgone`); and between
  the linking and the removal (`Deleting`) so has every file of the torrent that is about to be deleted.

`Transcoder_proofs`, for any downloads, settings, faults and number of attempts:

- `TypeCorrect`, by `TypeInv`: every input of the loop has a first file (`IsInput`), because joined discs start with
  the first (`JoinedIsInput`), and a file that is moved is there.
- `RejectedRightly`: `IntactNotRejected` is a condition on the check, so `RejectInv` follows the videos to it: every
  file holds videos of the download (`HeldInv`); if an attempt finds neither a cut-off file nor videos missing,
  the directory has files and all are whole (`BegunWhole`), and renaming and flattening keep it so (`WholeInv`).
- `NoVideoLost` (the property `VideosSurvive`), by `SurvInv`. Whatever is appended to a name, its `Core` stays, so two
  files that can meet at one path (`Alike`) hold videos that came together, and what one of them replaces is in the
  other. `DiskInv` says this of the disk as a whole: where the videos of a file came from (`HoldsInv`, `MeetInv`,
  `OneNameInv`), that discs exist once and the first goes before the others (`PartsInv`), which files can be cut off
  (`CutInv`), and that each video that came whole is whole somewhere (`SurviveInv`). The lemmas `MoveKeeps`,
  `RenameKeeps`, `RemoveKeeps` and `WriteKeeps` show that the four kinds of change keep it; they are about any two
  disks, and no action is opened in them. Between those, `WorkInv` follows the loop of `transcode_directory`: what
  an input is (`InputInv`), which file still has its videos when another input made the file in the way
  (`BackedInv`), why the original can be unlinked (`CurInv`), and why the discs can go in the end (`DoneInv`); a file
  cut off in the output directory will be written again (`SourceInv`).
- `SuccessKeepsVideos` (the property `SuccessIsWhole`), by `SuccInv`: every intact video is in the download directory while
  that is searched (`StartHeld`), stays there when duplicates are kept (`DuplicatesHeld`), and is otherwise in the
  output directory or in an input (`OutputHeld`).

The conditions of the last two (`Apart`, `DiscsFit`, what `history.left` may have) are the hypotheses of the proofs, too:
attempts to prove the properties under weaker ones ended at the downloads listed under the observations, which
TLC confirmed.

Only model-checked: liveness (`EveryLaunchRuns`, `RestartCompletes`, `SuccessIsOwned`), which is beyond
the prover together with `ENABLED`.

## 6. Not modelled

- `WindowsProcess`: a named mutex of the kernel, whose semantics would be the property.
- SickBeard, SiCKRAGE, CouchPotato and HeadPhones in `ManagerHandoff`: one request whose answer is the result; in
  `NzbToMedia` they are modelled with what they do to the directory. Mylar, LazyLibrarian, Gamez and Watcher3
  only by their answer.
- `category_search`, parsers, encodings: the models take the resulting names and directories;
  where a converted name is compared with an unconverted one (`FoundName`, `InputName`) they are kept apart.
- The moves of `process_dir`: a loose file gets a directory of its own, which for the models is one more directory
  that no row knows of. Directories with files still being synced are skipped, as is any directory a manual run
  does not choose.
- Outputs that several downloads share as a whole (`unique_path = 0`), samples and files of other kinds in the output
  directory, and what user scripts do to their directory (`USER_SCRIPT_CLEAN`).
- Of the transcoder: subtitles, ripping of disc images (iso, VIDEO_TS, BDMV) and the mount they need, the
  options of the ffmpeg command. Of the exceptional names: groups, reversed names, rename scripts and par2.
- External programs (7z, ffmpeg, git) beyond their success or failure.
- Options and their migration, fork detection, network, updater, logger, permissions: `PROJECT.json` gives the
  reason for each.

## 7. Plan

Done: the lock and its abstract specification, the schema, rows, torrent and usenet processing with the
bookkeeping they implement, extraction, hand-off, transcoding, and the proofs of section 5.

Left:

1. `Categories`: `category_search` (`core/utils/identification.py`) as a pure operator, against its comment "assume
   last match is most relevant category" (`:112`), which takes the last element of a set.
2. Disc images and subtitles in `Transcoder`, with `process_list` failing as a whole (`core/transcoder.py:686`).
3. `VEXTENSION` across the downloads of one manual run.
