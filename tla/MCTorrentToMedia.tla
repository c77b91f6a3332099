-------------------------- MODULE MCTorrentToMedia --------------------------
(* TorrentToMedia on a few torrents, files and installations. *)
EXTENDS TorrentToMedia, TLC

CONSTANTS t1, t2, t3, f1, f2, x1, x2

MCFiles == {f1, f2}
MCTargets == {x1, x2}

\* t1 and t2 are downloads of the same name; category_search names the single file
\* of t3 instead of its directory.
TwoOfAName == t1 :> "n1" @@ t2 :> "n1" @@ t3 :> "n3"
Renamed == t1 :> "n1" @@ t2 :> "n1" @@ t3 :> "n3.mkv"
OwnNames == t1 :> "n1" @@ t2 :> "n2"

NoRows == {<<>>}
\* A row of an earlier version may carry its directory or not; a row of another
\* client may have the name of a torrent.
OldRows == {<<>>, <<Row(NULL, "n1", "client", t2), Row(NULL, "n3", "nzb", "nzo")>>}

\* An installation: its mode of linking, the files' torrents and paths, and the
\* options that are on.
Setting(link, of, target, on) ==
    [useLink |-> link, noLink |-> "noLink" \in on, deleteOriginal |-> "deleteOriginal" \in on,
     resume |-> "resume" \in on, resumeOnFailure |-> "resume" \in on,
     forceClean |-> "forceClean" \in on, extract |-> "extract" \in on,
     keepArchive |-> "keepArchive" \in on, deleteFailed |-> "deleteFailed" \in on,
     tag |-> "tag" \in on, rename |-> "rename" \in on, linksBack |-> "linksBack" \in on,
     small |-> IF "small" \in on THEN {f2} ELSE {}, of |-> of, target |-> target]

\* One file each, at paths of their own or at one path; or two files of t1.
EachOwn(f) == IF f = f1 THEN t1 ELSE t2
OneEach == [f \in MCFiles |-> EachOwn(f)]
BothOfOne == [f \in MCFiles |-> t1]
OwnPaths == f1 :> x1 @@ f2 :> x2
OnePath == f1 :> x1 @@ f2 :> x1

FileSettings == {
    Setting("hard", OneEach, OnePath, {"extract", "keepArchive", "deleteFailed", "tag"}),
    Setting("hard", OneEach, OnePath, {"extract", "deleteOriginal", "rename"}),
    Setting("hard", OneEach, OwnPaths, {"extract", "deleteOriginal", "noLink"}),
    Setting("sym", OneEach, OnePath, {"extract", "keepArchive", "deleteFailed"}),
    Setting("move", OneEach, OnePath, {"tag", "rename", "deleteFailed", "small"}),
    Setting("move", BothOfOne, OwnPaths, {"tag"}),
    Setting("move-sym", OneEach, OnePath, {"keepArchive", "linksBack"}),
    Setting("move-sym", BothOfOne, OwnPaths, {"extract", "keepArchive", "linksBack", "small"}),
    Setting("move-sym", BothOfOne, OwnPaths, {"linksBack", "forceClean"}),
    Setting("move-sym", OneEach, OnePath, {"tag", "deleteOriginal", "deleteFailed"})}

OneAndThree == f1 :> t1 @@ f2 :> t3
ClientSettings == {
    Setting("hard", OneAndThree, OwnPaths, {}),
    Setting("hard", OneAndThree, OwnPaths, {"resume"}),
    Setting("hard", OneAndThree, OwnPaths, {"resume", "deleteOriginal"})}
HardLinks == {Setting("hard", OneEach, OwnPaths, {"resume"})}
=============================================================================
