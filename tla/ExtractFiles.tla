---------------------------- MODULE ExtractFiles ----------------------------
(***************************************************************************)
(* extract_files: every archive of a download is extracted once, however   *)
(* many parts it has, and extracted archives are then removed.  What was   *)
(* extracted is remembered in two separate lists, of directories and of    *)
(* archive names without their extension, and the disk is listed a second  *)
(* time before the removal, with the archives that came out of archives.   *)
(* The loops' order, by length of the path, is any order.                  *)
(***************************************************************************)
EXTENDS Naturals

CONSTANTS
    Folders,    \* the directories of the download
    Names,      \* the archive names, without partN and extension
    Kinds,      \* the archive formats
    Parts,      \* the parts an archive may have
    SelfDeleting,   \* the kinds whose tool deletes what it unpacked: gunzip
    Downloads,  \* the sets of archive files a download may consist of
    Contents,   \* the sets of archive files one extraction may put on disk
    Under       \* [Folders -> SUBSET Folders], a folder and all below it

Archives == [dir : Folders, name : Names, kind : Kinds, part : Parts]

ASSUME ExtractAssumption ==
    /\ Downloads \subseteq SUBSET Archives
    /\ Contents \subseteq SUBSET Archives
    /\ SelfDeleting \subseteq Kinds
    /\ Under \in [Folders -> SUBSET Folders]
    /\ \A d \in Folders : d \in Under[d]

VARIABLES
    download,           \* the archive files the download came with
    files,              \* the archive files on disk
    inner,              \* those among them that came out of an archive
    keep_archive,       \* the section's setting
    elsewhere,          \* whether dst is given and lies outside the download
    todo,               \* the files the current loop still has to visit
    extracted_folder, extracted_archive,
    removing,           \* whether the second loop has begun
    unpacked,           \* the archives really extracted
    failed,             \* the files the extractor failed on
    again               \* archives extracted more than once

found == <<extracted_folder, extracted_archive>>
history == <<unpacked, failed, again>>
settings == <<download, keep_archive, elsewhere>>
disk == <<files, inner>>
vars == <<settings, disk, todo, found, removing, history>>

Init ==
    /\ download \in Downloads
    /\ files = download /\ inner = {}
    /\ keep_archive \in BOOLEAN /\ elsewhere \in BOOLEAN
    /\ todo = files
    /\ extracted_folder = {} /\ extracted_archive = {}
    /\ removing = FALSE
    /\ unpacked = {} /\ failed = {} /\ again = {}

\* An archive is all files of one stem and format in a folder.
Archive(f) == <<f.dir, f.name, f.kind>>

\* Broken variants: one of the two lists is not looked at.
SameFolder(f) == f.dir \in extracted_folder
NeverKnown(f) == FALSE

Known(f) == f.dir \in extracted_folder /\ f.name \in extracted_archive

Visit(f) == f \in todo /\ todo' = todo \ {f}

SkipKnown(f) ==
    /\ ~removing /\ Visit(f)
    /\ Known(f)
    /\ UNCHANGED <<settings, disk, found, removing, history>>

\* What an extraction writes lies in the archive's folder or below it, unless
\* it goes elsewhere; it replaces no archive file of the download.  gunzip's one
\* file has the archive's stem for its whole name, so another stem.
CameOut(f, new) ==
    /\ new \cap files = {}
    /\ \A g \in new : g.dir \in Under[f.dir]
    /\ f.kind \in SelfDeleting => \A g \in new : g.name # f.name
    /\ elsewhere => new = {}
    /\ inner' = inner \cup new

Extract(f) ==
    /\ ~removing /\ Visit(f)
    /\ ~Known(f)
    /\ \E new \in Contents :
        /\ CameOut(f, new)
        /\ files' = IF f.kind \in SelfDeleting THEN (files \ {f}) \cup new ELSE files \cup new
    /\ extracted_folder' = extracted_folder \cup {f.dir}
    /\ extracted_archive' = extracted_archive \cup {f.name}
    /\ unpacked' = unpacked \cup {Archive(f)}
    /\ again' = again \cup ({Archive(f)} \cap unpacked)
    /\ UNCHANGED <<settings, removing, failed>>

\* The extractor returned False or raised, perhaps half way through the
\* archive; a later part is tried again.
ExtractionFails(f) ==
    /\ ~removing /\ Visit(f)
    /\ ~Known(f)
    /\ \E new \in Contents : CameOut(f, new) /\ files' = files \cup new
    /\ failed' = failed \cup {f}
    /\ UNCHANGED <<settings, found, removing, unpacked, again>>

\* The second loop lists each extracted folder with everything below it, as the
\* disk is by then.
Listed == {f \in files : \E d \in extracted_folder : f.dir \in Under[d]}

BeginRemoval ==
    /\ ~removing /\ todo = {}
    /\ removing' = TRUE
    /\ todo' = Listed
    /\ UNCHANGED <<settings, disk, found, history>>

\* Broken variant: only the setting is asked.
KeepsBySetting(f) == keep_archive

Keeps(f) == f.name \notin extracted_archive \/ keep_archive

SkipKept(f) ==
    /\ removing /\ Visit(f)
    /\ Keeps(f)
    /\ UNCHANGED <<settings, disk, found, removing, history>>

\* Broken variant: the whole folder goes with its first archive.
RemoveFolder(f) ==
    /\ removing /\ Visit(f)
    /\ ~Keeps(f)
    /\ files' = {g \in files : g.dir # f.dir}
    /\ UNCHANGED <<settings, inner, found, removing, history>>

Remove(f) ==
    /\ removing /\ Visit(f)
    /\ ~Keeps(f)
    /\ files' = files \ {f}
    /\ UNCHANGED <<settings, inner, found, removing, history>>

RemovalFails(f) ==
    /\ removing /\ Visit(f)
    /\ ~Keeps(f)
    /\ UNCHANGED <<settings, disk, found, removing, history>>

Next ==
    \/ \E f \in todo : \/ SkipKnown(f) \/ Extract(f) \/ ExtractionFails(f)
                       \/ SkipKept(f) \/ Remove(f) \/ RemovalFails(f)
    \/ BeginRemoval

Spec == Init /\ [][Next]_vars

-----------------------------------------------------------------------------
(* Properties                                                              *)

TypeOK ==
    /\ download \in Downloads /\ inner \in SUBSET Archives
    /\ files \in SUBSET (download \cup inner) /\ todo \in SUBSET files
    /\ removing \/ todo \subseteq download
    /\ keep_archive \in BOOLEAN /\ elsewhere \in BOOLEAN /\ removing \in BOOLEAN
    /\ extracted_folder \in SUBSET Folders
    /\ extracted_archive \in SUBSET Names
    /\ unpacked \in SUBSET (Folders \X Names \X Kinds) /\ again \in SUBSET unpacked
    /\ failed \in SUBSET download

\* No other archive, of the download or out of one of its archives, has f's name.
OnlyOfItsName(f) ==
    \A g \in download \cup inner : g.name = f.name => Archive(g) = Archive(f)

\* The removal loop deletes f.
Removes(f) == removing /\ f \in files \ files'

\* RemovedWereExtracted: "don't remove if we haven't extracted this archive, or
\* if we want to preserve them" (files.py:201) holds of every archive whose name
\* no other archive has, whatever came out of the archives in the meantime.
RemovedWereExtracted ==
    [][\A f \in files : Removes(f) /\ OnlyOfItsName(f) =>
            Archive(f) \in unpacked /\ ~keep_archive]_vars

\* RemovedAnywhere: the same comment (files.py:201), whatever the names.
RemovedAnywhere == [][\A f \in files : Removes(f) => Archive(f) \in unpacked]_vars

Unpacked(g) == Archive(g) \in unpacked

\* NoneForgotten: when the first loop is over, every file of the download was
\* extracted or the extractor failed on it, with one exception, which takes two
\* other archives: one of its name and one of its folder, both extracted
\* (files.py:185-186).
NoneForgotten ==
    [][removing' /\ ~removing =>
        \A f \in download :
            \/ Unpacked(f) \/ f \in failed
            \/ /\ \E g \in download : Unpacked(g) /\ g.name = f.name
               /\ \E h \in download : Unpacked(h) /\ h.dir = f.dir]_vars

\* ExtractedOnce: no archive is extracted twice, in whatever order its parts
\* come, whichever of them fail and whatever the names are (files.py:179-191).
ExtractedOnce == again = {}
=============================================================================
