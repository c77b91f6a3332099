----------------------------- MODULE Transcoder -----------------------------
(***************************************************************************)
(* What a section does to the videos of one download before it hands the   *)
(* directory to the manager (auto_process/tv.py, auto_process/movies.py):  *)
(* meaningless names are replaced (scene_exceptions.py), subdirectories    *)
(* flattened (utils/paths.py), each video probed and all of them           *)
(* transcoded (transcoder.py), and film names tagged with their imdb id.   *)
(*                                                                         *)
(* Every system call on a file is a step, and any of them can be the last  *)
(* one of an attempt.  A later attempt, of the client or by hand, starts   *)
(* from the files the attempts before it left.                             *)
(***************************************************************************)
EXTENDS Naturals, Sequences

CONSTANTS
    Downloads,      \* the possible contents of the download directory
    Configs,        \* the settings considered
    Words,          \* the words that names and extensions are made of
    Name,           \* the name of the download, in place of a meaningless one
    Garbage,        \* names of letters and digits only, which mean nothing
    Subdirs,        \* subdirectories of the download directory
    VEXTENSION,     \* the extension of transcoded videos
    Faults,         \* which faults occur
    MaxRuns         \* bounds the attempts

FaultKinds == {"crash", "encode", "file", "refuse"}

\* The words that are added to names.
Added == {"NTM", "transcoded", "cp"}

ASSUME TranscoderAssumption ==
    /\ MaxRuns \in Nat
    /\ Faults \subseteq FaultKinds
    /\ "top" \notin Subdirs /\ "out" \notin Subdirs
    /\ Added \subseteq Words
    /\ Name \in Words \ (Garbage \cup Added) /\ VEXTENSION \in Words

\* "top" is the download directory, "out" the download's in OUTPUTVIDEOPATH.  A
\* file name is its words before the extension, of which ".NTM", "-transcoded" and
\* ".cp(tt..)" are added here, and the number after "cd", 0 if there is none.
Paths == [dir : Subdirs \cup {"top", "out"}, stem : Seq(Words), disc : Nat, ext : Words]

Settings == [flat : BOOLEAN, tag : BOOLEAN, transcode : BOOLEAN, out : BOOLEAN,
             processOutput : BOOLEAN, duplicate : BOOLEAN, concat : BOOLEAN,
             check : BOOLEAN, noExtractFailed : BOOLEAN, deleteFailed : BOOLEAN,
             ignore : SUBSET Words]

ASSUME ConfigsAssumption == Configs \subseteq Settings

\* Every video comes in one file of the download directory.
ASSUME DownloadsAssumption ==
    \A d \in Downloads :
        /\ DOMAIN d # {}
        /\ \A p \in DOMAIN d : /\ p \in Paths /\ p.stem # <<>> /\ p.dir # "out"
                               /\ d[p].whole \in BOOLEAN /\ d[p].videos # {}
        /\ \A p, q \in DOMAIN d : p # q => d[p].videos \cap d[q].videos = {}

VARIABLES
    disk,       \* the video files: which videos each holds, whole or cut off
    run,        \* the attempt under way
    conf,       \* the settings
    history     \* the download as it came, the attempts and their answers, and
                \* what later attempts started from or an attempt met

vars == <<disk, run, conf, history>>

Files == DOMAIN disk
Local == {p \in Files : p.dir # "out"}
In(dir) == IF dir = "out" THEN Files \ Local ELSE Local

Content(ps) == [videos |-> UNION {disk[p].videos : p \in ps},
                whole |-> \A p \in ps : disk[p].whole]
Without(ps) == [p \in Files \ ps |-> disk[p]]
With(p, c) == [q \in Files \cup {p} |-> IF q = p THEN c ELSE disk[q]]

\* os.rename and shutil.move replace what is at the new path.
Moved(p, q) == [r \in (Files \ {p}) \cup {q} |-> IF r = q THEN disk[p] ELSE disk[r]]

At(pc) == run.pc = pc
Goto(pc) == run' = [run EXCEPT !.pc = pc]
Fault(f) == f \in Faults

Idle == [pc |-> "idle", status |-> 0, todo |-> {}, inputs |-> {}, cur |-> {},
         rem_list |-> {}, suffix |-> <<>>, failed |-> FALSE, dir |-> "top"]

Init ==
    /\ disk \in Downloads
    /\ conf \in Configs
    /\ run = Idle
    /\ history = [download |-> disk, runs |-> 0, answer |-> "none", left |-> {},
                  deleted |-> FALSE]

-----------------------------------------------------------------------------
(* The start of an attempt, and what it starts from.                       *)

\* Parts of one video are in one directory and have one name but for the disc.
HasDisc(p) == p.disc # 0
SameVideo(p, q) == p.dir = q.dir /\ p.stem = q.stem
Missing(ps, p) == \E n \in 1..p.disc : ~\E q \in ps : q.disc = n /\ SameVideo(p, q)

IsGarbage(p) == ~HasDisc(p) /\ \E g \in Garbage : p.stem = <<g>>

Videos == UNION {history.download[p].videos : p \in DOMAIN history.download}
Intact == UNION {history.download[p].videos :
                     p \in {q \in DOMAIN history.download : history.download[q].whole}}
HeldBy(ps, v) == \E p \in ps : v \in disk[p].videos /\ disk[p].whole

\* What an earlier attempt may have left: a transcoded file cut off, a directory
\* without one of its videos, or a name still to be replaced where the file it
\* would collide with has gone on.
LeftBehind ==
    {k \in {"cut", "moved", "name"} :
        \/ k = "cut" /\ \E p \in Local : ~disk[p].whole /\ disk[p].videos \cap Intact # {}
        \/ k = "moved" /\ \E v \in Intact : ~HeldBy(Local, v)
        \/ k = "name" /\ \E p \in Local, q \in Files :
               /\ p # q /\ IsGarbage(p) /\ q.stem[1] \in Garbage \cup {Name}
               /\ (Len(q.stem) > 1 \/ q.dir # p.dir \/ q.ext # p.ext)}

Begin ==
    /\ At("idle") /\ history.runs < MaxRuns
    /\ history.answer \notin {"accepted", "skipped"}
    /\ run' = [Idle EXCEPT !.pc = "rename", !.todo = {p \in Local : IsGarbage(p)}]
    /\ history' = [history EXCEPT !.runs = @ + 1, !.answer = "none",
                                  !.left = IF history.runs = 0 THEN {} ELSE @ \cup LeftBehind]
    /\ UNCHANGED <<disk, conf>>

-----------------------------------------------------------------------------
(* Names and directories.                                                  *)

\* Broken variant: of the new name only the extension is left.
NoName(p) == [p EXCEPT !.stem = <<>>]

NewName(p) == [p EXCEPT !.stem = <<Name>>]

\* A second file of a name becomes name.NTM, and so does a third.
FreeName(q) == IF q \in Files THEN [q EXCEPT !.stem = Append(@, "NTM")] ELSE q

Rename(p) ==
    /\ At("rename") /\ p \in run.todo
    /\ \/ disk' = Moved(p, FreeName(NewName(p)))
       \/ Fault("file") /\ UNCHANGED disk
    /\ run' = [run EXCEPT !.todo = @ \ {p}]
    /\ UNCHANGED <<conf, history>>

Renamed ==
    /\ At("rename") /\ run.todo = {}
    /\ run' = IF conf.flat
                 THEN [run EXCEPT !.pc = "flatten", !.todo = {p \in Local : p.dir # "top"}]
                 ELSE [run EXCEPT !.pc = "check"]
    /\ UNCHANGED <<disk, conf, history>>

Flatten(p) ==
    /\ At("flatten") /\ p \in run.todo
    /\ \/ disk' = Moved(p, [p EXCEPT !.dir = "top"])
       \/ Fault("file") /\ UNCHANGED disk
    /\ run' = [run EXCEPT !.todo = @ \ {p}]
    /\ UNCHANGED <<conf, history>>

Flattened ==
    /\ At("flatten") /\ run.todo = {}
    /\ Goto("check")
    /\ UNCHANGED <<disk, conf, history>>

-----------------------------------------------------------------------------
(* The check for corruption.                                               *)

\* Broken variant: what is not probed counts as bad.
MustProbe(p, status) == conf.check /\ disk[p].whole

\* What is not probed is as good as the client said.  A whole video is one of which
\* ffprobe says that all is well, which with REQUIRE_LAN includes the language.
Probed(status) == conf.check /\ ~(status = 1 /\ conf.noExtractFailed)
IsVideoGood(p, status) == IF Probed(status) THEN disk[p].whole ELSE status = 0

Answer(a) == history' = [history EXCEPT !.answer = a]

\* Nothing to do by hand is a success; nothing in a download is a failure.
CheckEmpty(agent) ==
    /\ Local = {}
    /\ Answer(IF agent = "manual" THEN "skipped" ELSE "rejected")
    /\ run' = Idle
    /\ UNCHANGED disk

CheckGood(status) ==
    /\ Local # {} /\ \A p \in Local : IsVideoGood(p, status)
    /\ Goto(IF conf.transcode THEN "list" ELSE "tag")
    /\ UNCHANGED <<disk, history>>

CheckBad(status) ==
    /\ \E p \in Local : ~IsVideoGood(p, status)
    /\ history' = [history EXCEPT !.answer = "rejected", !.deleted = @ \/ conf.deleteFailed]
    /\ disk' = IF conf.deleteFailed THEN Without(Local) ELSE disk
    /\ run' = [Idle EXCEPT !.status = status]

\* The arguments of the attempt are chosen here, where they are first read: a
\* client passes the status it gave the download, a manual run passes 0.
Check(agent, status) ==
    /\ At("check") /\ (agent = "manual" => status = 0)
    /\ CheckEmpty(agent) \/ CheckGood(status) \/ CheckBad(status)
    /\ UNCHANGED conf

-----------------------------------------------------------------------------
(* Transcoding.                                                            *)

NewDir == IF conf.out THEN "out" ELSE "top"

\* Discs are joined from the first one up to the first gap, one file of each.  They
\* are those of one name: the code compares what comes before "cd", and takes a
\* longer name that begins with it for the same, which no download has.
Parts == {p \in Local : conf.concat /\ HasDisc(p)}
Listed(p, n) == CHOOSE q \in Parts : SameVideo(p, q) /\ q.disc = n
Joined(p) == {q \in Parts : SameVideo(p, q) /\ ~Missing(Parts, q) /\ q = Listed(p, q.disc)}
NewList == {Joined(p) : p \in Parts} \ {{}}

\* The parts leave the list only if some were joined; all of them are to be
\* removed in the end.  An attempt meets "disc" if one has a gap before it, because
\* an attempt removed the disc there or could not move it.
List ==
    /\ At("list")
    /\ run' = [run EXCEPT !.pc = "pick", !.rem_list = Parts,
                          !.inputs = IF NewList = {} THEN {{p} : p \in Local}
                                     ELSE {{p} : p \in Local \ Parts} \cup NewList]
    /\ history' = IF \E p \in Parts : Missing(Parts, p)
                     THEN [history EXCEPT !.left = @ \cup {"disc"}] ELSE history
    /\ UNCHANGED <<disk, conf>>

\* Of a joined video, build_commands returns the first part as its file.
FileOf(in) == CHOOSE p \in in : in = {p} \/ p.disc = 1

\* Broken variant: the new file may be the file it is made of.
SameSuffix(f) == run.suffix

\* VEXTENSION is a variable of the module and stays changed.
Suffix(f) == IF f.ext = VEXTENSION /\ f.dir = NewDir THEN <<"transcoded">> ELSE run.suffix

NewPath(f, suffix) ==
    [dir |-> NewDir, stem |-> f.stem \o suffix,
     disc |-> IF conf.concat THEN 0 ELSE f.disc, ext |-> VEXTENSION]

\* Files are listed by the length of their path, joined videos after the others.
Longer(p, q) == /\ p.dir = q.dir /\ p.disc = q.disc /\ Len(p.stem) > Len(q.stem)
                /\ SubSeq(p.stem, 1, Len(q.stem)) = q.stem
IsNext(in) == \A other \in run.inputs :
    /\ in \subseteq run.rem_list /\ NewList # {} => other \subseteq run.rem_list
    /\ ~Longer(FileOf(in), FileOf(other))

Ignored(in) == \E p \in in : p.ext \in conf.ignore

\* A file in the way of the new one is removed.
Pick(in) ==
    /\ At("pick") /\ in \in run.inputs /\ IsNext(in)
    /\ IF Ignored(in)
          THEN /\ run' = [run EXCEPT !.inputs = @ \ {in}]
               /\ UNCHANGED disk
          ELSE /\ run' = [run EXCEPT !.pc = "encode", !.inputs = @ \ {in}, !.cur = in,
                                     !.suffix = Suffix(FileOf(in))]
               /\ disk' = Without({NewPath(FileOf(in), Suffix(FileOf(in)))})
    /\ UNCHANGED <<conf, history>>

NewFile == NewPath(FileOf(run.cur), run.suffix)
CutOff == [Content(run.cur) EXCEPT !.whole = FALSE]

\* Broken variant: the result of the last video is the result of all.
LastResult(failed) == failed

Result(failed) == run.failed \/ failed

\* ffmpeg fails when a file is gone; a file that is cut off it may accept.
Encode ==
    /\ At("encode")
    /\ \/ /\ run.cur \subseteq Files
          /\ disk' = With(NewFile, Content(run.cur))
          /\ run' = [run EXCEPT !.pc = "unlink", !.failed = Result(FALSE)]
       \/ /\ ~(run.cur \subseteq Files)
          /\ run' = [run EXCEPT !.pc = "pick", !.failed = Result(TRUE)]
          /\ UNCHANGED disk
       \/ /\ run.cur \subseteq Files
          /\ Fault("encode") \/ ~Content(run.cur).whole
          /\ disk' \in {disk, With(NewFile, CutOff)}
          /\ run' = [run EXCEPT !.pc = "pick", !.failed = Result(TRUE)]
    /\ UNCHANGED <<conf, history>>

Unlink ==
    /\ At("unlink")
    /\ disk' = IF conf.duplicate THEN disk ELSE Without({FileOf(run.cur)})
    /\ Goto("pick")
    /\ UNCHANGED <<conf, history>>

RemovesParts == ~run.failed /\ ~conf.duplicate

UnlinkPart(p) ==
    /\ At("pick") /\ run.inputs = {}
    /\ RemovesParts /\ p \in run.rem_list \cap Files
    /\ disk' = Without({p})
    /\ UNCHANGED <<run, conf, history>>

\* An empty output directory is not used, nor one the user wants for himself.
HandedDir == IF In(NewDir) = {} \/ (~conf.processOutput /\ conf.duplicate) THEN "top"
             ELSE NewDir

Transcoded ==
    /\ At("pick") /\ run.inputs = {}
    /\ RemovesParts => run.rem_list \cap Files = {}
    /\ \/ run.failed /\ Answer("failed") /\ run' = Idle
       \/ /\ ~run.failed
          /\ run' = [Idle EXCEPT !.pc = "tag", !.dir = HandedDir]
          /\ UNCHANGED history
    /\ UNCHANGED <<disk, conf>>

-----------------------------------------------------------------------------
(* The hand-off: films are tagged with their id first.                     *)

Untagged == {p \in In(run.dir) : conf.tag /\ \A i \in DOMAIN p.stem : p.stem[i] # "cp"}

Tag(p) ==
    /\ At("tag") /\ p \in Untagged
    /\ disk' = Moved(p, [p EXCEPT !.stem = Append(@, "cp")])
    /\ UNCHANGED <<run, conf, history>>

HandOver ==
    /\ At("tag") /\ Untagged = {}
    /\ \/ Answer("accepted") /\ Goto("idle")
       \/ Fault("refuse") /\ Answer("failed") /\ run' = Idle
    /\ UNCHANGED <<disk, conf>>

Crash ==
    /\ Fault("crash") /\ ~At("idle")
    /\ run' = Idle
    /\ \/ UNCHANGED disk
       \/ At("encode") /\ run.cur \subseteq Files /\ disk' = With(NewFile, CutOff)
    /\ UNCHANGED <<conf, history>>

Next ==
    \/ Begin
    \/ \E p \in run.todo : Rename(p) \/ Flatten(p)
    \/ Renamed \/ Flattened \/ List
    \/ \E agent \in {"client", "manual"}, status \in {0, 1} : Check(agent, status)
    \/ \E in \in run.inputs : Pick(in)
    \/ Encode \/ Unlink
    \/ \E p \in run.rem_list : UnlinkPart(p)
    \/ Transcoded
    \/ \E p \in Files : Tag(p)
    \/ HandOver \/ Crash

Spec == Init /\ [][Next]_vars

-----------------------------------------------------------------------------
(* Properties                                                              *)

Steps == {"idle", "rename", "flatten", "check", "list", "pick", "encode", "unlink", "tag"}

IsDisk(d) == \A p \in DOMAIN d : p \in Paths /\ p.stem # <<>> /\ d[p].whole \in BOOLEAN

TypeOK ==
    /\ IsDisk(disk) /\ conf \in Configs
    /\ run.pc \in Steps /\ run.status \in {0, 1} /\ run.failed \in BOOLEAN
    /\ run.todo \cup run.rem_list \cup run.cur \subseteq Paths
    /\ run.inputs \subseteq SUBSET Paths /\ run.suffix \in Seq(Words)
    /\ run.dir \in {"top", "out"}
    /\ history.runs \in 0..MaxRuns /\ history.deleted \in BOOLEAN
    /\ history.answer \in {"none", "skipped", "rejected", "failed", "accepted"}

\* The names of the download after renaming and joining.
Key(p) == <<IF IsGarbage(p) THEN <<Name>> ELSE p.stem, IF conf.concat THEN 0 ELSE p.disc>>

\* Files meet at one name, unless they are discs of one video, or no more than two
\* of one directory and extension of which the second gets a name of its own.  No
\* name has a word that is added, and no disc to be joined a meaningless name, which
\* the joined video would lose.
Apart ==
    LET d == DOMAIN history.download
        Same(p) == {q \in d : Key(q) = Key(p)}
    IN  /\ \A p \in d :
              /\ Added \cap {p.stem[i] : i \in DOMAIN p.stem} = {}
              /\ conf.concat /\ HasDisc(p) => ~\E g \in Garbage : p.stem = <<g>>
        /\ \A p, q \in d : p # q /\ Key(p) = Key(q) =>
              /\ p.dir = q.dir
              /\ \/ conf.concat /\ HasDisc(p) /\ HasDisc(q) /\ p.disc # q.disc
                 \/ /\ Same(p) = {p, q} /\ p.disc = q.disc /\ p.ext = q.ext
                    /\ IsGarbage(p) \/ IsGarbage(q)

\* A disc of an ignored extension is unlinked without having been transcoded, and
\* one that is cut off spoils the video it is joined to.
DiscsFit ==
    \A p \in DOMAIN history.download :
        conf.concat /\ HasDisc(p) => p.ext \notin conf.ignore /\ history.download[p].whole

Undisturbed == Apart /\ DiscsFit /\ ~history.deleted

\* VideosSurvive: an intact video is always whole in some file, whatever fails and
\* wherever an attempt ends: the original goes after the transcoded file is complete
\* (transcoder.py:973-988), parts after all (:1005), and none is overwritten by
\* another (scene_exceptions.py:74, paths.py:129, transcoder.py:939).  The exceptions
\* are attempts that list a disc with a gap before it, and later ones on a name that
\* could not be replaced before and, without the check, on a file cut off.
VideosSurvive ==
    /\ Undisturbed
    /\ history.left \subseteq (IF conf.check THEN {"cut", "moved"} ELSE {"moved"})
    => \A v \in Intact : HeldBy(Files, v)

\* IntactNotRejected: a download is taken for failed (tv.py:147, movies.py:137), and
\* may be deleted for it, only if the client said so and nothing was probed, a video
\* of it is bad, or an earlier attempt left a file cut off or moved the videos away.
IntactNotRejected ==
    /\ history.answer = "rejected" /\ Intact = Videos
    /\ history.left \cap {"cut", "moved"} = {}
    => run.status = 1 /\ ~Probed(run.status)

\* SuccessIsWhole: a success means that the directory handed over (transcoder.py:1008-1012)
\* has every intact video, whole, unless an attempt before moved some away; what is
\* ignored stays where it was (:923).
SuccessIsWhole ==
    /\ history.answer \in {"accepted", "skipped"}
    /\ Undisturbed /\ (conf.out => conf.ignore = {})
    /\ history.left = {}
    => \A v \in Intact : history.answer = "accepted" /\ HeldBy(In(run.dir), v)
=============================================================================
