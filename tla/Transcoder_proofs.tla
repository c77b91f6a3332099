------------------------- MODULE Transcoder_proofs -------------------------
(***************************************************************************)
(* Proofs about what a section does to the videos of a download, for any   *)
(* downloads, settings, faults and number of attempts.                     *)
(***************************************************************************)
EXTENDS Transcoder, TLAPS

-----------------------------------------------------------------------------
(* Types.  A path that is written has a name, and the file of an input is  *)
(* one of its files: the only one, or the first disc.                      *)

Named(ps) == \A p \in ps : p \in Paths /\ p.stem # <<>>

DiskTyped(d) == Named(DOMAIN d) /\ \A p \in DOMAIN d : d[p].whole \in BOOLEAN

IsInput(in) == Named(in) /\ \E p \in in : in = {p} \/ p.disc = 1

RunType ==
    [pc : Steps, status : {0, 1}, todo : SUBSET Paths, inputs : SUBSET SUBSET Paths,
     cur : SUBSET Paths, rem_list : SUBSET Paths, suffix : Seq(Words),
     failed : BOOLEAN, dir : {"top", "out"}]

HistoryType ==
    [download : Downloads, runs : 0..MaxRuns,
     answer : {"none", "skipped", "rejected", "failed", "accepted"},
     left : SUBSET {"cut", "disc", "moved", "name"}, deleted : BOOLEAN]

TypeInv ==
    /\ DiskTyped(disk) /\ conf \in Configs /\ run \in RunType /\ history \in HistoryType
    /\ Named(run.todo) /\ \A in \in run.inputs : IsInput(in)
    /\ run.pc \in {"encode", "unlink"} => IsInput(run.cur)
    /\ run.pc \in {"rename", "flatten"} => run.todo \subseteq Local

\* InvTypes: the invariant is TypeOK with what keeps it true.
LEMMA InvTypes == ASSUME TypeInv PROVE TypeOK
BY DEF TypeInv, TypeOK, DiskTyped, IsDisk, Named, RunType, HistoryType, Files, Steps

\* FileOfInput: the file of an input is one of its files.
LEMMA FileOfInput ==
    ASSUME NEW in, IsInput(in)
    PROVE  /\ FileOf(in) \in in /\ FileOf(in) \in Paths
           /\ FileOf(in).stem # <<>> /\ FileOf(in).stem \in Seq(Words)
<1>1. FileOf(in) \in in
  BY DEF IsInput, FileOf
<1> QED
  BY <1>1 DEF IsInput, Named, Paths

\* NewPathNamed: the new file has a name.
LEMMA NewPathNamed ==
    ASSUME TypeInv, NEW in, IsInput(in), NEW suffix \in Seq(Words)
    PROVE  NewPath(FileOf(in), suffix) \in Paths /\ NewPath(FileOf(in), suffix).stem # <<>>
<1> DEFINE f == FileOf(in)
<1>1. f \in Paths /\ f.stem # <<>> /\ f.stem \in Seq(Words) /\ f.disc \in Nat
  BY FileOfInput DEF Paths
<1>2. f.stem \o suffix \in Seq(Words) /\ f.stem \o suffix # <<>>
  <2>1. f.stem \o suffix \in Seq(Words) /\ Len(f.stem \o suffix) = Len(f.stem) + Len(suffix)
    BY <1>1
  <2>2. Len(f.stem) > 0
    BY <1>1
  <2> QED
    BY <2>1, <2>2
<1>3. NewDir \in {"top", "out"}
  BY DEF NewDir
<1> QED
  BY <1>1, <1>2, <1>3, TranscoderAssumption DEF NewPath, Paths

\* OneWord and OneMore: names of one word, and names with one more.
LEMMA OneWord == ASSUME NEW w \in Words PROVE <<w>> \in Seq(Words) /\ <<w>> # <<>>
OBVIOUS

LEMMA OneMore ==
    ASSUME NEW w \in Words, NEW s \in Seq(Words)
    PROVE  Append(s, w) \in Seq(Words) /\ Append(s, w) # <<>>
<1>1. Append(s, w) \in Seq(Words)
  OBVIOUS
<1>2. Len(Append(s, w)) = Len(s) + 1 /\ Len(s) \in Nat /\ Len(<<>>) = 0
  OBVIOUS
<1> QED
  BY <1>1, <1>2

\* SuffixTyped: VEXTENSION gets a suffix or keeps it.
LEMMA SuffixTyped ==
    ASSUME TypeInv, NEW f
    PROVE  Suffix(f) \in Seq(Words)
<1>1. <<"transcoded">> \in Seq(Words)
  BY OneWord, TranscoderAssumption DEF Added
<1>2. run.suffix \in Seq(Words)
  BY DEF TypeInv, RunType
<1> QED
  BY <1>1, <1>2 DEF Suffix

\* JoinedIsInput: the parts that are joined start with the first disc.
LEMMA JoinedIsInput ==
    ASSUME TypeInv, NEW p \in Parts, Joined(p) # {}
    PROVE  IsInput(Joined(p))
<1>1. Named(Joined(p))
  BY DEF TypeInv, DiskTyped, Named, Joined, Parts, Local, Files
<1>2. PICK q \in Joined(p) : TRUE
  OBVIOUS
<1>3. q \in Parts /\ SameVideo(p, q) /\ ~Missing(Parts, q) /\ q.disc \in Nat /\ q.disc # 0
  BY <1>1, <1>2 DEF Joined, Parts, HasDisc, Named, Paths
<1> DEFINE r == Listed(p, 1)
<1>4. r \in Parts /\ r.disc = 1 /\ SameVideo(p, r)
  <2>1. 1 \in 1..q.disc
    BY <1>3
  <2>2. ~Missing(Parts, q)
    BY <1>3
  <2>3. PICK f \in Parts : f.disc = 1 /\ SameVideo(q, f)
    BY <2>1, <2>2 DEF Missing
  <2>4. SameVideo(p, f)
    BY <1>3, <2>3 DEF SameVideo
  <2> HIDE DEF SameVideo
  <2> QED
    BY <2>3, <2>4 DEF Listed
<1>5. r = Listed(p, r.disc)
  BY <1>4
<1> HIDE DEF r
<1>6. ~Missing(Parts, r)
  <2>1. \A n \in 1..r.disc : n = r.disc /\ SameVideo(r, r)
    BY <1>4 DEF SameVideo
  <2> QED
    BY <2>1, <1>4 DEF Missing
<1>7. r \in Joined(p)
  BY <1>4, <1>5, <1>6 DEF Joined
<1> QED
  BY <1>1, <1>4, <1>7 DEF IsInput

\* IdleTyped: an attempt that has ended holds nothing.
LEMMA IdleTyped == Idle \in RunType /\ Idle.pc = "idle" /\ Idle.todo = {} /\ Idle.inputs = {}
<1>1. <<>> \in Seq(Words)
  OBVIOUS
<1> QED
  BY <1>1 DEF Idle, RunType, Steps

\* MovedNamed, WithNamed and WithoutNamed: the files stay named.
LEMMA MovedNamed ==
    ASSUME DiskTyped(disk), NEW p \in Files, NEW q \in Paths, q.stem # <<>>
    PROVE  DiskTyped(Moved(p, q)) /\ DOMAIN Moved(p, q) = (Files \ {p}) \cup {q}
BY DEF DiskTyped, Named, Moved, Files

LEMMA WithNamed ==
    ASSUME DiskTyped(disk), NEW q \in Paths, q.stem # <<>>, NEW c, c.whole \in BOOLEAN
    PROVE  DiskTyped(With(q, c))
BY DEF DiskTyped, Named, With, Files

LEMMA WithoutNamed ==
    ASSUME DiskTyped(disk), NEW ps
    PROVE  DiskTyped(Without(ps))
BY DEF DiskTyped, Named, Without, Files

\* The paths files are moved to have names.
LEMMA RenamedTo ==
    ASSUME NEW p \in Paths
    PROVE  FreeName(NewName(p)) \in Paths /\ FreeName(NewName(p)).stem # <<>>
           /\ FreeName(NewName(p)).dir = p.dir
<1>1. <<Name>> \in Seq(Words) /\ <<Name>> # <<>>
  BY OneWord, TranscoderAssumption
<1>2. NewName(p) \in Paths /\ NewName(p).stem = <<Name>> /\ NewName(p).dir = p.dir
  BY <1>1 DEF NewName, Paths
<1>3. Append(<<Name>>, "NTM") \in Seq(Words) /\ Append(<<Name>>, "NTM") # <<>>
  BY <1>1, OneMore, TranscoderAssumption DEF Added
<1>4. [NewName(p) EXCEPT !.stem = Append(@, "NTM")] \in Paths
  BY <1>2, <1>3 DEF Paths
<1>5. [NewName(p) EXCEPT !.stem = Append(@, "NTM")].stem = Append(<<Name>>, "NTM")
  BY <1>2 DEF Paths
<1>6. [NewName(p) EXCEPT !.stem = Append(@, "NTM")].dir = p.dir
  BY <1>2 DEF Paths
<1> QED
  BY <1>1, <1>2, <1>3, <1>4, <1>5, <1>6 DEF FreeName

LEMMA TaggedTo ==
    ASSUME NEW p \in Paths
    PROVE  LET q == [p EXCEPT !.stem = Append(@, "cp")] IN q \in Paths /\ q.stem # <<>>
<1>1. p.stem \in Seq(Words)
  BY DEF Paths
<1>2. Append(p.stem, "cp") \in Seq(Words) /\ Append(p.stem, "cp") # <<>>
  BY <1>1, OneMore, TranscoderAssumption DEF Added
<1> QED
  BY <1>2 DEF Paths
-----------------------------------------------------------------------------
(* The steps keep the types.                                               *)

LEMMA InitTyped == Init => TypeInv
<1> SUFFICES ASSUME Init PROVE TypeInv
  OBVIOUS
<1>1. DiskTyped(disk)
  BY DownloadsAssumption DEF Init, DiskTyped, Named
<1>2. history \in HistoryType
  BY TranscoderAssumption DEF Init, HistoryType
<1> QED
  BY <1>1, <1>2, IdleTyped DEF Init, TypeInv, Named

\* One lemma for each action.
LEMMA BeginTyped == TypeInv /\ Begin => TypeInv'
<1> SUFFICES ASSUME TypeInv, Begin PROVE TypeInv'
  OBVIOUS
<1> DEFINE todo == {p \in Local : IsGarbage(p)}
<1>1. todo \subseteq Local /\ Named(todo)
  BY DEF TypeInv, DiskTyped, Named, Local, Files
<1>2. run' = [Idle EXCEPT !.pc = "rename", !.todo = todo] /\ UNCHANGED <<disk, conf>>
  BY DEF Begin
<1> HIDE DEF todo
<1>3. run' \in RunType /\ run'.pc = "rename" /\ run'.todo = todo /\ run'.inputs = {}
  BY <1>1, <1>2, IdleTyped DEF RunType, Steps, Named
<1>4. LeftBehind \subseteq {"cut", "disc", "moved", "name"}
  BY DEF LeftBehind
<1> HIDE DEF LeftBehind
<1>5. history' \in HistoryType
  <2>1. history \in HistoryType /\ history.runs + 1 \in 0..MaxRuns
    BY TranscoderAssumption DEF Begin, TypeInv, HistoryType
  <2>2. \E left \in {{}, history.left \cup LeftBehind} :
            history' = [history EXCEPT !.runs = @ + 1, !.answer = "none", !.left = left]
    BY DEF Begin
  <2>3. \A left \in {{}, history.left \cup LeftBehind} :
            left \subseteq {"cut", "disc", "moved", "name"}
    BY <1>4, <2>1 DEF HistoryType
  <2> QED
    BY <2>1, <2>2, <2>3 DEF HistoryType
<1> QED
  BY <1>1, <1>2, <1>3, <1>5 DEF TypeInv, Local, Files, Named

LEMMA RenameTyped == TypeInv /\ (\E p \in run.todo : Rename(p)) => TypeInv'
<1> SUFFICES ASSUME TypeInv, NEW p \in run.todo, Rename(p) PROVE TypeInv'
  OBVIOUS
<1> DEFINE q == FreeName(NewName(p))
<1>1. p \in Local /\ p \in Paths /\ p \in Files
  BY DEF TypeInv, Named, Rename, At, Local
<1>2. q \in Paths /\ q.stem # <<>> /\ q.dir = p.dir
  BY <1>1, RenamedTo
<1>3. disk' \in {disk, Moved(p, q)} /\ run' = [run EXCEPT !.todo = @ \ {p}]
      /\ UNCHANGED <<conf, history>>
  BY DEF Rename
<1> HIDE DEF q
<1>4. DiskTyped(disk') /\ Files \ {p} \subseteq Files'
  BY <1>1, <1>2, <1>3, MovedNamed DEF TypeInv, Files
<1>5. run' \in RunType /\ run'.pc = run.pc /\ run'.todo = run.todo \ {p}
      /\ run'.inputs = run.inputs /\ run'.cur = run.cur
  BY <1>3 DEF TypeInv, RunType
<1> QED
  BY <1>3, <1>4, <1>5 DEF TypeInv, Local, Named

LEMMA FlattenTyped == TypeInv /\ (\E p \in run.todo : Flatten(p)) => TypeInv'
<1> SUFFICES ASSUME TypeInv, NEW p \in run.todo, Flatten(p) PROVE TypeInv'
  OBVIOUS
<1> DEFINE q == [p EXCEPT !.dir = "top"]
<1>1. p \in Local /\ p \in Paths /\ p.stem # <<>> /\ p \in Files
  BY DEF TypeInv, Named, Flatten, At, Local
<1>2. q \in Paths /\ q.stem # <<>>
  BY <1>1 DEF Paths
<1>3. disk' \in {disk, Moved(p, q)} /\ run' = [run EXCEPT !.todo = @ \ {p}]
      /\ UNCHANGED <<conf, history>>
  BY DEF Flatten
<1> HIDE DEF q
<1>4. DiskTyped(disk') /\ Files \ {p} \subseteq Files'
  BY <1>1, <1>2, <1>3, MovedNamed DEF TypeInv, Files
<1>5. run' \in RunType /\ run'.pc = run.pc /\ run'.todo = run.todo \ {p}
      /\ run'.inputs = run.inputs /\ run'.cur = run.cur
  BY <1>3 DEF TypeInv, RunType
<1> QED
  BY <1>3, <1>4, <1>5 DEF TypeInv, Local, Named

LEMMA RenamedTyped == TypeInv /\ Renamed => TypeInv'
<1> SUFFICES ASSUME TypeInv, Renamed PROVE TypeInv'
  OBVIOUS
<1> DEFINE todo == {p \in Local : p.dir # "top"}
<1>1. todo \subseteq Local /\ Named(todo)
  BY DEF TypeInv, DiskTyped, Named, Local, Files
<1>2. /\ run' \in {[run EXCEPT !.pc = "flatten", !.todo = todo], [run EXCEPT !.pc = "check"]}
      /\ UNCHANGED <<disk, conf, history>>
  BY DEF Renamed
<1> HIDE DEF todo
<1>3. /\ run' \in RunType /\ run'.inputs = run.inputs
      /\ \/ run'.pc = "flatten" /\ run'.todo = todo
         \/ run'.pc = "check" /\ run'.todo = run.todo
  BY <1>1, <1>2 DEF TypeInv, RunType, Steps, Named
<1> QED
  BY <1>1, <1>2, <1>3 DEF TypeInv, Local, Files

LEMMA FlattenedTyped == TypeInv /\ Flattened => TypeInv'
<1> SUFFICES ASSUME TypeInv, Flattened PROVE TypeInv'
  OBVIOUS
<1>1. run' = [run EXCEPT !.pc = "check"] /\ UNCHANGED <<disk, conf, history>>
  BY DEF Flattened, Goto
<1>2. run' \in RunType /\ run'.pc = "check" /\ run'.todo = run.todo /\ run'.inputs = run.inputs
  BY <1>1 DEF TypeInv, RunType, Steps
<1> QED
  BY <1>1, <1>2 DEF TypeInv

LEMMA CheckTyped ==
    ASSUME TypeInv, NEW agent, NEW status \in {0, 1}, Check(agent, status)
    PROVE  TypeInv'
<1>1. CASE CheckEmpty(agent)
  <2>1. run' = Idle /\ UNCHANGED <<disk, conf>> /\ history' \in HistoryType
    BY <1>1 DEF CheckEmpty, Check, Answer, TypeInv, HistoryType
  <2> QED
    BY <2>1, IdleTyped DEF TypeInv, Named
<1>2. CASE CheckGood(status)
  <2>1. /\ run' \in {[run EXCEPT !.pc = "list"], [run EXCEPT !.pc = "tag"]}
        /\ UNCHANGED <<disk, conf, history>>
    BY <1>2 DEF CheckGood, Check, Goto
  <2>2. run' \in RunType /\ run'.pc \in {"list", "tag"} /\ run'.todo = run.todo
        /\ run'.inputs = run.inputs
    BY <2>1 DEF TypeInv, RunType, Steps
  <2> QED
    BY <2>1, <2>2 DEF TypeInv
<1>3. CASE CheckBad(status)
  <2>1. run' = [Idle EXCEPT !.status = status] /\ UNCHANGED conf /\ history' \in HistoryType
    BY <1>3, ConfigsAssumption DEF CheckBad, Check, TypeInv, HistoryType, Settings
  <2>2. DiskTyped(disk')
    BY <1>3, WithoutNamed DEF CheckBad, TypeInv
  <2>3. run' \in RunType /\ run'.pc = "idle" /\ run'.todo = {} /\ run'.inputs = {}
    BY <2>1, IdleTyped DEF RunType
  <2> QED
    BY <2>1, <2>2, <2>3 DEF TypeInv, Named
<1> QED
  BY <1>1, <1>2, <1>3 DEF Check

LEMMA ListTyped == TypeInv /\ List => TypeInv'
<1> SUFFICES ASSUME TypeInv, List PROVE TypeInv'
  OBVIOUS
<1>1. Named(Parts) /\ Named(Local) /\ Parts \subseteq Local
  BY DEF TypeInv, DiskTyped, Named, Parts, Local, Files
<1>2. \A p \in Local : IsInput({p})
  BY <1>1 DEF IsInput, Named
<1>3. \A in \in NewList : IsInput(in)
  BY JoinedIsInput DEF NewList
<1>4. /\ \A in \in run'.inputs : IsInput(in)
      /\ run' = [run EXCEPT !.pc = "pick", !.rem_list = Parts, !.inputs = run'.inputs]
  <2> DEFINE inputs == IF NewList = {} THEN {{p} : p \in Local}
                       ELSE {{p} : p \in Local \ Parts} \cup NewList
  <2>1. run' = [run EXCEPT !.pc = "pick", !.rem_list = Parts, !.inputs = inputs]
    BY DEF List
  <2>2. \A in \in inputs : IsInput(in)
    BY <1>2, <1>3
  <2> HIDE DEF inputs
  <2>3. run'.inputs = inputs
    BY <2>1 DEF TypeInv, RunType
  <2> QED
    BY <2>1, <2>2, <2>3
<1> HIDE DEF Parts
<1>5. run'.inputs \subseteq SUBSET Paths /\ Parts \subseteq Paths
  BY <1>1, <1>4 DEF IsInput, Named
<1>6. run' \in RunType /\ run'.pc = "pick" /\ run'.todo = run.todo
  BY <1>4, <1>5 DEF TypeInv, RunType, Steps
<1>7. UNCHANGED <<disk, conf>> /\ history' \in HistoryType
  BY DEF List, TypeInv, HistoryType
<1> QED
  BY <1>4, <1>6, <1>7 DEF TypeInv

LEMMA PickTyped == TypeInv /\ (\E in \in run.inputs : Pick(in)) => TypeInv'
<1> SUFFICES ASSUME TypeInv, NEW in \in run.inputs, Pick(in) PROVE TypeInv'
  OBVIOUS
<1> DEFINE f == FileOf(in)
<1>1. IsInput(in) /\ in \subseteq Paths
  BY DEF TypeInv, IsInput, Named
<1>2. Suffix(f) \in Seq(Words)
  BY SuffixTyped
<1>3. UNCHANGED <<conf, history>> /\ DiskTyped(disk')
  BY WithoutNamed DEF Pick, TypeInv
<1>4. \/ run' = [run EXCEPT !.inputs = @ \ {in}]
      \/ run' = [run EXCEPT !.pc = "encode", !.inputs = @ \ {in}, !.cur = in, !.suffix = Suffix(f)]
  BY DEF Pick
<1> HIDE DEF f
<1>5. /\ run' \in RunType /\ run'.todo = run.todo /\ run'.inputs \subseteq run.inputs
      /\ run'.pc \in {run.pc, "encode"} /\ (run'.pc = "encode" => run'.cur = in)
  <2>1. run.pc = "pick"
    BY DEF Pick, At
  <2>2. CASE run' = [run EXCEPT !.inputs = @ \ {in}]
    BY <2>1, <2>2 DEF TypeInv, RunType
  <2>3. CASE run' = [run EXCEPT !.pc = "encode", !.inputs = @ \ {in}, !.cur = in,
                                !.suffix = Suffix(f)]
    BY <1>1, <1>2, <2>3 DEF TypeInv, RunType, Steps
  <2> QED
    BY <1>4, <2>2, <2>3
<1>6. run.pc = "pick"
  BY DEF Pick, At
<1> QED
  BY <1>1, <1>3, <1>5, <1>6 DEF TypeInv

LEMMA EncodeTyped == TypeInv /\ Encode => TypeInv'
<1> SUFFICES ASSUME TypeInv, Encode PROVE TypeInv'
  OBVIOUS
<1>1. IsInput(run.cur) /\ run.suffix \in Seq(Words) /\ run.failed \in BOOLEAN
  BY DEF TypeInv, Encode, At, RunType
<1>2. NewFile \in Paths /\ NewFile.stem # <<>>
  BY <1>1, NewPathNamed DEF NewFile
<1>3. Content(run.cur).whole \in BOOLEAN /\ CutOff.whole \in BOOLEAN
  BY DEF Content, CutOff
<1>4. DiskTyped(With(NewFile, Content(run.cur))) /\ DiskTyped(With(NewFile, CutOff))
  BY <1>2, <1>3, WithNamed DEF TypeInv
<1>5. DiskTyped(disk')
  BY <1>4 DEF Encode, TypeInv
<1>6. \E pc \in {"unlink", "pick"}, failed \in BOOLEAN :
          run' = [run EXCEPT !.pc = pc, !.failed = failed]
  <2>1. Result(TRUE) \in BOOLEAN /\ Result(FALSE) \in BOOLEAN
    BY <1>1 DEF Result
  <2> QED
    BY <2>1 DEF Encode
<1>7. /\ run' \in RunType /\ run'.pc \in {"unlink", "pick"} /\ run'.todo = run.todo
      /\ run'.inputs = run.inputs /\ run'.cur = run.cur
  BY <1>6 DEF TypeInv, RunType, Steps
<1>8. UNCHANGED <<conf, history>>
  BY DEF Encode
<1> QED
  BY <1>1, <1>5, <1>7, <1>8 DEF TypeInv

LEMMA UnlinkTyped == TypeInv /\ Unlink => TypeInv'
<1> SUFFICES ASSUME TypeInv, Unlink PROVE TypeInv'
  OBVIOUS
<1>1. DiskTyped(disk') /\ run' = [run EXCEPT !.pc = "pick"] /\ UNCHANGED <<conf, history>>
  BY WithoutNamed DEF Unlink, TypeInv, Goto
<1>2. run' \in RunType /\ run'.pc = "pick" /\ run'.todo = run.todo /\ run'.inputs = run.inputs
  BY <1>1 DEF TypeInv, RunType, Steps
<1> QED
  BY <1>1, <1>2 DEF TypeInv

LEMMA UnlinkPartTyped == TypeInv /\ (\E p \in run.rem_list : UnlinkPart(p)) => TypeInv'
<1> SUFFICES ASSUME TypeInv, NEW p \in run.rem_list, UnlinkPart(p) PROVE TypeInv'
  OBVIOUS
<1>1. DiskTyped(disk') /\ UNCHANGED <<run, conf, history>> /\ run.pc = "pick"
  BY WithoutNamed DEF UnlinkPart, TypeInv, At
<1> QED
  BY <1>1 DEF TypeInv

LEMMA TranscodedTyped == TypeInv /\ Transcoded => TypeInv'
<1> SUFFICES ASSUME TypeInv, Transcoded PROVE TypeInv'
  OBVIOUS
<1>1. history' \in HistoryType /\ UNCHANGED <<disk, conf>>
  BY DEF Transcoded, Answer, TypeInv, HistoryType
<1>2. HandedDir \in {"top", "out"}
  BY DEF HandedDir, NewDir
<1>3. run' = Idle \/ run' = [Idle EXCEPT !.pc = "tag", !.dir = HandedDir]
  BY DEF Transcoded
<1>4. run' \in RunType /\ run'.pc \in {"idle", "tag"} /\ run'.todo = {} /\ run'.inputs = {}
  BY <1>2, <1>3, IdleTyped DEF RunType, Steps
<1> QED
  BY <1>1, <1>4 DEF TypeInv, Named

LEMMA TagTyped == TypeInv /\ (\E p \in Files : Tag(p)) => TypeInv'
<1> SUFFICES ASSUME TypeInv, NEW p \in Files, Tag(p) PROVE TypeInv'
  OBVIOUS
<1>1. p \in Paths
  BY DEF TypeInv, DiskTyped, Named, Files
<1> DEFINE q == [p EXCEPT !.stem = Append(@, "cp")]
<1>2. q \in Paths /\ q.stem # <<>>
  BY <1>1, TaggedTo
<1>3. disk' = Moved(p, q) /\ UNCHANGED <<run, conf, history>> /\ run.pc = "tag"
  BY DEF Tag, At
<1> HIDE DEF q
<1>4. DiskTyped(disk')
  BY <1>2, <1>3, MovedNamed DEF TypeInv
<1> QED
  BY <1>3, <1>4 DEF TypeInv

LEMMA HandOverTyped == TypeInv /\ HandOver => TypeInv'
<1> SUFFICES ASSUME TypeInv, HandOver PROVE TypeInv'
  OBVIOUS
<1>1. history' \in HistoryType /\ UNCHANGED <<disk, conf>>
  BY DEF HandOver, Answer, TypeInv, HistoryType
<1>2. run' = Idle \/ run' = [run EXCEPT !.pc = "idle"]
  BY DEF HandOver, Goto
<1>3. run' \in RunType /\ run'.pc = "idle" /\ Named(run'.todo)
      /\ (\A in \in run'.inputs : IsInput(in))
  BY <1>2, IdleTyped DEF TypeInv, RunType, Steps, Named
<1> QED
  BY <1>1, <1>3 DEF TypeInv

LEMMA CrashTyped == TypeInv /\ Crash => TypeInv'
<1> SUFFICES ASSUME TypeInv, Crash PROVE TypeInv'
  OBVIOUS
<1>1. run' = Idle /\ UNCHANGED <<conf, history>>
  BY DEF Crash
<1>2. DiskTyped(disk')
  <2>1. CASE At("encode") /\ disk' = With(NewFile, CutOff)
    <3>1. IsInput(run.cur) /\ run.suffix \in Seq(Words)
      BY <2>1 DEF TypeInv, At, RunType
    <3>2. NewFile \in Paths /\ NewFile.stem # <<>> /\ CutOff.whole \in BOOLEAN
      BY <3>1, NewPathNamed DEF NewFile, CutOff, Content
    <3> QED
      BY <2>1, <3>2, WithNamed DEF TypeInv
  <2> QED
    BY <2>1 DEF Crash, TypeInv
<1> QED
  BY <1>1, <1>2, IdleTyped DEF TypeInv, Named

LEMMA NextTyped == TypeInv /\ [Next]_vars => TypeInv'
<1> SUFFICES ASSUME TypeInv, [Next]_vars PROVE TypeInv'
  OBVIOUS
<1>1. CASE UNCHANGED vars
  BY <1>1 DEF vars, TypeInv, Local, Files
<1>2. CASE Next
  BY <1>2, BeginTyped, RenameTyped, FlattenTyped, RenamedTyped, FlattenedTyped, CheckTyped,
     ListTyped, PickTyped, EncodeTyped, UnlinkTyped, UnlinkPartTyped, TranscodedTyped,
     TagTyped, HandOverTyped, CrashTyped DEF Next
<1> QED
  BY <1>1, <1>2

\* TypeCorrect: whatever an attempt does and wherever it ends, every file has a name,
\* and every step works on inputs with a first file.
THEOREM TypeCorrect == Spec => []TypeOK
<1>1. Init => TypeInv
  BY InitTyped
<1>2. TypeInv /\ [Next]_vars => TypeInv'
  BY NextTyped
<1>3. TypeInv => TypeOK
  BY InvTypes
<1> QED
  BY <1>1, <1>2, <1>3, PTL DEF Spec
-----------------------------------------------------------------------------
(* A download of intact videos is not taken for failed.  The proof follows *)
(* the videos from the start of an attempt to its check: every file holds  *)
(* videos of the download, and before the check files are only moved.      *)

\* Every file holds videos of the download, and nothing changes before the first attempt.
HeldInv ==
    /\ \A p \in Files : disk[p].videos # {} /\ disk[p].videos \subseteq Videos
    /\ history.runs = 0 => At("idle") /\ disk = history.download

\* An attempt has no answer before it ends.
AnswerInv == ~At("idle") => history.answer = "none"

Unharmed == Intact = Videos /\ history.left \cap {"cut", "moved"} = {}

\* Until the check, the directory has files, and all are whole.
WholeInv ==
    run.pc \in {"rename", "flatten", "check"} /\ Unharmed =>
        Local # {} /\ \A p \in Local : disk[p].whole

RejectInv == HeldInv /\ AnswerInv /\ WholeInv /\ IntactNotRejected

\* HeldByNew: what ffmpeg writes holds the videos of its input.
LEMMA HeldByNew ==
    ASSUME HeldInv, IsInput(run.cur), run.cur \subseteq Files
    PROVE  /\ Content(run.cur).videos # {} /\ Content(run.cur).videos \subseteq Videos
           /\ CutOff.videos = Content(run.cur).videos
BY DEF HeldInv, IsInput, Content, CutOff

\* DownloadKept: no step changes what came, nor what the properties compute from it.
LEMMA DownloadKept ==
    ASSUME TypeInv, [Next]_vars
    PROVE  /\ history'.download = history.download
           /\ Videos' = Videos /\ Intact' = Intact
           /\ history.runs # 0 => history'.runs # 0
<1>1. history'.download = history.download /\ (history.runs # 0 => history'.runs # 0)
  <2>1. history \in HistoryType
    BY DEF TypeInv
  <2>2. CASE UNCHANGED history
    BY <2>2
  <2>3. CASE Begin
    <3>1. history'.download = history.download /\ history'.runs = history.runs + 1
      BY <2>1, <2>3 DEF Begin, HistoryType
    <3> QED
      BY <2>1, <3>1 DEF HistoryType
  <2>4. CASE \E a \in {"skipped", "rejected", "failed", "accepted"}, d \in BOOLEAN :
                history' = [history EXCEPT !.answer = a, !.deleted = d]
                \/ history' = [history EXCEPT !.answer = a]
    BY <2>1, <2>4 DEF HistoryType
  <2>5. CASE \E agent \in {"client", "manual"}, status \in {0, 1} : Check(agent, status)
    <3>1. history.deleted \/ conf.deleteFailed \in BOOLEAN
      BY ConfigsAssumption DEF TypeInv, Settings, HistoryType
    <3> QED
      BY <2>1, <2>5, <3>1 DEF Check, CheckEmpty, CheckGood, CheckBad, Answer, HistoryType
  <2>6. CASE Transcoded \/ HandOver \/ List
    BY <2>1, <2>2, <2>4, <2>6 DEF Transcoded, HandOver, Answer, List, HistoryType
  <2> QED
    BY <2>2, <2>3, <2>5, <2>6 DEF Next, vars, Rename, Flatten, Renamed, Flattened, Pick,
       Encode, Unlink, UnlinkPart, Tag, Crash
<1>2. Videos' = Videos /\ Intact' = Intact
  BY <1>1 DEF Videos, Intact
<1> QED
  BY <1>1, <1>2

\* InitHeld: a download has videos, and all of them are its own.
LEMMA InitHeld == Init => RejectInv
<1> SUFFICES ASSUME Init PROVE RejectInv
  OBVIOUS
<1>1. disk \in Downloads /\ history.download = disk /\ run.pc = "idle" /\ history.answer = "none"
  BY IdleTyped DEF Init
<1>2. HeldInv
  BY <1>1, DownloadsAssumption DEF HeldInv, Videos, Files, At
<1> QED
  BY <1>1, <1>2 DEF RejectInv, AnswerInv, WholeInv, IntactNotRejected, At

\* HeldKept: each step keeps the videos in their files, or removes files.
LEMMA HeldKept ==
    ASSUME TypeInv, HeldInv, [Next]_vars
    PROVE  HeldInv'
<1>1. Videos' = Videos /\ history'.download = history.download
      /\ (history.runs # 0 => history'.runs # 0)
  BY DownloadKept
<1>2. (\A p \in Files : disk[p].videos # {} /\ disk[p].videos \subseteq Videos)'
  <2>1. CASE disk' = disk
    BY <1>1, <2>1 DEF HeldInv, Files
  <2>2. CASE \E ps : disk' = Without(ps)
    BY <1>1, <2>2 DEF HeldInv, Files, Without
  <2>3. CASE \E p \in Files : \E q : disk' = Moved(p, q)
    BY <1>1, <2>3 DEF HeldInv, Files, Moved
  <2>4. CASE IsInput(run.cur) /\ run.cur \subseteq Files
             /\ disk' \in {With(NewFile, Content(run.cur)), With(NewFile, CutOff)}
    <3>1. /\ Content(run.cur).videos # {} /\ Content(run.cur).videos \subseteq Videos
          /\ CutOff.videos = Content(run.cur).videos
      BY <2>4, HeldByNew
    <3> HIDE DEF Content, CutOff
    <3> QED
      BY <1>1, <2>4, <3>1 DEF HeldInv, Files, With
  <2>5. CASE Begin \/ Renamed \/ Flattened \/ List \/ Transcoded \/ HandOver \/ UNCHANGED vars
    BY <2>1, <2>5 DEF Begin, Renamed, Flattened, List, Transcoded, HandOver, vars
  <2>6. CASE \E p \in run.todo : Rename(p) \/ Flatten(p)
    <3>1. PICK p \in run.todo : Rename(p) \/ Flatten(p)
      BY <2>6
    <3>2. p \in Files
      BY <3>1 DEF TypeInv, Rename, Flatten, At, Local
    <3> QED
      BY <2>1, <2>3, <3>1, <3>2 DEF Rename, Flatten
  <2>7. CASE \E agent \in {"client", "manual"}, status \in {0, 1} : Check(agent, status)
    BY <2>1, <2>2, <2>7 DEF Check, CheckEmpty, CheckGood, CheckBad
  <2>8. CASE \E in \in run.inputs : Pick(in)
    BY <2>1, <2>2, <2>8 DEF Pick
  <2>9. CASE Encode \/ Crash
    BY <2>1, <2>4, <2>9 DEF Encode, Crash, TypeInv, At
  <2>10. CASE Unlink \/ \E p \in run.rem_list : UnlinkPart(p)
    BY <2>1, <2>2, <2>10 DEF Unlink, UnlinkPart
  <2>11. CASE \E p \in Files : Tag(p)
    BY <2>3, <2>11 DEF Tag
  <2> QED
    BY <2>5, <2>6, <2>7, <2>8, <2>9, <2>10, <2>11 DEF Next
<1>3. (history.runs = 0 => At("idle") /\ disk = history.download)'
  <2>1. CASE Begin
    <3>1. history'.runs = history.runs + 1 /\ history.runs \in Nat
      BY <2>1 DEF Begin, TypeInv, HistoryType
    <3> QED
      BY <3>1
  <2>2. CASE UNCHANGED vars
    BY <2>2 DEF vars, HeldInv, At
  <2>3. CASE ~At("idle")
    BY <1>1, <2>3 DEF HeldInv
  <2> QED
    BY <2>1, <2>2, <2>3 DEF Next, Rename, Flatten, Renamed, Flattened, Check, List, Pick, Encode,
       Unlink, UnlinkPart, Transcoded, Tag, HandOver, Crash, At
<1> QED
  BY <1>2, <1>3 DEF HeldInv
\* AnswerKept: an answer comes with the end of the attempt.
LEMMA AnswerKept ==
    ASSUME TypeInv, AnswerInv, [Next]_vars
    PROVE  AnswerInv'
<1>1. CASE UNCHANGED vars
  BY <1>1 DEF vars, AnswerInv, At
<1>2. CASE Begin
  BY <1>2 DEF Begin, AnswerInv, TypeInv, HistoryType
<1>3. CASE run'.pc = "idle"
  BY <1>3 DEF AnswerInv, At
<1>4. CASE ~At("idle") /\ UNCHANGED history
  BY <1>4 DEF AnswerInv, At
<1>5. CASE \E agent \in {"client", "manual"}, status \in {0, 1} : Check(agent, status)
  <2>1. PICK agent \in {"client", "manual"}, status \in {0, 1} : Check(agent, status)
    BY <1>5
  <2>2. run' = Idle \/ run' = [Idle EXCEPT !.status = status] \/ UNCHANGED history
    BY <2>1 DEF Check, CheckEmpty, CheckGood, CheckBad
  <2> QED
    BY <1>3, <1>4, <2>1, <2>2, IdleTyped DEF RunType, Check, At
<1>6. CASE Transcoded
  <2>1. run' = Idle \/ UNCHANGED history
    BY <1>6 DEF Transcoded
  <2> QED
    BY <1>3, <1>4, <1>6, <2>1, IdleTyped DEF Transcoded, At
<1>7. CASE HandOver
  <2>1. run' = Idle \/ run' = [run EXCEPT !.pc = "idle"]
    BY <1>7 DEF HandOver, Goto
  <2> QED
    BY <1>3, <2>1, IdleTyped DEF TypeInv, RunType
<1>8. CASE List
  BY <1>8 DEF List, AnswerInv, TypeInv, HistoryType, At
<1> QED
  BY <1>1, <1>2, <1>4, <1>5, <1>6, <1>7, <1>8 DEF Next, Rename, Flatten, Renamed, Flattened,
     Pick, Encode, Unlink, UnlinkPart, Tag, Crash, At

\* BegunWhole: an attempt on an unharmed download starts from whole files.
LEMMA BegunWhole ==
    ASSUME TypeInv, HeldInv, Begin, Unharmed'
    PROVE  (Local # {} /\ \A p \in Local : disk[p].whole)'
<1>1. Intact = Videos /\ disk' = disk /\ history \in HistoryType
  <2>1. Videos' = Videos /\ Intact' = Intact
    BY DownloadKept DEF Next
  <2> QED
    BY <2>1 DEF Unharmed, Begin, TypeInv
<1>2. CASE history.runs = 0
  <2>1. disk = history.download /\ disk \in Downloads
    BY <1>1, <1>2 DEF HeldInv, HistoryType
  <2>2. Local = DOMAIN disk
    BY <2>1, DownloadsAssumption DEF Local, Files
  <2>3. ASSUME NEW p \in Local PROVE disk[p].whole
    <3>1. PICK v \in disk[p].videos : TRUE
      BY <2>1, <2>2, DownloadsAssumption
    <3>2. v \in Intact
      BY <1>1, <2>1, <2>2, <3>1 DEF Videos
    <3>3. PICK q \in DOMAIN disk : disk[q].whole /\ v \in disk[q].videos
      BY <2>1, <3>2 DEF Intact
    <3>4. q = p
      BY <2>1, <2>2, <3>1, <3>3, DownloadsAssumption
    <3> QED
      BY <3>3, <3>4
  <2> QED
    BY <1>1, <2>1, <2>2, <2>3, DownloadsAssumption DEF Local, Files
<1>3. CASE history.runs # 0
  <2>1. "cut" \notin LeftBehind /\ "moved" \notin LeftBehind
    <3>1. history'.left = history.left \cup LeftBehind
      BY <1>1, <1>3 DEF Begin, HistoryType
    <3> HIDE DEF LeftBehind
    <3> QED
      BY <3>1 DEF Unharmed
  <2>2. \A v \in Intact : HeldBy(Local, v)
    BY <2>1 DEF LeftBehind
  <2>3. Local # {}
    <3>1. history.download \in Downloads
      BY <1>1 DEF HistoryType
    <3>2. PICK p \in DOMAIN history.download : history.download[p].videos # {}
      BY <3>1, DownloadsAssumption
    <3>3. Videos # {}
      BY <3>2 DEF Videos
    <3> QED
      BY <1>1, <2>2, <3>3 DEF HeldBy
  <2>4. ASSUME NEW p \in Local PROVE disk[p].whole
    <3>1. disk[p].videos \cap Intact # {}
      BY <1>1 DEF HeldInv, Local
    <3>2. disk[p].whole \in BOOLEAN
      BY DEF TypeInv, DiskTyped, Local, Files
    <3> QED
      BY <2>1, <3>1, <3>2 DEF LeftBehind
  <2> QED
    BY <1>1, <2>3, <2>4 DEF Local, Files
<1> QED
  BY <1>2, <1>3

\* MovedWhole: moving a file of the directory inside it leaves the files whole.
LEMMA MovedWhole ==
    ASSUME NEW p \in Local, NEW q, q.dir # "out", disk' = Moved(p, q),
           \A r \in Local : disk[r].whole
    PROVE  (Local # {} /\ \A r \in Local : disk[r].whole)'
<1>1. DOMAIN disk' = (Files \ {p}) \cup {q}
  BY DEF Moved
<1>2. q \in Local'
  BY <1>1 DEF Local, Files
<1>3. ASSUME NEW r \in Local' PROVE disk'[r].whole
  BY <1>1 DEF Local, Files, Moved
<1> QED
  BY <1>2, <1>3

\* WholeKept: names and directories change, the files do not.
LEMMA WholeKept ==
    ASSUME TypeInv, HeldInv, WholeInv, [Next]_vars
    PROVE  WholeInv'
<1> SUFFICES ASSUME run'.pc \in {"rename", "flatten", "check"}, Unharmed'
             PROVE  (Local # {} /\ \A p \in Local : disk[p].whole)'
  BY DEF WholeInv
<1>1. CASE Begin
  BY <1>1, BegunWhole
<1>2. ASSUME UNCHANGED history, run.pc \in {"rename", "flatten", "check"}
      PROVE  Local # {} /\ \A p \in Local : disk[p].whole
  BY <1>2, DownloadKept DEF Unharmed, WholeInv
<1>3. CASE \E p \in run.todo : Rename(p) \/ Flatten(p)
  <2>1. PICK p \in run.todo : Rename(p) \/ Flatten(p)
    BY <1>3
  <2>2. run.pc \in {"rename", "flatten"} /\ p \in Local /\ p \in Paths /\ UNCHANGED history
    BY <2>1 DEF TypeInv, Named, Rename, Flatten, At
  <2>3. \A r \in Local : disk[r].whole
    BY <1>2, <2>2
  <2>4. CASE disk' = disk
    BY <1>2, <2>2, <2>4 DEF Local, Files
  <2>5. CASE disk' = Moved(p, FreeName(NewName(p)))
    <3>1. FreeName(NewName(p)).dir # "out"
      BY <2>2, RenamedTo DEF Local
    <3> HIDE DEF FreeName
    <3> QED
      BY <2>2, <2>3, <2>5, <3>1, MovedWhole
  <2>6. CASE disk' = Moved(p, [p EXCEPT !.dir = "top"])
    <3>1. [p EXCEPT !.dir = "top"].dir # "out"
      BY <2>2 DEF Paths
    <3> QED
      BY <2>2, <2>3, <2>6, <3>1, MovedWhole
  <2> QED
    BY <2>1, <2>4, <2>5, <2>6 DEF Rename, Flatten
<1>4. CASE Renamed \/ Flattened \/ UNCHANGED vars
  <2>1. UNCHANGED <<disk, history>> /\ run.pc \in {"rename", "flatten", "check"}
    BY <1>4 DEF Renamed, Flattened, vars, At
  <2> QED
    BY <1>2, <2>1 DEF Local, Files
<1>5. CASE \E agent \in {"client", "manual"}, status \in {0, 1} : Check(agent, status)
  <2>1. PICK agent \in {"client", "manual"}, status \in {0, 1} : Check(agent, status)
    BY <1>5
  <2>2. run' = Idle \/ run' = [Idle EXCEPT !.status = status]
        \/ run' = [run EXCEPT !.pc = "list"] \/ run' = [run EXCEPT !.pc = "tag"]
    BY <2>1 DEF Check, CheckEmpty, CheckGood, CheckBad, Goto
  <2>3. run'.pc \in {"idle", "list", "tag"}
    BY <2>2, IdleTyped DEF TypeInv, RunType
  <2> QED
    BY <2>3
<1>6. CASE List \/ (\E in \in run.inputs : Pick(in)) \/ Encode \/ Unlink
  <2>1. run'.pc \in {"pick", "encode", "unlink"}
    BY <1>6 DEF List, Pick, Encode, Unlink, Goto, At, TypeInv, RunType
  <2> QED
    BY <2>1
<1>7. CASE (\E p \in run.rem_list : UnlinkPart(p)) \/ (\E p \in Files : Tag(p))
  <2>1. run' = run /\ run.pc \in {"pick", "tag"}
    BY <1>7 DEF UnlinkPart, Tag, At
  <2> QED
    BY <2>1
<1>8. CASE Transcoded \/ HandOver \/ Crash
  <2>1. run' = Idle \/ run' = [run EXCEPT !.pc = "idle"]
        \/ run' = [Idle EXCEPT !.pc = "tag", !.dir = HandedDir]
    BY <1>8 DEF Transcoded, HandOver, Crash, Goto
  <2>2. run'.pc \in {"idle", "tag"}
    BY <2>1, IdleTyped DEF TypeInv, RunType
  <2> QED
    BY <2>2
<1> QED
  BY <1>1, <1>3, <1>4, <1>5, <1>6, <1>7, <1>8 DEF Next

\* RejectionKept: a check that finds a fault finds one the download came with.
LEMMA RejectionKept ==
    ASSUME TypeInv, RejectInv, [Next]_vars
    PROVE  IntactNotRejected'
<1> SUFFICES ASSUME history'.answer = "rejected", Unharmed'
             PROVE  run'.status = 1 /\ ~(conf'.check /\ ~conf'.noExtractFailed)
  BY DEF IntactNotRejected, Unharmed, Probed
<1>1. CASE At("idle")
  <2>1. UNCHANGED vars \/ Begin
    BY <1>1 DEF Next, Rename, Flatten, Renamed, Flattened, Check, List, Pick, Encode, Unlink,
       UnlinkPart, Transcoded, Tag, HandOver, Crash, At
  <2>2. UNCHANGED vars
    BY <2>1 DEF Begin, TypeInv, HistoryType
  <2> QED
    BY <2>2, DownloadKept DEF RejectInv, IntactNotRejected, Unharmed, Probed, vars
<1>2. CASE \E agent \in {"client", "manual"}, status \in {0, 1} : Check(agent, status)
  <2>1. PICK agent \in {"client", "manual"}, status \in {0, 1} : Check(agent, status)
    BY <1>2
  <2>2. run.pc = "check" /\ history.answer # "rejected" /\ conf' = conf
    BY <2>1 DEF Check, At, RejectInv, AnswerInv
  <2>3. Unharmed
    <3>1. history'.left = history.left
      BY <2>1 DEF Check, CheckEmpty, CheckGood, CheckBad, Answer, TypeInv, HistoryType
    <3> QED
      BY <3>1, DownloadKept DEF Unharmed
  <2>4. Local # {} /\ \A p \in Local : disk[p].whole
    BY <2>2, <2>3 DEF RejectInv, WholeInv
  <2>5. CheckBad(status)
    BY <2>1, <2>2, <2>4 DEF Check, CheckEmpty, CheckGood
  <2>6. ~(conf.check /\ ~conf.noExtractFailed) /\ status = 1
    BY <2>1, <2>4, <2>5 DEF CheckBad, IsVideoGood, Probed
  <2>7. run' = [Idle EXCEPT !.status = status]
    BY <2>5 DEF CheckBad
  <2> QED
    BY <2>2, <2>6, <2>7, IdleTyped DEF RunType
<1>3. CASE ~At("idle") /\ UNCHANGED history
  BY <1>3 DEF RejectInv, AnswerInv
<1>4. CASE Transcoded \/ HandOver \/ List
  BY <1>4 DEF Transcoded, HandOver, List, Answer, TypeInv, HistoryType, RejectInv, AnswerInv, At
<1> QED
  BY <1>1, <1>2, <1>3, <1>4 DEF Next, vars, Begin, Rename, Flatten, Renamed, Flattened,
     Pick, Encode, Unlink, UnlinkPart, Tag, Crash, At

\* RejectedRightly: intact videos are called failed only if the client said so and
\* nothing was probed, or an earlier attempt left a file cut off or moved videos away.
THEOREM RejectedRightly == Spec => []IntactNotRejected
<1>1. Init => TypeInv /\ RejectInv
  BY InitTyped, InitHeld
<1>2. TypeInv /\ RejectInv /\ [Next]_vars => TypeInv' /\ RejectInv'
  BY NextTyped, HeldKept, AnswerKept, WholeKept, RejectionKept DEF RejectInv
<1>3. RejectInv => IntactNotRejected
  BY DEF RejectInv
<1> QED
  BY <1>1, <1>2, <1>3, PTL DEF Spec

-----------------------------------------------------------------------------
(* No intact video is lost.  Names tell the files of one video: whatever a *)
(* step does to a file, the words a name came with stay, and only          *)
(* "transcoded" and "cp" are appended.  Files that can meet at one name    *)
(* therefore hold the same videos, and what is replaced or unlinked has a  *)
(* copy elsewhere.                                                         *)

\* The words appended to any name, and what a name is without them.
Tails == {"transcoded", "cp"}
Core(s) == [i \in {j \in DOMAIN s : s[j] \notin Tails} |-> s[i]]

\* CorePlain, CoreTail, CoreMore and CoreOne: appended words do not change the core.
LEMMA CorePlain ==
    ASSUME NEW s \in Seq(Words), \A i \in DOMAIN s : s[i] \notin Tails
    PROVE  Core(s) = s
<1>1. {j \in DOMAIN s : s[j] \notin Tails} = DOMAIN s
  OBVIOUS
<1>2. s = [i \in DOMAIN s |-> s[i]]
  OBVIOUS
<1> QED
  BY <1>1, <1>2 DEF Core

LEMMA CoreTail ==
    ASSUME NEW s \in Seq(Words), NEW w \in Tails, w \in Words
    PROVE  Core(Append(s, w)) = Core(s)
<1> DEFINE t == Append(s, w)
<1>1. DOMAIN t = 1..(Len(s) + 1) /\ DOMAIN s = 1..Len(s) /\ Len(s) \in Nat
  OBVIOUS
<1>2. t[Len(s) + 1] = w /\ \A i \in 1..Len(s) : t[i] = s[i]
  OBVIOUS
<1> HIDE DEF t
<1>3. {j \in DOMAIN t : t[j] \notin Tails} = {j \in DOMAIN s : s[j] \notin Tails}
  BY <1>1, <1>2
<1>4. \A i \in {j \in DOMAIN s : s[j] \notin Tails} : t[i] = s[i]
  BY <1>1, <1>2
<1>5. Core(t) = Core(s)
  BY <1>3, <1>4 DEF Core
<1> QED
  BY <1>5 DEF t

\* CoreMore: a suffix lengthens the name and not the core.
LEMMA CoreMore ==
    ASSUME NEW s \in Seq(Words), NEW t \in {<<>>, <<"transcoded">>}
    PROVE  /\ s \o t \in Seq(Words) /\ Core(s \o t) = Core(s)
           /\ Len(s \o t) = Len(s) + Len(t) /\ Len(t) \in {0, 1}
           /\ t = <<"transcoded">> => Len(t) = 1
<1>1. "transcoded" \in Words /\ "transcoded" \in Tails
  BY TranscoderAssumption DEF Added, Tails
<1>2. CASE t = <<>>
  <2>1. s \o t = s
    BY <1>2
  <2>2. Len(t) = 0 /\ t # <<"transcoded">>
    BY <1>2
  <2>3. Len(s) \in Nat
    OBVIOUS
  <2> QED
    BY <2>1, <2>2, <2>3
<1>3. CASE t = <<"transcoded">>
  <2> DEFINE w == "transcoded"
  <2> HIDE DEF w
  <2>1. t = <<w>> /\ w \in Words /\ w \in Tails
    BY <1>1, <1>3 DEF w
  <2>2. s \o t = Append(s, w) /\ Len(t) = 1
    BY <2>1
  <2>3. Core(Append(s, w)) = Core(s)
    BY <2>1, CoreTail
  <2>4. Append(s, w) \in Seq(Words) /\ Len(Append(s, w)) = Len(s) + 1
    BY <2>1
  <2> QED
    BY <2>2, <2>3, <2>4
<1> QED
  BY <1>2, <1>3

\* CoreOne: a core of one word is that word, and a name of one word is its core.
LEMMA CoreOne ==
    ASSUME NEW s \in Seq(Words), s # <<>>, NEW w \in Words
    PROVE  /\ Core(s) = <<w>> => s[1] = w /\ (Len(s) = 1 => s = <<w>>)
           /\ w \notin Tails => Core(<<w>>) = <<w>>
           /\ s = <<w>> /\ Core(s) # <<>> => Core(s) = s
<1>1. 1 \in DOMAIN s /\ DOMAIN s = 1..Len(s) /\ Len(s) \in Nat
  OBVIOUS
<1>2. DOMAIN <<w>> = {1} /\ <<w>>[1] = w
  OBVIOUS
<1>3. ASSUME Core(s) = <<w>> PROVE s[1] = w /\ (Len(s) = 1 => s = <<w>>)
  <2>1. 1 \in DOMAIN Core(s) /\ Core(s)[1] = w
    BY <1>2, <1>3
  <2>2. s[1] = w
    BY <2>1 DEF Core
  <2> QED
    BY <1>1, <2>2
<1>4. ASSUME NEW v \in Words, v \notin Tails PROVE Core(<<v>>) = <<v>>
  <2>1. <<v>> \in Seq(Words)
    OBVIOUS
  <2>2. \A i \in DOMAIN <<v>> : <<v>>[i] \notin Tails
    BY <1>4
  <2> QED
    BY <2>1, <2>2, CorePlain
<1>5. ASSUME s = <<w>>, Core(s) # <<>> PROVE Core(s) = s
  <2>1. CASE w \in Tails
    <3>1. {j \in DOMAIN s : s[j] \notin Tails} = {}
      BY <1>2, <1>5, <2>1
    <3>2. Core(s) = [i \in {} |-> s[i]]
      BY <3>1 DEF Core
    <3>3. <<>> = [i \in {} |-> s[i]]
      OBVIOUS
    <3> QED
      BY <1>5, <3>2, <3>3
  <2> QED
    BY <1>4, <1>5, <2>1
<1> QED
  BY <1>3, <1>4, <1>5

\* A disc that is to be joined.
IsPart(cf, p) == cf.concat /\ HasDisc(p)

\* The files of the download that some videos came in.
Origins(dl, vs) == {d \in DOMAIN dl : dl[d].videos \cap vs # {}}

\* Two names that a step can make the same.
Alike(cf, p, q) == Core(p.stem) = Core(q.stem) /\ (cf.concat \/ p.disc = q.disc)

\* Videos that came in one file, or on discs of one video.
Together(cf, d, e) == d = e \/ (IsPart(cf, d) /\ IsPart(cf, e) /\ d.stem = e.stem)

\* Whole, or of no use to begin with.
Fine(dl, c) == c.whole \/ \A d \in Origins(dl, c.videos) : ~dl[d].whole

\* What Undisturbed says of a download.
Meaningless(cf, d) == IsGarbage(d) \/ (d.stem = <<Name>> /\ (cf.concat \/ ~HasDisc(d)))

Fits(dl, cf) ==
    /\ \A d \in DOMAIN dl :
          /\ d \in Paths /\ d.stem # <<>> /\ d.dir # "out" /\ dl[d].videos # {}
          /\ Core(d.stem) = d.stem /\ d.stem # <<Name, "NTM">>
          /\ IsPart(cf, d) => /\ d.ext \notin cf.ignore /\ dl[d].whole
                              /\ \A g \in Garbage : d.stem # <<g>>
    /\ \A d, e \in DOMAIN dl : d # e => dl[d].videos \cap dl[e].videos = {}
    /\ \A d, e \in DOMAIN dl : d # e /\ Alike(cf, d, e) =>
          d.dir = e.dir /\ IsPart(cf, d) /\ IsPart(cf, e) /\ d.disc # e.disc
    /\ \A d, e \in DOMAIN dl : d # e /\ IsGarbage(d) /\ Meaningless(cf, e) =>
          /\ e.dir = d.dir /\ e.disc = d.disc /\ e.ext = d.ext
          /\ \A c \in DOMAIN dl : Meaningless(cf, c) => c \in {d, e}

\* A file holds all videos of the files of the download it came from, which it
\* still has the name of, but for discs that were joined and for the name given to
\* a meaningless one.
HoldsInv(dl, cf, dk) ==
    \A p \in DOMAIN dk :
        /\ Origins(dl, dk[p].videos) # {}
        /\ \A d \in Origins(dl, dk[p].videos) :
              /\ dl[d].videos \subseteq dk[p].videos
              /\ p.disc = d.disc \/ (cf.concat /\ p.disc = 0)
              /\ \/ Core(p.stem) = d.stem
                 \/ IsGarbage(d) /\ Core(p.stem) \in {<<Name>>, <<Name, "NTM">>}
              /\ IsPart(cf, p) => p.ext = d.ext
              /\ ~IsPart(cf, p) =>
                    \A e \in DOMAIN dl : Together(cf, d, e) => e \in Origins(dl, dk[p].videos)

\* Files that can meet hold videos that came together.
MeetInv(dl, cf, dk) ==
    \A p, q \in DOMAIN dk : Alike(cf, p, q) =>
        \A d \in Origins(dl, dk[p].videos), e \in Origins(dl, dk[q].videos) : Together(cf, d, e)

\* A video is not under two names.
OneNameInv(dl, cf, dk) ==
    \A p, q \in DOMAIN dk :
        Origins(dl, dk[p].videos) \cap Origins(dl, dk[q].videos) # {} => Core(p.stem) = Core(q.stem)

NamesInv(dl, cf, dk) == HoldsInv(dl, cf, dk) /\ MeetInv(dl, cf, dk) /\ OneNameInv(dl, cf, dk)

\* Discs are neither copied nor cut off, and the first of a video goes before the others.
OncePart(dl, cf, dk) ==
    \A p, q \in DOMAIN dk :
        /\ IsPart(cf, p) /\ IsPart(cf, q)
        /\ Origins(dl, dk[p].videos) \cap Origins(dl, dk[q].videos) # {}
        => p = q

FirstPart(dl, cf, dk) ==
    \A p \in DOMAIN dk, d, e \in DOMAIN dl :
        IsPart(cf, p) /\ p.disc = 1 /\ d \in Origins(dl, dk[p].videos) /\ Together(cf, d, e) =>
            \E q \in DOMAIN dk : IsPart(cf, q) /\ e \in Origins(dl, dk[q].videos)

PartsInv(dl, cf, dk) ==
    /\ OncePart(dl, cf, dk) /\ FirstPart(dl, cf, dk)
    /\ \A p \in DOMAIN dk : IsPart(cf, p) => dk[p].whole /\ p.dir # "out"

\* Only what ffmpeg writes can be cut off.
OutDir(cf) == IF cf.out THEN "out" ELSE "top"

CutInv(dl, cf, dk) ==
    \A p \in DOMAIN dk :
        /\ p.dir = "out" => cf.out /\ p.ext = VEXTENSION
        /\ ~Fine(dl, dk[p]) => cf.transcode /\ p.dir = OutDir(cf)

SurviveInv(dl, dk) ==
    \A d \in DOMAIN dl : dl[d].whole =>
        \E p \in DOMAIN dk : d \in Origins(dl, dk[p].videos) /\ dk[p].whole

DiskInv(dl, cf, dk) ==
    NamesInv(dl, cf, dk) /\ PartsInv(dl, cf, dk) /\ CutInv(dl, cf, dk) /\ SurviveInv(dl, dk)

\* CameFits: a download that the properties speak of.
LEMMA CameFits == ASSUME TypeInv, Undisturbed PROVE Fits(history.download, conf)
<1> DEFINE dl == history.download
<1>1. dl \in Downloads /\ conf \in Settings
  BY ConfigsAssumption DEF TypeInv, HistoryType
<1>2. \A d \in DOMAIN dl : d \in Paths /\ d.stem # <<>> /\ d.dir # "out" /\ dl[d].videos # {}
  BY <1>1, DownloadsAssumption
<1>3. \A d, e \in DOMAIN dl : d # e => dl[d].videos \cap dl[e].videos = {}
  BY <1>1, DownloadsAssumption
<1>4. ASSUME NEW d \in DOMAIN dl
      PROVE  Core(d.stem) = d.stem /\ d.stem # <<Name, "NTM">>
  <2>1. d.stem \in Seq(Words)
    BY <1>2 DEF Paths
  <2>2. \A i \in DOMAIN d.stem : d.stem[i] \notin Added
    <3>1. Added \cap {d.stem[i] : i \in DOMAIN d.stem} = {}
      BY DEF Undisturbed, Apart
    <3> QED
      BY <3>1
  <2>3. Core(d.stem) = d.stem
    BY <2>1, <2>2, CorePlain DEF Added, Tails
  <2>4. 2 \in DOMAIN <<Name, "NTM">> /\ <<Name, "NTM">>[2] = "NTM"
    OBVIOUS
  <2> QED
    BY <2>2, <2>3, <2>4 DEF Added
<1>5. ASSUME NEW d \in DOMAIN dl, IsPart(conf, d)
      PROVE  d.ext \notin conf.ignore /\ dl[d].whole /\ \A g \in Garbage : d.stem # <<g>>
  <2>1. conf.concat /\ HasDisc(d)
    BY <1>5 DEF IsPart
  <2>2. d.ext \notin conf.ignore /\ dl[d].whole
    BY <2>1 DEF Undisturbed, DiscsFit
  <2>3. ~\E g \in Garbage : d.stem = <<g>>
    BY <2>1 DEF Undisturbed, Apart
  <2> QED
    BY <2>2, <2>3
<1>6. ASSUME NEW d \in DOMAIN dl, NEW e \in DOMAIN dl, d # e, Key(d) = Key(e)
      PROVE  /\ d.dir = e.dir
             /\ \/ IsPart(conf, d) /\ IsPart(conf, e) /\ d.disc # e.disc
                \/ /\ {c \in DOMAIN dl : Key(c) = Key(d)} = {d, e}
                   /\ d.disc = e.disc /\ d.ext = e.ext /\ (IsGarbage(d) \/ IsGarbage(e))
  BY <1>6 DEF Undisturbed, Apart, IsPart
<1>7. \A d \in DOMAIN dl : /\ Key(d)[1] = IF IsGarbage(d) THEN <<Name>> ELSE d.stem
                           /\ Key(d)[2] = IF conf.concat THEN 0 ELSE d.disc
  BY DEF Key
<1>8. ASSUME NEW d \in DOMAIN dl, NEW e \in DOMAIN dl, d # e, Alike(conf, d, e)
      PROVE  d.dir = e.dir /\ IsPart(conf, d) /\ IsPart(conf, e) /\ d.disc # e.disc
  <2>1. d.stem = e.stem /\ (conf.concat \/ d.disc = e.disc)
    BY <1>4, <1>8 DEF Alike
  <2>2. CASE Key(d) = Key(e)
    <3>1. d \in Paths /\ e \in Paths
      BY <1>2
    <3>2. ~(d.dir = e.dir /\ d.disc = e.disc /\ d.ext = e.ext)
      BY <1>8, <2>1, <3>1 DEF Paths
    <3> QED
      BY <1>6, <1>8, <2>2, <3>2
  <2>3. CASE Key(d) # Key(e)
    <3>1. IsGarbage(d) # IsGarbage(e)
      BY <2>1, <2>3 DEF Key
    <3>2. (HasDisc(d) /\ IsPart(conf, d)) \/ (HasDisc(e) /\ IsPart(conf, e))
      BY <2>1, <3>1 DEF IsGarbage, HasDisc, IsPart
    <3> QED
      BY <1>5, <2>1, <3>1, <3>2 DEF IsGarbage
  <2> QED
    BY <2>2, <2>3
<1>9. ASSUME NEW d \in DOMAIN dl, IsGarbage(d), NEW e \in DOMAIN dl, Meaningless(conf, e)
      PROVE  Key(e) = Key(d) /\ ~IsPart(conf, d) /\ ~HasDisc(d)
  BY <1>9, TranscoderAssumption DEF Key, Meaningless, IsGarbage, HasDisc, IsPart
<1>10. ASSUME NEW d \in DOMAIN dl, NEW e \in DOMAIN dl, d # e, IsGarbage(d), Meaningless(conf, e)
      PROVE  /\ e.dir = d.dir /\ e.disc = d.disc /\ e.ext = d.ext
             /\ \A c \in DOMAIN dl : Meaningless(conf, c) => c \in {d, e}
  BY <1>6, <1>9, <1>10
<1> QED
  BY <1>2, <1>3, <1>4, <1>5, <1>8, <1>10 DEF Fits

\* LikeNames: files that hold the same videos under names of the same words keep
\* all that the names say.
LEMMA LikeNames ==
    ASSUME NEW dl, NEW cf, NEW dk, NEW dk2, NamesInv(dl, cf, dk),
           \A r \in DOMAIN dk2 : \E s \in DOMAIN dk :
               /\ dk2[r].videos = dk[s].videos /\ Core(r.stem) = Core(s.stem)
               /\ r.disc = s.disc /\ (IsPart(cf, r) => r.ext = s.ext)
    PROVE  NamesInv(dl, cf, dk2)
<1> DEFINE Like(r, s) == /\ dk2[r].videos = dk[s].videos /\ Core(r.stem) = Core(s.stem)
                         /\ r.disc = s.disc /\ (IsPart(cf, r) => r.ext = s.ext)
<1>1. \A r \in DOMAIN dk2 : \E s \in DOMAIN dk : Like(r, s)
  OBVIOUS
<1>2. HoldsInv(dl, cf, dk2)
  <2> SUFFICES ASSUME NEW r \in DOMAIN dk2
               PROVE  /\ Origins(dl, dk2[r].videos) # {}
                      /\ \A d \in Origins(dl, dk2[r].videos) :
                            /\ dl[d].videos \subseteq dk2[r].videos
                            /\ r.disc = d.disc \/ (cf.concat /\ r.disc = 0)
                            /\ \/ Core(r.stem) = d.stem
                               \/ IsGarbage(d) /\ Core(r.stem) \in {<<Name>>, <<Name, "NTM">>}
                            /\ IsPart(cf, r) => r.ext = d.ext
                            /\ ~IsPart(cf, r) => \A e \in DOMAIN dl : Together(cf, d, e) =>
                                                     e \in Origins(dl, dk2[r].videos)
    BY DEF HoldsInv
  <2>1. PICK s \in DOMAIN dk : Like(r, s)
    BY <1>1
  <2>2. IsPart(cf, r) = IsPart(cf, s)
    BY <2>1 DEF IsPart, HasDisc
  <2> QED
    BY <2>1, <2>2 DEF NamesInv, HoldsInv
<1>3. MeetInv(dl, cf, dk2)
  <2> SUFFICES ASSUME NEW p \in DOMAIN dk2, NEW q \in DOMAIN dk2, Alike(cf, p, q),
                      NEW d \in Origins(dl, dk2[p].videos), NEW e \in Origins(dl, dk2[q].videos)
               PROVE  Together(cf, d, e)
    BY DEF MeetInv
  <2>1. PICK s \in DOMAIN dk : Like(p, s)
    BY <1>1
  <2>2. PICK t \in DOMAIN dk : Like(q, t)
    BY <1>1
  <2>3. Alike(cf, s, t)
    BY <2>1, <2>2 DEF Alike
  <2> QED
    BY <2>1, <2>2, <2>3 DEF NamesInv, MeetInv
<1>4. OneNameInv(dl, cf, dk2)
  <2> SUFFICES ASSUME NEW p \in DOMAIN dk2, NEW q \in DOMAIN dk2,
                      Origins(dl, dk2[p].videos) \cap Origins(dl, dk2[q].videos) # {}
               PROVE  Core(p.stem) = Core(q.stem)
    BY DEF OneNameInv
  <2>1. PICK s \in DOMAIN dk : Like(p, s)
    BY <1>1
  <2>2. PICK t \in DOMAIN dk : Like(q, t)
    BY <1>1
  <2>3. Core(s.stem) = Core(t.stem)
    BY <2>1, <2>2 DEF NamesInv, OneNameInv
  <2> QED
    BY <2>1, <2>2, <2>3
<1> QED
  BY <1>2, <1>3, <1>4 DEF NamesInv

\* DiscIsOne: the discs of one video differ, and a file of a disc holds that disc only.
LEMMA DiscIsOne ==
    ASSUME NEW dl, NEW cf, Fits(dl, cf),
           NEW d \in DOMAIN dl, NEW e \in DOMAIN dl, Together(cf, d, e), d.disc = e.disc
    PROVE  d = e
BY DEF Fits, Together, Alike, IsPart

LEMMA PartIsOne ==
    ASSUME NEW dl, NEW cf, NEW dk, Fits(dl, cf), NamesInv(dl, cf, dk),
           NEW p \in DOMAIN dk, IsPart(cf, p), NEW d \in Origins(dl, dk[p].videos)
    PROVE  /\ IsPart(cf, d) /\ p.disc = d.disc /\ Core(p.stem) = d.stem /\ p.ext = d.ext
           /\ Origins(dl, dk[p].videos) = {d} /\ d \in DOMAIN dl
<1>1. d \in DOMAIN dl /\ Alike(cf, p, p)
  BY DEF Origins, Alike
<1>2. p.disc = d.disc /\ IsPart(cf, d) /\ p.ext = d.ext
  BY DEF NamesInv, HoldsInv, IsPart, HasDisc
<1>3. Core(p.stem) = d.stem
  BY <1>2 DEF NamesInv, HoldsInv, IsGarbage, IsPart
<1>4. \A e \in Origins(dl, dk[p].videos) : e = d
  <2> SUFFICES ASSUME NEW e \in Origins(dl, dk[p].videos) PROVE e = d
    OBVIOUS
  <2>1. Together(cf, e, d)
    BY <1>1 DEF NamesInv, MeetInv
  <2>2. e.disc = d.disc /\ e \in DOMAIN dl
    BY <1>2 DEF NamesInv, HoldsInv, IsPart, HasDisc, Origins
  <2> QED
    BY <1>1, <2>1, <2>2, DiscIsOne
<1> QED
  BY <1>1, <1>2, <1>3, <1>4

\* MeetHolds: a file that is not a disc holds what any file holds that it can meet;
\* discs can only meet the same disc.
LEMMA MeetHolds ==
    ASSUME NEW dl, NEW cf, NEW dk, Fits(dl, cf), NamesInv(dl, cf, dk),
           NEW p \in DOMAIN dk, NEW q \in DOMAIN dk, Alike(cf, p, q),
           ~IsPart(cf, p) \/ p.disc = q.disc
    PROVE  Origins(dl, dk[q].videos) \subseteq Origins(dl, dk[p].videos)
<1> SUFFICES ASSUME NEW e \in Origins(dl, dk[q].videos) PROVE e \in Origins(dl, dk[p].videos)
  OBVIOUS
<1>1. PICK d \in Origins(dl, dk[p].videos) : TRUE
  BY DEF NamesInv, HoldsInv
<1>2. Together(cf, d, e) /\ e \in DOMAIN dl /\ d \in DOMAIN dl
  BY DEF NamesInv, MeetInv, Origins
<1>3. CASE ~IsPart(cf, p)
  BY <1>1, <1>2, <1>3 DEF NamesInv, HoldsInv
<1>4. CASE IsPart(cf, p) /\ p.disc = q.disc
  <2>1. IsPart(cf, q)
    BY <1>4 DEF IsPart, HasDisc
  <2>2. d.disc = e.disc
    BY <1>1, <1>4, <2>1, PartIsOne
  <2> QED
    BY <1>2, <2>2, DiscIsOne
<1> QED
  BY <1>3, <1>4

\* AlikeKept: the ways names change that keep them alike.
LEMMA AlikeBasics ==
    ASSUME NEW cf, NEW p, NEW q
    PROVE  /\ Alike(cf, p, p) /\ (Alike(cf, p, q) => Alike(cf, q, p))
           /\ \A r : Alike(cf, p, q) /\ Alike(cf, q, r) => Alike(cf, p, r)
BY DEF Alike

LEMMA TogetherBasics ==
    ASSUME NEW cf, NEW d, NEW e, NEW c, Together(cf, d, e)
    PROVE  /\ Together(cf, e, d) /\ (Together(cf, e, c) => Together(cf, d, c))
           /\ (Together(cf, d, c) => Together(cf, e, c))
BY DEF Together

\* What the steps do to the disk.
Moves(dk, dk2, p, q) ==
    /\ p \in DOMAIN dk /\ DOMAIN dk2 = (DOMAIN dk \ {p}) \cup {q} /\ dk2[q] = dk[p]
    /\ \A r \in DOMAIN dk \ {p, q} : dk2[r] = dk[r]

Removes(dk, dk2, ps) == DOMAIN dk2 = DOMAIN dk \ ps /\ \A r \in DOMAIN dk2 : dk2[r] = dk[r]

Writes(dk, dk2, n, c) ==
    /\ n \notin DOMAIN dk /\ DOMAIN dk2 = DOMAIN dk \cup {n} /\ dk2[n] = c
    /\ \A r \in DOMAIN dk : dk2[r] = dk[r]

\* RemoveKeeps: removing files leaves the others what they were.
LEMMA RemoveKeeps ==
    ASSUME NEW dl, NEW cf, NEW dk, NEW dk2, NEW ps, Removes(dk, dk2, ps),
           DiskInv(dl, cf, dk), FirstPart(dl, cf, dk2), SurviveInv(dl, dk2)
    PROVE  DiskInv(dl, cf, dk2)
<1>1. NamesInv(dl, cf, dk2)
  <2>1. \A r \in DOMAIN dk2 : r \in DOMAIN dk /\ dk2[r] = dk[r]
    BY DEF Removes
  <2>2. NamesInv(dl, cf, dk)
    BY DEF DiskInv
  <2> QED
    BY <2>1, <2>2, LikeNames
<1>2. PartsInv(dl, cf, dk2) /\ CutInv(dl, cf, dk2)
  BY DEF DiskInv, PartsInv, OncePart, CutInv, Fine, Removes
<1> QED
  BY <1>1, <1>2 DEF DiskInv

\* MoveKeeps: a file that is not cut off moves to a name of the same words, or to
\* another directory; what it replaces holds nothing more.
LEMMA MoveKeeps ==
    ASSUME NEW dl, NEW cf, NEW dk, NEW dk2, NEW p, NEW q, Moves(dk, dk2, p, q), p # q,
           Fits(dl, cf), DiskInv(dl, cf, dk), Fine(dl, dk[p]), Core(p.stem) = Core(q.stem),
           p.disc = q.disc, p.ext = q.ext, q.dir = p.dir \/ q.dir # "out"
    PROVE  DiskInv(dl, cf, dk2)
<1>1. NamesInv(dl, cf, dk2)
  <2>1. \A r \in DOMAIN dk2 : \E s \in DOMAIN dk :
            /\ dk2[r].videos = dk[s].videos /\ Core(r.stem) = Core(s.stem)
            /\ r.disc = s.disc /\ (IsPart(cf, r) => r.ext = s.ext)
    <3> SUFFICES ASSUME NEW r \in DOMAIN dk2
                 PROVE  \E s \in DOMAIN dk :
                            /\ dk2[r].videos = dk[s].videos /\ Core(r.stem) = Core(s.stem)
                            /\ r.disc = s.disc /\ (IsPart(cf, r) => r.ext = s.ext)
      OBVIOUS
    <3>1. CASE r = q
      BY <3>1 DEF Moves
    <3>2. CASE r # q
      BY <3>2 DEF Moves
    <3> QED
      BY <3>1, <3>2
  <2>2. NamesInv(dl, cf, dk)
    BY DEF DiskInv
  <2> QED
    BY <2>1, <2>2, LikeNames
<1>2. ASSUME q \in DOMAIN dk
      PROVE  /\ Origins(dl, dk[q].videos) \subseteq Origins(dl, dk[p].videos)
             /\ ~IsPart(cf, p)
  <2>1. NamesInv(dl, cf, dk) /\ Alike(cf, p, q) /\ p \in DOMAIN dk
    BY DEF DiskInv, Alike, Moves
  <2>2. Origins(dl, dk[q].videos) \subseteq Origins(dl, dk[p].videos)
    BY <1>2, <2>1, MeetHolds
  <2>3. Origins(dl, dk[q].videos) # {}
    BY <1>2, <2>1 DEF NamesInv, HoldsInv
  <2>4. IsPart(cf, p) => IsPart(cf, q)
    BY DEF IsPart, HasDisc
  <2> QED
    BY <1>2, <2>1, <2>2, <2>3, <2>4 DEF DiskInv, PartsInv, OncePart
<1>3. PartsInv(dl, cf, dk2)
  <2>1. IsPart(cf, p) = IsPart(cf, q)
    BY DEF IsPart, HasDisc
  <2>2. OncePart(dl, cf, dk2)
    BY <2>1 DEF Moves, DiskInv, PartsInv, OncePart
  <2>3. FirstPart(dl, cf, dk2)
    <3> SUFFICES ASSUME NEW r \in DOMAIN dk2, NEW d \in DOMAIN dl, NEW e \in DOMAIN dl,
                        IsPart(cf, r), r.disc = 1, d \in Origins(dl, dk2[r].videos),
                        Together(cf, d, e)
                 PROVE  \E t \in DOMAIN dk2 : IsPart(cf, t) /\ e \in Origins(dl, dk2[t].videos)
      BY DEF FirstPart
    <3>1. \E s \in DOMAIN dk : IsPart(cf, s) /\ s.disc = 1 /\ dk2[r] = dk[s]
      BY <2>1 DEF Moves
    <3>2. PICK t \in DOMAIN dk : IsPart(cf, t) /\ e \in Origins(dl, dk[t].videos)
      BY <3>1 DEF DiskInv, PartsInv, FirstPart
    <3>3. CASE t = p
      BY <2>1, <3>2, <3>3 DEF Moves
    <3>4. CASE t # p
      <4>1. t # q
        BY <1>2, <2>1, <3>2
      <4> QED
        BY <3>2, <3>4, <4>1 DEF Moves
    <3> QED
      BY <3>3, <3>4
  <2> QED
    BY <2>1, <2>2, <2>3 DEF Moves, DiskInv, PartsInv
<1>4. CutInv(dl, cf, dk2)
  BY DEF Moves, DiskInv, CutInv
<1>5. SurviveInv(dl, dk2)
  <2> SUFFICES ASSUME NEW d \in DOMAIN dl, dl[d].whole
               PROVE  \E t \in DOMAIN dk2 : d \in Origins(dl, dk2[t].videos) /\ dk2[t].whole
    BY DEF SurviveInv
  <2>1. PICK s \in DOMAIN dk : d \in Origins(dl, dk[s].videos) /\ dk[s].whole
    BY DEF DiskInv, SurviveInv
  <2>2. CASE s \in {p, q}
    <3>1. d \in Origins(dl, dk[p].videos)
      BY <1>2, <2>1, <2>2
    <3>2. dk[p].whole
      BY <3>1 DEF Fine
    <3>3. q \in DOMAIN dk2 /\ dk2[q] = dk[p]
      BY DEF Moves
    <3> QED
      BY <3>1, <3>2, <3>3
  <2>3. CASE s \notin {p, q}
    BY <2>1, <2>3 DEF Moves
  <2> QED
    BY <2>2, <2>3
<1> QED
  BY <1>1, <1>3, <1>4, <1>5 DEF DiskInv

\* WriteKeeps: ffmpeg writes the videos of a file under a name of the same words, or
\* those of all discs of one video under the name of the discs.
LEMMA WriteKeeps ==
    ASSUME NEW dl, NEW cf, NEW dk, NEW dk2, NEW n, NEW c, Writes(dk, dk2, n, c),
           DiskInv(dl, cf, dk), NamesInv(dl, cf, dk2), ~IsPart(cf, n), cf.transcode,
           n.dir = OutDir(cf), n.ext = VEXTENSION
    PROVE  DiskInv(dl, cf, dk2)
<1>1. PartsInv(dl, cf, dk2)
  <2>1. \A r \in DOMAIN dk2 : IsPart(cf, r) => r \in DOMAIN dk /\ dk2[r] = dk[r]
    BY DEF Writes
  <2>2. \A r \in DOMAIN dk : r \in DOMAIN dk2 /\ dk2[r] = dk[r]
    BY DEF Writes
  <2> QED
    BY <2>1, <2>2 DEF DiskInv, PartsInv, OncePart, FirstPart
<1>2. CutInv(dl, cf, dk2)
  BY DEF Writes, DiskInv, CutInv, OutDir
<1>3. SurviveInv(dl, dk2)
  BY DEF Writes, DiskInv, SurviveInv
<1> QED
  BY <1>1, <1>2, <1>3 DEF DiskInv

LEMMA WriteNames ==
    ASSUME NEW dl, NEW cf, NEW dk, NEW dk2, NEW n, NEW c, Writes(dk, dk2, n, c),
           NamesInv(dl, cf, dk), NEW f \in DOMAIN dk, ~IsPart(cf, n),
           c.videos = dk[f].videos, Core(n.stem) = Core(f.stem), n.disc = f.disc
    PROVE  NamesInv(dl, cf, dk2)
<1>1. \A r \in DOMAIN dk2 : \E s \in DOMAIN dk :
          /\ dk2[r].videos = dk[s].videos /\ Core(r.stem) = Core(s.stem)
          /\ r.disc = s.disc /\ (IsPart(cf, r) => r.ext = s.ext)
  BY DEF Writes
<1> QED
  BY <1>1, LikeNames

\* All discs of one video, of one name.
Discs(dl, cf, dk, in) ==
    /\ in \subseteq DOMAIN dk /\ \A p \in in : IsPart(cf, p)
    /\ \A p, q \in in : p.stem = q.stem
    /\ \A p \in in : \A d \in Origins(dl, dk[p].videos), e \in DOMAIN dl :
          Together(cf, d, e) => \E q \in in : e \in Origins(dl, dk[q].videos)

\* JoinedOrigins: the discs of one video are all that came with any of them.
LEMMA JoinedOrigins ==
    ASSUME NEW dl, NEW cf, NEW dk, Fits(dl, cf), NamesInv(dl, cf, dk),
           NEW in, Discs(dl, cf, dk, in), NEW vs, vs = UNION {dk[p].videos : p \in in}
    PROVE  /\ \A d : d \in Origins(dl, vs) <=> \E p \in in : d \in Origins(dl, dk[p].videos)
           /\ \A d \in Origins(dl, vs) : /\ IsPart(cf, d) /\ dl[d].videos \subseteq vs
                                         /\ \A p \in in : Core(p.stem) = d.stem
           /\ \A d \in Origins(dl, vs), e \in DOMAIN dl :
                  Together(cf, d, e) <=> e \in Origins(dl, vs)
<1>1. ASSUME NEW d
      PROVE  d \in Origins(dl, vs) <=> \E p \in in : d \in Origins(dl, dk[p].videos)
  BY DEF Origins
<1>2. ASSUME NEW p \in in, NEW d \in Origins(dl, dk[p].videos)
      PROVE  /\ d \in DOMAIN dl /\ IsPart(cf, d) /\ dl[d].videos \subseteq vs
             /\ Core(p.stem) = d.stem
  <2>1. p \in DOMAIN dk /\ IsPart(cf, p)
    BY DEF Discs
  <2>2. dl[d].videos \subseteq dk[p].videos
    BY <2>1 DEF NamesInv, HoldsInv
  <2> QED
    BY <2>1, <2>2, PartIsOne
<1>3. ASSUME NEW d \in Origins(dl, vs)
      PROVE  /\ IsPart(cf, d) /\ dl[d].videos \subseteq vs /\ d \in DOMAIN dl
             /\ \A p \in in : Core(p.stem) = d.stem
  <2>1. PICK q \in in : d \in Origins(dl, dk[q].videos)
    BY <1>1
  <2>2. \A p \in in : p.stem = q.stem
    BY DEF Discs
  <2> QED
    BY <1>2, <2>1, <2>2
<1>4. ASSUME NEW d \in Origins(dl, vs), NEW e \in DOMAIN dl
      PROVE  Together(cf, d, e) <=> e \in Origins(dl, vs)
  <2>1. PICK q \in in : d \in Origins(dl, dk[q].videos)
    BY <1>1
  <2>2. ASSUME Together(cf, d, e) PROVE e \in Origins(dl, vs)
    BY <1>1, <2>1, <2>2 DEF Discs
  <2>3. ASSUME e \in Origins(dl, vs) PROVE Together(cf, d, e)
    BY <1>3, <2>1, <2>3 DEF Together
  <2> QED
    BY <2>2, <2>3
<1> QED
  BY <1>1, <1>3, <1>4

LEMMA JoinedNames ==
    ASSUME NEW dl, NEW cf, NEW dk, NEW dk2, NEW n, NEW c, Writes(dk, dk2, n, c),
           Fits(dl, cf), NamesInv(dl, cf, dk), NEW in, Discs(dl, cf, dk, in), cf.concat,
           NEW f \in in, Core(n.stem) = Core(f.stem), n.disc = 0,
           c.videos = UNION {dk[p].videos : p \in in}
    PROVE  NamesInv(dl, cf, dk2)
<1> DEFINE own == Origins(dl, c.videos)
<1>1. /\ \A d : d \in own <=> \E p \in in : d \in Origins(dl, dk[p].videos)
      /\ \A d \in own : /\ IsPart(cf, d) /\ dl[d].videos \subseteq c.videos
                        /\ \A p \in in : Core(p.stem) = d.stem
      /\ \A d \in own, e \in DOMAIN dl : Together(cf, d, e) <=> e \in own
  BY JoinedOrigins
<1>2. own # {}
  <2>1. Origins(dl, dk[f].videos) # {}
    BY DEF NamesInv, HoldsInv, Discs
  <2> QED
    BY <1>1, <2>1
<1>3. /\ n \in DOMAIN dk2 /\ dk2[n].videos = c.videos
      /\ \A r \in DOMAIN dk2 : r # n => r \in DOMAIN dk /\ dk2[r] = dk[r]
  BY DEF Writes
<1>4. ~IsPart(cf, n)
  BY DEF IsPart, HasDisc
<1> HIDE DEF own
<1>5. HoldsInv(dl, cf, dk2)
  <2> SUFFICES ASSUME NEW r \in DOMAIN dk2
               PROVE  /\ Origins(dl, dk2[r].videos) # {}
                      /\ \A d \in Origins(dl, dk2[r].videos) :
                            /\ dl[d].videos \subseteq dk2[r].videos
                            /\ r.disc = d.disc \/ (cf.concat /\ r.disc = 0)
                            /\ \/ Core(r.stem) = d.stem
                               \/ IsGarbage(d) /\ Core(r.stem) \in {<<Name>>, <<Name, "NTM">>}
                            /\ IsPart(cf, r) => r.ext = d.ext
                            /\ ~IsPart(cf, r) => \A e \in DOMAIN dl : Together(cf, d, e) =>
                                                     e \in Origins(dl, dk2[r].videos)
    BY DEF HoldsInv
  <2>1. CASE r # n
    BY <1>3, <2>1 DEF NamesInv, HoldsInv
  <2>2. CASE r = n
    BY <1>1, <1>2, <1>3, <1>4, <2>2 DEF own
  <2> QED
    BY <2>1, <2>2
<1>6. ASSUME NEW r \in DOMAIN dk2, Alike(cf, r, n) \/ Alike(cf, n, r), r # n,
             NEW d \in own, NEW e \in Origins(dl, dk2[r].videos)
      PROVE  Together(cf, d, e) /\ Together(cf, e, d)
  <2>1. PICK p \in in : d \in Origins(dl, dk[p].videos)
    BY <1>1
  <2>2. r \in DOMAIN dk /\ dk2[r] = dk[r] /\ p \in DOMAIN dk
    BY <1>3, <1>6 DEF Discs
  <2>3. Alike(cf, r, p) /\ Alike(cf, p, r)
    BY <1>6 DEF Alike, Discs
  <2> QED
    BY <2>1, <2>2, <2>3 DEF NamesInv, MeetInv
<1>7. MeetInv(dl, cf, dk2)
  <2> SUFFICES ASSUME NEW p \in DOMAIN dk2, NEW q \in DOMAIN dk2, Alike(cf, p, q),
                      NEW d \in Origins(dl, dk2[p].videos), NEW e \in Origins(dl, dk2[q].videos)
               PROVE  Together(cf, d, e)
    BY DEF MeetInv
  <2>1. CASE p = n /\ q = n
    BY <1>1, <1>3, <2>1 DEF own, Origins
  <2>2. CASE p = n /\ q # n
    BY <1>3, <1>6, <2>2 DEF own
  <2>3. CASE p # n /\ q = n
    BY <1>3, <1>6, <2>3 DEF own
  <2>4. CASE p # n /\ q # n
    BY <1>3, <2>4 DEF NamesInv, MeetInv
  <2> QED
    BY <2>1, <2>2, <2>3, <2>4
<1>8. OneNameInv(dl, cf, dk2)
  <2>1. ASSUME NEW q \in DOMAIN dk2, q # n, own \cap Origins(dl, dk2[q].videos) # {}
        PROVE  Core(q.stem) = Core(n.stem)
    <3>1. PICK d \in own : d \in Origins(dl, dk[q].videos) /\ q \in DOMAIN dk
      BY <1>3, <2>1
    <3>2. PICK p \in in : d \in Origins(dl, dk[p].videos)
      BY <1>1
    <3>3. Core(p.stem) = Core(q.stem)
      BY <3>1, <3>2 DEF NamesInv, OneNameInv, Discs
    <3>4. p.stem = f.stem
      BY DEF Discs
    <3> QED
      BY <3>3, <3>4
  <2> SUFFICES ASSUME NEW p \in DOMAIN dk2, NEW q \in DOMAIN dk2,
                      Origins(dl, dk2[p].videos) \cap Origins(dl, dk2[q].videos) # {}
               PROVE  Core(p.stem) = Core(q.stem)
    BY DEF OneNameInv
  <2>2. CASE p = n \/ q = n
    BY <1>3, <2>1, <2>2 DEF own
  <2>3. CASE p # n /\ q # n
    BY <1>3, <2>3 DEF NamesInv, OneNameInv
  <2> QED
    BY <2>2, <2>3
<1> QED
  BY <1>5, <1>7, <1>8 DEF NamesInv

-----------------------------------------------------------------------------
(* Renaming: a meaningless name is replaced once, and by a new one.        *)

\* Files that came with the meaningless names are next to each other, and none of
\* them but p has been worked on.
Renames(dl, cf, dk, p) ==
    /\ IsGarbage(p)
    /\ \A q \in DOMAIN dk \ {p} :
          (\E d \in Origins(dl, dk[q].videos) : Meaningless(cf, d)) =>
              Len(q.stem) = 1 /\ q.dir = p.dir /\ q.disc = p.disc /\ q.ext = p.ext

\* GarbageOrigin: a meaningless name on the disk is one of the download.
LEMMA GarbageOrigin ==
    ASSUME NEW dl, NEW cf, NEW dk, Fits(dl, cf), NamesInv(dl, cf, dk),
           NEW p \in DOMAIN dk, p \in Paths, IsGarbage(p)
    PROVE  /\ p.disc = 0 /\ ~IsPart(cf, p) /\ Core(p.stem) = p.stem
           /\ \E g \in Garbage : p.stem = <<g>>
           /\ \E d \in DOMAIN dl : /\ Origins(dl, dk[p].videos) = {d} /\ IsGarbage(d)
                                   /\ p.stem = d.stem /\ ~IsPart(cf, d)
<1>1. PICK g \in Garbage : p.stem = <<g>> /\ p.disc = 0
  BY DEF IsGarbage, HasDisc
<1>2. g \in Words /\ p.stem \in Seq(Words) /\ p.stem # <<>>
  <2>1. p.stem \in Seq(Words)
    BY DEF Paths
  <2>2. 1 \in DOMAIN <<g>> /\ <<g>>[1] = g /\ <<g>> # <<>>
    OBVIOUS
  <2>3. p.stem[1] \in Words
    BY <1>1, <2>1, <2>2
  <2> QED
    BY <1>1, <2>1, <2>2, <2>3
<1>3. PICK d \in Origins(dl, dk[p].videos) : d \in DOMAIN dl
  BY DEF NamesInv, HoldsInv, Origins
<1>4. Core(p.stem) = d.stem \/ Core(p.stem) \in {<<Name>>, <<Name, "NTM">>}
  BY DEF NamesInv, HoldsInv
<1>5. Core(p.stem) = p.stem
  <2>1. d.stem # <<>> /\ <<Name>> # <<>> /\ <<Name, "NTM">> # <<>>
    BY <1>3 DEF Fits
  <2>2. Core(p.stem) # <<>>
    BY <1>4, <2>1
  <2> QED
    BY <1>1, <1>2, <2>2, CoreOne
<1>6. p.stem = d.stem
  <2>1. <<g>> # <<Name, "NTM">>
    <3>1. Len(<<g>>) = 1 /\ Len(<<Name, "NTM">>) = 2
      OBVIOUS
    <3> QED
      BY <3>1
  <2>2. <<g>> # <<Name>>
    BY TranscoderAssumption
  <2> QED
    BY <1>1, <1>4, <1>5, <2>1, <2>2
<1>7. d.disc = 0 /\ ~IsPart(cf, d) /\ IsGarbage(d)
  <2>1. ~IsPart(cf, d)
    BY <1>1, <1>3, <1>6 DEF Fits
  <2>2. p.disc = d.disc \/ cf.concat
    BY <1>3 DEF NamesInv, HoldsInv
  <2> QED
    BY <1>1, <1>6, <2>1, <2>2 DEF IsPart, HasDisc, IsGarbage
<1>8. \A e \in Origins(dl, dk[p].videos) : e = d
  <2>1. \A e \in Origins(dl, dk[p].videos) : Together(cf, d, e)
    BY <1>3 DEF NamesInv, MeetInv, Alike
  <2> QED
    BY <1>7, <2>1 DEF Together
<1> QED
  BY <1>1, <1>3, <1>5, <1>6, <1>7, <1>8 DEF IsPart, HasDisc

\* GarbageOwner: it is the only file of the video it came with.
LEMMA GarbageOwner ==
    ASSUME NEW dl, NEW cf, NEW dk, Fits(dl, cf), NamesInv(dl, cf, dk),
           NEW p \in DOMAIN dk, p \in Paths, IsGarbage(p)
    PROVE  /\ Origins(dl, dk[p].videos) # {}
           /\ \A d \in Origins(dl, dk[p].videos) :
                 /\ d \in DOMAIN dl /\ Origins(dl, dk[p].videos) = {d} /\ IsGarbage(d)
                 /\ p.stem = d.stem /\ ~IsPart(cf, d)
<1>1. \E d \in DOMAIN dl : /\ Origins(dl, dk[p].videos) = {d} /\ IsGarbage(d)
                           /\ p.stem = d.stem /\ ~IsPart(cf, d)
  BY GarbageOrigin
<1> QED
  BY <1>1

\* RenamedMeaningless: who has the name of the download came with it or with none.
LEMMA RenamedMeaningless ==
    ASSUME NEW dl, NEW cf, NEW dk, Fits(dl, cf), NamesInv(dl, cf, dk), NEW q \in DOMAIN dk,
           Core(q.stem) \in {<<Name>>, <<Name, "NTM">>}, cf.concat \/ q.disc = 0
    PROVE  \A e \in Origins(dl, dk[q].videos) : Meaningless(cf, e)
<1> SUFFICES ASSUME NEW e \in Origins(dl, dk[q].videos), ~IsGarbage(e)
             PROVE  e.stem = <<Name>> /\ (cf.concat \/ ~HasDisc(e))
  BY DEF Meaningless
<1>1. Core(q.stem) = e.stem /\ (cf.concat \/ q.disc = e.disc) /\ e \in DOMAIN dl
  BY DEF NamesInv, HoldsInv, Origins
<1>2. e.stem # <<Name, "NTM">>
  BY <1>1 DEF Fits
<1> QED
  BY <1>1, <1>2 DEF HasDisc

\* RenameFresh: the new name is no other file's, and no other file has the video.
LEMMA RenameFresh ==
    ASSUME NEW dl, NEW cf, NEW dk, Fits(dl, cf), NamesInv(dl, cf, dk),
           \A r \in DOMAIN dk : r \in Paths /\ r.stem # <<>>,
           NEW p \in DOMAIN dk, Renames(dl, cf, dk, p), NEW t \in Paths,
           t.dir = p.dir, t.disc = p.disc, t.ext = p.ext,
           \/ t.stem = <<Name>> /\ t \notin DOMAIN dk
           \/ t.stem = <<Name, "NTM">>
    PROVE  /\ \A q \in DOMAIN dk \ {p} : ~Alike(cf, q, t) /\ ~Alike(cf, t, q)
           /\ \A q \in DOMAIN dk \ {p} :
                 Origins(dl, dk[q].videos) \cap Origins(dl, dk[p].videos) = {}
           /\ t \notin DOMAIN dk /\ Core(t.stem) = t.stem /\ t # p
<1>1. /\ p.disc = 0 /\ ~IsPart(cf, p) /\ Core(p.stem) = p.stem
      /\ \E g \in Garbage : p.stem = <<g>>
  BY GarbageOrigin DEF Renames
<1>2. PICK d \in DOMAIN dl : Origins(dl, dk[p].videos) = {d} /\ IsGarbage(d)
  BY GarbageOrigin DEF Renames
<1>3. "NTM" \in Words /\ Name \in Words /\ Name \notin Tails /\ "NTM" \notin Tails
  BY TranscoderAssumption DEF Added, Tails
<1>4. Core(t.stem) = t.stem
  <2>1. \A i \in DOMAIN <<Name>> : <<Name>>[i] \notin Tails
    BY <1>3
  <2>2. <<Name, "NTM">>[1] = Name /\ <<Name, "NTM">>[2] = "NTM"
        /\ DOMAIN <<Name, "NTM">> = {1, 2}
    OBVIOUS
  <2>3. \A i \in DOMAIN <<Name, "NTM">> : <<Name, "NTM">>[i] \notin Tails
    BY <1>3, <2>2
  <2>4. t.stem \in Seq(Words)
    BY DEF Paths
  <2> QED
    BY <2>1, <2>3, <2>4, CorePlain
<1>5. ASSUME NEW q \in DOMAIN dk, q # p, Core(q.stem) = t.stem, cf.concat \/ q.disc = 0
      PROVE  FALSE
  <2>1. PICK e \in Origins(dl, dk[q].videos) : Meaningless(cf, e)
    <3>1. \A e \in Origins(dl, dk[q].videos) : Meaningless(cf, e)
      BY <1>5, RenamedMeaningless
    <3>2. Origins(dl, dk[q].videos) # {}
      BY DEF NamesInv, HoldsInv
    <3> QED
      BY <3>1, <3>2
  <2>2. Len(q.stem) = 1 /\ q.dir = p.dir /\ q.disc = p.disc /\ q.ext = p.ext
    BY <1>5, <2>1 DEF Renames
  <2>3. q.stem \in Seq(Words) /\ q.stem # <<>> /\ q \in Paths
    BY DEF Paths
  <2>4. CASE t.stem = <<Name>> /\ t \notin DOMAIN dk
    <3>1. q.stem = <<Name>>
      BY <1>3, <1>5, <2>2, <2>3, <2>4, CoreOne
    <3>2. q = t
      BY <2>2, <2>3, <2>4, <3>1 DEF Paths
    <3> QED
      BY <2>4, <3>2
  <2>5. CASE t.stem = <<Name, "NTM">>
    <3>1. 2 \in DOMAIN Core(q.stem)
      BY <1>5, <2>5
    <3>2. 2 \in DOMAIN q.stem
      BY <3>1 DEF Core
    <3> QED
      BY <2>2, <2>3, <3>2
  <2> QED
    BY <2>4, <2>5
<1>6. \A q \in DOMAIN dk \ {p} : ~Alike(cf, q, t) /\ ~Alike(cf, t, q)
  BY <1>1, <1>4, <1>5 DEF Alike
<1>7. ASSUME NEW q \in DOMAIN dk, q # p, d \in Origins(dl, dk[q].videos)
      PROVE  FALSE
  <2>1. Len(q.stem) = 1 /\ q.dir = p.dir /\ q.disc = p.disc /\ q.ext = p.ext
    BY <1>2, <1>7 DEF Renames, Meaningless
  <2>2. Core(q.stem) = p.stem
    BY <1>1, <1>2, <1>7 DEF NamesInv, OneNameInv
  <2>3. PICK g \in Garbage : p.stem = <<g>>
    BY <1>1
  <2>4. q.stem \in Seq(Words) /\ q.stem # <<>> /\ q \in Paths /\ p \in Paths /\ g \in Words
    <3>1. q \in Paths /\ p \in Paths /\ p.stem \in Seq(Words) /\ q.stem \in Seq(Words)
      BY DEF Paths
    <3>2. 1 \in DOMAIN <<g>> /\ <<g>>[1] = g
      OBVIOUS
    <3> QED
      BY <2>3, <3>1, <3>2
  <2>5. q.stem = <<g>>
    BY <2>1, <2>2, <2>3, <2>4, CoreOne
  <2>6. q = p
    BY <2>1, <2>3, <2>4, <2>5 DEF Paths
  <2> QED
    BY <1>7, <2>6
<1>8. t # p
  <2>1. PICK g \in Garbage : p.stem = <<g>>
    BY <1>1
  <2>2. <<g>> # <<Name>>
    BY TranscoderAssumption
  <2>3. Len(<<g>>) = 1 /\ Len(<<Name, "NTM">>) = 2
    OBVIOUS
  <2> QED
    BY <2>1, <2>2, <2>3
<1>9. t \notin DOMAIN dk
  BY <1>6, <1>8 DEF Alike
<1> QED
  BY <1>2, <1>4, <1>6, <1>7, <1>8, <1>9

\* RenameKeeps: renaming moves the only file of a video to a name of its own.
LEMMA RenameKeeps ==
    ASSUME NEW dl, NEW cf, NEW dk, NEW dk2, Fits(dl, cf), DiskInv(dl, cf, dk),
           \A r \in DOMAIN dk : r \in Paths /\ r.stem # <<>>,
           NEW p \in DOMAIN dk, Renames(dl, cf, dk, p), NEW t \in Paths, Moves(dk, dk2, p, t),
           t.dir = p.dir, t.disc = p.disc, t.ext = p.ext,
           \/ t.stem = <<Name>> /\ t \notin DOMAIN dk
           \/ t.stem = <<Name, "NTM">>
    PROVE  DiskInv(dl, cf, dk2)
<1>1. /\ \A q \in DOMAIN dk \ {p} : ~Alike(cf, q, t) /\ ~Alike(cf, t, q)
      /\ \A q \in DOMAIN dk \ {p} :
            Origins(dl, dk[q].videos) \cap Origins(dl, dk[p].videos) = {}
      /\ t \notin DOMAIN dk /\ Core(t.stem) = t.stem /\ t # p
  BY RenameFresh DEF DiskInv
<1>2. PICK d \in DOMAIN dl : Origins(dl, dk[p].videos) = {d} /\ IsGarbage(d) /\ ~IsPart(cf, d)
  <2>1. NamesInv(dl, cf, dk) /\ p \in Paths /\ IsGarbage(p)
    BY DEF Renames, DiskInv
  <2>2. /\ Origins(dl, dk[p].videos) # {}
        /\ \A c \in Origins(dl, dk[p].videos) :
              /\ c \in DOMAIN dl /\ Origins(dl, dk[p].videos) = {c} /\ IsGarbage(c)
              /\ p.stem = c.stem /\ ~IsPart(cf, c)
    BY <2>1, GarbageOwner
  <2> QED
    BY <2>2
<1>3. ~IsPart(cf, p) /\ ~IsPart(cf, t)
  <2>1. p.disc = 0
    BY GarbageOrigin DEF Renames, DiskInv
  <2> QED
    BY <2>1 DEF IsPart, HasDisc
<1>4. /\ t \in DOMAIN dk2 /\ dk2[t] = dk[p]
      /\ \A r \in DOMAIN dk2 : r # t => r \in DOMAIN dk \ {p} /\ dk2[r] = dk[r]
      /\ \A r \in DOMAIN dk \ {p} : r \in DOMAIN dk2 /\ dk2[r] = dk[r]
  BY <1>1 DEF Moves
<1>5. HoldsInv(dl, cf, dk) /\ MeetInv(dl, cf, dk) /\ OneNameInv(dl, cf, dk)
  BY DEF DiskInv, NamesInv
<1>6. HoldsInv(dl, cf, dk2)
  <2> SUFFICES ASSUME NEW r \in DOMAIN dk2
               PROVE  /\ Origins(dl, dk2[r].videos) # {}
                      /\ \A e \in Origins(dl, dk2[r].videos) :
                            /\ dl[e].videos \subseteq dk2[r].videos
                            /\ r.disc = e.disc \/ (cf.concat /\ r.disc = 0)
                            /\ \/ Core(r.stem) = e.stem
                               \/ IsGarbage(e) /\ Core(r.stem) \in {<<Name>>, <<Name, "NTM">>}
                            /\ IsPart(cf, r) => r.ext = e.ext
                            /\ ~IsPart(cf, r) => \A c \in DOMAIN dl : Together(cf, e, c) =>
                                                     c \in Origins(dl, dk2[r].videos)
    BY DEF HoldsInv
  <2>1. CASE r # t
    BY <1>4, <1>5, <2>1 DEF HoldsInv
  <2>2. CASE r = t
    <3>1. dl[d].videos \subseteq dk[p].videos /\ (p.disc = d.disc \/ (cf.concat /\ p.disc = 0))
      BY <1>2, <1>5 DEF HoldsInv
    <3>2. Core(t.stem) \in {<<Name>>, <<Name, "NTM">>}
      BY <1>1
    <3>3. \A c \in DOMAIN dl : Together(cf, d, c) => c = d
      BY <1>2 DEF Together
    <3> QED
      BY <1>2, <1>3, <1>4, <2>2, <3>1, <3>2, <3>3
  <2> QED
    BY <2>1, <2>2
<1>7. MeetInv(dl, cf, dk2)
  <2> SUFFICES ASSUME NEW r \in DOMAIN dk2, NEW q \in DOMAIN dk2, Alike(cf, r, q),
                      NEW c \in Origins(dl, dk2[r].videos), NEW e \in Origins(dl, dk2[q].videos)
               PROVE  Together(cf, c, e)
    BY DEF MeetInv
  <2>1. CASE r = t /\ q = t
    BY <1>2, <1>4, <2>1 DEF Together
  <2>2. CASE r # t /\ q # t
    BY <1>4, <1>5, <2>2 DEF MeetInv
  <2> QED
    BY <1>1, <1>4, <2>1, <2>2
<1>8. OneNameInv(dl, cf, dk2)
  BY <1>1, <1>4, <1>5 DEF OneNameInv
<1>9. PartsInv(dl, cf, dk2)
  <2>1. \A r \in DOMAIN dk2 : IsPart(cf, r) => r \in DOMAIN dk /\ dk2[r] = dk[r]
    BY <1>3, <1>4
  <2>2. \A r \in DOMAIN dk : IsPart(cf, r) => r \in DOMAIN dk2 /\ dk2[r] = dk[r]
    BY <1>3, <1>4
  <2>3. OncePart(dl, cf, dk2)
    BY <2>1 DEF DiskInv, PartsInv, OncePart
  <2>4. FirstPart(dl, cf, dk2)
    BY <2>1, <2>2 DEF DiskInv, PartsInv, FirstPart
  <2> QED
    BY <2>1, <2>3, <2>4 DEF DiskInv, PartsInv
<1>10. CutInv(dl, cf, dk2)
  BY <1>4 DEF DiskInv, CutInv
<1>11. SurviveInv(dl, dk2)
  BY <1>4 DEF DiskInv, SurviveInv
<1> QED
  BY <1>6, <1>7, <1>8, <1>9, <1>10, <1>11 DEF DiskInv, NamesInv

\* RenameNext: the next meaningless name can be replaced as well; there is no third.
LEMMA RenameNext ==
    ASSUME NEW dl, NEW cf, NEW dk, NEW dk2, Fits(dl, cf), DiskInv(dl, cf, dk),
           \A r \in DOMAIN dk : r \in Paths /\ r.stem # <<>>,
           NEW p \in DOMAIN dk, Renames(dl, cf, dk, p), NEW t \in Paths, Moves(dk, dk2, p, t),
           t.dir = p.dir, t.disc = p.disc, t.ext = p.ext,
           \/ t.stem = <<Name>> /\ t \notin DOMAIN dk
           \/ t.stem = <<Name, "NTM">> /\ \E n \in DOMAIN dk : n.stem = <<Name>> /\ n.disc = p.disc,
           NEW p2 \in DOMAIN dk, Renames(dl, cf, dk, p2), p2 # p
    PROVE  Renames(dl, cf, dk2, p2)
<1>1. PICK d \in DOMAIN dl : Origins(dl, dk[p].videos) = {d} /\ IsGarbage(d)
  <2>1. NamesInv(dl, cf, dk) /\ p \in Paths /\ IsGarbage(p)
    BY DEF Renames, DiskInv
  <2>2. /\ Origins(dl, dk[p].videos) # {}
        /\ \A c \in Origins(dl, dk[p].videos) :
              /\ c \in DOMAIN dl /\ Origins(dl, dk[p].videos) = {c} /\ IsGarbage(c)
              /\ p.stem = c.stem /\ ~IsPart(cf, c)
    BY <2>1, GarbageOwner
  <2> QED
    BY <2>2
<1>2. PICK d2 \in DOMAIN dl : Origins(dl, dk[p2].videos) = {d2} /\ IsGarbage(d2)
  <2>1. NamesInv(dl, cf, dk) /\ p2 \in Paths /\ IsGarbage(p2)
    BY DEF Renames, DiskInv
  <2>2. /\ Origins(dl, dk[p2].videos) # {}
        /\ \A c \in Origins(dl, dk[p2].videos) :
              /\ c \in DOMAIN dl /\ Origins(dl, dk[p2].videos) = {c} /\ IsGarbage(c)
              /\ p2.stem = c.stem /\ ~IsPart(cf, c)
    BY <2>1, GarbageOwner
  <2> QED
    BY <2>2
<1>3. \A q \in DOMAIN dk \ {p} : d \notin Origins(dl, dk[q].videos)
  BY <1>1, RenameFresh DEF DiskInv
<1>4. Len(p.stem) = 1 /\ p.dir = p2.dir /\ p.disc = p2.disc /\ p.ext = p2.ext
  BY <1>1 DEF Renames, Meaningless
<1>5. ASSUME NEW n \in DOMAIN dk, n.stem = <<Name>>, n.disc = p.disc
      PROVE  FALSE
  <2>1. p.disc = 0
    BY GarbageOrigin DEF Renames, DiskInv
  <2>2. Core(n.stem) = <<Name>>
    <3>1. <<Name>> \in Seq(Words)
      BY TranscoderAssumption
    <3>2. \A i \in DOMAIN <<Name>> : <<Name>>[i] \notin Tails
      BY TranscoderAssumption DEF Added, Tails
    <3> QED
      BY <1>5, <3>1, <3>2, CorePlain
  <2>3. PICK e \in Origins(dl, dk[n].videos) : Meaningless(cf, e) /\ e \in DOMAIN dl
    <3>1. \A e \in Origins(dl, dk[n].videos) : Meaningless(cf, e)
      BY <1>5, <2>1, <2>2, RenamedMeaningless DEF DiskInv
    <3>2. Origins(dl, dk[n].videos) # {}
      BY DEF DiskInv, NamesInv, HoldsInv
    <3> QED
      BY <3>1, <3>2 DEF Origins
  <2>4. n # p /\ n # p2
    <3>1. \A g \in Garbage : <<g>> # <<Name>>
      BY TranscoderAssumption
    <3> QED
      BY <1>5, <3>1 DEF Renames, IsGarbage
  <2>5. e # d
    BY <1>3, <2>3, <2>4
  <2>6. d2 # d
    BY <1>2, <1>3
  <2>7. e # d2
    <3>1. Core(p2.stem) = p2.stem /\ \E g \in Garbage : p2.stem = <<g>>
      BY GarbageOrigin DEF Renames, DiskInv
    <3>2. Core(n.stem) # Core(p2.stem)
      BY <2>2, <3>1, TranscoderAssumption
    <3> QED
      BY <1>2, <2>3, <3>2 DEF DiskInv, NamesInv, OneNameInv
  <2>8. Meaningless(cf, d2)
    BY <1>2 DEF Meaningless
  <2> QED
    BY <1>1, <1>2, <2>3, <2>5, <2>6, <2>7, <2>8 DEF Fits
<1>6. t.stem = <<Name>> /\ t \notin DOMAIN dk /\ Len(t.stem) = 1
  BY <1>5
<1> SUFFICES ASSUME NEW q \in DOMAIN dk2 \ {p2},
                    \E e \in Origins(dl, dk2[q].videos) : Meaningless(cf, e)
             PROVE  Len(q.stem) = 1 /\ q.dir = p2.dir /\ q.disc = p2.disc /\ q.ext = p2.ext
  BY DEF Renames
<1>7. CASE q = t
  BY <1>4, <1>6, <1>7
<1>8. CASE q # t
  BY <1>8 DEF Moves, Renames
<1> QED
  BY <1>7, <1>8

-----------------------------------------------------------------------------
(* What holds in each step of an attempt that VideosSurvive speaks of.     *)

Came == history.download

Live == /\ Undisturbed
        /\ history.left \subseteq (IF conf.check THEN {"cut", "moved"} ELSE {"moved"})

Transcoding == run.pc \in {"pick", "encode", "unlink"}

FineFile(p) == Fine(Came, disk[p])

\* Names still to be replaced can be, and directories are left by what is flattened.
NameInv ==
    /\ At("rename") => \A p \in run.todo : Renames(Came, conf, disk, p)
    /\ At("flatten") => \A p \in run.todo : p.dir # "top"

\* What is transcoded or handed over is not cut off, unless a transcoding has failed.
FineInv ==
    /\ run.pc \in {"rename", "flatten", "check"} /\ ~conf.check => \A p \in Local : FineFile(p)
    /\ At("list") \/ (Transcoding /\ ~run.failed) => \A p \in Local : FineFile(p)
    /\ At("tag") => \A p \in Files : FineFile(p)
    /\ At("list") \/ Transcoding => conf.transcode

\* A file cut off in the output directory will be written again.
Source(p, f) == p = NewPath(f, <<>>) /\ f.ext \notin conf.ignore /\ (IsPart(conf, f) => f.disc = 1)

Pending == run.inputs \cup (IF At("encode") THEN {run.cur} ELSE {})

SourceInv ==
    \A p \in Files : p.dir = "out" /\ ~FineFile(p) =>
        /\ \E f \in Local : Source(p, f)
        /\ Transcoding /\ ~run.failed =>
               \E in \in Pending : ~Ignored(in) /\ p = NewPath(FileOf(in), <<>>)

\* An input is a file, which may have been removed since unless there is an output
\* directory, or all discs of a video.
Single(in) == \E f \in in : /\ in = {f} /\ ~IsPart(conf, f) /\ f.dir # "out"
                            /\ conf.out => f \in Files
AllDiscs(in) == /\ Discs(Came, conf, disk, in) /\ in \subseteq run.rem_list
                /\ \E p \in in : p.disc = 1

InputInv ==
    /\ \A p \in run.rem_list : IsPart(conf, p)
    /\ \A p \in Files : IsPart(conf, p) => p \in run.rem_list
    /\ \A in \in run.inputs : Single(in) \/ AllDiscs(in)
    /\ run.suffix \in {<<>>, <<"transcoded">>}
    /\ conf.out => run.suffix = <<>>

\* The videos of a file still to be transcoded are in it, or in a file that is done
\* with and that no step of this one removes.
Target(f) == f.dir = NewDir /\ f.ext = VEXTENSION

Working == IF run.pc \in {"encode", "unlink"} THEN run.inputs \cup {run.cur} ELSE run.inputs

Backs(g, f) ==
    /\ g \in Files /\ FineFile(g) /\ Alike(conf, g, f) /\ ~IsPart(conf, g)
    /\ g = f \/ (Target(f) /\ {g} \notin Working /\ Len(g.stem) <= Len(f.stem))

Backed(f) == \E g \in Files : Backs(g, f)

\* What the new file replaced was as good as the one it is made of.
Replaced(f) ==
    /\ At("encode") /\ Single(run.cur) /\ Alike(conf, FileOf(run.cur), f) /\ Target(f)
    /\ \/ f = NewFile
       \/ {NewFile} \notin run.inputs /\ Len(NewFile.stem) <= Len(f.stem)

BackedInv == \A in \in run.inputs : Single(in) => Backed(FileOf(in)) \/ Replaced(FileOf(in))

OnlyDiscsLeft == \A in \in run.inputs : in \subseteq run.rem_list

CurInv ==
    /\ run.pc \in {"encode", "unlink"} =>
           ~Ignored(run.cur) /\ run.cur \notin run.inputs /\ NewFile # FileOf(run.cur)
    /\ At("encode") =>
           /\ NewFile \notin Files
           /\ \/ AllDiscs(run.cur) /\ OnlyDiscsLeft
              \/ Single(run.cur) /\ Backed(FileOf(run.cur))
    /\ At("unlink") =>
           \/ /\ AllDiscs(run.cur) /\ OnlyDiscsLeft /\ NewFile \in Files /\ disk[NewFile].whole
              /\ \A p \in run.cur :
                    Origins(Came, disk[p].videos) \subseteq Origins(Came, disk[NewFile].videos)
           \/ /\ Single(run.cur) /\ run.cur \subseteq Files
              /\ conf.out => NewFile \in Files /\ FineFile(NewFile)
              /\ \E g \in Files : /\ FineFile(g) /\ Alike(conf, g, FileOf(run.cur))
                                  /\ ~IsPart(conf, g) /\ g # FileOf(run.cur)

\* Until a transcoding fails, a disc is still to be joined, or its video is joined and
\* its first disc gone.
DiscDone(p) ==
    /\ OnlyDiscsLeft /\ (run.pc \in {"encode", "unlink"} => run.cur \subseteq run.rem_list)
    /\ \A d \in Origins(Came, disk[p].videos) :
          \E g \in Files : ~IsPart(conf, g) /\ d \in Origins(Came, disk[g].videos) /\ disk[g].whole
    /\ conf.duplicate \/ p.disc # 1

DoneInv ==
    ~run.failed =>
        \A p \in run.rem_list \cap Files : (\E in \in Working : p \in in) \/ DiscDone(p)

WorkInv == Transcoding => InputInv /\ BackedInv /\ CurInv /\ DoneInv

Good == DiskInv(Came, conf, disk) /\ NameInv /\ FineInv /\ SourceInv /\ WorkInv

SurvInv == Live => Good

\* GoodHolds: a whole file of each intact video means that each intact video is held.
LEMMA GoodHolds ==
    ASSUME TypeInv, DiskInv(Came, conf, disk), NEW v \in Intact
    PROVE  HeldBy(Files, v)
<1>1. PICK d \in DOMAIN Came : Came[d].whole /\ v \in Came[d].videos
  BY DEF Intact, Came
<1>2. PICK p \in DOMAIN disk : d \in Origins(Came, disk[p].videos) /\ disk[p].whole
  BY <1>1 DEF DiskInv, SurviveInv
<1>3. Came[d].videos \subseteq disk[p].videos
  BY <1>2 DEF DiskInv, NamesInv, HoldsInv
<1> QED
  BY <1>1, <1>2, <1>3 DEF HeldBy, Files

\* HistoryGrows: what an attempt met stays known, from the first one on.
LEMMA HistoryGrows ==
    ASSUME TypeInv, [Next]_vars
    PROVE  /\ history.deleted => history'.deleted
           /\ history.runs # 0 \/ UNCHANGED history => history.left \subseteq history'.left
<1>1. history \in HistoryType
  BY DEF TypeInv
<1>2. CASE UNCHANGED history
  BY <1>2
<1>3. CASE Begin
  BY <1>1, <1>3 DEF Begin, HistoryType
<1>4. CASE \E a : history' = [history EXCEPT !.answer = a]
  BY <1>1, <1>4 DEF HistoryType
<1>5. CASE \E agent \in {"client", "manual"}, status \in {0, 1} : Check(agent, status)
  <2>1. PICK agent \in {"client", "manual"}, status \in {0, 1} : Check(agent, status)
    BY <1>5
  <2>2. CASE CheckBad(status)
    BY <1>1, <2>2 DEF CheckBad, HistoryType
  <2> QED
    BY <1>2, <1>4, <2>1, <2>2 DEF Check, CheckEmpty, CheckGood, Answer
<1>6. CASE List
  BY <1>1, <1>6 DEF List, HistoryType
<1>7. CASE Transcoded \/ HandOver
  BY <1>2, <1>4, <1>7 DEF Transcoded, HandOver, Answer
<1> QED
  BY <1>2, <1>3, <1>5, <1>6, <1>7 DEF Next, vars, Rename, Flatten, Renamed, Flattened, Pick,
     Encode, Unlink, UnlinkPart, Tag, Crash

\* LiveKept: a step that VideosSurvive speaks of follows another, or starts an attempt.
LEMMA LiveKept ==
    ASSUME TypeInv, [Next]_vars, Live'
    PROVE  /\ Came' = Came /\ conf' = conf /\ Fits(Came, conf) /\ Undisturbed
           /\ history.runs # 0 \/ UNCHANGED vars => Live
<1>1. Came' = Came /\ conf' = conf
  <2>1. history'.download = history.download
    BY DownloadKept
  <2>2. conf' = conf
    BY DEF Next, vars, Begin, Rename, Flatten, Renamed, Flattened, Check, List, Pick, Encode,
       Unlink, UnlinkPart, Transcoded, Tag, HandOver, Crash
  <2> QED
    BY <2>1, <2>2 DEF Came
<1>2. /\ history.deleted => history'.deleted
      /\ history.runs # 0 \/ UNCHANGED history => history.left \subseteq history'.left
  BY HistoryGrows
<1>3. Undisturbed
  <2>1. Apart' = Apart /\ DiscsFit' = DiscsFit
    BY <1>1 DEF Apart, DiscsFit, Key, Came
  <2> QED
    BY <1>2, <2>1 DEF Live, Undisturbed
<1>4. Fits(Came, conf)
  BY <1>3, CameFits DEF Came
<1>5. history.runs # 0 \/ UNCHANGED vars => Live
  BY <1>1, <1>2, <1>3 DEF Live, vars
<1> QED
  BY <1>1, <1>3, <1>4, <1>5

\* CameGood: the download is as it came.
LEMMA CameGood ==
    ASSUME NEW dl, NEW cf, Fits(dl, cf)
    PROVE  /\ DiskInv(dl, cf, dl)
           /\ \A d \in DOMAIN dl : Origins(dl, dl[d].videos) = {d} /\ Fine(dl, dl[d])
<1>1. ASSUME NEW d \in DOMAIN dl PROVE Origins(dl, dl[d].videos) = {d}
  BY DEF Fits, Origins
<1>2. HoldsInv(dl, cf, dl)
  <2> SUFFICES ASSUME NEW d \in DOMAIN dl
               PROVE  /\ d.disc = d.disc /\ Core(d.stem) = d.stem
                      /\ ~IsPart(cf, d) => \A e \in DOMAIN dl : Together(cf, d, e) => e = d
    BY <1>1 DEF HoldsInv
  <2> QED
    BY DEF Fits, Together
<1>3. MeetInv(dl, cf, dl)
  BY <1>1 DEF MeetInv, Fits, Together, Alike
<1>4. OneNameInv(dl, cf, dl)
  BY <1>1 DEF OneNameInv
<1>5. PartsInv(dl, cf, dl)
  <2>1. OncePart(dl, cf, dl)
    BY <1>1 DEF OncePart
  <2>2. FirstPart(dl, cf, dl)
    BY <1>1 DEF FirstPart, Together
  <2> QED
    BY <2>1, <2>2 DEF PartsInv, Fits
<1>6. \A d \in DOMAIN dl : Fine(dl, dl[d])
  BY <1>1 DEF Fine
<1>7. CutInv(dl, cf, dl)
  BY <1>6 DEF CutInv, Fits
<1>8. SurviveInv(dl, dl)
  BY <1>1 DEF SurviveInv
<1> QED
  BY <1>1, <1>2, <1>3, <1>4, <1>5, <1>6, <1>7, <1>8 DEF DiskInv, NamesInv

\* AtRest: between attempts only the disk matters.
LEMMA AtRest ==
    ASSUME run.pc = "idle", DiskInv(Came, conf, disk),
           \A p \in Files : p.dir = "out" /\ ~FineFile(p) => \E f \in Local : Source(p, f)
    PROVE  Good
BY DEF Good, NameInv, FineInv, SourceInv, WorkInv, Transcoding, At

\* InitGood: it holds for every download to begin with.
LEMMA InitGood == TypeInv /\ Init => SurvInv
<1> SUFFICES ASSUME TypeInv, Init, Live PROVE Good
  BY DEF SurvInv
<1>1. run.pc = "idle" /\ disk = Came /\ Fits(Came, conf)
  BY IdleTyped, CameFits DEF Init, Came, Live
<1>2. DiskInv(Came, conf, disk)
  BY <1>1, CameGood
<1>3. \A p \in Files : p.dir # "out"
  BY <1>1 DEF Fits, Files
<1> QED
  BY <1>1, <1>2, <1>3, AtRest

\* EndGood: an attempt ends, and the disk stays as it is.
LEMMA EndGood ==
    ASSUME Good, Came' = Came, conf' = conf, disk' = disk, run'.pc = "idle"
    PROVE  Good'
<1>1. DiskInv(Came', conf', disk')
  BY DEF Good
<1>2. \A p \in Files : p.dir = "out" /\ ~FineFile(p) => \E f \in Local : Source(p, f)
  BY DEF Good, SourceInv
<1>3. (\A p \in Files : p.dir = "out" /\ ~FineFile(p) => \E f \in Local : Source(p, f))'
  BY <1>2 DEF Files, Local, FineFile, Source, NewPath, NewDir
<1>4. NameInv' /\ FineInv' /\ WorkInv'
  BY DEF NameInv, FineInv, WorkInv, Transcoding, At
<1>5. SourceInv'
  BY <1>3 DEF SourceInv, Transcoding
<1> QED
  BY <1>1, <1>4, <1>5 DEF Good

-----------------------------------------------------------------------------
(* An attempt up to the list of what is transcoded.                        *)

\* CameNames: a download can be renamed if VideosSurvive speaks of it.
LEMMA CameNames ==
    ASSUME NEW dl, NEW cf, Fits(dl, cf), NEW p \in DOMAIN dl, IsGarbage(p)
    PROVE  Renames(dl, cf, dl, p)
<1> SUFFICES ASSUME NEW q \in DOMAIN dl, q # p, NEW d \in Origins(dl, dl[q].videos),
                    Meaningless(cf, d)
             PROVE  Len(q.stem) = 1 /\ q.dir = p.dir /\ q.disc = p.disc /\ q.ext = p.ext
  BY DEF Renames
<1>1. d = q
  BY CameGood
<1>2. q.dir = p.dir /\ q.disc = p.disc /\ q.ext = p.ext
  BY <1>1 DEF Fits
<1>3. Len(q.stem) = 1
  <2>1. \E w : q.stem = <<w>>
    BY <1>1 DEF Meaningless, IsGarbage
  <2> QED
    BY <2>1
<1> QED
  BY <1>2, <1>3

\* FirstWord: the name a file came with, or was given, can be told from its first word.
LEMMA FirstWord ==
    ASSUME NEW dl, NEW cf, NEW dk, Fits(dl, cf), NamesInv(dl, cf, dk),
           NEW q \in DOMAIN dk, NEW d \in Origins(dl, dk[q].videos), Meaningless(cf, d)
    PROVE  q.stem[1] \in Garbage \cup {Name} /\ (d.disc = 0 => q.disc = 0)
<1>1. d \in DOMAIN dl /\ \E w \in Garbage \cup {Name} : d.stem = <<w>>
  BY DEF Origins, Meaningless, IsGarbage
<1>2. /\ Core(q.stem) = d.stem \/ Core(q.stem) \in {<<Name>>, <<Name, "NTM">>}
      /\ q.disc = d.disc \/ q.disc = 0
  BY DEF NamesInv, HoldsInv
<1>3. <<Name>>[1] = Name /\ <<Name, "NTM">>[1] = Name /\ 1 \in DOMAIN <<Name>>
      /\ 1 \in DOMAIN <<Name, "NTM">> /\ \A w : <<w>>[1] = w /\ 1 \in DOMAIN <<w>>
  OBVIOUS
<1>4. 1 \in DOMAIN Core(q.stem) /\ Core(q.stem)[1] \in Garbage \cup {Name}
  BY <1>1, <1>2, <1>3
<1>5. Core(q.stem)[1] = q.stem[1]
  BY <1>4 DEF Core
<1> QED
  BY <1>2, <1>4, <1>5

\* AgainNames: a later attempt can replace what an earlier one could not, unless it
\* starts from a name in the way.
LEMMA AgainNames ==
    ASSUME TypeInv, Fits(Came, conf), DiskInv(Came, conf, disk), "name" \notin LeftBehind,
           NEW p \in Local, IsGarbage(p)
    PROVE  Renames(Came, conf, disk, p)
<1>1. p \in DOMAIN disk /\ p \in Paths
  BY DEF TypeInv, DiskTyped, Named, Local, Files
<1> SUFFICES ASSUME NEW q \in DOMAIN disk, q # p, NEW d \in Origins(Came, disk[q].videos),
                    Meaningless(conf, d)
             PROVE  Len(q.stem) = 1 /\ q.dir = p.dir /\ q.disc = p.disc /\ q.ext = p.ext
  BY DEF Renames
<1>2. q \in Paths /\ q.stem # <<>> /\ q.stem \in Seq(Words)
  BY DEF TypeInv, DiskTyped, Named, Paths
<1>3. NamesInv(Came, conf, disk)
  BY DEF DiskInv
<1>4. q.stem[1] \in Garbage \cup {Name} /\ (d.disc = 0 => q.disc = 0)
  BY <1>3, FirstWord
<1>5. Len(q.stem) <= 1 /\ q.dir = p.dir /\ q.ext = p.ext
  <2>1. ~(Len(q.stem) > 1 \/ q.dir # p.dir \/ q.ext # p.ext)
    BY <1>1, <1>4 DEF LeftBehind, Files
  <2>2. Len(q.stem) \in Nat
    BY <1>2
  <2> QED
    BY <2>1, <2>2
<1>6. Len(q.stem) = 1
  <2>1. \A s \in Seq(Words) : Len(s) \in Nat /\ (Len(s) = 0 => s = <<>>)
    OBVIOUS
  <2>2. Len(q.stem) \in Nat /\ Len(q.stem) # 0
    BY <1>2, <2>1
  <2>3. \A n \in Nat : n # 0 /\ n <= 1 => n = 1
    OBVIOUS
  <2> QED
    BY <1>5, <2>2, <2>3
<1>7. p.disc = 0
  BY DEF IsGarbage, HasDisc
<1>8. d.disc = 0
  <2>1. /\ Origins(Came, disk[p].videos) # {}
        /\ \A c \in Origins(Came, disk[p].videos) : c \in DOMAIN Came /\ IsGarbage(c)
    BY <1>1, <1>3, GarbageOwner
  <2>2. PICK c \in DOMAIN Came : IsGarbage(c)
    BY <2>1
  <2>3. c.disc = 0 /\ d \in DOMAIN Came
    BY <2>2 DEF IsGarbage, HasDisc, Origins
  <2> QED
    BY <2>2, <2>3 DEF Fits
<1> QED
  BY <1>4, <1>5, <1>6, <1>7, <1>8

\* UncutFine: what is not cut off is whole, or came as it is.
LEMMA UncutFine ==
    ASSUME TypeInv, DiskInv(Came, conf, disk), NEW p \in Files,
           disk[p].whole \/ disk[p].videos \cap Intact = {}
    PROVE  FineFile(p)
<1>1. ASSUME NEW d \in Origins(Came, disk[p].videos), Came[d].whole
      PROVE  disk[p].videos \cap Intact # {}
  <2>1. Came[d].videos \subseteq Intact
    BY <1>1 DEF Intact, Came, Origins
  <2> QED
    BY <2>1 DEF Origins
<1> QED
  BY <1>1 DEF FineFile, Fine

LEMMA BeginGood ==
    ASSUME TypeInv, HeldInv, SurvInv, Begin, Live'
    PROVE  Good'
<1>1. Came' = Came /\ conf' = conf /\ Fits(Came, conf) /\ (history.runs # 0 => Live)
  BY LiveKept DEF Next
<1>2. /\ run' = [Idle EXCEPT !.pc = "rename", !.todo = {p \in Local : IsGarbage(p)}]
      /\ disk' = disk
  BY DEF Begin
<1> DEFINE todo == {p \in Local : IsGarbage(p)}
<1>3. todo \subseteq Paths
  BY DEF TypeInv, DiskTyped, Named, Local, Files
<1>4. run'.pc = "rename" /\ run'.todo = todo
  BY <1>2, <1>3, IdleTyped DEF RunType
<1>5. CASE history.runs = 0
  <2>1. disk = Came
    BY <1>5 DEF HeldInv, Came
  <2>2. DiskInv(Came, conf, disk) /\ \A p \in Files : FineFile(p)
    BY <1>1, <2>1, CameGood DEF Files, FineFile
  <2>3. \A p \in todo : Renames(Came, conf, disk, p)
    BY <1>1, <2>1, CameNames DEF Local, Files
  <2>4. NameInv'
    BY <1>1, <1>2, <1>4, <2>3 DEF NameInv, At
  <2>5. (\A p \in Files : FineFile(p))'
    BY <1>1, <1>2, <2>2 DEF Files, FineFile
  <2>6. FineInv' /\ SourceInv' /\ WorkInv'
    BY <1>4, <2>5 DEF FineInv, SourceInv, WorkInv, Transcoding, Local, At
  <2> QED
    BY <1>1, <1>2, <2>2, <2>4, <2>6 DEF Good
<1>6. CASE history.runs # 0
  <2>1. Good
    BY <1>1, <1>6 DEF SurvInv
  <2>2. history'.left = history.left \cup LeftBehind
    BY <1>6 DEF Begin, TypeInv, HistoryType
  <2>3. "name" \notin LeftBehind /\ (~conf.check => "cut" \notin LeftBehind)
    <3> HIDE DEF LeftBehind
    <3> QED
      BY <1>1, <2>2 DEF Live
  <2>4. DiskInv(Came, conf, disk)
    BY <2>1 DEF Good
  <2>5. \A p \in todo : Renames(Came, conf, disk, p)
    BY <1>1, <2>3, <2>4, AgainNames
  <2>6. NameInv'
    BY <1>1, <1>2, <1>4, <2>5 DEF NameInv, At
  <2>7. ASSUME ~conf.check, NEW p \in Local PROVE FineFile(p)
    <3>1. disk[p].whole \/ disk[p].videos \cap Intact = {}
      BY <2>3, <2>7 DEF LeftBehind
    <3> QED
      BY <2>4, <3>1, UncutFine DEF Local
  <2>8. (~conf.check => \A p \in Local : FineFile(p))'
    BY <1>1, <1>2, <2>7 DEF Local, Files, FineFile
  <2>9. FineInv' /\ WorkInv'
    BY <1>4, <2>8 DEF FineInv, WorkInv, Transcoding, At
  <2>10. \A p \in Files : p.dir = "out" /\ ~FineFile(p) => \E f \in Local : Source(p, f)
    BY <2>1 DEF Good, SourceInv
  <2>11. (\A p \in Files : p.dir = "out" /\ ~FineFile(p) => \E f \in Local : Source(p, f))'
    BY <1>1, <1>2, <2>10 DEF Files, Local, FineFile, Source, NewPath, NewDir
  <2>12. SourceInv'
    BY <1>4, <2>11 DEF SourceInv, Transcoding
  <2> QED
    BY <1>1, <1>2, <2>4, <2>6, <2>9, <2>12 DEF Good
<1> QED
  BY <1>5, <1>6

\* SameDisk: a step that leaves the disk alone.
LEMMA SameDisk ==
    ASSUME Good, Came' = Came, conf' = conf, disk' = disk
    PROVE  /\ DiskInv(Came', conf', disk')
           /\ (\A p \in Files : p.dir = "out" /\ ~FineFile(p) => \E f \in Local : Source(p, f))'
           /\ (\A p \in Local : FineFile(p)) => (\A p \in Local : FineFile(p))'
           /\ (\A p \in Files : FineFile(p)) => (\A p \in Files : FineFile(p))'
<1>1. DiskInv(Came', conf', disk')
  BY DEF Good
<1>2. \A p \in Files : p.dir = "out" /\ ~FineFile(p) => \E f \in Local : Source(p, f)
  BY DEF Good, SourceInv
<1>3. (\A p \in Files : p.dir = "out" /\ ~FineFile(p) => \E f \in Local : Source(p, f))'
  BY <1>2 DEF Files, Local, FineFile, Source, NewPath, NewDir
<1> QED
  BY <1>1, <1>3 DEF Local, Files, FineFile

\* MovedMoves: what a move does to the disk.
LEMMA MovedMoves ==
    ASSUME NEW p \in Files, NEW q, disk' = Moved(p, q), Came' = Came
    PROVE  /\ Moves(disk, disk', p, q) /\ Files' = (Files \ {p}) \cup {q}
           /\ \A r \in Files' : /\ r # q => r \in Files /\ (~FineFile(r)' => ~FineFile(r))
                                /\ r = q => (~FineFile(r)' => ~FineFile(p))
<1>1. Moves(disk, disk', p, q) /\ Files' = (Files \ {p}) \cup {q}
  BY DEF Moves, Moved, Files
<1>2. disk'[q] = disk[p] /\ \A r \in Files' : r # q => r \in Files /\ disk'[r] = disk[r]
  BY <1>1 DEF Moves, Files
<1> QED
  BY <1>1, <1>2 DEF FineFile

\* TwoWords: a name of two words.
LEMMA TwoWords ==
    ASSUME NEW v \in Words, NEW w \in Words
    PROVE  <<v, w>> \in Seq(Words) /\ Append(<<v>>, w) = <<v, w>>
<1>1. <<v>> \in Seq(Words) /\ Len(<<v>>) = 1 /\ <<v, w>> \in Seq(Words)
  OBVIOUS
<1>2. Append(<<v>>, w) = [i \in 1..2 |-> IF i <= 1 THEN <<v>>[i] ELSE w]
  BY <1>1
<1>3. <<v, w>> = [i \in 1..2 |-> IF i <= 1 THEN <<v>>[i] ELSE w]
  OBVIOUS
<1> QED
  BY <1>1, <1>2, <1>3

\* NewNames: the name given to a meaningless one.
LEMMA NewNames ==
    ASSUME NEW p \in Paths, NEW t, t = FreeName(NewName(p))
    PROVE  /\ t \in Paths /\ t.dir = p.dir /\ t.disc = p.disc /\ t.ext = p.ext
           /\ \/ t.stem = <<Name>> /\ t \notin Files
              \/ t.stem = <<Name, "NTM">> /\ \E n \in Files : n.stem = <<Name>> /\ n.disc = p.disc
<1> DEFINE n == NewName(p)
<1>1. <<Name>> \in Seq(Words) /\ <<Name, "NTM">> \in Seq(Words)
      /\ Append(<<Name>>, "NTM") = <<Name, "NTM">>
  BY OneWord, TwoWords, TranscoderAssumption DEF Added
<1>2. n \in Paths /\ n.stem = <<Name>> /\ n.dir = p.dir /\ n.disc = p.disc /\ n.ext = p.ext
  BY <1>1 DEF NewName, Paths
<1> HIDE DEF n
<1>3. CASE n \notin Files
  <2>1. t = n
    BY <1>3 DEF FreeName, n
  <2> QED
    BY <1>2, <1>3, <2>1
<1>4. CASE n \in Files
  <2>1. t = [n EXCEPT !.stem = Append(@, "NTM")]
    BY <1>4 DEF FreeName, n
  <2>2. t = [n EXCEPT !.stem = <<Name, "NTM">>]
    BY <1>1, <1>2, <2>1
  <2>3. t \in Paths /\ t.stem = <<Name, "NTM">> /\ t.dir = p.dir /\ t.disc = p.disc /\ t.ext = p.ext
    BY <1>1, <1>2, <2>2 DEF Paths
  <2> QED
    BY <1>2, <1>4, <2>3
<1> QED
  BY <1>3, <1>4

\* RenameGood: a name is replaced, or cannot be.
LEMMA RenameGood ==
    ASSUME TypeInv, Good, Fits(Came, conf), Came' = Came, conf' = conf,
           NEW p \in run.todo, Rename(p)
    PROVE  Good'
<1> DEFINE t == FreeName(NewName(p))
<1>1. /\ run.pc = "rename" /\ p \in Local /\ p \in Files /\ p \in Paths
      /\ run'.pc = "rename" /\ run'.todo = run.todo \ {p}
  BY DEF Rename, At, TypeInv, Named, Local, RunType
<1>2. Renames(Came, conf, disk, p) /\ \A r \in run.todo : Renames(Came, conf, disk, r)
  BY <1>1 DEF Good, NameInv, At
<1>3. WorkInv'
  BY <1>1 DEF WorkInv, Transcoding
<1>4. CASE disk' = disk
  <2>1. NameInv'
    BY <1>1, <1>2, <1>4 DEF NameInv, At
  <2>2. FineInv'
    BY <1>1, <1>4, SameDisk DEF Good, FineInv, At, Transcoding
  <2>3. SourceInv'
    BY <1>1, <1>4, SameDisk DEF SourceInv, Transcoding
  <2> QED
    BY <1>3, <1>4, <2>1, <2>2, <2>3, SameDisk DEF Good
<1>5. CASE disk' = Moved(p, t)
  <2>1. /\ t \in Paths /\ t.dir = p.dir /\ t.disc = p.disc /\ t.ext = p.ext
        /\ \/ t.stem = <<Name>> /\ t \notin DOMAIN disk
           \/ t.stem = <<Name, "NTM">> /\ \E n \in DOMAIN disk : n.stem = <<Name>> /\ n.disc = p.disc
    BY <1>1, NewNames DEF Files
  <2> HIDE DEF t
  <2>2. /\ Moves(disk, disk', p, t) /\ Files' = (Files \ {p}) \cup {t}
        /\ \A r \in Files' : /\ r # t => r \in Files /\ (~FineFile(r)' => ~FineFile(r))
                             /\ r = t => (~FineFile(r)' => ~FineFile(p))
    BY <1>1, <1>5, MovedMoves
  <2>3. /\ \A r \in DOMAIN disk : r \in Paths /\ r.stem # <<>>
        /\ p \in DOMAIN disk /\ DiskInv(Came, conf, disk)
    BY <1>1 DEF TypeInv, DiskTyped, Named, Files, Good
  <2>4. DiskInv(Came', conf', disk')
    BY <1>2, <2>1, <2>2, <2>3, RenameKeeps
  <2>5. NameInv'
    <3> SUFFICES ASSUME NEW r \in run.todo, r # p
                 PROVE  Renames(Came, conf, disk', r)
      BY <1>1 DEF NameInv, At
    <3>1. r \in DOMAIN disk /\ Renames(Came, conf, disk, r)
      BY <1>1, <1>2 DEF TypeInv, Local, Files
    <3> QED
      BY <1>2, <2>1, <2>2, <2>3, <3>1, RenameNext
  <2>6. FineInv'
    <3>1. ~conf.check => \A r \in Local : FineFile(r)
      BY <1>1 DEF Good, FineInv
    <3>2. (~conf.check => \A r \in Local : FineFile(r))'
      BY <1>1, <2>2, <3>1 DEF Local
    <3> QED
      BY <1>1, <3>2 DEF FineInv, At, Transcoding
  <2>7. SourceInv'
    <3> SUFFICES ASSUME NEW r \in Files', r.dir = "out", ~FineFile(r)'
                 PROVE  \E f \in Local' : Source(r, f)'
      BY <1>1 DEF SourceInv, Transcoding
    <3>1. r # t /\ r \in Files /\ ~FineFile(r)
      BY <1>1, <2>1, <2>2 DEF Local
    <3>2. PICK f \in Local : Source(r, f)
      BY <3>1 DEF Good, SourceInv
    <3>3. f # p
      <4> SUFFICES ASSUME f = p PROVE FALSE
        OBVIOUS
      <4>1. r.stem = p.stem \o <<>> /\ (r.disc = 0 \/ r.disc = p.disc)
        BY <3>2 DEF Source, NewPath
      <4>2. r.stem = p.stem
        <5>1. p.stem \in Seq(Words)
          BY <1>1 DEF Paths
        <5> QED
          BY <4>1, <5>1
      <4>3. IsGarbage(r) /\ r \in DOMAIN disk /\ r \in Paths
        BY <1>2, <2>3, <3>1, <4>1, <4>2 DEF Renames, IsGarbage, HasDisc, Files
      <4>4. NamesInv(Came, conf, disk)
        BY <2>3 DEF DiskInv
      <4>5. /\ Origins(Came, disk[r].videos) # {}
            /\ \A c \in Origins(Came, disk[r].videos) : IsGarbage(c)
        BY <4>3, <4>4, GarbageOwner
      <4>6. r # p
        BY <1>1 DEF Local
      <4>7. r.dir = p.dir
        BY <1>2, <4>3, <4>5, <4>6 DEF Renames, Meaningless
      <4> QED
        BY <1>1, <4>7 DEF Local
    <3>4. f \in Local'
      BY <2>2, <3>2, <3>3 DEF Local
    <3>5. Source(r, f)'
      BY <3>2 DEF Source, NewPath, NewDir
    <3> QED
      BY <3>4, <3>5
  <2> QED
    BY <1>3, <2>4, <2>5, <2>6, <2>7 DEF Good
<1> QED
  BY <1>4, <1>5 DEF Rename

\* RenamedGood: what is in a subdirectory is to be flattened.
LEMMA RenamedGood ==
    ASSUME TypeInv, Good, Came' = Came, conf' = conf, Renamed \/ Flattened
    PROVE  Good'
<1>1. /\ disk' = disk /\ run.pc \in {"rename", "flatten"} /\ run'.pc \in {"flatten", "check"}
      /\ run'.pc = "flatten" => \A p \in run'.todo : p.dir # "top"
  <2>1. run \in RunType
    BY DEF TypeInv
  <2>2. CASE Flattened
    BY <2>1, <2>2 DEF Flattened, Goto, At, RunType
  <2>3. CASE Renamed /\ conf.flat
    <3>1. run' = [run EXCEPT !.pc = "flatten", !.todo = {p \in Local : p.dir # "top"}]
      BY <2>3 DEF Renamed
    <3>2. run'.pc = "flatten" /\ run'.todo = {p \in Local : p.dir # "top"}
      BY <2>1, <3>1 DEF RunType
    <3> QED
      BY <2>3, <3>2 DEF Renamed, At
  <2>4. CASE Renamed /\ ~conf.flat
    BY <2>1, <2>4 DEF Renamed, At, RunType
  <2> QED
    BY <2>2, <2>3, <2>4
<1>2. NameInv' /\ WorkInv'
  BY <1>1 DEF NameInv, At, WorkInv, Transcoding
<1>3. FineInv'
  BY <1>1, SameDisk DEF Good, FineInv, At, Transcoding
<1>4. SourceInv'
  BY <1>1, SameDisk DEF SourceInv, Transcoding
<1> QED
  BY <1>1, <1>2, <1>3, <1>4, SameDisk DEF Good

\* FlattenGood: a file moves up, or cannot.
LEMMA FlattenGood ==
    ASSUME TypeInv, Good, Fits(Came, conf), Came' = Came, conf' = conf,
           NEW p \in run.todo, Flatten(p)
    PROVE  Good'
<1> DEFINE q == [p EXCEPT !.dir = "top"]
<1>1. /\ run.pc = "flatten" /\ p \in Local /\ p \in Files /\ p \in Paths
      /\ run'.pc = "flatten" /\ run'.todo = run.todo \ {p}
  BY DEF Flatten, At, TypeInv, Named, Local, RunType
<1>2. \A r \in run.todo : r.dir # "top"
  BY <1>1 DEF Good, NameInv, At
<1>3. WorkInv' /\ NameInv'
  BY <1>1, <1>2 DEF WorkInv, NameInv, Transcoding, At
<1>4. CASE disk' = disk
  <2>1. FineInv'
    BY <1>1, <1>4, SameDisk DEF Good, FineInv, At, Transcoding
  <2>2. SourceInv'
    BY <1>1, <1>4, SameDisk DEF SourceInv, Transcoding
  <2> QED
    BY <1>3, <1>4, <2>1, <2>2, SameDisk DEF Good
<1>5. CASE disk' = Moved(p, q)
  <2>1. /\ q.dir = "top" /\ q.stem = p.stem /\ q.disc = p.disc /\ q.ext = p.ext /\ p # q
    BY <1>1, <1>2 DEF Paths
  <2> HIDE DEF q
  <2>2. /\ Moves(disk, disk', p, q) /\ Files' = (Files \ {p}) \cup {q}
        /\ \A r \in Files' : /\ r # q => r \in Files /\ (~FineFile(r)' => ~FineFile(r))
                             /\ r = q => (~FineFile(r)' => ~FineFile(p))
    BY <1>1, <1>5, MovedMoves
  <2>3. Fine(Came, disk[p]) /\ DiskInv(Came, conf, disk)
    BY <1>1, <1>2 DEF Good, DiskInv, CutInv, OutDir, Files, Local
  <2>4. DiskInv(Came', conf', disk')
    BY <2>1, <2>2, <2>3, MoveKeeps
  <2>5. FineInv'
    <3>1. ~conf.check => \A r \in Local : FineFile(r)
      BY <1>1 DEF Good, FineInv
    <3>2. (~conf.check => \A r \in Local : FineFile(r))'
      BY <1>1, <2>2, <3>1 DEF Local
    <3> QED
      BY <1>1, <3>2 DEF FineInv, At, Transcoding
  <2>6. SourceInv'
    <3> SUFFICES ASSUME NEW r \in Files', r.dir = "out", ~FineFile(r)'
                 PROVE  \E f \in Local' : Source(r, f)'
      BY <1>1 DEF SourceInv, Transcoding
    <3>1. r # q /\ r \in Files /\ ~FineFile(r)
      BY <2>1, <2>2
    <3>2. PICK f \in Local : Source(r, f)
      BY <3>1 DEF Good, SourceInv
    <3>3. CASE f = p
      <4>1. q \in Local'
        BY <2>1, <2>2 DEF Local
      <4>2. Source(r, q)'
        BY <2>1, <3>2, <3>3 DEF Source, NewPath, NewDir, IsPart, HasDisc
      <4> QED
        BY <4>1, <4>2
    <3>4. CASE f # p
      <4>1. f \in Local'
        BY <2>2, <3>2, <3>4 DEF Local
      <4>2. Source(r, f)'
        BY <3>2 DEF Source, NewPath, NewDir
      <4> QED
        BY <4>1, <4>2
    <3> QED
      BY <3>3, <3>4
  <2> QED
    BY <1>3, <2>4, <2>5, <2>6 DEF Good
<1> QED
  BY <1>4, <1>5 DEF Flatten

\* CheckKept: only good videos are transcoded or handed over; what is deleted is no
\* longer spoken of.
LEMMA CheckKept ==
    ASSUME TypeInv, Good, Came' = Came, conf' = conf, Live',
           NEW agent, NEW status, Check(agent, status)
    PROVE  Good'
<1>1. CASE CheckEmpty(agent)
  <2>1. disk' = disk /\ run'.pc = "idle"
    BY <1>1, IdleTyped DEF CheckEmpty
  <2> QED
    BY <2>1, EndGood
<1>2. CASE CheckBad(status)
  <2>1. history'.deleted = (history.deleted \/ conf.deleteFailed)
    BY <1>2 DEF CheckBad, TypeInv, HistoryType
  <2>2. disk' = disk
    BY <1>2, <2>1 DEF CheckBad, Live, Undisturbed
  <2>3. run'.pc = "idle"
    BY <1>2, IdleTyped DEF CheckBad, RunType
  <2> QED
    BY <2>2, <2>3, EndGood
<1>3. CASE CheckGood(status)
  <2>1. disk' = disk /\ run.pc = "check"
        /\ run'.pc = (IF conf.transcode THEN "list" ELSE "tag")
    BY <1>3 DEF CheckGood, Check, Goto, At, TypeInv, RunType
  <2>2. NameInv' /\ WorkInv'
    BY <2>1 DEF NameInv, At, WorkInv, Transcoding
  <2>3. \A p \in Local : FineFile(p)
    <3>1. CASE conf.check
      BY <1>3, <3>1 DEF CheckGood, IsVideoGood, Probed, FineFile, Fine
    <3>2. CASE ~conf.check
      BY <2>1, <3>2 DEF Good, FineInv
    <3> QED
      BY <3>1, <3>2
  <2>4. ~conf.transcode => \A p \in Files : FineFile(p)
    BY DEF Good, DiskInv, CutInv, Files, FineFile
  <2>5. FineInv'
    BY <2>1, <2>3, <2>4, SameDisk DEF FineInv, At, Transcoding
  <2>6. SourceInv'
    BY <2>1, SameDisk DEF SourceInv, Transcoding
  <2> QED
    BY <2>1, <2>2, <2>5, <2>6, SameDisk DEF Good
<1> QED
  BY <1>1, <1>2, <1>3 DEF Check

\* TaggedName: a tagged name is another name of the same video.
LEMMA TaggedName ==
    ASSUME NEW p \in Paths, NEW q, q = [p EXCEPT !.stem = Append(@, "cp")]
    PROVE  /\ q.dir = p.dir /\ q.disc = p.disc /\ q.ext = p.ext /\ p # q
           /\ Core(p.stem) = Core(q.stem)
<1>1. p.stem \in Seq(Words) /\ "cp" \in Words /\ "cp" \in Tails
  BY TranscoderAssumption DEF Paths, Added, Tails
<1>2. Core(Append(p.stem, "cp")) = Core(p.stem)
  BY <1>1, CoreTail
<1>3. Append(p.stem, "cp") # p.stem
  <2>1. \A s \in Seq(Words), w \in Words : Append(s, w) # s
    <3> SUFFICES ASSUME NEW s \in Seq(Words), NEW w \in Words, Append(s, w) = s PROVE FALSE
      OBVIOUS
    <3>1. Len(Append(s, w)) = Len(s) + 1 /\ Len(s) \in Nat
      OBVIOUS
    <3> QED
      BY <3>1
  <2> QED
    BY <1>1, <2>1
<1> QED
  BY <1>2, <1>3 DEF Paths

\* TagGood: nothing is cut off when films are tagged.
LEMMA TagGood ==
    ASSUME TypeInv, Good, Fits(Came, conf), Came' = Came, conf' = conf,
           NEW p \in Files, Tag(p)
    PROVE  Good'
<1> DEFINE q == [p EXCEPT !.stem = Append(@, "cp")]
<1>1. run.pc = "tag" /\ run' = run /\ disk' = Moved(p, q) /\ p \in Paths
  BY DEF Tag, At, TypeInv, DiskTyped, Named, Files
<1>2. /\ q.dir = p.dir /\ q.disc = p.disc /\ q.ext = p.ext /\ p # q
      /\ Core(p.stem) = Core(q.stem)
  BY <1>1, TaggedName
<1> HIDE DEF q
<1>3. /\ Moves(disk, disk', p, q) /\ Files' = (Files \ {p}) \cup {q}
      /\ \A r \in Files' : /\ r # q => r \in Files /\ (~FineFile(r)' => ~FineFile(r))
                           /\ r = q => (~FineFile(r)' => ~FineFile(p))
  BY <1>1, MovedMoves
<1>4. \A r \in Files : FineFile(r)
  BY <1>1 DEF Good, FineInv, At
<1>5. DiskInv(Came', conf', disk')
  BY <1>2, <1>3, <1>4, MoveKeeps DEF Good, FineFile
<1>6. (\A r \in Files : FineFile(r))'
  BY <1>3, <1>4
<1>7. NameInv' /\ WorkInv' /\ FineInv' /\ SourceInv'
  BY <1>1, <1>6 DEF NameInv, WorkInv, FineInv, SourceInv, Transcoding, At
<1> QED
  BY <1>5, <1>7 DEF Good

\* FileOfOne and FileOfDiscs: the file of an input.
LEMMA FileOfOne == ASSUME NEW f PROVE FileOf({f}) = f
BY DEF FileOf

LEMMA FileOfDiscs ==
    ASSUME NEW in, \E p \in in : p.disc = 1
    PROVE  FileOf(in) \in in /\ FileOf(in).disc = 1
<1>1. PICK p \in in : p.disc = 1
  OBVIOUS
<1>2. FileOf(in) \in in /\ (in = {FileOf(in)} \/ FileOf(in).disc = 1)
  BY <1>1 DEF FileOf
<1> QED
  BY <1>1, <1>2

\* DiscOnce: a disc of a video is one file.
LEMMA DiscOnce ==
    ASSUME NEW dl, NEW cf, NEW dk, Fits(dl, cf), DiskInv(dl, cf, dk),
           NEW p \in DOMAIN dk, IsPart(cf, p), NEW q \in DOMAIN dk, IsPart(cf, q),
           NEW d \in Origins(dl, dk[p].videos), NEW e \in Origins(dl, dk[q].videos),
           Together(cf, d, e), p.disc = q.disc
    PROVE  p = q
<1>1. NamesInv(dl, cf, dk)
  BY DEF DiskInv
<1>2. d.disc = p.disc /\ e.disc = q.disc /\ d \in DOMAIN dl /\ e \in DOMAIN dl
  BY <1>1, PartIsOne
<1>3. d = e
  BY <1>2, DiscIsOne
<1> QED
  BY <1>3 DEF DiskInv, PartsInv, OncePart

\* PartsTogether: discs under one name are of one video, and are transcoded.
LEMMA PartsTogether ==
    ASSUME NEW dl, NEW cf, NEW dk, Fits(dl, cf), DiskInv(dl, cf, dk),
           NEW p \in DOMAIN dk, IsPart(cf, p), NEW q \in DOMAIN dk, IsPart(cf, q)
    PROVE  /\ Origins(dl, dk[p].videos) # {} /\ p.ext \notin cf.ignore
           /\ p.stem = q.stem =>
                 \A d \in Origins(dl, dk[p].videos), e \in Origins(dl, dk[q].videos) :
                    Together(cf, d, e)
<1>1. NamesInv(dl, cf, dk) /\ Origins(dl, dk[p].videos) # {}
  BY DEF DiskInv, NamesInv, HoldsInv
<1>2. PICK d \in Origins(dl, dk[p].videos) : TRUE
  BY <1>1
<1>3. p.ext = d.ext /\ IsPart(cf, d) /\ d \in DOMAIN dl
  BY <1>1, PartIsOne
<1>4. p.ext \notin cf.ignore
  BY <1>3 DEF Fits
<1>5. ASSUME p.stem = q.stem PROVE Alike(cf, p, q)
  BY <1>5 DEF Alike, IsPart
<1> QED
  BY <1>1, <1>4, <1>5 DEF NamesInv, MeetInv

\* ListedDiscs: without a gap, what is joined are all discs of a video.
LEMMA ListedDiscs ==
    ASSUME TypeInv, Fits(Came, conf), DiskInv(Came, conf, disk),
           ~\E q \in Parts : Missing(Parts, q), NEW p \in Parts
    PROVE  /\ Joined(p) = {q \in Parts : SameVideo(p, q)} /\ p \in Joined(p)
           /\ Discs(Came, conf, disk, Joined(p)) /\ \E q \in Joined(p) : q.disc = 1
<1>1. \A q \in Files : q \in Parts <=> IsPart(conf, q)
  BY DEF Parts, IsPart, Local, DiskInv, PartsInv, Files
<1>2. Parts \subseteq Files /\ Parts \subseteq DOMAIN disk /\ \A q \in Parts : q \in Paths
  BY DEF Parts, Local, Files, TypeInv, DiskTyped, Named
<1>3. ASSUME NEW q \in Parts, NEW r \in Parts, SameVideo(p, q), SameVideo(p, r), q.disc = r.disc
      PROVE  q = r
  <2>1. IsPart(conf, q) /\ IsPart(conf, r) /\ q.stem = r.stem
        /\ q \in DOMAIN disk /\ r \in DOMAIN disk
    BY <1>1, <1>2, <1>3 DEF SameVideo
  <2>2. PICK d \in Origins(Came, disk[q].videos), e \in Origins(Came, disk[r].videos) :
            Together(conf, d, e)
    BY <2>1, PartsTogether
  <2> QED
    BY <1>3, <2>1, <2>2, DiscOnce
<1>4. ASSUME NEW q \in Parts, SameVideo(p, q)
      PROVE  Listed(p, q.disc) = q
  <2>1. Listed(p, q.disc) \in Parts /\ SameVideo(p, Listed(p, q.disc))
        /\ Listed(p, q.disc).disc = q.disc
    <3> HIDE DEF SameVideo
    <3> QED
      BY <1>4 DEF Listed
  <2> QED
    BY <1>3, <1>4, <2>1
<1>5. Joined(p) = {q \in Parts : SameVideo(p, q)}
  BY <1>4 DEF Joined
<1>6. p \in Joined(p)
  BY <1>5 DEF SameVideo
<1>7. ASSUME NEW r \in Parts
      PROVE  \E f \in Parts : f.disc = 1 /\ SameVideo(r, f)
  <2>1. r.disc \in Nat /\ r.disc # 0
    BY <1>2 DEF Parts, HasDisc, Paths
  <2>2. 1 \in 1..r.disc
    BY <2>1
  <2>3. ~Missing(Parts, r)
    OBVIOUS
  <2> QED
    BY <2>2, <2>3 DEF Missing
<1>8. PICK f \in Parts : f.disc = 1 /\ SameVideo(p, f)
  BY <1>7
<1>9. PICK c \in Origins(Came, disk[f].videos) : TRUE
  BY <1>1, <1>2, PartsTogether
<1>10. ASSUME NEW q \in Joined(p), NEW d \in Origins(Came, disk[q].videos),
              NEW e \in DOMAIN Came, Together(conf, d, e)
       PROVE  \E r \in Joined(p) : e \in Origins(Came, disk[r].videos)
  <2>1. IsPart(conf, q) /\ IsPart(conf, f) /\ q.stem = f.stem /\ q \in DOMAIN disk
        /\ f \in DOMAIN disk
    BY <1>1, <1>2, <1>5, <1>8, <1>10 DEF SameVideo
  <2>2. Together(conf, c, d)
    BY <1>9, <1>10, <2>1, PartsTogether
  <2>3. Together(conf, c, e) /\ c \in DOMAIN Came
    BY <1>9, <1>10, <2>2, TogetherBasics DEF Origins
  <2>4. PICK r \in DOMAIN disk : IsPart(conf, r) /\ e \in Origins(Came, disk[r].videos)
    BY <1>8, <1>9, <2>1, <2>3 DEF DiskInv, PartsInv, FirstPart
  <2>5. r \in Parts
    BY <1>1, <2>4 DEF Files
  <2>6. PICK g \in Parts : g.disc = 1 /\ SameVideo(r, g)
    BY <1>7, <2>5
  <2>7. IsPart(conf, g) /\ g \in DOMAIN disk /\ r.stem = g.stem
    BY <1>1, <1>2, <2>6 DEF SameVideo
  <2>8. PICK b \in Origins(Came, disk[g].videos) : Together(conf, e, b)
    BY <2>4, <2>7, PartsTogether
  <2>9. Together(conf, c, b)
    BY <2>3, <2>8, TogetherBasics
  <2>10. f = g
    BY <1>8, <1>9, <2>1, <2>6, <2>7, <2>8, <2>9, DiscOnce
  <2>11. SameVideo(p, r)
    BY <1>8, <2>6, <2>10 DEF SameVideo
  <2> QED
    BY <1>5, <2>4, <2>5, <2>11
<1>11. Discs(Came, conf, disk, Joined(p))
  <2>1. Joined(p) \subseteq DOMAIN disk /\ \A q \in Joined(p) : IsPart(conf, q)
    BY <1>1, <1>2, <1>5
  <2>2. \A q, r \in Joined(p) : q.stem = r.stem
    BY <1>5 DEF SameVideo
  <2> QED
    BY <1>10, <2>1, <2>2 DEF Discs
<1>12. \E q \in Joined(p) : q.disc = 1
  BY <1>5, <1>8
<1> QED
  BY <1>5, <1>6, <1>11, <1>12

\* No suffix is left from an attempt before.
FreshInv == run.pc \in {"rename", "flatten", "check", "list"} => run.suffix = <<>>

LEMMA FreshKept ==
    ASSUME TypeInv, FreshInv, [Next]_vars
    PROVE  FreshInv'
<1>1. run \in RunType
  BY DEF TypeInv
<1>2. CASE UNCHANGED run
  BY <1>2 DEF FreshInv
<1>3. CASE Begin
  <2> DEFINE todo == {p \in Local : IsGarbage(p)}
  <2>1. run' = [Idle EXCEPT !.pc = "rename", !.todo = todo]
    BY <1>3 DEF Begin
  <2> HIDE DEF todo
  <2>2. run'.suffix = <<>>
    BY <2>1 DEF Idle
  <2> QED
    BY <2>2 DEF FreshInv
<1>4. CASE (\E p \in run.todo : Rename(p) \/ Flatten(p)) \/ Renamed \/ Flattened
  <2>1. run.pc \in {"rename", "flatten"} /\ run'.suffix = run.suffix
    BY <1>1, <1>4 DEF Rename, Flatten, Renamed, Flattened, At, Goto, RunType
  <2> QED
    BY <2>1 DEF FreshInv
<1>5. CASE \E agent \in {"client", "manual"}, status \in {0, 1} : Check(agent, status)
  <2>1. PICK agent \in {"client", "manual"}, status \in {0, 1} : Check(agent, status)
    BY <1>5
  <2>2. run' = Idle \/ run' = [Idle EXCEPT !.status = status]
        \/ \E pc : run' = [run EXCEPT !.pc = pc]
    BY <2>1 DEF Check, CheckEmpty, CheckGood, CheckBad, Goto
  <2>3. run.pc = "check"
    BY <2>1 DEF Check, At
  <2>4. run'.suffix \in {run.suffix, <<>>}
    BY <1>1, <2>2 DEF Idle, RunType
  <2> QED
    BY <2>3, <2>4 DEF FreshInv
<1>6. CASE List \/ (\E in \in run.inputs : Pick(in)) \/ Encode \/ Unlink
  <2>1. run'.pc \in {"pick", "encode", "unlink"}
    BY <1>1, <1>6 DEF List, Pick, Encode, Unlink, Goto, At, RunType
  <2> QED
    BY <2>1 DEF FreshInv
<1>7. CASE Transcoded \/ HandOver \/ Crash
  <2>1. run' = Idle \/ run' = [run EXCEPT !.pc = "idle"]
        \/ run' = [Idle EXCEPT !.pc = "tag", !.dir = HandedDir]
    BY <1>7 DEF Transcoded, HandOver, Crash, Goto
  <2>2. run'.pc \in {"idle", "tag"}
    BY <1>1, <2>1, IdleTyped DEF RunType
  <2> QED
    BY <2>2 DEF FreshInv
<1> QED
  BY <1>2, <1>3, <1>4, <1>5, <1>6, <1>7 DEF Next, vars, UnlinkPart, Tag

\* ListInputs: what is listed are files that are no discs, and whole videos of discs.
LEMMA ListInputs ==
    ASSUME TypeInv, FreshInv, Good, Fits(Came, conf), Came' = Came, conf' = conf, Live', List,
           NEW inputs, inputs = {{p} : p \in Local \ Parts} \cup {Joined(p) : p \in Parts}
    PROVE  /\ DiskInv(Came, conf, disk) /\ run.pc = "list" /\ disk' = disk
           /\ \A p \in Parts :
                  /\ Joined(p) = {q \in Parts : SameVideo(p, q)} /\ p \in Joined(p)
                  /\ Discs(Came, conf, disk, Joined(p)) /\ \E q \in Joined(p) : q.disc = 1
           /\ \A q \in Files : q \in Parts <=> IsPart(conf, q)
           /\ Parts \subseteq Files /\ Local \subseteq Files /\ Parts \subseteq Local
           /\ run'.inputs = inputs /\ run'.rem_list = Parts /\ run'.pc = "pick"
           /\ run'.suffix = <<>> /\ run'.failed = run.failed
<1>1. ~\E p \in Parts : Missing(Parts, p)
  <2>1. (\E p \in Parts : Missing(Parts, p)) => history'.left = history.left \cup {"disc"}
    BY DEF List, TypeInv, HistoryType
  <2> QED
    BY <2>1 DEF Live
<1>2. DiskInv(Came, conf, disk) /\ run.pc = "list" /\ disk' = disk
  BY DEF Good, List, At
<1>3. \A p \in Parts : /\ Joined(p) = {q \in Parts : SameVideo(p, q)} /\ p \in Joined(p)
                       /\ Discs(Came, conf, disk, Joined(p)) /\ \E q \in Joined(p) : q.disc = 1
  BY <1>1, <1>2, ListedDiscs
<1>4. /\ \A q \in Files : q \in Parts <=> IsPart(conf, q)
      /\ Parts \subseteq Files /\ Local \subseteq Files /\ Parts \subseteq Local
  BY <1>2 DEF Parts, IsPart, Local, DiskInv, PartsInv, Files
<1>5. run'.inputs = inputs /\ run'.rem_list = Parts /\ run'.pc = "pick" /\ run'.suffix = <<>>
      /\ run'.failed = run.failed
  <2>1. NewList = {Joined(p) : p \in Parts}
    BY <1>3 DEF NewList
  <2>2. inputs = IF NewList = {} THEN {{p} : p \in Local}
                 ELSE {{p} : p \in Local \ Parts} \cup NewList
    BY <2>1
  <2>3. run' = [run EXCEPT !.pc = "pick", !.rem_list = Parts, !.inputs = inputs]
    BY <2>2 DEF List
  <2>4. run.suffix = <<>>
    BY <1>2 DEF FreshInv
  <2> QED
    BY <2>3, <2>4 DEF TypeInv, RunType
<1> QED
  BY <1>2, <1>3, <1>4, <1>5

\* ListGood: what is listed are files and whole videos of discs.
LEMMA ListGood ==
    ASSUME TypeInv, FreshInv, Good, Fits(Came, conf), Came' = Came, conf' = conf, Live', List
    PROVE  Good'
<1> DEFINE inputs == {{p} : p \in Local \ Parts} \cup {Joined(p) : p \in Parts}
<1>1. DiskInv(Came, conf, disk) /\ run.pc = "list" /\ disk' = disk
  BY ListInputs
<1>2. \A p \in Parts : /\ Joined(p) = {q \in Parts : SameVideo(p, q)} /\ p \in Joined(p)
                       /\ Discs(Came, conf, disk, Joined(p)) /\ \E q \in Joined(p) : q.disc = 1
  BY ListInputs
<1>3. /\ \A q \in Files : q \in Parts <=> IsPart(conf, q)
      /\ Parts \subseteq Files /\ Local \subseteq Files /\ Parts \subseteq Local
  BY ListInputs
<1>4. run'.inputs = inputs /\ run'.rem_list = Parts /\ run'.pc = "pick" /\ run'.suffix = <<>>
      /\ run'.failed = run.failed
  BY ListInputs
<1> HIDE DEF Parts, inputs
<1>5. /\ \A p \in Local \ Parts : {p} \in inputs
      /\ \A p \in Parts : Joined(p) \in inputs
      /\ \A in \in inputs : (\E p \in Local \ Parts : in = {p}) \/ (\E p \in Parts : in = Joined(p))
  BY DEF inputs
<1>6. NameInv'
  BY <1>4 DEF NameInv, At
<1>7. \A p \in Local : FineFile(p)
  BY <1>1 DEF Good, FineInv, At
<1>8. FineInv'
  <2>1. conf.transcode
    BY <1>1 DEF Good, FineInv, At
  <2> QED
    BY <1>1, <1>4, <1>7, <2>1, SameDisk DEF FineInv, At, Transcoding
<1>9. InputInv'
  <2>1. (\A in \in run.inputs : Single(in) \/ AllDiscs(in))'
    <3> SUFFICES ASSUME NEW in \in inputs PROVE (Single(in) \/ AllDiscs(in))'
      BY <1>4
    <3>1. CASE \E p \in Local \ Parts : in = {p}
      BY <1>1, <1>3, <3>1 DEF Single, Local, Files
    <3>2. CASE \E p \in Parts : in = Joined(p)
      <4>1. in \subseteq Parts /\ Discs(Came, conf, disk, in) /\ \E q \in in : q.disc = 1
        BY <1>2, <3>2
      <4> QED
        BY <1>1, <1>4, <4>1 DEF AllDiscs
    <3> QED
      BY <1>5, <3>1, <3>2
  <2>2. (\A p \in run.rem_list : IsPart(conf, p))'
    BY <1>3, <1>4
  <2>3. (\A p \in Files : IsPart(conf, p) => p \in run.rem_list)'
    BY <1>1, <1>3, <1>4 DEF Files
  <2> QED
    BY <1>4, <2>1, <2>2, <2>3 DEF InputInv
<1>10. BackedInv'
  <2> SUFFICES ASSUME NEW in \in inputs, Single(in)' PROVE Backed(FileOf(in))'
    BY <1>4 DEF BackedInv
  <2>1. PICK f : in = {f} /\ ~IsPart(conf, f)
    BY DEF Single
  <2>2. f \in Local
    BY <1>2, <1>3, <1>5, <2>1
  <2>3. FileOf(in) = f /\ f \in Files' /\ Fine(Came', disk'[f])
    BY <1>1, <1>3, <1>7, <2>1, <2>2, FileOfOne DEF Files, FineFile
  <2> QED
    BY <2>1, <2>3, AlikeBasics DEF Backed, Backs, FineFile
<1>11. CurInv'
  BY <1>4 DEF CurInv, At
<1>12. DoneInv'
  BY <1>2, <1>4, <1>5 DEF DoneInv, Working
<1>13. SourceInv'
  <2>1. (\A p \in Files : p.dir = "out" /\ ~FineFile(p) => \E f \in Local : Source(p, f))'
    BY <1>1, SameDisk
  <2>2. ASSUME NEW p, NEW f \in Local, Source(p, f)
        PROVE  (\E in \in Pending : ~Ignored(in) /\ p = NewPath(FileOf(in), <<>>))'
    <3>1. CASE f \notin Parts
      <4>1. {f} \in inputs /\ FileOf({f}) = f
        BY <1>5, <3>1, FileOfOne
      <4>2. ~Ignored({f})' /\ (p = NewPath(FileOf({f}), <<>>))'
        BY <2>2, <4>1 DEF Ignored, Source, NewPath, NewDir
      <4> QED
        BY <1>4, <4>1, <4>2 DEF Pending, At
    <3>2. CASE f \in Parts
      <4>1. f.disc = 1
        BY <1>3, <2>2, <3>2 DEF Source
      <4>2. FileOf(Joined(f)) \in Joined(f) /\ FileOf(Joined(f)).disc = 1
        BY <1>2, <3>2, FileOfDiscs
      <4>3. FileOf(Joined(f)) \in Parts /\ SameVideo(f, FileOf(Joined(f)))
        BY <1>2, <3>2, <4>2
      <4>4. FileOf(Joined(f)) = f
        <5> DEFINE g == FileOf(Joined(f))
        <5> HIDE DEF g
        <5>1. IsPart(conf, f) /\ IsPart(conf, g) /\ f \in DOMAIN disk /\ g \in DOMAIN disk
              /\ f.stem = g.stem
          BY <1>3, <3>2, <4>3 DEF Files, SameVideo, g
        <5>2. PICK d \in Origins(Came, disk[f].videos), e \in Origins(Came, disk[g].videos) :
                  Together(conf, d, e)
          BY <1>1, <5>1, PartsTogether
        <5>3. f = g
          BY <1>1, <4>1, <4>2, <5>1, <5>2, DiscOnce DEF g
        <5> QED
          BY <5>3 DEF g
      <4>5. PICK in : in = Joined(f)
        OBVIOUS
      <4>6. ~Ignored(in)'
        <5> SUFFICES ASSUME NEW q \in in PROVE q.ext \notin conf.ignore
          BY DEF Ignored
        <5>1. q \in DOMAIN disk /\ IsPart(conf, q)
          BY <1>2, <1>3, <3>2, <4>5 DEF Files
        <5> QED
          BY <1>1, <5>1, PartsTogether
      <4>7. (p = NewPath(FileOf(in), <<>>))'
        BY <2>2, <4>4, <4>5 DEF Source, NewPath, NewDir
      <4>8. in \in Pending'
        BY <1>4, <1>5, <3>2, <4>5 DEF Pending
      <4> QED
        BY <4>6, <4>7, <4>8
    <3> QED
      BY <3>1, <3>2
  <2>3. \A p \in Files : p.dir = "out" /\ ~FineFile(p) => \E f \in Local : Source(p, f)
    BY DEF Good, SourceInv
  <2>4. \A p \in Files' : ~FineFile(p)' => p \in Files /\ ~FineFile(p)
    BY <1>1 DEF Files, FineFile
  <2> QED
    BY <2>1, <2>2, <2>3, <2>4 DEF SourceInv
<1> QED
  BY <1>1, <1>6, <1>8, <1>9, <1>10, <1>11, <1>12, <1>13, SameDisk DEF Good, WorkInv

-----------------------------------------------------------------------------
(* Transcoding.                                                            *)

\* RemoveCovered: a file that is not a disc can go if others hold its videos.
LEMMA RemoveCovered ==
    ASSUME NEW dl, NEW cf, NEW dk, NEW dk2, NEW q, Removes(dk, dk2, {q}), DiskInv(dl, cf, dk),
           ~IsPart(cf, q),
           q \in DOMAIN dk => \A d \in Origins(dl, dk[q].videos) : dl[d].whole =>
               \E p \in DOMAIN dk \ {q} : d \in Origins(dl, dk[p].videos) /\ dk[p].whole
    PROVE  DiskInv(dl, cf, dk2)
<1>1. /\ \A r \in DOMAIN dk2 : r \in DOMAIN dk /\ dk2[r] = dk[r]
      /\ \A r \in DOMAIN dk : r # q => r \in DOMAIN dk2 /\ dk2[r] = dk[r]
  BY DEF Removes
<1>2. FirstPart(dl, cf, dk2)
  BY <1>1 DEF DiskInv, PartsInv, FirstPart
<1>3. SurviveInv(dl, dk2)
  <2> SUFFICES ASSUME NEW d \in DOMAIN dl, dl[d].whole
               PROVE  \E p \in DOMAIN dk2 : d \in Origins(dl, dk2[p].videos) /\ dk2[p].whole
    BY DEF SurviveInv
  <2>1. PICK p \in DOMAIN dk : d \in Origins(dl, dk[p].videos) /\ dk[p].whole
    BY DEF DiskInv, SurviveInv
  <2>2. CASE p # q
    BY <1>1, <2>1, <2>2
  <2>3. CASE p = q
    <3>1. PICK r \in DOMAIN dk \ {q} : d \in Origins(dl, dk[r].videos) /\ dk[r].whole
      BY <2>1, <2>3
    <3> QED
      BY <1>1, <3>1
  <2> QED
    BY <2>2, <2>3
<1> QED
  BY <1>2, <1>3, RemoveKeeps

\* AlikeCovers: a fine file that can meet another holds its videos.
LEMMA AlikeCovers ==
    ASSUME NEW dl, NEW cf, NEW dk, Fits(dl, cf), DiskInv(dl, cf, dk),
           NEW g \in DOMAIN dk, ~IsPart(cf, g), Fine(dl, dk[g]),
           NEW q \in DOMAIN dk, Alike(cf, g, q), NEW d \in Origins(dl, dk[q].videos), dl[d].whole
    PROVE  d \in Origins(dl, dk[g].videos) /\ dk[g].whole
<1>1. NamesInv(dl, cf, dk)
  BY DEF DiskInv
<1>2. d \in Origins(dl, dk[g].videos)
  BY <1>1, MeetHolds
<1> QED
  BY <1>2 DEF Fine

\* DiscsCover: all discs of a video hold what any file that can meet one holds.
LEMMA DiscsCover ==
    ASSUME NEW dl, NEW cf, NEW dk, DiskInv(dl, cf, dk), NEW in, Discs(dl, cf, dk, in),
           NEW f \in in, NEW q \in DOMAIN dk, Alike(cf, q, f), NEW d \in Origins(dl, dk[q].videos)
    PROVE  \E r \in in : r \in DOMAIN dk /\ d \in Origins(dl, dk[r].videos) /\ dk[r].whole
<1>1. f \in DOMAIN dk
  BY DEF Discs
<1>2. PICK e \in Origins(dl, dk[f].videos) : TRUE
  BY <1>1 DEF DiskInv, NamesInv, HoldsInv
<1>3. Together(cf, d, e) /\ d \in DOMAIN dl
  BY <1>1, <1>2 DEF DiskInv, NamesInv, MeetInv, Origins
<1>4. Together(cf, e, d)
  BY <1>3, TogetherBasics
<1>5. PICK r \in in : d \in Origins(dl, dk[r].videos)
  BY <1>2, <1>3, <1>4 DEF Discs
<1>6. r \in DOMAIN dk /\ IsPart(cf, r)
  BY DEF Discs
<1> QED
  BY <1>5, <1>6 DEF DiskInv, PartsInv

\* DiscsKept: discs that stay are still all discs.
LEMMA DiscsKept ==
    ASSUME NEW dl, NEW cf, NEW dk, NEW dk2, NEW in, Discs(dl, cf, dk, in),
           \A p \in in : p \in DOMAIN dk2 /\ dk2[p] = dk[p]
    PROVE  Discs(dl, cf, dk2, in)
BY DEF Discs

\* NewPathAlike: the new file can meet the one it is made of.
LEMMA NewPathAlike ==
    ASSUME NEW f \in Paths, NEW suffix \in {<<>>, <<"transcoded">>}, NEW q, q = NewPath(f, suffix)
    PROVE  /\ Core(q.stem) = Core(f.stem) /\ Alike(conf, q, f) /\ Alike(conf, f, q)
           /\ ~IsPart(conf, q) /\ Target(q) /\ q.dir = OutDir(conf)
           /\ (~IsPart(conf, f) => q.disc = f.disc) /\ (conf.concat => q.disc = 0)
           /\ Len(q.stem) \in Nat /\ Len(f.stem) \in Nat /\ Len(f.stem) <= Len(q.stem)
           /\ suffix = <<"transcoded">> => Len(f.stem) < Len(q.stem)
<1>1. /\ q.dir = NewDir /\ q.stem = f.stem \o suffix /\ q.ext = VEXTENSION
      /\ q.disc = IF conf.concat THEN 0 ELSE f.disc
  BY DEF NewPath
<1>2. f.stem \in Seq(Words)
  BY DEF Paths
<1>3. /\ Core(q.stem) = Core(f.stem) /\ Len(q.stem) = Len(f.stem) + Len(suffix)
      /\ Len(suffix) \in {0, 1} /\ (suffix = <<"transcoded">> => Len(suffix) = 1)
  BY <1>1, <1>2, CoreMore
<1>4. Len(f.stem) \in Nat
  BY <1>2
<1>5. Len(q.stem) \in Nat /\ Len(f.stem) <= Len(q.stem)
      /\ (suffix = <<"transcoded">> => Len(f.stem) < Len(q.stem))
  <2>1. \A m \in Nat, k \in {0, 1} : m + k \in Nat /\ m <= m + k /\ (k = 1 => m < m + k)
    OBVIOUS
  <2> QED
    BY <1>3, <1>4, <2>1
<1>6. Alike(conf, q, f) /\ Alike(conf, f, q) /\ ~IsPart(conf, q) /\ Target(q)
      /\ (~IsPart(conf, f) => q.disc = f.disc) /\ (conf.concat => q.disc = 0)
  BY <1>1, <1>3 DEF Alike, IsPart, HasDisc, Target
<1>7. q.dir = OutDir(conf)
  BY <1>1 DEF NewDir, OutDir
<1> QED
  BY <1>3, <1>4, <1>5, <1>6, <1>7

\* NewPathOther: the new file is not the one it is made of, nor a shorter one.
LEMMA NewPathOther ==
    ASSUME NEW f \in Paths, run.suffix \in {<<>>, <<"transcoded">>},
           NEW q, q = NewPath(f, Suffix(f))
    PROVE  /\ Suffix(f) \in {<<>>, <<"transcoded">>}
           /\ q # f /\ (Target(f) => Len(f.stem) < Len(q.stem))
<1>1. Suffix(f) \in {<<>>, <<"transcoded">>} /\ (Target(f) => Suffix(f) = <<"transcoded">>)
  BY DEF Suffix, Target
<1>2. /\ Target(q) /\ Len(f.stem) \in Nat /\ Len(q.stem) \in Nat
      /\ Suffix(f) = <<"transcoded">> => Len(f.stem) < Len(q.stem)
  BY <1>1, NewPathAlike
<1>3. Target(f) => Len(f.stem) < Len(q.stem)
  BY <1>1, <1>2
<1>4. q # f
  <2>1. CASE Target(f)
    <3>1. Len(f.stem) # Len(q.stem)
      BY <1>2, <1>3, <2>1
    <3> QED
      BY <3>1
  <2>2. CASE ~Target(f)
    BY <1>2, <2>2
  <2> QED
    BY <2>1, <2>2
<1> QED
  BY <1>1, <1>3, <1>4

\* JoinsToDo: while all discs of a video are there, there is something to join.
LEMMA JoinsToDo ==
    ASSUME TypeInv, DiskInv(Came, conf, disk), NEW in, AllDiscs(in)
    PROVE  NewList # {}
<1>1. PICK p \in in : p.disc = 1
  BY DEF AllDiscs
<1>2. p \in Parts
  BY DEF AllDiscs, Discs, DiskInv, PartsInv, Parts, IsPart, Local, Files
<1> DEFINE r == Listed(p, 1)
<1>3. r \in Parts /\ SameVideo(p, r) /\ r.disc = 1
  <2>1. SameVideo(p, p)
    BY DEF SameVideo
  <2> HIDE DEF SameVideo
  <2> QED
    BY <1>1, <1>2, <2>1 DEF Listed
<1>4. r = Listed(p, r.disc)
  BY <1>3
<1> HIDE DEF r
<1>5. ~Missing(Parts, r)
  <2>1. \A n \in 1..r.disc : n = r.disc /\ SameVideo(r, r)
    BY <1>3 DEF SameVideo
  <2> QED
    BY <1>3, <2>1 DEF Missing
<1>6. r \in Joined(p)
  BY <1>3, <1>4, <1>5 DEF Joined
<1> QED
  BY <1>2, <1>6 DEF NewList

\* InputFile: the file of an input, by what the input is.
LEMMA InputFile ==
    ASSUME TypeInv, InputInv, DiskInv(Came, conf, disk), NEW in
    PROVE  /\ Single(in) => /\ in = {FileOf(in)} /\ ~IsPart(conf, FileOf(in))
                            /\ FileOf(in).dir # "out" /\ ~(in \subseteq run.rem_list)
                            /\ conf.out => FileOf(in) \in Files
           /\ AllDiscs(in) => /\ FileOf(in) \in in /\ FileOf(in).disc = 1 /\ FileOf(in) \in Files
                              /\ IsPart(conf, FileOf(in)) /\ FileOf(in).dir # "out"
<1>1. ASSUME Single(in)
      PROVE  /\ in = {FileOf(in)} /\ ~IsPart(conf, FileOf(in))
             /\ FileOf(in).dir # "out" /\ ~(in \subseteq run.rem_list)
             /\ conf.out => FileOf(in) \in Files
  <2>1. PICK f \in in : in = {f} /\ ~IsPart(conf, f) /\ f.dir # "out" /\ (conf.out => f \in Files)
    BY <1>1 DEF Single
  <2>2. FileOf(in) = f
    BY <2>1, FileOfOne
  <2> QED
    BY <2>1, <2>2 DEF InputInv
<1>2. ASSUME AllDiscs(in)
      PROVE  /\ FileOf(in) \in in /\ FileOf(in).disc = 1 /\ FileOf(in) \in Files
             /\ IsPart(conf, FileOf(in)) /\ FileOf(in).dir # "out"
  <2>1. FileOf(in) \in in /\ FileOf(in).disc = 1
    BY <1>2, FileOfDiscs DEF AllDiscs
  <2> QED
    BY <1>2, <2>1 DEF AllDiscs, Discs, DiskInv, PartsInv, Files
<1> QED
  BY <1>1, <1>2

\* IgnoredGood: a file of an ignored extension stays as it is.
LEMMA IgnoredGood ==
    ASSUME TypeInv, Good, Fits(Came, conf), Came' = Came, conf' = conf,
           NEW in \in run.inputs, Pick(in), Ignored(in)
    PROVE  Good'
<1>1. /\ run.pc = "pick" /\ run'.pc = "pick" /\ run'.inputs = run.inputs \ {in}
      /\ disk' = disk /\ run'.failed = run.failed /\ run'.rem_list = run.rem_list
      /\ run'.suffix = run.suffix
  BY DEF Pick, At, TypeInv, RunType
<1>2. InputInv /\ BackedInv /\ CurInv /\ DoneInv /\ DiskInv(Came, conf, disk)
  BY <1>1 DEF Good, WorkInv, Transcoding
<1>3. NameInv' /\ CurInv'
  BY <1>1 DEF NameInv, CurInv, At
<1>4. FineInv'
  BY <1>1, SameDisk DEF Good, FineInv, At, Transcoding
<1>5. InputInv'
  <2>1. \A i : (Single(i) => Single(i)') /\ (AllDiscs(i) => AllDiscs(i)')
    BY <1>1 DEF Single, AllDiscs, Files
  <2> QED
    BY <1>1, <1>2, <2>1 DEF InputInv, Files
<1>6. BackedInv'
  <2> SUFFICES ASSUME NEW i \in run.inputs \ {in}, Single(i)' PROVE Backed(FileOf(i))'
    BY <1>1 DEF BackedInv
  <2>1. Backed(FileOf(i))
    BY <1>1, <1>2 DEF BackedInv, Single, Files, Replaced, At
  <2> QED
    BY <1>1, <2>1 DEF Backed, Backs, Files, FineFile, Target, NewDir, Working
<1>7. Single(in)
  <2>1. ~AllDiscs(in)
    <3> SUFFICES ASSUME AllDiscs(in) PROVE FALSE
      OBVIOUS
    <3>1. PICK p \in in : p.ext \in conf.ignore
      BY DEF Ignored
    <3>2. p \in DOMAIN disk /\ IsPart(conf, p)
      BY DEF AllDiscs, Discs
    <3> QED
      BY <1>2, <3>1, <3>2, PartsTogether
  <2> QED
    BY <1>2, <2>1 DEF InputInv
<1>8. DoneInv'
  <2> SUFFICES ASSUME ~run.failed, NEW p \in run.rem_list \cap Files
               PROVE  (\E i \in Working' : p \in i) \/ DiscDone(p)'
    BY <1>1 DEF DoneInv, Files
  <2>1. p \notin in
    BY <1>2, <1>7 DEF Single, InputInv
  <2>2. (\E i \in run.inputs : p \in i) \/ DiscDone(p)
    BY <1>1, <1>2 DEF DoneInv, Working
  <2>3. DiscDone(p) => DiscDone(p)'
    BY <1>1 DEF DiscDone, OnlyDiscsLeft, Files
  <2> QED
    BY <1>1, <2>1, <2>2, <2>3 DEF Working
<1>9. SourceInv'
  <2>1. (\A p \in Files : p.dir = "out" /\ ~FineFile(p) => \E f \in Local : Source(p, f))'
    BY <1>1, SameDisk
  <2> SUFFICES ASSUME NEW p \in Files, p.dir = "out", ~FineFile(p), ~run.failed
               PROVE  (\E i \in Pending : ~Ignored(i) /\ p = NewPath(FileOf(i), <<>>))'
    BY <1>1, <2>1 DEF SourceInv, Files, FineFile
  <2>2. PICK i \in run.inputs : ~Ignored(i) /\ p = NewPath(FileOf(i), <<>>)
    BY <1>1 DEF Good, SourceInv, Transcoding, Pending, At
  <2>3. i \in Pending'
    BY <1>1, <2>2 DEF Pending
  <2> QED
    BY <2>2, <2>3 DEF Ignored, NewPath, NewDir
<1> QED
  BY <1>1, <1>3, <1>4, <1>5, <1>6, <1>8, <1>9, SameDisk DEF Good, WorkInv

\* PickDisk: what the new file replaces is held by the input, or by what backs it.
LEMMA PickDisk ==
    ASSUME TypeInv, Good, Fits(Came, conf), InputInv, Came' = Came, conf' = conf,
           NEW in \in run.inputs, NEW q, q = NewPath(FileOf(in), Suffix(FileOf(in))),
           Single(in) => Backed(FileOf(in)),
           Files' = Files \ {q}, \A r \in Files' : disk'[r] = disk[r]
    PROVE  /\ DiskInv(Came', conf', disk')
           /\ Single(in) => \E g \in Files' : Backs(g, FileOf(in))
<1> DEFINE f == FileOf(in)
<1>1. f \in Paths /\ IsInput(in)
  BY FileOfInput DEF TypeInv
<1>2. run.suffix \in {<<>>, <<"transcoded">>}
  BY DEF InputInv
<1>3. /\ Suffix(f) \in {<<>>, <<"transcoded">>}
      /\ q # f /\ (Target(f) => Len(f.stem) < Len(q.stem))
  BY <1>1, <1>2, NewPathOther
<1>4. /\ Core(q.stem) = Core(f.stem) /\ Alike(conf, q, f) /\ Alike(conf, f, q)
      /\ ~IsPart(conf, q) /\ Len(q.stem) \in Nat /\ Len(f.stem) \in Nat
  BY <1>1, <1>3, NewPathAlike
<1>5. DiskInv(Came, conf, disk) /\ Removes(disk, disk', {q})
  BY DEF Good, Removes, Files
<1> HIDE DEF f
<1>6. ASSUME NEW g \in Files, Backs(g, f) PROVE g # q
  <2>1. CASE g = f
    BY <1>3, <2>1
  <2>2. CASE Target(f) /\ Len(g.stem) <= Len(f.stem)
    <3>1. Len(f.stem) < Len(q.stem) /\ Len(g.stem) \in Nat
      BY <1>3, <2>2 DEF TypeInv, DiskTyped, Named, Paths, Files
    <3>2. Len(g.stem) # Len(q.stem)
      BY <1>4, <2>2, <3>1
    <3> QED
      BY <3>2
  <2> QED
    BY <1>6, <2>1, <2>2 DEF Backs
<1>7. ASSUME Single(in)
      PROVE  /\ \E g \in Files' : Backs(g, f)
             /\ DiskInv(Came, conf, disk')
  <2>1. PICK g \in Files : Backs(g, f)
    BY <1>7 DEF Backed, f
  <2>2. g # q
    BY <1>6, <2>1
  <2>3. Alike(conf, g, q) /\ ~IsPart(conf, g) /\ Fine(Came, disk[g])
    BY <1>4, <2>1, AlikeBasics DEF Backs, FineFile
  <2>4. ASSUME q \in DOMAIN disk, NEW d \in Origins(Came, disk[q].videos), Came[d].whole
        PROVE  d \in Origins(Came, disk[g].videos) /\ disk[g].whole
    BY <1>5, <2>3, <2>4, AlikeCovers DEF Files
  <2>5. DiskInv(Came, conf, disk')
    BY <1>4, <1>5, <2>2, <2>4, RemoveCovered DEF Files
  <2> QED
    BY <2>1, <2>2, <2>5
<1>8. ASSUME AllDiscs(in) PROVE DiskInv(Came, conf, disk')
  <2>1. f \in in /\ Discs(Came, conf, disk, in)
    BY <1>5, <1>8, InputFile DEF AllDiscs, f
  <2>2. ASSUME q \in DOMAIN disk, NEW d \in Origins(Came, disk[q].videos)
        PROVE  \E r \in DOMAIN disk \ {q} : d \in Origins(Came, disk[r].videos) /\ disk[r].whole
    <3>1. PICK r \in in : r \in DOMAIN disk /\ d \in Origins(Came, disk[r].videos) /\ disk[r].whole
      BY <1>4, <1>5, <2>1, <2>2, DiscsCover
    <3>2. r # q
      BY <1>4, <2>1 DEF Discs
    <3> QED
      BY <3>1, <3>2
  <2> QED
    BY <1>4, <1>5, <2>2, RemoveCovered
<1>9. Single(in) \/ AllDiscs(in)
  BY DEF InputInv
<1> QED
  BY <1>7, <1>8, <1>9 DEF f

\* PickGood: a file in the way is removed, and the input is to be transcoded.
LEMMA PickGood ==
    ASSUME TypeInv, Good, Fits(Came, conf), Came' = Came, conf' = conf,
           NEW in \in run.inputs, Pick(in), ~Ignored(in)
    PROVE  Good'
<1> DEFINE f == FileOf(in)
           q == NewPath(f, Suffix(f))
<1>1. /\ run.pc = "pick" /\ IsNext(in) /\ disk' = Without({q})
      /\ run' = [run EXCEPT !.pc = "encode", !.inputs = @ \ {in}, !.cur = in, !.suffix = Suffix(f)]
  BY DEF Pick, At
<1>2. Files' = Files \ {q} /\ \A r \in Files' : disk'[r] = disk[r]
  BY <1>1 DEF Without, Files
<1>3. InputInv /\ BackedInv /\ CurInv /\ DoneInv /\ DiskInv(Came, conf, disk)
  BY <1>1 DEF Good, WorkInv, Transcoding
<1>4. f \in Paths /\ IsInput(in) /\ in \subseteq Paths
  BY FileOfInput DEF TypeInv, IsInput, Named
<1>5. /\ Suffix(f) \in {<<>>, <<"transcoded">>} /\ q # f
      /\ Target(f) => Len(f.stem) < Len(q.stem)
  BY <1>3, <1>4, NewPathOther DEF InputInv
<1>6. /\ Core(q.stem) = Core(f.stem) /\ Alike(conf, q, f) /\ Alike(conf, f, q)
      /\ ~IsPart(conf, q) /\ Target(q) /\ q.dir = OutDir(conf)
  BY <1>4, <1>5, NewPathAlike
<1>7. /\ Single(in) => /\ in = {f} /\ ~IsPart(conf, f) /\ f.dir # "out"
                       /\ ~(in \subseteq run.rem_list) /\ (conf.out => f \in Files)
      /\ AllDiscs(in) => f \in in /\ f \in Files /\ IsPart(conf, f) /\ f.dir # "out"
      /\ Single(in) \/ AllDiscs(in)
  BY <1>3, InputFile DEF InputInv
<1>8. conf.out => Suffix(f) = <<>>
  BY <1>3, <1>7 DEF Suffix, InputInv, NewDir
<1>9. /\ run'.pc = "encode" /\ run'.inputs = run.inputs \ {in} /\ run'.cur = in
      /\ run'.suffix = Suffix(f) /\ run'.failed = run.failed /\ run'.rem_list = run.rem_list
  <2> HIDE DEF f
  <2>1. Suffix(f) \in Seq(Words)
    BY SuffixTyped
  <2> QED
    BY <1>1, <2>1 DEF TypeInv, RunType
<1>10. NewFile' = q
  BY <1>9 DEF NewFile, NewPath, NewDir
<1>11. Single(in) => Backed(f)
  BY <1>1, <1>3 DEF BackedInv, Replaced, At
<1>12. /\ DiskInv(Came', conf', disk')
       /\ Single(in) => \E g \in Files' : Backs(g, f)
  BY <1>2, <1>3, <1>11, PickDisk
<1> HIDE DEF f, q
<1>13. NameInv'
  BY <1>9 DEF NameInv, At
<1>14. Working' = Working
  BY <1>1, <1>9 DEF Working
<1>15. \A g, h : g # q /\ Backs(g, h) => Backs(g, h)'
  BY <1>2, <1>14 DEF Backs, FineFile, Target, NewDir
<1>16. FineInv'
  <2>1. conf.transcode /\ (~run.failed => \A p \in Local : FineFile(p))
    BY <1>1 DEF Good, FineInv, Transcoding
  <2>2. (~run.failed => \A p \in Local : FineFile(p))'
    BY <1>2, <1>9, <2>1 DEF Local, FineFile
  <2> QED
    BY <1>9, <2>1, <2>2 DEF FineInv, At, Transcoding
<1>17. /\ \A i : Single(i) => Single(i)'
       /\ \A i : Single(i)' => Single(i)
       /\ \A i : AllDiscs(i) => AllDiscs(i)'
  <2>1. conf.out => q.dir = "out"
    BY <1>6 DEF OutDir
  <2>2. ASSUME NEW i, AllDiscs(i) PROVE AllDiscs(i)'
    <3>1. \A p \in i : p \in Files' /\ disk'[p] = disk[p]
      BY <1>2, <1>6, <2>2 DEF AllDiscs, Discs, Files
    <3>2. Discs(Came, conf, disk', i)
      BY <2>2, <3>1, DiscsKept DEF AllDiscs, Files
    <3> QED
      BY <1>9, <2>2, <3>2 DEF AllDiscs
  <2>3. ASSUME NEW i, Single(i) PROVE Single(i)'
    BY <1>2, <2>1, <2>3 DEF Single
  <2>4. ASSUME NEW i, Single(i)' PROVE Single(i)
    BY <1>2, <2>4 DEF Single
  <2> QED
    BY <2>2, <2>3, <2>4
<1>18. InputInv'
  BY <1>2, <1>3, <1>5, <1>8, <1>9, <1>17 DEF InputInv
<1>19. AllDiscs(in) => \A i \in run.inputs : i \subseteq run.rem_list
  <2>1. AllDiscs(in) => NewList # {}
    BY <1>3, JoinsToDo
  <2> QED
    BY <1>1, <2>1 DEF IsNext, AllDiscs
<1>20. BackedInv'
  <2> SUFFICES ASSUME NEW i \in run.inputs, i # in, Single(i)'
               PROVE  Backed(FileOf(i))' \/ Replaced(FileOf(i))'
    BY <1>9 DEF BackedInv
  <2>1. Single(i) /\ Single(in)
    BY <1>3, <1>7, <1>17, <1>19, InputFile
  <2>2. PICK g \in Files : Backs(g, FileOf(i))
    BY <1>1, <1>3, <2>1 DEF BackedInv, Backed, Replaced, At
  <2>3. CASE g # q
    <3>1. g \in Files' /\ Backs(g, FileOf(i))'
      BY <1>2, <1>15, <2>2, <2>3
    <3> QED
      BY <3>1 DEF Backed
  <2>4. CASE g = q
    <3>1. Alike(conf, f, FileOf(i))
      BY <1>6, <2>2, <2>4, AlikeBasics DEF Backs
    <3>2. Target(FileOf(i)) /\ (FileOf(i) = q \/ ({q} \notin Working /\ Len(q.stem) <= Len(FileOf(i).stem)))
      BY <1>6, <2>2, <2>4 DEF Backs
    <3>3. {q} \notin Working => {q} \notin run'.inputs
      BY <1>9, <1>14 DEF Working
    <3>4. Single(in)'
      BY <1>17, <2>1
    <3>5. Target(FileOf(i))'
      BY <3>2 DEF Target, NewDir
    <3> QED
      BY <1>9, <1>10, <3>1, <3>2, <3>3, <3>4, <3>5 DEF Replaced, At, f
  <2> QED
    BY <2>3, <2>4
<1>21. CurInv'
  <2>1. ~Ignored(in)' /\ in \notin run'.inputs /\ NewFile' # FileOf(in) /\ NewFile' \notin Files'
    BY <1>2, <1>5, <1>9, <1>10 DEF Ignored, f
  <2>2. CASE AllDiscs(in)
    <3>1. AllDiscs(in)' /\ OnlyDiscsLeft'
      BY <1>9, <1>17, <1>19, <2>2 DEF OnlyDiscsLeft
    <3> QED
      BY <1>9, <2>1, <3>1 DEF CurInv, At
  <2>3. CASE Single(in)
    <3>1. PICK g \in Files' : Backs(g, f)
      BY <1>12, <2>3
    <3>2. Backs(g, f)'
      BY <1>2, <1>15, <3>1
    <3>3. Single(in)' /\ Backed(FileOf(in))'
      BY <1>17, <2>3, <3>2 DEF Backed, f
    <3> QED
      BY <1>9, <2>1, <3>3 DEF CurInv, At
  <2> QED
    BY <1>7, <2>2, <2>3
<1>22. DoneInv'
  <2> SUFFICES ASSUME ~run.failed, NEW p \in run.rem_list \cap Files'
               PROVE  (\E i \in Working' : p \in i) \/ DiscDone(p)'
    BY <1>9 DEF DoneInv
  <2>1. p \in Files /\ p \in run.rem_list /\ disk'[p] = disk[p]
    BY <1>2
  <2>2. (\E i \in Working : p \in i) \/ DiscDone(p)
    BY <1>3, <2>1 DEF DoneInv
  <2>3. CASE \E i \in Working : p \in i
    BY <1>14, <2>3
  <2>4. CASE DiscDone(p) /\ ~\E i \in Working : p \in i
    <3>1. in \subseteq run.rem_list /\ AllDiscs(in)
      BY <1>7, <2>4 DEF DiscDone, OnlyDiscsLeft
    <3>2. p \notin in
      BY <2>4 DEF Working
    <3>3. ASSUME NEW d \in Origins(Came, disk[p].videos), q \in Files,
                 d \in Origins(Came, disk[q].videos)
          PROVE  FALSE
      <4>1. Discs(Came, conf, disk, in) /\ f \in in
        BY <1>7, <3>1 DEF AllDiscs
      <4>2. PICK r \in in : r \in DOMAIN disk /\ d \in Origins(Came, disk[r].videos)
        BY <1>3, <1>6, <3>3, <4>1, DiscsCover DEF Files
      <4>3. r = p
        BY <1>3, <2>1, <3>3, <4>1, <4>2 DEF Discs, DiskInv, PartsInv, OncePart, InputInv, Files
      <4> QED
        BY <3>2, <4>2, <4>3
    <3>4. \A d \in Origins(Came, disk[p].videos) : \E g \in Files' :
              ~IsPart(conf, g) /\ d \in Origins(Came, disk'[g].videos) /\ disk'[g].whole
      <4> SUFFICES ASSUME NEW d \in Origins(Came, disk[p].videos)
                   PROVE  \E g \in Files' : /\ ~IsPart(conf, g) /\ disk'[g].whole
                                            /\ d \in Origins(Came, disk'[g].videos)
        OBVIOUS
      <4>1. PICK g \in Files : /\ ~IsPart(conf, g) /\ disk[g].whole
                               /\ d \in Origins(Came, disk[g].videos)
        BY <2>4 DEF DiscDone
      <4>2. g # q
        BY <3>3, <4>1
      <4> QED
        BY <1>2, <4>1, <4>2
    <3>5. DiscDone(p)'
      BY <1>9, <2>1, <2>4, <3>1, <3>4 DEF DiscDone, OnlyDiscsLeft
    <3> QED
      BY <3>5
  <2> QED
    BY <2>2, <2>3, <2>4
<1>23. SourceInv'
  <2> SUFFICES ASSUME NEW p \in Files', p.dir = "out", ~FineFile(p)'
               PROVE  /\ \E h \in Local' : Source(p, h)'
                      /\ ~run.failed =>
                            \E i \in Pending' : ~Ignored(i)' /\ p = NewPath(FileOf(i), <<>>)'
    BY <1>9 DEF SourceInv, Transcoding
  <2>1. p \in Files /\ ~FineFile(p) /\ conf.out /\ q.dir = "out"
    BY <1>2, <1>3, <1>6 DEF FineFile, DiskInv, CutInv, OutDir, Files
  <2>2. PICK h \in Local : Source(p, h)
    BY <2>1 DEF Good, SourceInv
  <2>3. h \in Local' /\ Source(p, h)'
    BY <1>2, <2>1, <2>2 DEF Local, Source, NewPath, NewDir
  <2>4. ASSUME ~run.failed
        PROVE  \E i \in Pending' : ~Ignored(i)' /\ p = NewPath(FileOf(i), <<>>)'
    <3>1. PICK i \in run.inputs : ~Ignored(i) /\ p = NewPath(FileOf(i), <<>>)
      BY <1>1, <2>1, <2>4 DEF Good, SourceInv, Transcoding, Pending, At
    <3>2. i \in Pending'
      BY <1>9, <3>1 DEF Pending, At
    <3> QED
      BY <3>1, <3>2 DEF Ignored, NewPath, NewDir
  <2> QED
    BY <2>3, <2>4
<1> QED
  BY <1>9, <1>12, <1>13, <1>16, <1>18, <1>20, <1>21, <1>22, <1>23 DEF Good, WorkInv

\* WriteDisk: what ffmpeg writes, complete or not.
LEMMA WriteDisk ==
    ASSUME TypeInv, Good, Fits(Came, conf), Came' = Came, conf' = conf, At("encode"),
           run.cur \subseteq Files, NEW c, c.videos = Content(run.cur).videos,
           disk' = With(NewFile, c)
    PROVE  /\ DiskInv(Came', conf', disk')
           /\ Files' = Files \cup {NewFile} /\ NewFile \notin Files /\ disk'[NewFile] = c
           /\ \A r \in Files : disk'[r] = disk[r]
<1> DEFINE n == NewFile
           f == FileOf(run.cur)
<1>1. InputInv /\ CurInv /\ DiskInv(Came, conf, disk) /\ conf.transcode
  BY DEF Good, WorkInv, Transcoding, FineInv, At
<1>2. n \notin Files /\ (AllDiscs(run.cur) \/ Single(run.cur))
  BY <1>1 DEF CurInv
<1>3. Writes(disk, disk', n, c)
  BY <1>2 DEF Writes, With, Files
<1>4. Files' = Files \cup {n} /\ disk'[n] = c /\ \A r \in Files : disk'[r] = disk[r]
  BY <1>3 DEF Writes, Files
<1>5. f \in Paths
  BY FileOfInput DEF TypeInv, At
<1>6. run.suffix \in {<<>>, <<"transcoded">>}
  BY <1>1 DEF InputInv
<1>7. /\ Core(n.stem) = Core(f.stem) /\ ~IsPart(conf, n) /\ Target(n)
      /\ n.dir = OutDir(conf) /\ (~IsPart(conf, f) => n.disc = f.disc)
      /\ (conf.concat => n.disc = 0)
  BY <1>5, <1>6, NewPathAlike DEF NewFile
<1>8. c.videos = UNION {disk[p].videos : p \in run.cur}
  BY DEF Content
<1> HIDE DEF n, f
<1>9. NamesInv(Came, conf, disk)
  BY <1>1 DEF DiskInv
<1>10. NamesInv(Came, conf, disk')
  <2>1. CASE AllDiscs(run.cur)
    <3>1. f \in run.cur /\ IsPart(conf, f) /\ Discs(Came, conf, disk, run.cur)
      BY <1>1, <2>1, InputFile DEF AllDiscs, f
    <3>2. conf.concat
      BY <3>1 DEF IsPart
    <3> QED
      BY <1>3, <1>7, <1>8, <1>9, <3>1, <3>2, JoinedNames
  <2>2. CASE Single(run.cur)
    <3>1. run.cur = {f} /\ ~IsPart(conf, f)
      BY <1>1, <2>2, InputFile DEF f
    <3>2. c.videos = disk[f].videos /\ f \in DOMAIN disk
      BY <1>8, <3>1 DEF Files
    <3> QED
      BY <1>3, <1>7, <1>9, <3>1, <3>2, WriteNames
  <2> QED
    BY <1>2, <2>1, <2>2
<1>11. DiskInv(Came, conf, disk')
  BY <1>1, <1>3, <1>7, <1>10, WriteKeeps DEF Target
<1> QED
  BY <1>2, <1>4, <1>11 DEF n

\* WriteSource: a file cut off in the output directory is made of one that stays.
LEMMA WriteSource ==
    ASSUME TypeInv, Good, Fits(Came, conf), Came' = Came, conf' = conf, At("encode"),
           run.cur \subseteq Files, disk' = With(NewFile, CutOff)
    PROVE  /\ DiskInv(Came', conf', disk')
           /\ (\A p \in Files : p.dir = "out" /\ ~FineFile(p) => \E f \in Local : Source(p, f))'
<1> DEFINE f == FileOf(run.cur)
<1>1. /\ DiskInv(Came', conf', disk')
      /\ Files' = Files \cup {NewFile} /\ NewFile \notin Files
      /\ \A r \in Files : disk'[r] = disk[r]
  <2>1. CutOff.videos = Content(run.cur).videos
    BY DEF CutOff, Content
  <2> HIDE DEF CutOff
  <2> QED
    BY <2>1, WriteDisk
<1>2. InputInv /\ CurInv /\ DiskInv(Came, conf, disk)
  BY DEF Good, WorkInv, Transcoding, At
<1> SUFFICES ASSUME NEW p \in Files', p.dir = "out", ~FineFile(p)'
             PROVE  \E h \in Local' : Source(p, h)'
  BY <1>1
<1>3. CASE p # NewFile
  <2>1. p \in Files /\ ~FineFile(p)
    BY <1>1, <1>3 DEF FineFile
  <2>2. PICK h \in Local : Source(p, h)
    BY <2>1 DEF Good, SourceInv
  <2> QED
    BY <1>1, <2>2 DEF Local, Source, NewPath, NewDir
<1>4. CASE p = NewFile
  <2>1. conf.out
    BY <1>4 DEF NewFile, NewPath, NewDir
  <2>2. p = NewPath(f, <<>>)
    BY <1>2, <1>4, <2>1 DEF NewFile, InputInv
  <2>3. f \in run.cur /\ f.dir # "out" /\ (IsPart(conf, f) => f.disc = 1)
    <3>1. AllDiscs(run.cur) \/ Single(run.cur)
      BY <1>2 DEF CurInv
    <3> QED
      BY <1>2, <3>1, InputFile
  <2>4. f.ext \notin conf.ignore
    BY <1>2, <2>3 DEF CurInv, Ignored, At
  <2>5. PICK h : h = f
    OBVIOUS
  <2> HIDE DEF f
  <2>6. h \in Local'
    BY <1>1, <2>3, <2>5 DEF Local
  <2>7. Source(p, h)'
    BY <2>2, <2>3, <2>4, <2>5 DEF Source, NewPath, NewDir
  <2> QED
    BY <2>6, <2>7
<1> QED
  BY <1>3, <1>4

\* StillBacked: a transcoding that fails leaves backed what was.
LEMMA StillBacked ==
    ASSUME TypeInv, Good, At("encode"), Came' = Came, conf' = conf,
           run'.pc = "pick", run'.inputs = run.inputs,
           \A r \in Files : r \in Files' /\ disk'[r] = disk[r],
           NEW i \in run.inputs, Single(i)
    PROVE  Backed(FileOf(i))'
<1> DEFINE f == FileOf(run.cur)
<1>0. PICK h : h = FileOf(i)
  OBVIOUS
<1>1. InputInv /\ BackedInv /\ CurInv /\ DiskInv(Came, conf, disk)
  BY DEF Good, WorkInv, Transcoding, At
<1>2. Working' \subseteq Working /\ run.cur \notin Working'
  BY <1>1 DEF Working, At, CurInv
<1>3. \A g \in Files : Backs(g, h) => Backs(g, h)'
  BY <1>2 DEF Backs, FineFile, Target, NewDir
<1>4. CASE Backed(h)
  <2>1. PICK g \in Files : Backs(g, h)
    BY <1>4 DEF Backed
  <2> QED
    BY <1>0, <1>3, <2>1 DEF Backed
<1>5. CASE Replaced(h)
  <2>1. Single(run.cur) /\ run.cur = {f}
    BY <1>1, <1>5, InputFile DEF Replaced
  <2>2. ~AllDiscs(run.cur)
    BY <1>1, <2>1, InputFile
  <2>3. PICK g \in Files : Backs(g, f)
    BY <1>1, <2>2 DEF CurInv, Backed
  <2>4. Len(f.stem) <= Len(NewFile.stem) /\ Len(f.stem) \in Nat /\ Len(NewFile.stem) \in Nat
    <3>1. f \in Paths
      BY FileOfInput DEF TypeInv, At
    <3>2. run.suffix \in {<<>>, <<"transcoded">>}
      BY <1>1 DEF InputInv
    <3> QED
      BY <3>1, <3>2, NewPathAlike DEF NewFile
  <2>5. h \in Paths /\ Len(h.stem) \in Nat
    <3>1. h \in Paths
      BY <1>0, FileOfInput DEF TypeInv
    <3> QED
      BY <3>1 DEF Paths
  <2>6. Len(NewFile.stem) <= Len(h.stem)
    BY <1>5, <2>4 DEF Replaced
  <2>7. Len(g.stem) \in Nat /\ Len(g.stem) <= Len(f.stem) /\ {g} \notin Working'
    <3>1. Len(g.stem) \in Nat
      BY DEF TypeInv, DiskTyped, Named, Paths, Files
    <3>2. CASE g = f
      <4>1. Len(g.stem) <= Len(f.stem)
        BY <2>4, <3>2
      <4>2. {g} \notin Working'
        BY <1>2, <2>1, <3>2
      <4> QED
        BY <3>1, <4>1, <4>2
    <3>3. CASE g # f
      BY <1>2, <2>3, <3>1, <3>3 DEF Backs
    <3> QED
      BY <3>2, <3>3
  <2>8. Len(g.stem) <= Len(h.stem)
    BY <2>4, <2>5, <2>6, <2>7
  <2>9. Alike(conf, g, h) /\ Target(h)
    BY <1>5, <2>3, AlikeBasics DEF Backs, Replaced
  <2> HIDE DEF f
  <2>10. Backs(g, h)'
    BY <2>3, <2>7, <2>8, <2>9 DEF Backs, FineFile, Target, NewDir
  <2> QED
    BY <1>0, <2>3, <2>10 DEF Backed
<1> QED
  BY <1>0, <1>1, <1>4, <1>5 DEF BackedInv

\* FailedGood: a transcoding fails, and may leave a file cut off.
LEMMA FailedGood ==
    ASSUME TypeInv, Good, Fits(Came, conf), Came' = Came, conf' = conf, At("encode"),
           run' = [run EXCEPT !.pc = "pick", !.failed = TRUE],
           \/ disk' = disk
           \/ run.cur \subseteq Files /\ disk' = With(NewFile, CutOff)
    PROVE  Good'
<1>1. /\ run'.pc = "pick" /\ run'.inputs = run.inputs /\ run'.rem_list = run.rem_list
      /\ run'.failed = TRUE /\ run'.suffix = run.suffix
  BY DEF TypeInv, RunType
<1>2. /\ DiskInv(Came', conf', disk')
      /\ (\A p \in Files : p.dir = "out" /\ ~FineFile(p) => \E f \in Local : Source(p, f))'
  BY SameDisk, WriteSource
<1>3. InputInv /\ DiskInv(Came, conf, disk) /\ conf.transcode
  BY DEF Good, WorkInv, Transcoding, FineInv, At
<1>4. /\ \A r \in Files : r \in Files' /\ disk'[r] = disk[r]
      /\ \A r \in Files' : IsPart(conf, r) => r \in Files
  <2>1. CASE disk' = disk
    BY <2>1 DEF Files
  <2>2. CASE run.cur \subseteq Files /\ disk' = With(NewFile, CutOff)
    <3>1. CutOff.videos = Content(run.cur).videos
      BY DEF CutOff, Content
    <3>2. /\ Files' = Files \cup {NewFile} /\ \A r \in Files : disk'[r] = disk[r]
      BY <2>2, <3>1, WriteDisk
    <3>3. ~IsPart(conf, NewFile)
      <4>1. FileOf(run.cur) \in Paths
        BY FileOfInput DEF TypeInv, At
      <4> QED
        BY <1>3, <4>1, NewPathAlike DEF NewFile, InputInv
    <3> QED
      BY <3>2, <3>3
  <2> QED
    BY <2>1, <2>2
<1>5. NameInv' /\ FineInv' /\ CurInv' /\ DoneInv'
  BY <1>1, <1>3 DEF NameInv, FineInv, CurInv, DoneInv, At, Transcoding
<1>6. SourceInv'
  BY <1>1, <1>2 DEF SourceInv
<1>7. InputInv'
  <2>1. ASSUME NEW i, AllDiscs(i) PROVE AllDiscs(i)'
    <3>1. Discs(Came, conf, disk', i)
      BY <1>4, <2>1, DiscsKept DEF AllDiscs, Discs, Files
    <3> QED
      BY <1>1, <2>1, <3>1 DEF AllDiscs
  <2>2. \A i : Single(i) => Single(i)'
    BY <1>4 DEF Single
  <2> QED
    BY <1>1, <1>3, <1>4, <2>1, <2>2 DEF InputInv
<1>8. BackedInv'
  <2> SUFFICES ASSUME NEW i \in run.inputs, Single(i)' PROVE Backed(FileOf(i))'
    BY <1>1 DEF BackedInv
  <2>1. Single(i)
    <3>1. ~AllDiscs(i)
      BY DEF Single, AllDiscs, Discs
    <3> QED
      BY <1>3, <3>1 DEF InputInv
  <2> QED
    BY <1>1, <1>4, <2>1, StillBacked
<1> QED
  BY <1>2, <1>5, <1>6, <1>7, <1>8 DEF Good, WorkInv

\* NewFileFine: the new file is as good as what it is made of.
LEMMA NewFileFine ==
    ASSUME TypeInv, Good, Fits(Came, conf), At("encode"), run.cur \subseteq Files,
           NEW c, c = Content(run.cur)
    PROVE  /\ AllDiscs(run.cur) => c.whole
           /\ Single(run.cur) /\ FineFile(FileOf(run.cur)) => Fine(Came, c)
           /\ conf.out \/ ~run.failed => Fine(Came, c)
<1>1. InputInv /\ CurInv /\ DiskInv(Came, conf, disk)
  BY DEF Good, WorkInv, Transcoding, At
<1>2. /\ c.videos = UNION {disk[p].videos : p \in run.cur}
      /\ c.whole = \A p \in run.cur : disk[p].whole
  BY DEF Content
<1>3. AllDiscs(run.cur) => c.whole
  BY <1>1, <1>2 DEF AllDiscs, Discs, DiskInv, PartsInv
<1>4. ASSUME Single(run.cur), FineFile(FileOf(run.cur)) PROVE Fine(Came, c)
  <2>1. PICK f : f = FileOf(run.cur)
    OBVIOUS
  <2>2. run.cur = {f}
    BY <1>1, <1>4, <2>1, InputFile
  <2>3. c.videos = disk[f].videos /\ c.whole = disk[f].whole
    <3>1. disk[f].whole \in BOOLEAN
      BY <2>2 DEF TypeInv, DiskTyped, Files
    <3>2. c.videos = disk[f].videos
      BY <1>2, <2>2
    <3>3. (\A p \in run.cur : disk[p].whole) <=> disk[f].whole
      BY <2>2
    <3>4. c.whole = disk[f].whole
      BY <1>2, <3>1, <3>3
    <3> QED
      BY <3>2, <3>4
  <2> QED
    BY <1>4, <2>1, <2>3 DEF FineFile, Fine
<1>5. ASSUME conf.out \/ ~run.failed PROVE Fine(Came, c)
  <2>1. CASE AllDiscs(run.cur)
    BY <1>3, <2>1 DEF Fine
  <2>2. CASE Single(run.cur)
    <3>1. FileOf(run.cur) \in Local /\ FileOf(run.cur).dir # "out"
      BY <1>1, <2>2, InputFile DEF Local
    <3>2. FineFile(FileOf(run.cur))
      <4>1. CASE ~run.failed
        BY <3>1, <4>1 DEF Good, FineInv, Transcoding, At
      <4>2. CASE conf.out
        BY <1>1, <3>1, <4>2 DEF DiskInv, CutInv, OutDir, FineFile, Local, Files
      <4> QED
        BY <1>5, <4>1, <4>2
    <3> QED
      BY <1>4, <2>2, <3>2
  <2> QED
    BY <1>1, <2>1, <2>2 DEF CurInv
<1> QED
  BY <1>3, <1>4, <1>5

\* NewBacked: the new file backs what was backed by the one it is made of.
LEMMA NewBacked ==
    ASSUME TypeInv, Good, At("encode"), Came' = Came, conf' = conf,
           run'.pc = "unlink", run'.inputs = run.inputs, run'.cur = run.cur,
           \A r \in Files : r \in Files' /\ disk'[r] = disk[r],
           NEW n, n = NewFile, n \in Files',
           Single(run.cur) /\ FineFile(FileOf(run.cur)) => FineFile(n)',
           NEW i \in run.inputs, Single(i)
    PROVE  Backed(FileOf(i))'
<1>1. PICK f, h : f = FileOf(run.cur) /\ h = FileOf(i)
  OBVIOUS
<1>2. InputInv /\ BackedInv /\ CurInv /\ DiskInv(Came, conf, disk)
  BY DEF Good, WorkInv, Transcoding, At
<1>3. Working' = Working
  BY DEF Working, At
<1>4. \A g \in Files : Backs(g, h) => Backs(g, h)'
  BY <1>3 DEF Backs, FineFile, Target, NewDir
<1>5. CASE Backed(h)
  <2>1. PICK g \in Files : Backs(g, h)
    BY <1>5 DEF Backed
  <2> QED
    BY <1>1, <1>4, <2>1 DEF Backed
<1>6. CASE Replaced(h)
  <2>1. Single(run.cur) /\ run.cur = {f} /\ ~AllDiscs(run.cur)
    BY <1>1, <1>2, <1>6, InputFile DEF Replaced
  <2>2. PICK g \in Files : Backs(g, f)
    BY <1>1, <1>2, <2>1 DEF CurInv, Backed
  <2>3. /\ Alike(conf, f, h) /\ Target(h)
        /\ h = n \/ ({n} \notin run.inputs /\ Len(n.stem) <= Len(h.stem))
    BY <1>1, <1>6 DEF Replaced
  <2>4. /\ Alike(conf, n, f) /\ ~IsPart(conf, n) /\ Len(f.stem) <= Len(n.stem)
        /\ Len(n.stem) \in Nat /\ Len(f.stem) \in Nat
    <3>1. f \in Paths
      BY <1>1, FileOfInput DEF TypeInv, At
    <3>2. run.suffix \in {<<>>, <<"transcoded">>}
      BY <1>2 DEF InputInv
    <3> QED
      BY <1>1, <3>1, <3>2, NewPathAlike DEF NewFile
  <2>5. Len(h.stem) \in Nat /\ Len(g.stem) \in Nat
    <3>1. h \in Paths /\ g \in Paths
      BY <1>1, FileOfInput DEF TypeInv, DiskTyped, Named, Files
    <3> QED
      BY <3>1 DEF Paths
  <2>6. CASE g = f
    <3>1. FineFile(n)'
      BY <1>1, <2>1, <2>2, <2>6 DEF Backs
    <3>2. Alike(conf, n, h)
      BY <2>3, <2>4, AlikeBasics
    <3>3. n # f
      BY <1>1, <1>2 DEF CurInv, At
    <3>4. h # n => {n} \notin Working' /\ Len(n.stem) <= Len(h.stem)
      BY <1>3, <2>1, <2>3, <3>3 DEF Working, At
    <3>5. Backs(n, h)'
      BY <2>3, <2>4, <3>1, <3>2, <3>4 DEF Backs, Target, NewDir
    <3> QED
      BY <1>1, <3>5 DEF Backed
  <2>7. CASE g # f
    <3>1. {g} \notin Working /\ Len(g.stem) <= Len(f.stem) /\ Alike(conf, g, f)
      BY <2>2, <2>7 DEF Backs
    <3>2. Len(n.stem) <= Len(h.stem)
      BY <2>3, <2>5
    <3>3. Len(g.stem) <= Len(h.stem)
      BY <2>4, <2>5, <3>1, <3>2
    <3>4. Alike(conf, g, h)
      BY <2>3, <3>1, AlikeBasics
    <3>5. Backs(g, h)
      BY <2>2, <2>3, <3>1, <3>3, <3>4 DEF Backs
    <3> QED
      BY <1>1, <1>4, <3>5 DEF Backed
  <2> QED
    BY <2>6, <2>7
<1> QED
  BY <1>1, <1>2, <1>5, <1>6 DEF BackedInv

\* WrittenGood: ffmpeg completes the new file.
LEMMA WrittenGood ==
    ASSUME TypeInv, Good, Fits(Came, conf), Came' = Came, conf' = conf, At("encode"),
           run' = [run EXCEPT !.pc = "unlink", !.failed = Result(FALSE)],
           run.cur \subseteq Files, disk' = With(NewFile, Content(run.cur))
    PROVE  Good'
<1>1. /\ run'.pc = "unlink" /\ run'.inputs = run.inputs /\ run'.rem_list = run.rem_list
      /\ run'.failed = run.failed /\ run'.suffix = run.suffix /\ run'.cur = run.cur
  BY DEF TypeInv, RunType, Result
<1>2. PICK n, c, f : n = NewFile /\ c = Content(run.cur) /\ f = FileOf(run.cur)
  OBVIOUS
<1>3. /\ DiskInv(Came', conf', disk')
      /\ Files' = Files \cup {n} /\ n \notin Files /\ disk'[n] = c
      /\ \A r \in Files : disk'[r] = disk[r]
  BY <1>2, WriteDisk
<1>4. /\ AllDiscs(run.cur) => c.whole
      /\ Single(run.cur) /\ FineFile(f) => FineFile(n)'
      /\ conf.out \/ ~run.failed => FineFile(n)'
  BY <1>2, <1>3, NewFileFine DEF FineFile
<1>5. InputInv /\ CurInv /\ BackedInv /\ DoneInv /\ DiskInv(Came, conf, disk)
  BY DEF Good, WorkInv, Transcoding, At
<1>6. NewFile' = n
  BY <1>1, <1>2 DEF NewFile, NewPath, NewDir
<1>7. f \in Paths /\ run.suffix \in {<<>>, <<"transcoded">>} /\ n = NewPath(f, run.suffix)
  BY <1>2, <1>5, FileOfInput DEF TypeInv, At, InputInv, NewFile
<1>8. ~IsPart(conf, n) /\ Alike(conf, n, f) /\ n.dir = OutDir(conf)
  BY <1>7, NewPathAlike
<1>9. NameInv'
  BY <1>1 DEF NameInv, At
<1>10. FineInv'
  <2>1. conf.transcode /\ (~run.failed => \A p \in Local : FineFile(p))
    BY DEF Good, FineInv, Transcoding, At
  <2>2. (~run.failed => \A p \in Local : FineFile(p))'
    BY <1>1, <1>3, <1>4, <2>1 DEF Local, FineFile
  <2> QED
    BY <1>1, <2>1, <2>2 DEF FineInv, At, Transcoding
<1>11. SourceInv'
  <2> SUFFICES ASSUME NEW p \in Files', p.dir = "out", ~FineFile(p)'
               PROVE  /\ \E h \in Local' : Source(p, h)'
                      /\ ~run.failed =>
                            \E i \in Pending' : ~Ignored(i)' /\ p = NewPath(FileOf(i), <<>>)'
    BY <1>1 DEF SourceInv, Transcoding
  <2>1. conf.out
    BY <1>3 DEF DiskInv, CutInv, Files
  <2>2. p # n /\ p \in Files /\ ~FineFile(p)
    BY <1>3, <1>4, <2>1 DEF FineFile
  <2>3. PICK h \in Local : Source(p, h)
    BY <2>2 DEF Good, SourceInv
  <2>4. h \in Local' /\ Source(p, h)'
    BY <1>3, <2>3 DEF Local, Source, NewPath, NewDir
  <2>5. ASSUME ~run.failed
        PROVE  \E i \in Pending' : ~Ignored(i)' /\ p = NewPath(FileOf(i), <<>>)'
    <3>1. PICK i \in Pending : ~Ignored(i) /\ p = NewPath(FileOf(i), <<>>)
      BY <2>2, <2>5 DEF Good, SourceInv, Transcoding, At
    <3>2. i # run.cur
      BY <1>2, <1>5, <1>7, <2>1, <2>2, <3>1 DEF InputInv
    <3>3. i \in Pending'
      BY <1>1, <3>1, <3>2 DEF Pending, At
    <3> QED
      BY <3>1, <3>3 DEF Ignored, NewPath, NewDir
  <2> QED
    BY <2>4, <2>5
<1>12. /\ \A i : Single(i) => Single(i)'
       /\ \A i : AllDiscs(i) => AllDiscs(i)'
  <2>1. ASSUME NEW i, AllDiscs(i) PROVE AllDiscs(i)'
    <3>1. Discs(Came, conf, disk, i) /\ \A p \in i : p \in Files' /\ disk'[p] = disk[p]
      BY <1>3, <2>1 DEF AllDiscs, Discs, Files
    <3>2. Discs(Came, conf, disk', i)
      BY <3>1, DiscsKept DEF Files
    <3> QED
      BY <1>1, <2>1, <3>2 DEF AllDiscs
  <2>2. ASSUME NEW i, Single(i) PROVE Single(i)'
    BY <1>3, <2>2 DEF Single
  <2> QED
    BY <2>1, <2>2
<1>13. InputInv'
  BY <1>1, <1>3, <1>5, <1>8, <1>12 DEF InputInv
<1>14. BackedInv'
  <2> SUFFICES ASSUME NEW i \in run.inputs, Single(i)' PROVE Backed(FileOf(i))'
    BY <1>1 DEF BackedInv
  <2>1. Single(i)
    <3>1. ~AllDiscs(i)
      BY DEF Single, AllDiscs, Discs
    <3> QED
      BY <1>5, <3>1 DEF InputInv
  <2> QED
    BY <1>1, <1>2, <1>3, <1>4, <2>1, NewBacked
<1>15. CurInv'
  <2>1. ~Ignored(run.cur)' /\ run.cur \notin run'.inputs /\ NewFile' # FileOf(run.cur)
    BY <1>1, <1>2, <1>5, <1>6 DEF CurInv, At, Ignored
  <2>2. CASE AllDiscs(run.cur)
    <3>1. AllDiscs(run.cur)' /\ OnlyDiscsLeft'
      <4>1. ~Single(run.cur)
        BY <2>2 DEF Single, AllDiscs, Discs
      <4> QED
        BY <1>1, <1>5, <1>12, <2>2, <4>1 DEF OnlyDiscsLeft, CurInv
    <3>2. n \in Files' /\ disk'[n].whole
      BY <1>3, <1>4, <2>2
    <3>3. \A p \in run.cur :
              Origins(Came, disk'[p].videos) \subseteq Origins(Came, disk'[n].videos)
      <4>1. \A p \in run.cur : disk'[p].videos \subseteq c.videos
        BY <1>2, <1>3 DEF Content
      <4> QED
        BY <1>3, <4>1 DEF Origins
    <3> QED
      BY <1>1, <1>6, <2>1, <3>1, <3>2, <3>3 DEF CurInv, At
  <2>3. CASE Single(run.cur)
    <3>1. Single(run.cur)' /\ run.cur \subseteq Files'
      BY <1>3, <1>12, <2>3
    <3>2. conf.out => n \in Files' /\ FineFile(n)'
      BY <1>3, <1>4
    <3>3. \E g \in Files' : /\ FineFile(g)' /\ Alike(conf, g, f) /\ ~IsPart(conf, g) /\ g # f
      <4>1. PICK g \in Files : Backs(g, f)
        <5>1. ~AllDiscs(run.cur)
          BY <2>3 DEF Single, AllDiscs, Discs
        <5> QED
          BY <1>2, <1>5, <5>1 DEF CurInv, Backed
      <4>2. CASE g = f
        <5>1. FineFile(n)' /\ n \in Files'
          BY <1>3, <1>4, <2>3, <4>1, <4>2 DEF Backs
        <5>2. n # f
          BY <1>2, <2>1, <1>6
        <5> QED
          BY <1>8, <5>1, <5>2
      <4>3. CASE g # f
        <5>1. g \in Files' /\ FineFile(g)' /\ Alike(conf, g, f) /\ ~IsPart(conf, g)
          BY <1>3, <4>1 DEF Backs, FineFile
        <5> QED
          BY <4>3, <5>1
      <4> QED
        BY <4>2, <4>3
    <3>4. PICK g \in Files' : FineFile(g)' /\ Alike(conf, g, f) /\ ~IsPart(conf, g) /\ g # f
      BY <3>3
    <3> QED
      BY <1>1, <1>2, <1>6, <2>1, <3>1, <3>2, <3>4 DEF CurInv, At
  <2> QED
    BY <1>5, <2>2, <2>3 DEF CurInv
<1>16. DoneInv'
  <2> SUFFICES ASSUME ~run.failed, NEW p \in run.rem_list \cap Files'
               PROVE  (\E i \in Working' : p \in i) \/ DiscDone(p)'
    BY <1>1 DEF DoneInv
  <2>1. p \in Files /\ disk'[p] = disk[p]
    BY <1>3, <1>5, <1>8 DEF InputInv
  <2>2. Working' = Working
    BY <1>1 DEF Working, At
  <2>3. DiscDone(p) => DiscDone(p)'
    BY <1>1, <1>3, <2>1 DEF DiscDone, OnlyDiscsLeft, At
  <2> QED
    BY <1>5, <2>1, <2>2, <2>3 DEF DoneInv
<1> QED
  BY <1>1, <1>3, <1>9, <1>10, <1>11, <1>13, <1>14, <1>15, <1>16 DEF Good, WorkInv

\* EncodeGood: a video is transcoded, or is not.
LEMMA EncodeGood ==
    ASSUME TypeInv, Good, Fits(Came, conf), Came' = Came, conf' = conf, Encode
    PROVE  Good'
<1>1. At("encode")
  BY DEF Encode
<1>2. CASE /\ run.cur \subseteq Files /\ disk' = With(NewFile, Content(run.cur))
           /\ run' = [run EXCEPT !.pc = "unlink", !.failed = Result(FALSE)]
  BY <1>1, <1>2, WrittenGood
<1>3. CASE run' = [run EXCEPT !.pc = "pick", !.failed = Result(TRUE)]
  <2>1. run' = [run EXCEPT !.pc = "pick", !.failed = TRUE]
    BY <1>3 DEF Result
  <2>2. disk' = disk \/ (run.cur \subseteq Files /\ disk' = With(NewFile, CutOff))
    BY <1>3 DEF Encode, TypeInv, RunType
  <2> QED
    BY <1>1, <2>1, <2>2, FailedGood
<1> QED
  BY <1>2, <1>3 DEF Encode

\* DiscsApart: a disc is of one video.
LEMMA DiscsApart ==
    ASSUME NEW dl, NEW cf, NEW dk, Fits(dl, cf), DiskInv(dl, cf, dk),
           NEW in, Discs(dl, cf, dk, in), NEW on, Discs(dl, cf, dk, on),
           NEW p \in in, p \in on
    PROVE  in \subseteq on
<1> SUFFICES ASSUME NEW r \in in PROVE r \in on
  OBVIOUS
<1>1. /\ p \in DOMAIN dk /\ IsPart(cf, p) /\ r \in DOMAIN dk /\ IsPart(cf, r)
      /\ p.stem = r.stem
  BY DEF Discs
<1>2. PICK d \in Origins(dl, dk[p].videos), e \in Origins(dl, dk[r].videos) : TRUE
  BY <1>1, PartsTogether
<1>3. Together(cf, d, e) /\ e \in DOMAIN dl
  BY <1>1, PartsTogether DEF Origins
<1>4. PICK q \in on : e \in Origins(dl, dk[q].videos)
  BY <1>3 DEF Discs
<1>5. q \in DOMAIN dk /\ IsPart(cf, q)
  BY DEF Discs
<1>6. q = r
  BY <1>1, <1>2, <1>4, <1>5 DEF DiskInv, PartsInv, OncePart
<1> QED
  BY <1>4, <1>6

\* FirstDisc: of all discs of a video, one is the first.
LEMMA FirstDisc ==
    ASSUME NEW dl, NEW cf, NEW dk, Fits(dl, cf), DiskInv(dl, cf, dk),
           NEW in, Discs(dl, cf, dk, in), NEW f \in in, NEW p \in in, p.disc = f.disc
    PROVE  p = f
<1>1. /\ p \in DOMAIN dk /\ IsPart(cf, p) /\ f \in DOMAIN dk /\ IsPart(cf, f)
      /\ p.stem = f.stem
  BY DEF Discs
<1>2. PICK d \in Origins(dl, dk[p].videos), e \in Origins(dl, dk[f].videos) : TRUE
  BY <1>1, PartsTogether
<1>3. Together(cf, d, e)
  BY <1>1, PartsTogether
<1> QED
  BY <1>1, <1>2, <1>3, DiscOnce

\* JoinedRemoved: the first disc can go once the joined video is complete.
LEMMA JoinedRemoved ==
    ASSUME NEW dl, NEW cf, NEW dk, NEW dk2, NEW f, Removes(dk, dk2, {f}), Fits(dl, cf),
           DiskInv(dl, cf, dk), f \in DOMAIN dk, IsPart(cf, f), f.disc = 1,
           NEW n \in DOMAIN dk, n # f, dk[n].whole,
           Origins(dl, dk[f].videos) \subseteq Origins(dl, dk[n].videos)
    PROVE  DiskInv(dl, cf, dk2)
<1>1. /\ \A r \in DOMAIN dk2 : r \in DOMAIN dk /\ dk2[r] = dk[r]
      /\ \A r \in DOMAIN dk : r # f => r \in DOMAIN dk2 /\ dk2[r] = dk[r]
      /\ f \notin DOMAIN dk2
  BY DEF Removes
<1>2. FirstPart(dl, cf, dk2)
  <2> SUFFICES ASSUME NEW p \in DOMAIN dk2, NEW d \in Origins(dl, dk2[p].videos),
                      NEW e \in DOMAIN dl, IsPart(cf, p), p.disc = 1, Together(cf, d, e)
               PROVE  \E q \in DOMAIN dk2 : IsPart(cf, q) /\ e \in Origins(dl, dk2[q].videos)
    BY DEF FirstPart
  <2>1. p \in DOMAIN dk /\ d \in Origins(dl, dk[p].videos) /\ d \in DOMAIN dl
    BY <1>1 DEF Origins
  <2>2. PICK q \in DOMAIN dk : IsPart(cf, q) /\ e \in Origins(dl, dk[q].videos)
    BY <2>1 DEF DiskInv, PartsInv, FirstPart
  <2>3. q # f
    <3>1. q = f => p = f
      BY <2>1, <2>2, DiscOnce
    <3> QED
      BY <1>1, <3>1
  <2> QED
    BY <1>1, <2>2, <2>3
<1>3. SurviveInv(dl, dk2)
  <2> SUFFICES ASSUME NEW d \in DOMAIN dl, dl[d].whole
               PROVE  \E p \in DOMAIN dk2 : d \in Origins(dl, dk2[p].videos) /\ dk2[p].whole
    BY DEF SurviveInv
  <2>1. PICK p \in DOMAIN dk : d \in Origins(dl, dk[p].videos) /\ dk[p].whole
    BY DEF DiskInv, SurviveInv
  <2>2. CASE p # f
    BY <1>1, <2>1, <2>2
  <2>3. CASE p = f
    BY <1>1, <2>1, <2>3
  <2> QED
    BY <2>2, <2>3
<1> QED
  BY <1>2, <1>3, RemoveKeeps

\* UnlinkDisk: what is unlinked has a copy.
LEMMA UnlinkDisk ==
    ASSUME TypeInv, Good, Fits(Came, conf), Came' = Came, conf' = conf, At("unlink"),
           disk' = Without({FileOf(run.cur)})
    PROVE  DiskInv(Came', conf', disk')
<1>1. InputInv /\ CurInv /\ DiskInv(Came, conf, disk)
  BY DEF Good, WorkInv, Transcoding, At
<1>2. PICK f, n : f = FileOf(run.cur) /\ n = NewFile
  OBVIOUS
<1>3. Removes(disk, disk', {f})
  BY <1>2 DEF Removes, Without, Files
<1>4. CASE AllDiscs(run.cur)
  <2>1. f \in run.cur /\ f.disc = 1 /\ f \in DOMAIN disk /\ IsPart(conf, f)
    BY <1>1, <1>2, <1>4, InputFile DEF Files
  <2>2. ~Single(run.cur)
    BY <1>4 DEF Single, AllDiscs, Discs
  <2>3. /\ n \in DOMAIN disk /\ n # f /\ disk[n].whole
        /\ Origins(Came, disk[f].videos) \subseteq Origins(Came, disk[n].videos)
    BY <1>1, <1>2, <2>1, <2>2 DEF CurInv, At, Files
  <2> QED
    BY <1>1, <1>3, <2>1, <2>3, JoinedRemoved
<1>5. CASE Single(run.cur)
  <2>1. ~IsPart(conf, f) /\ ~AllDiscs(run.cur)
    BY <1>1, <1>2, <1>5, InputFile DEF Single, AllDiscs, Discs
  <2>2. PICK g \in Files : FineFile(g) /\ Alike(conf, g, f) /\ ~IsPart(conf, g) /\ g # f
    BY <1>1, <1>2, <2>1 DEF CurInv, At
  <2>3. ASSUME f \in DOMAIN disk, NEW d \in Origins(Came, disk[f].videos), Came[d].whole
        PROVE  d \in Origins(Came, disk[g].videos) /\ disk[g].whole
    BY <1>1, <2>2, <2>3, AlikeCovers DEF FineFile, Files
  <2> QED
    BY <1>1, <1>3, <2>1, <2>2, <2>3, RemoveCovered DEF Files
<1> QED
  BY <1>1, <1>4, <1>5 DEF CurInv, At

\* UnlinkGood: the original is removed, unless duplicates are kept.
LEMMA UnlinkGood ==
    ASSUME TypeInv, Good, Fits(Came, conf), Came' = Came, conf' = conf, Unlink
    PROVE  Good'
<1>1. /\ run.pc = "unlink" /\ run'.pc = "pick" /\ run'.inputs = run.inputs
      /\ run'.rem_list = run.rem_list /\ run'.failed = run.failed /\ run'.suffix = run.suffix
  BY DEF Unlink, At, Goto, TypeInv, RunType
<1>2. PICK f, n : f = FileOf(run.cur) /\ n = NewFile
  OBVIOUS
<1>3. /\ Files' \subseteq Files /\ \A r \in Files' : disk'[r] = disk[r]
      /\ \A r \in Files : r # f => r \in Files'
      /\ f \in Files' => conf.duplicate
      /\ conf.duplicate => disk' = disk
  BY <1>2 DEF Unlink, Without, Files
<1>4. DiskInv(Came', conf', disk')
  BY <1>1, SameDisk, UnlinkDisk DEF Unlink, At
<1>5. InputInv /\ CurInv /\ BackedInv /\ DoneInv /\ DiskInv(Came, conf, disk)
  BY <1>1 DEF Good, WorkInv, Transcoding, At
<1>6. NameInv' /\ CurInv'
  BY <1>1 DEF NameInv, CurInv, At
<1>7. n # f /\ ~Ignored(run.cur) /\ run.cur \notin run.inputs
  BY <1>1, <1>2, <1>5 DEF CurInv
<1>8. f \in Paths /\ run.suffix \in {<<>>, <<"transcoded">>} /\ n = NewPath(f, run.suffix)
  BY <1>1, <1>2, <1>5, FileOfInput DEF TypeInv, At, InputInv, NewFile
<1>9. ~IsPart(conf, n)
  BY <1>8, NewPathAlike
<1>10. \/ /\ AllDiscs(run.cur) /\ OnlyDiscsLeft /\ n \in Files /\ disk[n].whole
          /\ f \in run.cur /\ f.disc = 1 /\ IsPart(conf, f)
          /\ \A p \in run.cur :
                Origins(Came, disk[p].videos) \subseteq Origins(Came, disk[n].videos)
       \/ /\ run.cur = {f} /\ ~IsPart(conf, f) /\ (conf.out => n \in Files /\ FineFile(n))
  BY <1>1, <1>2, <1>5, InputFile DEF CurInv, At
<1>11. FineInv'
  <2>1. conf.transcode /\ (~run.failed => \A p \in Local : FineFile(p))
    BY <1>1 DEF Good, FineInv, Transcoding, At
  <2>2. (~run.failed => \A p \in Local : FineFile(p))'
    BY <1>1, <1>3, <2>1 DEF Local, FineFile
  <2> QED
    BY <1>1, <2>1, <2>2 DEF FineInv, At, Transcoding
<1>12. SourceInv'
  <2> SUFFICES ASSUME NEW p \in Files', p.dir = "out", ~FineFile(p)'
               PROVE  /\ \E h \in Local' : Source(p, h)'
                      /\ ~run.failed =>
                            \E i \in Pending' : ~Ignored(i)' /\ p = NewPath(FileOf(i), <<>>)'
    BY <1>1 DEF SourceInv, Transcoding
  <2>1. p \in Files /\ ~FineFile(p) /\ conf.out
    BY <1>3, <1>4 DEF FineFile, DiskInv, CutInv, Files
  <2>2. PICK h \in Local : Source(p, h)
    BY <2>1 DEF Good, SourceInv
  <2>3. h # f
    <3>1. n = NewPath(f, <<>>)
      BY <1>5, <1>8, <2>1 DEF InputInv
    <3>2. FineFile(n)
      BY <1>10, <2>1 DEF FineFile, Fine
    <3> QED
      BY <2>1, <2>2, <3>1, <3>2 DEF Source
  <2>4. h \in Local' /\ Source(p, h)'
    BY <1>3, <2>2, <2>3 DEF Local, Source, NewPath, NewDir
  <2>5. ASSUME ~run.failed
        PROVE  \E i \in Pending' : ~Ignored(i)' /\ p = NewPath(FileOf(i), <<>>)'
    <3>1. PICK i \in run.inputs : ~Ignored(i) /\ p = NewPath(FileOf(i), <<>>)
      BY <1>1, <2>1, <2>5 DEF Good, SourceInv, Transcoding, Pending, At
    <3>2. i \in Pending'
      BY <1>1, <3>1 DEF Pending
    <3> QED
      BY <3>1, <3>2 DEF Ignored, NewPath, NewDir
  <2> QED
    BY <2>4, <2>5
<1>13. ASSUME NEW i \in run.inputs, AllDiscs(i) PROVE AllDiscs(i)'
  <2>1. f \notin i
    <3>1. CASE AllDiscs(run.cur) /\ f \in run.cur
      <4>1. Discs(Came, conf, disk, i) /\ Discs(Came, conf, disk, run.cur)
        BY <1>13, <3>1 DEF AllDiscs
      <4>2. f \in i => i \subseteq run.cur /\ run.cur \subseteq i
        BY <1>5, <3>1, <4>1, DiscsApart
      <4> QED
        BY <1>7, <4>2
    <3>2. CASE ~IsPart(conf, f)
      BY <1>13, <3>2 DEF AllDiscs, Discs
    <3> QED
      BY <1>10, <3>1, <3>2
  <2>2. Discs(Came, conf, disk, i) /\ \A p \in i : p \in Files' /\ disk'[p] = disk[p]
    BY <1>3, <1>13, <2>1 DEF AllDiscs, Discs, Files
  <2>3. Discs(Came, conf, disk', i)
    BY <2>2, DiscsKept DEF Files
  <2> QED
    BY <1>1, <1>13, <2>3 DEF AllDiscs
<1>14. ASSUME NEW i \in run.inputs, Single(i) PROVE Single(i)'
  <2>1. PICK h \in i : i = {h} /\ ~IsPart(conf, h) /\ h.dir # "out" /\ (conf.out => h \in Files)
    BY <1>14 DEF Single
  <2>2. h # f
    BY <1>7, <1>10, <2>1
  <2> QED
    BY <1>3, <2>1, <2>2 DEF Single
<1>15. InputInv'
  BY <1>1, <1>3, <1>5, <1>13, <1>14 DEF InputInv
<1>16. BackedInv'
  <2> SUFFICES ASSUME NEW i \in run.inputs, Single(i)' PROVE Backed(FileOf(i))'
    BY <1>1 DEF BackedInv
  <2>1. Single(i)
    <3>1. ~AllDiscs(i)
      BY DEF Single, AllDiscs, Discs
    <3> QED
      BY <1>5, <3>1 DEF InputInv
  <2>2. PICK h : h = FileOf(i)
    OBVIOUS
  <2>3. i = {h}
    BY <1>5, <2>1, <2>2, InputFile
  <2>4. PICK g \in Files : Backs(g, h)
    BY <1>1, <1>5, <2>1, <2>2 DEF BackedInv, Backed, Replaced, At
  <2>5. g # f
    <3>1. CASE IsPart(conf, f)
      BY <2>4, <3>1 DEF Backs
    <3>2. CASE run.cur = {f}
      <4>1. h # f
        BY <1>7, <2>3, <3>2
      <4> QED
        BY <1>1, <2>4, <3>2, <4>1 DEF Backs, Working
    <3> QED
      BY <1>10, <3>1, <3>2
  <2>6. Backs(g, h)'
    BY <1>1, <1>3, <2>4, <2>5 DEF Backs, FineFile, Target, NewDir, Working
  <2> QED
    BY <1>3, <2>2, <2>4, <2>5, <2>6 DEF Backed
<1>17. DoneInv'
  <2> SUFFICES ASSUME ~run.failed, NEW p \in run.rem_list \cap Files'
               PROVE  (\E i \in Working' : p \in i) \/ DiscDone(p)'
    BY <1>1 DEF DoneInv
  <2>1. p \in Files /\ disk'[p] = disk[p] /\ IsPart(conf, p)
    BY <1>3, <1>5 DEF InputInv
  <2>2. (\E i \in run.inputs : p \in i) \/ p \in run.cur \/ DiscDone(p)
    BY <1>1, <1>5, <2>1 DEF DoneInv, Working
  <2>3. CASE \E i \in run.inputs : p \in i
    BY <1>1, <2>3 DEF Working
  <2>4. CASE p \in run.cur
    <3>1. /\ AllDiscs(run.cur) /\ OnlyDiscsLeft /\ n \in Files /\ disk[n].whole
          /\ f \in run.cur /\ f.disc = 1
          /\ Origins(Came, disk[p].videos) \subseteq Origins(Came, disk[n].videos)
      BY <1>10, <2>1, <2>4
    <3>2. n \in Files' /\ disk'[n] = disk[n]
      BY <1>3, <1>7, <3>1
    <3>3. conf.duplicate \/ p.disc # 1
      <4>1. p.disc = 1 => p = f
        BY <1>5, <2>4, <3>1, FirstDisc DEF AllDiscs
      <4> QED
        BY <1>3, <4>1
    <3>4. DiscDone(p)'
      BY <1>1, <1>9, <2>1, <3>1, <3>2, <3>3 DEF DiscDone, OnlyDiscsLeft
    <3> QED
      BY <3>4
  <2>5. CASE DiscDone(p)
    <3>1. run.cur \subseteq run.rem_list /\ OnlyDiscsLeft
      BY <1>1, <2>5 DEF DiscDone
    <3>2. IsPart(conf, f)
      BY <1>5, <1>10, <3>1 DEF InputInv
    <3>3. \A g \in Files : ~IsPart(conf, g) => g \in Files' /\ disk'[g] = disk[g]
      BY <1>3, <3>2
    <3>4. DiscDone(p)'
      BY <1>1, <2>1, <2>5, <3>1, <3>3 DEF DiscDone, OnlyDiscsLeft
    <3> QED
      BY <3>4
  <2> QED
    BY <2>2, <2>3, <2>4, <2>5
<1> QED
  BY <1>1, <1>4, <1>6, <1>11, <1>12, <1>15, <1>16, <1>17 DEF Good, WorkInv

\* UnlinkPartGood: the other discs go when every video is joined.
LEMMA UnlinkPartGood ==
    ASSUME TypeInv, Good, Fits(Came, conf), Came' = Came, conf' = conf,
           NEW p \in run.rem_list, UnlinkPart(p)
    PROVE  Good'
<1>1. /\ run.pc = "pick" /\ run.inputs = {} /\ ~run.failed /\ ~conf.duplicate
      /\ p \in Files /\ disk' = Without({p}) /\ run' = run
  BY DEF UnlinkPart, At, RemovesParts
<1>2. Files' = Files \ {p} /\ \A r \in Files' : disk'[r] = disk[r]
  BY <1>1 DEF Without, Files
<1>3. InputInv /\ DoneInv /\ DiskInv(Came, conf, disk)
  BY <1>1 DEF Good, WorkInv, Transcoding
<1>4. \A r \in Files : IsPart(conf, r) => r \in run.rem_list /\ DiscDone(r) /\ r.disc # 1
  BY <1>1, <1>3 DEF InputInv, DoneInv, Working, DiscDone
<1>5. IsPart(conf, p)
  BY <1>3 DEF InputInv
<1>6. \A d \in Origins(Came, disk[p].videos) : \E g \in Files' :
          ~IsPart(conf, g) /\ d \in Origins(Came, disk'[g].videos) /\ disk'[g].whole
  BY <1>1, <1>2, <1>4, <1>5 DEF DiscDone
<1>7. DiskInv(Came', conf', disk')
  <2>1. FirstPart(Came, conf, disk')
    BY <1>2, <1>4 DEF FirstPart, Files
  <2>2. SurviveInv(Came, disk')
    <3> SUFFICES ASSUME NEW d \in DOMAIN Came, Came[d].whole
                 PROVE  \E r \in Files' : d \in Origins(Came, disk'[r].videos) /\ disk'[r].whole
      BY DEF SurviveInv, Files
    <3>1. PICK r \in Files : d \in Origins(Came, disk[r].videos) /\ disk[r].whole
      BY <1>3 DEF DiskInv, SurviveInv, Files
    <3>2. CASE r # p
      BY <1>2, <3>1, <3>2
    <3>3. CASE r = p
      BY <1>6, <3>1, <3>3
    <3> QED
      BY <3>2, <3>3
  <2>3. Removes(disk, disk', {p})
    BY <1>2 DEF Removes, Files
  <2> QED
    BY <1>3, <2>1, <2>2, <2>3, RemoveKeeps
<1>8. NameInv' /\ CurInv' /\ BackedInv' /\ InputInv'
  BY <1>1, <1>2, <1>3 DEF NameInv, CurInv, BackedInv, InputInv, At
<1>9. FineInv'
  <2>1. conf.transcode /\ \A r \in Local : FineFile(r)
    BY <1>1 DEF Good, FineInv, Transcoding
  <2>2. (\A r \in Local : FineFile(r))'
    BY <1>2, <2>1 DEF Local, FineFile
  <2> QED
    BY <1>1, <2>1, <2>2 DEF FineInv, At, Transcoding
<1>10. SourceInv'
  <2>1. \A r \in Files : r.dir = "out" => FineFile(r)
    BY <1>1 DEF Good, SourceInv, Transcoding, Pending, At
  <2>2. \A r \in Files' : r.dir = "out" => FineFile(r)'
    BY <1>2, <2>1 DEF FineFile
  <2> QED
    BY <2>2 DEF SourceInv
<1>11. DoneInv'
  <2> SUFFICES ASSUME NEW r \in run.rem_list \cap Files' PROVE DiscDone(r)'
    BY <1>1 DEF DoneInv
  <2>1. r \in Files /\ IsPart(conf, r) /\ disk'[r] = disk[r]
    BY <1>2, <1>3 DEF InputInv
  <2>2. \A g \in Files : ~IsPart(conf, g) => g \in Files' /\ disk'[g] = disk[g]
    BY <1>2, <1>5
  <2> QED
    BY <1>1, <1>4, <2>1, <2>2 DEF DiscDone, OnlyDiscsLeft
<1> QED
  BY <1>7, <1>8, <1>9, <1>10, <1>11 DEF Good, WorkInv

\* TranscodedGood: what is handed over is not cut off.
LEMMA TranscodedGood ==
    ASSUME TypeInv, Good, Came' = Came, conf' = conf, Transcoded
    PROVE  Good'
<1>1. run.pc = "pick" /\ run.inputs = {} /\ disk' = disk
  BY DEF Transcoded, At
<1>2. CASE run' = Idle
  BY <1>1, <1>2, IdleTyped, EndGood
<1>3. CASE ~run.failed /\ run' = [Idle EXCEPT !.pc = "tag", !.dir = HandedDir]
  <2>1. run'.pc = "tag"
    BY <1>3 DEF Idle
  <2>2. \A p \in Files : FineFile(p)
    <3>1. \A p \in Local : FineFile(p)
      BY <1>1, <1>3 DEF Good, FineInv, Transcoding
    <3>2. \A p \in Files : p.dir = "out" => FineFile(p)
      BY <1>1, <1>3 DEF Good, SourceInv, Transcoding, Pending, At
    <3> QED
      BY <3>1, <3>2 DEF Local
  <2>3. NameInv' /\ FineInv' /\ WorkInv'
    BY <1>1, <2>1, <2>2, SameDisk DEF NameInv, FineInv, WorkInv, At, Transcoding
  <2>4. SourceInv'
    BY <1>1, <2>1, SameDisk DEF SourceInv, Transcoding
  <2> QED
    BY <1>1, <2>3, <2>4, SameDisk DEF Good
<1> QED
  BY <1>2, <1>3 DEF Transcoded

\* CrashGood: an attempt ends anywhere, and the file being written is cut off.
LEMMA CrashGood ==
    ASSUME TypeInv, Good, Fits(Came, conf), Came' = Came, conf' = conf, Crash
    PROVE  Good'
<1>1. run'.pc = "idle"
  BY IdleTyped DEF Crash
<1>2. CASE disk' = disk
  BY <1>1, <1>2, EndGood
<1>3. CASE At("encode") /\ run.cur \subseteq Files /\ disk' = With(NewFile, CutOff)
  <2>1. /\ DiskInv(Came', conf', disk')
        /\ (\A p \in Files : p.dir = "out" /\ ~FineFile(p) => \E f \in Local : Source(p, f))'
    BY <1>3, WriteSource
  <2>2. NameInv' /\ FineInv' /\ WorkInv'
    BY <1>1 DEF NameInv, FineInv, WorkInv, Transcoding, At
  <2>3. SourceInv'
    BY <1>1, <2>1 DEF SourceInv, Transcoding
  <2> QED
    BY <2>1, <2>2, <2>3 DEF Good
<1> QED
  BY <1>2, <1>3 DEF Crash

\* StepGood: every step of an attempt keeps it.
LEMMA StepGood ==
    ASSUME TypeInv, HeldInv, FreshInv, SurvInv, Next, Live'
    PROVE  Good'
<1>1. CASE Begin
  BY <1>1, BeginGood
<1>2. CASE ~Begin
  <2>1. ~At("idle")
    BY <1>2 DEF Next, Rename, Flatten, Renamed, Flattened, Check, List, Pick, Encode, Unlink,
       UnlinkPart, Transcoded, Tag, HandOver, Crash, At
  <2>2. Good /\ Fits(Came, conf) /\ Came' = Came /\ conf' = conf
    BY <2>1, LiveKept DEF HeldInv, SurvInv
  <2>3. CASE \E p \in run.todo : Rename(p) \/ Flatten(p)
    BY <2>2, <2>3, RenameGood, FlattenGood
  <2>4. CASE Renamed \/ Flattened
    BY <2>2, <2>4, RenamedGood
  <2>5. CASE List
    BY <2>2, <2>5, ListGood
  <2>6. CASE \E agent \in {"client", "manual"}, status \in {0, 1} : Check(agent, status)
    BY <2>2, <2>6, CheckKept
  <2>7. CASE \E in \in run.inputs : Pick(in)
    BY <2>2, <2>7, PickGood, IgnoredGood
  <2>8. CASE Encode
    BY <2>2, <2>8, EncodeGood
  <2>9. CASE Unlink
    BY <2>2, <2>9, UnlinkGood
  <2>10. CASE \E p \in run.rem_list : UnlinkPart(p)
    BY <2>2, <2>10, UnlinkPartGood
  <2>11. CASE Transcoded
    BY <2>2, <2>11, TranscodedGood
  <2>12. CASE \E p \in Files : Tag(p)
    BY <2>2, <2>12, TagGood
  <2>13. CASE HandOver
    <3>1. disk' = disk /\ run'.pc = "idle"
      BY <2>13, IdleTyped DEF HandOver, Goto, TypeInv, RunType
    <3> QED
      BY <2>2, <3>1, EndGood
  <2>14. CASE Crash
    BY <2>2, <2>14, CrashGood
  <2> QED
    BY <1>2, <2>3, <2>4, <2>5, <2>6, <2>7, <2>8, <2>9, <2>10, <2>11, <2>12, <2>13, <2>14 DEF Next
<1> QED
  BY <1>1, <1>2

\* SurvKept: a step keeps it where VideosSurvive speaks of the state after the step.
LEMMA SurvKept == TypeInv /\ HeldInv /\ FreshInv /\ SurvInv /\ [Next]_vars => SurvInv'
<1> SUFFICES ASSUME TypeInv, HeldInv, FreshInv, SurvInv, [Next]_vars, Live' PROVE Good'
  BY DEF SurvInv
<1>1. CASE Next
  BY <1>1, StepGood
<1>2. CASE UNCHANGED vars
  <2>1. Good
    BY <1>2, LiveKept DEF SurvInv
  <2>2. disk' = disk /\ run' = run /\ conf' = conf /\ Came' = Came
    BY <1>2 DEF vars, Came
  <2>3. Files' = Files /\ Local' = Local /\ Working' = Working /\ Pending' = Pending
    BY <2>2 DEF Files, Local, Working, Pending, At
  <2>4. NewFile' = NewFile /\ \A f : Target(f)' = Target(f)
    BY <2>2 DEF NewFile, NewPath, NewDir, Target
  <2>5. \A p : FineFile(p)' = FineFile(p)
    BY <2>2 DEF FineFile
  <2>6. \A p, f : Backs(p, f)' = Backs(p, f) /\ Source(p, f)' = Source(p, f)
    BY <2>2, <2>3, <2>4, <2>5 DEF Backs, Source, NewPath, NewDir
  <2>7. \A f : Backed(f)' = Backed(f) /\ Replaced(f)' = Replaced(f)
    BY <2>2, <2>3, <2>4, <2>6 DEF Backed, Replaced, Single, At
  <2>8. OnlyDiscsLeft' = OnlyDiscsLeft /\ \A i : AllDiscs(i)' = AllDiscs(i) /\ Single(i)' = Single(i)
    BY <2>2, <2>3 DEF OnlyDiscsLeft, AllDiscs, Single
  <2>9. NameInv' /\ FineInv' /\ SourceInv'
    <3>1. NameInv /\ FineInv /\ SourceInv
      BY <2>1 DEF Good
    <3> QED
      BY <2>2, <2>3, <2>5, <2>6, <3>1 DEF NameInv, FineInv, SourceInv, Transcoding, At, Ignored,
         NewPath, NewDir
  <2>10. WorkInv'
    <3> SUFFICES ASSUME Transcoding PROVE InputInv' /\ BackedInv' /\ CurInv' /\ DoneInv'
      BY <2>2 DEF WorkInv, Transcoding
    <3>1. InputInv /\ BackedInv /\ CurInv /\ DoneInv
      BY <2>1 DEF Good, WorkInv
    <3>2. InputInv' /\ BackedInv'
      BY <2>2, <2>3, <2>7, <2>8, <3>1 DEF InputInv, BackedInv
    <3>3. CurInv'
      BY <2>2, <2>3, <2>4, <2>5, <2>7, <2>8, <3>1 DEF CurInv, Ignored, At
    <3>4. DoneInv'
      BY <2>2, <2>3, <2>8, <3>1 DEF DoneInv, DiscDone
    <3> QED
      BY <3>2, <3>3, <3>4
  <2> QED
    BY <2>1, <2>2, <2>9, <2>10 DEF Good
<1> QED
  BY <1>1, <1>2

\* NoVideoLost: whatever fails and wherever an attempt ends, every intact video is whole
\* in some file, if the names of the download are apart and no attempt met what the
\* code does not provide for.
THEOREM NoVideoLost == Spec => []VideosSurvive
<1>1. Init => TypeInv /\ RejectInv /\ FreshInv /\ SurvInv
  BY InitTyped, InitHeld, InitGood, IdleTyped DEF Init, FreshInv
<1>2. TypeInv /\ RejectInv /\ FreshInv /\ SurvInv /\ [Next]_vars
         => TypeInv' /\ RejectInv' /\ FreshInv' /\ SurvInv'
  <2>1. TypeInv /\ RejectInv /\ [Next]_vars => TypeInv' /\ RejectInv'
    BY NextTyped, HeldKept, AnswerKept, WholeKept, RejectionKept DEF RejectInv
  <2> QED
    BY <2>1, FreshKept, SurvKept DEF RejectInv
<1>3. TypeInv /\ SurvInv => VideosSurvive
  BY GoodHolds DEF VideosSurvive, SurvInv, Live, Good
<1> QED
  BY <1>1, <1>2, <1>3, PTL DEF Spec

-----------------------------------------------------------------------------
(* A success hands over every intact video.  What holds the videos on the  *)
(* way is the download directory, while it is searched and as long as      *)
(* duplicates are kept; with an output directory it is the files in it and *)
(* those still to be transcoded.                                           *)

Sound == Undisturbed /\ history.left = {} /\ (conf.out => conf.ignore = {})

\* Every file that came whole is in a whole file of these.
HeldAmong(dl, dk, ps) ==
    \A d \in DOMAIN dl : dl[d].whole =>
        \E p \in ps : d \in Origins(dl, dk[p].videos) /\ dk[p].whole

HeldIn(ps) == HeldAmong(Came, disk, ps)

StartHeld ==
    run.pc \in {"rename", "flatten", "check", "list"} => run.dir = "top" /\ HeldIn(Local)

DuplicatesHeld == Transcoding /\ conf.duplicate => HeldIn(Local)

OutputHeld ==
    Transcoding /\ ~run.failed /\ conf.out =>
        \A d \in DOMAIN Came : Came[d].whole =>
            \/ \E g \in Files \ Local : d \in Origins(Came, disk[g].videos) /\ disk[g].whole
            \/ \E in \in Pending : \E p \in in : p \in Local /\ d \in Origins(Came, disk[p].videos)

HandedHeld ==
    /\ At("tag") \/ history.answer = "accepted" => HeldIn(In(run.dir))
    /\ history.answer = "skipped" => \A d \in DOMAIN Came : ~Came[d].whole

Held == StartHeld /\ DuplicatesHeld /\ OutputHeld /\ HandedHeld

SuccInv == Sound => Held

\* MoveHolds: what is overwritten by a file is in it, and stays held with it.
LEMMA MoveHolds ==
    ASSUME NEW dl, NEW cf, NEW dk, NEW dk2, NEW p, NEW q, Moves(dk, dk2, p, q), p # q,
           Fits(dl, cf), NamesInv(dl, cf, dk),
           q \in DOMAIN dk =>
               Fine(dl, dk[p]) /\ Core(p.stem) = Core(q.stem) /\ p.disc = q.disc,
           NEW ps, p \in ps, ps \subseteq DOMAIN dk, HeldAmong(dl, dk, ps),
           NEW ps2, q \in ps2, ps \ {p} \subseteq ps2
    PROVE  HeldAmong(dl, dk2, ps2)
<1>1. /\ p \in DOMAIN dk /\ dk2[q] = dk[p]
      /\ \A r \in DOMAIN dk : r # p /\ r # q => dk2[r] = dk[r]
  BY DEF Moves
<1> SUFFICES ASSUME NEW d \in DOMAIN dl, dl[d].whole
             PROVE  \E r \in ps2 : d \in Origins(dl, dk2[r].videos) /\ dk2[r].whole
  BY DEF HeldAmong
<1>2. PICK r \in ps : d \in Origins(dl, dk[r].videos) /\ dk[r].whole
  BY DEF HeldAmong
<1>3. CASE r # p /\ r # q
  BY <1>1, <1>2, <1>3
<1>4. CASE r = p
  BY <1>1, <1>2, <1>4
<1>5. CASE r = q
  <2>1. q \in DOMAIN dk /\ Alike(cf, p, q) /\ p.disc = q.disc /\ Fine(dl, dk[p])
    BY <1>2, <1>5 DEF Alike
  <2>2. d \in Origins(dl, dk[p].videos)
    BY <1>1, <1>2, <1>5, <2>1, MeetHolds
  <2>3. dk[p].whole
    BY <2>1, <2>2 DEF Fine
  <2> QED
    BY <1>1, <2>2, <2>3
<1> QED
  BY <1>3, <1>4, <1>5

\* SameHolds: files that stay as they are hold what they held.
LEMMA SameHolds ==
    ASSUME NEW dl, NEW dk, NEW dk2, NEW ps, NEW ps2, HeldAmong(dl, dk, ps), ps \subseteq ps2,
           \A r \in ps : dk2[r] = dk[r]
    PROVE  HeldAmong(dl, dk2, ps2)
BY DEF HeldAmong

\* NoOutHolds: without an output directory all files are in the download directory.
LEMMA NoOutHolds ==
    ASSUME NEW dl, NEW cf, NEW dk, DiskInv(dl, cf, dk), ~cf.out
    PROVE  HeldAmong(dl, dk, {p \in DOMAIN dk : p.dir # "out"})
<1>1. \A p \in DOMAIN dk : p.dir # "out"
  BY DEF DiskInv, CutInv
<1> QED
  BY <1>1 DEF DiskInv, SurviveInv, HeldAmong

\* NotHanded: nothing is claimed of an attempt that ends without a success.
LEMMA NotHanded ==
    ASSUME run'.pc = "idle", history'.answer \notin {"accepted", "skipped"}
    PROVE  Held'
BY DEF Held, StartHeld, DuplicatesHeld, OutputHeld, HandedHeld, Transcoding, At

-----------------------------------------------------------------------------

\* BeginHeld: an attempt starts with every video in the download directory.
LEMMA BeginHeld ==
    ASSUME TypeInv, HeldInv, Fits(Came, conf), Came' = Came, conf' = conf, Begin, Sound'
    PROVE  Held'
<1>1. disk' = disk /\ Local' = Local
  BY DEF Begin, Local, Files
<1>2. run'.pc = "rename" /\ run'.dir = "top" /\ history'.answer = "none"
  <2>1. {p \in Local : IsGarbage(p)} \subseteq Paths
    BY DEF TypeInv, DiskTyped, Named, Local, Files
  <2>2. Idle.dir = "top"
    BY DEF Idle
  <2> QED
    BY <2>1, <2>2, IdleTyped DEF Begin, RunType, TypeInv, HistoryType
<1>3. HeldIn(Local)
  <2>1. CASE history.runs = 0
    <3>1. disk = Came
      BY <2>1 DEF HeldInv, Came
    <3>2. \A d \in DOMAIN Came : d \in Local /\ d \in Origins(Came, disk[d].videos)
      <4>1. \A d \in DOMAIN Came : Origins(Came, Came[d].videos) = {d}
        BY CameGood
      <4>2. \A d \in DOMAIN Came : d.dir # "out"
        BY DEF Fits
      <4> QED
        BY <3>1, <4>1, <4>2 DEF Local, Files
    <3> QED
      BY <3>1, <3>2 DEF HeldIn, HeldAmong
  <2>2. CASE history.runs # 0
    <3>1. "moved" \notin LeftBehind
      <4>1. history'.left = history.left \cup LeftBehind
        BY <2>2 DEF Begin, TypeInv, HistoryType
      <4> HIDE DEF LeftBehind
      <4> QED
        BY <4>1 DEF Sound
    <3>2. \A v \in Intact : HeldBy(Local, v)
      BY <3>1 DEF LeftBehind
    <3> SUFFICES ASSUME NEW d \in DOMAIN Came, Came[d].whole
                 PROVE  \E p \in Local : d \in Origins(Came, disk[p].videos) /\ disk[p].whole
      BY DEF HeldIn, HeldAmong
    <3>3. PICK v \in Came[d].videos : TRUE
      BY DEF Fits
    <3>4. v \in Intact
      BY <3>3 DEF Intact, Came
    <3>5. PICK p \in Local : v \in disk[p].videos /\ disk[p].whole
      BY <3>2, <3>4 DEF HeldBy
    <3> QED
      BY <3>3, <3>5 DEF Origins
  <2> QED
    BY <2>1, <2>2
<1>4. HeldIn(Local)'
  BY <1>1, <1>3 DEF HeldIn
<1> QED
  BY <1>2, <1>4 DEF Held, StartHeld, DuplicatesHeld, OutputHeld, HandedHeld, Transcoding, At

\* SearchHeld: names and directories are changed without losing a video.
LEMMA SearchHeld ==
    ASSUME TypeInv, AnswerInv, Good, Fits(Came, conf), Came' = Came, conf' = conf, Held,
           \/ \E p \in run.todo : Rename(p) \/ Flatten(p)
           \/ Renamed \/ Flattened
    PROVE  Held'
<1>1. /\ run.pc \in {"rename", "flatten"} /\ run'.pc \in {"rename", "flatten", "check"}
      /\ run'.dir = run.dir /\ history' = history
  BY DEF Rename, Flatten, Renamed, Flattened, At, Goto, TypeInv, RunType
<1>2. history'.answer = "none" /\ run'.dir = "top" /\ HeldIn(Local)
  BY <1>1 DEF AnswerInv, At, Held, StartHeld
<1>3. DiskInv(Came, conf, disk) /\ Local \subseteq Files
  BY DEF Good, Local
<1>4. HeldIn(Local)'
  <2>1. CASE disk' = disk
    BY <1>2, <2>1 DEF HeldIn, Local, Files
  <2>2. ASSUME NEW p \in run.todo, Rename(p), disk' # disk PROVE HeldIn(Local)'
    <3> DEFINE t == FreeName(NewName(p))
    <3>1. /\ run.pc = "rename" /\ p \in Local /\ p \in Files /\ p \in Paths
          /\ disk' = Moved(p, t)
      BY <2>2 DEF Rename, At, TypeInv, Named, Local
    <3>2. /\ t \in Paths /\ t.dir = p.dir /\ t.disc = p.disc /\ t.ext = p.ext
          /\ \/ t.stem = <<Name>> /\ t \notin DOMAIN disk
             \/ t.stem = <<Name, "NTM">> /\ \E n \in DOMAIN disk : n.stem = <<Name>> /\ n.disc = p.disc
      BY <3>1, NewNames DEF Files
    <3> HIDE DEF t
    <3>3. Moves(disk, disk', p, t) /\ Files' = (Files \ {p}) \cup {t}
      BY <3>1, MovedMoves
    <3>4. t \notin DOMAIN disk /\ t # p
      <4>1. Renames(Came, conf, disk, p)
        BY <2>2, <3>1 DEF Good, NameInv, At
      <4>2. \A r \in DOMAIN disk : r \in Paths /\ r.stem # <<>>
        BY DEF TypeInv, DiskTyped, Named, Files
      <4> QED
        BY <1>3, <3>1, <3>2, <4>1, <4>2, RenameFresh DEF Files, DiskInv
    <3>5. t \in Local' /\ Local \ {p} \subseteq Local'
      BY <3>1, <3>2, <3>3 DEF Local
    <3> QED
      BY <1>2, <1>3, <3>1, <3>3, <3>4, <3>5, MoveHolds DEF HeldIn, DiskInv, Files
  <2>3. ASSUME NEW p \in run.todo, Flatten(p), disk' # disk PROVE HeldIn(Local)'
    <3> DEFINE q == [p EXCEPT !.dir = "top"]
    <3>1. /\ run.pc = "flatten" /\ p \in Local /\ p \in Files /\ p \in Paths /\ p.dir # "top"
          /\ disk' = Moved(p, q)
      BY <2>3 DEF Flatten, At, TypeInv, Named, Local, Good, NameInv
    <3>2. /\ q.dir = "top" /\ q.stem = p.stem /\ q.disc = p.disc /\ p # q
      BY <3>1 DEF Paths
    <3> HIDE DEF q
    <3>3. Moves(disk, disk', p, q) /\ Files' = (Files \ {p}) \cup {q}
      BY <3>1, MovedMoves
    <3>4. Fine(Came, disk[p])
      BY <1>3, <3>1 DEF DiskInv, CutInv, OutDir, Files, Local
    <3>5. q \in Local' /\ Local \ {p} \subseteq Local'
      BY <3>1, <3>2, <3>3 DEF Local
    <3> QED
      BY <1>2, <1>3, <3>1, <3>2, <3>3, <3>4, <3>5, MoveHolds DEF HeldIn, DiskInv, Files
  <2> QED
    BY <2>1, <2>2, <2>3 DEF Renamed, Flattened
<1> QED
  BY <1>1, <1>2, <1>4 DEF Held, StartHeld, DuplicatesHeld, OutputHeld, HandedHeld, Transcoding, At

\* CheckHeld: what is handed over without transcoding is the download directory.
LEMMA CheckHeld ==
    ASSUME TypeInv, AnswerInv, Came' = Came, conf' = conf, Held,
           NEW agent, NEW status, Check(agent, status)
    PROVE  Held'
<1>1. run.pc = "check" /\ run.dir = "top" /\ history.answer = "none" /\ HeldIn(Local)
  BY DEF Check, At, AnswerInv, Held, StartHeld
<1>2. CASE CheckEmpty(agent)
  <2>1. run'.pc = "idle" /\ history'.answer \in {"skipped", "rejected"} /\ Local = {}
    BY <1>2, IdleTyped DEF CheckEmpty, Answer, TypeInv, HistoryType
  <2>2. \A d \in DOMAIN Came : ~Came[d].whole
    BY <1>1, <2>1 DEF HeldIn, HeldAmong
  <2> QED
    BY <2>1, <2>2 DEF Held, StartHeld, DuplicatesHeld, OutputHeld, HandedHeld, Transcoding, At
<1>3. CASE CheckBad(status)
  <2>1. run'.pc = "idle" /\ history'.answer = "rejected"
    BY <1>3, IdleTyped DEF CheckBad, TypeInv, HistoryType, RunType
  <2> QED
    BY <2>1, NotHanded
<1>4. CASE CheckGood(status)
  <2>1. /\ disk' = disk /\ history'.answer = "none" /\ run'.dir = "top"
        /\ run'.pc \in {"list", "tag"}
    BY <1>1, <1>4 DEF CheckGood, Goto, TypeInv, RunType
  <2>2. HeldIn(Local)' /\ HeldIn(In(run.dir))'
    BY <1>1, <2>1 DEF HeldIn, In, Local, Files
  <2> QED
    BY <2>1, <2>2 DEF Held, StartHeld, DuplicatesHeld, OutputHeld, HandedHeld, Transcoding, At
<1> QED
  BY <1>2, <1>3, <1>4 DEF Check

\* LocalLike: while only the output directory changes, DuplicatesHeld stays, and without
\* one it follows from what is known of the disk.
LEMMA LocalLike ==
    ASSUME Came' = Came, conf' = conf, Good', HeldIn(Local),
           conf.out => Local \subseteq Local' /\ \A r \in Local : disk'[r] = disk[r]
    PROVE  HeldIn(Local)'
<1>1. CASE conf.out
  BY <1>1, SameHolds DEF HeldIn
<1>2. CASE ~conf.out
  <2>1. DiskInv(Came', conf', disk')
    BY DEF Good
  <2>2. Local' = {p \in DOMAIN disk' : p.dir # "out"}
    BY DEF Local, Files
  <2> QED
    BY <1>2, <2>1, <2>2, NoOutHolds DEF HeldIn
<1> QED
  BY <1>1, <1>2

\* InputThere: with an output directory, inputs are files of the download directory.
LEMMA InputThere ==
    ASSUME Good, Transcoding, conf.out, NEW in \in run.inputs
    PROVE  in \subseteq Local
<1>1. Single(in) \/ AllDiscs(in)
  BY DEF Good, WorkInv, InputInv
<1>2. \A p \in in : p \in Files /\ p.dir # "out"
  BY <1>1 DEF Single, AllDiscs, Discs, Good, DiskInv, PartsInv, Files
<1> QED
  BY <1>2 DEF Local

\* Transcodes: between two steps of transcoding.
LEMMA TranscodesHeld ==
    ASSUME history.answer = "none", history' = history,
           Transcoding, Transcoding', DuplicatesHeld', OutputHeld'
    PROVE  Held'
BY DEF Held, StartHeld, HandedHeld, Transcoding, At

\* ListHeld: every file of the download directory is an input, or a disc of one.
LEMMA ListHeld ==
    ASSUME TypeInv, FreshInv, AnswerInv, Good, Fits(Came, conf), Came' = Came, conf' = conf,
           Live', Held, List
    PROVE  Held'
<1> DEFINE inputs == {{p} : p \in Local \ Parts} \cup {Joined(p) : p \in Parts}
<1>1. disk' = disk /\ run.pc = "list" /\ run'.inputs = inputs /\ run'.pc = "pick"
  BY ListInputs
<1>2. \A p \in Parts : p \in Joined(p)
  BY ListInputs
<1>3. HeldIn(Local) /\ history'.answer = "none"
  BY <1>1 DEF Held, StartHeld, AnswerInv, At, List, TypeInv, HistoryType
<1>4. HeldIn(Local)'
  BY <1>1, <1>3 DEF HeldIn, Local, Files
<1>5. \A p \in Local : \E in \in inputs : p \in in
  <2>1. \A p \in Local \ Parts : {p} \in inputs
    OBVIOUS
  <2>2. \A p \in Parts : Joined(p) \in inputs
    OBVIOUS
  <2> HIDE DEF inputs
  <2> QED
    BY <1>2, <2>1, <2>2
<1> HIDE DEF inputs
<1>6. OutputHeld'
  <2> SUFFICES ASSUME NEW d \in DOMAIN Came, Came[d].whole
               PROVE  \E in \in Pending' : \E p \in in :
                          p \in Local' /\ d \in Origins(Came, disk'[p].videos)
    BY DEF OutputHeld
  <2>1. PICK p \in Local' : d \in Origins(Came, disk'[p].videos)
    BY <1>4 DEF HeldIn, HeldAmong
  <2>2. PICK in \in inputs : p \in in
    BY <1>1, <1>5, <2>1 DEF Local, Files
  <2>3. in \in Pending'
    BY <1>1 DEF Pending
  <2> QED
    BY <2>1, <2>2, <2>3
<1> QED
  BY <1>1, <1>3, <1>4, <1>6 DEF Held, StartHeld, DuplicatesHeld, HandedHeld, Transcoding, At

\* PickHeld: what is in the way of a new file is held by what that is made of.
LEMMA PickHeld ==
    ASSUME TypeInv, AnswerInv, Good, Good', Fits(Came, conf), Came' = Came, conf' = conf,
           conf.out => conf.ignore = {}, Held, NEW in \in run.inputs, Pick(in)
    PROVE  Held'
<1> DEFINE f == FileOf(in)
           q == NewPath(f, Suffix(f))
<1>1. run.pc = "pick" /\ history' = history /\ history.answer = "none"
  BY DEF Pick, At, AnswerInv
<1>2. InputInv /\ BackedInv /\ DiskInv(Came, conf, disk)
  BY <1>1 DEF Good, WorkInv, Transcoding
<1>3. CASE Ignored(in)
  <2>1. /\ disk' = disk /\ run'.pc = "pick" /\ ~conf.out
    BY <1>3 DEF Pick, Ignored, At, TypeInv, RunType
  <2>2. DuplicatesHeld'
    BY <1>1, <2>1, LocalLike DEF Held, DuplicatesHeld, Transcoding
  <2>3. OutputHeld'
    BY <2>1 DEF OutputHeld
  <2> QED
    BY <1>1, <2>1, <2>2, <2>3, TranscodesHeld DEF Transcoding
<1>4. CASE ~Ignored(in)
  <2>1. /\ disk' = Without({q})
        /\ run' = [run EXCEPT !.pc = "encode", !.inputs = @ \ {in}, !.cur = in, !.suffix = Suffix(f)]
    BY <1>4 DEF Pick
  <2>2. Files' = Files \ {q} /\ \A r \in Files' : disk'[r] = disk[r]
    BY <2>1 DEF Without, Files
  <2>3. f \in Paths /\ run.suffix \in {<<>>, <<"transcoded">>}
    BY <1>2, FileOfInput DEF TypeInv, InputInv
  <2>4. Suffix(f) \in {<<>>, <<"transcoded">>}
    BY <2>3, NewPathOther
  <2>5. Alike(conf, q, f) /\ Alike(conf, f, q) /\ q.dir = OutDir(conf)
    BY <2>3, <2>4, NewPathAlike
  <2>6. /\ run'.pc = "encode" /\ run'.inputs = run.inputs \ {in} /\ run'.cur = in
        /\ run'.failed = run.failed
    <3> HIDE DEF f
    <3>1. Suffix(f) \in Seq(Words)
      BY SuffixTyped
    <3> QED
      BY <2>1, <3>1 DEF TypeInv, RunType
  <2>7. /\ Single(in) => in = {f} /\ ~IsPart(conf, f)
        /\ AllDiscs(in) => f \in in /\ Discs(Came, conf, disk, in)
        /\ Single(in) \/ AllDiscs(in)
    BY <1>2, InputFile DEF InputInv, AllDiscs
  <2> HIDE DEF f, q
  <2>8. conf.out => Local \subseteq Local' /\ \A r \in Local : disk'[r] = disk[r]
    BY <2>2, <2>5 DEF OutDir, Local
  <2>9. DuplicatesHeld'
    BY <1>1, <2>6, <2>8, LocalLike DEF Held, DuplicatesHeld, Transcoding
  <2>10. OutputHeld'
    <3> SUFFICES ASSUME conf.out, ~run.failed, NEW d \in DOMAIN Came, Came[d].whole
                 PROVE  \/ \E g \in Files' \ Local' : d \in Origins(Came, disk'[g].videos) /\ disk'[g].whole
                        \/ \E i \in Pending' : \E p \in i :
                              p \in Local' /\ d \in Origins(Came, disk'[p].videos)
      BY <2>6 DEF OutputHeld
    <3>1. Pending' = Pending /\ in \in Pending
      BY <1>1, <2>6 DEF Pending, At
    <3>2. \/ \E g \in Files \ Local : d \in Origins(Came, disk[g].videos) /\ disk[g].whole
          \/ \E i \in Pending : \E p \in i : p \in Local /\ d \in Origins(Came, disk[p].videos)
      BY <1>1 DEF Held, OutputHeld, Transcoding
    <3>3. ASSUME NEW g \in Files \ Local, d \in Origins(Came, disk[g].videos), disk[g].whole, g # q
          PROVE  g \in Files' \ Local' /\ d \in Origins(Came, disk'[g].videos) /\ disk'[g].whole
      BY <2>2, <3>3 DEF Local
    <3>4. ASSUME q \in Files, d \in Origins(Came, disk[q].videos)
          PROVE  \E p \in in : p \in Local /\ d \in Origins(Came, disk[p].videos)
      <4>1. in \subseteq Local
        BY <1>1, InputThere DEF Transcoding
      <4>2. CASE Single(in)
        <5>1. f \in Local /\ f \in DOMAIN disk
          BY <2>7, <4>1, <4>2 DEF Local, Files
        <5>2. d \in Origins(Came, disk[f].videos)
          BY <1>2, <2>5, <2>7, <3>4, <4>2, <5>1, MeetHolds DEF DiskInv, Files
        <5> QED
          BY <2>7, <4>2, <5>1, <5>2
      <4>3. CASE AllDiscs(in)
        <5>1. PICK r \in in : d \in Origins(Came, disk[r].videos)
          BY <1>2, <2>5, <2>7, <3>4, <4>3, DiscsCover DEF Files
        <5> QED
          BY <4>1, <5>1
      <4> QED
        BY <2>7, <4>2, <4>3
    <3> QED
      BY <2>8, <3>1, <3>2, <3>3, <3>4
  <2> QED
    BY <1>1, <2>6, <2>9, <2>10, TranscodesHeld DEF Transcoding
<1> QED
  BY <1>3, <1>4

\* EncodeHeld: what was to be transcoded is in the output directory.
LEMMA EncodeHeld ==
    ASSUME TypeInv, AnswerInv, Good, Good', Fits(Came, conf), Came' = Came, conf' = conf,
           Held, Encode
    PROVE  Held'
<1>1. run.pc = "encode" /\ history' = history /\ history.answer = "none"
  BY DEF Encode, At, AnswerInv
<1>2. run'.pc \in {"pick", "unlink"} /\ run'.inputs = run.inputs
  BY DEF Encode, TypeInv, RunType
<1>3. \/ disk' = disk
      \/ \E c : disk' = With(NewFile, c)
  BY DEF Encode
<1>4. conf.out => NewFile \notin Local
  BY DEF Local, NewFile, NewPath, NewDir
<1>5. conf.out => Local \subseteq Local' /\ \A r \in Local : disk'[r] = disk[r]
  BY <1>3, <1>4 DEF With, Local, Files
<1>6. DuplicatesHeld'
  BY <1>1, <1>2, <1>5, LocalLike DEF Held, DuplicatesHeld, Transcoding
<1>7. CASE run'.failed
  <2>1. OutputHeld'
    BY <1>7 DEF OutputHeld
  <2> QED
    BY <1>1, <1>2, <1>6, <2>1, TranscodesHeld DEF Transcoding
<1>8. CASE ~run'.failed
  <2>1. /\ run.cur \subseteq Files /\ disk' = With(NewFile, Content(run.cur))
        /\ run' = [run EXCEPT !.pc = "unlink", !.failed = Result(FALSE)]
    BY <1>8 DEF Encode, Result, TypeInv, RunType
  <2>2. run'.pc = "unlink" /\ ~run.failed
    BY <1>8, <2>1 DEF Result, TypeInv, RunType
  <2>3. PICK n, c : n = NewFile /\ c = Content(run.cur)
    OBVIOUS
  <2>4. Files' = Files \cup {n} /\ n \notin Files /\ disk'[n] = c
        /\ \A r \in Files : disk'[r] = disk[r]
    BY <1>1, <2>1, <2>3, WriteDisk DEF At
  <2>5. Fine(Came, c)
    BY <1>1, <2>1, <2>2, <2>3, NewFileFine DEF At
  <2>6. OutputHeld'
    <3> SUFFICES ASSUME conf.out, NEW d \in DOMAIN Came, Came[d].whole
                 PROVE  \/ \E g \in Files' \ Local' : d \in Origins(Came, disk'[g].videos) /\ disk'[g].whole
                        \/ \E i \in Pending' : \E p \in i :
                              p \in Local' /\ d \in Origins(Came, disk'[p].videos)
      BY DEF OutputHeld
    <3>1. \/ \E g \in Files \ Local : d \in Origins(Came, disk[g].videos) /\ disk[g].whole
          \/ \E i \in Pending : \E p \in i : p \in Local /\ d \in Origins(Came, disk[p].videos)
      BY <1>1, <2>2 DEF Held, OutputHeld, Transcoding
    <3>2. \A g \in Files \ Local : g \in Files' \ Local' /\ disk'[g] = disk[g]
      BY <2>4 DEF Local
    <3>3. ASSUME NEW p \in run.cur, d \in Origins(Came, disk[p].videos)
          PROVE  n \in Files' \ Local' /\ d \in Origins(Came, disk'[n].videos) /\ disk'[n].whole
      <4>1. disk[p].videos \subseteq c.videos
        BY <2>3 DEF Content
      <4>2. d \in Origins(Came, c.videos)
        BY <3>3, <4>1 DEF Origins
      <4>3. c.whole
        BY <2>5, <4>2 DEF Fine
      <4>4. n.dir = "out"
        BY <2>3 DEF NewFile, NewPath, NewDir
      <4> QED
        BY <2>4, <4>2, <4>3, <4>4 DEF Local
    <3>4. Pending' = run.inputs /\ Pending = run.inputs \cup {run.cur}
      BY <1>1, <1>2, <2>2 DEF Pending, At
    <3> QED
      BY <1>5, <3>1, <3>2, <3>3, <3>4
  <2> QED
    BY <1>1, <1>2, <1>6, <2>6, TranscodesHeld DEF Transcoding
<1> QED
  BY <1>7, <1>8

\* UnlinkHeld: an original that is removed is no input any more.
LEMMA UnlinkHeld ==
    ASSUME TypeInv, AnswerInv, Good, Good', Came' = Came, conf' = conf, Held, Unlink
    PROVE  Held'
<1>1. /\ run.pc = "unlink" /\ history' = history /\ history.answer = "none"
      /\ run'.pc = "pick" /\ run'.inputs = run.inputs /\ run'.failed = run.failed
  BY DEF Unlink, At, Goto, AnswerInv, TypeInv, RunType
<1>2. PICK f : f = FileOf(run.cur)
  OBVIOUS
<1>3. /\ conf.duplicate => disk' = disk
      /\ Files \ {f} \subseteq Files' /\ Files' \subseteq Files
      /\ \A r \in Files' : disk'[r] = disk[r]
  BY <1>2 DEF Unlink, Without, Files
<1>4. DuplicatesHeld'
  <2> SUFFICES ASSUME conf.duplicate PROVE HeldIn(Local)'
    BY DEF DuplicatesHeld
  <2>1. HeldIn(Local)
    BY <1>1 DEF Held, DuplicatesHeld, Transcoding
  <2> QED
    BY <1>3, <2>1 DEF HeldIn, Local, Files
<1>5. OutputHeld'
  <2> SUFFICES ASSUME conf.out, ~run.failed, NEW d \in DOMAIN Came, Came[d].whole
               PROVE  \/ \E g \in Files' \ Local' : d \in Origins(Came, disk'[g].videos) /\ disk'[g].whole
                      \/ \E i \in Pending' : \E p \in i :
                            p \in Local' /\ d \in Origins(Came, disk'[p].videos)
    BY <1>1 DEF OutputHeld
  <2>1. \/ \E g \in Files \ Local : d \in Origins(Came, disk[g].videos) /\ disk[g].whole
        \/ \E i \in run.inputs : \E p \in i : p \in Local /\ d \in Origins(Came, disk[p].videos)
    BY <1>1 DEF Held, OutputHeld, Transcoding, Pending, At
  <2>2. f.dir # "out"
    <3>1. InputInv /\ CurInv /\ DiskInv(Came, conf, disk)
      BY <1>1 DEF Good, WorkInv, Transcoding
    <3>2. AllDiscs(run.cur) \/ Single(run.cur)
      BY <1>1, <3>1 DEF CurInv, At
    <3> QED
      BY <1>2, <3>1, <3>2, InputFile
  <2>3. \A g \in Files \ Local : g \in Files' \ Local' /\ disk'[g] = disk[g]
    BY <1>3, <2>2 DEF Local
  <2>4. ASSUME NEW i \in run.inputs, NEW p \in i PROVE p \in Local' /\ disk'[p] = disk[p]
    <3>1. (Single(i) \/ AllDiscs(i))'
      BY <1>1 DEF Good, WorkInv, InputInv, Transcoding
    <3>2. p \in Files' /\ p.dir # "out"
      BY <3>1 DEF Single, AllDiscs, Discs, Good, DiskInv, PartsInv, Files
    <3> QED
      BY <1>3, <3>2 DEF Local
  <2>5. Pending' = run.inputs
    BY <1>1 DEF Pending, At
  <2> QED
    BY <2>1, <2>3, <2>4, <2>5
<1> QED
  BY <1>1, <1>4, <1>5, TranscodesHeld DEF Transcoding

\* UnlinkPartHeld: the discs that are removed are in the download directory.
LEMMA UnlinkPartHeld ==
    ASSUME TypeInv, AnswerInv, Good, Came' = Came, conf' = conf, Held,
           NEW p \in run.rem_list, UnlinkPart(p)
    PROVE  Held'
<1>1. /\ run.pc = "pick" /\ run.inputs = {} /\ ~run.failed /\ ~conf.duplicate
      /\ p \in Files /\ disk' = Without({p}) /\ run' = run
      /\ history' = history /\ history.answer = "none"
  BY DEF UnlinkPart, At, RemovesParts, AnswerInv
<1>2. Files' = Files \ {p} /\ \A r \in Files' : disk'[r] = disk[r]
  BY <1>1 DEF Without, Files
<1>3. p.dir # "out"
  <2>1. InputInv /\ DiskInv(Came, conf, disk)
    BY <1>1 DEF Good, WorkInv, Transcoding
  <2> QED
    BY <1>1, <2>1 DEF InputInv, DiskInv, PartsInv, Files
<1>4. OutputHeld'
  <2> SUFFICES ASSUME conf.out, NEW d \in DOMAIN Came, Came[d].whole
               PROVE  \E g \in Files' \ Local' : d \in Origins(Came, disk'[g].videos) /\ disk'[g].whole
    BY DEF OutputHeld
  <2>1. PICK g \in Files \ Local : d \in Origins(Came, disk[g].videos) /\ disk[g].whole
    BY <1>1 DEF Held, OutputHeld, Transcoding, Pending, At
  <2> QED
    BY <1>2, <1>3, <2>1 DEF Local
<1>5. DuplicatesHeld'
  BY <1>1 DEF DuplicatesHeld
<1> QED
  BY <1>1, <1>4, <1>5, TranscodesHeld DEF Transcoding

\* TranscodedHeld: the directory that is handed over has the videos.
LEMMA TranscodedHeld ==
    ASSUME TypeInv, AnswerInv, Good, Came' = Came, conf' = conf, Held, Transcoded
    PROVE  Held'
<1>1. run.pc = "pick" /\ run.inputs = {} /\ disk' = disk /\ history.answer = "none"
  BY DEF Transcoded, At, AnswerInv
<1>2. CASE Answer("failed") /\ run' = Idle
  BY <1>2, IdleTyped, NotHanded DEF Answer, TypeInv, HistoryType
<1>3. CASE ~run.failed /\ run' = [Idle EXCEPT !.pc = "tag", !.dir = HandedDir] /\ history' = history
  <2>1. run'.pc = "tag" /\ run'.dir = HandedDir
    <3> HIDE DEF HandedDir
    <3> QED
      BY <1>3 DEF Idle
  <2>2. HeldIn(In(HandedDir))
    <3>1. CASE ~conf.out
      <4>1. In(HandedDir) = {p \in DOMAIN disk : p.dir # "out"}
        BY <3>1 DEF HandedDir, NewDir, In, Local, Files
      <4> QED
        BY <3>1, <4>1, NoOutHolds DEF Good, HeldIn
    <3>2. CASE conf.out
      <4>1. HeldIn(Files \ Local)
        BY <1>1, <1>3, <3>2 DEF Held, OutputHeld, Transcoding, Pending, At, HeldIn, HeldAmong
      <4>2. CASE HandedDir = "out"
        BY <4>1, <4>2 DEF In
      <4>3. CASE HandedDir = "top" /\ conf.duplicate
        BY <1>1, <4>3 DEF Held, DuplicatesHeld, Transcoding, In
      <4>4. CASE HandedDir = "top" /\ ~conf.duplicate
        <5>1. Files \ Local = {}
          BY <3>2, <4>4 DEF HandedDir, NewDir, In
        <5> QED
          BY <4>1, <5>1 DEF HeldIn, HeldAmong
      <4> QED
        BY <3>2, <4>2, <4>3, <4>4 DEF HandedDir, NewDir
    <3> QED
      BY <3>1, <3>2
  <2>3. HeldIn(In(run.dir))'
    BY <1>1, <2>1, <2>2 DEF HeldIn, In, Local, Files
  <2> QED
    BY <1>1, <1>3, <2>1, <2>3 DEF Held, StartHeld, DuplicatesHeld, OutputHeld, HandedHeld,
       Transcoding, At
<1> QED
  BY <1>2, <1>3 DEF Transcoded

\* TagHeld: names are tagged without losing a video.
LEMMA TagHeld ==
    ASSUME TypeInv, AnswerInv, Good, Fits(Came, conf), Came' = Came, conf' = conf, Held,
           NEW p \in Files, Tag(p)
    PROVE  Held'
<1> DEFINE q == [p EXCEPT !.stem = Append(@, "cp")]
<1>1. /\ run.pc = "tag" /\ run' = run /\ disk' = Moved(p, q) /\ p \in Paths
      /\ p \in In(run.dir) /\ history' = history /\ history.answer = "none"
  BY DEF Tag, Untagged, At, AnswerInv, TypeInv, DiskTyped, Named, Files
<1>2. q.dir = p.dir /\ q.disc = p.disc /\ Core(p.stem) = Core(q.stem) /\ p # q
  BY <1>1, TaggedName
<1> HIDE DEF q
<1>3. Moves(disk, disk', p, q) /\ Files' = (Files \ {p}) \cup {q}
  BY <1>1, <1>2, MovedMoves
<1>4. Fine(Came, disk[p]) /\ NamesInv(Came, conf, disk)
  BY <1>1 DEF Good, FineInv, FineFile, DiskInv, At
<1>5. HeldIn(In(run.dir)) /\ In(run.dir) \subseteq DOMAIN disk
  BY <1>1 DEF Held, HandedHeld, At, In, Local, Files
<1>6. q \in In(run.dir)' /\ In(run.dir) \ {p} \subseteq In(run.dir)'
  BY <1>1, <1>2, <1>3 DEF In, Local
<1>7. HeldIn(In(run.dir))'
  BY <1>1, <1>2, <1>3, <1>4, <1>5, <1>6, MoveHolds DEF HeldIn
<1> QED
  BY <1>1, <1>7 DEF Held, StartHeld, DuplicatesHeld, OutputHeld, HandedHeld, Transcoding, At

\* HandOverHeld: an answer claims what was handed over.
LEMMA HandOverHeld ==
    ASSUME TypeInv, Came' = Came, conf' = conf, Held, HandOver
    PROVE  Held'
<1>1. run.pc = "tag" /\ disk' = disk /\ HeldIn(In(run.dir))
  BY DEF HandOver, At, Held, HandedHeld
<1>2. CASE Answer("failed") /\ run' = Idle
  BY <1>2, IdleTyped, NotHanded DEF Answer, TypeInv, HistoryType
<1>3. CASE Answer("accepted") /\ Goto("idle")
  <2>1. run'.pc = "idle" /\ run'.dir = run.dir /\ history'.answer = "accepted"
    BY <1>3 DEF Answer, Goto, TypeInv, RunType, HistoryType
  <2>2. HeldIn(In(run.dir))'
    BY <1>1, <2>1 DEF HeldIn, In, Local, Files
  <2> QED
    BY <2>1, <2>2 DEF Held, StartHeld, DuplicatesHeld, OutputHeld, HandedHeld, Transcoding, At
<1> QED
  BY <1>2, <1>3 DEF HandOver

\* StepHeld: every step keeps the videos where a success will look for them.
LEMMA StepHeld ==
    ASSUME TypeInv, HeldInv, AnswerInv, FreshInv, SurvInv, SurvInv', SuccInv, Next, Sound'
    PROVE  Held'
<1>1. Live' /\ Came' = Came /\ conf' = conf /\ Fits(Came, conf) /\ Undisturbed
  <2>1. Live'
    BY DEF Sound, Live
  <2> QED
    BY <2>1, LiveKept
<1>2. CASE Begin
  BY <1>1, <1>2, BeginHeld
<1>3. CASE ~Begin
  <2>1. ~At("idle") /\ history.runs # 0
    BY <1>3 DEF Next, Rename, Flatten, Renamed, Flattened, Check, List, Pick, Encode, Unlink,
       UnlinkPart, Transcoded, Tag, HandOver, Crash, At, HeldInv
  <2>2. Good /\ Good' /\ Held /\ (conf.out => conf.ignore = {})
    <3>1. Sound
      BY <1>1, <2>1, HistoryGrows DEF Sound
    <3> QED
      BY <1>1, <3>1 DEF SurvInv, SuccInv, Sound, Live
  <2>3. CASE (\E p \in run.todo : Rename(p) \/ Flatten(p)) \/ Renamed \/ Flattened
    BY <1>1, <2>2, <2>3, SearchHeld
  <2>4. CASE List
    BY <1>1, <2>2, <2>4, ListHeld
  <2>5. CASE \E agent \in {"client", "manual"}, status \in {0, 1} : Check(agent, status)
    BY <1>1, <2>2, <2>5, CheckHeld
  <2>6. CASE \E in \in run.inputs : Pick(in)
    BY <1>1, <2>2, <2>6, PickHeld
  <2>7. CASE Encode
    BY <1>1, <2>2, <2>7, EncodeHeld
  <2>8. CASE Unlink
    BY <1>1, <2>2, <2>8, UnlinkHeld
  <2>9. CASE \E p \in run.rem_list : UnlinkPart(p)
    BY <1>1, <2>2, <2>9, UnlinkPartHeld
  <2>10. CASE Transcoded
    BY <1>1, <2>2, <2>10, TranscodedHeld
  <2>11. CASE \E p \in Files : Tag(p)
    BY <1>1, <2>2, <2>11, TagHeld
  <2>12. CASE HandOver
    BY <1>1, <2>2, <2>12, HandOverHeld
  <2>13. CASE Crash
    <3>1. run'.pc = "idle" /\ history'.answer = "none"
      BY <2>1, <2>13, IdleTyped DEF Crash, AnswerInv
    <3> QED
      BY <3>1, NotHanded
  <2> QED
    BY <1>3, <2>3, <2>4, <2>5, <2>6, <2>7, <2>8, <2>9, <2>10, <2>11, <2>12, <2>13 DEF Next
<1> QED
  BY <1>2, <1>3

LEMMA SuccKept ==
    ASSUME TypeInv, HeldInv, AnswerInv, FreshInv, SurvInv, SurvInv', SuccInv, [Next]_vars
    PROVE  SuccInv'
<1> SUFFICES ASSUME Sound' PROVE Held'
  BY DEF SuccInv
<1>1. CASE Next
  BY <1>1, StepHeld
<1>2. CASE UNCHANGED vars
  <2>1. disk' = disk /\ run' = run /\ conf' = conf /\ history' = history /\ Came' = Came
    BY <1>2 DEF vars, Came
  <2>2. Sound
    <3>1. Live'
      BY DEF Sound, Live
    <3>2. Undisturbed
      BY <3>1, LiveKept
    <3> QED
      BY <2>1, <3>2 DEF Sound
  <2>3. Held
    BY <2>2 DEF SuccInv
  <2>4. Files' = Files /\ Local' = Local /\ In(run.dir)' = In(run.dir) /\ Pending' = Pending
        /\ \A ps : HeldIn(ps)' = HeldIn(ps)
    BY <2>1 DEF Files, Local, In, Pending, At, HeldIn
  <2>5. StartHeld' /\ DuplicatesHeld' /\ HandedHeld'
    BY <2>1, <2>3, <2>4 DEF Held, StartHeld, DuplicatesHeld, HandedHeld, Transcoding, At, HeldIn
  <2>6. OutputHeld'
    BY <2>1, <2>3, <2>4 DEF Held, OutputHeld, Transcoding
  <2> QED
    BY <2>5, <2>6 DEF Held
<1> QED
  BY <1>1, <1>2

\* SuccessMeant: from the invariants, what a success says of every intact video.
LEMMA SuccessMeant ==
    ASSUME TypeInv, SurvInv, SuccInv
    PROVE  SuccessIsWhole
<1> SUFFICES ASSUME history.answer \in {"accepted", "skipped"}, Sound, NEW v \in Intact
             PROVE  history.answer = "accepted" /\ HeldBy(In(run.dir), v)
  BY DEF SuccessIsWhole, Sound
<1>1. HandedHeld /\ DiskInv(Came, conf, disk)
  BY DEF SuccInv, Held, SurvInv, Sound, Live, Good
<1>2. PICK d \in DOMAIN Came : Came[d].whole /\ v \in Came[d].videos
  BY DEF Intact, Came
<1>3. history.answer = "accepted" /\ HeldIn(In(run.dir))
  BY <1>1, <1>2 DEF HandedHeld
<1>4. PICK p \in In(run.dir) : d \in Origins(Came, disk[p].videos) /\ disk[p].whole
  BY <1>2, <1>3 DEF HeldIn, HeldAmong
<1>5. Came[d].videos \subseteq disk[p].videos
  BY <1>1, <1>4 DEF DiskInv, NamesInv, HoldsInv, In, Local, Files
<1> QED
  BY <1>2, <1>3, <1>4, <1>5 DEF HeldBy

\* SuccessKeepsVideos: what a success hands over has every intact video, whole, unless
\* an attempt before moved some away or extensions are kept from an output directory.
THEOREM SuccessKeepsVideos == Spec => []SuccessIsWhole
<1>1. Init => TypeInv /\ RejectInv /\ FreshInv /\ SurvInv /\ SuccInv
  <2> SUFFICES ASSUME Init PROVE TypeInv /\ RejectInv /\ FreshInv /\ SurvInv /\ SuccInv
    OBVIOUS
  <2>1. TypeInv /\ RejectInv /\ FreshInv /\ SurvInv
    BY InitTyped, InitHeld, InitGood, IdleTyped DEF Init, FreshInv
  <2>2. run.pc = "idle" /\ history.answer = "none"
    BY IdleTyped DEF Init
  <2>3. Held
    BY <2>2 DEF Held, StartHeld, DuplicatesHeld, OutputHeld, HandedHeld, Transcoding, At
  <2> QED
    BY <2>1, <2>3 DEF SuccInv
<1>2. TypeInv /\ RejectInv /\ FreshInv /\ SurvInv /\ SuccInv /\ [Next]_vars
         => TypeInv' /\ RejectInv' /\ FreshInv' /\ SurvInv' /\ SuccInv'
  <2>1. TypeInv /\ RejectInv /\ [Next]_vars => TypeInv' /\ RejectInv'
    BY NextTyped, HeldKept, AnswerKept, WholeKept, RejectionKept DEF RejectInv
  <2> QED
    BY <2>1, FreshKept, SurvKept, SuccKept DEF RejectInv
<1>3. TypeInv /\ SurvInv /\ SuccInv => SuccessIsWhole
  BY SuccessMeant
<1> QED
  BY <1>1, <1>2, <1>3, PTL DEF Spec
=============================================================================
