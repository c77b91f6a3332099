----------------------- MODULE TorrentToMedia_proofs ------------------------
(***************************************************************************)
(* The properties of TorrentToMedia hold for every set of torrents, files, *)
(* names, settings and faults, with the restrictions a theorem states.     *)
(***************************************************************************)
EXTENDS TorrentToMedia, DownloadDB_proofs, FiniteSetTheorems

Places == {"data", "toDst", "toLib", "absent"}
States == {"seeding", "paused", "removed"}

\* What the assumptions say of single torrents, texts and settings.
LEMMA Given ==
    /\ {"none", "manual", "client"} \subseteq Texts
    /\ NULL \notin Torrents /\ "none" \notin Torrents
    /\ \A t \in Torrents : NameOf[t] \in Texts /\ FoundName[t] \in Texts
    /\ \A t \in Unshared, u \in Torrents : NameOf[t] \in {NameOf[u], FoundName[u]} => t = u
    /\ Unshared \subseteq Torrents
    /\ \A c \in Configs : /\ c.of \in [Files -> Torrents] /\ c.target \in [Files -> Targets]
                          /\ c.small \subseteq Files
<1>1. \A c \in Configs : /\ c.of \in [Files -> Torrents] /\ c.target \in [Files -> Targets]
                         /\ c.small \subseteq Files
  BY TorrentAssumption DEF Settings
<1>2. \A t \in Unshared, u \in Torrents : NameOf[t] \in {NameOf[u], FoundName[u]} => t = u
  BY DEF Unshared
<1> QED
  BY <1>1, <1>2, TorrentAssumption DEF Unshared

\* A manual run goes through a finite number of directories.
LEMMA ManualDirsFinite ==
    ASSUME config \in Configs, NEW dirs \in SUBSET ManualDirs
    PROVE  dirs \subseteq Torrents \X From /\ Cardinality(dirs) \in Nat
<1>1. ManualDirs \subseteq Torrents \X From
  BY Given DEF ManualDirs, Dirs, From, Of
<1>2. IsFiniteSet(Torrents)
  BY TorrentAssumption
<1>3. IsFiniteSet({"src", "own", "tagged"})
  <2>1. IsFiniteSet({"src"} \cup {"own"})
    BY FS_Singleton, FS_AddElement, Zenon
  <2>2. IsFiniteSet(({"src"} \cup {"own"}) \cup {"tagged"})
    BY <2>1, FS_AddElement, Zenon
  <2>3. ({"src"} \cup {"own"}) \cup {"tagged"} = {"src", "own", "tagged"}
    OBVIOUS
  <2> QED BY <2>2, <2>3
<1>4. IsFiniteSet(Torrents \X From)
  BY <1>2, <1>3, FS_Product DEF From
<1> QED
  BY <1>1, <1>4, FS_Subset, FS_CardinalityType

\* Paths of the output directories and those that belong to a torrent or a file.
LEMMA FilesType ==
    ASSUME config \in Configs
    PROVE  /\ \A f \in Files : /\ Of(f) \in Torrents /\ config.target[f] \in Targets
                               /\ Target(f) \in Slots /\ Target(f) \in Homes(f)
                               /\ Homes(f) \subseteq Slots
           /\ \A t : FilesOf(t) \subseteq Files /\ TargetsOf(t) \subseteq Targets
           /\ \A t, dir : dir \in Dirs => Contents(t, dir) \subseteq Slots
           /\ \A s \in Slots : s[1] \in Targets /\ s[2] \in Dirs
<1>1. \A f \in Files : Of(f) \in Torrents /\ config.target[f] \in Targets
  BY Given DEF Of
<1>2. \A t : FilesOf(t) \subseteq Files /\ TargetsOf(t) \subseteq Targets
  BY <1>1 DEF FilesOf, TargetsOf
<1>3. \A f \in Files : Target(f) \in Slots /\ Target(f) \in Homes(f) /\ Homes(f) \subseteq Slots
  BY <1>1 DEF Target, Homes, Slots, Dirs
<1>4. \A t, dir : dir \in Dirs => Contents(t, dir) \subseteq Slots
  BY <1>2 DEF Contents, Slots
<1> QED
  BY <1>1, <1>2, <1>3, <1>4 DEF Slots

LEMMA PathTypes ==
    /\ Nothing \in Entries
    /\ \A f \in Files : Data(f) \in Entries /\ Part(f) \in Entries /\ ToSrc(f) \in Entries /\ ToLib(f) \in Entries
BY DEF Entries, Data, Part, ToSrc, ToLib

LEMMA Kinds ==
    /\ Nothing.kind = "nothing" /\ Nothing.file = "none"
    /\ \A f : /\ Data(f).kind = "data" /\ Data(f).file = f
              /\ Part(f).kind = "part" /\ Part(f).file = f
              /\ ToSrc(f).kind = "toSrc" /\ ToSrc(f).file = f
              /\ ToLib(f).kind = "toLib" /\ ToLib(f).file = f
              /\ Data(f) # Nothing
BY DEF Nothing, Data, Part, ToSrc, ToLib

\* An entry of the kind data is the data of its file, and so for links.
LEMMA EntryIs ==
    ASSUME NEW e \in Entries
    PROVE  /\ e = Nothing \/ e.file \in Files
           /\ e.kind = "data" => e = Data(e.file) /\ e.file \in Files
           /\ e.kind = "toLib" => e = ToLib(e.file) /\ e.file \in Files
           /\ e.kind = "toSrc" => e = ToSrc(e.file) /\ e.file \in Files
BY DEF Entries, Data, ToLib, ToSrc, Nothing

LEMMA IdleType ==
    /\ Idle \in RunType /\ Idle.pc = "idle" /\ Idle.cur = "none" /\ Idle.todo = {}
    /\ Idle.from = "src"
BY Given DEF Idle, RunType, Steps, From, Dirs

\* Going on to the next step changes nothing else of the run.
LEMMA GotoType ==
    ASSUME NEW r \in RunType, NEW l \in Steps, NEW r2, r2 = [r EXCEPT !.pc = l]
    PROVE  /\ r2 \in RunType /\ r2.pc = l /\ r2.cur = r.cur /\ r2.result = r.result
           /\ r2.name = r.name /\ r2.agent = r.agent /\ r2.id = r.id
           /\ r2.from = r.from /\ r2.todo = r.todo /\ r2.files = r.files
BY DEF RunType

\* A run that returns ends or looks for the next directory.
LEMMA ReturnType ==
    ASSUME run \in RunType, Return
    PROVE  /\ run' \in RunType /\ run'.pc \in {"idle", "next"}
           /\ run'.todo \in {{}, run.todo} /\ run'.from = "src"
<1>1. \/ run' = Idle
      \/ run' = [Idle EXCEPT !.pc = "next", !.manual = TRUE, !.todo = run.todo, !.FAILED = run.FAILED]
  BY DEF Return
<1>2. run.todo \in SUBSET (Torrents \X From) /\ run.FAILED \in BOOLEAN
  BY DEF RunType
<1> QED
  BY <1>1, <1>2, IdleType DEF RunType, Steps

\* The section's answer ends its process function.
LEMMA ResultType ==
    ASSUME run \in RunType, NEW r \in {0, 1}, NEW b \in BOOLEAN,
           run' = [run EXCEPT !.pc = "plex", !.result = r, !.FAILED = b]
    PROVE  /\ run' \in RunType /\ run'.pc = "plex" /\ run'.result = r
           /\ run'.cur = run.cur /\ run'.name = run.name /\ run'.agent = run.agent
           /\ run'.id = run.id /\ run'.from = run.from /\ run'.todo = run.todo
BY DEF RunType, Steps

\* The steps by which the section ends, and what they decide.
Answers == Answer \/ Withhold \/ Reject

LEMMA AnswerTypes ==
    ASSUME TypeOK, Answers
    PROVE  /\ run' \in RunType /\ run'.pc = "plex" /\ run'.cur = run.cur /\ run'.name = run.name
           /\ run'.agent = run.agent /\ run'.id = run.id /\ run'.from = run.from
           /\ run'.todo = run.todo /\ run.pc \in {"dispatch", "wait"} /\ cur \in Torrents
           /\ \/ /\ run'.result = 0 /\ accepted' = accepted \cup {cur}
                 /\ early' = IF Watched THEN early \cup {cur} ELSE early
              \/ run'.result # 0 /\ UNCHANGED <<accepted, early>>
           /\ UNCHANGED <<config, client, src, lib, moving, rows, started, settled, fates, hurt>>
<1>1. run \in RunType /\ run.FAILED \in BOOLEAN
  BY DEF TypeOK, RunType
<1>2. PICK r \in {0, 1}, b \in BOOLEAN :
        run' = [run EXCEPT !.pc = "plex", !.result = r, !.FAILED = b] /\ Accept(r)
  <2>1. CASE Answer \/ Withhold
    <3>1. PICK r \in {0, 1} : Result(r) /\ Accept(r)
      BY <2>1 DEF Answer, Withhold
    <3>2. run' = [run EXCEPT !.pc = "plex", !.result = r, !.FAILED = run.FAILED]
      BY <1>1, <3>1 DEF Result, RunType
    <3> QED BY <1>1, <3>1, <3>2
  <2>2. CASE Reject
    BY <2>2 DEF Reject
  <2> QED BY <2>1, <2>2 DEF Answers
<1>3. /\ run' \in RunType /\ run'.pc = "plex" /\ run'.result = r
      /\ run'.cur = run.cur /\ run'.name = run.name /\ run'.agent = run.agent
      /\ run'.id = run.id /\ run'.from = run.from /\ run'.todo = run.todo
  BY <1>1, <1>2, ResultType
<1>4. run.pc \in {"dispatch", "wait"} /\ cur \in Torrents
  BY DEF Answers, Answer, Withhold, Reject, At, TypeOK, cur
<1>5. UNCHANGED <<config, client, src, lib, moving, rows, started, settled, fates, hurt>>
  BY DEF Answers, Answer, Withhold, Reject, outside, disk
<1>6. \/ /\ run'.result = 0 /\ accepted' = accepted \cup {cur}
         /\ early' = IF Watched THEN early \cup {cur} ELSE early
      \/ run'.result # 0 /\ UNCHANGED <<accepted, early>>
  BY <1>2, <1>3, Zenon DEF Accept
<1> QED
  BY <1>3, <1>4, <1>5, <1>6

-----------------------------------------------------------------------------
(* The table: who is recorded under which name, and what a run knows of it *)

Busy == run.pc \notin {"idle", "next"}

RunInv ==
    /\ Busy => /\ run.name \in {NameOf[cur], FoundName[cur]}
               /\ run.agent = "client" => run.id \in Torrents /\ NameOf[run.id] = NameOf[cur]
    /\ run.pc = "record" => run.name = NameOf[cur] /\ run.agent = "client" /\ run.id = cur
    /\ run.pc \in {"mark", "relink", "remove"} => run.agent = "client" /\ cur \in accepted
    /\ run.pc = "plex" /\ run.result = 0 => cur \in accepted

RowsInv ==
    \A i \in DOMAIN rows :
        /\ rows[i].dir \in Torrents => rows[i].name = NameOf[rows[i].dir]
        /\ rows[i].agent = "client" =>
              rows[i].id \in Torrents /\ rows[i].name = NameOf[rows[i].id]

BookInv == RunInv /\ RowsInv /\ SettledIsDone

-----------------------------------------------------------------------------
(* Type correctness                                                        *)

LEMMA TypeInit == Init => TypeOK
<1> SUFFICES ASSUME Init PROVE TypeOK
  OBVIOUS
<1>1. run \in RunType /\ run.pc = "idle"
  BY IdleType DEF Init
<1>2. config \in Configs /\ rows \in Table(Torrents, Texts) /\ started \in 0..MaxRuns
  BY RowsAssumption, TorrentAssumption DEF Init
<1>3. /\ client \in [Torrents -> States]
      /\ src \in [Files -> Places] /\ dst \in [Slots -> Entries]
  BY PathTypes DEF Init, Places, States
<1> QED
  BY <1>1, <1>2, <1>3 DEF Init, TypeOK, Places, States

\* TypeOK for a step that leaves the disk alone.
LEMMA TypeKept ==
    ASSUME TypeOK, UNCHANGED <<config, src, dst, lib>>,
           moving' \subseteq Torrents \X Dirs, started' \in 0..MaxRuns,
           client' \in [Torrents -> States], rows' \in Table(Torrents, Texts),
           passed' \cup replaced' \cup stranded' \subseteq Files,
           accepted' \cup early' \cup rejected' \cup settled' \cup hurt' \subseteq Torrents,
           run' \in RunType, run'.pc \notin {"idle", "next"} => run'.cur \in Torrents
    PROVE  TypeOK'
BY DEF TypeOK, States

\* TypeOK for a step that leaves the client, the table and the verdicts alone.
LEMMA TypeFiles ==
    ASSUME TypeOK, UNCHANGED <<config, client, rows, started, verdicts>>,
           src' \in [Files -> Places], dst' \in [Slots -> Entries],
           moving' \subseteq Torrents \X Dirs,
           lib' \cup passed' \cup replaced' \cup stranded' \subseteq Files, hurt' \subseteq Torrents,
           run' \in RunType, run'.pc \notin {"idle", "next"} => run'.cur \in Torrents
    PROVE  TypeOK'
BY DEF TypeOK, Places, verdicts

LEMMA RpcType ==
    ASSUME TypeOK, NEW t \in Torrents, NEW s \in {"seeding", "paused"}, Rpc(t, s)
    PROVE  client' \in [Torrents -> States] /\ hurt' \subseteq Torrents
BY DEF Rpc, TypeOK, States

\* What a manual run begins with, for the directory it comes to.
Begin(d, a, i) ==
    [run EXCEPT !.pc = "search", !.todo = run.todo \ {d}, !.cur = d[1], !.from = d[2],
                !.dir = IF d[2] = "tagged" THEN "tagged" ELSE "own",
                !.agent = a, !.id = i, !.name = NameOf[d[1]], !.status = 1]

\* It takes up the torrent as a manual one, or on behalf of the client with the id of
\* a row of that name; or it passes it over or ends.
LEMMA NextDirEffect ==
    ASSUME TypeOK, BookInv, NEW d \in run.todo, NextDir(d)
    PROVE  /\ run.pc = "next" /\ d[1] \in Torrents /\ d[2] \in From /\ run \in RunType
           /\ UNCHANGED <<outside, history>>
           /\ \/ run' = Idle
              \/ run' = [run EXCEPT !.todo = run.todo \ {d}]
              \/ run' = Begin(d, "manual", "none")
              \/ \E i \in Torrents : NameOf[i] = NameOf[d[1]] /\ run' = Begin(d, "client", i)
<1>1. /\ run \in RunType /\ run.pc = "next" /\ d[1] \in Torrents /\ d[2] \in From
      /\ rows \in Table(Torrents, Texts) /\ UNCHANGED <<outside, history>>
  BY DEF TypeOK, RunType, NextDir, At
<1>2. Known(d) # {} /\ First(rows, NameOf[d[1]]).agent = "client" =>
        /\ First(rows, NameOf[d[1]]).id \in Torrents
        /\ NameOf[First(rows, NameOf[d[1]]).id] = NameOf[d[1]]
  <2> SUFFICES ASSUME Known(d) # {}, First(rows, NameOf[d[1]]).agent = "client"
               PROVE  /\ First(rows, NameOf[d[1]]).id \in Torrents
                      /\ NameOf[First(rows, NameOf[d[1]]).id] = NameOf[d[1]]
    OBVIOUS
  <2>1. Pending(rows, NameOf[d[1]]) # {}
    BY DEF Known
  <2>2. PICK i \in Pending(rows, NameOf[d[1]]) : First(rows, NameOf[d[1]]) = rows[i]
    BY <1>1, <2>1, FirstIsPending
  <2> QED BY <2>2 DEF Pending, BookInv, RowsInv
<1> QED
  BY <1>1, <1>2 DEF NextDir, Abort, Begin

LEMMA BeginType ==
    ASSUME run \in RunType, NEW d \in Torrents \X From, NEW a \in {"manual", "client"},
           NEW i \in Torrents \cup Texts, run' = Begin(d, a, i)
    PROVE  /\ run' \in RunType /\ run'.pc = "search" /\ run'.cur = d[1] /\ run'.from = d[2]
           /\ run'.agent = a /\ run'.id = i /\ run'.name = NameOf[d[1]]
           /\ run'.todo = run.todo \ {d}
<1>1. /\ d[1] \in Torrents /\ d[2] \in From /\ NameOf[d[1]] \in Texts
      /\ (IF d[2] = "tagged" THEN "tagged" ELSE "own") \in Dirs
  BY Given DEF Dirs
<1> QED
  BY <1>1 DEF Begin, RunType, Steps

LEMMA TypeNextDir == ASSUME TypeOK, BookInv, NEW d \in run.todo, NextDir(d) PROVE TypeOK'
<1>1. /\ run.pc = "next" /\ d[1] \in Torrents /\ d[2] \in From /\ run \in RunType
      /\ UNCHANGED <<outside, history>>
      /\ \/ run' = Idle
         \/ run' = [run EXCEPT !.todo = run.todo \ {d}]
         \/ run' = Begin(d, "manual", "none")
         \/ \E i \in Torrents : NameOf[i] = NameOf[d[1]] /\ run' = Begin(d, "client", i)
  BY NextDirEffect
<1>2. d \in Torrents \X From
  BY <1>1 DEF RunType
<1>3. run' \in RunType /\ (run'.pc \notin {"idle", "next"} => run'.cur \in Torrents)
  <2>1. ASSUME run' = [run EXCEPT !.todo = run.todo \ {d}]
        PROVE  run' \in RunType /\ run'.pc = "next"
    BY <1>1, <2>1 DEF RunType
  <2>2. ASSUME NEW a \in {"manual", "client"}, NEW i \in Torrents \cup Texts, run' = Begin(d, a, i)
        PROVE  run' \in RunType /\ run'.cur \in Torrents
    BY <1>1, <1>2, <2>2, BeginType
  <2> QED BY <1>1, <2>1, <2>2, IdleType, Given
<1> QED
  BY <1>1, <1>3, TypeKept DEF outside, history, disk, verdicts, fates, TypeOK, States

LEMMA TypeLink == ASSUME TypeOK, NEW f \in run.files, Link(f) PROVE TypeOK'
<1>1. /\ run \in RunType /\ run.cur \in Torrents /\ f \in Files /\ Target(f) \in Slots
      /\ src \in [Files -> Places] /\ dst \in [Slots -> Entries]
  BY FilesType DEF TypeOK, RunType, Link, At, Places
<1>2. run' \in RunType /\ run'.pc = "link" /\ run'.cur = run.cur
  BY <1>1 DEF Link, DoneWith, At, RunType
<1>3. NewDst(f) \in Entries /\ NewSrc(f) \in Places
  BY <1>1, PathTypes DEF NewDst, NewSrc, Places
<1>4. /\ \/ dst' = dst
         \/ \E p \in {NewDst(f), Data(f), Part(f)} : dst' = [dst EXCEPT ![Target(f)] = p]
      /\ \/ src' = src
         \/ \E p \in {NewSrc(f), "absent"} : src' = [src EXCEPT ![f] = p]
      /\ passed' \subseteq passed \cup {f} /\ stranded' \subseteq stranded \cup {f}
  BY DEF Link, SkipExisting, SkipUnlinked, LinkInto, Copy, CopyFails, MovedOnly
<1>5. src' \in [Files -> Places] /\ dst' \in [Slots -> Entries]
  <2>1. \A p \in {NewDst(f), Data(f), Part(f)} : p \in Entries
    BY <1>1, <1>3, PathTypes
  <2>2. \A p \in {NewSrc(f), "absent"} : p \in Places
    BY <1>3 DEF Places
  <2> QED BY <1>1, <1>4, <2>1, <2>2
<1> QED
  BY <1>1, <1>2, <1>4, <1>5, TypeFiles DEF Link, TypeOK

\* What extraction leaves at the paths of the output directory.
LEMMA ExtractEffect ==
    ASSUME TypeOK, Extract
    PROVE  \E done \in SUBSET SourceArchives :
             /\ \A s \in Slots : \/ dst'[s] = dst[s] /\ (\A a \in done : Target(a) # s)
                                 \/ \E a \in done : Target(a) = s /\ dst'[s] = Data(a)
             /\ DOMAIN dst' = Slots /\ dst' = [s \in Slots |-> dst'[s]]
             /\ src' = [f \in Files |-> IF f \in RemovedArchives(done) THEN "absent" ELSE src[f]]
             /\ passed' = passed \cup (SourceArchives \ done)
             /\ replaced' = replaced \cup {g \in Files : /\ g \in done \/ dst[Target(g)].file = g
                                                         /\ dst'[Target(g)].file # g}
<1>1. PICK done \in SUBSET SourceArchives :
        /\ dst' = [s \in Slots |->
                     IF \E a \in done : Target(a) = s
                     THEN Data(CHOOSE a \in done : Target(a) = s) ELSE dst[s]]
        /\ src' = [f \in Files |-> IF f \in RemovedArchives(done) THEN "absent" ELSE src[f]]
        /\ passed' = passed \cup (SourceArchives \ done)
        /\ replaced' = replaced \cup {g \in Files : /\ g \in done \/ dst[Target(g)].file = g
                                                    /\ dst'[Target(g)].file # g}
  BY DEF Extract
<1>2. ASSUME NEW s \in Slots
      PROVE  \/ dst'[s] = dst[s] /\ (\A a \in done : Target(a) # s)
             \/ \E a \in done : Target(a) = s /\ dst'[s] = Data(a)
  <2>1. CASE \E a \in done : Target(a) = s
    <3>1. (CHOOSE a \in done : Target(a) = s) \in done /\ Target(CHOOSE a \in done : Target(a) = s) = s
      BY <2>1
    <3>2. dst'[s] = Data(CHOOSE a \in done : Target(a) = s)
      BY <1>1, <2>1
    <3> QED BY <3>1, <3>2
  <2>2. CASE ~\E a \in done : Target(a) = s
    BY <1>1, <2>2
  <2> QED BY <2>1, <2>2
<1> QED
  BY <1>1, <1>2

LEMMA TypeExtract == TypeOK /\ Extract => TypeOK'
<1> SUFFICES ASSUME TypeOK, Extract PROVE TypeOK'
  OBVIOUS
<1>1. /\ run \in RunType /\ run.cur \in Torrents
      /\ src \in [Files -> Places] /\ dst \in [Slots -> Entries]
  BY DEF TypeOK, Extract, At, Places
<1>2. PICK done \in SUBSET SourceArchives :
        /\ \A s \in Slots : \/ dst'[s] = dst[s] /\ (\A a \in done : Target(a) # s)
                            \/ \E a \in done : Target(a) = s /\ dst'[s] = Data(a)
        /\ DOMAIN dst' = Slots /\ dst' = [s \in Slots |-> dst'[s]]
        /\ src' = [f \in Files |-> IF f \in RemovedArchives(done) THEN "absent" ELSE src[f]]
        /\ passed' = passed \cup (SourceArchives \ done)
        /\ replaced' = replaced \cup {g \in Files : /\ g \in done \/ dst[Target(g)].file = g
                                                    /\ dst'[Target(g)].file # g}
  BY ExtractEffect
<1>3. SourceArchives \subseteq Files
  BY DEF SourceArchives, FilesOf
<1>4. dst' \in [Slots -> Entries]
  BY <1>1, <1>2, <1>3, PathTypes
<1>5. src' \in [Files -> Places] /\ passed' \subseteq Files /\ replaced' \subseteq Files
  BY <1>1, <1>2, <1>3 DEF Places, TypeOK
<1>6. run' \in RunType /\ run'.cur = run.cur
  <2>1. \E s \in {0, 1} : run' = [run EXCEPT !.pc = "section", !.status = s]
    BY DEF Extract, StatusWith
  <2> QED BY <1>1, <2>1 DEF RunType, Steps
<1> QED
  BY <1>1, <1>4, <1>5, <1>6, TypeFiles DEF Extract, TypeOK

\* A file that is given its right name is found under it, in place of what had it.
LEMMA RenameEffect ==
    ASSUME TypeOK, Rename
    PROVE  \E named \in SUBSET TargetsOf(cur) :
             /\ named # {} => config.rename
             /\ DOMAIN dst' = Slots /\ dst' = [s \in Slots |-> dst'[s]]
             /\ \A s \in Slots :
                   /\ s[1] \notin named \/ s[2] # run.dir => dst'[s] = dst[s]
                   /\ s[1] \in named /\ s[2] = run.dir /\ s[3] = "given" => dst'[s] = Nothing
                   /\ s[1] \in named /\ s[2] = run.dir /\ s[3] # "given" =>
                         dst'[s] = dst[<<s[1], run.dir, "given">>]
             /\ replaced' = replaced \cup
                   {g \in Files : \E x \in named :
                        /\ dst[<<x, run.dir, "fixed">>].file = g
                        /\ dst[<<x, run.dir, "given">>] # dst[<<x, run.dir, "fixed">>]}
<1>1. PICK paths \in SUBSET {x \in TargetsOf(cur) : config.rename} :
        LET given(x) == dst[<<x, run.dir, "given">>]
            fixed(x) == dst[<<x, run.dir, "fixed">>]
            named == {x \in paths : given(x) # Nothing}
        IN  /\ dst' = [s \in Slots |->
                         IF s[1] \notin named \/ s[2] # run.dir THEN dst[s]
                         ELSE IF s[3] = "given" THEN Nothing ELSE given(s[1])]
            /\ replaced' = replaced \cup {g \in Files : \E x \in named :
                                             fixed(x).file = g /\ given(x) # fixed(x)}
  BY DEF Rename
<1> DEFINE named == {x \in paths : dst[<<x, run.dir, "given">>] # Nothing}
<1>2. /\ dst' = [s \in Slots |->
                   IF s[1] \notin named \/ s[2] # run.dir THEN dst[s]
                   ELSE IF s[3] = "given" THEN Nothing ELSE dst[<<s[1], run.dir, "given">>]]
      /\ replaced' = replaced \cup
           {g \in Files : \E x \in named :
                /\ dst[<<x, run.dir, "fixed">>].file = g
                /\ dst[<<x, run.dir, "given">>] # dst[<<x, run.dir, "fixed">>]}
  BY <1>1
<1>3. named \in SUBSET TargetsOf(cur) /\ (named # {} => config.rename)
  BY <1>1
<1> HIDE DEF named
<1>4. /\ DOMAIN dst' = Slots /\ dst' = [s \in Slots |-> dst'[s]]
      /\ \A s \in Slots :
            /\ s[1] \notin named \/ s[2] # run.dir => dst'[s] = dst[s]
            /\ s[1] \in named /\ s[2] = run.dir /\ s[3] = "given" => dst'[s] = Nothing
            /\ s[1] \in named /\ s[2] = run.dir /\ s[3] # "given" =>
                  dst'[s] = dst[<<s[1], run.dir, "given">>]
  BY <1>2
<1> QED
  BY <1>2, <1>3, <1>4

\* The section renames the output directory, or files in it.
LEMMA TypeRename == TypeOK /\ (Tag \/ Rename) => TypeOK'
<1> SUFFICES ASSUME TypeOK, Tag \/ Rename PROVE TypeOK'
  OBVIOUS
<1>1. /\ run \in RunType /\ run.cur \in Torrents /\ dst \in [Slots -> Entries]
      /\ Interrupted \subseteq Torrents /\ run.dir \in Dirs
  BY DEF TypeOK, Tag, Rename, At, Interrupted, RunType
<1>2. \A s \in Slots : <<s[1], "own", s[3]>> \in Slots /\ <<s[1], run.dir, "given">> \in Slots
  BY <1>1 DEF Slots, Dirs
<1>3. dst' \in [Slots -> Entries]
  <2>1. CASE Tag
    BY <1>1, <1>2, <2>1, PathTypes DEF Tag
  <2>2. CASE Rename
    <3>1. PICK named \in SUBSET TargetsOf(cur) :
             /\ DOMAIN dst' = Slots /\ dst' = [s \in Slots |-> dst'[s]]
             /\ \A s \in Slots :
                   /\ s[1] \notin named \/ s[2] # run.dir => dst'[s] = dst[s]
                   /\ s[1] \in named /\ s[2] = run.dir /\ s[3] = "given" => dst'[s] = Nothing
                   /\ s[1] \in named /\ s[2] = run.dir /\ s[3] # "given" =>
                         dst'[s] = dst[<<s[1], run.dir, "given">>]
      BY <2>2, RenameEffect
    <3>2. \A s \in Slots : dst'[s] \in Entries
      BY <1>1, <1>2, <3>1, PathTypes
    <3> QED BY <3>1, <3>2
  <2> QED BY <2>1, <2>2
<1>4. run' \in RunType /\ (run'.pc \notin {"idle", "next"} => run'.cur \in Torrents)
  <2>1. \/ run' = Idle
        \/ run' = [run EXCEPT !.dir = "tagged"]
        \/ run' = [run EXCEPT !.pc = "dispatch"]
    BY DEF Tag, Rename, Abort, Goto
  <2>2. ASSUME run' = [run EXCEPT !.dir = "tagged"] PROVE run' \in RunType /\ run'.cur = run.cur
    BY <1>1, <2>2 DEF RunType, Dirs
  <2> QED BY <1>1, <2>1, <2>2, IdleType, GotoType DEF Steps
<1>5. /\ UNCHANGED <<config, client, rows, started, verdicts, src, moving, lib, passed, stranded>>
      /\ replaced' \subseteq Files /\ hurt' \subseteq Torrents
  BY <1>1 DEF Tag, Rename, fates, TypeOK
<1> QED
  BY <1>3, <1>4, <1>5, TypeFiles DEF TypeOK, Places

LEMMA TypeManager ==
    ASSUME TypeOK, NEW m \in moving, GiveUp(m) \/ \E s \in Slots : Take(m, s)
    PROVE  TypeOK'
<1>1. /\ dst \in [Slots -> Entries] /\ src \in [Files -> Places]
      /\ UNCHANGED <<config, client, src, rows, run, history>> /\ moving' \subseteq Torrents \X Dirs
  BY DEF TypeOK, GiveUp, Take, Places
<1>2. CASE GiveUp(m)
  BY <1>1, <1>2 DEF GiveUp, TypeOK, history, verdicts, fates
<1>3. ASSUME NEW s \in Slots, Take(m, s) PROVE TypeOK'
  <2>1. dst[s].file \in Files
    BY <1>1, <1>3, EntryIs, Kinds DEF Take, Offered
  <2>2. dst' \in [Slots -> Entries] /\ lib' \subseteq Files
    BY <1>1, <1>3, <2>1, PathTypes DEF Take, TypeOK
  <2> QED BY <1>1, <2>2 DEF TypeOK, history, verdicts, fates
<1> QED
  BY <1>2, <1>3

LEMMA TypeStep == TypeOK /\ BookInv /\ [Next]_vars => TypeOK'
<1> SUFFICES ASSUME TypeOK, BookInv, [Next]_vars PROVE TypeOK'
  OBVIOUS
<1>0. /\ run \in RunType /\ (Busy => cur \in Torrents /\ run.agent \in {"manual", "client"})
      /\ client \in [Torrents -> States]
      /\ rows \in Table(Torrents, Texts) /\ started \in 0..MaxRuns
      /\ moving \subseteq Torrents \X Dirs
      /\ passed \cup replaced \cup stranded \subseteq Files
      /\ accepted \cup early \cup rejected \cup settled \cup hurt \subseteq Torrents
  BY DEF TypeOK, Busy, cur, RunType, States
<1>a. Interrupted \subseteq Torrents
  BY <1>0 DEF Interrupted
<1>b. MaxRuns \in Nat
  BY TorrentAssumption
<1>1. ASSUME NEW t \in Torrents, StartClient(t) PROVE TypeOK'
  <2>1. run' \in RunType /\ run'.cur \in Torrents
    BY <1>1, Given DEF StartClient, Idle, RunType, Steps, From, Dirs
  <2>2. started' \in 0..MaxRuns
    BY <1>0, <1>1, <1>b DEF StartClient
  <2> QED BY <1>0, <1>1, <2>1, <2>2, TypeKept DEF StartClient, outside, disk, verdicts, fates
<1>2. CASE StartManual
  <2>1. PICK dirs \in SUBSET ManualDirs \ {{}} :
          /\ started + Cardinality(dirs) <= MaxRuns
          /\ started' = started + Cardinality(dirs)
          /\ run' = [Idle EXCEPT !.pc = "next", !.manual = TRUE, !.todo = dirs]
    BY <1>2 DEF StartManual
  <2>2. dirs \subseteq Torrents \X From /\ Cardinality(dirs) \in Nat
    BY <2>1, ManualDirsFinite DEF TypeOK
  <2>3. run' \in RunType /\ run'.pc = "next"
    BY <2>1, <2>2, Given DEF Idle, RunType, Steps, From, Dirs
  <2>4. started' \in 0..MaxRuns
    BY <1>0, <1>b, <2>1, <2>2
  <2> QED BY <1>0, <1>2, <2>3, <2>4, TypeKept DEF StartManual, outside, disk, verdicts, fates
<1>3. ASSUME NEW d \in run.todo, NextDir(d) PROVE TypeOK'
  BY <1>3, TypeNextDir
<1>4. CASE EndRun \/ Raise
  <2>1. run' = Idle
    BY <1>4 DEF EndRun, Raise, Abort
  <2>2. /\ UNCHANGED <<outside, started, verdicts, fates>> /\ hurt' \subseteq Torrents
    BY <1>0, <1>4, <1>a DEF EndRun, Raise, history
  <2> QED BY <1>0, <2>1, <2>2, IdleType, TypeKept DEF outside, disk, verdicts, fates
<1>5. CASE Record
  <2>1. /\ cur \in Torrents /\ run.name \in Texts /\ run.id \in Torrents \cup Texts
        /\ "client" \in Texts
    BY <1>0, <1>5, Given DEF Record, At, Busy, RunType
  <2>2. rows' \in Table(Torrents, Texts)
    <3>1. \/ rows' = rows
          \/ \E locked \in BOOLEAN : rows' = Upsert(rows, cur, run.name, "client", run.id, locked)
      BY <1>5 DEF Record
    <3> QED BY <1>0, <2>1, <3>1, UpsertRows
  <2>3. run' \in RunType /\ (run'.pc \notin {"idle", "next"} => run'.cur \in Torrents)
    <3>1. run' = Idle \/ run' = [run EXCEPT !.pc = "search"]
      BY <1>5, Zenon DEF Record, Goto, Abort
    <3>2. "search" \in Steps /\ run.cur \in Torrents
      BY <2>1 DEF Steps, cur
    <3> QED BY <1>0, <3>1, <3>2, IdleType, GotoType
  <2>4. accepted' \subseteq Torrents /\ settled' \subseteq Torrents
    BY <1>0, <1>5 DEF Record
  <2> QED BY <1>0, <1>5, <2>2, <2>3, <2>4, TypeKept DEF Record, disk, fates
<1>6. CASE Search \/ Prepare
  <2>1. run' \in RunType /\ (run'.pc \notin {"idle", "next"} => run'.cur \in Torrents)
    <3>1. run.cur \in Torrents /\ run.name \in Texts /\ FoundName[run.cur] \in Texts
      BY <1>0, <1>6, Given DEF Search, Prepare, At, Busy, cur, RunType
    <3>2. \/ run' = Idle
          \/ \E n \in Texts : run' = [run EXCEPT !.pc = "pause", !.name = n]
          \/ run' = [run EXCEPT !.pc = "link", !.files = InputFiles]
      BY <1>6, <3>1 DEF Search, Prepare, Abort, cur
    <3>3. InputFiles \in SUBSET Files
      BY DEF InputFiles, FilesOf
    <3>4. ASSUME NEW n \in Texts, run' = [run EXCEPT !.pc = "pause", !.name = n]
          PROVE  run' \in RunType /\ run'.cur = run.cur
      BY <1>0, <3>4 DEF RunType, Steps
    <3>5. ASSUME NEW s \in SUBSET Files, run' = [run EXCEPT !.pc = "link", !.files = s]
          PROVE  run' \in RunType /\ run'.cur = run.cur
      BY <1>0, <3>5 DEF RunType, Steps
    <3> QED BY <3>1, <3>2, <3>3, <3>4, <3>5, IdleType
  <2>2. hurt' \subseteq Torrents /\ passed' \subseteq Files
    BY <1>0, <1>6, <1>a DEF Search, Prepare, history, fates, FilesOf
  <2> QED
    BY <1>0, <1>6, <2>1, <2>2, TypeKept DEF Search, Prepare, outside, history, disk, verdicts, fates
<1>7. CASE Pause \/ Failed
  <2>1. run.agent # "manual" => run.id \in Torrents
    BY <1>0, <1>7 DEF Pause, Failed, At, Busy, BookInv, RunInv
  <2>2. client' \in [Torrents -> States] /\ hurt' \subseteq Torrents
    <3>1. \/ UNCHANGED <<client, hurt>>
          \/ run.agent # "manual" /\ (Rpc(run.id, "paused") \/ Rpc(run.id, "seeding"))
      BY <1>7 DEF Pause, Failed
    <3> QED BY <1>0, <2>1, <3>1, RpcType
  <2>3. run' \in RunType /\ (run'.pc \notin {"idle", "next"} => run'.cur \in Torrents)
    <3>1. CASE Pause
      BY <1>0, <3>1, GotoType DEF Pause, Goto, At, Busy, cur, Steps
    <3>2. CASE Failed
      BY <1>0, <3>2, ReturnType DEF Failed
    <3> QED BY <1>7, <3>1, <3>2
  <2> QED BY <1>0, <1>7, <2>2, <2>3, TypeKept DEF Pause, Failed, disk, verdicts, fates
<1>8. ASSUME NEW f \in run.files, Link(f) PROVE TypeOK'
  BY <1>8, TypeLink
<1>9. CASE Extract
  BY <1>9, TypeExtract
<1>10. CASE Tag \/ Rename
  BY <1>10, TypeRename
<1>11. CASE HandOver
  <2>1. run' \in RunType /\ run'.cur \in Torrents /\ run.dir \in Dirs /\ cur \in Torrents
    BY <1>0, <1>11, GotoType DEF HandOver, Goto, At, Busy, cur, Steps, RunType
  <2> QED
    BY <1>0, <1>11, <2>1, TypeKept DEF HandOver, history, verdicts, fates
<1>12. CASE Answers
  <2>1. /\ run' \in RunType /\ run'.cur \in Torrents
        /\ accepted' \subseteq Torrents /\ early' \subseteq Torrents
        /\ UNCHANGED <<config, client, src, lib, moving, rows, started, settled, fates, hurt>>
    BY <1>0, <1>12, AnswerTypes DEF cur
  <2>2. rejected' \subseteq Torrents
    BY <1>0, <1>12, AnswerTypes DEF Answers, Answer, Withhold, Reject
  <2>3. dst' \in [Slots -> Entries]
    BY <1>12, PathTypes DEF TypeOK, Answers, Answer, Withhold, Reject, Emptied, outside, disk
  <2> QED BY <2>1, <2>2, <2>3 DEF TypeOK, fates
<1>13. CASE Plex
  <2>1. run' \in RunType /\ run'.cur \in Torrents
    BY <1>0, <1>13, GotoType DEF Plex, Goto, At, Busy, cur, Steps
  <2> QED BY <1>0, <1>13, <2>1, TypeKept DEF Plex, outside, history, disk, verdicts, fates
<1>14. CASE Mark
  <2>1. run' \in RunType /\ run'.cur \in Torrents /\ settled' \subseteq Torrents
    BY <1>0, <1>14, GotoType DEF Mark, Goto, At, Busy, cur, Steps
  <2>2. rows' \in Table(Torrents, Texts)
    <3>1. rows' = rows \/ rows' = SetStatus(rows, run.name, 1)
      BY <1>14 DEF Mark
    <3> QED BY <1>0, <3>1, SetStatusRows
  <2> QED BY <1>0, <1>14, <2>1, <2>2, TypeKept DEF Mark, disk, fates
<1>15. CASE Relink
  <2>1. run' \in RunType /\ run'.cur \in Torrents
    BY <1>0, <1>15, GotoType DEF Relink, Goto, At, Busy, cur, Steps
  <2>2. src \in [Files -> Places] /\ dst \in [Slots -> Entries]
    BY DEF TypeOK, Places
  <2>3. src' \in [Files -> Places]
    BY <1>15, <2>2 DEF Relink, Shortened, Places
  <2> QED BY <1>0, <1>15, <2>1, <2>2, <2>3, TypeFiles DEF Relink, history, TypeOK, fates
<1>16. CASE Remove
  <2>1. run' \in RunType /\ run'.cur \in Torrents /\ run.id \in Torrents
    BY <1>0, <1>16, GotoType DEF Remove, Goto, At, Busy, cur, Steps, BookInv, RunInv
  <2>2. client' \in [Torrents -> States] /\ hurt' \subseteq Torrents
    <3>1. \/ client' = [client EXCEPT ![run.id] = "removed"] /\ hurt' = hurt
          \/ client' = client /\ hurt' \subseteq hurt \cup {run.id}
          \/ Rpc(run.id, "seeding")
      BY <1>16 DEF Remove
    <3> QED BY <1>0, <2>1, <3>1, RpcType DEF States
  <2>3. src' \in [Files -> {"data", "toDst", "toLib", "absent"}]
    BY <1>16 DEF Remove, TypeOK
  <2> QED BY <1>0, <1>16, <2>1, <2>2, <2>3 DEF Remove, TypeOK, States, verdicts, fates
<1>17. CASE Clean
  <2>1. run' \in RunType /\ run'.pc \in {"idle", "next"}
    BY <1>0, <1>17, ReturnType DEF Clean
  <2>2. src \in [Files -> Places] /\ dst \in [Slots -> Entries]
    BY DEF TypeOK, Places
  <2>3. dst' \in [Slots -> Entries]
    BY <1>17, <2>2, PathTypes DEF Clean, Emptied
  <2> QED BY <1>0, <1>17, <2>1, <2>2, <2>3, TypeFiles DEF Clean, history, TypeOK, fates
<1>18. CASE Crash
  <2>1. src \in [Files -> Places] /\ dst \in [Slots -> Entries] /\ run.files \subseteq Files
    BY <1>0 DEF TypeOK, Places, RunType
  <2>2. dst' \in [Slots -> Entries]
    BY <1>18, <2>1, PathTypes DEF Crash
  <2> QED BY <1>0, <1>18, <1>a, <2>1, <2>2, IdleType, TypeFiles DEF Crash, TypeOK, fates
<1>19. ASSUME NEW m \in moving, GiveUp(m) \/ \E s \in Slots : Take(m, s) PROVE TypeOK'
  BY <1>19, TypeManager
<1>20. CASE UNCHANGED vars
  BY <1>0, <1>20, TypeKept DEF vars, outside, history, disk, verdicts, fates, Busy, cur
<1> QED
  BY <1>1, <1>2, <1>3, <1>4, <1>5, <1>6, <1>7, <1>8, <1>9, <1>10, <1>11, <1>12, <1>13,
     <1>14, <1>15, <1>16, <1>17, <1>18, <1>19, <1>20 DEF Next, Answers

-----------------------------------------------------------------------------
(* The table                                                               *)

\* A run that ends or goes on to the next directory keeps BookInv.
LEMMA BookEnds ==
    ASSUME BookInv, run'.pc \in {"idle", "next"}, UNCHANGED <<rows, settled>>
    PROVE  BookInv'
BY DEF BookInv, RunInv, RowsInv, SettledIsDone, Busy, Phase, Pending

\* So does a run that goes on with its torrent, if only accepted ones are marked.
LEMMA BookGoesOn ==
    ASSUME BookInv, UNCHANGED <<rows, settled>>, Busy, run'.pc # "record",
           run'.cur = run.cur, run'.agent = run.agent, run'.id = run.id,
           run'.name \in {run.name, FoundName[run.cur]},
           run'.pc \in {"mark", "relink", "remove"} => run.agent = "client" /\ run.cur \in accepted',
           run'.pc = "plex" /\ run'.result = 0 => run.cur \in accepted'
    PROVE  BookInv'
<1>1. RowsInv' /\ SettledIsDone'
  BY DEF BookInv, RowsInv, SettledIsDone, Phase, Pending
<1>2. RunInv'
  BY DEF BookInv, RunInv, Busy, cur
<1> QED
  BY <1>1, <1>2 DEF BookInv

LEMMA BookInit == Init => BookInv
<1> SUFFICES ASSUME Init PROVE BookInv
  OBVIOUS
<1>1. run.pc = "idle"
  BY IdleType DEF Init
<1>2. RunInv /\ SettledIsDone
  BY <1>1 DEF Init, RunInv, SettledIsDone, Busy
<1>3. RowsInv
  BY RowsAssumption DEF Init, RowsInv
<1> QED
  BY <1>2, <1>3 DEF BookInv

LEMMA BookRecord == TypeOK /\ BookInv /\ Record => BookInv'
<1> SUFFICES ASSUME TypeOK, BookInv, Record PROVE BookInv'
  OBVIOUS
<1>1. /\ run \in RunType /\ run.pc = "record" /\ cur \in Torrents /\ rows \in Table(Torrents, Texts)
      /\ run.agent = "client" /\ run.name = NameOf[cur] /\ run.id = cur /\ Busy
  BY DEF TypeOK, BookInv, RunInv, Record, At, cur, Busy
<1>2. CASE run' = Idle /\ UNCHANGED <<rows, settled>>
  BY <1>2, IdleType, BookEnds
<1>3. CASE run' = [run EXCEPT !.pc = "search"] /\ UNCHANGED <<rows, settled>>
  <2>1. /\ run'.pc = "search" /\ run'.cur = run.cur /\ run'.name = run.name
        /\ run'.agent = run.agent /\ run'.id = run.id
    BY <1>1, <1>3, GotoType DEF Steps
  <2> QED BY <1>1, <1>3, <2>1, BookGoesOn
<1>4. ASSUME NEW locked \in BOOLEAN, run' = [run EXCEPT !.pc = "search"],
             rows' = Upsert(rows, cur, run.name, "client", run.id, locked),
             settled' = settled \ {cur}
      PROVE  BookInv'
  <2>1. /\ run'.pc = "search" /\ run'.cur = run.cur /\ run'.name = run.name
        /\ run'.agent = run.agent /\ run'.id = run.id
    BY <1>1, <1>4, GotoType DEF Steps
  <2>2. run.name \in Texts /\ "client" \in Texts /\ run.id \in Torrents \cup Texts
    BY <1>1, Given DEF RunType
  <2>3. \A i \in DOMAIN rows : rows[i].dir = cur => rows[i].name = run.name
    BY <1>1 DEF BookInv, RowsInv
  <2>4. \A n : n # run.name => Phase(rows', n) = Phase(rows, n)
    BY <1>1, <1>4, <2>2, <2>3, UpsertPhase
  <2>5. \A i \in DOMAIN rows' :
           \/ rows'[i] \in {Row(cur, run.name, "client", run.id), Row(NULL, run.name, "client", run.id)}
           \/ i \in DOMAIN rows /\ rows'[i] = rows[i]
    BY <1>1, <1>4, <2>2, UpsertRows
  <2>6. RowsInv'
    <3> SUFFICES ASSUME NEW i \in DOMAIN rows'
                 PROVE  /\ rows'[i].dir \in Torrents => rows'[i].name = NameOf[rows'[i].dir]
                        /\ rows'[i].agent = "client" =>
                              rows'[i].id \in Torrents /\ rows'[i].name = NameOf[rows'[i].id]
      BY DEF RowsInv
    <3>1. CASE i \in DOMAIN rows /\ rows'[i] = rows[i]
      BY <3>1 DEF BookInv, RowsInv
    <3>2. CASE rows'[i] \in {Row(cur, run.name, "client", run.id), Row(NULL, run.name, "client", run.id)}
      <4>1. /\ rows'[i].dir \in {cur, NULL} /\ rows'[i].name = NameOf[cur] /\ rows'[i].id = cur
        BY <1>1, <3>2 DEF Row
      <4> QED BY <1>1, <4>1, Given
    <3> QED BY <2>5, <3>1, <3>2
  <2>7. SettledIsDone'
    <3> SUFFICES ASSUME NEW t \in settled' \cap Unshared
                 PROVE  Phase(rows', NameOf[t]) # "pending"
      BY DEF SettledIsDone
    <3>1. t \in settled /\ t # cur /\ t \in Unshared
      BY <1>4
    <3>2. NameOf[t] # run.name
      BY <1>1, <3>1, Given
    <3> QED BY <2>4, <3>1, <3>2 DEF BookInv, SettledIsDone
  <2>8. RunInv'
    BY <1>1, <2>1 DEF BookInv, RunInv, Busy, cur
  <2> QED BY <2>6, <2>7, <2>8 DEF BookInv
<1> QED
  BY <1>2, <1>3, <1>4 DEF Record, Abort, Goto

\* The name that is marked is that of no other torrent that shares none.
LEMMA MarkedName ==
    ASSUME TypeOK, BookInv, Mark
    PROVE  /\ run \in RunType /\ run.pc = "mark" /\ cur \in Torrents /\ run.agent = "client"
           /\ cur \in accepted /\ rows \in Table(Torrents, Texts)
           /\ run.name \in {NameOf[cur], FoundName[cur]}
           /\ \A t \in Unshared : t # cur => NameOf[t] # run.name
<1>1. /\ run \in RunType /\ run.pc = "mark" /\ cur \in Torrents /\ run.agent = "client"
      /\ cur \in accepted /\ rows \in Table(Torrents, Texts)
      /\ run.name \in {NameOf[cur], FoundName[cur]}
  BY DEF TypeOK, BookInv, RunInv, Mark, At, cur, Busy
<1> QED
  BY <1>1, Given

LEMMA BookMark == TypeOK /\ BookInv /\ Mark => BookInv'
<1> SUFFICES ASSUME TypeOK, BookInv, Mark PROVE BookInv'
  OBVIOUS
<1>1. /\ run \in RunType /\ run.pc = "mark" /\ cur \in Torrents /\ run.agent = "client"
      /\ cur \in accepted /\ rows \in Table(Torrents, Texts)
      /\ run.name \in {NameOf[cur], FoundName[cur]}
      /\ \A t \in Unshared : t # cur => NameOf[t] # run.name
  BY MarkedName
<1>2. /\ run'.pc = "relink" /\ run'.cur = run.cur /\ run'.name = run.name
      /\ run'.agent = run.agent /\ run'.id = run.id /\ accepted' = accepted
  BY <1>1, GotoType DEF Mark, Goto, Steps
<1>3. CASE UNCHANGED <<rows, settled>>
  BY <1>1, <1>2, <1>3, BookGoesOn DEF Busy, cur
<1>4. CASE /\ rows' = SetStatus(rows, run.name, 1)
           /\ settled' = IF run.name = NameOf[cur] THEN settled \cup {cur} ELSE settled
  <2>1. RunInv'
    BY <1>1, <1>2 DEF BookInv, RunInv, Busy, cur
  <2>2. RowsInv'
    BY <1>1, <1>4, SetStatusRows DEF BookInv, RowsInv
  <2>3. Pending(rows', run.name) = {} /\ \A n : n # run.name => Phase(rows', n) = Phase(rows, n)
    BY <1>1, <1>4, SetStatusPhase
  <2>4. SettledIsDone'
    <3> SUFFICES ASSUME NEW t \in settled' \cap Unshared
                 PROVE  Phase(rows', NameOf[t]) # "pending"
      BY DEF SettledIsDone
    <3>1. CASE NameOf[t] = run.name
      BY <2>3, <3>1, PhaseType
    <3>2. CASE NameOf[t] # run.name
      <4>1. t \in settled
        BY <1>4, <3>2
      <4> QED BY <2>3, <3>2, <4>1 DEF BookInv, SettledIsDone
    <3> QED BY <3>1, <3>2
  <2> QED BY <2>1, <2>2, <2>4 DEF BookInv
<1> QED
  BY <1>3, <1>4 DEF Mark

\* A manual run finds the id of a torrent with the name of its directory.
LEMMA BookNextDir == ASSUME TypeOK, BookInv, NEW d \in run.todo, NextDir(d) PROVE BookInv'
<1>1. /\ run.pc = "next" /\ d[1] \in Torrents /\ d[2] \in From /\ run \in RunType
      /\ UNCHANGED <<outside, history>>
      /\ \/ run' = Idle
         \/ run' = [run EXCEPT !.todo = run.todo \ {d}]
         \/ run' = Begin(d, "manual", "none")
         \/ \E i \in Torrents : NameOf[i] = NameOf[d[1]] /\ run' = Begin(d, "client", i)
  BY NextDirEffect
<1>2. d \in Torrents \X From /\ UNCHANGED <<rows, settled>>
  BY <1>1 DEF RunType, outside, history, verdicts
<1>3. CASE run' = Idle \/ run' = [run EXCEPT !.todo = run.todo \ {d}]
  <2>1. run'.pc \in {"idle", "next"}
    BY <1>1, <1>3, IdleType DEF RunType
  <2> QED BY <1>2, <2>1, BookEnds
<1>4. ASSUME NEW a \in {"manual", "client"}, NEW i \in Torrents \cup Texts, run' = Begin(d, a, i),
             a = "client" => i \in Torrents /\ NameOf[i] = NameOf[d[1]]
      PROVE  BookInv'
  <2>1. /\ run'.pc = "search" /\ run'.cur = d[1] /\ run'.agent = a /\ run'.id = i
        /\ run'.name = NameOf[d[1]]
    BY <1>1, <1>2, <1>4, BeginType
  <2>2. RowsInv' /\ SettledIsDone'
    BY <1>2 DEF BookInv, RowsInv, SettledIsDone, Phase, Pending
  <2>3. RunInv'
    BY <1>4, <2>1 DEF RunInv, Busy, cur
  <2> QED BY <2>2, <2>3 DEF BookInv
<1> QED
  BY <1>1, <1>3, <1>4, Given

LEMMA BookStep == TypeOK /\ BookInv /\ [Next]_vars => BookInv'
<1> SUFFICES ASSUME TypeOK, BookInv, [Next]_vars PROVE BookInv'
  OBVIOUS
<1>0. run \in RunType /\ (Busy => cur \in Torrents) /\ run.agent \in {"manual", "client"}
  BY DEF TypeOK, Busy, cur, RunType
<1>1. ASSUME NEW t \in Torrents, StartClient(t) PROVE BookInv'
  <2>1. /\ run'.pc = "record" /\ run'.cur = t /\ run'.name = NameOf[t]
        /\ run'.agent = "client" /\ run'.id = t /\ UNCHANGED <<rows, settled>>
    BY <1>1 DEF StartClient, Idle, outside, verdicts
  <2>2. RowsInv' /\ SettledIsDone'
    BY <2>1 DEF BookInv, RowsInv, SettledIsDone, Phase, Pending
  <2>3. RunInv'
    BY <2>1 DEF RunInv, Busy, cur
  <2> QED BY <2>2, <2>3 DEF BookInv
<1>2. CASE StartManual
  <2>1. run'.pc = "next" /\ UNCHANGED <<rows, settled>>
    BY <1>2 DEF StartManual, Idle, outside, verdicts
  <2> QED BY <2>1, BookEnds
<1>3. ASSUME NEW d \in run.todo, NextDir(d) PROVE BookInv'
  BY <1>3, BookNextDir
<1>4. CASE EndRun \/ Raise \/ Crash
  <2>1. run' = Idle /\ UNCHANGED <<rows, settled>>
    BY <1>4 DEF EndRun, Raise, Crash, Abort, outside, history, verdicts
  <2> QED BY <2>1, IdleType, BookEnds
<1>5. CASE Record
  BY <1>5, BookRecord
<1>6. CASE Search \/ Prepare
  <2>1. UNCHANGED <<rows, settled>> /\ Busy
    BY <1>6 DEF Search, Prepare, At, Busy, outside, history, verdicts
  <2>2. \/ run' = Idle
        \/ \E n \in {run.name, FoundName[cur]} : run' = [run EXCEPT !.pc = "pause", !.name = n]
        \/ \E s : run' = [run EXCEPT !.pc = "link", !.files = s]
    BY <1>6 DEF Search, Prepare, Abort
  <2>3. CASE run' = Idle
    BY <2>1, <2>3, IdleType, BookEnds
  <2>4. CASE run' # Idle
    <3>1. /\ run'.pc \in {"pause", "link"} /\ run'.cur = run.cur /\ run'.agent = run.agent
          /\ run'.id = run.id /\ run'.name \in {run.name, FoundName[run.cur]}
      BY <1>0, <2>2, <2>4 DEF RunType, cur
    <3> QED BY <2>1, <3>1, BookGoesOn
  <2> QED BY <2>3, <2>4
<1>7. CASE Failed \/ Clean
  <2>1. UNCHANGED <<rows, settled>> /\ Return
    BY <1>7 DEF Failed, Clean, history, verdicts
  <2> QED BY <1>0, <2>1, ReturnType, BookEnds
<1>8. CASE Pause \/ Plex \/ Relink \/ Remove \/ HandOver
  <2>1. UNCHANGED <<rows, settled, accepted>> /\ Busy
    BY <1>8 DEF Pause, Plex, Relink, Remove, HandOver, At, Busy, outside, history, verdicts
  <2>2. \E l \in {"prepare", "failed", "mark", "clean", "remove", "wait"} :
           /\ run' = [run EXCEPT !.pc = l]
           /\ l \in {"mark", "remove"} => run.agent = "client" /\ cur \in accepted
    <3>1. Plex => \/ run' = [run EXCEPT !.pc = "failed"]
                  \/ run' = [run EXCEPT !.pc = "clean"]
                  \/ run' = [run EXCEPT !.pc = "mark"] /\ run.agent = "client" /\ cur \in accepted
      BY <1>0 DEF Plex, Goto, At, BookInv, RunInv
    <3>2. Relink => run' = [run EXCEPT !.pc = "remove"] /\ run.agent = "client" /\ cur \in accepted
      BY DEF Relink, Goto, At, BookInv, RunInv
    <3>3. /\ Pause => run' = [run EXCEPT !.pc = "prepare"]
          /\ Remove => run' = [run EXCEPT !.pc = "clean"]
          /\ HandOver => run' = [run EXCEPT !.pc = "wait"]
      BY DEF Pause, Remove, HandOver, Goto
    <3> QED BY <1>8, <3>1, <3>2, <3>3
  <2>3. PICK l \in {"prepare", "failed", "mark", "clean", "remove", "wait"} :
           /\ run' = [run EXCEPT !.pc = l]
           /\ l \in {"mark", "remove"} => run.agent = "client" /\ cur \in accepted
    BY <2>2
  <2>4. l \in Steps
    BY DEF Steps
  <2>5. /\ run'.pc = l /\ run'.cur = run.cur /\ run'.name = run.name /\ run'.agent = run.agent
        /\ run'.id = run.id
    BY <1>0, <2>3, <2>4, GotoType
  <2> QED BY <2>1, <2>3, <2>5, BookGoesOn DEF cur
<1>9. CASE Extract \/ (\E f \in run.files : Link(f))
  <2>1. UNCHANGED <<rows, settled, accepted>> /\ Busy
    BY <1>9 DEF Extract, Link, At, Busy, verdicts
  <2>2. \/ \E s : run' = [run EXCEPT !.pc = "section", !.status = s]
        \/ \E s : run' = [run EXCEPT !.files = s] /\ run.pc = "link"
    BY <1>9 DEF Extract, Link, DoneWith, At
  <2>3. /\ run'.pc \in {"section", "link"} /\ run'.cur = run.cur /\ run'.name = run.name
        /\ run'.agent = run.agent /\ run'.id = run.id
    BY <1>0, <2>2 DEF RunType
  <2> QED BY <2>1, <2>3, BookGoesOn
<1>10. CASE Tag \/ Rename
  <2>1. UNCHANGED <<rows, settled>> /\ Busy
    BY <1>10 DEF Tag, Rename, At, Busy, verdicts
  <2>2. \/ run' = Idle
        \/ run' = [run EXCEPT !.dir = "tagged"] /\ run.pc = "section"
        \/ run' = [run EXCEPT !.pc = "dispatch"]
    BY <1>10 DEF Tag, Rename, Abort, Goto, At
  <2>3. CASE run' = Idle
    BY <2>1, <2>3, IdleType, BookEnds
  <2>4. CASE run' # Idle
    <3>1. /\ run'.pc \in {"section", "dispatch"} /\ run'.cur = run.cur /\ run'.agent = run.agent
          /\ run'.id = run.id /\ run'.name = run.name
      BY <1>0, <2>2, <2>4 DEF RunType
    <3> QED BY <2>1, <3>1, BookGoesOn
  <2> QED BY <2>3, <2>4
<1>11. CASE Answers
  <2>1. /\ run'.pc = "plex" /\ run'.cur = run.cur /\ run'.name = run.name
        /\ run'.agent = run.agent /\ run'.id = run.id /\ run.pc \in {"dispatch", "wait"}
        /\ run'.result = 0 => cur \in accepted'
        /\ UNCHANGED <<rows, settled>>
    BY <1>11, AnswerTypes
  <2> QED BY <2>1, BookGoesOn DEF cur, Busy
<1>12. CASE Mark
  BY <1>12, BookMark
<1>13. ASSUME NEW m \in moving, GiveUp(m) \/ \E s \in Slots : Take(m, s) PROVE BookInv'
  BY <1>13 DEF GiveUp, Take, history, verdicts, BookInv, RunInv, RowsInv, SettledIsDone, Busy, cur,
               Phase, Pending
<1>14. CASE UNCHANGED vars
  BY <1>14 DEF vars, outside, history, verdicts, BookInv, RunInv, RowsInv, SettledIsDone, Busy, cur,
               Phase, Pending
<1> QED
  BY <1>1, <1>2, <1>3, <1>4, <1>5, <1>6, <1>7, <1>8, <1>9, <1>10, <1>11, <1>12, <1>13, <1>14
  DEF Next, Answers

\* TypeCorrect: every variable keeps its type, and a run works on a torrent.
THEOREM TypeCorrect == Spec => [](TypeOK /\ BookInv)
<1>1. Init => TypeOK /\ BookInv
  BY TypeInit, BookInit
<1>2. TypeOK /\ BookInv /\ [Next]_vars => (TypeOK /\ BookInv)'
  BY TypeStep, BookStep
<1> QED
  BY <1>1, <1>2, PTL DEF Spec

\* SettledStaysDone: a torrent that was marked done is not pending, if it shares its
\* names with no other.
THEOREM SettledStaysDone == Spec => []SettledIsDone
<1>1. BookInv => SettledIsDone
  BY DEF BookInv
<1> QED
  BY <1>1, TypeCorrect, PTL
-----------------------------------------------------------------------------
(* The refinement                                                          *)

LEMMA BookingInit == Init => Book!Init
BY PhaseType DEF Init, Book!Init

\* Every step of a run receives, accepts or settles its torrent, or none.
LEMMA BookingStep == TypeOK /\ BookInv /\ [Next]_vars => [Book!Next]_(Book!vars)
<1> SUFFICES ASSUME TypeOK, BookInv, [Next]_vars PROVE [Book!Next]_(Book!vars)
  OBVIOUS
<1>0. rows \in Table(Torrents, Texts) /\ (Busy => cur \in Torrents) /\ run \in RunType
  BY DEF TypeOK, Busy, cur
<1>1. CASE rows' = rows /\ accepted' = accepted
  BY <1>1 DEF Book!vars
<1>2. CASE Answers
  <2>1. rows' = rows /\ accepted' \in {accepted, accepted \cup {cur}}
    BY <1>2, AnswerTypes
  <2>2. CASE accepted' = accepted
    BY <1>1, <2>1, <2>2
  <2>3. CASE accepted' = accepted \cup {cur} /\ cur \notin Unshared
    BY <2>1, <2>3 DEF Book!vars
  <2>4. CASE accepted' = accepted \cup {cur} /\ cur \in Unshared
    <3>1. accepted' \cap Unshared = (accepted \cap Unshared) \cup {cur}
      BY <2>4
    <3>2. Book!Accept(cur)
      BY <2>1, <3>1 DEF Book!Accept
    <3> QED BY <2>4, <3>2 DEF Book!Next
  <2> QED BY <2>1, <2>2, <2>3, <2>4
<1>3. CASE Record /\ ~(rows' = rows /\ accepted' = accepted)
  <2>1. cur \in Torrents /\ run.name = NameOf[cur]
    BY <1>0, <1>3 DEF Record, At, Busy, BookInv, RunInv
  <2>2. PICK locked \in BOOLEAN : rows' = Upsert(rows, cur, run.name, "client", run.id, locked)
    BY <1>3 DEF Record
  <2>3. accepted' = accepted \ {cur}
    BY <1>3 DEF Record
  <2>4. run.id \in Torrents \cup Texts /\ run.name \in Texts /\ "client" \in Texts
    BY <1>0, Given DEF RunType
  <2>5. \A i \in DOMAIN rows : rows[i].dir = cur => rows[i].name = run.name
    BY <2>1 DEF BookInv, RowsInv
  <2>6. /\ Phase(rows', NameOf[cur]) = "pending"
        /\ \A n : n # NameOf[cur] => Phase(rows', n) = Phase(rows, n)
    BY <1>0, <2>1, <2>2, <2>4, <2>5, UpsertPhase
  <2>7. \A t \in Unshared : t # cur => Phase(rows', NameOf[t]) = Phase(rows, NameOf[t])
    BY <2>1, <2>6, Given
  <2>8. CASE cur \in Unshared
    <3>1. accepted' \cap Unshared = (accepted \cap Unshared) \ {cur}
      BY <2>3
    <3>2. Book!Receive(cur)
      BY <2>6, <2>7, <2>8, <3>1 DEF Book!Receive
    <3> QED BY <2>8, <3>2 DEF Book!Next
  <2>9. CASE cur \notin Unshared
    <3>1. accepted' \cap Unshared = accepted \cap Unshared
      BY <2>3, <2>9
    <3>2. \A t \in Unshared : Phase(rows', NameOf[t]) = Phase(rows, NameOf[t])
      BY <2>7, <2>9
    <3> QED BY <3>1, <3>2 DEF Book!vars
  <2> QED BY <2>8, <2>9
<1>4. CASE Mark /\ ~(rows' = rows /\ accepted' = accepted)
  <2>1. /\ cur \in Torrents /\ cur \in accepted /\ run.name \in {NameOf[cur], FoundName[cur]}
        /\ \A t \in Unshared : t # cur => NameOf[t] # run.name
    BY <1>4, MarkedName
  <2>2. rows' = SetStatus(rows, run.name, 1) /\ accepted' = accepted
    BY <1>4 DEF Mark
  <2>3. /\ Phase(rows', run.name) = IF Phase(rows, run.name) = "pending" THEN "done"
                                    ELSE Phase(rows, run.name)
        /\ \A n : n # run.name => Phase(rows', n) = Phase(rows, n)
    BY <1>0, <2>2, SetStatusPhase
  <2>4. \A t \in Unshared : t # cur => Phase(rows', NameOf[t]) = Phase(rows, NameOf[t])
    BY <2>1, <2>3
  <2>5. CASE cur \in Unshared /\ Phase(rows, NameOf[cur]) = "pending" /\ NameOf[cur] = run.name
    <3>1. Book!Settle(cur)
      BY <2>1, <2>2, <2>3, <2>4, <2>5 DEF Book!Settle
    <3> QED BY <2>5, <3>1 DEF Book!Next
  <2>6. CASE ~(cur \in Unshared /\ Phase(rows, NameOf[cur]) = "pending" /\ NameOf[cur] = run.name)
    <3>1. \A t \in Unshared : Phase(rows', NameOf[t]) = Phase(rows, NameOf[t])
      BY <2>3, <2>4, <2>6
    <3> QED BY <2>2, <3>1 DEF Book!vars
  <2> QED BY <2>5, <2>6
<1>5. ASSUME \/ \E t \in Torrents : StartClient(t)
             \/ \E d \in run.todo : NextDir(d)
             \/ \E f \in run.files : Link(f)
             \/ StartManual \/ EndRun \/ Search \/ Pause \/ Prepare \/ Extract \/ Tag \/ Rename
             \/ HandOver \/ Raise \/ Plex \/ Failed \/ Relink \/ Remove \/ Clean \/ Crash
             \/ (\E m \in moving : GiveUp(m) \/ \E s \in Slots : Take(m, s))
             \/ UNCHANGED vars
      PROVE  rows' = rows /\ accepted' = accepted
  BY <1>5 DEF StartClient, NextDir, Link, StartManual, EndRun, Search, Pause, Prepare, Extract,
              Tag, Rename, HandOver, Raise, Plex, Failed, Relink, Remove, Clean, Crash, GiveUp,
              Take, vars, outside, history, verdicts
<1> QED
  BY <1>1, <1>2, <1>3, <1>4, <1>5 DEF Next, Answers

\* BookkeepingImplemented: the rows that the runs leave behind keep the promise
\* of Bookkeeping for the torrents that share no name, for any number of torrents
\* and hand-overs.
THEOREM BookkeepingImplemented == Spec => ImplementsBookkeeping
<1>1. Init => Book!Init
  BY BookingInit
<1>2. TypeOK /\ BookInv /\ [Next]_vars => [Book!Next]_(Book!vars)
  BY BookingStep
<1> QED
  BY <1>1, <1>2, TypeCorrect, PTL DEF Spec, ImplementsBookkeeping, Book!Spec
-----------------------------------------------------------------------------
(* The torrent client                                                      *)

\* A call to the client changes the state of no other torrent.
LEMMA RpcEffect ==
    ASSUME TypeOK, NEW t \in Torrents, NEW state, Rpc(t, state)
    PROVE  /\ \A u \in Torrents : client'[u] = "removed" => client[u] = "removed" \/ state = "removed"
           /\ \A u \in Torrents : u # t => client'[u] = client[u]
           /\ client'[t] \in {"removed", state} \/ (client' = client /\ t \in hurt')
           /\ hurt \subseteq hurt'
BY DEF Rpc, TypeOK

\* The other steps leave the client alone.
LEMMA ClientAlone ==
    ASSUME Next, ~Pause, ~Failed, ~Remove PROVE client' = client
BY DEF Next, StartClient, NextDir, Link, StartManual, EndRun, Record, Search, Prepare, Extract,
       Tag, Rename, HandOver, Answer, Withhold, Reject, Raise, Plex, Mark, Relink, Clean, Crash,
       GiveUp, Take, outside

\* The step that deletes a torrent deletes one of the name that was accepted.
LEMMA RemovedStep ==
    ASSUME TypeOK, BookInv, [Next]_vars,
           NEW t \in Torrents, client[t] # "removed", client'[t] = "removed"
    PROVE  \E u \in accepted : NameOf[u] = NameOf[t]
<1>0. run \in RunType /\ client \in [Torrents -> States]
  BY DEF TypeOK, States
<1>1. CASE Pause \/ Failed
  <2>1. run.agent # "manual" => run.id \in Torrents
    BY <1>0, <1>1 DEF Pause, Failed, At, Busy, BookInv, RunInv, RunType
  <2>2. \/ client' = client
        \/ run.agent # "manual" /\ (Rpc(run.id, "paused") \/ Rpc(run.id, "seeding"))
    BY <1>1 DEF Pause, Failed
  <2> QED BY <2>1, <2>2, RpcEffect
<1>2. CASE Remove
  <2>1. run.id \in Torrents /\ NameOf[run.id] = NameOf[cur] /\ cur \in accepted
    BY <1>2 DEF Remove, At, Busy, BookInv, RunInv
  <2>2. \/ client' = client
        \/ client' = [client EXCEPT ![run.id] = "removed"]
        \/ Rpc(run.id, "seeding")
    BY <1>2 DEF Remove
  <2>3. t = run.id
    BY <1>0, <2>1, <2>2, RpcEffect
  <2> QED BY <2>1, <2>3
<1>3. CASE UNCHANGED vars
  BY <1>3 DEF vars, outside
<1> QED
  BY <1>1, <1>2, <1>3, ClientAlone

\* OnlyAcceptedRemoved: whatever fails, a torrent is deleted only when a section
\* accepted it or a torrent of the same name, which is all the id found in the
\* table tells.
THEOREM OnlyAcceptedRemoved == Spec => RemovedOnlyAccepted
<1>1. TypeOK /\ BookInv /\ [Next]_vars =>
        [\A t \in Torrents : client[t] # "removed" /\ client'[t] = "removed" =>
            \E u \in accepted : NameOf[u] = NameOf[t]]_vars
  BY RemovedStep
<1> QED
  BY <1>1, TypeCorrect, PTL DEF Spec, RemovedOnlyAccepted

\* The steps between the pausing of a torrent and the calls that end it.
Holding == {"prepare", "link", "section", "dispatch", "wait", "plex", "failed", "mark", "relink",
            "remove"}

PausedInv ==
    config.resume /\ config.resumeOnFailure =>
        \A t \in Torrents : client[t] = "paused" =>
            \/ t \in hurt
            \/ t = run.id /\ run.agent = "client" /\ run.pc \in Holding

\* A step that leaves the client alone and holds on to its torrent.
LEMMA PausedKept ==
    ASSUME PausedInv, UNCHANGED <<config, client>>, hurt \subseteq hurt',
           \/ run.pc \notin Holding \/ run.agent # "client" \/ run.id \in hurt'
           \/ run'.pc \in Holding /\ run'.id = run.id /\ run'.agent = run.agent
    PROVE  PausedInv'
BY DEF PausedInv

LEMMA PausedStep ==
    ASSUME Unsafe = {}
    PROVE  TypeOK /\ BookInv /\ PausedInv /\ [Next]_vars => PausedInv'
<1> SUFFICES ASSUME TypeOK, BookInv, PausedInv, [Next]_vars PROVE PausedInv'
  OBVIOUS
<1>0. /\ run \in RunType /\ run.agent \in {"manual", "client"}
      /\ client \in [Torrents -> States]
      /\ Busy /\ run.agent = "client" => run.id \in Torrents
  BY DEF TypeOK, Busy, RunType, States, BookInv, RunInv
<1>a. /\ run.agent = "client" /\ run.pc \in Holding => run.id \in Interrupted
      /\ hurt \subseteq Interrupted
  BY <1>0 DEF Interrupted, Holding, Busy
<1>1. CASE (\E t \in Torrents : StartClient(t)) \/ StartManual \/ EndRun
  BY <1>1, PausedKept DEF StartClient, StartManual, EndRun, At, Holding, outside, history
<1>2. CASE (\E d \in run.todo : NextDir(d)) \/ Record \/ Search \/ Clean
  BY <1>2, PausedKept DEF NextDir, Record, Search, Clean, At, Holding, outside, history
<1>3. CASE Raise \/ Crash
  <2>1. UNCHANGED <<config, client>> /\ hurt' = Interrupted
    BY <1>3 DEF Raise, Crash, At, outside
  <2> QED BY <1>0, <1>a, <2>1, PausedKept
<1>4. CASE Prepare \/ Tag
  <2>1. /\ UNCHANGED <<config, client>> /\ run.pc \in Holding
        /\ \/ hurt' = Interrupted
           \/ hurt' = hurt /\ (\E s : run' = [run EXCEPT !.pc = "link", !.files = s])
           \/ hurt' = hurt /\ run' = [run EXCEPT !.dir = "tagged"]
    BY <1>4 DEF Prepare, Tag, outside, At, Holding
  <2>2. CASE hurt' = Interrupted
    BY <1>0, <1>a, <2>1, <2>2, PausedKept
  <2>3. CASE hurt' # Interrupted
    <3>1. hurt' = hurt /\ run'.pc \in Holding /\ run'.id = run.id /\ run'.agent = run.agent
      BY <1>0, <2>1, <2>3 DEF Holding, RunType
    <3> QED BY <2>1, <3>1, PausedKept
  <2> QED BY <2>2, <2>3
<1>5. CASE Pause
  <2>1. CASE run.agent = "manual"
    BY <1>5, <2>1, PausedKept DEF Pause
  <2>2. CASE run.agent # "manual"
    <3>1. run.id \in Torrents /\ run.agent = "client"
      BY <1>0, <1>5, <2>2 DEF Pause, At, Busy
    <3>2. /\ run'.pc = "prepare" /\ run'.id = run.id /\ run'.agent = run.agent /\ config' = config
      BY <1>0, <1>5 DEF Pause, Goto, RunType
    <3>3. hurt \subseteq hurt' /\ \A u \in Torrents : u # run.id => client'[u] = client[u]
      BY <1>5, <2>2, <3>1, RpcEffect DEF Pause
    <3> QED BY <1>5, <3>1, <3>2, <3>3 DEF PausedInv, Holding, Pause, At
  <2> QED BY <2>1, <2>2
<1>6. CASE Failed
  <2>1. CASE ~(config.resumeOnFailure /\ run.agent # "manual" /\ config.resume)
    BY <1>0, <1>6, <2>1, PausedKept DEF Failed, PausedInv
  <2>2. CASE config.resumeOnFailure /\ run.agent # "manual" /\ config.resume
    <3>1. run.id \in Torrents /\ Rpc(run.id, "seeding")
      BY <1>0, <1>6, <2>2 DEF Failed, At, Busy
    <3>2. /\ \A u \in Torrents : u # run.id => client'[u] = client[u]
          /\ client'[run.id] \in {"removed", "seeding"} \/ (client' = client /\ run.id \in hurt')
          /\ hurt \subseteq hurt'
      BY <3>1, RpcEffect
    <3> QED BY <1>6, <2>2, <3>1, <3>2 DEF PausedInv, Failed
  <2> QED BY <2>1, <2>2
<1>7. CASE Remove
  <2>1. run.id \in Torrents
    BY <1>0, <1>7 DEF Remove, At, Busy, BookInv, RunInv
  <2>2. config.resume =>
          /\ \A u \in Torrents : u # run.id => client'[u] = client[u]
          /\ client'[run.id] \in {"removed", "seeding"} \/ (client' = client /\ run.id \in hurt')
          /\ hurt \subseteq hurt'
    <3>1. CASE DeletesTorrent
      BY <1>0, <1>7, <2>1, <3>1 DEF Remove
    <3>2. CASE ~DeletesTorrent
      <4>1. config.resume => Rpc(run.id, "seeding")
        BY <1>7, <3>2 DEF Remove
      <4> QED BY <2>1, <4>1, RpcEffect
    <3> QED BY <3>1, <3>2
  <2> QED BY <1>7, <2>2 DEF PausedInv, Remove
<1>8. CASE \/ \E f \in run.files : Link(f)
           \/ Extract \/ Rename \/ HandOver \/ Mark \/ Relink
  <2>1. UNCHANGED <<config, client, hurt>>
    BY <1>8 DEF Link, Extract, Rename, HandOver, Mark, Relink, outside, history
  <2>2. run'.pc \in Holding /\ run'.id = run.id /\ run'.agent = run.agent
    <3>1. CASE (\E f \in run.files : Link(f)) \/ Extract
      BY <1>0, <3>1 DEF Link, Extract, DoneWith, At, Holding, RunType
    <3>2. CASE Rename \/ HandOver \/ Mark \/ Relink
      <4>1. \E l \in {"dispatch", "wait", "relink", "remove"} : run' = [run EXCEPT !.pc = l]
        BY <3>2 DEF Rename, HandOver, Mark, Relink, Goto
      <4> QED BY <1>0, <4>1 DEF Holding, RunType
    <3> QED BY <1>8, <3>1, <3>2
  <2> QED BY <2>1, <2>2, PausedKept
<1>9. CASE Answers
  <2>1. /\ UNCHANGED <<config, client, hurt>>
        /\ run'.pc = "plex" /\ run'.id = run.id /\ run'.agent = run.agent
    BY <1>9, AnswerTypes
  <2> QED BY <2>1, PausedKept DEF Holding
<1>10. CASE Plex
  <2>1. run.agent = "client" =>
           run'.pc \in Holding /\ run'.id = run.id /\ run'.agent = run.agent
    BY <1>0, <1>10 DEF Plex, Goto, Holding, RunType
  <2> QED BY <1>10, <2>1, PausedKept DEF Plex, outside, history
<1>11. ASSUME NEW m \in moving, GiveUp(m) \/ \E s \in Slots : Take(m, s) PROVE PausedInv'
  BY <1>11 DEF GiveUp, Take, history, PausedInv
<1>12. CASE UNCHANGED vars
  BY <1>12 DEF vars, outside, history, PausedInv
<1> QED
  BY <1>1, <1>2, <1>3, <1>4, <1>5, <1>6, <1>7, <1>8, <1>9, <1>10, <1>11, <1>12 DEF Next, Answers

\* ResumedBetweenRuns: where no torrent is kept in the protected default
\* directory, only a fault leaves one paused after the runs.
THEOREM ResumedBetweenRuns ==
    ASSUME Unsafe = {}
    PROVE  Spec => []PausedOnlyWhileProcessing
<1>1. Init => PausedInv
  BY DEF Init, PausedInv
<1>2. TypeOK /\ BookInv /\ PausedInv /\ [Next]_vars => PausedInv'
  BY PausedStep
<1>3. PausedInv => PausedOnlyWhileProcessing
  BY DEF PausedInv, PausedOnlyWhileProcessing, At, Holding
<1> QED
  BY <1>1, <1>2, <1>3, TypeCorrect, PTL DEF Spec
-----------------------------------------------------------------------------
(* The section has answered 0: is a manager at work in the directory?      *)

\* The steps up to the section's answer, and those that end a run.
Before == \/ \E t \in Torrents : StartClient(t)
          \/ StartManual
          \/ \E d \in run.todo : NextDir(d)
          \/ EndRun \/ Record \/ Search \/ Pause \/ Prepare
          \/ \E f \in run.files : Link(f)
          \/ Extract \/ Tag \/ Rename \/ HandOver \/ Raise \/ Failed \/ Clean \/ Crash

Managing == \E m \in moving : GiveUp(m) \/ \E s \in Slots : Take(m, s)

Unanswered == {"idle", "next", "record", "search", "pause", "prepare", "link", "section",
               "dispatch", "wait"}

LEMMA BeforeLeads == ASSUME TypeOK, BookInv, Before PROVE run'.pc \in Unanswered
<1>0. run \in RunType /\ Idle.pc = "idle"
  BY IdleType DEF TypeOK
<1>1. CASE (\E t \in Torrents : StartClient(t)) \/ StartManual
  BY <1>1 DEF StartClient, StartManual, Idle, Unanswered
<1>2. ASSUME NEW d \in run.todo, NextDir(d) PROVE run'.pc \in Unanswered
  <2>1. run'.pc \in {"idle", "next", "search"}
    BY <1>0, <1>2, NextDirEffect DEF Begin, RunType
  <2> QED BY <2>1 DEF Unanswered
<1>3. CASE EndRun \/ Raise \/ Crash
  BY <1>0, <1>3 DEF EndRun, Raise, Crash, Abort, Unanswered
<1>4. CASE Record
  <2>1. run' = Idle \/ run' = [run EXCEPT !.pc = "search"]
    BY <1>4, Zenon DEF Record, Goto, Abort
  <2> QED BY <1>0, <2>1 DEF RunType, Unanswered
<1>5. CASE Search \/ Prepare
  <2>1. \/ run' = Idle
        \/ \E n : run' = [run EXCEPT !.pc = "pause", !.name = n]
        \/ \E s : run' = [run EXCEPT !.pc = "link", !.files = s]
    BY <1>5 DEF Search, Prepare, Abort
  <2> QED BY <1>0, <2>1 DEF RunType, Unanswered
<1>6. CASE (\E f \in run.files : Link(f)) \/ Extract
  <2>1. \/ \E s : run' = [run EXCEPT !.files = s] /\ run.pc = "link"
        \/ \E s : run' = [run EXCEPT !.pc = "section", !.status = s]
    BY <1>6 DEF Link, Extract, DoneWith, At
  <2> QED BY <1>0, <2>1 DEF RunType, Unanswered
<1>7. CASE Pause \/ Tag \/ Rename \/ HandOver
  <2>1. \/ run' = Idle
        \/ run' = [run EXCEPT !.dir = "tagged"] /\ run.pc = "section"
        \/ \E l \in {"prepare", "dispatch", "wait"} : run' = [run EXCEPT !.pc = l]
    BY <1>7 DEF Pause, Tag, Rename, HandOver, Abort, Goto, At
  <2> QED BY <1>0, <2>1 DEF RunType, Unanswered
<1>8. CASE Failed \/ Clean
  BY <1>0, <1>8, ReturnType DEF Failed, Clean, Unanswered
<1> QED
  BY <1>1, <1>2, <1>3, <1>4, <1>5, <1>6, <1>7, <1>8 DEF Before

LEMMA StepIs ==
    [Next]_vars <=> Before \/ Answers \/ Plex \/ Mark \/ Relink \/ Remove \/ Managing \/ UNCHANGED vars
BY DEF Next, Before, Managing, Answers

Succeeded == run.pc \in {"mark", "relink", "remove", "clean"} \/ (run.pc = "plex" /\ run.result = 0)

WatchInv == Succeeded /\ Watched => cur \in early

\* Nothing new is watched while the manager starts nothing and no link is made.
LEMMA WatchedLess ==
    ASSUME TypeOK, config' = config, run'.cur = run.cur, run'.from = run.from, moving' \subseteq moving,
           \A s \in Slots : dst'[s].kind = "toSrc" => dst[s].kind = "toSrc"
    PROVE  Watched' => Watched
<1>1. Contents(cur, Output) \subseteq Slots
  BY FilesType DEF TypeOK, Output, Dirs
<1>2. Output' = Output /\ cur' = cur /\ \A t : TargetsOf(t)' = TargetsOf(t)
  BY DEF Output, cur, TargetsOf, FilesOf, Of
<1>3. Contents(cur, Output)' = Contents(cur, Output)
  BY <1>2 DEF Contents
<1> QED
  BY <1>1, <1>2, <1>3 DEF Watched, Dead

\* What the manager does to a path, and to the library.
LEMMA TakeEffect ==
    ASSUME TypeOK, NEW m \in moving, NEW s \in Slots, Take(m, s)
    PROVE  /\ UNCHANGED <<config, client, src, moving, rows, run, history>>
           /\ dst[s].file \in Files /\ dst[s].kind \in {"data", "toSrc"}
           /\ s \in Contents(m[1], m[2])
           /\ lib \subseteq lib' /\ (dst[s].kind = "data" => dst[s].file \in lib')
           /\ \A z \in Slots : z # s => dst'[z] = dst[z]
           /\ dst'[s] \in {dst[s], ToLib(dst[s].file), Nothing}
           /\ config.useLink = "move-sym" /\ config.linksBack => dst'[s] # Nothing
           /\ dst'[s] = ToLib(dst[s].file) => config.useLink = "move-sym"
<1>1. dst \in [Slots -> Entries] /\ dst[s] \in Entries
  BY DEF TypeOK
<1>2. dst[s].file \in Files /\ dst[s].kind \in {"data", "toSrc"} /\ dst[s] # Nothing
  BY <1>1, EntryIs, Kinds DEF Take, Offered
<1>3. ToLib(dst[s].file) # Nothing /\ dst[s] # ToLib(dst[s].file)
  BY <1>2, Kinds
<1>4. \/ lib' = lib \cup {dst[s].file} /\ dst' = dst
      \/ /\ config.useLink = "move-sym" /\ config.linksBack
         /\ lib' = lib \cup {dst[s].file} /\ dst' = [dst EXCEPT ![s] = ToLib(dst[s].file)]
      \/ /\ ~(config.useLink = "move-sym" /\ config.linksBack)
         /\ lib' = IF dst[s].kind = "data" THEN lib \cup {dst[s].file} ELSE lib
         /\ dst' = [dst EXCEPT ![s] = Nothing]
  BY DEF Take
<1>5. /\ UNCHANGED <<config, client, src, moving, rows, run, history>>
      /\ s \in Contents(m[1], m[2])
  BY DEF Take
<1> QED
  BY <1>1, <1>2, <1>3, <1>4, <1>5

LEMMA WatchStep == TypeOK /\ BookInv /\ WatchInv /\ [Next]_vars => WatchInv'
<1> SUFFICES ASSUME TypeOK, BookInv, WatchInv, [Next]_vars PROVE WatchInv'
  OBVIOUS
<1>0. run \in RunType /\ dst \in [Slots -> Entries]
  BY DEF TypeOK
<1>1. CASE Before
  BY <1>1, BeforeLeads DEF WatchInv, Succeeded, Unanswered
<1>2. CASE Answers
  <2>1. /\ run'.pc = "plex" /\ run'.cur = run.cur /\ run'.from = run.from
        /\ \/ /\ run'.result = 0
              /\ early' = IF Watched THEN early \cup {cur} ELSE early
           \/ run'.result # 0
        /\ UNCHANGED <<config, moving>>
    BY <1>2, AnswerTypes
  <2>2. \A s \in Slots : dst'[s].kind = "toSrc" => dst[s].kind = "toSrc"
    BY <1>0, <1>2, Kinds DEF Answers, Answer, Withhold, Reject, Emptied, outside, disk
  <2>3. Watched' => Watched
    BY <2>1, <2>2, WatchedLess
  <2> QED BY <2>1, <2>3 DEF WatchInv, Succeeded, cur
<1>3. CASE Plex \/ Mark \/ Relink \/ Remove
  <2>1. UNCHANGED <<config, dst, moving, early>>
    BY <1>3 DEF Plex, Mark, Relink, Remove, outside, disk, history, verdicts
  <2>2. /\ run'.cur = run.cur /\ run'.from = run.from
        /\ Succeeded' => Succeeded
    <3>1. \E l \in {"failed", "mark", "clean", "relink", "remove"} :
             run' = [run EXCEPT !.pc = l] /\ (l # "failed" => Succeeded)
      BY <1>0, <1>3 DEF Plex, Mark, Relink, Remove, Goto, At, Succeeded, RunType
    <3> QED BY <1>0, <3>1 DEF Succeeded, RunType
  <2>3. Watched' => Watched
    BY <2>1, <2>2, WatchedLess
  <2> QED BY <2>1, <2>2, <2>3 DEF WatchInv, cur
<1>4. ASSUME NEW m \in moving, GiveUp(m) \/ \E s \in Slots : Take(m, s) PROVE WatchInv'
  <2>1. UNCHANGED <<config, run, early>> /\ moving' \subseteq moving
    BY <1>4 DEF GiveUp, Take, history, verdicts
  <2>2. \A s \in Slots : dst'[s].kind = "toSrc" => dst[s].kind = "toSrc"
    <3>1. CASE GiveUp(m)
      BY <3>1 DEF GiveUp
    <3>2. ASSUME NEW z \in Slots, Take(m, z)
          PROVE  \A s \in Slots : dst'[s].kind = "toSrc" => dst[s].kind = "toSrc"
      BY <3>2, TakeEffect, Kinds
    <3> QED BY <1>4, <3>1, <3>2
  <2>3. Watched' => Watched
    BY <2>1, <2>2, WatchedLess
  <2> QED BY <2>1, <2>3 DEF WatchInv, Succeeded, cur
<1>5. CASE UNCHANGED vars
  <2>1. UNCHANGED <<config, run, early, moving, dst>>
    BY <1>5 DEF vars, outside, disk, history, verdicts
  <2>2. Watched' => Watched
    BY <2>1, WatchedLess
  <2> QED BY <2>1, <2>2 DEF WatchInv, Succeeded, cur
<1> QED
  BY <1>1, <1>2, <1>3, <1>4, <1>5, StepIs DEF Managing

\* WatchInvariant: a run cleans a directory that a manager is at work in only if that
\* was so already when its section answered.
LEMMA WatchInvariant == Spec => [](TypeOK /\ BookInv /\ WatchInv)
<1>1. Init => WatchInv
  BY IdleType DEF Init, WatchInv, Succeeded
<1>2. TypeOK /\ BookInv /\ WatchInv /\ [Next]_vars => WatchInv'
  BY WatchStep
<1> QED
  BY <1>1, <1>2, TypeCorrect, PTL DEF Spec
-----------------------------------------------------------------------------
(* The files: what is shared                                               *)

SeedAsked ==
    /\ ~config.deleteOriginal /\ config.useLink # "move"
    /\ config.keepArchive /\ ~config.forceClean
    /\ config.useLink = "move-sym" => /\ config.linksBack /\ ~config.deleteFailed
                                      /\ ~config.tag /\ ~config.rename

Lost(f) == f \in stranded \cup replaced \cup config.small \/ Near(f, early)

\* Only move-sym takes data out of the download directory.
SeedKept(f) == IF config.useLink = "move-sym" THEN Shared(f) \/ Lost(f) ELSE src[f] = "data"

SeedInv == SeedAsked => \A f \in Files : SeedKept(f)

\* What is lost stays so.
LEMMA LostStays ==
    ASSUME [Next]_vars, NEW f \in Files, Lost(f) PROVE Lost(f)'
<1>1. config' = config /\ stranded \subseteq stranded' /\ replaced \subseteq replaced'
  <2>1. CASE \/ \E t \in Torrents : StartClient(t)
             \/ \E d \in run.todo : NextDir(d)
             \/ StartManual \/ EndRun \/ Record \/ Search \/ Pause \/ Prepare
    BY <2>1 DEF StartClient, StartManual, NextDir, EndRun, Record, Search, Pause, Prepare, outside,
                history, fates
  <2>2. CASE (\E g \in run.files : Link(g)) \/ Extract \/ Tag \/ Rename
    BY <2>2 DEF Link, SkipExisting, SkipUnlinked, LinkInto, Copy, CopyFails, MovedOnly, Extract, Tag,
                Rename, fates
  <2>3. CASE HandOver \/ Answers \/ Raise \/ Plex \/ Failed \/ Mark \/ Relink \/ Remove \/ Clean \/ Crash
    BY <2>3 DEF HandOver, Answers, Answer, Withhold, Reject, Raise, Plex, Failed, Mark, Relink,
                Remove, Clean, Crash, outside, history, fates
  <2>4. CASE Managing \/ UNCHANGED vars
    BY <2>4 DEF Managing, GiveUp, Take, vars, outside, history, fates
  <2> QED BY <2>1, <2>2, <2>3, <2>4 DEF Next, Managing, Answers
<1>2. early \subseteq early'
  <2>1. CASE \/ \E t \in Torrents : StartClient(t)
             \/ \E d \in run.todo : NextDir(d)
             \/ \E g \in run.files : Link(g)
             \/ StartManual \/ EndRun \/ Record \/ Search \/ Pause \/ Prepare \/ Extract \/ Tag
             \/ Rename \/ HandOver \/ Raise \/ Plex \/ Failed \/ Mark \/ Relink \/ Remove \/ Clean
             \/ Crash
    BY <2>1 DEF StartClient, StartManual, NextDir, Link, EndRun, Record, Search, Pause, Prepare,
                Extract, Tag, Rename, HandOver, Raise, Plex, Failed, Mark, Relink, Remove, Clean,
                Crash, history, verdicts
  <2>2. CASE Answers
    BY <2>2 DEF Answers, Answer, Withhold, Reject, Accept
  <2>3. CASE Managing \/ UNCHANGED vars
    BY <2>3 DEF Managing, GiveUp, Take, vars, history, verdicts
  <2> QED BY <2>1, <2>2, <2>3 DEF Next, Managing, Answers
<1> QED
  BY <1>1, <1>2 DEF Lost, Near, TargetsOf, FilesOf, Of

\* A path that a shared file leads to is taken.
LEMMA SharedExists ==
    ASSUME NEW f \in Files, NEW g \in Files, Shared(g), src[g] = "toDst", Target(f) = Target(g)
    PROVE  Exists(Target(f)) /\ dst[Target(f)] \in {Data(g), ToLib(g)}
BY Kinds DEF Shared, Exists, Dangling

LEMMA SeedLink ==
    ASSUME TypeOK, SeedInv, SeedAsked, NEW f \in run.files, Link(f), NEW g \in Files
    PROVE  SeedKept(g)'
<1>0. /\ f \in Files /\ Target(f) \in Slots /\ Target(g) \in Slots
      /\ dst \in [Slots -> Entries] /\ src \in [Files -> Places] /\ config' = config
  BY FilesType DEF TypeOK, RunType, Link, Places
<1>1. CASE config.useLink # "move-sym"
  <2>1. src[g] = "data"
    BY <1>1 DEF SeedInv, SeedKept
  <2>2. src' = src \/ src' = [src EXCEPT ![f] = NewSrc(f)]
    BY <1>1 DEF Link, SkipExisting, SkipUnlinked, LinkInto, Copy, CopyFails, MovedOnly
  <2>3. NewSrc(f) = src[f]
    BY <1>1 DEF NewSrc, SeedAsked
  <2> QED BY <1>0, <1>1, <2>1, <2>2, <2>3 DEF SeedKept
<1>2. CASE config.useLink = "move-sym"
  <2>1. CASE Lost(g)
    <3>1. [Next]_vars
      BY DEF Next
    <3> QED BY <1>0, <1>2, <2>1, <3>1, LostStays DEF SeedKept
  <2>2. CASE ~Lost(g)
    <3>1. Shared(g)
      BY <1>2, <2>2 DEF SeedInv, SeedKept
    <3>2. Target(g)' = Target(g)
      BY <1>0 DEF Target
    <3>3. CASE SkipUnlinked(f) \/ SkipExisting(f)
      <4>1. Shared(g)'
        BY <3>1, <3>2, <3>3 DEF SkipUnlinked, SkipExisting, Shared, Data, ToLib
      <4> QED BY <1>0, <1>2, <4>1 DEF SeedKept
    <3>4. CASE LinkInto(f) /\ ~Exists(Target(f))
      <4>1. CASE g = f
        <5>1. src'[f] = "toDst" /\ dst'[Target(f)] = NewDst(f)
          BY <1>0, <1>2, <3>4 DEF LinkInto, NewSrc
        <5>2. src[f] # "toDst"
          BY <1>0, <3>1, <3>4, <4>1, SharedExists
        <5>3. NewDst(f) \in {Data(f), ToLib(f)}
          BY <1>2, <5>2 DEF NewDst
        <5>4. Shared(g)'
          BY <3>2, <4>1, <5>1, <5>3 DEF Shared, Data, ToLib
        <5> QED BY <1>0, <1>2, <5>4 DEF SeedKept
      <4>2. CASE g # f
        <5>1. src'[g] = src[g]
          BY <1>0, <3>4, <4>2 DEF LinkInto
        <5>2. src[g] = "toDst" => Target(f) # Target(g)
          BY <1>0, <3>1, <3>4, SharedExists
        <5>3. src[g] = "toDst" => dst'[Target(g)] = dst[Target(g)]
          BY <1>0, <3>4, <5>2 DEF LinkInto
        <5>4. Shared(g)'
          BY <3>1, <3>2, <5>1, <5>3 DEF Shared, Data, ToLib
        <5> QED BY <1>0, <1>2, <5>4 DEF SeedKept
      <4> QED BY <4>1, <4>2
    <3>5. CASE (Copy(f) \/ CopyFails(f)) /\ ~Exists(Target(f))
      <4>1. src' = src /\ \A z \in Slots : z # Target(f) => dst'[z] = dst[z]
        BY <1>0, <3>5 DEF Copy, CopyFails
      <4>2. src[g] = "toDst" => Target(f) # Target(g)
        BY <1>0, <3>1, <3>5, SharedExists
      <4>3. Shared(g)'
        BY <1>0, <3>1, <3>2, <4>1, <4>2 DEF Shared, Data, ToLib
      <4> QED BY <1>0, <1>2, <4>3 DEF SeedKept
    <3>6. CASE MovedOnly(f) /\ ~Exists(Target(f))
      <4>1. CASE g = f
        <5>1. f \in stranded'
          BY <3>6 DEF MovedOnly
        <5> QED BY <1>0, <1>2, <4>1, <5>1 DEF SeedKept, Lost
      <4>2. CASE g # f
        <5>1. src'[g] = src[g] /\ \A z \in Slots : z # Target(f) => dst'[z] = dst[z]
          BY <1>0, <3>6, <4>2 DEF MovedOnly
        <5>2. src[g] = "toDst" => Target(f) # Target(g)
          BY <1>0, <3>1, <3>6, SharedExists
        <5>3. Shared(g)'
          BY <1>0, <3>1, <3>2, <5>1, <5>2 DEF Shared, Data, ToLib
        <5> QED BY <1>0, <1>2, <5>3 DEF SeedKept
      <4> QED BY <4>1, <4>2
    <3> QED BY <3>3, <3>4, <3>5, <3>6 DEF Link
  <2> QED BY <2>1, <2>2
<1> QED
  BY <1>1, <1>2

\* A step that keeps every shared file's path, or records it as lost.
LEMMA SeedGoesOn ==
    ASSUME SeedInv, SeedAsked, [Next]_vars, config' = config, NEW g \in Files,
           src[g] \in {"data", "toLib"} => src'[g] = src[g],
           config.useLink = "move-sym" /\ Shared(g) /\ ~Lost(g) => Shared(g)' \/ Lost(g)'
    PROVE  SeedKept(g)'
BY LostStays DEF SeedInv, SeedKept

LEMMA SeedExtract ==
    ASSUME TypeOK, SeedInv, SeedAsked, Extract, NEW g \in Files PROVE SeedKept(g)'
<1>0. /\ Target(g) \in Slots /\ Target(g)' = Target(g) /\ config' = config
      /\ dst \in [Slots -> Entries] /\ src \in [Files -> Places] /\ [Next]_vars
  BY FilesType DEF TypeOK, Extract, Target, Next, Places
<1>1. PICK done \in SUBSET SourceArchives :
        /\ \A s \in Slots : \/ dst'[s] = dst[s] /\ (\A a \in done : Target(a) # s)
                            \/ \E a \in done : Target(a) = s /\ dst'[s] = Data(a)
        /\ src' = [f \in Files |-> IF f \in RemovedArchives(done) THEN "absent" ELSE src[f]]
        /\ replaced' = replaced \cup {h \in Files : /\ h \in done \/ dst[Target(h)].file = h
                                                    /\ dst'[Target(h)].file # h}
  BY ExtractEffect
<1>2. src'[g] = src[g]
  BY <1>1 DEF RemovedArchives, SeedAsked
<1>3. ASSUME Shared(g) PROVE Shared(g)' \/ Lost(g)'
  <2>1. CASE src[g] # "toDst"
    BY <1>2, <1>3, <2>1 DEF Shared
  <2>2. CASE src[g] = "toDst" /\ dst'[Target(g)] = dst[Target(g)]
    BY <1>0, <1>2, <1>3, <2>2 DEF Shared, Data, ToLib
  <2>3. CASE src[g] = "toDst" /\ dst'[Target(g)] # dst[Target(g)]
    <3>1. PICK a \in done : dst'[Target(g)] = Data(a)
      BY <1>0, <1>1, <2>3
    <3>2. dst[Target(g)].file = g
      BY <1>3, <2>3, Kinds DEF Shared
    <3>3. a # g
      BY <2>3 DEF SourceArchives
    <3>4. g \in replaced'
      BY <1>1, <3>1, <3>2, <3>3, Kinds
    <3> QED BY <3>4 DEF Lost
  <2> QED BY <2>1, <2>2, <2>3
<1> QED
  BY <1>0, <1>2, <1>3, SeedGoesOn

\* Cleaning removes the data of a shared file only if the file is ignored, or if a
\* manager was at work when the section answered.
LEMMA SeedClean ==
    ASSUME TypeOK, SeedInv, WatchInv, SeedAsked, Clean, NEW g \in Files PROVE SeedKept(g)'
<1>0. /\ Target(g) \in Slots /\ Target(g)' = Target(g) /\ UNCHANGED <<config, src, early, stranded, replaced>>
      /\ dst \in [Slots -> Entries] /\ [Next]_vars /\ cur \in Torrents
      /\ \A s \in Contents(cur, Output) : s \in Slots
  BY FilesType DEF TypeOK, Clean, Target, Next, history, verdicts, fates, At, cur, Output, Dirs
<1>1. ASSUME config.useLink = "move-sym", Shared(g), ~Lost(g) PROVE Shared(g)' \/ Lost(g)'
  <2>1. CASE src[g] # "toDst" \/ dst'[Target(g)] = dst[Target(g)]
    BY <1>0, <1>1, <2>1 DEF Shared, Data, ToLib
  <2>2. CASE src[g] = "toDst" /\ dst'[Target(g)] # dst[Target(g)]
    <3>1. dst[Target(g)].file = g /\ dst[Target(g)] # Nothing
      BY <1>1, <2>2, Kinds DEF Shared, Data, ToLib, Nothing
    <3>2. Target(g) \in Contents(cur, Output)
      BY <1>0, <2>2 DEF Clean, Emptied
    <3>3. config.target[g] \in TargetsOf(cur)
      BY <3>2 DEF Contents, Target
    <3>4. cur \notin early
      BY <1>0, <1>1, <3>3 DEF Lost, Near
    <3>5. ~Watched
      BY <3>4 DEF WatchInv, Succeeded, Clean, At
    <3>6. ~\E s \in Contents(cur, Output) : Dangling(s)
      BY <1>1, <3>5 DEF Watched, Dead, Dangling
    <3>7. Ignored(Target(g))
      <4>1. ASSUME \A s \in Contents(cur, Output) : Ignored(s) PROVE Ignored(Target(g))
        BY <3>2, <4>1
      <4>2. ASSUME dst' = [s \in Slots |-> IF s \in Contents(cur, Output) /\ Ignored(s)
                                           THEN Nothing ELSE dst[s]]
            PROVE  Ignored(Target(g))
        BY <1>0, <2>2, <4>2
      <4> QED BY <2>2, <3>5, <3>6, <4>1, <4>2 DEF Clean, Cleaned, SeedAsked
    <3>8. g \in config.small
      BY <3>1, <3>7 DEF Ignored
    <3> QED BY <1>1, <3>8 DEF Lost
  <2> QED BY <2>1, <2>2
<1> QED
  BY <1>0, <1>1, SeedGoesOn

LEMMA SeedTake ==
    ASSUME TypeOK, SeedInv, SeedAsked, NEW m \in moving, NEW s \in Slots, Take(m, s), NEW g \in Files
    PROVE  SeedKept(g)'
<1>0. /\ Target(g) \in Slots /\ UNCHANGED <<config, src>> /\ [Next]_vars
      /\ dst[s].kind \in {"data", "toSrc"} /\ dst[s].file \in Files
      /\ \A z \in Slots : z # s => dst'[z] = dst[z]
      /\ dst'[s] \in {dst[s], ToLib(dst[s].file), Nothing}
      /\ config.useLink = "move-sym" /\ config.linksBack => dst'[s] # Nothing
  BY FilesType, TakeEffect DEF TypeOK, Next
<1>1. Target(g)' = Target(g)
  BY <1>0 DEF Target
<1>2. ASSUME config.useLink = "move-sym", Shared(g) PROVE Shared(g)'
  <2>1. CASE src[g] # "toDst" \/ dst'[Target(g)] = dst[Target(g)]
    BY <1>0, <1>1, <1>2, <2>1 DEF Shared, Data, ToLib
  <2>2. CASE src[g] = "toDst" /\ dst'[Target(g)] # dst[Target(g)]
    <3>1. s = Target(g) /\ dst'[s] = ToLib(dst[s].file)
      BY <1>0, <1>2, <2>2 DEF SeedAsked
    <3>2. dst[s].file = g
      BY <1>2, <2>2, <3>1, Kinds DEF Shared
    <3> QED BY <1>0, <1>1, <2>2, <3>1, <3>2 DEF Shared, Data, ToLib
  <2> QED BY <2>1, <2>2
<1> QED
  BY <1>0, <1>2, SeedGoesOn

LEMMA SeedStep == TypeOK /\ BookInv /\ WatchInv /\ SeedInv /\ [Next]_vars => SeedInv'
<1> SUFFICES ASSUME TypeOK, BookInv, WatchInv, SeedInv, [Next]_vars PROVE SeedInv'
  OBVIOUS
<1>0. /\ dst \in [Slots -> Entries] /\ src \in [Files -> Places] /\ run \in RunType
      /\ \A f \in Files : Target(f) \in Slots /\ (config' = config => Target(f)' = Target(f))
  BY FilesType DEF TypeOK, Target, Places
<1>1. ASSUME config' = config, \A g \in Files : SeedAsked => SeedKept(g)' PROVE SeedInv'
  BY <1>1 DEF SeedInv, SeedAsked
<1>2. CASE \/ \E t \in Torrents : StartClient(t)
           \/ \E d \in run.todo : NextDir(d)
           \/ StartManual \/ EndRun \/ Record \/ Search \/ Pause \/ Prepare
           \/ HandOver \/ Answer \/ Withhold \/ Raise \/ Plex \/ Failed \/ Mark
           \/ (\E m \in moving : GiveUp(m)) \/ UNCHANGED vars
  <2>1. UNCHANGED <<config, src, dst>>
    BY <1>2 DEF StartClient, NextDir, StartManual, EndRun, Record, Search, Pause, Prepare, HandOver,
                Answer, Withhold, Raise, Plex, Failed, Mark, GiveUp, vars, outside, disk
  <2>2. \A g \in Files : Shared(g) => Shared(g)'
    BY <1>0, <2>1 DEF Shared, Data, ToLib
  <2> QED BY <1>1, <2>1, <2>2, SeedGoesOn
<1>3. ASSUME NEW f \in run.files, Link(f) PROVE SeedInv'
  BY <1>1, <1>3, SeedLink DEF Link
<1>4. CASE Extract
  BY <1>1, <1>4, SeedExtract DEF Extract
<1>5. CASE Tag \/ Rename \/ Reject
  <2>1. UNCHANGED <<config, src>>
    BY <1>5 DEF Tag, Rename, Reject
  <2>2. config.useLink = "move-sym" /\ SeedAsked => \A s \in Slots : dst'[s] = dst[s]
    <3>1. CASE Tag \/ Reject
      BY <3>1 DEF Tag, Reject, SeedAsked
    <3>2. CASE Rename
      BY <3>2, RenameEffect DEF SeedAsked
    <3> QED BY <1>5, <3>1, <3>2
  <2>3. config.useLink = "move-sym" /\ SeedAsked => \A g \in Files : Shared(g) => Shared(g)'
    BY <1>0, <2>1, <2>2 DEF Shared, Data, ToLib
  <2> QED BY <1>1, <2>1, <2>3, SeedGoesOn
<1>6. CASE Relink
  <2>1. UNCHANGED <<config, dst>>
    BY <1>6 DEF Relink
  <2>2. \A g \in Files : src'[g] \in {src[g], "toLib"} /\ (src[g] = "data" => src'[g] = src[g])
    BY <1>0, <1>6 DEF Relink, Shortened
  <2>3. \A g \in Files : Shared(g) => Shared(g)'
    BY <1>0, <2>1, <2>2 DEF Shared, Data, ToLib
  <2>4. \A g \in Files : src[g] \in {"data", "toLib"} => src'[g] = src[g]
    BY <2>2
  <2> QED BY <1>1, <2>1, <2>3, <2>4, SeedGoesOn
<1>7. CASE Remove
  <2>1. UNCHANGED <<config, dst>> /\ (SeedAsked => src' = src)
    BY <1>7 DEF Remove, DeletesTorrent, SeedAsked
  <2>2. SeedAsked => \A g \in Files : Shared(g) => Shared(g)'
    BY <1>0, <2>1 DEF Shared, Data, ToLib
  <2> QED BY <1>1, <2>1, <2>2, SeedGoesOn
<1>8. CASE Clean
  BY <1>1, <1>8, SeedClean DEF Clean
<1>9. ASSUME NEW m \in moving, NEW s \in Slots, Take(m, s) PROVE SeedInv'
  BY <1>1, <1>9, SeedTake DEF Take
<1>10. CASE Crash
  <2>1. UNCHANGED <<config, src>>
    BY <1>10 DEF Crash
  <2>2. ASSUME NEW g \in Files, Shared(g), src[g] = "toDst" PROVE dst'[Target(g)] = dst[Target(g)]
    <3>1. ASSUME NEW f \in run.files, ~Exists(Target(f)), dst' = [dst EXCEPT ![Target(f)] = Part(f)]
          PROVE  dst'[Target(g)] = dst[Target(g)]
      <4>1. f \in Files
        BY <1>0 DEF RunType
      <4>2. Target(f) # Target(g)
        BY <2>2, <3>1, <4>1, SharedExists
      <4> QED BY <1>0, <3>1, <4>2
    <3> QED BY <1>10, <3>1 DEF Crash
  <2>3. \A g \in Files : Shared(g) => Shared(g)'
    BY <1>0, <2>1, <2>2 DEF Shared, Data, ToLib
  <2> QED BY <1>1, <2>1, <2>3, SeedGoesOn
<1> QED
  BY <1>2, <1>3, <1>4, <1>5, <1>6, <1>7, <1>8, <1>9, <1>10 DEF Next

\* SharedFilesSurvive: whatever fails, a torrent that is to be kept has the data it
\* shares, with the exceptions that SeedSurvives names.
THEOREM SharedFilesSurvive == Spec => []SeedSurvives
<1>1. Init => SeedInv
  BY DEF Init, SeedInv, SeedKept, Shared
<1>2. TypeOK /\ BookInv /\ WatchInv /\ SeedInv /\ [Next]_vars => SeedInv'
  BY SeedStep
<1>3. SeedInv => SeedSurvives
  BY DEF SeedInv, SeedSurvives, SeedAsked, SeedKept, Lost, Shared
<1> QED
  BY <1>1, <1>2, <1>3, WatchInvariant, PTL DEF Spec

-----------------------------------------------------------------------------
(* The files: what cleaning breaks                                         *)

\* Only move mode looks for downloads in the output directory, and only move-sym
\* leaves links to it.
FromInv ==
    /\ config.useLink # "move" => run.from = "src" /\ \A d \in run.todo : d[2] = "src"
    /\ \A f \in Files : src[f] = "toDst" => config.useLink = "move-sym"

LEMMA FromInit == Init => FromInv
<1> SUFFICES ASSUME Init PROVE FromInv
  OBVIOUS
<1>1. run.from = "src" /\ run.todo = {} /\ \A f \in Files : src[f] = "data"
  BY IdleType DEF Init
<1> QED
  BY <1>1 DEF FromInv

LEMMA LinksBackOnly ==
    ASSUME TypeOK, FromInv, [Next]_vars
    PROVE  config' = config /\ \A f \in Files : src'[f] = "toDst" => config.useLink = "move-sym"
<1>0. src \in [Files -> Places]
  BY DEF TypeOK, Places
<1>1. CASE src' = src
  <2>1. config' = config
    BY DEF Next, StartClient, NextDir, Link, StartManual, EndRun, Record, Search, Pause, Prepare,
           Extract, Tag, Rename, HandOver, Answer, Withhold, Reject, Raise, Plex, Failed, Mark, Relink,
           Remove, Clean, Crash, GiveUp, Take, vars, outside
  <2> QED BY <1>1, <2>1 DEF FromInv
<1>2. ASSUME NEW g \in run.files, Link(g)
      PROVE  config' = config /\ \A f \in Files : src'[f] = "toDst" => config.useLink = "move-sym"
  <2>1. \/ src' = src \/ src' = [src EXCEPT ![g] = NewSrc(g)] \/ src' = [src EXCEPT ![g] = "absent"]
    BY <1>2 DEF Link, SkipExisting, SkipUnlinked, LinkInto, Copy, CopyFails, MovedOnly
  <2>2. NewSrc(g) = "toDst" => config.useLink = "move-sym" \/ src[g] = "toDst"
    BY DEF NewSrc
  <2>3. g \in Files
    BY DEF TypeOK, RunType
  <2> QED BY <1>0, <1>2, <2>1, <2>2, <2>3 DEF Link, FromInv
<1>3. CASE Extract
  <2>1. \A f \in Files : src'[f] \in {src[f], "absent"}
    BY <1>3 DEF Extract
  <2> QED BY <1>3, <2>1 DEF Extract, FromInv
<1>4. CASE Relink \/ Remove
  <2>1. \A f \in Files : src'[f] \in {src[f], "toLib", "absent"}
    BY <1>4 DEF Relink, Remove, Shortened
  <2> QED BY <1>4, <2>1 DEF Relink, Remove, FromInv
<1>5. CASE ~(\E g \in run.files : Link(g)) /\ ~Extract /\ ~Relink /\ ~Remove
  <2>1. src' = src
    BY <1>5 DEF Next, StartClient, NextDir, StartManual, EndRun, Record, Search, Pause, Prepare,
                Tag, Rename, HandOver, Answer, Withhold, Reject, Raise, Plex, Failed, Mark,
                Clean, Crash, GiveUp, Take, vars, outside, disk
  <2> QED BY <1>1, <2>1
<1> QED
  BY <1>2, <1>3, <1>4, <1>5

LEMMA FromStep == TypeOK /\ BookInv /\ FromInv /\ [Next]_vars => FromInv'
<1> SUFFICES ASSUME TypeOK, BookInv, FromInv, [Next]_vars PROVE FromInv'
  OBVIOUS
<1>0. run \in RunType /\ Idle.todo = {} /\ Idle.from = "src"
  BY IdleType DEF TypeOK
<1>1. config' = config /\ \A f \in Files : src'[f] = "toDst" => config.useLink = "move-sym"
  BY LinksBackOnly
<1>2. ASSUME run'.todo \subseteq run.todo, run'.from \in {run.from, "src"} PROVE FromInv'
  BY <1>1, <1>2 DEF FromInv
<1>3. CASE StartManual
  <2>1. PICK dirs \in SUBSET ManualDirs \ {{}} :
          run' = [Idle EXCEPT !.pc = "next", !.manual = TRUE, !.todo = dirs]
    BY <1>3 DEF StartManual
  <2>2. run'.todo = dirs /\ run'.from = "src"
    BY <2>1 DEF Idle
  <2>3. \A d \in ManualDirs : config.useLink # "move" => d[2] = "src"
    BY DEF ManualDirs
  <2> QED BY <1>1, <2>2, <2>3 DEF FromInv
<1>4. ASSUME NEW d \in run.todo, NextDir(d) PROVE FromInv'
  <2>1. /\ \/ run' = Idle
           \/ run' = [run EXCEPT !.todo = run.todo \ {d}]
           \/ \E a \in {"manual", "client"}, i \in Torrents \cup Texts : run' = Begin(d, a, i)
        /\ d \in Torrents \X From
    BY <1>0, <1>4, NextDirEffect, Given DEF RunType
  <2>2. run'.todo \subseteq run.todo /\ run'.from \in {run.from, "src", d[2]}
    <3>1. ASSUME run' = [run EXCEPT !.todo = run.todo \ {d}]
          PROVE  run'.todo \subseteq run.todo /\ run'.from = run.from
      BY <1>0, <3>1 DEF RunType
    <3>2. ASSUME NEW a \in {"manual", "client"}, NEW i \in Torrents \cup Texts, run' = Begin(d, a, i)
          PROVE  run'.todo \subseteq run.todo /\ run'.from = d[2]
      BY <1>0, <2>1, <3>2, BeginType
    <3> QED BY <1>0, <2>1, <3>1, <3>2
  <2> QED BY <1>1, <1>4, <2>2 DEF FromInv
<1>5. ASSUME NEW t \in Torrents, StartClient(t) PROVE FromInv'
  <2>1. run'.todo = {} /\ run'.from = "src"
    BY <1>5 DEF StartClient, Idle
  <2> QED BY <1>1, <2>1 DEF FromInv
<1>6. CASE EndRun \/ Raise \/ Crash
  BY <1>0, <1>2, <1>6 DEF EndRun, Raise, Crash, Abort
<1>7. CASE Record \/ Search \/ Prepare \/ Tag
  <2>1. \/ run' = Idle
        \/ run' = [run EXCEPT !.pc = "search"]
        \/ \E n : run' = [run EXCEPT !.pc = "pause", !.name = n]
        \/ \E s : run' = [run EXCEPT !.pc = "link", !.files = s]
        \/ run' = [run EXCEPT !.dir = "tagged"]
    BY <1>7 DEF Record, Search, Prepare, Tag, Goto, Abort
  <2>2. run'.todo \subseteq run.todo /\ run'.from \in {run.from, "src"}
    BY <1>0, <2>1 DEF RunType
  <2> QED BY <1>2, <2>2
<1>8. CASE Failed \/ Clean
  <2>1. run'.todo \in {{}, run.todo} /\ run'.from = "src"
    BY <1>0, <1>8, ReturnType DEF Failed, Clean
  <2> QED BY <1>2, <2>1
<1>9. CASE (\E f \in run.files : Link(f)) \/ Extract
  <2>1. \/ \E s : run' = [run EXCEPT !.files = s]
        \/ \E s : run' = [run EXCEPT !.pc = "section", !.status = s]
    BY <1>9 DEF Link, DoneWith, Extract
  <2>2. run'.todo = run.todo /\ run'.from = run.from
    BY <1>0, <2>1 DEF RunType
  <2> QED BY <1>2, <2>2
<1>10. CASE Pause \/ Rename \/ HandOver \/ Plex \/ Mark \/ Relink \/ Remove
  <2>1. \E l : run' = [run EXCEPT !.pc = l]
    BY <1>10 DEF Pause, Rename, HandOver, Plex, Mark, Relink, Remove, Goto
  <2>2. run'.todo = run.todo /\ run'.from = run.from
    BY <1>0, <2>1 DEF RunType
  <2> QED BY <1>2, <2>2
<1>11. CASE Answers
  BY <1>2, <1>11, AnswerTypes
<1>12. CASE Managing \/ UNCHANGED vars
  BY <1>2, <1>12 DEF Managing, GiveUp, Take, vars
<1> QED
  BY <1>3, <1>4, <1>5, <1>6, <1>7, <1>8, <1>9, <1>10, <1>11, <1>12 DEF Next, Answers, Managing

\* After replace_links no shared file of the torrent is reached through the
\* output directory when it is in the library.
RelinkInv ==
    run.pc \in {"remove", "clean"} /\ run.agent = "client" /\ ~config.deleteOriginal /\ cur \notin early =>
        \A f \in FilesOf(cur) : src[f] = "toDst" => dst[Target(f)].kind # "toLib"

LEMMA RelinkStep ==
    TypeOK /\ BookInv /\ WatchInv /\ FromInv /\ RelinkInv /\ [Next]_vars => RelinkInv'
<1> SUFFICES ASSUME TypeOK, BookInv, WatchInv, FromInv, RelinkInv, [Next]_vars PROVE RelinkInv'
  OBVIOUS
<1>0. /\ run \in RunType /\ run.agent \in {"manual", "client"} /\ src \in [Files -> Places]
      /\ dst \in [Slots -> Entries]
      /\ \A f \in Files : Target(f) \in Slots /\ config.target[f] \in Targets
      /\ config' = config /\ \A f : Target(f)' = Target(f) /\ (cur' = cur => FilesOf(cur)' = FilesOf(cur))
  BY FilesType, LinksBackOnly DEF TypeOK, RunType, Places, Target, FilesOf, Of
<1>1. ASSUME run'.pc \notin {"remove", "clean"} PROVE RelinkInv'
  BY <1>1 DEF RelinkInv
<1>2. CASE Before \/ Answers
  BY <1>1, <1>2, BeforeLeads, AnswerTypes DEF Unanswered
<1>3. CASE Plex
  <2>1. run'.pc # "remove" /\ (run'.pc = "clean" => run'.agent # "client")
    BY <1>0, <1>3 DEF Plex, Goto, RunType
  <2> QED BY <2>1 DEF RelinkInv
<1>4. CASE Mark
  <2>1. run'.pc = "relink"
    BY <1>0, <1>4 DEF Mark, Goto, RunType
  <2> QED BY <1>1, <2>1
<1>5. CASE Relink
  <2>1. run'.cur = run.cur /\ run'.agent = run.agent /\ dst' = dst
    BY <1>0, <1>5 DEF Relink, Goto, RunType
  <2>2. ASSUME ~config.deleteOriginal, NEW f \in FilesOf(cur), src'[f] = "toDst"
        PROVE  dst[Target(f)].kind # "toLib"
    <3>1. f \in Files /\ Of(f) = cur
      BY DEF FilesOf
    <3>2. src'[f] \in {src[f], Shortened(f)}
      BY <1>5, <3>1 DEF Relink
    <3>3. src[f] = "toDst"
      BY <2>2, <3>2 DEF Shortened
    <3>4. config.useLink = "move-sym" /\ run.from = "src"
      BY <3>1, <3>3 DEF FromInv
    <3>5. src'[f] = Shortened(f)
      BY <1>5, <2>2, <3>1, <3>4 DEF Relink
    <3> QED BY <2>2, <3>3, <3>5 DEF Shortened
  <2>3. cur' = cur
    BY <2>1 DEF cur
  <2> QED BY <1>0, <2>1, <2>2, <2>3 DEF RelinkInv
<1>6. CASE Remove
  <2>1. /\ run'.cur = run.cur /\ run'.agent = run.agent /\ UNCHANGED <<dst, early>>
        /\ run.pc = "remove"
    BY <1>0, <1>6 DEF Remove, Goto, At, RunType, verdicts
  <2>2. \A f \in Files : src'[f] = src[f] \/ src'[f] = "absent"
    BY <1>6 DEF Remove
  <2>3. cur' = cur
    BY <2>1 DEF cur
  <2> QED BY <1>0, <2>1, <2>2, <2>3 DEF RelinkInv, FilesOf
<1>7. ASSUME NEW m \in moving, GiveUp(m) PROVE RelinkInv'
  BY <1>0, <1>7 DEF GiveUp, history, verdicts, RelinkInv, cur
<1>8. ASSUME NEW m \in moving, NEW s \in Slots, Take(m, s) PROVE RelinkInv'
  <2>1. /\ UNCHANGED <<src, run, early>> /\ s \in Contents(m[1], m[2])
        /\ \A z \in Slots : z # s => dst'[z] = dst[z]
        /\ dst'[s] \in {dst[s], ToLib(dst[s].file), Nothing}
        /\ dst'[s] = ToLib(dst[s].file) => config.useLink = "move-sym"
    BY <1>8, TakeEffect DEF history, verdicts
  <2>2. ASSUME run.pc \in {"remove", "clean"}, run.agent = "client", ~config.deleteOriginal,
               cur \notin early, NEW f \in FilesOf(cur), src[f] = "toDst"
        PROVE  dst'[Target(f)].kind # "toLib"
    <3>1. f \in Files /\ config.target[f] \in TargetsOf(cur) /\ dst[Target(f)].kind # "toLib"
      BY <2>2 DEF FilesOf, TargetsOf, RelinkInv
    <3>2. run.from = "src"
      BY <2>2, <3>1 DEF FromInv
    <3>3. s # Target(f)
      <4>1. SUFFICES ASSUME s = Target(f) PROVE FALSE
        OBVIOUS
      <4>2. m[2] = "own" /\ config.target[f] \in TargetsOf(m[1])
        BY <2>1, <4>1 DEF Contents, Target
      <4>3. Output = "own"
        BY <3>2 DEF Output
      <4>4. Watched
        BY <3>1, <4>2, <4>3 DEF Watched
      <4> QED BY <2>2, <4>4 DEF WatchInv, Succeeded
    <3> QED BY <1>0, <2>1, <3>1, <3>3
  <2>3. cur' = cur
    BY <2>1 DEF cur
  <2> QED BY <1>0, <2>1, <2>2, <2>3 DEF RelinkInv
<1>9. CASE UNCHANGED vars
  BY <1>0, <1>9 DEF vars, outside, disk, history, verdicts, RelinkInv, cur
<1> QED
  BY <1>2, <1>3, <1>4, <1>5, <1>6, <1>7, <1>8, <1>9, StepIs DEF Managing

\* CleaningKeepsSeed: from the cleaning of a client's download no step breaks a
\* shared file whose data is in the library, unless a manager was at work when the
\* section accepted it.
THEOREM CleaningKeepsSeed == Spec => CleanKeepsSeed
<1>1. Init => FromInv /\ RelinkInv
  BY FromInit, IdleType DEF Init, RelinkInv
<1>2. /\ TypeOK /\ BookInv /\ FromInv /\ [Next]_vars => FromInv'
      /\ TypeOK /\ BookInv /\ WatchInv /\ FromInv /\ RelinkInv /\ [Next]_vars => RelinkInv'
  BY FromStep, RelinkStep
<1>3. ASSUME TypeOK, BookInv, RelinkInv, [Next]_vars
      PROVE  [At("clean") /\ run.agent = "client" /\ ~config.deleteOriginal /\ cur \notin early =>
                \A f \in FilesOf(cur) :
                    Resolves(f) /\ dst[Target(f)].kind = "toLib" => Resolves(f)']_vars
  <2> SUFFICES ASSUME Next, At("clean"), run.agent = "client", ~config.deleteOriginal, cur \notin early,
                      NEW f \in FilesOf(cur), Resolves(f), dst[Target(f)].kind = "toLib"
               PROVE  Resolves(f)'
    BY <1>3 DEF vars
  <2>1. src[f] \in {"data", "toLib"}
    BY <1>3 DEF At, RelinkInv, Resolves
  <2>2. src' = src
    BY DEF Next, At, StartClient, StartManual, NextDir, EndRun, Record, Search, Pause, Prepare,
           Link, Extract, Tag, Rename, HandOver, Answer, Withhold, Reject, Raise, Plex, Failed,
           Mark, Relink, Remove, Clean, Crash, GiveUp, Take, outside, disk
  <2> QED BY <2>1, <2>2 DEF Resolves
<1> QED
  BY <1>1, <1>2, <1>3, WatchInvariant, PTL DEF Spec, CleanKeepsSeed
-----------------------------------------------------------------------------
(* The files: what is lost                                                 *)

\* The settings under which no file is to be lost.
Safe == config.useLink # "sym" /\ ~config.forceClean

Excused(f) == \/ f \in replaced \cup config.small \/ Near(f, early)
              \/ config.deleteFailed /\ Near(f, rejected)

\* A file that has a copy elsewhere, or that is not asked for.
Saved(f) == Stored(f) \/ Excused(f)

Forgone(f) == client[Of(f)] = "removed" /\ (f \in passed \/ Of(f) \notin Unshared)

\* The steps of a run after which its torrent may be deleted.
Deleting == {"section", "dispatch", "wait", "plex", "mark", "relink", "remove"}

LossInv ==
    Safe =>
        /\ \A f \in Files : src[f] = "data" \/ Saved(f) \/ Forgone(f)
        /\ run.pc \in Deleting =>
              \A f \in FilesOf(cur) : src[f] = "data" => Saved(f) \/ f \in passed
        /\ run.pc = "link" =>
              \A f \in FilesOf(cur) \ run.files : src[f] = "data" =>
                  \/ Saved(f) \/ f \in passed
                  \/ f \in Archives /\ config.extract /\ run.from = "src"

\* Verdicts and excuses last, and no step brings data back to the download directory.
LEMMA Grows ==
    ASSUME TypeOK, [Next]_vars
    PROVE  /\ config' = config /\ lib \subseteq lib' /\ passed \subseteq passed'
           /\ replaced \subseteq replaced' /\ early \subseteq early' /\ rejected \subseteq rejected'
           /\ \A t \in Torrents : client[t] = "removed" => client'[t] = "removed"
           /\ \A f \in Files : src'[f] = "data" => src[f] = "data"
<1>0. client \in [Torrents -> States] /\ src \in [Files -> Places] /\ run.files \subseteq Files
  BY DEF TypeOK, States, Places, RunType
<1>1. CASE \/ \E t \in Torrents : StartClient(t)
           \/ \E d \in run.todo : NextDir(d)
           \/ StartManual \/ EndRun \/ Record \/ Search \/ Prepare
  BY <1>1 DEF StartClient, StartManual, NextDir, EndRun, Record, Search, Prepare, outside, disk,
              history, verdicts, fates
<1>2. CASE Pause \/ Failed
  <2>1. /\ UNCHANGED <<config, disk, verdicts, fates>>
        /\ client' = client \/ \E t, s : client' = [client EXCEPT ![t] = IF @ = "removed" THEN @ ELSE s]
    BY <1>2 DEF Pause, Failed, Rpc
  <2> QED BY <1>0, <2>1 DEF disk, verdicts, fates
<1>3. ASSUME NEW f \in run.files, Link(f)
      PROVE  /\ UNCHANGED <<config, client, lib, replaced, early, rejected>> /\ passed \subseteq passed'
             /\ \A g \in Files : src'[g] = "data" => src[g] = "data"
  <2>1. UNCHANGED <<config, client, lib, replaced, early, rejected>> /\ passed \subseteq passed'
    BY <1>3 DEF Link, SkipExisting, SkipUnlinked, LinkInto, Copy, CopyFails, MovedOnly, verdicts
  <2>2. \/ src' = src \/ src' = [src EXCEPT ![f] = NewSrc(f)] \/ src' = [src EXCEPT ![f] = "absent"]
    BY <1>3 DEF Link, SkipExisting, SkipUnlinked, LinkInto, Copy, CopyFails, MovedOnly
  <2>3. NewSrc(f) \in {"absent", "toDst", src[f]}
    BY DEF NewSrc
  <2> QED BY <1>0, <2>1, <2>2, <2>3
<1>4. CASE Extract
  BY <1>0, <1>4 DEF Extract, verdicts
<1>5. CASE Tag \/ Rename \/ HandOver \/ Raise \/ Plex \/ Mark \/ Clean \/ Crash
  BY <1>5 DEF Tag, Rename, HandOver, Raise, Plex, Mark, Clean, Crash, outside, disk, history,
              verdicts, fates
<1>6. CASE Answers
  <2>1. /\ UNCHANGED <<config, client, src, lib, fates>> /\ early \subseteq early'
    BY <1>6, Zenon DEF Answers, Answer, Withhold, Reject, Accept, outside, disk
  <2>2. rejected \subseteq rejected'
    BY <1>6 DEF Answers, Answer, Withhold, Reject
  <2> QED BY <2>1, <2>2 DEF fates
<1>7. CASE Relink
  BY <1>0, <1>7 DEF Relink, Shortened, history, verdicts, fates
<1>8. CASE Remove
  <2>1. /\ UNCHANGED <<config, lib, verdicts, fates>>
        /\ \/ client' = client
           \/ client' = [client EXCEPT ![run.id] = "removed"]
           \/ client' = [client EXCEPT ![run.id] = IF @ = "removed" THEN @ ELSE "seeding"]
        /\ src' = src \/ src' = [f \in Files |-> IF Of(f) = run.id THEN "absent" ELSE src[f]]
    BY <1>8 DEF Remove, Rpc
  <2> QED BY <1>0, <2>1 DEF verdicts, fates
<1>9. CASE Managing \/ UNCHANGED vars
  <2>1. UNCHANGED <<config, client, src, history>> /\ lib \subseteq lib'
    BY <1>9 DEF Managing, GiveUp, Take, vars, outside, disk
  <2> QED BY <2>1 DEF history, verdicts, fates
<1> QED
  BY <1>1, <1>2, <1>3, <1>4, <1>5, <1>6, <1>7, <1>8, <1>9 DEF Next, Managing, Answers

LEMMA ExcusedStays ==
    ASSUME TypeOK, [Next]_vars, NEW f \in Files
    PROVE  /\ Excused(f) => Excused(f)'
           /\ Forgone(f) => Forgone(f)'
           /\ Homes(f)' = Homes(f) /\ Of(f)' = Of(f) /\ config' = config
<1>1. /\ config' = config /\ passed \subseteq passed'
      /\ replaced \subseteq replaced' /\ early \subseteq early' /\ rejected \subseteq rejected'
      /\ \A t \in Torrents : client[t] = "removed" => client'[t] = "removed"
  BY Grows
<1>2. \A ts, us : ts \subseteq us /\ Near(f, ts) => Near(f, us)'
  BY <1>1 DEF Near, TargetsOf, FilesOf, Of
<1>3. Excused(f) => Excused(f)'
  BY <1>1, <1>2 DEF Excused
<1>4. Of(f) \in Torrents
  BY FilesType DEF TypeOK
<1> QED
  BY <1>1, <1>3, <1>4 DEF Forgone, Homes, Of, Unshared

\* So a file stays saved if its copy in the output directory stays or is excused.
LEMMA SavedBy ==
    ASSUME TypeOK, [Next]_vars, NEW f \in Files,
           \A s \in Homes(f) : dst[s] = Data(f) => Saved(f)'
    PROVE  Saved(f) => Saved(f)'
<1>1. f \in lib => Stored(f)'
  BY Grows DEF Stored
<1> QED
  BY <1>1, ExcusedStays DEF Saved, Stored

LEMMA HomeSlots ==
    ASSUME TypeOK, NEW f \in Files, NEW s \in Homes(f)
    PROVE  /\ s \in Slots /\ s[1] = config.target[f] /\ s[2] \in Dirs /\ s[3] \in {"given", "fixed"}
           /\ s = <<s[1], s[2], s[3]>>
BY FilesType DEF TypeOK, Homes

LEMMA AtHome ==
    ASSUME TypeOK, [Next]_vars, NEW f \in Files, NEW s \in Homes(f), dst'[s] = Data(f)
    PROVE  Saved(f)'
<1>1. Homes(f)' = Homes(f)
  BY ExcusedStays
<1> QED
  BY <1>1 DEF Saved, Stored, Data

LEMMA SavedLink ==
    ASSUME TypeOK, NEW g \in run.files, Link(g) \/ (Crash /\ ~Exists(Target(g)) /\ dst' = [dst EXCEPT ![Target(g)] = Part(g)]),
           NEW f \in Files
    PROVE  Saved(f) => Saved(f)'
<1>0. [Next]_vars /\ dst \in [Slots -> Entries]
  BY DEF Next, TypeOK
<1>1. dst' = dst \/ (~Exists(Target(g)) /\ \E e : dst' = [dst EXCEPT ![Target(g)] = e])
  BY DEF Link, SkipExisting, SkipUnlinked, LinkInto, Copy, CopyFails, MovedOnly
<1>2. ASSUME NEW s \in Homes(f), dst[s] = Data(f) PROVE Saved(f)'
  <2>1. Exists(s)
    BY <1>2, Kinds DEF Exists, Dangling
  <2>2. s \in Slots
    BY HomeSlots
  <2>3. dst'[s] = dst[s]
    BY <1>0, <1>1, <2>1, <2>2
  <2> QED BY <1>0, <1>2, <2>3, AtHome
<1> QED
  BY <1>0, <1>2, SavedBy

LEMMA SavedExtract == ASSUME TypeOK, Extract, NEW f \in Files PROVE Saved(f) => Saved(f)'
<1>0. [Next]_vars /\ \A g \in Files : Target(g) \in Slots
  BY FilesType DEF Next, TypeOK
<1>1. PICK done \in SUBSET SourceArchives :
        /\ \A s \in Slots : \/ dst'[s] = dst[s] /\ (\A a \in done : Target(a) # s)
                            \/ \E a \in done : Target(a) = s /\ dst'[s] = Data(a)
        /\ replaced' = replaced \cup {h \in Files : /\ h \in done \/ dst[Target(h)].file = h
                                                    /\ dst'[Target(h)].file # h}
  BY ExtractEffect
<1>2. ASSUME NEW s \in Homes(f), dst[s] = Data(f) PROVE Saved(f)'
  <2>1. s \in Slots /\ s[1] = config.target[f]
    BY HomeSlots
  <2>2. CASE dst'[s] = dst[s]
    BY <1>0, <1>2, <2>2, AtHome
  <2>3. ASSUME NEW a \in done, Target(a) = s, dst'[s] = Data(a), a # f PROVE Saved(f)'
    <3>1. s = Target(f)
      BY <2>1, <2>3 DEF Target
    <3>2. f \in replaced'
      BY <1>1, <1>2, <2>3, <3>1, Kinds
    <3> QED BY <3>2 DEF Saved, Excused
  <2> QED BY <1>1, <1>2, <2>1, <2>2, <2>3
<1> QED
  BY <1>0, <1>2, SavedBy

LEMMA SavedTag == ASSUME TypeOK, Tag, NEW f \in Files PROVE Saved(f) => Saved(f)'
<1>0. [Next]_vars
  BY DEF Next
<1>1. ASSUME NEW s \in Homes(f), dst[s] = Data(f) PROVE Saved(f)'
  <2>1. s \in Slots /\ s[1] = config.target[f] /\ s[2] \in Dirs /\ s[3] \in {"given", "fixed"}
        /\ s = <<s[1], s[2], s[3]>> /\ dst[s] # Nothing
    BY <1>1, HomeSlots, Kinds
  <2>2. CASE dst'[s] = dst[s]
    BY <1>0, <1>1, <2>2, AtHome
  <2>3. CASE dst'[s] # dst[s]
    <3>1. /\ s[1] \in TargetsOf(cur) /\ Clear("tagged")
          /\ dst' = [z \in Slots |->
                        IF z[1] \notin TargetsOf(cur) THEN dst[z]
                        ELSE IF z[2] = "own" THEN Nothing ELSE dst[<<z[1], "own", z[3]>>]]
      BY <2>1, <2>3 DEF Tag
    <3>2. s[2] = "own"
      <4>1. s[2] = "tagged" => s \in Contents(cur, "tagged")
        BY <2>1, <3>1 DEF Contents
      <4> QED BY <2>1, <3>1, <4>1 DEF Clear, Dirs
    <3>3. <<s[1], "tagged", s[3]>> \in Homes(f) /\ <<s[1], "tagged", s[3]>> \in Slots
      BY <2>1 DEF Homes, Slots, Dirs
    <3>4. dst'[<<s[1], "tagged", s[3]>>] = dst[<<s[1], "own", s[3]>>]
      BY <3>1, <3>3
    <3>5. dst'[<<s[1], "tagged", s[3]>>] = Data(f)
      BY <1>1, <2>1, <3>2, <3>4
    <3> QED BY <1>0, <3>3, <3>5, AtHome
  <2> QED BY <2>2, <2>3
<1> QED
  BY <1>0, <1>1, SavedBy

LEMMA SavedRename == ASSUME TypeOK, Rename, NEW f \in Files PROVE Saved(f) => Saved(f)'
<1>0. [Next]_vars /\ run.dir \in Dirs
  BY DEF Next, TypeOK, RunType
<1>1. PICK named \in SUBSET TargetsOf(cur) :
         /\ \A s \in Slots :
               /\ s[1] \notin named \/ s[2] # run.dir => dst'[s] = dst[s]
               /\ s[1] \in named /\ s[2] = run.dir /\ s[3] = "given" => dst'[s] = Nothing
               /\ s[1] \in named /\ s[2] = run.dir /\ s[3] # "given" =>
                     dst'[s] = dst[<<s[1], run.dir, "given">>]
         /\ replaced' = replaced \cup
               {g \in Files : \E x \in named :
                    /\ dst[<<x, run.dir, "fixed">>].file = g
                    /\ dst[<<x, run.dir, "given">>] # dst[<<x, run.dir, "fixed">>]}
  BY RenameEffect
<1>2. ASSUME NEW s \in Homes(f), dst[s] = Data(f) PROVE Saved(f)'
  <2>1. s \in Slots /\ s[1] = config.target[f] /\ s[3] \in {"given", "fixed"}
        /\ s = <<s[1], s[2], s[3]>>
    BY HomeSlots
  <2>2. CASE dst'[s] = dst[s]
    BY <1>0, <1>2, <2>2, AtHome
  <2>3. CASE s[1] \in named /\ s[2] = run.dir /\ s[3] = "given"
    <3>1. <<s[1], run.dir, "fixed">> \in Homes(f) /\ <<s[1], run.dir, "fixed">> \in Slots
      BY <1>0, <2>1 DEF Homes, Slots
    <3>2. dst'[<<s[1], run.dir, "fixed">>] = dst[<<s[1], run.dir, "given">>]
      BY <1>1, <2>3, <3>1
    <3>3. dst'[<<s[1], run.dir, "fixed">>] = Data(f)
      BY <1>2, <2>1, <2>3, <3>2
    <3> QED BY <1>0, <3>1, <3>3, AtHome
  <2>4. CASE s[1] \in named /\ s[2] = run.dir /\ s[3] = "fixed" /\ dst'[s] # dst[s]
    <3>1. dst[<<s[1], run.dir, "fixed">>] = Data(f)
      BY <1>2, <2>1, <2>4
    <3>2. dst[<<s[1], run.dir, "given">>] # dst[<<s[1], run.dir, "fixed">>]
      BY <1>1, <2>1, <2>4, <1>2, <3>1
    <3>3. f \in replaced'
      BY <1>1, <2>4, <3>1, <3>2, Kinds
    <3> QED BY <3>3 DEF Saved, Excused
  <2> QED BY <1>1, <2>1, <2>2, <2>3, <2>4
<1> QED
  BY <1>0, <1>2, SavedBy

LEMMA SavedReject == ASSUME TypeOK, Reject, NEW f \in Files PROVE Saved(f) => Saved(f)'
<1>0. [Next]_vars
  BY DEF Next
<1>1. ASSUME NEW s \in Homes(f), dst[s] = Data(f) PROVE Saved(f)'
  <2>1. s \in Slots /\ s[1] = config.target[f]
    BY HomeSlots
  <2>2. CASE dst'[s] = dst[s]
    BY <1>0, <1>1, <2>2, AtHome
  <2>3. CASE dst'[s] # dst[s]
    <3>1. config.deleteFailed /\ s \in Contents(cur, run.dir) /\ cur \in rejected' /\ config' = config
      BY <2>1, <2>3 DEF Reject, Emptied
    <3>2. config.target[f] \in TargetsOf(cur)
      BY <2>1, <3>1 DEF Contents
    <3>3. Near(f, rejected)'
      BY <3>1, <3>2 DEF Near, TargetsOf, FilesOf, Of
    <3> QED BY <3>1, <3>3 DEF Saved, Excused
  <2> QED BY <2>2, <2>3
<1> QED
  BY <1>0, <1>1, SavedBy

LEMMA SavedClean ==
    ASSUME TypeOK, WatchInv, Safe, Clean, NEW f \in Files PROVE Saved(f) => Saved(f)'
<1>0. [Next]_vars /\ UNCHANGED <<config, early>>
  BY DEF Next, Clean, history, verdicts
<1>1. ASSUME NEW s \in Homes(f), dst[s] = Data(f) PROVE Saved(f)'
  <2>1. s \in Slots /\ s[1] = config.target[f]
    BY HomeSlots
  <2>2. CASE dst'[s] = dst[s]
    BY <1>0, <1>1, <2>2, AtHome
  <2>3. CASE dst'[s] # dst[s]
    <3>1. s \in Contents(cur, Output)
      BY <2>1, <2>3 DEF Clean, Emptied
    <3>2. config.target[f] \in TargetsOf(cur)
      BY <2>1, <3>1 DEF Contents
    <3>3. CASE Watched
      <4>1. cur \in early
        BY <3>3 DEF WatchInv, Succeeded, Clean, At
      <4>2. Excused(f)
        BY <3>2, <4>1 DEF Excused, Near
      <4> QED BY <1>0, <4>2, ExcusedStays DEF Saved
    <3>4. CASE ~Watched
      <4>1. ~\E z \in Contents(cur, Output) : Dangling(z)
        BY <3>4 DEF Safe, Watched, Dead, Dangling
      <4>2. Ignored(s)
        <5>1. ASSUME dst' = [z \in Slots |-> IF z \in Contents(cur, Output) /\ Ignored(z)
                                             THEN Nothing ELSE dst[z]]
              PROVE  Ignored(s)
          BY <2>1, <2>3, <5>1
        <5> QED BY <2>3, <3>1, <3>4, <4>1, <5>1 DEF Clean, Cleaned, Safe
      <4>3. f \in config.small
        BY <1>1, <4>2, Kinds DEF Ignored
      <4>4. Excused(f)
        BY <4>3 DEF Excused
      <4> QED BY <1>0, <4>4, ExcusedStays DEF Saved
    <3> QED BY <3>3, <3>4
  <2> QED BY <2>2, <2>3
<1> QED
  BY <1>0, <1>1, SavedBy

LEMMA SavedTake ==
    ASSUME TypeOK, NEW m \in moving, NEW z \in Slots, Take(m, z), NEW f \in Files
    PROVE  Saved(f) => Saved(f)'
<1>0. /\ [Next]_vars /\ (dst[z].kind = "data" => dst[z].file \in lib')
      /\ \A s \in Slots : s # z => dst'[s] = dst[s]
  BY TakeEffect DEF Next
<1>1. ASSUME NEW s \in Homes(f), dst[s] = Data(f) PROVE Saved(f)'
  <2>1. s \in Slots
    BY HomeSlots
  <2>2. CASE s # z
    BY <1>0, <1>1, <2>1, <2>2, AtHome
  <2>3. CASE s = z
    BY <1>0, <1>1, <2>3, Kinds DEF Saved, Stored
  <2> QED BY <2>2, <2>3
<1> QED
  BY <1>0, <1>1, SavedBy

LEMMA SavedStays ==
    ASSUME TypeOK, BookInv, WatchInv, Safe, [Next]_vars, NEW f \in Files
    PROVE  Saved(f) => Saved(f)'
<1>1. CASE dst' = dst
  <2>1. \A s \in Homes(f) : dst[s] = Data(f) => Saved(f)'
    BY <1>1, AtHome
  <2> QED BY <2>1, SavedBy
<1>2. CASE \/ \E t \in Torrents : StartClient(t)
           \/ \E d \in run.todo : NextDir(d)
           \/ StartManual \/ EndRun \/ Record \/ Search \/ Pause \/ Prepare
           \/ HandOver \/ Answer \/ Withhold \/ Raise \/ Plex \/ Failed \/ Mark \/ Relink \/ Remove
           \/ (\E m \in moving : GiveUp(m)) \/ UNCHANGED vars
  <2>1. dst' = dst
    BY <1>2 DEF StartClient, NextDir, StartManual, EndRun, Record, Search, Pause, Prepare, HandOver,
                Answer, Withhold, Raise, Plex, Failed, Mark, Relink, Remove, GiveUp, vars, outside, disk
  <2> QED BY <1>1, <2>1
<1>3. CASE Crash
  BY <1>1, <1>3, SavedLink DEF Crash
<1> QED
  BY <1>2, <1>3, SavedLink, SavedExtract, SavedTag, SavedRename, SavedReject, SavedClean, SavedTake
  DEF Next

\* The runs that may delete their torrent linked and extracted its files before.
LEMMA RunGoes ==
    ASSUME TypeOK, BookInv, [Next]_vars
    PROVE  /\ run'.pc \in Deleting => Extract \/ (run.pc \in Deleting /\ run'.cur = run.cur)
           /\ run'.pc = "link" => \/ Prepare \/ (\E f \in run.files : Link(f))
                                  \/ (Managing \/ UNCHANGED vars) /\ run' = run
<1>0. run \in RunType /\ Idle.pc = "idle"
  BY IdleType DEF TypeOK
<1>1. CASE (\E t \in Torrents : StartClient(t)) \/ StartManual
  BY <1>1 DEF StartClient, StartManual, Idle, Deleting
<1>2. ASSUME NEW d \in run.todo, NextDir(d) PROVE run'.pc \notin Deleting \cup {"link"}
  <2>1. run'.pc \in {"idle", "next", "search"}
    BY <1>0, <1>2, NextDirEffect DEF Begin, RunType
  <2> QED BY <2>1 DEF Deleting
<1>3. CASE EndRun \/ Raise \/ Crash
  BY <1>0, <1>3 DEF EndRun, Raise, Crash, Abort, Deleting
<1>4. CASE Record
  <2>1. run' = Idle \/ run' = [run EXCEPT !.pc = "search"]
    BY <1>4, Zenon DEF Record, Goto, Abort
  <2> QED BY <1>0, <2>1 DEF RunType, Deleting
<1>5. CASE Search \/ Pause
  <2>1. \/ run' = Idle
        \/ \E n : run' = [run EXCEPT !.pc = "pause", !.name = n]
        \/ run' = [run EXCEPT !.pc = "prepare"]
    BY <1>5 DEF Search, Pause, Abort, Goto
  <2> QED BY <1>0, <2>1 DEF RunType, Deleting
<1>6. CASE Prepare
  <2>1. run' = Idle \/ \E s : run' = [run EXCEPT !.pc = "link", !.files = s]
    BY <1>6 DEF Prepare, Abort
  <2> QED BY <1>0, <1>6, <2>1 DEF RunType, Deleting
<1>7. ASSUME NEW f \in run.files, Link(f) PROVE run'.pc = "link"
  BY <1>0, <1>7 DEF Link, DoneWith, At, RunType
<1>8. CASE Extract
  BY <1>0, <1>8 DEF Extract, RunType
<1>9. CASE Tag \/ Rename \/ HandOver
  <2>1. /\ run.pc \in {"section", "dispatch"}
        /\ \/ run' = Idle
           \/ run' = [run EXCEPT !.dir = "tagged"]
           \/ \E l \in {"dispatch", "wait"} : run' = [run EXCEPT !.pc = l]
    BY <1>9 DEF Tag, Rename, HandOver, Abort, Goto, At
  <2> QED BY <1>0, <2>1 DEF RunType, Deleting
<1>10. CASE Answers
  BY <1>10, AnswerTypes DEF Deleting
<1>11. CASE Plex \/ Mark \/ Relink \/ Remove
  <2>1. /\ run.pc \in {"plex", "mark", "relink", "remove"}
        /\ \E l \in {"failed", "mark", "clean", "relink", "remove"} : run' = [run EXCEPT !.pc = l]
    BY <1>11 DEF Plex, Mark, Relink, Remove, Goto, At
  <2> QED BY <1>0, <2>1 DEF RunType, Deleting
<1>12. CASE Failed \/ Clean
  BY <1>0, <1>12, ReturnType DEF Failed, Clean, Deleting
<1>13. CASE Managing \/ UNCHANGED vars
  BY <1>13 DEF Managing, GiveUp, Take, vars
<1> QED
  BY <1>1, <1>2, <1>3, <1>4, <1>5, <1>6, <1>7, <1>8, <1>9, <1>10, <1>11, <1>12, <1>13
  DEF Next, Answers, Managing, Deleting

LEMMA LossLink ==
    ASSUME TypeOK, BookInv, WatchInv, LossInv, NEW f \in run.files, Link(f) PROVE LossInv'
<1> SUFFICES ASSUME Safe PROVE LossInv'
  BY DEF LossInv, Safe, Link
<1>0. /\ [Next]_vars /\ f \in Files /\ Target(f) \in Slots /\ Target(f) \in Homes(f)
      /\ dst \in [Slots -> Entries] /\ src \in [Files -> Places] /\ run \in RunType /\ config' = config
      /\ run.pc = "link"
  BY FilesType DEF Next, TypeOK, RunType, Link, Places, At
<1>1. run'.pc = "link" /\ run'.files = run.files \ {f} /\ run'.cur = run.cur /\ run'.from = run.from
  BY <1>0 DEF Link, DoneWith, RunType
<1>2. /\ \A g \in Files : Saved(g) => Saved(g)'
      /\ \A g \in Files : Forgone(g) => Forgone(g)'
      /\ passed \subseteq passed' /\ \A g \in Files : src'[g] = "data" => src[g] = "data"
  BY <1>0, SavedStays, ExcusedStays, Grows
<1>3. \A g \in Files : g # f => src'[g] = src[g]
  BY <1>0 DEF Link, SkipExisting, SkipUnlinked, LinkInto, Copy, CopyFails, MovedOnly
<1>4. src[f] = "data" => Saved(f)' \/ (src'[f] = "data" /\ f \in passed')
  <2> SUFFICES ASSUME src[f] = "data" PROVE Saved(f)' \/ (src'[f] = "data" /\ f \in passed')
    OBVIOUS
  <2>1. CASE SkipUnlinked(f)
    BY <2>1 DEF SkipUnlinked
  <2>2. CASE SkipExisting(f)
    <3>1. CASE dst[Target(f)] = Data(f)
      <4>1. Stored(f)
        BY <1>0, <3>1 DEF Stored
      <4> QED BY <1>0, <1>2, <4>1 DEF Saved
    <3>2. CASE dst[Target(f)] # Data(f)
      BY <2>2, <3>2 DEF SkipExisting
    <3> QED BY <3>1, <3>2
  <2>3. CASE LinkInto(f) \/ MovedOnly(f)
    <3>1. NewDst(f) = Data(f)
      BY DEF NewDst, Safe
    <3>2. dst'[Target(f)] = Data(f)
      BY <1>0, <2>3, <3>1 DEF LinkInto, MovedOnly
    <3> QED BY <1>0, <3>2, AtHome
  <2>4. CASE Copy(f)
    <3>1. dst'[Target(f)] = Data(f)
      BY <1>0, <2>4 DEF Copy
    <3> QED BY <1>0, <3>1, AtHome
  <2>5. CASE CopyFails(f)
    BY <2>5 DEF CopyFails
  <2> QED BY <2>1, <2>2, <2>3, <2>4, <2>5 DEF Link
<1>5. \A g \in Files : src'[g] = "data" \/ Saved(g)' \/ Forgone(g)'
  BY <1>2, <1>3, <1>4 DEF LossInv
<1>6. \A g \in FilesOf(cur) \ run'.files : src'[g] = "data" =>
          Saved(g)' \/ g \in passed' \/ (g \in Archives /\ config.extract /\ run.from = "src")
  <2>1. FilesOf(cur) \subseteq Files
    BY DEF FilesOf
  <2> QED BY <1>0, <1>1, <1>2, <1>3, <1>4, <2>1 DEF LossInv
<1>7. FilesOf(cur)' = FilesOf(cur)
  BY <1>0, <1>1 DEF FilesOf, Of, cur
<1> QED
  BY <1>0, <1>1, <1>5, <1>6, <1>7 DEF LossInv, Deleting

LEMMA LossExtract ==
    ASSUME TypeOK, BookInv, WatchInv, LossInv, Extract PROVE LossInv'
<1> SUFFICES ASSUME Safe PROVE LossInv'
  BY DEF LossInv, Safe, Extract
<1>0. /\ [Next]_vars /\ config' = config /\ run \in RunType /\ run.pc = "link" /\ run.files = {}
      /\ \A g \in Files : Target(g) \in Slots /\ Target(g) \in Homes(g)
  BY FilesType DEF Next, TypeOK, Extract, At
<1>1. run'.pc = "section" /\ run'.cur = run.cur
  BY <1>0 DEF Extract, RunType
<1>2. /\ \A g \in Files : Saved(g) => Saved(g)'
      /\ \A g \in Files : Forgone(g) => Forgone(g)'
      /\ passed \subseteq passed' /\ \A g \in Files : src'[g] = "data" => src[g] = "data"
  BY <1>0, SavedStays, ExcusedStays, Grows
<1>3. PICK done \in SUBSET SourceArchives :
        /\ \A s \in Slots : \/ dst'[s] = dst[s] /\ (\A a \in done : Target(a) # s)
                            \/ \E a \in done : Target(a) = s /\ dst'[s] = Data(a)
        /\ src' = [f \in Files |-> IF f \in RemovedArchives(done) THEN "absent" ELSE src[f]]
        /\ passed' = passed \cup (SourceArchives \ done)
        /\ replaced' = replaced \cup {h \in Files : /\ h \in done \/ dst[Target(h)].file = h
                                                    /\ dst'[Target(h)].file # h}
  BY ExtractEffect
<1>4. ASSUME NEW a \in done PROVE a \in Files /\ Saved(a)'
  <2>1. a \in Files
    BY DEF SourceArchives, FilesOf
  <2>2. CASE dst'[Target(a)].file # a
    <3>1. a \in replaced'
      BY <1>3, <2>1, <2>2
    <3> QED BY <2>1, <3>1 DEF Saved, Excused
  <2>3. CASE dst'[Target(a)].file = a
    <3>1. PICK b \in done : dst'[Target(a)] = Data(b)
      BY <1>0, <1>3, <2>1
    <3>2. dst'[Target(a)] = Data(a)
      BY <2>3, <3>1, Kinds
    <3> QED BY <1>0, <2>1, <3>2, AtHome
  <2> QED BY <2>2, <2>3, <2>1
<1>5. \A g \in Files : src'[g] = "data" \/ Saved(g)' \/ Forgone(g)'
  <2> SUFFICES ASSUME NEW g \in Files PROVE src'[g] = "data" \/ Saved(g)' \/ Forgone(g)'
    OBVIOUS
  <2>1. CASE g \in done
    BY <1>4, <2>1
  <2>2. CASE g \notin done
    <3>1. src'[g] = src[g]
      BY <1>3, <2>2 DEF RemovedArchives
    <3> QED BY <1>2, <3>1 DEF LossInv
  <2> QED BY <2>1, <2>2
<1>6. \A g \in FilesOf(cur) : src'[g] = "data" => Saved(g)' \/ g \in passed'
  <2> SUFFICES ASSUME NEW g \in FilesOf(cur), src'[g] = "data" PROVE Saved(g)' \/ g \in passed'
    OBVIOUS
  <2>1. g \in Files /\ src[g] = "data"
    BY <1>2 DEF FilesOf
  <2>2. CASE Saved(g) \/ g \in passed
    BY <1>2, <2>1, <2>2
  <2>3. CASE g \in Archives /\ config.extract /\ run.from = "src"
    <3>1. g \in SourceArchives
      BY <2>1, <2>3 DEF SourceArchives
    <3> QED BY <1>3, <1>4, <3>1
  <2> QED BY <1>0, <2>1, <2>2, <2>3 DEF LossInv
<1>7. FilesOf(cur)' = FilesOf(cur)
  BY <1>0, <1>1 DEF FilesOf, Of, cur
<1> QED
  BY <1>1, <1>5, <1>6, <1>7 DEF LossInv

LEMMA LossPrepare ==
    ASSUME TypeOK, BookInv, WatchInv, LossInv, Prepare PROVE LossInv'
<1> SUFFICES ASSUME Safe PROVE LossInv'
  BY DEF LossInv, Safe, Prepare, outside
<1>0. /\ [Next]_vars /\ UNCHANGED <<config, src>> /\ run \in RunType /\ src \in [Files -> Places]
      /\ run.pc = "prepare"
  BY DEF Next, TypeOK, Prepare, At, outside, disk, Places
<1>2. /\ \A g \in Files : Saved(g) => Saved(g)'
      /\ \A g \in Files : Forgone(g) => Forgone(g)'
  BY <1>0, SavedStays, ExcusedStays
<1>3. \A g \in Files : src'[g] = "data" \/ Saved(g)' \/ Forgone(g)'
  BY <1>0, <1>2 DEF LossInv
<1>4. run'.pc \notin Deleting
  BY <1>0, RunGoes DEF Prepare, Extract, At, Deleting
<1>5. CASE run' = Idle
  BY <1>3, <1>4, <1>5, IdleType DEF LossInv
<1>6. CASE run' = [run EXCEPT !.pc = "link", !.files = InputFiles] /\ cur \notin Unsafe
  <2>1. run'.files = InputFiles /\ run'.cur = run.cur /\ run'.from = run.from
    BY <1>0, <1>6 DEF RunType
  <2>2. ASSUME NEW g \in FilesOf(cur), g \notin InputFiles, src[g] = "data"
        PROVE  g \in passed' \/ (g \in Archives /\ config.extract /\ run.from = "src")
    <3>1. CASE run.from # "src"
      BY <1>6, <2>2, <3>1 DEF Prepare, FilesOf
    <3>2. CASE run.from = "src"
      BY <2>2, <3>2 DEF InputFiles, FilesOf
    <3> QED BY <3>1, <3>2
  <2>3. FilesOf(cur)' = FilesOf(cur)
    BY <1>0, <2>1 DEF FilesOf, Of, cur
  <2> QED BY <1>0, <1>3, <1>4, <2>1, <2>2, <2>3 DEF LossInv
<1> QED
  BY <1>5, <1>6 DEF Prepare, Abort

\* The torrent that is deleted is the one whose files were looked at, or shares its name.
LEMMA LossRemove ==
    ASSUME TypeOK, BookInv, WatchInv, LossInv, Remove PROVE LossInv'
<1> SUFFICES ASSUME Safe PROVE LossInv'
  BY DEF LossInv, Safe, Remove
<1>0. /\ [Next]_vars /\ config' = config /\ run \in RunType /\ run.pc = "remove"
      /\ client \in [Torrents -> States] /\ \A g \in Files : Of(g) \in Torrents
      /\ run.id \in Torrents /\ NameOf[run.id] = NameOf[cur] /\ cur \in Torrents
  BY FilesType DEF Next, TypeOK, Remove, At, States, BookInv, RunInv, Busy, cur
<1>1. run'.pc = "clean"
  BY <1>0 DEF Remove, Goto, RunType
<1>2. /\ \A g \in Files : Saved(g) => Saved(g)'
      /\ \A g \in Files : Forgone(g) => Forgone(g)'
  BY <1>0, SavedStays, ExcusedStays
<1>3. passed' = passed /\ \A g \in Files : Of(g)' = Of(g)
  BY <1>0 DEF Remove, fates, Of
<1>4. ASSUME NEW g \in Files PROVE src'[g] = "data" \/ Saved(g)' \/ Forgone(g)'
  <2>1. CASE src'[g] = src[g]
    BY <1>2, <2>1 DEF LossInv
  <2>2. CASE src'[g] # src[g]
    <3>1. Of(g) = run.id /\ client'[run.id] = "removed"
      BY <1>0, <2>2 DEF Remove
    <3>2. CASE run.id \notin Unshared
      BY <1>3, <3>1, <3>2 DEF Forgone, Unshared
    <3>3. CASE run.id \in Unshared
      <4>1. run.id = cur
        BY <1>0, <3>3, Given
      <4>2. g \in FilesOf(cur)
        BY <3>1, <4>1 DEF FilesOf
      <4>3. src[g] = "data" => Saved(g) \/ g \in passed
        BY <1>0, <4>2 DEF LossInv, Deleting
      <4>4. Saved(g) \/ Forgone(g) \/ g \in passed
        BY <4>3 DEF LossInv
      <4> QED BY <1>2, <1>3, <3>1, <4>4 DEF Forgone
    <3> QED BY <3>2, <3>3
  <2> QED BY <2>1, <2>2
<1> QED
  BY <1>1, <1>4 DEF LossInv, Deleting

LEMMA LossStep == TypeOK /\ BookInv /\ WatchInv /\ LossInv /\ [Next]_vars => LossInv'
<1> SUFFICES ASSUME TypeOK, BookInv, WatchInv, LossInv, [Next]_vars PROVE LossInv'
  OBVIOUS
<1>1. CASE Prepare
  BY <1>1, LossPrepare
<1>2. ASSUME NEW f \in run.files, Link(f) PROVE LossInv'
  BY <1>2, LossLink
<1>3. CASE Extract
  BY <1>3, LossExtract
<1>4. CASE Remove
  BY <1>4, LossRemove
<1>5. CASE ~Prepare /\ ~Extract /\ ~Remove /\ ~\E f \in run.files : Link(f)
  <2>1. \A f \in Files : src[f] = "data" => src'[f] = "data"
    <3>1. CASE Relink
      BY <3>1 DEF Relink, Shortened, TypeOK
    <3>2. CASE ~Relink
      BY <1>5, <3>2 DEF Next, StartClient, NextDir, StartManual, EndRun, Record, Search, Pause,
              Tag, Rename, HandOver, Answer, Withhold, Reject, Raise, Plex, Failed, Mark,
              Clean, Crash, GiveUp, Take, vars, outside, disk
    <3> QED BY <3>1, <3>2
  <2>2. /\ config' = config /\ passed \subseteq passed'
        /\ \A f \in Files : src'[f] = "data" => src[f] = "data"
    BY Grows
  <2> SUFFICES ASSUME Safe PROVE LossInv'
    BY <2>2 DEF LossInv, Safe
  <2>3. \A f \in Files : (Saved(f) => Saved(f)') /\ (Forgone(f) => Forgone(f)')
    BY SavedStays, ExcusedStays
  <2>4. \A f \in Files : src'[f] = "data" \/ Saved(f)' \/ Forgone(f)'
    BY <2>1, <2>3 DEF LossInv
  <2>5. /\ run'.pc \in Deleting => run.pc \in Deleting /\ run'.cur = run.cur
        /\ run'.pc = "link" => run' = run
    BY <1>5, RunGoes
  <2>6. cur' = cur => FilesOf(cur)' = FilesOf(cur)
    BY <2>2 DEF FilesOf, Of
  <2>7. run'.pc \in Deleting =>
           \A f \in FilesOf(cur)' : src'[f] = "data" => Saved(f)' \/ f \in passed'
    <3> SUFFICES ASSUME run'.pc \in Deleting, NEW f \in FilesOf(cur)', src'[f] = "data"
                 PROVE  Saved(f)' \/ f \in passed'
      OBVIOUS
    <3>1. run.pc \in Deleting /\ f \in FilesOf(cur) /\ f \in Files /\ src[f] = "data"
      BY <2>2, <2>5, <2>6 DEF cur, FilesOf
    <3> QED BY <2>2, <2>3, <3>1 DEF LossInv
  <2>8. run'.pc = "link" =>
           \A f \in FilesOf(cur)' \ run'.files : src'[f] = "data" =>
                \/ Saved(f)' \/ f \in passed'
                \/ f \in Archives /\ config'.extract /\ run'.from = "src"
    <3> SUFFICES ASSUME run'.pc = "link", NEW f \in FilesOf(cur)' \ run'.files, src'[f] = "data"
                 PROVE  \/ Saved(f)' \/ f \in passed'
                        \/ f \in Archives /\ config'.extract /\ run'.from = "src"
      OBVIOUS
    <3>1. run' = run /\ f \in FilesOf(cur) \ run.files /\ f \in Files /\ src[f] = "data"
      BY <2>2, <2>5, <2>6 DEF cur, FilesOf
    <3> QED BY <2>2, <2>3, <3>1 DEF LossInv
  <2> QED BY <2>4, <2>7, <2>8 DEF LossInv
<1> QED
  BY <1>1, <1>2, <1>3, <1>4, <1>5

\* NothingLost: whatever fails, without symbolic links and forced cleaning the last
\* copy of a file goes only where NoSilentLoss allows it.
THEOREM NothingLost == Spec => []NoSilentLoss
<1>1. Init => LossInv
  <2>1. Init => run.pc = "idle" /\ \A f \in Files : src[f] = "data"
    BY IdleType DEF Init
  <2> QED BY <2>1 DEF LossInv, Deleting
<1>2. TypeOK /\ BookInv /\ WatchInv /\ LossInv /\ [Next]_vars => LossInv'
  BY LossStep
<1>3. LossInv => NoSilentLoss
  BY DEF LossInv, NoSilentLoss, Safe, Saved, Excused, Forgone, Kept
<1> QED
  BY <1>1, <1>2, <1>3, WatchInvariant, PTL DEF Spec
=============================================================================
