------------------------- MODULE NzbToMedia_proofs --------------------------
(***************************************************************************)
(* The properties of NzbToMedia hold for every set of downloads, names,    *)
(* settings and faults, and for any number of runs.                        *)
(***************************************************************************)
EXTENDS NzbToMedia, DownloadDB_proofs

\* What the assumptions say of single downloads, texts and settings.
LEMMA Given ==
    /\ {"none", "None", "", "manual", "nzbget", "sabnzbd"} \subseteq Texts
    /\ \A d \in Downloads : NameOf[d] \in Texts /\ InputName[d] \in Texts
    /\ \A c \in Configs : c.client \in {"nzbget", "sabnzbd"}
    /\ MaxRuns \in Nat
<1>1. \A c \in Configs : c.client \in {"nzbget", "sabnzbd"}
  BY NzbAssumption DEF Settings
<1>2. MaxRuns \in Nat
  BY NzbAssumption
<1> QED
  BY <1>1, <1>2, NzbAssumption

LEMMA IdleType == Idle \in RunType /\ Idle.pc = "idle" /\ Idle.cur = "none"
BY Given DEF Idle, RunType, Steps

\* Going on to the next step changes nothing else of the run.
LEMMA GotoType ==
    ASSUME NEW r \in RunType, NEW l \in Steps, NEW r2, r2 = [r EXCEPT !.pc = l]
    PROVE  /\ r2 \in RunType /\ r2.pc = l /\ r2.cur = r.cur /\ r2.result = r.result
           /\ r2.manual = r.manual /\ r2.input = r.input /\ r2.dir = r.dir
           /\ r2.name = r.name /\ r2.agent = r.agent /\ r2.id = r.id
           /\ r2.said = r.said /\ r2.status = r.status
BY DEF RunType

\* A run that returns ends or looks for the next directory.
LEMMA ReturnType ==
    ASSUME run \in RunType, Return
    PROVE  run' \in RunType /\ run'.pc \in {"idle", "next"}
<1>1. \/ run' = Idle
      \/ run' = [Idle EXCEPT !.pc = "next", !.manual = TRUE, !.todo = run.todo, !.FAILED = run.FAILED]
  BY DEF Return
<1>2. run.todo \in SUBSET Downloads /\ run.FAILED \in BOOLEAN
  BY DEF RunType
<1> QED
  BY <1>1, <1>2, IdleType DEF RunType, Steps

\* What a section accepts is the download of the run.
LEMMA AcceptType ==
    ASSUME TypeOK, cur \in Downloads, NEW r, Accept(r)
    PROVE  /\ accepted' \subseteq Downloads /\ early' \subseteq Downloads
           /\ accepted' \in {accepted, accepted \cup {cur}} /\ early \subseteq early'
           /\ r = 0 => cur \in accepted' /\ (cur \in moving => cur \in early')
BY DEF Accept, TypeOK

LEMMA TypeInit == Init => TypeOK
<1> SUFFICES ASSUME Init PROVE TypeOK
  OBVIOUS
<1>1. run \in RunType /\ run.pc = "idle"
  BY IdleType DEF Init
<1>2. config \in Configs /\ rows \in Table(Downloads, Texts)
  BY RowsAssumption DEF Init
<1>3. at \in [Downloads -> {"own", "tagged", "gone"}]
  BY DEF Init
<1>4. holds \in [Downloads -> Contents]
  BY NzbAssumption DEF Init, Contents
<1>5. started \in 0..MaxRuns
  <2>1. started = 0 /\ MaxRuns \in Nat
    BY Given DEF Init
  <2> QED BY <2>1
<1>6. lib \cup moving \cup accepted \cup early \cup settled \cup rejected \subseteq Downloads
  BY DEF Init
<1> QED
  BY <1>1, <1>2, <1>3, <1>4, <1>5, <1>6 DEF TypeOK

LEMMA TypeStep == TypeOK /\ [Next]_vars => TypeOK'
<1> SUFFICES ASSUME TypeOK, [Next]_vars PROVE TypeOK'
  OBVIOUS
<1>a. started < MaxRuns /\ started' = started + 1 => started' \in 0..MaxRuns
  <2>1. started \in 0..MaxRuns /\ MaxRuns \in Nat
    BY Given DEF TypeOK
  <2> QED BY <2>1
<1>b. /\ config \in Configs /\ rows \in Table(Downloads, Texts) /\ run \in RunType
      /\ run.pc \notin {"idle", "next"} => run.cur \in Downloads
  BY DEF TypeOK
<1>1. ASSUME NEW d \in Downloads, NEW s \in {0, 1}, StartClient(d, s) PROVE TypeOK'
  <2>1. run' \in RunType /\ run'.cur \in Downloads /\ run'.pc \in {"record", "lookup"}
    <3>1. /\ config.client \in {"nzbget", "sabnzbd"} /\ InputName[d] \in Texts
          /\ (IF d \in Identified THEN d ELSE "none") \in Downloads \cup Texts
          /\ (IF d \in Identified \/ config.client = "nzbget" THEN "record" ELSE "lookup")
                \in {"record", "lookup"}
      BY <1>b, Given
    <3>2. \E l \in {"record", "lookup"}, i \in Downloads \cup Texts :
             run' = [Idle EXCEPT !.pc = l, !.cur = d, !.agent = config.client,
                                 !.name = InputName[d], !.id = i, !.said = s, !.status = s]
      BY <1>1, <3>1, Zenon DEF StartClient
    <3> QED BY <3>1, <3>2, IdleType DEF RunType, Steps
  <2>2. started' \in 0..MaxRuns
    BY <1>1, <1>a DEF StartClient
  <2> QED BY <1>1, <2>1, <2>2 DEF StartClient, TypeOK, disk
<1>2. ASSUME NEW d \in Downloads, StartGeneric(d) PROVE TypeOK'
  <2>1. run' \in RunType /\ run'.cur \in Downloads /\ run'.pc = "category"
    BY <1>2, Given DEF StartGeneric, Idle, RunType, Steps
  <2>2. started' \in 0..MaxRuns
    BY <1>2, <1>a DEF StartGeneric
  <2> QED BY <1>2, <2>1, <2>2 DEF StartGeneric, TypeOK, disk
<1>3. CASE StartManual
  <2>1. run' \in RunType /\ run'.pc = "next"
    BY <1>3, Given DEF StartManual, Idle, RunType, Steps
  <2>2. started' \in 0..MaxRuns
    BY <1>3, <1>a DEF StartManual
  <2> QED BY <1>3, <2>1, <2>2 DEF StartManual, TypeOK, disk
<1>4. ASSUME NEW d \in run.todo, NextDir(d) PROVE TypeOK'
  <2> DEFINE info == rows[CHOOSE i \in Known(d) : \A j \in Known(d) : i <= j]
  <2>1. Known(d) # {} => info \in Rows(Downloads, Texts)
    <3>1. Known(d) # {} => Known(d) = Pending(rows, NameOf[d])
      BY DEF Known
    <3>2. Known(d) # {} => \E i \in Pending(rows, NameOf[d]) : info = rows[i]
      BY <1>b, <3>1, FirstIsPending DEF First
    <3> HIDE DEF info
    <3> QED BY <1>b, <3>2, TableIsFunction DEF Pending
  <2>2. Known(d) # {} => Loaded(info.id) \in Downloads \cup Texts
    BY <2>1, Given DEF Loaded, Rows
  <2>3. d \in Downloads /\ at[d] \in {"own", "tagged", "gone"} /\ NameOf[d] \in Texts
    BY <1>b, Given DEF TypeOK, RunType
  <2>4. run' \in RunType /\ run'.pc \in {"idle", "next", "category"} /\ (run'.pc = "category" => run'.cur \in Downloads)
    <3> HIDE DEF info
    <3>1. \/ run' = Idle
          \/ run' = [run EXCEPT !.todo = run.todo \ {d}] /\ run.pc = "next"
          \/ \E agent \in {"manual", "nzbget", "sabnzbd"}, id \in Downloads \cup Texts :
                run' = [run EXCEPT !.pc = "category", !.todo = run.todo \ {d}, !.cur = d,
                                   !.dir = at[d], !.input = at[d], !.name = NameOf[d],
                                   !.agent = agent, !.id = id]
      BY <1>4, <2>2, Given DEF NextDir, Abort, At, info
    <3>2. ASSUME NEW agent \in {"manual", "nzbget", "sabnzbd"}, NEW id \in Downloads \cup Texts,
                 run' = [run EXCEPT !.pc = "category", !.todo = run.todo \ {d}, !.cur = d,
                                    !.dir = at[d], !.input = at[d], !.name = NameOf[d],
                                    !.agent = agent, !.id = id]
          PROVE  run' \in RunType /\ run'.pc = "category" /\ run'.cur = d
      BY <1>b, <2>3, <3>2 DEF RunType, Steps
    <3>3. ASSUME run' = [run EXCEPT !.todo = run.todo \ {d}], run.pc = "next"
          PROVE  run' \in RunType /\ run'.pc = "next"
      BY <1>b, <3>3 DEF RunType
    <3> QED BY <2>3, <3>1, <3>2, <3>3, IdleType
  <2> QED BY <1>4, <2>4 DEF NextDir, TypeOK, disk, history
<1>5. CASE EndRun \/ Crash \/ Raise
  <2>1. run' = Idle
    BY <1>5 DEF EndRun, Crash, Raise, Abort
  <2> QED BY <1>5, <2>1, IdleType DEF EndRun, Crash, Raise, TypeOK, disk, history
<1>6. CASE Lookup \/ Category \/ Plex
  <2>1. /\ run' \in RunType /\ (run'.pc \notin {"idle", "next"} => run'.cur = run.cur)
        /\ run'.pc \in {"mark", "clean"} => run'.result = 0
    <3>1. CASE Lookup
      <4>1. \/ run' = Idle
            \/ \E id \in Downloads \cup {"none"} : run' = [run EXCEPT !.pc = "record", !.id = id]
        BY <3>1, Zenon DEF Lookup, Abort, cur
      <4>2. "none" \in Texts
        BY Given
      <4>3. ASSUME NEW id \in Downloads \cup Texts, run' = [run EXCEPT !.pc = "record", !.id = id]
            PROVE  run' \in RunType /\ run'.pc = "record" /\ run'.cur = run.cur
        BY <1>b, <4>3 DEF RunType, Steps
      <4> QED BY <4>1, <4>2, <4>3, IdleType
    <3>2. CASE Category
      BY <1>b, <3>2, ReturnType, GotoType DEF Category, Goto, Steps
    <3>3. CASE Plex
      BY <1>b, <3>3, ReturnType, GotoType DEF Plex, Goto, Steps
    <3> QED BY <1>6, <3>1, <3>2, <3>3
  <2> QED BY <1>6, <2>1 DEF Lookup, Category, Plex, At, TypeOK, disk, history
<1>7. CASE Record
  <2>1. run.cur \in Downloads /\ run.name \in Texts /\ run.agent \in Texts
        /\ Stored(run.id) \in Downloads \cup Texts
    BY <1>7, <1>b, Given DEF Record, At, Stored, RunType
  <2>2. rows' \in Table(Downloads, Texts)
    <3>1. \/ rows' = rows
          \/ \E locked \in BOOLEAN :
                rows' = Upsert(rows, run.cur, run.name, run.agent, Stored(run.id), locked)
      BY <1>7 DEF Record, RecordedName, cur
    <3>2. ASSUME NEW locked \in BOOLEAN,
                 rows' = Upsert(rows, run.cur, run.name, run.agent, Stored(run.id), locked)
          PROVE  rows' \in Table(Downloads, Texts)
      <4> DEFINE id == Stored(run.id)
      <4>1. id \in Downloads \cup Texts
        BY <2>1
      <4> HIDE DEF id
      <4>2. rows' = Upsert(rows, run.cur, run.name, run.agent, id, locked)
        BY <3>2 DEF id
      <4> QED BY <1>b, <2>1, <4>1, <4>2, UpsertRows
    <3> QED BY <1>b, <3>1, <3>2
  <2>3. run' \in RunType /\ run'.pc \in {"idle", "category"} /\ run'.cur \in Downloads \cup {"none"}
        /\ (run'.pc = "category" => run'.cur \in Downloads)
    <3>1. run' = Idle \/ run' = [run EXCEPT !.pc = "category"]
      BY <1>7, Zenon DEF Record, Goto, Abort
    <3>2. run \in RunType /\ "category" \in Steps
      BY DEF TypeOK, Steps
    <3>3. Idle \in RunType /\ Idle.pc = "idle" /\ Idle.cur = "none"
      BY IdleType DEF Idle
    <3> QED BY <2>1, <3>1, <3>2, <3>3, GotoType
  <2>4. accepted' \subseteq Downloads /\ settled' \subseteq Downloads
    BY <1>7 DEF Record, TypeOK
  <2> QED BY <1>7, <2>2, <2>3, <2>4 DEF Record, TypeOK, disk
<1>8. CASE Extract \/ Identify \/ Respond
  <2>1. run' \in RunType /\ run'.pc \notin {"mark", "clean"} /\ (run'.pc \notin {"idle", "next"} => run'.cur = run.cur)
    <3>1. CASE Extract
      BY <3>1 DEF Extract, Goto, RunType, Steps, TypeOK
    <3>2. CASE Identify
      <4>1. \/ run' = [run EXCEPT !.pc = "respond"] \/ run' = Idle
            \/ run' = [run EXCEPT !.pc = "respond", !.dir = "tagged"]
        BY <3>2, Zenon DEF Identify, Goto, Abort
      <4> QED BY <1>b, <4>1, IdleType DEF RunType, Steps
    <3>3. CASE Respond
      <4>1. \/ run' = [run EXCEPT !.pc = "judge"]
            \/ run' = [run EXCEPT !.pc = "plex", !.result = 1]
        BY <3>3, Zenon DEF Respond, Goto, Result
      <4> QED BY <4>1 DEF RunType, Steps, TypeOK
    <3> QED BY <1>8, <3>1, <3>2, <3>3
  <2>2. run.cur \in Downloads /\ at' \in [Downloads -> {"own", "tagged", "gone"}]
    BY <1>8 DEF Extract, Identify, Respond, At, cur, TypeOK
  <2>3. holds' \in [Downloads -> Contents]
    BY <1>8, <2>2 DEF Extract, Identify, Respond, AfterUnpacking, Unpacked, Contents, cur, TypeOK
  <2> QED BY <1>8, <2>1, <2>2, <2>3 DEF Extract, Identify, Respond, At, TypeOK, history
<1>9. CASE Judge
  <2>1. run' \in RunType /\ run'.pc \in {"plex", "dispatch"} /\ run'.cur = run.cur
    BY <1>9 DEF Judge, Status, Result, RunType, Steps, TypeOK
  <2>2. run.cur \in Downloads
    BY <1>9 DEF Judge, At, TypeOK
  <2>3. UNCHANGED <<config, at, holds, lib, moving, rows, started, settled, rejected>>
    BY <1>9 DEF Judge, disk
  <2>4. accepted' \subseteq Downloads /\ early' \subseteq Downloads
    BY <1>9, <2>2, AcceptType DEF Judge, cur
  <2> QED BY <2>1, <2>2, <2>3, <2>4 DEF TypeOK
<1>10. CASE HandOver \/ Answer \/ Withhold \/ Reject
  <2>1. run' \in RunType /\ run'.pc \in {"wait", "plex"} /\ run'.cur = run.cur
    <3>1. CASE HandOver
      BY <1>b, <3>1, GotoType DEF HandOver, Goto, Steps
    <3>2. CASE Answer \/ Withhold
      BY <3>2 DEF Answer, Withhold, Result, RunType, Steps, TypeOK
    <3>3. CASE Reject
      <4>1. \E r \in {0, 1} :
              run' = [run EXCEPT !.pc = "plex", !.result = r,
                                 !.FAILED = run.FAILED \/ config.section # "HeadPhones"]
        BY <3>3 DEF Reject
      <4>2. (run.FAILED \/ config.section # "HeadPhones") \in BOOLEAN
        OBVIOUS
      <4> QED BY <1>b, <4>1, <4>2 DEF RunType, Steps
    <3> QED BY <1>10, <3>1, <3>2, <3>3
  <2>2. run.cur \in Downloads
    BY <1>10 DEF HandOver, Answer, Withhold, Reject, At, TypeOK
  <2>3. at' \in [Downloads -> {"own", "tagged", "gone"}] /\ holds' \in [Downloads -> Contents]
    BY <1>10, <2>2 DEF HandOver, Answer, Withhold, Reject, cur, disk, Contents, TypeOK
  <2>4. /\ moving' \subseteq Downloads /\ rejected' \subseteq Downloads
        /\ UNCHANGED <<config, lib, rows, started, settled>>
    BY <1>10, <2>2 DEF HandOver, Answer, Withhold, Reject, cur, disk, history, TypeOK
  <2>5. accepted' \subseteq Downloads /\ early' \subseteq Downloads
    <3>1. CASE HandOver
      BY <3>1 DEF HandOver, history, TypeOK
    <3>2. CASE Answer \/ Withhold \/ Reject
      BY <2>2, <3>2, AcceptType DEF Answer, Withhold, Reject, cur
    <3> QED BY <1>10, <3>1, <3>2
  <2> QED BY <2>1, <2>2, <2>3, <2>4, <2>5 DEF TypeOK
<1>11. CASE Mark
  <2>1. run' \in RunType /\ run'.pc = "clean" /\ run'.cur = run.cur /\ run'.result = 0
    BY <1>11 DEF Mark, Goto, At, RunType, Steps, TypeOK
  <2>2. run.cur \in Downloads /\ settled' \subseteq Downloads
    BY <1>11 DEF Mark, At, cur, TypeOK
  <2>3. rows' \in Table(Downloads, Texts)
    <3>1. rows' = rows \/ rows' = SetStatus(rows, run.name, 1)
      BY <1>11 DEF Mark
    <3> QED BY <3>1, SetStatusRows DEF TypeOK
  <2> QED BY <1>11, <2>1, <2>2, <2>3 DEF Mark, TypeOK, disk
<1>12. CASE Clean
  <2>1. run' \in RunType /\ run'.pc \in {"idle", "next"}
    BY <1>b, <1>12, ReturnType DEF Clean
  <2>2. at' \in [Downloads -> {"own", "tagged", "gone"}] /\ holds' \in [Downloads -> Contents]
    BY <1>12 DEF Clean, Contents, TypeOK
  <2> QED BY <1>12, <2>1, <2>2 DEF Clean, TypeOK, history
<1>13. ASSUME NEW d \in moving, Take(d) \/ GiveUp(d) PROVE TypeOK'
  <2>1. d \in Downloads
    BY DEF TypeOK
  <2>2. at' \in [Downloads -> {"own", "tagged", "gone"}] /\ holds' \in [Downloads -> Contents]
    BY <1>13, <2>1 DEF Take, GiveUp, Contents, TypeOK
  <2> QED BY <1>13, <2>1, <2>2 DEF Take, GiveUp, TypeOK, history
<1>14. CASE UNCHANGED vars
  BY <1>14 DEF vars, disk, history, TypeOK, Known
<1> QED
  BY <1>1, <1>2, <1>3, <1>4, <1>5, <1>6, <1>7, <1>8, <1>9, <1>10, <1>11, <1>12, <1>13, <1>14 DEF Next

\* TypeCorrect: every variable keeps its type, a run works on a download, and
\* only what a section accepted is marked or cleaned.
THEOREM TypeCorrect == Spec => []TypeOK
BY TypeInit, TypeStep, PTL DEF Spec

-----------------------------------------------------------------------------
(* The table: who is recorded under which name, and what a run knows of it *)

Busy == run.pc \notin {"idle", "next"}
Clients == {"nzbget", "sabnzbd"}

RunInv ==
    /\ Busy => /\ run.name \in {InputName[cur], NameOf[cur]}
               /\ run.manual => run.name = NameOf[cur]
               /\ run.id \in Downloads => Named(run.id, run.name)
    /\ run.pc \in {"lookup", "record"} =>
          ~run.manual /\ run.agent \in Clients /\ run.name = InputName[cur]
    /\ run.pc = "mark" => run.agent # "manual" /\ cur \in accepted
    /\ run.pc = "plex" /\ run.result = 0 => cur \in accepted

RowsInv ==
    \A i \in DOMAIN rows :
        /\ rows[i].dir \in Downloads => rows[i].name = InputName[rows[i].dir]
        /\ rows[i].id \in Downloads => Named(rows[i].id, rows[i].name)

BookInv == RunInv /\ RowsInv /\ SettledIsDone

\* A run that ends or goes on to the next directory keeps BookInv.
LEMMA BookEnds ==
    ASSUME BookInv, run'.pc \in {"idle", "next"}, UNCHANGED <<rows, settled>>
    PROVE  BookInv'
BY DEF BookInv, RunInv, RowsInv, SettledIsDone, Busy, Phase, Pending

\* So does a run that goes on with its download, if only accepted ones are marked.
LEMMA BookGoesOn ==
    ASSUME BookInv, UNCHANGED <<rows, settled>>,
           Busy, run'.pc \notin {"lookup", "record"},
           run'.cur = run.cur, run'.name = run.name, run'.agent = run.agent,
           run'.id = run.id, run'.manual = run.manual,
           run'.pc = "mark" => run.agent # "manual" /\ run.cur \in accepted',
           run'.pc = "plex" /\ run'.result = 0 => run.cur \in accepted'
    PROVE  BookInv'
<1>1. RowsInv' /\ SettledIsDone'
  BY DEF BookInv, RowsInv, SettledIsDone, Phase, Pending
<1>2. RunInv'
  BY DEF BookInv, RunInv, Busy, cur
<1> QED
  BY <1>1, <1>2 DEF BookInv

LEMMA BookInit == Init => BookInv
<1> SUFFICES ASSUME Init PROVE BookInv
  OBVIOUS
<1>1. run.pc = "idle"
  BY IdleType DEF Init
<1>2. RunInv /\ SettledIsDone
  BY <1>1 DEF Init, RunInv, SettledIsDone, Busy
<1>3. RowsInv
  BY RowsAssumption DEF Init, RowsInv
<1> QED
  BY <1>2, <1>3 DEF BookInv

\* No run of another download works under a name that is not shared.
LEMMA NamesApart ==
    /\ Unshared \subseteq Downloads
    /\ \A d \in Unshared, e \in Downloads : InputName[d] \in {InputName[e], NameOf[e]} => d = e
    /\ NULL \notin Downloads /\ "none" \notin Downloads /\ "None" \notin Downloads /\ "" \notin Downloads
BY NzbAssumption DEF Unshared

LEMMA OwnName == \A d \in Downloads : Named(d, InputName[d]) /\ Named(d, NameOf[d])
BY DEF Named

LEMMA BookRecord == TypeOK /\ BookInv /\ Record => BookInv'
<1> SUFFICES ASSUME TypeOK, BookInv, Record PROVE BookInv'
  OBVIOUS
<1>1. /\ run \in RunType /\ run.pc = "record" /\ cur \in Downloads /\ rows \in Table(Downloads, Texts)
      /\ ~run.manual /\ run.agent \in Clients /\ run.name = InputName[cur]
      /\ run.id \in Downloads => Named(run.id, run.name)
  BY DEF TypeOK, BookInv, RunInv, Record, At, cur, Busy
<1>2. CASE run' = Idle /\ UNCHANGED <<rows, settled>>
  BY <1>2, IdleType, BookEnds
<1>3. CASE run' = [run EXCEPT !.pc = "category"] /\ UNCHANGED <<rows, settled>>
  <2>1. /\ run'.pc = "category" /\ run'.cur = run.cur /\ run'.name = run.name
        /\ run'.agent = run.agent /\ run'.id = run.id /\ run'.manual = run.manual
    BY <1>1, <1>3, GotoType DEF Steps
  <2> QED BY <1>1, <1>3, <2>1, BookGoesOn DEF Busy
<1>4. ASSUME NEW locked \in BOOLEAN, run' = [run EXCEPT !.pc = "category"],
             rows' = Upsert(rows, cur, run.name, run.agent, Stored(run.id), locked),
             settled' = settled \ {cur}
      PROVE  BookInv'
  <2> DEFINE id == Stored(run.id)
  <2>1. /\ run'.pc = "category" /\ run'.cur = run.cur /\ run'.name = run.name
        /\ run'.agent = run.agent /\ run'.id = run.id /\ run'.manual = run.manual
    BY <1>1, <1>4, GotoType DEF Steps
  <2>2. /\ id \in Downloads \cup Texts /\ run.name \in Texts /\ run.agent \in Texts
        /\ id \in Downloads => Named(id, run.name)
    BY <1>1, Given, NamesApart DEF Stored, RunType
  <2> HIDE DEF id
  <2>3. rows' = Upsert(rows, cur, run.name, run.agent, id, locked)
    BY <1>4 DEF id
  <2>4. \A i \in DOMAIN rows : rows[i].dir = cur => rows[i].name = run.name
    BY <1>1 DEF BookInv, RowsInv
  <2>5. \A n : n # run.name => Pending(rows', n) = Pending(rows, n) /\ Phase(rows', n) = Phase(rows, n)
    BY <1>1, <2>2, <2>3, <2>4, UpsertPhase
  <2>6. \A i \in DOMAIN rows' :
           \/ rows'[i] \in {Row(cur, run.name, run.agent, id), Row(NULL, run.name, run.agent, id)}
           \/ i \in DOMAIN rows /\ rows'[i] = rows[i]
    BY <1>1, <2>2, <2>3, UpsertRows
  <2>7. RowsInv'
    <3> SUFFICES ASSUME NEW i \in DOMAIN rows'
                 PROVE  /\ rows'[i].dir \in Downloads => rows'[i].name = InputName[rows'[i].dir]
                        /\ rows'[i].id \in Downloads => Named(rows'[i].id, rows'[i].name)
      BY DEF RowsInv, Named
    <3>1. CASE i \in DOMAIN rows /\ rows'[i] = rows[i]
      BY <3>1 DEF BookInv, RowsInv
    <3>2. CASE rows'[i] \in {Row(cur, run.name, run.agent, id), Row(NULL, run.name, run.agent, id)}
      <4>1. /\ rows'[i].dir \in {cur, NULL} /\ rows'[i].name = run.name /\ rows'[i].id = id
        BY <3>2 DEF Row
      <4> QED BY <1>1, <2>2, <4>1, NamesApart
    <3> QED BY <2>6, <3>1, <3>2
  <2>8. SettledIsDone'
    <3> SUFFICES ASSUME NEW d \in settled' \cap Unshared PROVE Phase(rows', InputName[d]) # "pending"
      BY DEF SettledIsDone, Unshared
    <3>1. d \in settled /\ d # cur /\ d \in Unshared
      BY <1>4
    <3>2. InputName[d] # run.name
      BY <1>1, <3>1, NamesApart
    <3> QED BY <2>5, <3>1, <3>2 DEF BookInv, SettledIsDone
  <2>9. RunInv'
    BY <1>1, <2>1 DEF BookInv, RunInv, Named, Busy, cur
  <2> QED BY <2>7, <2>8, <2>9 DEF BookInv
<1> QED
  BY <1>2, <1>3, <1>4 DEF Record, Abort, Goto, RecordedName

LEMMA BookMark == TypeOK /\ BookInv /\ Mark => BookInv'
<1> SUFFICES ASSUME TypeOK, BookInv, Mark PROVE BookInv'
  OBVIOUS
<1>1. /\ run \in RunType /\ run.pc = "mark" /\ cur \in Downloads /\ rows \in Table(Downloads, Texts)
      /\ run.agent # "manual" /\ run.name \in {InputName[cur], NameOf[cur]} /\ cur \in accepted
  BY DEF TypeOK, BookInv, RunInv, Mark, At, cur, Busy
<1>2. /\ run'.pc = "clean" /\ run'.cur = run.cur /\ run'.name = run.name
      /\ run'.agent = run.agent /\ run'.id = run.id /\ run'.manual = run.manual
  BY <1>1, GotoType DEF Mark, Goto, Steps
<1>3. CASE UNCHANGED <<rows, settled>>
  BY <1>1, <1>2, <1>3, BookGoesOn DEF Busy
<1>4. CASE /\ rows' = SetStatus(rows, run.name, 1)
           /\ settled' = IF run.name = InputName[cur] THEN settled \cup {cur} ELSE settled
  <2>1. RunInv'
    BY <1>1, <1>2 DEF BookInv, RunInv, Busy, cur
  <2>2. RowsInv'
    BY <1>1, <1>4, SetStatusRows DEF BookInv, RowsInv
  <2>3. SettledIsDone'
    <3> SUFFICES ASSUME NEW d \in settled' \cap Unshared PROVE Phase(rows', InputName[d]) # "pending"
      BY DEF SettledIsDone, Unshared
    <3>1. CASE InputName[d] = run.name
      BY <1>1, <1>4, <3>1, SetStatusPhase, PhaseType
    <3>2. CASE InputName[d] # run.name
      <4>1. d \in settled
        BY <1>4, <3>2
      <4> QED BY <1>1, <1>4, <3>2, <4>1, SetStatusPhase DEF BookInv, SettledIsDone
    <3> QED BY <3>1, <3>2
  <2> QED BY <2>1, <2>2, <2>3 DEF BookInv
<1> QED
  BY <1>3, <1>4 DEF Mark

\* The row that a manual run finds is recorded under the name of the directory.
LEMMA BookNextDir == ASSUME TypeOK, BookInv, NEW d \in run.todo, NextDir(d) PROVE BookInv'
<1> DEFINE info == rows[CHOOSE i \in Known(d) : \A j \in Known(d) : i <= j]
<1>1. /\ run \in RunType /\ d \in Downloads /\ rows \in Table(Downloads, Texts)
      /\ run.manual \in BOOLEAN /\ run.pc = "next"
  BY DEF TypeOK, RunType, NextDir, At
<1>2. ASSUME Known(d) # {}
      PROVE  \E i \in DOMAIN rows : rows[i].name = NameOf[d] /\ info = rows[i]
  <2>1. Known(d) = Pending(rows, NameOf[d]) /\ info = First(rows, NameOf[d])
    BY <1>2 DEF Known, First
  <2> HIDE DEF info
  <2> QED BY <1>1, <1>2, <2>1, FirstIsPending DEF Pending
<1>3. ASSUME Known(d) # {}
      PROVE  Loaded(info.id) \in Downloads => Named(Loaded(info.id), NameOf[d])
  <2> HIDE DEF info
  <2>1. PICK i \in DOMAIN rows : rows[i].name = NameOf[d] /\ info = rows[i]
    BY <1>2, <1>3
  <2> QED BY <2>1, NamesApart DEF Loaded, BookInv, RowsInv
<1> HIDE DEF info
<1>0. UNCHANGED <<rows, settled>>
  BY DEF NextDir, history
<1>4. \/ run' = Idle \/ (run' = [run EXCEPT !.todo = run.todo \ {d}])
      \/ \E agent, id :
              /\ run' = [run EXCEPT !.pc = "category", !.todo = run.todo \ {d}, !.cur = d,
                                    !.dir = at[d], !.input = at[d], !.name = NameOf[d],
                                    !.agent = agent, !.id = id]
              /\ id = "none" \/ (Known(d) # {} /\ id = Loaded(info.id))
  BY DEF NextDir, Abort, info
<1>5. CASE run' = Idle \/ run' = [run EXCEPT !.todo = run.todo \ {d}]
  <2>1. run'.pc \in {"idle", "next"}
    BY <1>1, <1>5, IdleType DEF RunType
  <2> QED BY <1>0, <2>1, BookEnds
<1>6. ASSUME NEW agent, NEW id,
             run' = [run EXCEPT !.pc = "category", !.todo = run.todo \ {d}, !.cur = d,
                                !.dir = at[d], !.input = at[d], !.name = NameOf[d],
                                !.agent = agent, !.id = id],
             id = "none" \/ (Known(d) # {} /\ id = Loaded(info.id))
      PROVE  BookInv'
  <2>1. /\ run'.pc = "category" /\ run'.cur = d /\ run'.name = NameOf[d] /\ run'.id = id
    BY <1>1, <1>6 DEF RunType
  <2>2. RowsInv' /\ SettledIsDone'
    BY <1>0 DEF BookInv, RowsInv, SettledIsDone, Phase, Pending
  <2>3. RunInv'
    BY <1>3, <1>6, <2>1, NamesApart DEF RunInv, Named, Busy, cur
  <2> QED BY <2>2, <2>3 DEF BookInv
<1> QED
  BY <1>4, <1>5, <1>6

LEMMA BookStep == TypeOK /\ BookInv /\ [Next]_vars => BookInv'
<1> SUFFICES ASSUME TypeOK, BookInv, [Next]_vars PROVE BookInv'
  OBVIOUS
<1>0. run \in RunType /\ (Busy => cur \in Downloads)
  BY DEF TypeOK, Busy, cur
<1>1. ASSUME NEW d \in Downloads, NEW s \in {0, 1}, StartClient(d, s) PROVE BookInv'
  <2>1. /\ run'.pc \in {"record", "lookup"} /\ run'.cur = d /\ run'.name = InputName[d]
        /\ run'.agent = config.client /\ run'.id \in {d, "none"} /\ run'.manual = FALSE
        /\ UNCHANGED <<rows, settled>>
    BY <1>1 DEF StartClient, Idle
  <2>2. config.client \in Clients
    BY Given DEF TypeOK, Clients
  <2>3. RowsInv' /\ SettledIsDone'
    BY <2>1 DEF BookInv, RowsInv, SettledIsDone, Phase, Pending
  <2> QED BY <2>1, <2>2, <2>3, NamesApart, OwnName DEF BookInv, RunInv, Named, Busy, cur
<1>2. ASSUME NEW d \in Downloads, StartGeneric(d) PROVE BookInv'
  <2>1. /\ run'.pc = "category" /\ run'.cur = d /\ run'.name = InputName[d]
        /\ run'.agent = "manual" /\ run'.id \in {d, "none"} /\ run'.manual = FALSE
        /\ UNCHANGED <<rows, settled>>
    BY <1>2 DEF StartGeneric, Idle
  <2>2. RowsInv' /\ SettledIsDone'
    BY <2>1 DEF BookInv, RowsInv, SettledIsDone, Phase, Pending
  <2> QED BY <2>1, <2>2, NamesApart, OwnName DEF BookInv, RunInv, Named, Busy, cur
<1>3. CASE StartManual
  <2>1. run'.pc = "next" /\ UNCHANGED <<rows, settled>>
    BY <1>3 DEF StartManual, Idle
  <2> QED BY <2>1, BookEnds
<1>4. ASSUME NEW d \in run.todo, NextDir(d) PROVE BookInv'
  BY <1>4, BookNextDir
<1>5. CASE EndRun \/ Crash \/ Raise
  <2>1. run' = Idle /\ UNCHANGED <<rows, settled>>
    BY <1>5 DEF EndRun, Crash, Raise, Abort, history
  <2> QED BY <2>1, IdleType, BookEnds
<1>6. CASE Lookup
  <2>1. /\ run.pc = "lookup" /\ UNCHANGED <<rows, settled>>
        /\ \/ run' = Idle
           \/ \E id : /\ run' = [run EXCEPT !.pc = "record", !.id = id]
                      /\ id \in Downloads => Named(id, run.name)
    BY <1>6, NamesApart DEF Lookup, Abort, At, Named, history
  <2>2. CASE run' = Idle
    BY <2>1, <2>2, IdleType, BookEnds
  <2>3. ASSUME NEW id, run' = [run EXCEPT !.pc = "record", !.id = id],
               id \in Downloads => Named(id, run.name)
        PROVE  BookInv'
    <3>1. /\ run'.pc = "record" /\ run'.cur = run.cur /\ run'.name = run.name
          /\ run'.agent = run.agent /\ run'.id = id /\ run'.manual = run.manual
      BY <1>0, <2>3 DEF RunType
    <3>2. RowsInv' /\ SettledIsDone'
      BY <2>1 DEF BookInv, RowsInv, SettledIsDone, Phase, Pending
    <3> QED BY <2>1, <2>3, <3>1, <3>2 DEF BookInv, RunInv, Named, Busy, cur
  <2> QED BY <2>1, <2>2, <2>3
<1>7. CASE Record
  BY <1>7, BookRecord
<1>8. CASE Category \/ Extract \/ Plex
  <2>1. UNCHANGED <<rows, settled, accepted>> /\ Busy
    BY <1>8 DEF Category, Extract, Plex, At, Busy, history
  <2>2. CASE Return
    BY <1>0, <2>1, <2>2, ReturnType, BookEnds
  <2>3. ASSUME NEW l \in {"extract", "identify", "mark", "clean"}, run' = [run EXCEPT !.pc = l],
               l = "mark" => run.agent # "manual" /\ cur \in accepted
        PROVE  BookInv'
    <3>1. l \in Steps
      BY DEF Steps
    <3>2. /\ run'.pc = l /\ run'.cur = run.cur /\ run'.name = run.name /\ run'.agent = run.agent
          /\ run'.id = run.id /\ run'.manual = run.manual
      BY <1>0, <2>3, <3>1, GotoType
    <3> QED BY <2>1, <2>3, <3>2, BookGoesOn DEF cur
  <2>4. \/ Return
        \/ \E l \in {"extract", "identify", "mark", "clean"} :
              /\ run' = [run EXCEPT !.pc = l]
              /\ l = "mark" => run.agent # "manual" /\ cur \in accepted
    <3>1. Plex => \/ Return
                  \/ run.agent = "manual" /\ run' = [run EXCEPT !.pc = "clean"]
                  \/ /\ run.agent # "manual" /\ run' = [run EXCEPT !.pc = "mark"]
                     /\ cur \in accepted
      BY DEF Plex, Goto, At, BookInv, RunInv
    <3> QED BY <1>8, <3>1 DEF Category, Extract, Goto
  <2> QED BY <2>2, <2>3, <2>4
<1>9. CASE Identify \/ Respond
  <2>1. UNCHANGED <<rows, settled, accepted>> /\ Busy
    BY <1>9 DEF Identify, Respond, At, Busy, history
  <2>2. \/ run' = Idle
        \/ run' = [run EXCEPT !.pc = "respond"]
        \/ run' = [run EXCEPT !.pc = "respond", !.dir = "tagged"]
        \/ run' = [run EXCEPT !.pc = "judge"]
        \/ run' = [run EXCEPT !.pc = "plex", !.result = 1]
    BY <1>9, Zenon DEF Identify, Respond, Goto, Abort, Result
  <2>3. CASE run' = Idle
    BY <2>1, <2>3, IdleType, BookEnds
  <2>4. CASE run' # Idle
    <3>1. /\ run'.pc \in {"respond", "judge", "plex"} /\ (run'.pc = "plex" => run'.result = 1)
          /\ run'.cur = run.cur /\ run'.name = run.name /\ run'.agent = run.agent
          /\ run'.id = run.id /\ run'.manual = run.manual
      BY <1>0, <2>2, <2>4 DEF RunType
    <3> QED BY <2>1, <3>1, BookGoesOn
  <2> QED BY <2>3, <2>4
<1>10. CASE Judge
  <2>1. UNCHANGED <<rows, settled>> /\ Busy
    BY <1>10 DEF Judge, At, Busy, disk
  <2>2. \/ \E s : run' = [run EXCEPT !.pc = "dispatch", !.status = s]
        \/ run' = [run EXCEPT !.pc = "plex", !.result = 0]
    BY <1>10 DEF Judge, Status, Result
  <2>3. /\ run'.pc \in {"dispatch", "plex"}
        /\ run'.cur = run.cur /\ run'.name = run.name /\ run'.agent = run.agent
        /\ run'.id = run.id /\ run'.manual = run.manual
    BY <1>0, <2>2 DEF RunType
  <2>4. run'.pc = "plex" => cur \in accepted'
    BY <1>10 DEF Judge, Accept
  <2> QED BY <2>1, <2>3, <2>4, BookGoesOn DEF cur
<1>11. CASE HandOver \/ Answer \/ Withhold \/ Reject
  <2>1. UNCHANGED <<rows, settled>> /\ Busy
    BY <1>11 DEF HandOver, Answer, Withhold, Reject, At, Busy, disk, history
  <2>2. \/ run' = [run EXCEPT !.pc = "wait"]
        \/ \E r \in {0, 1} :
              /\ \/ run' = [run EXCEPT !.pc = "plex", !.result = r]
                 \/ \E f : run' = [run EXCEPT !.pc = "plex", !.result = r, !.FAILED = f]
              /\ r = 0 => cur \in accepted'
    BY <1>11 DEF HandOver, Answer, Withhold, Reject, Goto, Result, Accept
  <2>3. /\ run'.pc \in {"wait", "plex"}
        /\ run'.pc = "plex" /\ run'.result = 0 => cur \in accepted'
        /\ run'.cur = run.cur /\ run'.name = run.name /\ run'.agent = run.agent
        /\ run'.id = run.id /\ run'.manual = run.manual
    BY <1>0, <2>2 DEF RunType
  <2> QED BY <2>1, <2>3, BookGoesOn DEF cur
<1>12. CASE Mark
  BY <1>12, BookMark
<1>13. CASE Clean
  BY <1>0, <1>13, ReturnType, BookEnds DEF Clean, history
<1>14. CASE UNCHANGED <<run, rows, accepted, settled>>
  BY <1>14 DEF BookInv, RunInv, RowsInv, SettledIsDone, Busy, cur, Phase, Pending
<1>15. ASSUME (\E d \in moving : Take(d) \/ GiveUp(d)) \/ UNCHANGED vars
       PROVE  UNCHANGED <<run, rows, accepted, settled>>
  BY <1>15 DEF Take, GiveUp, vars, history
<1> QED
  BY <1>1, <1>2, <1>3, <1>4, <1>5, <1>6, <1>7, <1>8, <1>9, <1>10, <1>11, <1>12, <1>13, <1>14, <1>15 DEF Next

THEOREM BookInvariant == Spec => [](TypeOK /\ BookInv)
<1>1. Init => TypeOK /\ BookInv
  BY TypeInit, BookInit
<1>2. TypeOK /\ BookInv /\ [Next]_vars => (TypeOK /\ BookInv)'
  BY TypeStep, BookStep
<1> QED
  BY <1>1, <1>2, PTL DEF Spec

\* SettledStaysDone: a download that was marked done under its own name, which no
\* other shares, is not pending.
THEOREM SettledStaysDone == Spec => []SettledIsDone
<1>1. BookInv => SettledIsDone
  BY DEF BookInv
<1> QED
  BY <1>1, BookInvariant, PTL

\* ManualRunsKnow: the id with which a manual run asks the manager is that of a
\* download which shares a name with the directory, whichever row of that name it
\* found and whichever slot of the client's queue had been recorded in it.
THEOREM ManualRunsKnow == Spec => []ManualRunsIdentify
<1>1. BookInv => ManualRunsIdentify
  BY DEF BookInv, RunInv, ManualRunsIdentify, Busy, At
<1> QED
  BY <1>1, BookInvariant, PTL

-----------------------------------------------------------------------------
(* The refinement                                                          *)

LEMMA BookingInit == Init => Book!Init
BY PhaseType DEF Init, Book!Init, Unshared

\* Every step of a run receives, accepts or settles its download, or none, as far
\* as the unshared names tell.
LEMMA BookingStep == TypeOK /\ BookInv /\ [Next]_vars => [Book!Next]_(Book!vars)
<1> SUFFICES ASSUME TypeOK, BookInv, [Next]_vars PROVE [Book!Next]_(Book!vars)
  OBVIOUS
<1>0. rows \in Table(Downloads, Texts) /\ (Busy => cur \in Downloads) /\ run \in RunType
  BY DEF TypeOK, Busy, cur
<1>1. ASSUME \A d \in Unshared : Phase(rows', InputName[d]) = Phase(rows, InputName[d]),
             accepted' \cap Unshared = accepted \cap Unshared
      PROVE  [Book!Next]_(Book!vars)
  BY <1>1 DEF Book!vars, Unshared
<1>2. ASSUME rows' = rows, accepted' \in {accepted, accepted \cup {cur}}
      PROVE  [Book!Next]_(Book!vars)
  <2>1. CASE cur \notin Unshared \/ accepted' = accepted
    BY <1>1, <1>2, <2>1
  <2>2. CASE cur \in Unshared /\ accepted' = accepted \cup {cur}
    <3>1. accepted' \cap Unshared = (accepted \cap Unshared) \cup {cur}
      BY <2>2
    <3>2. Book!Accept(cur)
      BY <1>2, <3>1 DEF Book!Accept, Unshared
    <3> QED BY <2>2, <3>2 DEF Book!Next
  <2> QED BY <1>2, <2>1, <2>2
<1>3. CASE Record /\ ~(rows' = rows /\ accepted' = accepted)
  <2>1. /\ run.pc = "record" /\ cur \in Downloads /\ run.name = InputName[cur]
        /\ run.agent \in Clients
    BY <1>0, <1>3 DEF Record, At, Busy, BookInv, RunInv
  <2>2. PICK locked \in BOOLEAN : rows' = Upsert(rows, cur, run.name, run.agent, Stored(run.id), locked)
    BY <1>3 DEF Record, RecordedName
  <2>3. accepted' \cap Unshared = (accepted \cap Unshared) \ {cur}
    BY <1>3 DEF Record
  <2> DEFINE id == Stored(run.id)
  <2>4. id \in Downloads \cup Texts /\ run.name \in Texts /\ run.agent \in Texts
    BY <1>0, <2>1, Given DEF Stored, RunType
  <2>5. \A i \in DOMAIN rows : rows[i].dir = cur => rows[i].name = run.name
    BY <2>1 DEF BookInv, RowsInv
  <2>6. rows' = Upsert(rows, cur, run.name, run.agent, id, locked)
    BY <2>2
  <2> HIDE DEF id
  <2>7. /\ Phase(rows', InputName[cur]) = "pending"
        /\ \A n : n # InputName[cur] => Phase(rows', n) = Phase(rows, n)
    BY <1>0, <2>1, <2>4, <2>5, <2>6, UpsertPhase
  <2>8. \A d \in Unshared : d # cur => Phase(rows', InputName[d]) = Phase(rows, InputName[d])
    BY <2>1, <2>7, NamesApart
  <2>9. CASE cur \in Unshared
    <3>1. Book!Receive(cur)
      BY <2>1, <2>3, <2>7, <2>8, <2>9 DEF Book!Receive, Unshared
    <3> QED BY <2>9, <3>1 DEF Book!Next
  <2>10. CASE cur \notin Unshared
    BY <1>1, <2>3, <2>8, <2>10
  <2> QED BY <2>9, <2>10
<1>4. CASE Mark /\ rows' # rows
  <2>1. /\ cur \in Downloads /\ run.name \in {InputName[cur], NameOf[cur]} /\ cur \in accepted
        /\ rows' = SetStatus(rows, run.name, 1) /\ accepted' = accepted
    BY <1>0, <1>4 DEF Mark, At, Busy, BookInv, RunInv
  <2>2. /\ Phase(rows', run.name) = IF Phase(rows, run.name) = "pending" THEN "done"
                                     ELSE Phase(rows, run.name)
        /\ \A n : n # run.name => Phase(rows', n) = Phase(rows, n)
    BY <1>0, <2>1, SetStatusPhase
  <2>3. \A d \in Unshared : d # cur => Phase(rows', InputName[d]) = Phase(rows, InputName[d])
    <3> SUFFICES ASSUME NEW d \in Unshared, d # cur PROVE InputName[d] # run.name
      BY <2>2
    <3> QED BY <2>1, NamesApart
  <2>4. CASE cur \in Unshared /\ run.name = InputName[cur] /\ Phase(rows, run.name) = "pending"
    <3>1. Book!Settle(cur)
      BY <2>1, <2>2, <2>3, <2>4 DEF Book!Settle, Unshared
    <3> QED BY <2>4, <3>1 DEF Book!Next
  <2>5. CASE ~(cur \in Unshared /\ run.name = InputName[cur] /\ Phase(rows, run.name) = "pending")
    <3>1. \A d \in Unshared : Phase(rows', InputName[d]) = Phase(rows, InputName[d])
      BY <2>2, <2>3, <2>5
    <3> QED BY <1>1, <2>1, <3>1
  <2> QED BY <2>4, <2>5
<1>5. ASSUME \E d \in Downloads : (\E s \in {0, 1} : StartClient(d, s)) \/ StartGeneric(d)
      PROVE  rows' = rows /\ accepted' = accepted
  BY <1>5 DEF StartClient, StartGeneric
<1>6. ASSUME \/ \E d \in run.todo : NextDir(d)
             \/ \E d \in moving : Take(d) \/ GiveUp(d)
             \/ StartManual \/ EndRun \/ Lookup \/ Category \/ Extract \/ Identify \/ Respond
             \/ HandOver \/ Raise \/ Plex \/ Clean \/ Crash \/ UNCHANGED vars
      PROVE  rows' = rows /\ accepted' = accepted
  BY <1>6 DEF NextDir, Take, GiveUp, StartManual, EndRun, Lookup, Category, Extract, Identify,
              Respond, HandOver, Raise, Plex, Clean, Crash, vars, history
<1>7. ASSUME Judge \/ Answer \/ Withhold \/ Reject
      PROVE  rows' = rows /\ accepted' \in {accepted, accepted \cup {cur}}
  BY <1>7 DEF Judge, Answer, Withhold, Reject, Accept, disk
<1>8. ASSUME Mark PROVE accepted' = accepted
  BY <1>8 DEF Mark
<1> QED
  BY <1>2, <1>3, <1>4, <1>5, <1>6, <1>7, <1>8 DEF Next

\* BookkeepingImplemented: the rows that the runs leave behind keep the promise
\* of Bookkeeping to every download that shares its name with no other.
THEOREM BookkeepingImplemented == Spec => ImplementsBookkeeping
<1>1. Init => Book!Init
  BY BookingInit
<1>2. TypeOK /\ BookInv /\ [Next]_vars => [Book!Next]_(Book!vars)
  BY BookingStep
<1> QED
  BY <1>1, <1>2, BookInvariant, PTL DEF Spec, ImplementsBookkeeping, Book!Spec

-----------------------------------------------------------------------------
(* The disk: what the directories hold, and what a run believes of its own *)

Unjudged == {"idle", "next", "lookup", "record", "category", "extract", "identify",
          "respond", "judge"}

\* A directory that is gone holds nothing.
GoneInv == \A d \in Downloads : at[d] = "gone" => holds[d] = "empty"

\* A run that has lost sight of a directory with files missed its renaming.
DirInv == Busy /\ holds[cur] # "empty" =>
             run.dir = "own" \/ (run.dir = "tagged" /\ at[cur] = "tagged")

\* Until the videos are judged a run believes its caller.
StatusInv == run.pc \in Unjudged => run.status = run.said

\* Whoever is accepted while its manager is at work is noted.
Accepting == run.pc \in {"mark", "clean"} \/ (run.pc = "plex" /\ run.result = 0)
EarlyInv == Accepting /\ cur \in moving => cur \in early

DiskInv == GoneInv /\ DirInv /\ StatusInv /\ NoSilentLoss /\ RejectedForAReason

\* A run that ends or goes on to the next directory keeps DiskInv, if it leaves
\* the directories alone.
LEMMA DiskEnds ==
    ASSUME DiskInv, run'.pc \in {"idle", "next"}, run'.status = run'.said,
           UNCHANGED <<config, disk, rejected, early>>
    PROVE  DiskInv'
BY DEF DiskInv, GoneInv, DirInv, StatusInv, NoSilentLoss, RejectedForAReason, Busy, At, disk

\* So does a run that goes on with its download.
LEMMA DiskGoesOn ==
    ASSUME DiskInv, Busy, UNCHANGED <<config, at, holds, lib, rejected>>, early \subseteq early',
           run'.pc \in Unjudged => run.pc \in Unjudged, run'.pc # "dispatch",
           run'.cur = run.cur, run'.dir = run.dir, run'.status = run.status, run'.said = run.said
    PROVE  DiskInv'
BY DEF DiskInv, GoneInv, DirInv, StatusInv, NoSilentLoss, RejectedForAReason, Busy, At, cur

\* And a run that takes up a download, if it is given the directory as it is.
LEMMA DiskBegins ==
    ASSUME DiskInv, run'.pc # "dispatch", run'.status = run'.said, UNCHANGED <<config, disk, rejected, early>>,
           \/ run'.dir = "own"
           \/ run'.dir = at[run'.cur] /\ (holds[run'.cur] # "empty" => at[run'.cur] \in {"own", "tagged"})
    PROVE  DiskInv'
<1>1. at' = at /\ holds' = holds /\ lib' = lib /\ config' = config /\ rejected' = rejected /\ early' = early
  BY DEF disk
<1>2. GoneInv' /\ NoSilentLoss'
  BY <1>1 DEF DiskInv, GoneInv, NoSilentLoss
<1>3. DirInv'
  BY <1>1 DEF DirInv, cur
<1>4. StatusInv' /\ RejectedForAReason'
  BY DEF StatusInv, RejectedForAReason, At
<1> QED
  BY <1>2, <1>3, <1>4 DEF DiskInv

\* What a step does to the directory of its download keeps the parts of DiskInv
\* that are about every download.
LEMMA DiskOther ==
    ASSUME TypeOK, DiskInv, Busy, config' = config, rejected \subseteq rejected', lib \subseteq lib',
           early \subseteq early',
           NEW a \in {"own", "tagged", "gone"}, NEW h \in Contents,
           at' = [at EXCEPT ![cur] = a], holds' = [holds EXCEPT ![cur] = h],
           a = "gone" => h = "empty",
           h = "empty" => \/ holds[cur] = "empty" \/ cur \in early' \/ cur \in Small
                          \/ config.forceClean \/ (config.deleteFailed /\ cur \in rejected')
    PROVE  GoneInv' /\ NoSilentLoss' /\ at'[cur] = a /\ holds'[cur] = h
<1>1. cur \in Downloads /\ at \in [Downloads -> {"own", "tagged", "gone"}]
      /\ holds \in [Downloads -> Contents]
  BY DEF TypeOK, Busy, cur
<1>2. at'[cur] = a /\ holds'[cur] = h
  BY <1>1
<1>3. \A d \in Downloads : d # cur => at'[d] = at[d] /\ holds'[d] = holds[d]
  BY <1>1
<1>4. GoneInv'
  BY <1>2, <1>3 DEF DiskInv, GoneInv
<1>5. NoSilentLoss'
  BY <1>1, <1>2, <1>3 DEF DiskInv, NoSilentLoss
<1> QED
  BY <1>2, <1>4, <1>5

LEMMA DiskInit == Init => DiskInv
<1> SUFFICES ASSUME Init PROVE DiskInv
  OBVIOUS
<1>1. run.pc = "idle" /\ run.status = run.said
  BY DEF Init, Idle
<1>2. \A d \in Downloads : holds[d] # "empty"
  BY NzbAssumption DEF Init
<1> QED
  BY <1>1, <1>2 DEF Init, DiskInv, GoneInv, DirInv, StatusInv, NoSilentLoss, RejectedForAReason,
                    Busy, At

\* Only a renaming that the run did not see makes intact videos look missing.
LEMMA DiskJudge == TypeOK /\ DiskInv /\ Judge => DiskInv'
<1> SUFFICES ASSUME TypeOK, DiskInv, Judge PROVE DiskInv'
  OBVIOUS
<1>1. /\ run \in RunType /\ cur \in Downloads /\ at[cur] \in {"own", "tagged", "gone"}
      /\ run.pc = "judge" /\ run.status = run.said /\ UNCHANGED <<config, disk, rejected>>
      /\ early \subseteq early' /\ UNCHANGED <<at, holds, lib>>
  BY AcceptType DEF TypeOK, DiskInv, StatusInv, Judge, At, cur, disk, Unjudged
<1>2. CASE run' = [run EXCEPT !.pc = "plex", !.result = 0]
  <2>1. /\ run'.pc = "plex" /\ run'.cur = run.cur /\ run'.dir = run.dir
        /\ run'.status = run.status /\ run'.said = run.said
    BY <1>1, <1>2 DEF RunType
  <2> QED BY <1>1, <2>1, DiskGoesOn DEF Busy, Unjudged
<1>3. ASSUME NEW s, run' = [run EXCEPT !.pc = "dispatch", !.status = s],
             \/ s = run.status
             \/ Videos /\ s = IF Good THEN 0 ELSE 1
             \/ ~Videos
      PROVE  DiskInv'
  <2>1. /\ run'.pc = "dispatch" /\ run'.cur = run.cur /\ run'.dir = run.dir
        /\ run'.status = s /\ run'.said = run.said
    BY <1>1, <1>3 DEF RunType
  <2>2. GoneInv' /\ DirInv' /\ NoSilentLoss'
    BY <1>1, <2>1 DEF DiskInv, GoneInv, DirInv, NoSilentLoss, Busy, cur, disk
  <2>3. ASSUME s # 0, run.said = 0, Fits(cur)
        PROVE  at[cur] = "tagged" /\ run.dir = "own"
    <3>1. ~Videos
      BY <1>1, <1>3, <2>3 DEF Good
    <3>2. at[cur] # run.dir
      BY <2>3, <3>1 DEF Videos, HasVideos, Fits, Present
    <3>3. at[cur] # "gone" /\ (run.dir = "own" \/ (run.dir = "tagged" /\ at[cur] = "tagged"))
      BY <1>1, <2>3 DEF DiskInv, GoneInv, DirInv, Fits, Busy
    <3> QED BY <1>1, <3>2, <3>3
  <2>4. RejectedForAReason'
    BY <1>1, <2>1, <2>3 DEF RejectedForAReason, Fits, cur
  <2>5. StatusInv'
    BY <2>1 DEF StatusInv, Unjudged
  <2> QED BY <2>2, <2>4, <2>5 DEF DiskInv
<1> QED
  BY <1>2, <1>3 DEF Judge, Status, Result

\* The directory of a rejected or cleaned download may go.
LEMMA DiskLeaves ==
    ASSUME TypeOK, DiskInv, Busy, config' = config, rejected \subseteq rejected', lib' = lib,
           early \subseteq early',
           UNCHANGED <<at, holds>> \/
              /\ at' = [at EXCEPT ![cur] = "gone"]
              /\ holds' = [holds EXCEPT ![cur] = "empty"]
              /\ \/ holds[cur] = "empty" \/ cur \in early' \/ cur \in Small
                 \/ config.forceClean \/ (config.deleteFailed /\ cur \in rejected'),
           \/ run'.pc = "plex" /\ run'.cur = run.cur /\ run'.dir = run.dir
           \/ run'.pc \in {"idle", "next"} /\ run'.status = run'.said
    PROVE  DiskInv'
<1>1. /\ cur \in Downloads /\ at \in [Downloads -> {"own", "tagged", "gone"}]
      /\ holds \in [Downloads -> Contents]
  BY DEF TypeOK, Busy, cur
<1>2. GoneInv' /\ NoSilentLoss' /\ (UNCHANGED <<at, holds>> \/ holds'[cur] = "empty")
  <2>1. CASE UNCHANGED <<at, holds>>
    BY <2>1 DEF DiskInv, GoneInv, NoSilentLoss
  <2>2. CASE ~UNCHANGED <<at, holds>>
    <3>1. "empty" \in Contents
      BY DEF Contents
    <3> QED BY <2>2, <3>1, DiskOther
  <2> QED BY <2>1, <2>2
<1>3. DirInv'
  BY <1>2 DEF DiskInv, DirInv, Busy, cur
<1>4. StatusInv' /\ RejectedForAReason'
  BY DEF StatusInv, RejectedForAReason, Unjudged, At
<1> QED
  BY <1>2, <1>3, <1>4 DEF DiskInv

LEMMA DiskStep == TypeOK /\ EarlyInv /\ DiskInv /\ [Next]_vars => DiskInv'
<1> SUFFICES ASSUME TypeOK, EarlyInv, DiskInv, [Next]_vars PROVE DiskInv'
  OBVIOUS
<1>0. /\ run \in RunType /\ (Busy => cur \in Downloads)
      /\ at \in [Downloads -> {"own", "tagged", "gone"}] /\ holds \in [Downloads -> Contents]
      /\ Idle.pc = "idle" /\ Idle.status = Idle.said
  BY DEF TypeOK, Busy, cur, Idle
<1>1. ASSUME NEW d \in Downloads, NEW s \in {0, 1}, StartClient(d, s) PROVE DiskInv'
  <2>1. /\ run'.dir = "own" /\ run'.status = run'.said /\ run'.pc \in {"record", "lookup"}
        /\ UNCHANGED <<config, disk, rejected, early>>
    BY <1>1 DEF StartClient, Idle
  <2> QED BY <2>1, DiskBegins
<1>2. ASSUME NEW d \in Downloads, StartGeneric(d) PROVE DiskInv'
  <2>1. /\ run'.dir = "own" /\ run'.status = run'.said /\ run'.pc = "category"
        /\ UNCHANGED <<config, disk, rejected, early>>
    BY <1>2 DEF StartGeneric, Idle
  <2> QED BY <2>1, DiskBegins
<1>3. CASE StartManual
  <2>1. run'.pc = "next" /\ run'.status = run'.said /\ UNCHANGED <<config, disk, rejected, early>>
    BY <1>3 DEF StartManual, Idle
  <2> QED BY <2>1, DiskEnds
<1>4. ASSUME NEW d \in run.todo, NextDir(d) PROVE DiskInv'
  <2>1. /\ UNCHANGED <<config, disk, rejected, early>> /\ run.pc = "next" /\ run.status = run.said
        /\ d \in Downloads
    BY <1>0, <1>4 DEF NextDir, history, At, DiskInv, StatusInv, Unjudged, RunType
  <2>2. \/ run' = Idle \/ run' = [run EXCEPT !.todo = run.todo \ {d}]
        \/ \E a, i :
             run' = [run EXCEPT !.pc = "category", !.todo = run.todo \ {d}, !.cur = d,
                                !.dir = at[d], !.input = at[d], !.name = NameOf[d],
                                !.agent = a, !.id = i]
    BY <1>4 DEF NextDir, Abort
  <2>3. CASE run' = Idle \/ run' = [run EXCEPT !.todo = run.todo \ {d}]
    <3>1. run'.pc \in {"idle", "next"} /\ run'.status = run'.said
      BY <1>0, <2>1, <2>3 DEF RunType
    <3> QED BY <2>1, <3>1, DiskEnds
  <2>4. ASSUME NEW a, NEW i,
               run' = [run EXCEPT !.pc = "category", !.todo = run.todo \ {d}, !.cur = d,
                                  !.dir = at[d], !.input = at[d], !.name = NameOf[d],
                                  !.agent = a, !.id = i]
        PROVE  DiskInv'
    <3>1. /\ run'.pc = "category" /\ run'.cur = d /\ run'.dir = at[d]
          /\ run'.status = run.status /\ run'.said = run.said
      BY <1>0, <2>4 DEF RunType
    <3>2. holds[d] # "empty" => at[d] \in {"own", "tagged"}
      BY <1>0, <2>1 DEF DiskInv, GoneInv
    <3> QED BY <2>1, <3>1, <3>2, DiskBegins
  <2> QED BY <2>2, <2>3, <2>4
<1>5. CASE EndRun \/ Crash \/ Raise
  <2>1. run' = Idle /\ UNCHANGED <<config, disk, rejected, early>>
    BY <1>5 DEF EndRun, Crash, Raise, Abort, history
  <2> QED BY <1>0, <2>1, DiskEnds
<1>6. CASE Lookup \/ Record \/ Category \/ Plex \/ Mark
  <2>1. UNCHANGED <<config, disk, rejected, early>> /\ Busy /\ (run.pc \in {"plex", "mark"} \/ run.pc \in Unjudged)
    BY <1>6 DEF Lookup, Record, Category, Plex, Mark, At, Busy, history, Unjudged
  <2>2. \/ Return \/ run' = Idle
        \/ \E id : run' = [run EXCEPT !.pc = "record", !.id = id] /\ run.pc = "lookup"
        \/ \E l \in {"category", "extract", "mark", "clean"} :
              run' = [run EXCEPT !.pc = l] /\ (l \in Unjudged => run.pc \in Unjudged)
    BY <1>6, Zenon DEF Lookup, Record, Category, Plex, Mark, Abort, Goto, At, Unjudged
  <2>3. CASE Return \/ run' = Idle
    <3>1. \/ run' = Idle
          \/ \E todo, f : run' = [Idle EXCEPT !.pc = "next", !.manual = TRUE, !.todo = todo, !.FAILED = f]
      BY <2>3, Zenon DEF Return
    <3>2. ASSUME NEW todo, NEW f,
                 run' = [Idle EXCEPT !.pc = "next", !.manual = TRUE, !.todo = todo, !.FAILED = f]
          PROVE  run'.pc = "next" /\ run'.status = run'.said
      BY <3>2 DEF Idle
    <3>3. run'.pc \in {"idle", "next"} /\ run'.status = run'.said
      BY <1>0, <3>1, <3>2
    <3> QED BY <2>1, <3>3, DiskEnds
  <2>4. CASE ~(Return \/ run' = Idle)
    <3>1. /\ run'.pc \in {"record", "category", "extract", "mark", "clean"}
          /\ run'.pc \in Unjudged => run.pc \in Unjudged
          /\ run'.cur = run.cur /\ run'.dir = run.dir /\ run'.status = run.status /\ run'.said = run.said
      BY <1>0, <2>2, <2>4 DEF RunType, Unjudged
    <3>2. UNCHANGED <<config, at, holds, lib, rejected>> /\ early \subseteq early'
      BY <2>1 DEF disk
    <3> QED BY <2>1, <3>1, <3>2, DiskGoesOn
  <2> QED BY <2>3, <2>4
<1>7. CASE Extract
  <2>1. PICK h \in AfterUnpacking(holds[cur]) : holds' = [holds EXCEPT ![cur] = h]
    BY <1>7 DEF Extract
  <2>2. /\ Busy /\ UNCHANGED <<config, at, lib, rejected, early>> /\ cur \in Downloads /\ run.pc \in Unjudged
        /\ holds[cur] \in Contents /\ at[cur] \in {"own", "tagged", "gone"}
    BY <1>0, <1>7 DEF Extract, At, Busy, history, Unjudged
  <2>3. h \in Contents /\ (h = "empty" <=> holds[cur] = "empty")
    BY <2>2 DEF AfterUnpacking, Unpacked, Contents
  <2>4. at' = [at EXCEPT ![cur] = at[cur]]
    BY <1>0, <2>2
  <2>5. at[cur] = "gone" => h = "empty"
    BY <2>2, <2>3 DEF DiskInv, GoneInv
  <2>6. GoneInv' /\ NoSilentLoss' /\ at'[cur] = at[cur] /\ holds'[cur] = h
    BY <2>1, <2>2, <2>3, <2>4, <2>5, DiskOther
  <2>7. /\ run'.pc = "identify" /\ run'.cur = run.cur /\ run'.dir = run.dir
        /\ run'.status = run.status /\ run'.said = run.said
    BY <1>0, <1>7 DEF Extract, Goto, RunType
  <2>8. DirInv' /\ StatusInv' /\ RejectedForAReason'
    BY <2>2, <2>3, <2>6, <2>7 DEF DiskInv, DirInv, StatusInv, RejectedForAReason, At, cur
  <2> QED BY <2>6, <2>8 DEF DiskInv
<1>8. CASE Identify
  <2>1. /\ Busy /\ UNCHANGED <<config, holds, lib, moving, rejected, early>> /\ cur \in Downloads
        /\ run.pc \in Unjudged
    BY <1>0, <1>8 DEF Identify, At, Busy, history, Unjudged
  <2>2. CASE run' = [run EXCEPT !.pc = "respond"] /\ at' = at
    <3>1. /\ run'.pc = "respond" /\ run'.cur = run.cur /\ run'.dir = run.dir
          /\ run'.status = run.status /\ run'.said = run.said
      BY <1>0, <2>2 DEF RunType
    <3> QED BY <2>1, <2>2, <3>1, DiskGoesOn DEF disk
  <2>3. CASE run' = Idle /\ at' = at
    BY <1>0, <2>1, <2>3, DiskEnds DEF disk
  <2>4. CASE /\ at[cur] = "own" /\ at' = [at EXCEPT ![cur] = "tagged"]
             /\ run' = [run EXCEPT !.pc = "respond", !.dir = "tagged"]
    <3>1. /\ run'.pc = "respond" /\ run'.cur = run.cur /\ run'.dir = "tagged"
          /\ run'.status = run.status /\ run'.said = run.said
      BY <1>0, <2>4 DEF RunType
    <3>2. holds' = [holds EXCEPT ![cur] = holds[cur]] /\ holds[cur] \in Contents
      BY <1>0, <2>1
    <3>3. GoneInv' /\ NoSilentLoss' /\ at'[cur] = "tagged"
      BY <2>1, <2>4, <3>2, DiskOther
    <3>4. DirInv' /\ StatusInv' /\ RejectedForAReason'
      BY <2>1, <3>1, <3>3 DEF DiskInv, DirInv, StatusInv, RejectedForAReason, At, cur
    <3> QED BY <3>3, <3>4 DEF DiskInv
  <2> QED BY <1>8, <2>2, <2>3, <2>4 DEF Identify, Goto, Abort, Present
<1>9. CASE Respond
  <2>1. /\ Busy /\ UNCHANGED <<config, lib, moving, rejected, early>> /\ cur \in Downloads /\ run.pc \in Unjudged
        /\ holds[cur] \in Contents /\ at[cur] \in {"own", "tagged", "gone"}
    BY <1>0, <1>9 DEF Respond, At, Busy, history, Unjudged
  <2>2. CASE run' = [run EXCEPT !.pc = "plex", !.result = 1] /\ UNCHANGED <<at, holds>>
    <3>1. /\ run'.pc = "plex" /\ run'.cur = run.cur /\ run'.dir = run.dir
          /\ run'.status = run.status /\ run'.said = run.said
      BY <1>0, <2>2 DEF RunType
    <3> QED BY <2>1, <2>2, <3>1, DiskGoesOn DEF disk
  <2>3. ASSUME NEW a \in {"own", "tagged", "gone"}, NEW h \in Contents,
               run' = [run EXCEPT !.pc = "judge"],
               at' = [at EXCEPT ![cur] = a], holds' = [holds EXCEPT ![cur] = h],
               h = "empty" <=> holds[cur] = "empty", a = "gone" => h = "empty",
               a = at[cur] \/ h = "empty"
        PROVE  DiskInv'
    <3>1. /\ run'.pc = "judge" /\ run'.cur = run.cur /\ run'.dir = run.dir
          /\ run'.status = run.status /\ run'.said = run.said
      BY <1>0, <2>3 DEF RunType
    <3>2. GoneInv' /\ NoSilentLoss' /\ at'[cur] = a /\ holds'[cur] = h
      BY <2>1, <2>3, DiskOther
    <3>3. DirInv' /\ StatusInv' /\ RejectedForAReason'
      BY <2>1, <2>3, <3>1, <3>2 DEF DiskInv, DirInv, StatusInv, RejectedForAReason, At, cur
    <3> QED BY <3>2, <3>3 DEF DiskInv
  <2>4. CASE /\ at[cur] = "gone" /\ at' = [at EXCEPT ![cur] = "own"]
             /\ holds' = [holds EXCEPT ![cur] = "empty"] /\ run' = [run EXCEPT !.pc = "judge"]
    <3>1. holds[cur] = "empty"
      BY <2>1, <2>4 DEF DiskInv, GoneInv
    <3> QED BY <2>1, <2>3, <2>4, <3>1
  <2>5. ASSUME NEW h \in IF Passed THEN {holds[cur]} ELSE AfterUnpacking(holds[cur]),
               holds' = [holds EXCEPT ![cur] = h], at' = at, run' = [run EXCEPT !.pc = "judge"]
        PROVE  DiskInv'
    <3>1. h \in Contents /\ (h = "empty" <=> holds[cur] = "empty")
      BY <2>1 DEF AfterUnpacking, Unpacked, Contents
    <3>2. at' = [at EXCEPT ![cur] = at[cur]]
      BY <1>0, <2>5
    <3>3. at[cur] = "gone" => h = "empty"
      BY <2>1, <3>1 DEF DiskInv, GoneInv
    <3> QED BY <2>1, <2>3, <2>5, <3>1, <3>2, <3>3
  <2> QED BY <1>9, <2>2, <2>4, <2>5 DEF Respond, Goto, Result
<1>10. CASE Judge
  BY <1>10, DiskJudge
<1>11. CASE HandOver \/ Answer \/ Withhold
  <2>1. /\ Busy /\ UNCHANGED <<config, at, holds, lib, rejected>> /\ cur \in Downloads
    BY <1>0, <1>11 DEF HandOver, Answer, Withhold, At, Busy, disk, history
  <2>2. early \subseteq early'
    BY <1>11, <2>1, AcceptType DEF HandOver, Answer, Withhold, history
  <2>3. /\ run'.pc \in {"wait", "plex"} /\ run'.cur = run.cur /\ run'.dir = run.dir
        /\ run'.status = run.status /\ run'.said = run.said
    <3>1. \/ run' = [run EXCEPT !.pc = "wait"]
          \/ \E r : run' = [run EXCEPT !.pc = "plex", !.result = r]
      BY <1>11 DEF HandOver, Answer, Withhold, Goto, Result
    <3> QED BY <1>0, <3>1 DEF RunType
  <2> QED BY <2>1, <2>2, <2>3, DiskGoesOn DEF Unjudged
<1>12. CASE Reject
  <2>1. /\ Busy /\ UNCHANGED <<config, lib>> /\ rejected \subseteq rejected' /\ cur \in rejected'
        /\ cur \in Downloads
    BY <1>0, <1>12 DEF Reject, At, Busy
  <2>2. run'.pc = "plex" /\ run'.cur = run.cur /\ run'.dir = run.dir
    <3>1. \E r, f : run' = [run EXCEPT !.pc = "plex", !.result = r, !.FAILED = f]
      BY <1>12 DEF Reject
    <3> QED BY <1>0, <3>1 DEF RunType
  <2>3. early \subseteq early'
    BY <1>12, <2>1, AcceptType DEF Reject
  <2> QED BY <1>12, <2>1, <2>2, <2>3, DiskLeaves DEF Reject, Deleted
<1>13. CASE Clean
  <2>1. /\ Busy /\ UNCHANGED <<config, lib, early>> /\ rejected \subseteq rejected'
        /\ run'.pc \in {"idle", "next"} /\ run'.status = run'.said
    BY <1>13 DEF Clean, At, Busy, history, Return, Idle
  <2>2. cur \in moving => cur \in early'
    BY <1>13, <2>1 DEF EarlyInv, Accepting, Clean, At
  <2>3. UNCHANGED <<at, holds>> \/
           /\ at' = [at EXCEPT ![cur] = "gone"]
           /\ holds' = [holds EXCEPT ![cur] = "empty"]
           /\ \/ holds[cur] = "empty" \/ cur \in early' \/ cur \in Small
              \/ config.forceClean \/ (config.deleteFailed /\ cur \in rejected')
    <3>1. \/ UNCHANGED <<at, holds>>
          \/ /\ Cleaned /\ at' = [at EXCEPT ![cur] = "gone"]
             /\ holds' = [holds EXCEPT ![cur] = "empty"]
      BY <1>13 DEF Clean
    <3>2. Cleaned => \/ holds[cur] = "empty" \/ cur \in early' \/ cur \in Small
                     \/ config.forceClean
      BY <2>2 DEF Cleaned, Forced
    <3> QED BY <3>1, <3>2
  <2>4. config' = config /\ lib' = lib /\ early \subseteq early'
    BY <2>1
  <2> QED BY <2>1, <2>3, <2>4, DiskLeaves
<1>14. ASSUME NEW d \in moving, Take(d) \/ GiveUp(d) PROVE DiskInv'
  <2>1. /\ UNCHANGED <<config, run, rejected, early>> /\ lib \subseteq lib' /\ d \in Downloads
    BY <1>14 DEF Take, GiveUp, history, TypeOK
  <2>2. \A e \in Downloads :
           \/ at'[e] = at[e] /\ holds'[e] = holds[e]
           \/ holds'[e] = "empty" /\ e \in lib' /\ at'[e] \in {at[e], "gone"}
    BY <1>0, <1>14, <2>1 DEF Take, GiveUp
  <2>3. GoneInv' /\ NoSilentLoss' /\ StatusInv'
    BY <2>1, <2>2 DEF DiskInv, GoneInv, NoSilentLoss, StatusInv
  <2>4. DirInv' /\ RejectedForAReason'
    <3>1. CASE Busy
      <4>1. \/ at'[cur] = at[cur] /\ holds'[cur] = holds[cur]
            \/ holds'[cur] = "empty"
        BY <1>0, <2>2, <3>1
      <4> QED BY <2>1, <4>1 DEF DiskInv, DirInv, RejectedForAReason, Fits, Busy, At, cur
    <3>2. CASE ~Busy
      BY <2>1, <3>2 DEF DirInv, RejectedForAReason, Busy, At
    <3> QED BY <3>1, <3>2
  <2> QED BY <2>3, <2>4 DEF DiskInv
<1>15. CASE UNCHANGED vars
  BY <1>15 DEF vars, disk, history, DiskInv, GoneInv, DirInv, StatusInv, NoSilentLoss,
               RejectedForAReason, Fits, Busy, At, cur
<1> QED
  BY <1>1, <1>2, <1>3, <1>4, <1>5, <1>6, <1>7, <1>8, <1>9, <1>10, <1>11, <1>12, <1>13, <1>14, <1>15
  DEF Next

LEMMA EarlyStep == TypeOK /\ EarlyInv /\ [Next]_vars => EarlyInv'
<1> SUFFICES ASSUME TypeOK, EarlyInv, [Next]_vars, Accepting', cur' \in moving' PROVE cur' \in early'
  BY DEF EarlyInv
<1>0. run \in RunType /\ (Busy => cur \in Downloads)
  BY DEF TypeOK, Busy, cur
<1>1. CASE Judge \/ Answer \/ Withhold \/ Reject
  <2>1. /\ cur' = cur /\ moving' = moving /\ cur \in Downloads /\ run'.pc \in {"plex", "dispatch"}
    <3>1. \/ \E st : run' = [run EXCEPT !.pc = "dispatch", !.status = st]
          \/ \E x : run' = [run EXCEPT !.pc = "plex", !.result = x]
          \/ \E x, f : run' = [run EXCEPT !.pc = "plex", !.result = x, !.FAILED = f]
      BY <1>1 DEF Judge, Answer, Withhold, Reject, Result, Status
    <3> QED BY <1>0, <1>1, <3>1 DEF Judge, Answer, Withhold, Reject, At, Busy, disk, cur, RunType
  <2>2. run'.result = 0 => Accept(0)
    <3>1. CASE Judge
      BY <2>1, <3>1 DEF Accepting, Judge
    <3>2. ASSUME NEW x, run' = [run EXCEPT !.pc = "plex", !.result = x], Accept(x)
          PROVE  run'.result = 0 => Accept(0)
      BY <1>0, <3>2 DEF RunType
    <3>3. ASSUME NEW x, NEW f, run' = [run EXCEPT !.pc = "plex", !.result = x, !.FAILED = f], Accept(x)
          PROVE  run'.result = 0 => Accept(0)
      BY <1>0, <3>3 DEF RunType
    <3> QED BY <1>1, <3>1, <3>2, <3>3 DEF Answer, Withhold, Reject, Result
  <2> QED BY <2>1, <2>2, AcceptType DEF Accepting
<1>2. CASE Plex \/ Mark
  <2>1. \/ Return
        \/ \E l \in {"mark", "clean"} : run' = [run EXCEPT !.pc = l]
    BY <1>2 DEF Plex, Mark, Goto
  <2>2. ~Return
    BY <1>0, ReturnType DEF Accepting
  <2>3. cur' = cur /\ Accepting /\ UNCHANGED <<moving, early>>
    BY <1>0, <1>2, <2>1, <2>2 DEF Plex, Mark, At, Accepting, disk, history, cur, RunType
  <2> QED BY <2>3 DEF EarlyInv
<1>3. CASE \/ EndRun \/ Lookup \/ Record \/ Category \/ Extract \/ Identify \/ Respond
           \/ HandOver \/ Raise \/ Clean \/ Crash \/ StartManual
           \/ \E d \in run.todo : NextDir(d)
           \/ \E d \in Downloads : (\E x \in {0, 1} : StartClient(d, x)) \/ StartGeneric(d)
  <2>1. run' = Idle \/ Return \/ run'.pc \notin {"mark", "clean", "plex"}
        \/ run' = [run EXCEPT !.pc = "plex", !.result = 1]
    <3>1. ASSUME NEW l \in Steps \ {"mark", "clean", "plex"}, Goto(l)
          PROVE  run'.pc \notin {"mark", "clean", "plex"}
      BY <1>0, <3>1 DEF Goto, RunType
    <3>2. CASE EndRun \/ Record \/ Category \/ Extract \/ HandOver \/ Raise \/ Clean \/ Crash
      BY <3>1, <3>2 DEF EndRun, Record, Category, Extract, HandOver, Raise, Clean, Crash, Abort, Steps
    <3>3. CASE Lookup
      BY <1>0, <3>3 DEF Lookup, Abort, RunType
    <3>4. CASE Identify \/ Respond
      <4>1. run' = [run EXCEPT !.pc = "respond", !.dir = "tagged"] => run'.pc = "respond"
        BY <1>0 DEF RunType
      <4> QED BY <3>1, <3>4, <4>1 DEF Identify, Respond, Abort, Result, Steps
    <3>5. CASE StartManual
      BY <3>5 DEF StartManual, Idle
    <3>6. CASE \E d \in run.todo : NextDir(d)
      <4>1. PICK d \in run.todo : NextDir(d)
        BY <3>6
      <4>2. run.pc = "next"
        BY <4>1 DEF NextDir, At
      <4>3. run' = Idle \/ run' = [run EXCEPT !.todo = run.todo \ {d}]
            \/ \E a, i :
                  run' = [run EXCEPT !.pc = "category", !.todo = run.todo \ {d}, !.cur = d,
                                     !.dir = at[d], !.input = at[d], !.name = NameOf[d],
                                     !.agent = a, !.id = i]
        BY <4>1 DEF NextDir, Abort
      <4> QED BY <1>0, <4>2, <4>3 DEF RunType
    <3>7. CASE \E d \in Downloads : (\E x \in {0, 1} : StartClient(d, x)) \/ StartGeneric(d)
      <4>1. ASSUME NEW d \in Downloads, NEW x \in {0, 1}, StartClient(d, x)
            PROVE  run'.pc \in {"record", "lookup"}
        BY <4>1 DEF StartClient, Idle
      <4>2. ASSUME NEW d \in Downloads, StartGeneric(d) PROVE run'.pc = "category"
        BY <4>2 DEF StartGeneric, Idle
      <4> QED BY <3>7, <4>1, <4>2
    <3> QED BY <1>3, <3>2, <3>3, <3>4, <3>5, <3>6, <3>7
  <2>2. ~Accepting'
    <3>1. run' # Idle /\ ~Return
      BY <1>0, IdleType, ReturnType DEF Accepting
    <3>2. run' = [run EXCEPT !.pc = "plex", !.result = 1] => run'.pc = "plex" /\ run'.result # 0
      BY <1>0 DEF RunType
    <3> QED BY <2>1, <3>1, <3>2 DEF Accepting
  <2> QED BY <2>2
<1>4. CASE (\E d \in moving : Take(d) \/ GiveUp(d)) \/ UNCHANGED vars
  BY <1>4 DEF Take, GiveUp, vars, disk, history, EarlyInv, Accepting, cur
<1> QED
  BY <1>1, <1>2, <1>3, <1>4 DEF Next

THEOREM DiskInvariant == Spec => [](TypeOK /\ EarlyInv /\ DiskInv)
<1>1. Init => TypeOK /\ EarlyInv /\ DiskInv
  BY TypeInit, DiskInit DEF Init, EarlyInv
<1>2. TypeOK /\ EarlyInv /\ DiskInv /\ [Next]_vars => (TypeOK /\ EarlyInv /\ DiskInv)'
  BY TypeStep, EarlyStep, DiskStep
<1> QED
  BY <1>1, <1>2, PTL DEF Spec

\* NothingLost: whatever fails, the videos of a download are in its directory or in
\* the library, unless the settings ask for their deletion or the section accepted
\* it while the manager was still moving them.
THEOREM NothingLost == Spec => []NoSilentLoss
<1>1. DiskInv => NoSilentLoss
  BY DEF DiskInv
<1> QED
  BY <1>1, DiskInvariant, PTL

\* NoFalseRejection: a manager hears of the failure of a complete and intact download
\* only when an earlier run renamed its directory.
THEOREM NoFalseRejection == Spec => []RejectedForAReason
<1>1. DiskInv => RejectedForAReason
  BY DEF DiskInv
<1> QED
  BY <1>1, DiskInvariant, PTL
=============================================================================
