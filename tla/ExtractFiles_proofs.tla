------------------------- MODULE ExtractFiles_proofs -------------------------
(***************************************************************************)
(* Proofs about extract_files, for any download and any nesting of its     *)
(* directories.                                                            *)
(***************************************************************************)
EXTENDS ExtractFiles, TLAPS

\* TypeCorrect: every state of the two loops (files.py:175-209) is well typed:
\* what is visited is on disk, and only files of the download were extracted.
THEOREM TypeCorrect == Spec => []TypeOK
<1>1. Init => TypeOK
  BY DEF Init, TypeOK
<1>2. TypeOK /\ [Next]_vars => TypeOK'
  <2> SUFFICES ASSUME TypeOK, [Next]_vars PROVE TypeOK'
    OBVIOUS
  <2>0. /\ download \subseteq Archives /\ \A new \in Contents : new \subseteq Archives
        /\ \A f \in Archives : /\ f.dir \in Folders /\ f.name \in Names
                               /\ Archive(f) \in Folders \X Names \X Kinds
    BY ExtractAssumption DEF TypeOK, Archives, Archive
  <2> USE DEF TypeOK, Visit, settings, disk
  <2>1. ASSUME NEW f \in todo, SkipKnown(f) PROVE TypeOK'
    BY <2>1 DEF SkipKnown, found, history
  <2>2. ASSUME NEW f \in todo, Extract(f) PROVE TypeOK'
    <3>1. f \in download \cup inner /\ f \in Archives
      BY <2>0
    <3>2. PICK new \in Contents : /\ CameOut(f, new)
                                  /\ \/ files' = (files \ {f}) \cup new
                                     \/ files' = files \cup new
      BY <2>2 DEF Extract
    <3>3. inner' \in SUBSET Archives /\ files' \subseteq download \cup inner'
      BY <2>0, <3>2 DEF CameOut
    <3>4. todo' \subseteq files'
      BY <2>2, <3>2 DEF Extract
    <3>5. unpacked' \in SUBSET (Folders \X Names \X Kinds) /\ again' \in SUBSET unpacked'
      BY <2>0, <2>2, <3>1 DEF Extract
    <3> QED
      BY <2>0, <2>2, <3>1, <3>3, <3>4, <3>5 DEF Extract
  <2>3. ASSUME NEW f \in todo, ExtractionFails(f) PROVE TypeOK'
    <3>1. PICK new \in Contents : CameOut(f, new) /\ files' = files \cup new
      BY <2>3 DEF ExtractionFails
    <3>2. inner' \in SUBSET Archives /\ files' \subseteq download \cup inner'
      BY <2>0, <3>1 DEF CameOut
    <3>3. f \in download
      BY <2>3 DEF ExtractionFails
    <3> QED
      BY <2>3, <3>1, <3>2, <3>3 DEF ExtractionFails, found
  <2>4. ASSUME NEW f \in todo, SkipKept(f) PROVE TypeOK'
    BY <2>4 DEF SkipKept, found, history
  <2>5. ASSUME NEW f \in todo, Remove(f) PROVE TypeOK'
    BY <2>5 DEF Remove, found, history
  <2>6. ASSUME NEW f \in todo, RemovalFails(f) PROVE TypeOK'
    BY <2>6 DEF RemovalFails, found, history
  <2>7. CASE BeginRemoval
    BY <2>7 DEF BeginRemoval, Listed, found, history
  <2>8. CASE UNCHANGED vars
    BY <2>8 DEF vars, found, history
  <2> QED
    BY <2>1, <2>2, <2>3, <2>4, <2>5, <2>6, <2>7, <2>8 DEF Next
<1> QED
  BY <1>1, <1>2, PTL DEF Spec

-----------------------------------------------------------------------------
(* The two lists and what was really extracted: every extracted archive is *)
(* in both lists, and every entry of a list is some extracted file of the  *)
(* download's.  Until the first loop is over, a file that was visited was  *)
(* extracted, failed, or was mistaken for two others.                      *)

InBothLists == \A a \in unpacked : a[1] \in extracted_folder /\ a[2] \in extracted_archive

ListsComeFrom ==
    /\ \A m \in extracted_archive : \E g \in download : Unpacked(g) /\ g.name = m
    /\ \A d \in extracted_folder : \E h \in download : Unpacked(h) /\ h.dir = d

\* Why a file may have been passed over.
Mistaken(f) ==
    /\ \E g \in download : Unpacked(g) /\ g.name = f.name
    /\ \E h \in download : Unpacked(h) /\ h.dir = f.dir

VisitedAre ==
    ~removing => \A f \in download \ todo : Unpacked(f) \/ f \in failed \/ Mistaken(f)

ListsInv == again = {} /\ InBothLists /\ ListsComeFrom /\ VisitedAre

LEMMA ListsInvariant == Spec => []ListsInv
<1>1. Init => ListsInv
  BY DEF Init, ListsInv, InBothLists, ListsComeFrom, VisitedAre
<1>2. TypeOK /\ ListsInv /\ [Next]_vars => ListsInv'
  <2> SUFFICES ASSUME TypeOK, ListsInv, [Next]_vars PROVE ListsInv'
    OBVIOUS
  \* Steps of the second loop leave the lists and the history alone.
  <2>1. ASSUME removing, removing', UNCHANGED <<download, found, history>> PROVE ListsInv'
    BY <2>1 DEF ListsInv, InBothLists, ListsComeFrom, VisitedAre, Unpacked, Archive, found, history
  <2>2. ASSUME NEW f \in todo, SkipKnown(f) PROVE ListsInv'
    <3>1. Mistaken(f)
      BY <2>2 DEF SkipKnown, Known, ListsInv, ListsComeFrom, Mistaken
    <3>2. VisitedAre'
      BY <2>2, <3>1
      DEF SkipKnown, Visit, ListsInv, VisitedAre, Mistaken, Unpacked, Archive, settings, history
    <3> QED
      BY <2>2, <3>2 DEF SkipKnown, ListsInv, InBothLists, ListsComeFrom, Unpacked, Archive,
                        settings, found, history
  <2>3. ASSUME NEW f \in todo, Extract(f) PROVE ListsInv'
    <3>0. f \in download /\ download' = download /\ Unpacked(f)'
      BY <2>3 DEF TypeOK, Extract, settings, Unpacked, Archive
    <3>1. Archive(f) \notin unpacked
      BY <2>3 DEF Extract, Known, ListsInv, InBothLists, Archive
    <3>2. again' = {}
      BY <2>3, <3>1 DEF Extract, ListsInv
    <3>3. InBothLists'
      BY <2>3 DEF Extract, ListsInv, InBothLists, Archive
    <3>4. \A g : Unpacked(g) => Unpacked(g)'
      BY <2>3 DEF Extract, Unpacked, Archive
    <3>5. ListsComeFrom'
      <4>1. \A m \in extracted_archive' : \E g \in download : Unpacked(g)' /\ g.name = m
        BY <2>3, <3>0, <3>4 DEF Extract, ListsInv, ListsComeFrom
      <4>2. \A d \in extracted_folder' : \E h \in download : Unpacked(h)' /\ h.dir = d
        BY <2>3, <3>0, <3>4 DEF Extract, ListsInv, ListsComeFrom
      <4> QED
        BY <3>0, <4>1, <4>2 DEF ListsComeFrom
    <3>6. VisitedAre'
      <4>1. failed' = failed /\ todo' = todo \ {f} /\ ~removing
        BY <2>3 DEF Extract, Visit
      <4> QED
        BY <3>0, <3>4, <4>1 DEF ListsInv, VisitedAre, Mistaken
    <3> QED
      BY <3>2, <3>3, <3>5, <3>6 DEF ListsInv
  <2>4. ASSUME NEW f \in todo, ExtractionFails(f) PROVE ListsInv'
    <3>1. VisitedAre'
      BY <2>4
      DEF ExtractionFails, Visit, ListsInv, VisitedAre, Mistaken, Unpacked, Archive, settings
    <3> QED
      BY <2>4, <3>1 DEF ExtractionFails, ListsInv, InBothLists, ListsComeFrom, Unpacked, Archive,
                        settings, found
  <2>5. CASE BeginRemoval
    BY <2>5 DEF BeginRemoval, ListsInv, InBothLists, ListsComeFrom, VisitedAre, Unpacked, Archive,
                settings, found, history
  <2>6. ASSUME NEW f \in todo, SkipKept(f) \/ Remove(f) \/ RemovalFails(f) PROVE ListsInv'
    BY <2>1, <2>6 DEF SkipKept, Remove, RemovalFails, settings
  <2>7. CASE UNCHANGED vars
    BY <2>7 DEF vars, ListsInv, InBothLists, ListsComeFrom, VisitedAre, Mistaken, Unpacked, Archive,
                settings, found, history
  <2> QED
    BY <2>2, <2>3, <2>4, <2>5, <2>6, <2>7 DEF Next
<1> QED
  BY <1>1, <1>2, TypeCorrect, PTL DEF Spec

-----------------------------------------------------------------------------

\* EachOnce: ExtractedOnce for every download: no archive is extracted twice,
\* although directory and name are remembered apart (files.py:185-191).
THEOREM EachOnce == Spec => []ExtractedOnce
<1>1. ListsInv => ExtractedOnce
  BY DEF ListsInv, ExtractedOnce
<1> QED
  BY <1>1, ListsInvariant, PTL

\* NothingForgotten: NoneForgotten for every download: what the first loop left
\* unextracted failed, or two extracted archives had its folder and its name
\* (files.py:179-193).
THEOREM NothingForgotten == Spec => NoneForgotten
<1>1. TypeOK /\ ListsInv /\ [Next]_vars =>
        [removing' /\ ~removing =>
            \A f \in download :
                \/ Unpacked(f) \/ f \in failed
                \/ /\ \E g \in download : Unpacked(g) /\ g.name = f.name
                   /\ \E h \in download : Unpacked(h) /\ h.dir = f.dir]_vars
  <2> SUFFICES ASSUME TypeOK, ListsInv, Next, removing', ~removing, NEW f \in download
               PROVE  Unpacked(f) \/ f \in failed \/ Mistaken(f)
    BY DEF Mistaken
  <2>1. BeginRemoval
    BY DEF Next, SkipKnown, Extract, ExtractionFails, SkipKept, Remove, RemovalFails
  <2> QED
    BY <2>1 DEF BeginRemoval, ListsInv, VisitedAre
<1> QED
  BY <1>1, TypeCorrect, ListsInvariant, PTL DEF Spec, NoneForgotten

\* OnlyExtractedGo: RemovedWereExtracted for every download and whatever comes
\* out of its archives: a file whose name no other archive has is deleted only
\* if its archive was extracted and archives are not kept (files.py:195-209).
THEOREM OnlyExtractedGo == Spec => RemovedWereExtracted
<1>1. TypeOK /\ ListsInv /\ [Next]_vars =>
        [\A f \in files : Removes(f) /\ OnlyOfItsName(f) =>
            Archive(f) \in unpacked /\ ~keep_archive]_vars
  <2> SUFFICES ASSUME ListsInv, Next, NEW f \in files, Removes(f), OnlyOfItsName(f)
               PROVE  Archive(f) \in unpacked /\ ~keep_archive
    OBVIOUS
  <2>1. PICK g \in todo : Remove(g)
    BY DEF Next, Removes, SkipKnown, Extract, ExtractionFails, SkipKept, RemovalFails,
           BeginRemoval, disk
  <2>2. f = g
    BY <2>1 DEF Remove, Removes
  <2>3. f.name \in extracted_archive /\ ~keep_archive
    BY <2>1, <2>2 DEF Remove, Keeps
  <2>4. PICK h \in download : Unpacked(h) /\ h.name = f.name
    BY <2>3 DEF ListsInv, ListsComeFrom
  <2>5. Archive(h) = Archive(f)
    BY <2>4 DEF OnlyOfItsName
  <2> QED
    BY <2>3, <2>4, <2>5 DEF Unpacked
<1> QED
  BY <1>1, TypeCorrect, ListsInvariant, PTL DEF Spec, RemovedWereExtracted
=============================================================================
