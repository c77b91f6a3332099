------------------------ MODULE SchemaUpgrade_proofs ------------------------
(***************************************************************************)
(* Proofs about creating and migrating the database, for any downloads,    *)
(* any databases to start from and, where not said otherwise, any faults.  *)
(***************************************************************************)
EXTENDS SchemaUpgrade, TLAPS

\* TypeCorrect: the tables, the version and the rows (databases.py:40-72) stay
\* what they should be, and a table that does not exist has no rows.
THEOREM TypeCorrect == Spec => []TypeOK
<1>1. Init => TypeOK
  BY UpgradeAssumption
     DEF Init, TypeOK, DatabasesAssumption, Tables, Stopped, Active
<1>2. TypeOK /\ [Next]_vars => TypeOK'
  <2> SUFFICES ASSUME TypeOK, [Next]_vars PROVE TypeOK'
    OBVIOUS
  <2> USE DEF TypeOK, disk, Stopped, Active, Statements, Fresh, Migration
  <2>1. CASE Start \/ Test \/ Execute \/ Unreadable \/ End
    BY <2>1 DEF Start, Test, Execute, Unreadable, End, MIN_DB_VERSION
  <2>2. CASE Statement
    <3> USE DEF Tables, RaisesIf, Done, After, MAX_DB_VERSION
    <3>1. CASE CreateVersion \/ CreateDownloads
      BY <3>1 DEF CreateVersion, CreateDownloads
    <3>2. ASSUME NEW q \in {"firstVersion", "setVersion"}, SetVersion(q)
          PROVE  TypeOK'
      BY <3>2 DEF SetVersion
    <3>3. CASE Create2
      BY <3>3 DEF Create2
    <3>4. CASE Copy
      BY <3>4 DEF Copy
    <3>5. CASE Drop
      BY <3>5 DEF Drop
    <3>6. CASE Rename
      BY <3>6 DEF Rename
    <3> QED
      BY <2>2, <3>1, <3>2, <3>3, <3>4, <3>5, <3>6 DEF Statement
  <2>3. CASE GiveUp
    BY <2>3 DEF GiveUp, After
  <2>4. ASSUME NEW r \in Rows, Record(r) PROVE TypeOK'
    BY <2>4 DEF Record
  <2>5. CASE Crash
    BY <2>5 DEF Crash
  <2>6. CASE UNCHANGED vars
    BY <2>6 DEF vars
  <2> QED
    BY <2>1, <2>2, <2>3, <2>4, <2>5, <2>6 DEF Next
<1> QED
  BY <1>1, <1>2, PTL DEF Spec

-----------------------------------------------------------------------------
(* No row is lost: the old table is dropped only after it has been copied. *)

RowsInv ==
    "copy" \notin skipped =>
        /\ saved \subseteq dl \cup dl2
        /\ pc = "drop" => saved \subseteq dl2

\* RowsArePreserved: whatever crashes, restarts and raising statements do to the
\* migration (databases.py:64-72), every recorded download is in a table.
THEOREM RowsArePreserved == Spec => []RowsPreserved
<1>1. Init => RowsInv
  BY DEF Init, RowsInv
<1>2. TypeOK /\ RowsInv /\ [Next]_vars => RowsInv'
  <2> SUFFICES ASSUME TypeOK, RowsInv, [Next]_vars, "copy" \notin skipped'
               PROVE  RowsInv'
    BY DEF RowsInv
  <2> USE DEF TypeOK, RowsInv, disk
  <2>1. CASE Start \/ Test \/ Execute \/ Unreadable \/ End
    BY <2>1 DEF Start, Test, Execute, Unreadable, End, MIN_DB_VERSION
  <2>2. CASE Statement
    <3> USE DEF RaisesIf, Done, After
    <3>1. CASE CreateVersion \/ CreateDownloads
      BY <3>1 DEF CreateVersion, CreateDownloads
    <3>2. ASSUME NEW q \in {"firstVersion", "setVersion"}, SetVersion(q)
          PROVE  RowsInv'
      BY <3>2 DEF SetVersion
    <3>3. CASE Create2
      BY <3>3 DEF Create2
    <3>4. CASE Copy
      BY <3>4 DEF Copy
    <3>5. CASE Drop
      BY <3>5 DEF Drop
    <3>6. CASE Rename
      BY <3>6 DEF Rename
    <3> QED
      BY <2>2, <3>1, <3>2, <3>3, <3>4, <3>5, <3>6 DEF Statement
  <2>3. CASE GiveUp
    BY <2>3 DEF GiveUp, After, Statements, Fresh, Migration
  <2>4. ASSUME NEW r \in Rows, Record(r) PROVE RowsInv'
    BY <2>4 DEF Record
  <2>5. CASE Crash
    BY <2>5 DEF Crash
  <2>6. CASE UNCHANGED vars
    BY <2>6 DEF vars
  <2> QED
    BY <2>1, <2>2, <2>3, <2>4, <2>5, <2>6 DEF Next
<1>3. RowsInv => RowsPreserved
  BY DEF RowsInv, RowsPreserved
<1> QED
  BY <1>1, <1>2, <1>3, TypeCorrect, PTL DEF Spec

-----------------------------------------------------------------------------
(* The version is the last thing a creation or a migration writes.         *)

VersionInv ==
    skipped = {} =>
        /\ version > 0 => "db_version" \in has
        /\ version >= MAX_DB_VERSION => "downloads" \in has
        /\ pc \in Statements \cup {"execute"} => version < MAX_DB_VERSION
        /\ pc \in {"firstVersion", "setVersion"} => "downloads" \in has
        /\ pc = "running" => version >= MAX_DB_VERSION

\* RunsOnCurrentSchema: InitialSchema.test (databases.py:31-36) lets the program
\* run only on a complete current schema, unless a locked database made it skip.
THEOREM RunsOnCurrentSchema == Spec => []RunningIsCurrent
<1> USE DEF MAX_DB_VERSION
<1>1. Init => VersionInv
  BY UpgradeAssumption
     DEF Init, VersionInv, DatabasesAssumption, Statements, Fresh, Migration
<1>2. TypeOK /\ VersionInv /\ [Next]_vars => VersionInv'
  <2> SUFFICES ASSUME TypeOK, VersionInv, [Next]_vars, skipped' = {}
               PROVE  VersionInv'
    BY DEF VersionInv
  <2> USE DEF TypeOK, VersionInv, disk, Statements, Fresh, Migration
  <2>1. CASE Start \/ Unreadable \/ End
    BY <2>1 DEF Start, Unreadable, End
  <2>2. CASE Test
    BY <2>2 DEF Test, Tested
  <2>3. CASE Execute
    <3>1. pc = "execute" /\ UNCHANGED <<disk, saved, skipped, cut>>
      BY <2>3 DEF Execute
    <3>2. pc' \in {"createVersion", "failed", "refused", "create2"}
      BY <2>3 DEF Execute, MIN_DB_VERSION
    <3> QED
      BY <3>1, <3>2
  <2>4. CASE Statement
    <3> USE DEF RaisesIf, Done, After
    <3>1. CASE CreateVersion \/ CreateDownloads
      BY <3>1 DEF CreateVersion, CreateDownloads
    <3>2. ASSUME NEW q \in {"firstVersion", "setVersion"}, SetVersion(q)
          PROVE  VersionInv'
      BY <3>2 DEF SetVersion
    <3>3. CASE Create2
      BY <3>3 DEF Create2
    <3>4. CASE Copy
      BY <3>4 DEF Copy
    <3>5. CASE Drop
      BY <3>5 DEF Drop
    <3>6. CASE Rename
      BY <3>6 DEF Rename
    <3> QED
      BY <2>4, <3>1, <3>2, <3>3, <3>4, <3>5, <3>6 DEF Statement
  <2>5. CASE GiveUp
    BY <2>5 DEF GiveUp
  <2>6. ASSUME NEW r \in Rows, Record(r) PROVE VersionInv'
    BY <2>6 DEF Record
  <2>7. CASE Crash
    BY <2>7 DEF Crash
  <2>8. CASE UNCHANGED vars
    BY <2>8 DEF vars
  <2> QED
    BY <2>1, <2>2, <2>3, <2>4, <2>5, <2>6, <2>7, <2>8 DEF Next
<1>3. VersionInv => RunningIsCurrent
  BY DEF VersionInv, RunningIsCurrent
<1> QED
  BY <1>1, <1>2, <1>3, TypeCorrect, PTL DEF Spec

-----------------------------------------------------------------------------
(* Which interruptions leave a database the next start cannot use.         *)

Empty == has = {} /\ version = 0
Complete == has = {"db_version", "downloads"}

\* What is on disk before each statement when nothing unrepeatable was cut.
ShapeInv ==
    skipped = {} /\ cut \cap Unrepeatable = {} =>
        /\ pc \notin {"failed", "refused"}
        /\ pc \in {"off", "test", "execute"} => Empty \/ (Complete /\ version > 0)
        /\ pc \in {"create2", "setVersion", "running"} => Complete /\ version > 0
        /\ pc = "createVersion" => Empty
        /\ pc = "createDownloads" => has = {"db_version"}
        /\ pc = "firstVersion" => Complete
        /\ pc \in {"copy", "drop"} => has = Tables /\ version > 0
        /\ pc = "copy" => dl2 = {}
        /\ pc = "rename" => has = {"db_version", "downloads2"} /\ version > 0

\* OnlyInterruptionsStick: from an empty or a versioned database a start fails
\* only after a crash before one of the statements of databases.py:41-69 that a
\* repeated creation or migration cannot make good, or after the database was
\* found locked.
THEOREM OnlyInterruptionsStick ==
    ASSUME \A d \in Databases : (d.has = {} /\ d.version = 0) \/ d.version > 0
    PROVE  Spec => []StuckOnlyWhenInterrupted
<1> USE DEF MAX_DB_VERSION, MIN_DB_VERSION
<1>1. Init => ShapeInv
  BY UpgradeAssumption DEF Init, ShapeInv, DatabasesAssumption, Empty, Complete
<1>2. TypeOK /\ ShapeInv /\ [Next]_vars => ShapeInv'
  <2> SUFFICES ASSUME TypeOK, ShapeInv, [Next]_vars,
                      skipped' = {}, cut' \cap Unrepeatable = {}
               PROVE  ShapeInv'
    BY DEF ShapeInv
  <2>0. cut \cap Unrepeatable = {} /\ cut \subseteq cut' /\ skipped = {}
    BY DEF Next, Start, Test, Execute, Unreadable, Statement, CreateVersion,
           CreateDownloads, SetVersion, Create2, Copy, Drop, Rename, RaisesIf,
           Done, GiveUp, Record, End, Crash, vars
  <2> USE <2>0 DEF TypeOK, ShapeInv, disk, Empty, Complete, Tables
  <2>1. CASE Start \/ End
    BY <2>1 DEF Start, End, Stopped
  <2>2. CASE Test
    BY <2>2 DEF Test, Tested
  <2>3. CASE Execute
    BY <2>3 DEF Execute
  <2>4. CASE Statement
    <3> USE DEF RaisesIf, Done, After
    <3>1. CASE CreateVersion \/ CreateDownloads
      BY <3>1 DEF CreateVersion, CreateDownloads
    <3>2. ASSUME NEW q \in {"firstVersion", "setVersion"}, SetVersion(q)
          PROVE  ShapeInv'
      BY <3>2 DEF SetVersion
    <3>3. CASE Create2
      BY <3>3 DEF Create2
    <3>4. CASE Copy
      BY <3>4 DEF Copy
    <3>5. CASE Drop
      BY <3>5 DEF Drop
    <3>6. CASE Rename
      BY <3>6 DEF Rename
    <3> QED
      BY <2>4, <3>1, <3>2, <3>3, <3>4, <3>5, <3>6 DEF Statement
  <2>5. CASE Unreadable \/ GiveUp
    BY <2>5 DEF Unreadable, GiveUp, Unrepeatable
  <2>6. ASSUME NEW r \in Rows, Record(r) PROVE ShapeInv'
    BY <2>6 DEF Record
  <2>7. CASE Crash
    <3>1. pc \notin Unrepeatable
      BY <2>7 DEF Crash, Unrepeatable, Stopped, Active, Statements, Fresh, Migration
    <3> QED
      BY <2>7, <3>1 DEF Crash, Unrepeatable, Statements, Fresh, Migration, Active
  <2>8. CASE UNCHANGED vars
    BY <2>8 DEF vars
  <2> QED
    BY <2>1, <2>2, <2>3, <2>4, <2>5, <2>6, <2>7, <2>8 DEF Next
<1>3. ShapeInv => StuckOnlyWhenInterrupted
  BY DEF ShapeInv, StuckOnlyWhenInterrupted
<1> QED
  BY <1>1, <1>2, <1>3, TypeCorrect, PTL DEF Spec
=============================================================================
