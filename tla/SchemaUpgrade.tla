---------------------------- MODULE SchemaUpgrade ----------------------------
(***************************************************************************)
(* The check of nzbtomedia.db at every start of the program: a missing     *)
(* schema is created, a version 1 schema is migrated by copying the        *)
(* downloads table, anything older is refused.  Each statement commits on  *)
(* its own, so a crash leaves what was committed so far, and a statement   *)
(* that finds the database locked five times is given up without an error. *)
(***************************************************************************)
EXTENDS Naturals

CONSTANTS
    Rows,       \* the downloads that can be recorded
    Databases,  \* the databases an installation may start from
    Faults      \* a subset of {"crash", "locked"}

MIN_DB_VERSION == 1
\* Broken variant: the version written is one this program does not know.
NextVersion == 4

MAX_DB_VERSION == 2

Tables == {"db_version", "downloads", "downloads2"}

\* A database of an earlier program: its tables, version and recorded rows.
DatabasesAssumption ==
    \A d \in Databases :
        /\ d.has \in SUBSET {"db_version", "downloads"}
        /\ d.version \in 0 .. 3 /\ d.dl \in SUBSET Rows
        /\ "downloads" \notin d.has => d.dl = {}
        /\ d.version > 0 => d.has = {"db_version", "downloads"}

ASSUME UpgradeAssumption == DatabasesAssumption

VARIABLES
    has,        \* the tables that exist
    version,    \* the last row of db_version; 0 when there is none
    dl, dl2,    \* the rows of downloads and downloads2
    pc,         \* the statement about to be executed
    saved,      \* every row ever recorded
    skipped,    \* statements given up on a locked database
    cut         \* statements a crash came before, and "read" for a query
                \* that got no answer

disk == <<has, version, dl, dl2>>
vars == <<disk, pc, saved, skipped, cut>>

Fresh == {"createVersion", "createDownloads", "firstVersion"}
Migration == {"create2", "copy", "drop", "rename", "setVersion"}
Statements == Fresh \cup Migration
Stopped == {"off", "failed", "refused"}
Active == {"test", "execute", "running"} \cup Statements

Init ==
    /\ \E d \in Databases :
        has = d.has /\ version = d.version /\ dl = d.dl /\ saved = d.dl
    /\ dl2 = {}
    /\ pc = "off"
    /\ skipped = {} /\ cut = {}

Fault(k) == k \in Faults

Start ==
    /\ pc \in Stopped
    /\ pc' = "test"
    /\ UNCHANGED <<disk, saved, skipped, cut>>

\* Broken variant: any version table will do.
HasVersion == "db_version" \in has

Tested == "db_version" \in has /\ version >= MAX_DB_VERSION

Test ==
    /\ pc = "test"
    /\ pc' = IF Tested THEN "running" ELSE "execute"
    /\ UNCHANGED <<disk, saved, skipped, cut>>

\* Reading the version of a database without a version table raises.  The refusal of
\* a version above the supported ones and the no-op at the newest (databases.py:57-62)
\* are not reached: Test has let those databases pass.
Execute ==
    /\ pc = "execute"
    /\ pc' = CASE has \cap {"db_version", "downloads"} = {} -> "createVersion"
               [] "db_version" \notin has /\ "downloads" \in has -> "failed"
               [] "db_version" \in has /\ version < MIN_DB_VERSION -> "refused"
               [] "db_version" \in has /\ version >= MIN_DB_VERSION -> "create2"
    /\ UNCHANGED <<disk, saved, skipped, cut>>

\* A query the locked database keeps from answering: None has no fetchall.
Unreadable ==
    /\ Fault("locked")
    /\ pc \in {"test", "execute"}
    /\ pc' = "failed"
    /\ cut' = cut \cup {"read"}
    /\ UNCHANGED <<disk, saved, skipped>>

-----------------------------------------------------------------------------
(* The statements.  One that raises ends the program.                      *)

\* What follows a statement; the program is at work after the last one.
After(q) == CASE q = "createVersion" -> "createDownloads"
              [] q = "createDownloads" -> "firstVersion"
              [] q = "create2" -> "copy"
              [] q = "copy" -> "drop"
              [] q = "drop" -> "rename"
              [] q = "rename" -> "setVersion"
              [] q \in {"firstVersion", "setVersion"} -> "running"

Done(q) == pc' = After(q) /\ UNCHANGED <<saved, skipped, cut>>

RaisesIf(cond) == cond /\ pc' = "failed" /\ UNCHANGED <<disk, saved, skipped, cut>>

CreateVersion ==
    /\ pc = "createVersion"
    /\ has' = has \cup {"db_version"}
    /\ Done("createVersion")
    /\ UNCHANGED <<version, dl, dl2>>

CreateDownloads ==
    /\ pc = "createDownloads"
    /\ has' = has \cup {"downloads"}
    /\ Done("createDownloads")
    /\ UNCHANGED <<version, dl, dl2>>

SetVersion(q) ==
    /\ pc = q
    /\ \/ RaisesIf("db_version" \notin has)
       \/ /\ "db_version" \in has
          /\ version' = MAX_DB_VERSION
          /\ Done(q)
          /\ UNCHANGED <<has, dl, dl2>>

Create2 ==
    /\ pc = "create2"
    /\ \/ RaisesIf("downloads2" \in has)
       \/ /\ "downloads2" \notin has
          /\ has' = has \cup {"downloads2"}
          /\ Done("create2")
          /\ UNCHANGED <<version, dl, dl2>>

\* Broken variant: the old table goes before it is copied.
DropFirst ==
    /\ pc = "copy"
    /\ has' = has \ {"downloads"} /\ dl' = {}
    /\ Done("copy")
    /\ UNCHANGED <<version, dl2>>

\* Rows that are in both tables break the key, unless their directory is NULL.
Copy ==
    /\ pc = "copy"
    /\ \/ RaisesIf(~({"downloads", "downloads2"} \subseteq has) \/ dl \cap dl2 # {})
       \/ /\ {"downloads", "downloads2"} \subseteq has
          /\ dl2' = dl2 \cup dl
          /\ Done("copy")
          /\ UNCHANGED <<has, version, dl>>

\* Broken variant: the old table is forgotten.
KeepOld ==
    /\ pc = "drop"
    /\ Done("drop")
    /\ UNCHANGED disk

Drop ==
    /\ pc = "drop"
    /\ has' = has \ {"downloads"} /\ dl' = {}
    /\ Done("drop")
    /\ UNCHANGED <<version, dl2>>

Rename ==
    /\ pc = "rename"
    /\ \/ RaisesIf("downloads2" \notin has \/ "downloads" \in has)
       \/ /\ "downloads2" \in has /\ "downloads" \notin has
          /\ has' = (has \ {"downloads2"}) \cup {"downloads"}
          /\ dl' = dl2 /\ dl2' = {}
          /\ Done("rename")
          /\ UNCHANGED version

\* Five attempts found the database locked: action returns as if it had
\* worked, and the next statement follows.
GiveUp ==
    /\ Fault("locked")
    /\ pc \in Statements
    /\ pc' = After(pc)
    /\ skipped' = skipped \cup {pc}
    /\ UNCHANGED <<disk, saved, cut>>

-----------------------------------------------------------------------------
(* The program at work                                                     *)

Record(r) ==
    /\ pc = "running" /\ "downloads" \in has
    /\ dl' = dl \cup {r} /\ saved' = saved \cup {r}
    /\ UNCHANGED <<has, version, dl2, pc, skipped, cut>>

\* The program ends, or raises because there is no downloads table.
End ==
    /\ pc = "running"
    /\ pc' = "off"
    /\ UNCHANGED <<disk, saved, skipped, cut>>

Crash ==
    /\ Fault("crash")
    /\ pc \in Active
    /\ pc' = "off"
    /\ cut' = cut \cup ({pc} \cap Statements)
    /\ UNCHANGED <<disk, saved, skipped>>

Statement ==
    \/ CreateVersion \/ CreateDownloads \/ SetVersion("firstVersion")
    \/ Create2 \/ Copy \/ Drop \/ Rename \/ SetVersion("setVersion")

Next ==
    \/ Start \/ Test \/ Execute \/ Unreadable
    \/ Statement \/ GiveUp
    \/ \E r \in Rows : Record(r)
    \/ End \/ Crash

Spec == Init /\ [][Next]_vars

-----------------------------------------------------------------------------
(* Properties                                                              *)

TypeOK ==
    /\ has \in SUBSET Tables
    /\ version \in 0 .. 3
    /\ dl \in SUBSET Rows /\ dl2 \in SUBSET Rows /\ saved \in SUBSET Rows
    /\ pc \in Stopped \cup Active
    /\ skipped \in SUBSET Statements /\ cut \in SUBSET (Statements \cup {"read"})
    /\ "downloads" \notin has => dl = {}
    /\ "downloads2" \notin has => dl2 = {}

\* RowsPreserved: no crash, restart or raising statement loses a recorded
\* download, wherever it hits; only a copy skipped on a locked database does.
RowsPreserved == "copy" \notin skipped => saved \subseteq dl \cup dl2

\* RunningIsCurrent: the program runs on a current schema with its table,
\* unless a statement was skipped on a locked database.
RunningIsCurrent ==
    pc = "running" /\ skipped = {} =>
        version >= MAX_DB_VERSION /\ "downloads" \in has

\* What a later creation or migration cannot make good.
Unrepeatable == (Statements \ {"createVersion", "create2", "setVersion"}) \cup {"read"}

\* StuckOnlyWhenInterrupted: a start fails only after a crash before one of the
\* statements that cannot be repeated, or because the database was locked; a
\* crash before the last statement of a migration is repaired by the next start.
StuckOnlyWhenInterrupted ==
    pc \in {"failed", "refused"} => skipped # {} \/ cut \cap Unrepeatable # {}

\* NewerRefused: a database "incremented past what this version of nzbToMedia
\* supports" (databases.py:58) is not used.
NewerRefused == pc = "running" => version <= MAX_DB_VERSION
=============================================================================
