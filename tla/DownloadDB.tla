----------------------------- MODULE DownloadDB -----------------------------
(***************************************************************************)
(* The downloads table as the program uses it: a row is added or reset     *)
(* when a client hands a download over, set to 1 when a section accepted   *)
(* it, and looked up by a manual run.  A table is the sequence of its rows *)
(* in rowid order.  The columns that no operation reads are left out.      *)
(***************************************************************************)
EXTENDS Naturals, Sequences

\* The directory of a row whose INSERT did not name the column.
NULL == "NULL"

\* The id column is the hash or id the client knows the download by.
Row(dir, name, agent, id) ==
    [dir |-> dir, name |-> name, agent |-> agent, id |-> id, status |-> 0]

\* What the table may contain: the downloads stand for their directories and
\* for the ids that clients know them by, the texts for everything else.
Table(Downloads, Texts) ==
    Seq([dir : Downloads \cup {NULL}, name : Texts, agent : Texts,
         id : Downloads \cup Texts, status : {0, 1}])

\* WHERE input_directory = ?, which no NULL satisfies.
Keyed(rows, dir) == {i \in DOMAIN rows : rows[i].dir = dir /\ dir # NULL}

\* Two rows given the same (input_directory, input_name) break the key.
UpsertRaises(rows, dir) == \E i, j \in Keyed(rows, dir) : i # j

UpdateKeyed(rows, dir, name, agent, id) ==
    [i \in DOMAIN rows |->
        IF i \in Keyed(rows, dir) THEN Row(dir, name, agent, id) ELSE rows[i]]

\* The INSERT lists the keys of value_dict only; NULLs are distinct in a
\* PRIMARY KEY, so nothing is ever ignored.
InsertRow(rows, name, agent, id) == Append(rows, Row(NULL, name, agent, id))

\* An UPDATE that gave up on a locked database changed nothing either.
Upsert(rows, dir, name, agent, id, locked) ==
    IF Keyed(rows, dir) = {} \/ locked
    THEN InsertRow(rows, name, agent, id)
    ELSE UpdateKeyed(rows, dir, name, agent, id)

\* Broken variants: the WHERE clause names another column, or is missing.
SetStatusByDir(rows, name, s) ==
    [i \in DOMAIN rows |->
        IF rows[i].dir = name THEN [rows[i] EXCEPT !.status = s] ELSE rows[i]]

SetStatusOfAll(rows, name, s) ==
    [i \in DOMAIN rows |-> [rows[i] EXCEPT !.status = s]]

SetStatus(rows, name, s) ==
    [i \in DOMAIN rows |->
        IF rows[i].name = name THEN [rows[i] EXCEPT !.status = s] ELSE rows[i]]

\* get_download_info(name, 0): the pending rows of a name, of which only the first
\* in rowid order is looked at.
Pending(rows, name) == {i \in DOMAIN rows : rows[i].name = name /\ rows[i].status = 0}

First(rows, name) ==
    rows[CHOOSE i \in Pending(rows, name) : \A j \in Pending(rows, name) : i <= j]

\* What the table says of a download with that name.
Phase(rows, name) ==
    IF Pending(rows, name) # {} THEN "pending"
    ELSE IF \E i \in DOMAIN rows : rows[i].name = name THEN "done" ELSE "new"
=============================================================================
