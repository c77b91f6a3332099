--------------------------- MODULE MCSchemaUpgrade ---------------------------
(* SchemaUpgrade on two downloads, from every kind of database. *)
EXTENDS SchemaUpgrade

CONSTANTS r1, r2

MCRows == {r1, r2}

NoDatabase == [has |-> {}, version |-> 0, dl |-> {}]
OldVersion == [has |-> {"db_version", "downloads"}, version |-> 1, dl |-> {r1}]
Current == [OldVersion EXCEPT !.version = 2]
Newer == [OldVersion EXCEPT !.version = 3]

AllDatabases == {NoDatabase, OldVersion, Current, Newer}
NewerDatabases == {Newer}
=============================================================================
