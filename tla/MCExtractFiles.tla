--------------------------- MODULE MCExtractFiles ---------------------------
(* ExtractFiles on a download with a subdirectory, with two formats of which *)
(* one is gunzip's, and archives that hold at most one other archive.        *)
EXTENDS ExtractFiles, FiniteSets

MCFolders == {"top", "sub"}
MCNames == {"a", "b"}
MCKinds == {"rar", "gz"}
MCSelfDeleting == {"gz"}
MCUnder == [d \in MCFolders |-> IF d = "top" THEN MCFolders ELSE {"sub"}]

\* What gunzip unpacks has one part.
OneDownload(s) == Cardinality(s) <= 3 /\ \A f \in s : f.kind = "gz" => f.part = 1
AnyDownload == {s \in SUBSET Archives : OneDownload(s)}
AnyContent == {{}} \cup {{f} : f \in {g \in Archives : g.part = 1 /\ g.kind = "rar"}}
=============================================================================
