---------------------------- MODULE MCNzbToMedia ----------------------------
(* NzbToMedia on two downloads, of which only the first has an id.  Without  *)
(* what looks like an extension the second has the name of the first.        *)
EXTENDS NzbToMedia, TLC

CONSTANTS d1, d2

MCDownloads == {d1, d2}
OwnNames == d1 :> "n1" @@ d2 :> "n1.1"
\* The client passes the name of the nzb file of d1.
ClientNames == d1 :> "n1.nzb" @@ d2 :> "n1.1"
MCTexts == {"", "none", "None", "manual", "nzbget", "sabnzbd", "client", "hash",
            "n1", "n1.1", "n1.nzb"}
Stems == [t \in MCTexts |-> IF t \in {"n1.1", "n1.nzb"} THEN "n1" ELSE t]

\* Unpacking the archive of d1 may leave videos of any kind.
Holdings == {d1 :> "archive" @@ d2 :> "intact"}

\* What earlier runs and versions may have left: nothing; a row with its directory,
\* beside one of a torrent client's for a directory of the other name; and a second
\* row, pending with the id of the other download, beside a settled one.
OldRows == {<<>>,
            <<Row(d2, "n1.1", "nzbget", d2), Row(NULL, "n1", "client", "hash")>>,
            <<Row(NULL, "n1.1", "sabnzbd", d1),
              [Row(d2, "n1.1", "sabnzbd", d2) EXCEPT !.status = 1],
              Row(NULL, "n1.nzb", "nzbget", d1)>>}

\* One installation per section, with the options that are on.
Installed == {
    <<"CouchPotato", "sabnzbd", {"extract", "checkMedia"}>>,
    <<"Radarr", "nzbget", {"extract"}>>,
    <<"SickBeard", "nzbget", {"extract", "checkMedia", "byDestination", "processMethod",
                              "deleteFailed"}>>,
    <<"NzbDrone", "sabnzbd", {"extract", "noExtractFailed", "checkMedia", "requireLan"}>>,
    <<"HeadPhones", "nzbget", {"deleteFailed", "forceClean"}>>}

NzbSettings == {[section |-> i[1], client |-> i[2],
                 extract |-> "extract" \in i[3], noExtractFailed |-> "noExtractFailed" \in i[3],
                 checkMedia |-> "checkMedia" \in i[3], byDestination |-> "byDestination" \in i[3],
                 processMethod |-> "processMethod" \in i[3], requireLan |-> "requireLan" \in i[3],
                 deleteFailed |-> "deleteFailed" \in i[3], forceClean |-> "forceClean" \in i[3]] :
                i \in Installed}
=============================================================================
