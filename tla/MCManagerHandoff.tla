-------------------------- MODULE MCManagerHandoff --------------------------
(* ManagerHandoff on a download of two media files and one other file, of *)
(* which one media file or the other file may be ignored when cleaning.   *)
EXTENDS ManagerHandoff

CONSTANTS m1, m2, e1

MCMedia == {m1, m2}
MCExtras == {e1}

\* Only Radarr reads no_status_check; cleaning is left to the torrents.
AllConfigs == {c \in Settings : /\ c.noStatusCheck => c.section = "Radarr"
                                /\ c.ignored \in {{}, {m2}, {e1}}
                                /\ c.deleteIgnored => c.ignored # {}
                                /\ c.forceClean \/ c.ignored # {} => c.caller = "torrent"}
SonarrTorrents == {c \in AllConfigs : c.section = "NzbDrone" /\ c.caller = "torrent"}
=============================================================================
