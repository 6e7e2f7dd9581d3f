--------------------------- MODULE MCScanPipeline ---------------------------
(* Two directories, one inside the other and both among the paths, so that *)
(* its file is found twice; a file with a result, one without, and one     *)
(* whose extension nobody knows.                                           *)
EXTENDS ScanPipeline, TLC

CONSTANTS music, album, song, broken, readme

MCDir == {music, album}
MCFile == {song, broken, readme}
MCRoots == <<music, album>>
MCFiles == (music :> <<readme, broken>>) @@ (album :> <<song>>)
MCSubdirs == (music :> <<album>>) @@ (album :> <<>>)
MCFlagSets == {{}, {"MS_FULL_SCAN"}, {"MS_RESCAN"}, {"MS_RESCAN", "MS_CLEARDB"}}
=============================================================================
