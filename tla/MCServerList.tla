---------------------------- MODULE MCServerList ----------------------------
(* An instance of ServerList for TLC.                                      *)
EXTENDS ServerList

MCFiles == 1..3
MCLists == {{1, 2}, {2, 3}}
MCRtts == {1}
MCPatterns == {MCFiles, {2}}
=============================================================================
