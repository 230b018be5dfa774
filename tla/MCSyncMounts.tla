---------------------------- MODULE MCSyncMounts ----------------------------
(* A small tree: a project with two directories, one of them with another   *)
(* one in it, and a file in each.                                           *)
EXTENDS SyncMounts, TLC

MCDirs == {<<>>, <<"a">>, <<"a", "b">>, <<"c">>}
MCFiles == {<<"x">>, <<"a", "f">>, <<"a", "g">>, <<"a", "b", "h">>, <<"c", "k">>}

=============================================================================
