-------------------------- MODULE MCCollectiveFile --------------------------
(* Instances of CollectiveFile for TLC. *)
EXTENDS CollectiveFile

Orderlies ==
    {<<"init", "create", "dataset", "resize", "write", "barrier", "write", "close",
       "open", "rename", "write", "close">>,
     <<"init", "allgather", "bcast", "gather", "barrier", "allgather">>,
     <<"init", "prepare", "open", "recreate", "write", "close", "open">>,
     <<"init", "open", "write", "close">>}

Renames == {<<"init", "create", "dataset", "write", "rename", "close">>}
Resizes == {<<"init", "create", "dataset", "write", "resize", "close">>}
MCScripts == Orderlies \cup Renames
=============================================================================
