---------------------------- MODULE MCContainer ----------------------------
(* Instances of Container for TLC. *)
EXTENDS Container, TLC

CONSTANTS wt, rd, v1, v2, z

MCValue == {v1}
MCShapes == {<<1, 2>>, <<2, 1>>, <<2, 2>>}
MCRegions == {{<<0, 0>>}, {<<0, 1>>}, {<<1, 0>>}}

OneWriter ==
    (wt :> {"read", "write", "write_raw", "slice", "resize", "create", "create_with"})
    @@ (rd :> {"read", "create", "create_with"})
=============================================================================
