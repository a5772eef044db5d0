-------------------------- MODULE MCFileLifecycle --------------------------
(* Instances of FileLifecycle for TLC. *)
EXTENDS FileLifecycle, TLC

CONSTANTS o1, o2, e1, e2

MCOwner == {o1, o2}
MCEdit == {e1, e2}
Symmetry == Permutations(MCOwner) \cup Permutations(MCEdit)
AllModes == {"Read", "ReadWrite", "Create", "CreateExcl", "Append"}
=============================================================================
