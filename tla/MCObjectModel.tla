--------------------------- MODULE MCObjectModel ---------------------------
(* Instances of ObjectModel for TLC. *)
EXTENDS ObjectModel

CONSTANTS a, b, t1, t2

Rel(s) == [abs |-> FALSE, comps |-> s]
Abs(s) == [abs |-> TRUE, comps |-> s]

MCName == {a, b}
MCThread == {t1, t2}
MCSoftPaths == {<<a>>, <<a, b>>}
RelPaths == {Rel(<<>>), Rel(<<a>>)}
OnePaths == {Rel(<<a>>), Rel(<<b>>)}
Threads1 == {t1}
Symmetry == Permutations(MCThread)
MixedPaths == {Rel(<<a>>), Rel(<<a, b>>), Abs(<<b>>)}
OneSoft == {<<a>>}
NoPaths == {}
=============================================================================
