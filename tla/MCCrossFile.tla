---------------------------- MODULE MCCrossFile ----------------------------
(* Instances of CrossFile for TLC. *)
EXTENDS CrossFileAnswers, TLC

CONSTANTS a, b, here, x, y, n

Group(links) == [kind |-> "Group", links |-> links, source |-> NotVirtual, value |-> 0]
Plain(v) == [kind |-> "Dataset", links |-> <<>>, source |-> NotVirtual, value |-> v]
FilledFrom(f, p) ==
    [kind |-> "Dataset", links |-> <<>>, source |-> [file |-> f, path |-> p], value |-> 0]
Unknown == [kind |-> "Unsupported", links |-> <<>>, source |-> NotVirtual, value |-> 0]
To(c, target) == [name |-> <<c>>, target |-> target]
External(f, p) == [kind |-> "External", file |-> f, path |-> p]

MCPaths == {[abs |-> TRUE, comps |-> <<x, y>>], [abs |-> FALSE, comps |-> <<Dot, y>>],
            [abs |-> FALSE, comps |-> <<n>>]}
MCTargets == {Soft(<<y>>), External(b, <<x>>)}

(* The main file: soft links to themselves, to an external link, into a    *)
(* group; an external link back to the file; a virtual dataset.            *)
Main(t) == <<Group(<<To(x, Hard(2)), To(y, t)>>), Group(<<To(y, Hard(3))>>), Plain(1)>>
Linked == <<Group(<<To(x, External(b, <<y>>)), To(y, Hard(2))>>), Plain(1)>>
Filled == <<Group(<<To(x, External(b, <<y>>)), To(y, Hard(2))>>), FilledFrom(b, <<x>>)>>
(* The other file. *)
Back(t) == <<Group(<<To(x, Hard(2)), To(y, t)>>), Plain(2)>>
Sources(v, w) == <<Group(<<To(x, Hard(2)), To(y, Hard(3))>>), v, w>>

SomeWorlds(disks, where) == {[disk |-> d, located |-> l] : d \in disks, l \in where}

In(main, other) == [f \in {a, b} |-> IF f = a THEN main ELSE other]
MCWorlds ==
    SomeWorlds({In(Main(t), Absent) : t \in {Soft(<<y>>), Soft(<<x, y>>), Soft(<<Dot>>)}}
               \cup {In(Linked, v) : v \in {Back(External(a, <<x>>)), Back(External(a, <<y>>)),
                                           Back(Soft(<<x>>)), Sources(Plain(3), Unknown)}}
               \cup {In(Main(External(b, <<>>)), Back(Soft(<<x>>)))},
               {TRUE})
    \cup SomeWorlds({In(Linked, Sources(FilledFrom(here, <<y>>), FilledFrom(a, <<y>>)))}
               \cup {In(Filled, v) : v \in {Sources(Plain(3), FilledFrom(here, <<x>>)),
                                           Sources(FilledFrom(a, <<y>>), Plain(3)),
                                           Sources(FilledFrom(here, <<y>>), FilledFrom(here, <<x>>))}},
               BOOLEAN)
MCImages == (a :> {}) @@ (b :> {Absent, Back(Soft(<<x>>))})
=============================================================================
