---------------------------- MODULE ObjectGraph ----------------------------
(***************************************************************************)
(* The graph of a file's objects (model.rs): an arena of nodes, whose      *)
(* groups hold named links, and the resolution of a path inside the file.  *)
(***************************************************************************)
EXTENDS Integers, Sequences, FiniteSets, SequencesExt

CONSTANTS
    Dot,      \* the component "."
    MaxHops   \* bound: components walked before a walk counts as endless

ASSUME HopAssumption == MaxHops \in Nat

None == 0
Root == 1
Diverged == -1

Hard(id) == [kind |-> "Hard", obj |-> id, path |-> <<>>]
Soft(p) == [kind |-> "Soft", obj |-> None, path |-> p]

Find(ls, name) == SelectInSeq(ls, LAMBDA l : l.name = name)

IsGroup(objs, id) == id \in DOMAIN objs /\ objs[id].kind = "Group"

(* One component of a walk.  A soft link's target is resolved from the     *)
(* root and the walk goes on from there: the target goes in front of what  *)
(* is left.                                                                *)
Hop(objs, w) ==
    IF w.rest = <<>> \/ w.at = None THEN w
    ELSE IF Head(w.rest) = Dot THEN [w EXCEPT !.rest = Tail(@)]
    ELSE LET i == IF IsGroup(objs, w.at)
                  THEN Find(objs[w.at].links, <<Head(w.rest)>>) ELSE 0
         IN  IF i = 0 THEN [w EXCEPT !.at = None]
             ELSE LET t == objs[w.at].links[i].target
                  IN  CASE t.kind = "Hard" -> [at |-> t.obj, rest |-> Tail(w.rest)]
                        [] t.kind = "Soft" -> [at |-> Root, rest |-> t.path \o Tail(w.rest)]
                        [] t.kind = "External" -> [w EXCEPT !.at = None]

(* FileState::resolve: an id, None, or Diverged when the recursion on soft *)
(* links has no end (the code has no depth limit here).                    *)
Resolve(objs, start, p) ==
    LET Walk[n \in 0..MaxHops] ==   \* the one place the walk is in after n hops
            IF n = 0 THEN {[at |-> IF p.abs THEN Root ELSE start, rest |-> p.comps]}
            ELSE {Hop(objs, w) : w \in Walk[n - 1]}
        end == CHOOSE w \in Walk[MaxHops] : TRUE
    IN  IF end.at = None \/ end.rest = <<>> THEN end.at ELSE Diverged
=============================================================================
