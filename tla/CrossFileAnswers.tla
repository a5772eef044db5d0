-------------------------- MODULE CrossFileAnswers --------------------------
(***************************************************************************)
(* What a path means in a state that does not change, by recursion over    *)
(* the path and over the nesting of virtual sources; and that the calls of *)
(* CrossFile return it.                                                    *)
(***************************************************************************)
EXTENDS CrossFile

RECURSIVE Parsed(_, _, _)

(* The arena a file is parsed into, in which every virtual dataset has the *)
(* value of its source; none if the file, or one of the sources, is not    *)
(* there.                                                                  *)
Parsed(name, inDir, depth) ==
    LET image == disk[name]
        pending == PendingVds(image)
        names == {image[i].source.file : i \in pending} \ {Here}
        others == {[f \in names |-> CHOOSE arena \in Parsed(f, inDir, depth + 1) : TRUE] :
                     x \in IF \A f \in names : Parsed(f, inDir, depth + 1) # {} THEN {1} ELSE {}}
        Source(i, other) ==
            SourceIn(IF image[i].source.file = Here THEN image ELSE other[image[i].source.file],
                     image[i].source.path)
        Value(other) ==
            LET v[i \in DOMAIN image] ==
                  IF i \notin pending THEN image[i].value
                  ELSE IF image[i].source.file # Here
                       THEN other[image[i].source.file][Source(i, other)].value
                  ELSE IF Source(i, other) \in pending /\ Source(i, other) >= i THEN Fill
                  ELSE v[Source(i, other)]
            IN  v
    IN  IF image = Absent \/ depth > MaxParseDepth \/ (names # {} /\ ~(inDir \/ located))
        THEN {}
        ELSE {[i \in DOMAIN image |-> [image[i] EXCEPT !.value = Value(other)[i]]] :
                other \in {o \in others : \A i \in pending : Source(i, o) # None}}

(* The file an external link of the file "from" names, at its root.        *)
Named(from, name) ==
    IF from # None /\ name \in DOMAIN files[from].externals
    THEN LET f == files[from].externals[name]
         IN  {[arena |-> files[f].arena, file |-> f, at |-> Root]}
    ELSE {[arena |-> arena, file |-> None, at |-> Root] : arena \in Parsed(name, FALSE, 0)}

RECURSIVE Denoted(_, _, _)

(* What a link leads to. *)
Via(loc, target, depth) ==
    CASE target.kind = "Hard" -> {[loc EXCEPT !.at = target.obj]}
      [] target.kind = "Soft" -> Denoted([loc EXCEPT !.at = Root], target.path, depth + 1)
      [] target.kind = "External" ->
           UNION {Denoted(f, target.path, depth + 1) : f \in Named(loc.file, target.file)}

(* The object a path denotes, seen from an object of some file, if any.    *)
Denoted(loc, path, depth) ==
    IF depth > MaxLinkDepth THEN {}
    ELSE IF path = <<>> THEN {loc}
    ELSE IF Head(path) = Dot THEN Denoted(loc, Tail(path), depth)
    ELSE IF ~IsGroup(loc.arena, loc.at) THEN {}
    ELSE UNION {Denoted(next, Tail(path), depth) :
                  next \in UNION {Via(loc, l.target, depth) :
                     l \in {l \in ToSet(loc.arena[loc.at].links) : l.name = <<Head(path)>>}}}

(* What the last call of a thread asked for.                               *)
Answer(t) ==
    LET q == asked[t]
    IN  IF q.from = Nowhere
        THEN {[arena |-> arena, at |-> Root] : arena \in Parsed(MainFile, TRUE, 0)}
        ELSE {[arena |-> d.arena, at |-> d.at] :
                d \in {d \in Denoted([arena |-> files[q.from.file].arena, file |-> q.from.file,
                                      at |-> IF q.path.abs THEN Root ELSE q.from.at],
                                     q.path.comps, 0) :
                         d.arena[d.at].kind # "Unsupported"}}

(* A call during which nobody changes a link or a file returns the object  *)
(* that the path denotes: across files, through the caches, with virtual   *)
(* datasets filled from their sources, and an error when there is none or  *)
(* it is too deep.  Other threads may open files all the while.            *)
QuietCallsExact ==
    \A t \in Thread :
      quiet[t] /\ stack[t] = <<>> =>
        Answer(t) = {[arena |-> files[h.file].arena, at |-> h.at] : h \in {held[t]} \ {Nowhere}}
=============================================================================
