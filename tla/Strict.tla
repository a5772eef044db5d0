------------------------------- MODULE Strict -------------------------------
(***************************************************************************)
(* Values that TLC computes once, where a LET would be computed at every   *)
(* use of it.                                                              *)
(***************************************************************************)
EXTENDS Integers, Sequences

(* Op of a value. *)
Of(value, Op(_)) == CHOOSE result \in {Op(v) : v \in {value}} : TRUE

(* FoldLeft *)
Accumulated(Op(_, _), base, s) ==
    LET After[i \in 0 .. Len(s)] ==
            IF i = 0 THEN base ELSE Of(After[i - 1], LAMBDA acc : Op(acc, s[i]))
    IN  After[Len(s)]
=============================================================================
