------------------------------ MODULE Selection ------------------------------
(* The elements of a sequence that lie in a set, in their order: SelectSeq as *)
(* a recursive function, which the provers can expand.                        *)
EXTENDS Naturals, Sequences

Selected(s, S) ==
  LET upTo[n \in 0..Len(s)] ==
        IF n = 0 THEN << >>
        ELSE IF s[n] \in S THEN Append(upTo[n - 1], s[n]) ELSE upTo[n - 1]
  IN  upTo[Len(s)]
==============================================================================
