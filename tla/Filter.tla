-------------------------------- MODULE Filter --------------------------------
(***************************************************************************)
(* What a filter lets through as a whole: the definition that the processes *)
(* of ThreeSons and CatGrep, who filter line by line, are compared with.    *)
(***************************************************************************)
EXTENDS Naturals, Sequences

\* The lines of s that are in W, in their order.
Chosen(s, W) ==
  LET upTo[i \in 0..Len(s)] ==
        IF i = 0 THEN <<>>
        ELSE IF s[i] \in W THEN Append(upTo[i - 1], s[i]) ELSE upTo[i - 1]
  IN upTo[Len(s)]
=============================================================================
