------------------------------ MODULE Selection ------------------------------
(***************************************************************************)
(* The elements of a sequence that belong to a set, in their order.  The   *)
(* histories of both halves of a connection are compared through it.       *)
(***************************************************************************)
EXTENDS Naturals, Sequences

Selected(s, T) ==
    LET upTo[i \in 0 .. Len(s)] ==
            IF i = 0 THEN <<>>
            ELSE IF s[i] \in T THEN Append(upTo[i - 1], s[i])
            ELSE upTo[i - 1]
    IN  upTo[Len(s)]
=============================================================================
