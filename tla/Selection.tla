------------------------------ MODULE Selection -----------------------------
(***************************************************************************)
(* The elements of a sequence that belong to a set, in their order: the    *)
(* messages of a topic that a reader reacts to, the rows of a log that     *)
(* concern it.                                                             *)
(***************************************************************************)
EXTENDS Naturals, Sequences

Selected(q, S) ==
    LET upTo[i \in 0 .. Len(q)] ==
            IF i = 0 THEN <<>>
            ELSE IF q[i] \in S THEN Append(upTo[i - 1], q[i])
            ELSE upTo[i - 1]
    IN  upTo[Len(q)]
=============================================================================
