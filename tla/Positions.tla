----------------------------- MODULE Positions -----------------------------
(***************************************************************************)
(* A part of a sequence, by the positions it is made of: what a Python     *)
(* comprehension with a condition returns.  And the fold of a sequence, as *)
(* a loop over it computes it.                                             *)
(***************************************************************************)
EXTENDS Naturals, Sequences, FiniteSets

\* The elements of s at the positions I, in their order.
Picked(s, I) ==
    [k \in 1..Cardinality(I) |-> s[CHOOSE i \in I : Cardinality({j \in I : j <= i}) = k]]

\* The fold of a sequence from the left.  As FoldLeft, with the accumulator
\* evaluated once at each step.
Scan(Op(_, _), base, seq) ==
    LET upTo[i \in 0..Len(seq)] == IF i = 0 THEN base
                                   ELSE LET acc == upTo[i - 1] IN Op(acc, seq[i])
    IN  upTo[Len(seq)]
=============================================================================
