----------------------------- MODULE MCContext -----------------------------
(* The instance of Context that TLC checks. *)
EXTENDS Context

CONSTANTS f1, f2, small, large

MCCost == (small :> 1) @@ (large :> 2)

\* Nothing tells one file from another.
FileSymmetry == Permutations(Files)
=============================================================================
