--------------------------- MODULE MCStepEvidence ---------------------------
(***************************************************************************)
(* A small instance of StepEvidence for TLC: a branch of two leaves, a     *)
(* branch in a branch, a checkpoint; one file.                             *)
(***************************************************************************)
EXTENDS StepEvidence

P1 == [depth |-> 1, kind |-> "plain"]
P2 == [depth |-> 2, kind |-> "plain"]
P3 == [depth |-> 3, kind |-> "plain"]
C1 == [depth |-> 1, kind |-> "checkpoint"]

MCForests == {<<>>, <<P1>>, <<C1, P1>>}
MCInitialForests == {<<P1, P2, P2>>, <<P1, P2, P3>>, <<C1, P1>>}
=============================================================================
