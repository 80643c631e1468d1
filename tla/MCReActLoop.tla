---------------------------- MODULE MCReActLoop ----------------------------
(***************************************************************************)
(* Small instances of ReActLoop for TLC: the shapes of plan a generation,  *)
(* a replan, an expansion or a continuation may answer.                    *)
(***************************************************************************)
EXTENDS ReActLoop

P1 == [depth |-> 1, kind |-> "plain"]
P2 == [depth |-> 2, kind |-> "plain"]
C1 == [depth |-> 1, kind |-> "checkpoint"]

\* Nothing (an empty answer), a step, a lone checkpoint, a checkpoint with work
\* after it, a branch.
MCForests == {<<>>, <<P1>>, <<C1>>, <<C1, P1>>, <<P1, P2>>}

\* A branch of two leaves, of which the review before execution makes the others: two
\* levels of branches, a checkpoint in a branch, a leaf.
MCInitialForests == {<<P1, P2, P2>>}

\* For the resumed runs: leaves and checkpoints only, of which a human's answer, a
\* replan or an expansion makes branches.
ResumeForests == {<<>>, <<P1>>, <<C1>>}
ResumeInitialForests == {<<P1>>}
=============================================================================
