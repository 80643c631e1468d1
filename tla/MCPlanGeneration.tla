-------------------------- MODULE MCPlanGeneration --------------------------
(* The instance of PlanGeneration that TLC checks. *)
EXTENDS PlanGeneration

\* At most two nodes below the root are broken down; the tree does not grow much
\* larger, and what an operation does to the others shows on these.
FewBrokenDown == Cardinality(given.asked) <= 3
=============================================================================
