------------------------------ MODULE AgentRun ------------------------------
(***************************************************************************)
(* What ReActLoop.run() promises its caller, without a plan, retries or a  *)
(* model: a run spends turns from a fixed budget, sees from time to time   *)
(* whether anything of its plan is unresolved, claims success only while   *)
(* nothing is, and ends.                                                   *)
(***************************************************************************)
EXTENDS Naturals

CONSTANT Budget   \* ReActConfig.max_steps

VARIABLES
    outcome,      \* "running", or AgentResult: success, failure; or raised
    spent,        \* turns spent
    resolved      \* is nothing of the plan unresolved?

vars == <<outcome, spent, resolved>>

Init == outcome = "running" /\ spent = 0 /\ resolved \in BOOLEAN

Work == /\ outcome = "running"
        /\ spent' \in {spent, spent + 1} /\ spent' <= Budget
        /\ resolved' \in BOOLEAN
        /\ UNCHANGED outcome

Succeed == /\ outcome = "running" /\ resolved
           /\ outcome' = "success"
           /\ UNCHANGED <<spent, resolved>>

GiveUp == /\ outcome = "running"
          /\ outcome' \in {"failure", "raised"}
          /\ UNCHANGED <<spent, resolved>>

Next == Work \/ Succeed \/ GiveUp

Spec == Init /\ [][Next]_vars

FairSpec == Spec /\ WF_vars(Succeed \/ GiveUp)
=============================================================================
