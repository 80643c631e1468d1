---------------------------- MODULE RetryManager ----------------------------
(***************************************************************************)
(* chef_human/agent/retry.py: retry and replan pressure per plan node.     *)
(* RETRY and PARTIAL_SUCCESS are one verdict here: the loop does nothing    *)
(* on either.  consecutive_failures is only ever compared with the limit,  *)
(* so the model lets it saturate there.                                    *)
(***************************************************************************)
EXTENDS Naturals

CONSTANTS
    Charged,      \* the ids pressure is kept for: the nodes and "__root__"
    MaxRetries,   \* max_retries_per_step
    MaxReplans    \* max_replans

ASSUME RetryAssumption == MaxRetries \in Nat \ {0} /\ MaxReplans \in Nat

VARIABLES
    failures,     \* consecutive_failures of each id
    replans       \* replan_count of each id

RetryInit == /\ failures = [n \in Charged |-> 0]
             /\ replans  = [n \in Charged |-> 0]

Exhausted(n) == failures[n] + 1 >= MaxRetries

\* Slip: one replan too many.
LateVerdict(n) ==
    IF ~Exhausted(n) THEN "retry"
    ELSE IF replans[n] > MaxReplans THEN "escalate" ELSE "replan"

\* The RetryAction that record_iteration returns for a failed turn of n.
FailureVerdict(n) ==
    IF ~Exhausted(n) THEN "retry"
    ELSE IF replans[n] >= MaxReplans THEN "escalate" ELSE "replan"

\* The counters after record_iteration(n) of a clean or of a failed turn.
Recorded(n, failed) ==
    [failures EXCEPT ![n] = IF ~failed THEN 0
                            ELSE IF Exhausted(n) THEN MaxRetries ELSE @ + 1]

\* The counters after on_replan(n).
Replanned(n)  == [replans EXCEPT ![n] = @ + 1]
Relieved(n)   == [failures EXCEPT ![n] = 0]
=============================================================================
