---------------------------- MODULE StepEvidence ----------------------------
(***************************************************************************)
(* react_loop.py: the evidence the loop keeps for every node of the plan   *)
(* (class StepEvidence, _step_evidence), composed with ReActLoop: every    *)
(* action is one of the loop with what it does to the evidence.  A turn    *)
(* writes and reads files; its verification merges them into the bucket of *)
(* the step and of every branch above; a replan discards and rebuilds.     *)
(*                                                                         *)
(* One uninterrupted run: a human's resolutions are in ReActLoop only, and *)
(* so is the replan of a node that one of them dropped.  Commands go the   *)
(* way of written files and are left out, as is the bucket of the root,    *)
(* which nothing reads.                                                    *)
(***************************************************************************)
EXTENDS ReActLoop

CONSTANT Files

VARIABLES
    written,      \* StepEvidence.files_written of each node
    read,         \* StepEvidence.files_read of each node
    recorded,     \* _files_read_recorded
    filesRead,    \* files_read, the local of _execute
    turnWrites,   \* files_written_this_turn
    attempt       \* history: the files written by verified turns of a node
                  \* since it was last replanned

evidenceVars == <<written, read, recorded, filesRead, turnWrites, attempt>>
ledgerVars   == <<vars, evidenceVars>>

\* A path is not in files_written, is in it with existed_before, or without:
\* in the order in which merge_turn lets the later entry win.
Untouched == 0
Edited    == 1
Created   == 2
Writes    == [Files -> Untouched .. Created]
NoWrites  == [f \in Files |-> Untouched]

LedgerTypeOK ==
    /\ written \in [Nodes -> Writes]
    /\ read \in [Nodes -> SUBSET Files]
    /\ recorded \subseteq Files /\ filesRead \subseteq Files
    /\ turnWrites \in Writes
    /\ attempt \in [Nodes -> SUBSET Files]

\* files_written of several buckets merged.
Merged(writes) == [f \in Files |-> Max({w[f] : w \in writes} \cup {Untouched})]

\* Slip: the entries add up.
MergeTurnAdds(old, new) == [f \in Files |-> old[f] + new[f]]

\* Slip: the turn's entry replaces the earlier one.
MergeTurnLast(old, new) == [f \in Files |-> IF new[f] # Untouched THEN new[f] ELSE old[f]]

\* merge_turn
MergeTurn(old, new) == Merged({old, new})

EvidenceInit ==
    /\ written = [n \in Nodes |-> NoWrites]
    /\ read = [n \in Nodes |-> {}]
    /\ recorded = {}
    /\ filesRead = {}
    /\ turnWrites = NoWrites
    /\ attempt = [n \in Nodes |-> {}]

-----------------------------------------------------------------------------
(* The turn's tools.                                                       *)

kept == <<written, read, recorded, attempt>>

\* Files read or written come to be known; only a turn that goes on to be
\* verified tells what it wrote.
ToolsReport == /\ \E seen \in SUBSET Files : filesRead' = filesRead \cup seen
               /\ turnWrites' \in Writes
               /\ UNCHANGED kept
ToolsLose   == /\ \E seen \in SUBSET Files : filesRead' = filesRead \cup seen
               /\ UNCHANGED <<kept, turnWrites>>

-----------------------------------------------------------------------------
(* _verify_and_mark_step(n): the turn's evidence goes to n and upwards.     *)

\* Slip: to the containing branch only.
CreditedNear(n) == {n} \cup {m \in Ancestors(plan, n) : n \in Children(plan, m)}

Credited(n) == {n} \cup Ancestors(plan, n)

\* Slip: what was recorded is not remembered.
MergeForgetful(n) ==
    LET fresh == filesRead \ recorded
    IN  /\ written' = [m \in Nodes |-> IF m \in Credited(n) THEN MergeTurn(written[m], turnWrites)
                                       ELSE written[m]]
        /\ read' = [m \in Nodes |-> IF m \in Credited(n) THEN read[m] \cup fresh ELSE read[m]]
        /\ attempt' = [attempt EXCEPT ![n] = @ \cup {f \in Files : turnWrites[f] # Untouched}]
        /\ turnWrites' = NoWrites
        /\ UNCHANGED <<filesRead, recorded>>

Merge(n) ==
    LET fresh == filesRead \ recorded
    IN  /\ written' = [m \in Nodes |-> IF m \in Credited(n) THEN MergeTurn(written[m], turnWrites)
                                       ELSE written[m]]
        /\ read' = [m \in Nodes |-> IF m \in Credited(n) THEN read[m] \cup fresh ELSE read[m]]
        /\ recorded' = recorded \cup filesRead
        /\ attempt' = [attempt EXCEPT ![n] = @ \cup {f \in Files : turnWrites[f] # Untouched}]
        /\ turnWrites' = NoWrites
        /\ UNCHANGED filesRead

-----------------------------------------------------------------------------
(* A replan of n.                                                          *)

\* _discard_subtree_evidence: the nodes whose buckets are emptied.
Discarded(n) == Subtree(plan, n)

\* What _rebuild_ancestor_evidence(n) collects for the ancestor a.
Collected(n, a) == Subtree(plan, a) \ ({a} \cup Ancestors(plan, n) \cup Discarded(n))

\* Slip: the ancestors keep what they have.
RebuiltNever(n) ==
    /\ written' = [m \in Nodes |-> IF m \in Discarded(n) THEN NoWrites ELSE written[m]]
    /\ read' = [m \in Nodes |-> IF m \in Discarded(n) THEN {} ELSE read[m]]

\* Discard, then rebuild: reads are not collected.
Rebuilt(n) ==
    /\ written' = [m \in Nodes |->
                      IF m \in Discarded(n) THEN NoWrites
                      ELSE IF m \in Ancestors(plan, n)
                           THEN Merged({written[k] : k \in Collected(n, m)})
                           ELSE written[m]]
    /\ read' = [m \in Nodes |-> IF m \in Discarded(n) \cup Ancestors(plan, n) THEN {}
                                ELSE read[m]]

ReplanEvidence(n) ==
    /\ Rebuilt(n)
    /\ attempt' = [m \in Nodes |-> IF m \in Subtree(plan, n) THEN {} ELSE attempt[m]]
    /\ UNCHANGED <<recorded, filesRead, turnWrites>>

\* update_plan drops nodes and touches no bucket: a step that goes on under a
\* claimed id keeps its bucket, all that was ever done below it included.
UpdateEvidence ==
    /\ written' = [m \in Nodes |-> IF m \in Ids(plan') THEN written[m] ELSE NoWrites]
    /\ read' = [m \in Nodes |-> IF m \in Ids(plan') THEN read[m] ELSE {}]
    /\ attempt' = [m \in Nodes |->
                      IF m \notin Ids(plan') THEN {}
                      ELSE IF IsLeaf(plan', m) /\ m \in Ids(plan)
                           THEN UNION {attempt[k] : k \in Subtree(plan, m)}
                           ELSE attempt[m]]
    /\ UNCHANGED <<recorded, filesRead, turnWrites>>

-----------------------------------------------------------------------------

\* The actions of the loop that leave the evidence alone.
Elsewhere ==
    \/ Review \/ StartTurn \/ ExpandCheckpoint \/ OutOfSteps \/ BackendFails
    \/ ParseError \/ AutoFinish \/ FinishComplete \/ FinishRequest
    \/ \E b \in Nodes : RollupRejects(b) \/ RollupPasses(b) \/ CheckpointPasses(b)
    \/ TurnDone \/ FinishPhrase \/ DeferredFinish \/ AskedSettled \/ FinishAccepted
    \/ PlannerRaises \/ Escalate \/ EscalateRun \/ Done

LedgerNext ==
    \/ Elsewhere /\ UNCHANGED evidenceVars
    \/ (ToolsSucceed(TRUE) \/ ToolsSucceed(FALSE)) /\ ToolsReport
    \/ (ToolsFail \/ MutationGuard \/ PlainReasoning) /\ ToolsLose
    \/ VerifyNothing /\ turnWrites' = NoWrites /\ UNCHANGED <<kept, filesRead>>
    \/ (StepDone \/ StepNotDone) /\ Merge(turn.leaf)
    \/ \E n \in Nodes : (AskedDone(n) \/ AskedNotDone(n)) /\ Merge(n)
    \/ \E n \in Nodes : ReplanSubtree(n) /\ ReplanEvidence(n)
    \/ ReplanAll /\ UpdateEvidence

LedgerSpec == Init /\ EvidenceInit /\ [][LedgerNext]_ledgerVars

-----------------------------------------------------------------------------

\* A branch knows of every file written below it, through every splice, replan
\* and rebuild: its rollup is judged on these files.
WritesReachBranches ==
    \A n \in Ids(plan) : \A b \in Ancestors(plan, n) : \A f \in Files :
        written[n][f] <= written[b][f]

\* No entry of a discarded attempt survives in a bucket: what a node knows was
\* written by the present attempt of a node still below it, or by its own.
NoStaleWrites ==
    \A n \in Ids(plan), f \in Files :
        written[n][f] # Untouched => \E m \in Subtree(plan, n) : f \in attempt[m]

\* A read is news once: of two nodes neither of which is above the other at
\* most one is credited with it.
ReadsCreditedOnce ==
    \A m, n \in Ids(plan) :
        read[m] \cap read[n] # {} => m \in Credited(n) \/ n \in Credited(m)

\* Once a step is seen to have created a file, later rewrites do not erase it;
\* only a replan does.
CreationSticks ==
    [][\A n \in Ids(plan) \cap Ids(plan'), f \in Files :
          written[n][f] = Created => written'[n][f] = Created \/ phase = "replan"]_ledgerVars
=============================================================================
