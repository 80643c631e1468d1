------------------------------ MODULE ReActLoop ------------------------------
(***************************************************************************)
(* chef_human/agent/react_loop.py: the loop that works a plan off.  One    *)
(* coroutine runs it; an action here is the code between two awaits on the *)
(* language model, whose answer (a reply, a verdict, a plan, or an error)  *)
(* is a nondeterministic choice.  "phase" names the await the coroutine is *)
(* at; after the run a human may resolve an escalation and resume it.      *)
(*                                                                         *)
(*   review -> turn -> reply -> verify -> rollup -> turn     (a clean turn)*)
(*                       |         |         |                             *)
(*                       +---------+---------+--> replan | escalate -> turn*)
(*                       +--> finish <-> rollup  (a finish request)        *)
(***************************************************************************)
EXTENDS PlanTree, RetryManager

CONSTANTS
    InitialForests,  \* what generate_plan may answer
    MaxSteps,        \* ReActConfig.max_steps
    WidenLimit,      \* _SUBTREE_REPLAN_STREAK_LIMIT
    ChainLimit,      \* _CHECKPOINT_CHAIN_STREAK_LIMIT
    BareFinish,      \* may the model ask to finish with work unresolved and
                     \* no other call in the turn?
    MaxReviews,      \* _MAX_PLAN_REVIEW_ITERATIONS
    MaxResumes       \* bound: how often a human resumes a finished run

ASSUME LoopAssumption ==
    /\ InitialForests \subseteq Seq(Shoot)
    /\ \A f \in InitialForests : Shaped(f) /\ DOMAIN f \subseteq Nodes
    /\ Charged = Nodes \cup {Root}
    /\ {MaxSteps, WidenLimit, ChainLimit} \subseteq Nat \ {0}
    /\ {MaxReviews, MaxResumes} \subseteq Nat
    /\ BareFinish \in BOOLEAN

VARIABLES
    plan,           \* the live plan (PlanTree)
    subtreeStreak,  \* _subtree_replan_streak
    chainStreak,    \* _checkpoint_chain_streak
    lastFailed,     \* _last_failed_node
    orphanOf,       \* its parent, once a redecompose dropped it from the plan:
                    \* a node of the plan, or NoNode if the parent went too
    escalated,      \* node ids of _escalations
    phase,          \* the await the coroutine is at
    turn,           \* the locals of the turn in progress
    steps,          \* steps_taken
    idle,           \* turns_with_plan_complete_no_finish
    result,         \* "running", or how the run ended
    reviews,        \* iterations of the pre-execution review
    resumes         \* calls of resolve_escalation that resumed the run

retryVars   == <<failures, replans>>
streakVars  == <<subtreeStreak, chainStreak>>
reviewVars  == <<reviews, resumes>>
vars == <<plan, retryVars, streakVars, lastFailed, orphanOf, escalated, phase,
          turn, steps, idle, result, reviewVars>>

Phases  == {"review", "turn", "reply", "verify", "rollup", "finish",
            "replan", "escalate", "done"}
Results == {"running", "success", "failure", "raised"}

\* leaf: the current leaf the turn began with; charge: the id its outcome is
\* charged to; mode: why verification runs; deferred: deferred_finish_call;
\* asked: the unresolved steps a finish request found, left: those of them the
\* verifier has not seen yet.
Turn == [leaf     : Nodes \cup {NoNode},
         charge   : Charged,
         mode     : {"none", "reason", "tools", "finish"},
         deferred : BOOLEAN,
         asked    : SUBSET Nodes,
         left     : SUBSET Nodes]

TurnOf(leaf, charge) == [leaf |-> leaf, charge |-> charge, mode |-> "none",
                         deferred |-> FALSE, asked |-> {}, left |-> {}]
NoTurn == TurnOf(NoNode, Root)

TypeOK ==
    /\ plan \in Seq(PlanNode)
    /\ failures \in [Charged -> 0 .. MaxRetries]
    /\ replans \in [Charged -> Nat]
    /\ subtreeStreak \in [Charged -> Nat]
    /\ chainStreak \in [Charged -> Nat]
    /\ lastFailed \in Nodes \cup {NoNode}
    /\ orphanOf \in Nodes \cup {NoNode}
    /\ escalated \subseteq Nodes
    /\ phase \in Phases
    /\ turn \in Turn
    /\ steps \in 0 .. MaxSteps
    /\ idle \in 0 .. 2
    /\ result \in Results
    /\ reviews \in 0 .. MaxReviews
    /\ resumes \in 0 .. MaxResumes

-----------------------------------------------------------------------------
(* Shared pieces of the handlers.                                          *)

\* _retry_node_id
RetryNode(leaf) == IF leaf # NoNode THEN leaf
                   ELSE IF lastFailed # NoNode THEN lastFailed ELSE Root

\* Ids a new node may take beside the live ones: none that something outside
\* the plan still refers to.
FreeIds(live) == Nodes \ (live \cup escalated
                          \cup {lastFailed, turn.leaf, turn.charge})

\* What is kept about an id that left the plan is never read again: an id that
\* is used anew starts from nothing.
Forget(f, live) == [n \in Charged |-> IF n \in live \cup {Root} THEN f[n] ELSE 0]

\* Ids with a history: the live ones, and a failing node a redecompose dropped.
Counted == {n \in Nodes : \/ failures[n] > 0 \/ replans[n] > 0
                          \/ subtreeStreak[n] > 0 \/ chainStreak[n] > 0}

\* The planner's answers that become the children of n, as [plan, names].
Hung(p, n, forest, ids) ==
    ReplaceChildren(p, n, Grown(forest, ids, Node(p, n).depth))

\* _reset_subtree_replan_streak: every ancestor of n, the root included.
Progressed(n) ==
    [m \in Charged |-> IF m = Root \/ m \in Ancestors(plan, n)
                       THEN 0 ELSE subtreeStreak[m]]

\* _bound_checkpoint_chain(c, answer): does the chain go on, is it cut, and
\* the streaks afterwards, when the answer's steps got the ids "tops".
ChainGoesOn(forest)  == forest # <<>> /\ AllCheckpoints(forest)
ChainCut(c, forest)  == ChainGoesOn(forest) /\ chainStreak[c] + 1 >= ChainLimit
Bounded(c, forest)   == IF ChainCut(c, forest) THEN Plain(forest) ELSE forest
ChainAfter(streak, c, forest, tops) ==
    IF ChainGoesOn(forest) /\ ~ChainCut(c, forest)
    THEN [m \in Charged |-> IF m \in tops \cup {c} THEN chainStreak[c] + 1
                            ELSE streak[m]]
    ELSE [streak EXCEPT ![c] = 0]

TopIds(forest, ids) == {ids[i] : i \in {i \in DOMAIN forest : forest[i].depth = 1}}

Finish(outcome) ==
    /\ phase' = "done"
    /\ result' = outcome
    /\ turn' = NoTurn

\* record_iteration for the turn, and what its verdict makes the loop do.
Judge(failed) ==
    LET verdict == IF failed THEN FailureVerdict(turn.charge) ELSE "step_completed"
    IN  /\ failures' = Recorded(turn.charge, failed)
        /\ UNCHANGED <<replans, result>>
        /\ IF verdict \in {"replan", "escalate"}
           THEN phase' = verdict /\ UNCHANGED turn
           ELSE phase' = "turn" /\ turn' = NoTurn

-----------------------------------------------------------------------------
(* run(): the plan is generated, a human may review it once.               *)

Init ==
    /\ plan \in {Grown(f, [i \in DOMAIN f |-> i], 0) : f \in InitialForests}
    /\ RetryInit
    /\ subtreeStreak = [n \in Charged |-> 0]
    /\ chainStreak = [n \in Charged |-> 0]
    /\ lastFailed = NoNode
    /\ orphanOf = NoNode
    /\ escalated = {}
    /\ phase = "review"
    /\ turn = NoTurn
    /\ steps = 0
    /\ idle = 0
    /\ result = "running"
    /\ reviews = 0
    /\ resumes = 0

unreviewed == <<retryVars, streakVars, lastFailed, orphanOf, escalated, steps, idle, resumes>>

ReviewApprove ==
    /\ phase = "review"
    /\ phase' = "turn"
    /\ UNCHANGED <<plan, turn, result, reviews, unreviewed>>

ReviewReject ==
    /\ phase = "review" /\ reviews < MaxReviews
    /\ Finish("failure")
    /\ UNCHANGED <<plan, reviews, unreviewed>>

\* A reworded description, an unknown node or an unknown action.
ReviewEdit ==
    /\ phase = "review" /\ reviews < MaxReviews
    /\ reviews' = reviews + 1
    /\ UNCHANGED <<plan, phase, turn, result, unreviewed>>

ReviewMarkLeaf(n) ==
    /\ phase = "review" /\ reviews < MaxReviews
    /\ n \in Ids(plan)
    /\ plan' = ReplaceChildren(plan, n, <<>>)
    /\ reviews' = reviews + 1
    /\ UNCHANGED <<phase, turn, result, unreviewed>>

ReviewRedecompose(n) ==
    /\ phase = "review" /\ reviews < MaxReviews
    /\ n \in Ids(plan)
    /\ \E f \in Forests : \E ids \in Names(Len(f), FreeIds(Spared(plan, n)), {}) :
          plan' = Hung(plan, n, f, ids)
    /\ reviews' = reviews + 1
    /\ UNCHANGED <<phase, turn, result, unreviewed>>

-----------------------------------------------------------------------------
(* The top of the loop.                                                    *)

\* Slip: one turn too many.
StartExtraTurn ==
    /\ phase = "turn" /\ steps <= MaxSteps
    /\ CurrentLeaf(plan) # NoNode => ~Unexpanded(plan, CurrentLeaf(plan))
    /\ turn' = TurnOf(CurrentLeaf(plan), RetryNode(CurrentLeaf(plan)))
    /\ phase' = "reply"
    /\ UNCHANGED <<plan, retryVars, streakVars, lastFailed, orphanOf, escalated,
                   steps, idle, result, reviewVars>>

\* The current leaf is worked as it is.
StartTurn ==
    /\ phase = "turn" /\ steps < MaxSteps
    /\ CurrentLeaf(plan) # NoNode => ~Unexpanded(plan, CurrentLeaf(plan))
    /\ turn' = TurnOf(CurrentLeaf(plan), RetryNode(CurrentLeaf(plan)))
    /\ phase' = "reply"
    /\ UNCHANGED <<plan, retryVars, streakVars, lastFailed, orphanOf, escalated,
                   steps, idle, result, reviewVars>>

\* The current leaf is a checkpoint not yet decomposed: decompose it, once,
\* and work whatever leaf is current then.
ExpandCheckpoint ==
    /\ phase = "turn" /\ steps < MaxSteps
    /\ CurrentLeaf(plan) # NoNode
    /\ LET c == CurrentLeaf(plan)
       IN  /\ Unexpanded(plan, c)
           /\ \E f \in Forests :
              \E ids \in Names(Len(f), FreeIds(Ids(plan) \cup Counted), {}) :
                 plan' = Hung(DemoteChildless(plan, c, f), c,
                              DemotePassThrough(f), ids)
    /\ turn' = TurnOf(CurrentLeaf(plan'), RetryNode(CurrentLeaf(plan')))
    /\ phase' = "reply"
    /\ UNCHANGED <<retryVars, streakVars, lastFailed, orphanOf, escalated, steps,
                   idle, result, reviewVars>>

OutOfSteps ==
    /\ phase = "turn" /\ steps = MaxSteps
    /\ Finish("failure")
    /\ UNCHANGED <<plan, retryVars, streakVars, lastFailed, orphanOf, escalated,
                   steps, idle, reviewVars>>

-----------------------------------------------------------------------------
(* The model's reply.                                                      *)

unreplied == <<plan, streakVars, orphanOf, escalated, reviewVars>>

\* _complete_with_retry ran out of attempts, which fails the run; any other
\* error of the backend, or of reading a file before it is changed, leaves run().
BackendFails ==
    /\ phase = "reply"
    /\ \E outcome \in {"failure", "raised"} : Finish(outcome)
    /\ UNCHANGED <<unreplied, retryVars, lastFailed, steps, idle>>

\* A tool call that does not parse.
ParseError ==
    /\ phase = "reply"
    /\ steps' = steps + 1
    /\ Judge(TRUE)
    /\ UNCHANGED <<unreplied, lastFailed, idle>>

\* Prose, while the current step asks for a file to be changed.
MutationGuard ==
    /\ phase = "reply" /\ turn.leaf # NoNode
    /\ lastFailed' = turn.leaf
    /\ steps' = steps + 1
    /\ Judge(TRUE)
    /\ UNCHANGED <<unreplied, idle>>

PlainReasoning ==
    /\ phase = "reply"
    /\ steps' = steps + 1
    /\ phase' = "verify"
    /\ turn' = [turn EXCEPT !.mode = "reason"]
    /\ UNCHANGED <<unreplied, retryVars, lastFailed, idle, result>>

\* Some call failed, was blocked or repeated the last one, or finish was called
\* with no evidence to show; a finish put off in the same turn is refused.
ToolsFail ==
    /\ phase = "reply"
    /\ steps' = steps + 1
    /\ idle' = 0
    /\ Judge(TRUE)
    /\ UNCHANGED <<unreplied, lastFailed>>

\* Every call succeeded: the step is to be verified.  With the plan complete
\* and no finish call, the second such turn in a row ends the run instead.
ToolsSucceed(withFinish) ==
    /\ phase = "reply"
    /\ IsComplete(plan) => ~withFinish /\ idle = 0
    /\ steps' = steps + 1
    /\ idle' = IF IsComplete(plan) THEN 1 ELSE 0
    /\ phase' = "verify"
    /\ turn' = [turn EXCEPT !.mode = "tools", !.deferred = withFinish]
    /\ UNCHANGED <<unreplied, retryVars, lastFailed, result>>

AutoFinish ==
    /\ phase = "reply" /\ IsComplete(plan) /\ idle = 1
    /\ Finish("success")
    /\ idle' = 2
    /\ UNCHANGED <<unreplied, retryVars, lastFailed, steps>>

\* finish is called and nothing is unresolved.
FinishComplete ==
    /\ phase = "reply" /\ IsComplete(plan)
    /\ Finish("success")
    /\ UNCHANGED <<unreplied, retryVars, lastFailed, steps, idle>>

\* finish is called alone with steps unresolved: every one of them, as listed
\* now, goes to the verifier.
FinishRequest ==
    /\ phase = "reply" /\ BareFinish /\ ~IsComplete(plan)
    /\ phase' = "finish"
    /\ turn' = [turn EXCEPT !.mode = "finish", !.asked = Unresolved(plan),
                            !.left = Unresolved(plan)]
    /\ UNCHANGED <<unreplied, retryVars, lastFailed, steps, idle, result>>

-----------------------------------------------------------------------------
(* _verify_and_mark_step of the current leaf.                              *)

unverified == <<orphanOf, escalated, steps, idle, reviewVars>>

\* No leaf is pending: the rollups are tried again.
VerifyNothing ==
    /\ phase = "verify" /\ turn.leaf = NoNode
    /\ phase' = "rollup"
    /\ UNCHANGED <<plan, retryVars, streakVars, lastFailed, turn, result, unverified>>

\* Any verdict but "complete", a guard in front of the verifier or its failure.
StepNotDone ==
    /\ phase = "verify" /\ turn.leaf # NoNode
    /\ lastFailed' = turn.leaf
    /\ Judge(TRUE)
    /\ UNCHANGED <<plan, streakVars, unverified>>

Complete(n) ==
    /\ plan' = SetStatus(plan, n, "completed")
    /\ subtreeStreak' = Progressed(n)

StepDone ==
    /\ phase = "verify" /\ turn.leaf # NoNode
    /\ lastFailed' = turn.leaf
    /\ Complete(turn.leaf)
    /\ phase' = "rollup"
    /\ UNCHANGED <<retryVars, chainStreak, turn, result, unverified>>

-----------------------------------------------------------------------------
(* _process_rollups: one branch after the other, deepest first.            *)

\* A finish request that is turned down is a failed turn.
RejectFinish ==
    /\ steps' = steps + 1
    /\ idle' = 0
    /\ Judge(TRUE)

\* Slip: the branch is not remembered.
RollupRejectsUnnoted(b) ==
    /\ phase = "rollup" /\ FirstReady(plan, b)
    /\ IF turn.mode = "finish" THEN RejectFinish
                               ELSE Judge(TRUE) /\ UNCHANGED <<steps, idle>>
    /\ UNCHANGED <<plan, streakVars, lastFailed, orphanOf, escalated, reviewVars>>

\* Slip: the turn goes on with its step instead of ending.
RollupRejectsAgain(b) ==
    /\ phase = "rollup" /\ FirstReady(plan, b)
    /\ lastFailed' = b
    /\ phase' = "verify"
    /\ UNCHANGED <<plan, retryVars, streakVars, turn, result, unverified>>

\* The branch is not done, or its verifier failed.
RollupRejects(b) ==
    /\ phase = "rollup" /\ FirstReady(plan, b)
    /\ lastFailed' = b
    /\ IF turn.mode = "finish" THEN RejectFinish
                               ELSE Judge(TRUE) /\ UNCHANGED <<steps, idle>>
    /\ UNCHANGED <<plan, streakVars, orphanOf, escalated, reviewVars>>

RollupPasses(b) ==
    /\ phase = "rollup" /\ FirstReady(plan, b)
    /\ ~IsCheckpoint(plan, b)
    /\ Complete(b)
    /\ lastFailed' = NoNode
    /\ UNCHANGED <<retryVars, chainStreak, phase, turn, result, unverified>>

\* A checkpoint passed: what comes next is planned and spliced in after it.
\* "answer" are the steps as planned, "forest" is what classification and
\* further expansion make of them.
CheckpointPasses(c) ==
    /\ phase = "rollup" /\ FirstReady(plan, c)
    /\ IsCheckpoint(plan, c)
    /\ \E answer \in {f \in Forests : Flat(f)}, forest \in Forests :
       \E ids \in Names(Len(forest), FreeIds(Ids(plan) \cup Counted), {}) :
          /\ TopShoots(forest) = DemotePassThrough(Bounded(c, answer))
          /\ plan' = SetStatus(InsertAfter(plan, c, Grown(forest, ids, Node(plan, c).depth - 1)),
                               c, "completed")
          /\ chainStreak' = ChainAfter(chainStreak, c, answer, TopIds(forest, ids))
    /\ subtreeStreak' = Progressed(c)
    /\ lastFailed' = NoNode
    /\ UNCHANGED <<retryVars, phase, turn, result, unverified>>

\* No branch is ready (any more); the turn goes on where verification was
\* asked for.
Settled == phase = "rollup" /\ ReadyBranches(plan) = {} /\ lastFailed' = NoNode

TurnDone ==
    /\ Settled
    /\ turn.mode # "finish"
    /\ ~(turn.deferred /\ IsComplete(plan))
    /\ Judge(FALSE)
    /\ UNCHANGED <<plan, streakVars, unverified>>

\* Slip: the reply is believed.
FinishPhraseUnchecked ==
    /\ Settled
    /\ turn.mode = "reason"
    /\ Finish("success")
    /\ failures' = Recorded(turn.charge, FALSE)
    /\ UNCHANGED <<plan, replans, streakVars, unverified>>

\* A plain reply that says the task is done, with the plan complete.
FinishPhrase ==
    /\ Settled
    /\ turn.mode = "reason" /\ IsComplete(plan)
    /\ Finish("success")
    /\ failures' = Recorded(turn.charge, FALSE)
    /\ UNCHANGED <<plan, replans, streakVars, unverified>>

\* Slip: the work put in front of the finish call was verified, that is enough.
DeferredFinishUnchecked ==
    /\ Settled
    /\ turn.deferred
    /\ Finish("success")
    /\ failures' = Recorded(turn.charge, FALSE)
    /\ UNCHANGED <<plan, replans, streakVars, unverified>>

\* The finish call that was put off, with the plan complete now.
DeferredFinish ==
    /\ Settled
    /\ turn.deferred /\ IsComplete(plan)
    /\ Finish("success")
    /\ failures' = Recorded(turn.charge, FALSE)
    /\ UNCHANGED <<plan, replans, streakVars, unverified>>

AskedSettled ==
    /\ Settled
    /\ turn.mode = "finish"
    /\ phase' = "finish"
    /\ UNCHANGED <<plan, retryVars, streakVars, turn, result, unverified>>

-----------------------------------------------------------------------------
(* _verify_finish_request: the steps found unresolved, one by one, each by *)
(* the verifier of a step, branches included.                              *)

AtHand(n) == /\ phase = "finish" /\ n \in turn.left
             /\ \A m \in turn.left \ {n} : ListedBefore(plan, n, m)

\* Slip: the step listed after it is passed over.
AskedDoneTwice(n) ==
    /\ AtHand(n)
    /\ lastFailed' = n
    /\ Complete(n)
    /\ turn' = [turn EXCEPT !.left = {m \in @ \ {n} :
                     \E l \in @ \ {n, m} : ListedBefore(plan, l, m)}]
    /\ phase' = "rollup"
    /\ UNCHANGED <<retryVars, chainStreak, result, unverified>>

AskedDone(n) ==
    /\ AtHand(n)
    /\ lastFailed' = n
    /\ Complete(n)
    /\ turn' = [turn EXCEPT !.left = @ \ {n}]
    /\ phase' = "rollup"
    /\ UNCHANGED <<retryVars, chainStreak, result, unverified>>

\* Slip: the step is left pending, whatever it was.
AskedReset(n) ==
    /\ AtHand(n)
    /\ lastFailed' = n
    /\ plan' = SetStatus(plan, n, "pending")
    /\ RejectFinish
    /\ UNCHANGED <<streakVars, orphanOf, escalated, reviewVars>>

\* The step keeps the status it had.
AskedNotDone(n) ==
    /\ AtHand(n)
    /\ lastFailed' = n
    /\ RejectFinish
    /\ UNCHANGED <<plan, streakVars, orphanOf, escalated, reviewVars>>

FinishAccepted ==
    /\ phase = "finish" /\ turn.left = {}
    /\ Finish("success")
    /\ UNCHANGED <<plan, retryVars, streakVars, lastFailed, unverified>>

-----------------------------------------------------------------------------
(* _replan_failing_node, then on_replan for the node that was charged.     *)

Suspect == IF lastFailed # NoNode THEN lastFailed ELSE CurrentLeaf(plan)

\* _widen_stuck_replan_target: the streak of the suspect's parent, and
\* whether it is the parent that gets replanned.  A parent that left the plan
\* with the suspect has no streak that is read again.
SuspectParent == IF Suspect \in Ids(plan) THEN Parent(plan, Suspect) ELSE orphanOf
SuspectStreak == IF SuspectParent = NoNode THEN 0 ELSE subtreeStreak[SuspectParent] + 1

Stuck == SuspectStreak >= WidenLimit

Target == IF Stuck /\ SuspectParent # Root THEN SuspectParent ELSE Suspect

BumpedStreak ==
    [n \in Charged |-> IF n # SuspectParent THEN subtreeStreak[n]
                       ELSE IF Stuck THEN 0 ELSE SuspectStreak]

\* Slip: the failing node is not forgotten with its subtree.
EndReplanBlaming ==
    /\ phase' = "turn"
    /\ turn' = NoTurn
    /\ UNCHANGED <<lastFailed, result, unverified>>

EndReplan ==
    /\ lastFailed' = NoNode
    /\ phase' = "turn"
    /\ turn' = NoTurn
    /\ UNCHANGED <<result, unverified>>

ReplanSubtree(n) ==
    /\ phase = "replan" /\ Suspect # NoNode
    /\ n = Target /\ n \in Ids(plan)
    /\ LET live == Spared(plan, n)
       IN  \E f \in Forests : \E ids \in Names(Len(f), FreeIds(live), {}) :
             /\ plan' = SetStatus(Hung(plan, n, IF IsCheckpoint(plan, n)
                                                THEN Bounded(n, f) ELSE f, ids),
                                  n, "pending")
             /\ chainStreak' = IF IsCheckpoint(plan, n)
                               THEN ChainAfter(Forget(chainStreak, live), n, f,
                                               TopIds(f, ids))
                               ELSE Forget(chainStreak, live)
             /\ subtreeStreak' = Forget(BumpedStreak, live)
             /\ replans' = Forget(Replanned(turn.charge), live)
             /\ failures' = Forget(Relieved(turn.charge), live)
    /\ EndReplan

\* The node to blame left the plan with a redecompose: what the planner answers
\* hangs under a node nobody reaches.
ReplanOrphan ==
    /\ phase = "replan" /\ Suspect # NoNode /\ Target \notin Ids(plan)
    /\ subtreeStreak' = BumpedStreak
    /\ replans' = Replanned(turn.charge)
    /\ failures' = Relieved(turn.charge)
    /\ UNCHANGED <<plan, chainStreak>>
    /\ EndReplan

\* update_plan: no node to blame, the steps not completed are planned anew.
\* The root is a new node too.
ReplanAll ==
    /\ phase = "replan" /\ Suspect = NoNode
    /\ LET claims == {t \in Tops(plan) : Status(plan, t) # "completed"}
       IN  \E answer \in {f \in Forests : Flat(f)}, kept \in Ascending(KeptPositions(plan)) :
           \E ids \in Names(Len(answer), FreeIds(Ids(plan)), claims) :
             /\ plan' = Revised(plan, kept, Grown(answer, ids, 0))
             /\ chainStreak' = Forget(chainStreak, Ids(plan'))
             /\ subtreeStreak' = Forget([subtreeStreak EXCEPT ![Root] = 0], Ids(plan'))
             /\ replans' = Forget(Replanned(turn.charge), Ids(plan'))
             /\ failures' = Forget(Relieved(turn.charge), Ids(plan'))
    /\ EndReplan

\* The planner's own call fails: the exception leaves run().
PlannerRaises ==
    /\ \/ phase = "replan"
       \/ phase = "review" /\ reviews < MaxReviews
       \/ /\ phase = "turn" /\ steps < MaxSteps
          /\ CurrentLeaf(plan) # NoNode /\ Unexpanded(plan, CurrentLeaf(plan))
       \/ /\ phase = "rollup"
          /\ \E c \in Ids(plan) : FirstReady(plan, c) /\ IsCheckpoint(plan, c)
    /\ Finish("raised")
    /\ UNCHANGED <<plan, retryVars, streakVars, lastFailed, unverified>>

-----------------------------------------------------------------------------
(* _handle_escalation: the node is given up, the run goes on without it.   *)

Blamed == IF turn.leaf # NoNode THEN turn.leaf ELSE lastFailed

Escalate ==
    /\ phase = "escalate" /\ Blamed # NoNode
    /\ plan' = IF Blamed \in Ids(plan) THEN SetStatus(plan, Blamed, "failed") ELSE plan
    /\ escalated' = escalated \cup {Blamed}
    /\ lastFailed' = NoNode
    /\ phase' = "turn"
    /\ turn' = NoTurn
    /\ UNCHANGED <<retryVars, streakVars, orphanOf, steps, idle, result, reviewVars>>

EscalateRun ==
    /\ phase = "escalate" /\ Blamed = NoNode
    /\ Finish("failure")
    /\ UNCHANGED <<plan, retryVars, streakVars, lastFailed, unverified>>

-----------------------------------------------------------------------------
(* resolve_escalation, called by a human on the plan the run returned.     *)

\* Any node of the plan will do: main.py asks for the id of an escalated one and takes
\* what is typed, and the review has shown the ids of all nodes but the root.
Resolvable(n) == /\ phase = "done" /\ result \in {"success", "failure"}
                 /\ resumes < MaxResumes
                 /\ n \in Ids(plan)

Resume(n) ==
    /\ escalated' = escalated \ {n}
    /\ phase' = "turn"
    /\ result' = "running"
    /\ steps' = 0
    /\ idle' = 0
    /\ resumes' = resumes + 1
    /\ UNCHANGED <<turn, lastFailed, reviews>>

\* Slip: a resumed run starts with new budgets.
ResolveEditAfresh(n) ==
    /\ Resolvable(n)
    /\ plan' = SetStatus(plan, n, "pending")
    /\ Resume(n)
    /\ failures' = [m \in Charged |-> 0]
    /\ replans' = [m \in Charged |-> 0]
    /\ UNCHANGED <<streakVars, orphanOf>>

ResolveEdit(n) ==
    /\ Resolvable(n)
    /\ plan' = SetStatus(plan, n, "pending")
    /\ Resume(n)
    /\ UNCHANGED <<retryVars, streakVars, orphanOf>>

ResolveRedecompose(n) ==
    /\ Resolvable(n)
    /\ LET live == Spared(plan, n)
           held == live \cup {lastFailed}
       IN  /\ \E f \in Forests : \E ids \in Names(Len(f), FreeIds(live), {}) :
                 plan' = SetStatus(Hung(plan, n, f, ids), n, "pending")
           /\ failures' = Forget(failures, held)
           /\ replans' = Forget(replans, held)
           /\ subtreeStreak' = Forget(subtreeStreak, held)
           /\ chainStreak' = Forget(chainStreak, held)
           /\ orphanOf' = IF lastFailed \in Ids(plan) \ live
                          THEN IF Parent(plan, lastFailed) = n THEN n ELSE NoNode
                          ELSE IF orphanOf \in live THEN orphanOf ELSE NoNode
    /\ Resume(n)

\* The planner's call fails; so does resolve_escalation.
ResolveRaises(n) ==
    /\ Resolvable(n)
    /\ escalated' = escalated \ {n}
    /\ plan' = SetStatus(plan, n, "pending")
    /\ result' = "raised"
    /\ resumes' = resumes + 1
    /\ UNCHANGED <<retryVars, streakVars, lastFailed, orphanOf, phase, turn, steps,
                   idle, reviews>>

ResolveReject(n) ==
    /\ Resolvable(n)
    /\ escalated' = escalated \ {n}
    /\ result' = "failure"
    /\ resumes' = resumes + 1
    /\ UNCHANGED <<plan, retryVars, streakVars, lastFailed, orphanOf, phase, turn,
                   steps, idle, reviews>>

-----------------------------------------------------------------------------

Done == phase = "done" /\ UNCHANGED vars

Review  == \/ ReviewApprove \/ ReviewReject \/ ReviewEdit
           \/ \E n \in Nodes : ReviewMarkLeaf(n) \/ ReviewRedecompose(n)
Resolves(n) == \/ ResolveEdit(n) \/ ResolveRedecompose(n)
               \/ ResolveReject(n) \/ ResolveRaises(n)
Resolve == \E n \in Nodes : Resolves(n)

LoopStep ==
    \/ StartTurn \/ ExpandCheckpoint \/ OutOfSteps
    \/ BackendFails \/ ParseError \/ MutationGuard \/ PlainReasoning
    \/ ToolsFail \/ ToolsSucceed(TRUE) \/ ToolsSucceed(FALSE)
    \/ AutoFinish \/ FinishComplete \/ FinishRequest
    \/ VerifyNothing \/ StepNotDone \/ StepDone
    \/ \E b \in Nodes : RollupRejects(b) \/ RollupPasses(b) \/ CheckpointPasses(b)
    \/ TurnDone \/ FinishPhrase \/ DeferredFinish \/ AskedSettled
    \/ \E n \in Nodes : AskedDone(n) \/ AskedNotDone(n)
    \/ FinishAccepted
    \/ \E n \in Nodes : ReplanSubtree(n)
    \/ ReplanOrphan \/ ReplanAll \/ PlannerRaises
    \/ Escalate \/ EscalateRun

Next == Review \/ LoopStep \/ Resolve \/ Done

Spec == Init /\ [][Next]_vars

\* The loop never waits but on the language model, whose calls all return.
FairSpec == Spec /\ WF_vars(Review) /\ WF_vars(LoopStep)

-----------------------------------------------------------------------------
(* Safety.                                                                 *)

\* The plan stays a tree of distinct nodes through every splice, replan and
\* whole-plan replan: find_node and every dictionary keyed by node_id rely
\* on it.
PlanShape == WellFormed(plan)

\* _last_failed_node is a node of the live plan, never one a replan dropped:
\* the next replan is hung under it.
FailingNodeInPlan == lastFailed \in Ids(plan) \cup {NoNode}

\* No node is replanned on its own account more often than max_replans
\* allows, resumed runs included.
RetryBudget == \A n \in Charged : replans[n] <= MaxReplans

\* A run reports success only with every leaf and every branch completed.
SuccessMeansComplete == result = "success" => IsComplete(plan)

\* As long as no node was given up, a completed branch has no unfinished
\* child, whatever was spliced in or replanned below it.
CompletedBranchClosed ==
    escalated = {} =>
        \A b \in Branches(plan) : Status(plan, b) = "completed" =>
            \A c \in Children(plan, b) : Status(plan, c) = "completed"

\* The whole plan is replanned only when there is no node to blame: every
\* unfinished plan without a pending leaf or a remembered failure has a node
\* that was given up.
WholePlanReplanIsLastResort ==
    phase = "replan" /\ Suspect = NoNode =>
        IsComplete(plan) \/ \E n \in Ids(plan) : Status(plan, n) = "failed"

-----------------------------------------------------------------------------
(* What a step may never do.                                               *)

\* The nodes of p before and after the subtree of n, as they are.
Outside(p, n) == <<SubSeq(p, 1, At(p, n) - 1), SubSeq(p, LastOf(p, n) + 1, Len(p))>>

\* A replan after a failure leaves everything outside the node it replans as
\* it was and in its place.
ReplanIsLocal ==
    [][phase = "replan" /\ phase' = "turn" /\ Suspect # NoNode =>
          Outside(plan, Target) = Outside(plan', Target)]_vars

\* So does what a human decides about any node of the plan.
ResolveIsLocal ==
    [][\A n \in Nodes : Resolves(n) =>
          n \in Ids(plan') /\ Outside(plan, n) = Outside(plan', n)]_vars

\* Completed work is undone only by a replan of the node above it, by a
\* whole-plan replan of an unfinished step, by giving the node up, or by what a
\* human decides about a node above it.
WorkKept ==
    [][\A n \in Ids(plan) : Status(plan, n) = "completed" =>
          \/ n \in Ids(plan') /\ Status(plan', n) = "completed"
          \/ phase = "replan" /\ Suspect # NoNode /\ n \in Subtree(plan, Target)
          \/ phase = "replan" /\ \E t \in Tops(plan) : /\ n \in Subtree(plan, t)
                                                       /\ Status(plan, t) # "completed"
          \/ phase = "escalate" /\ n = Blamed
          \/ \E m \in Nodes : Resolves(m) /\ n \in Subtree(plan, m)]_vars

\* A finish request that goes to the verifier is granted only when every step
\* that was unresolved when it was made has been completed.
FinishVerified ==
    [][phase = "finish" /\ result' = "success" =>
          \A n \in turn.asked : Status(plan, n) = "completed"]_vars

\* A finish request, granted or not, never takes a completion back.
FinishNeverUndoes ==
    [][turn.mode = "finish" /\ phase \in {"finish", "rollup"} =>
          \A n \in Ids(plan) : Status(plan, n) = "completed" =>
                                Status(plan', n) = "completed"]_vars

\* A resumed run goes on with the retry pressure of the run it resumes: no
\* node outside the redecomposed subtree gets a new budget.
BudgetSurvivesResume ==
    [][\A e \in Nodes : Resolves(e) =>
          \A n \in Ids(plan) \cap Ids(plan') :
              replans'[n] < replans[n] => n \in Subtree(plan, e) \ {e}]_vars

-----------------------------------------------------------------------------
(* Liveness and refinement.                                                *)

\* Every run comes to an end, whatever the model, the tools and the planner
\* answer, and every resumed run does.
Termination == []<>(phase = "done")

\* The run as its caller sees it.
Run == INSTANCE AgentRun WITH Budget <- MaxSteps, outcome <- result,
                              spent <- steps, resolved <- IsComplete(plan)
RunsAsPromised == Run!FairSpec
=============================================================================
