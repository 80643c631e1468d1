--------------------------- MODULE ReActLoopProofs ---------------------------
(***************************************************************************)
(* The safety properties of ReActLoop, for every value of its constants;   *)
(* that the loop with its evidence, StepEvidence, is the loop, so that     *)
(* what is proved of the one holds of the other; and that the evidence     *)
(* itself is sound.                                                        *)
(***************************************************************************)
EXTENDS StepEvidence, PlanTreeProofs

-----------------------------------------------------------------------------
(* The inductive invariant.                                                *)

\* The nodes a turn holds on to are nodes of the plan: nothing that drops a node
\* happens before the turn is over.
TurnInPlan == /\ turn.leaf \in Ids(plan) \cup {NoNode}
              /\ turn.left \subseteq Ids(plan)

TurnOver == phase \in {"review", "turn", "done"} => turn = NoTurn

\* Until its outcome is known, there is a step left for the turn to take.  A
\* reply or a tool call takes it before its verification, a finish request after.
StepLeft ==
    /\ phase \in {"reply", "finish"} \/ (phase = "rollup" /\ turn.mode = "finish")
           => steps < MaxSteps
    /\ phase = "verify" => turn.mode # "finish"

\* Only a human's redecomposition leaves a failing node without a plan.
FailingUntilResumed == /\ resumes = 0 => FailingNodeInPlan
                       /\ phase = "review" => lastFailed = NoNode

\* A replan is only ever due to a node with a replan left.
ReplanDue == phase = "replan" => replans[turn.charge] < MaxReplans

\* Nothing happens to a run that has ended but a human's resolution.
EndIsDone == phase # "done" => result = "running"

\* Nothing is asked of the verifier for the sake of a finish request.
NeverAsked == phase # "finish" /\ turn.mode # "finish"

\* The progress-free streaks act the moment they reach their limits: neither
\* is ever carried past a turn at its limit.
StreakBounds == \A n \in Charged : /\ subtreeStreak[n] < WidenLimit
                                   /\ chainStreak[n] < ChainLimit

Inv == /\ TypeOK /\ PlanShape /\ RetryBudget /\ StreakBounds
       /\ TurnInPlan /\ TurnOver /\ StepLeft /\ FailingUntilResumed /\ ReplanDue
       /\ EndIsDone
       /\ ~BareFinish => NeverAsked /\ SuccessMeansComplete

-----------------------------------------------------------------------------
(* What the shared pieces of the handlers return.                          *)

LEMMA Constants ==
    /\ Charged = Nodes \cup {Root} /\ Root \in Charged /\ Nodes \subseteq Nat
    /\ NoNode \notin Charged
    /\ MaxRetries \in Nat \ {0} /\ MaxReplans \in Nat
    /\ MaxSteps \in Nat \ {0} /\ WidenLimit \in Nat \ {0} /\ ChainLimit \in Nat \ {0}
    /\ MaxReviews \in Nat /\ MaxResumes \in Nat
BY NodesAssumption, NoNodeAssumption, RetryAssumption, LoopAssumption

LEMMA TurnType ==
    ASSUME NEW leaf \in Nodes \cup {NoNode}, NEW charge \in Charged
    PROVE  /\ TurnOf(leaf, charge) \in Turn /\ TurnOf(leaf, charge).leaf = leaf
           /\ TurnOf(leaf, charge).left = {} /\ TurnOf(leaf, charge).mode = "none"
BY DEF TurnOf, Turn

LEMMA ToolsTurnType ==
    ASSUME NEW t \in Turn, NEW b \in BOOLEAN
    PROVE  LET u == [t EXCEPT !.mode = "tools", !.deferred = b]
           IN  /\ u \in Turn /\ u.leaf = t.leaf /\ u.charge = t.charge
               /\ u.left = t.left /\ u.mode = "tools"
BY Zenon DEF Turn

LEMMA NoTurnType == /\ NoTurn \in Turn /\ NoTurn.leaf = NoNode /\ NoTurn.left = {}
                    /\ NoTurn.mode = "none"
BY TurnType, Constants DEF NoTurn

LEMMA RetryNodeType ==
    ASSUME TypeOK, NEW leaf \in Nodes \cup {NoNode}
    PROVE  RetryNode(leaf) \in Charged
BY Constants DEF RetryNode, TypeOK

LEMMA RecordedType ==
    ASSUME TypeOK, NEW n \in Charged, NEW failed \in BOOLEAN
    PROVE  Recorded(n, failed) \in [Charged -> 0 .. MaxRetries]
<1>1. MaxRetries \in Nat \ {0} /\ failures \in [Charged -> 0 .. MaxRetries]
  BY Constants DEF TypeOK
<1>2. (IF ~failed THEN 0 ELSE IF Exhausted(n) THEN MaxRetries ELSE failures[n] + 1)
        \in 0 .. MaxRetries
  BY <1>1 DEF Exhausted
<1> QED  BY <1>1, <1>2 DEF Recorded

\* A judged turn is over, or waits for the replan or the escalation it is due.
LEMMA JudgeType ==
    ASSUME TypeOK, NEW failed \in BOOLEAN, Judge(failed)
    PROVE  /\ failures' \in [Charged -> 0 .. MaxRetries]
           /\ replans' = replans /\ result' = result
           /\ turn' = turn \/ turn' = NoTurn
           /\ phase' \in {"turn", "replan", "escalate"}
           /\ phase' = "turn" => turn' = NoTurn
           /\ phase' = "replan" => turn' = turn /\ replans[turn.charge] < MaxReplans
<1>1. turn.charge \in Charged /\ replans[turn.charge] \in Nat /\ MaxReplans \in Nat
  BY Constants DEF TypeOK, Turn
<1>2. failures' \in [Charged -> 0 .. MaxRetries]
  BY <1>1, RecordedType DEF Judge
<1> QED  BY <1>1, <1>2 DEF Judge, FailureVerdict

\* Counters stay counters, within the bounds they had.
LEMMA ForgetUpTo ==
    ASSUME NEW k \in Nat, NEW f \in [Charged -> 0 .. k], NEW live
    PROVE  Forget(f, live) \in [Charged -> 0 .. k]
BY DEF Forget

LEMMA ForgetBelow ==
    ASSUME NEW k \in Nat \ {0}, NEW f \in [Charged -> Nat], NEW live,
           \A m \in Charged : f[m] < k
    PROVE  /\ Forget(f, live) \in [Charged -> Nat]
           /\ \A m \in Charged : Forget(f, live)[m] < k
BY DEF Forget

LEMMA ForgetAtMost ==
    ASSUME NEW k \in Nat, NEW f \in [Charged -> Nat], NEW live,
           \A m \in Charged : f[m] <= k
    PROVE  /\ Forget(f, live) \in [Charged -> Nat]
           /\ \A m \in Charged : Forget(f, live)[m] <= k
BY DEF Forget

LEMMA ProgressedType ==
    ASSUME TypeOK, StreakBounds, NEW n
    PROVE  /\ Progressed(n) \in [Charged -> Nat]
           /\ \A m \in Charged : Progressed(n)[m] < WidenLimit
BY Constants DEF Progressed, TypeOK, StreakBounds

\* A chain that has come to its limit is cut.
LEMMA ChainType ==
    ASSUME TypeOK, NEW streak \in [Charged -> Nat], NEW c \in Charged, NEW f, NEW tops,
           \A m \in Charged : streak[m] < ChainLimit
    PROVE  /\ ChainAfter(streak, c, f, tops) \in [Charged -> Nat]
           /\ \A m \in Charged : ChainAfter(streak, c, f, tops)[m] < ChainLimit
<1>1. ChainLimit \in Nat \ {0} /\ chainStreak[c] \in Nat
  BY Constants DEF TypeOK
<1>2. CASE ChainGoesOn(f) /\ ~ChainCut(c, f)
  <2>1. chainStreak[c] + 1 < ChainLimit
    BY <1>1, <1>2 DEF ChainCut
  <2> QED  BY <1>1, <1>2, <2>1 DEF ChainAfter
<1>3. CASE ~(ChainGoesOn(f) /\ ~ChainCut(c, f))
  BY <1>1, <1>3 DEF ChainAfter
<1> QED  BY <1>2, <1>3

\* New names are distinct, and new or claimed.
LEMMA NamesType ==
    ASSUME NEW k \in Nat, NEW free \in SUBSET Nodes, NEW claims \in SUBSET Nodes,
           NEW ids \in Names(k, free, claims)
    PROVE  /\ ids \in [1 .. k -> Nodes] /\ IsInjective(ids)
           /\ \A i \in 1 .. k : ids[i] \in free \cup claims
BY DEF Names

LEMMA ForestType ==
    ASSUME NEW f \in Forests
    PROVE  /\ f \in Seq(Shoot) /\ Shaped(f) /\ Len(f) \in Nat
           /\ DemotePassThrough(f) \in Seq(Shoot) /\ Shaped(DemotePassThrough(f))
           /\ Len(DemotePassThrough(f)) = Len(f)
           /\ \A c : Bounded(c, f) \in Seq(Shoot) /\ Shaped(Bounded(c, f))
                     /\ Len(Bounded(c, f)) = Len(f)
<1>1. f \in Seq(Shoot) /\ Shaped(f) /\ Len(f) \in Nat
  BY ForestsAssumption, LenProperties
<1>2. Plain(f) \in Seq(Shoot) /\ Shaped(Plain(f)) /\ Len(Plain(f)) = Len(f)
  BY <1>1, PlainForest
<1> QED  BY <1>1, <1>2 DEF DemotePassThrough, Bounded

LEMMA LeafType ==
    ASSUME TypeOK
    PROVE  CurrentLeaf(plan) \in Ids(plan) \cup {NoNode} /\ Ids(plan) \subseteq Nodes
BY CurrentLeafInPlan, PlanDomain DEF TypeOK

-----------------------------------------------------------------------------
(* The initial state.                                                      *)

LEMMA InvInit == Init => Inv
<1> SUFFICES ASSUME Init PROVE Inv
  OBVIOUS
<1>1. PICK f \in InitialForests : plan = Grown(f, [i \in DOMAIN f |-> i], 0)
  BY DEF Init
<1> DEFINE ids == [i \in DOMAIN f |-> i]
<1>2. f \in Seq(Shoot) /\ Shaped(f) /\ DOMAIN f = 1 .. Len(f) /\ DOMAIN f \subseteq Nodes
  BY LoopAssumption, LenProperties
<1>3. ids \in [1 .. Len(f) -> Nodes] /\ IsInjective(ids)
  BY <1>2 DEF IsInjective
<1> HIDE DEF ids
<1>4. plan \in Seq(PlanNode) /\ WellFormed(plan)
  BY <1>1, <1>2, <1>3, GeneratedPlan DEF ids
<1>5. TypeOK
  BY <1>4, Constants, NoTurnType DEF Init, RetryInit, TypeOK, Phases, Results
<1>6. RetryBudget /\ StreakBounds /\ ReplanDue
  BY Constants DEF Init, RetryInit, RetryBudget, StreakBounds, ReplanDue
<1>7. TurnInPlan /\ TurnOver /\ StepLeft /\ FailingUntilResumed /\ EndIsDone
  BY NoTurnType DEF Init, TurnInPlan, TurnOver, StepLeft, FailingUntilResumed, FailingNodeInPlan,
     EndIsDone
<1>8. NeverAsked /\ SuccessMeansComplete
  BY NoTurnType DEF Init, NeverAsked, SuccessMeansComplete
<1> QED  BY <1>4, <1>5, <1>6, <1>7, <1>8 DEF Inv, PlanShape

-----------------------------------------------------------------------------
(* Every step.                                                             *)

\* What an action needs of the invariant to keep it, the type correctness apart.
LEMMA InvParts ==
    ASSUME Inv
    PROVE  /\ TypeOK /\ plan \in Seq(PlanNode) /\ WellFormed(plan) /\ Ids(plan) \subseteq Nodes
           /\ turn \in Turn /\ turn.leaf \in Ids(plan) \cup {NoNode}
           /\ turn.charge \in Charged /\ turn.left \subseteq Ids(plan)
           /\ phase = "replan" => replans[turn.charge] < MaxReplans
BY LeafType DEF Inv, PlanShape, TurnInPlan, ReplanDue, TypeOK, Turn

\* A turn whose outcome is known has taken one step.
LEMMA NextStep ==
    ASSUME Inv, phase \in {"reply", "finish"} \/ (phase = "rollup" /\ turn.mode = "finish")
    PROVE  steps + 1 \in 0 .. MaxSteps
<1>1. steps \in 0 .. MaxSteps /\ steps < MaxSteps /\ MaxSteps \in Nat
  BY Constants DEF Inv, TypeOK, StepLeft
<1> QED  BY <1>1

\* A step that takes no node from the plan and is neither a replan nor an end
\* keeps the invariant when it keeps the types and the tree.
LEMMA PlanKept ==
    ASSUME Inv, TypeOK', WellFormed(plan'), Ids(plan) \subseteq Ids(plan'),
           UNCHANGED <<replans, resumes>>,
           StreakBounds',
           lastFailed' \in Ids(plan) \cup {NoNode, lastFailed},
           phase' = "review" => phase = "review" /\ lastFailed' = lastFailed,
           turn'.leaf \in Ids(plan') \cup {NoNode},
           turn'.left \subseteq Ids(plan),
           phase' \in {"review", "turn", "done"} => turn' = NoTurn,
           StepLeft',
           phase' = "replan" => replans[turn'.charge] < MaxReplans,
           phase' # "done" => result' = "running",
           ~BareFinish => phase' # "finish" /\ turn'.mode # "finish",
           ~BareFinish /\ result' = "success" => IsComplete(plan')
    PROVE  Inv'
<1>1. RetryBudget' /\ ReplanDue'
  BY DEF Inv, RetryBudget, ReplanDue
<1>2. TurnInPlan' /\ TurnOver' /\ EndIsDone'
  BY DEF TurnInPlan, TurnOver, EndIsDone
<1>3. FailingUntilResumed'
  BY DEF Inv, FailingUntilResumed, FailingNodeInPlan
<1>4. (~BareFinish => NeverAsked /\ SuccessMeansComplete)'
  BY DEF NeverAsked, SuccessMeansComplete
<1> QED  BY <1>1, <1>2, <1>3, <1>4 DEF Inv, PlanShape

\* A step that ends a turn, or is none, keeps it whatever it drops from the plan.
LEMMA PlanPruned ==
    ASSUME Inv, TypeOK', WellFormed(plan'), RetryBudget', StreakBounds',
           turn' = NoTurn, phase' \in {"review", "turn"}, result' = "running",
           lastFailed' = NoNode \/ (phase' = "turn" /\ resumes' # 0)
    PROVE  Inv'
<1>1. TurnInPlan' /\ TurnOver' /\ StepLeft' /\ ReplanDue' /\ EndIsDone'
  BY NoTurnType DEF TurnInPlan, TurnOver, StepLeft, ReplanDue, EndIsDone
<1>2. FailingUntilResumed'
  BY DEF FailingUntilResumed, FailingNodeInPlan
<1>3. (~BareFinish => NeverAsked /\ SuccessMeansComplete)'
  BY NoTurnType DEF NeverAsked, SuccessMeansComplete
<1> QED  BY <1>1, <1>2, <1>3 DEF Inv, PlanShape

\* A run that has ended stays so, with another outcome that is no success.
LEMMA EndKept ==
    ASSUME Inv, TypeOK', WellFormed(plan'), phase = "done", resumes < MaxResumes,
           resumes' = resumes + 1, result' # "success",
           UNCHANGED <<retryVars, streakVars, lastFailed, phase, turn, steps>>
    PROVE  Inv'
<1>1. turn = NoTurn /\ RetryBudget /\ StreakBounds /\ resumes \in Nat
  BY Constants DEF Inv, TurnOver, TypeOK
<1>2. RetryBudget' /\ StreakBounds'
  BY <1>1 DEF RetryBudget, StreakBounds, retryVars, streakVars
<1>3. TurnInPlan' /\ TurnOver' /\ StepLeft' /\ ReplanDue' /\ EndIsDone'
  BY <1>1, NoTurnType DEF TurnInPlan, TurnOver, StepLeft, ReplanDue, EndIsDone
<1>4. FailingUntilResumed'
  BY <1>1 DEF FailingUntilResumed, FailingNodeInPlan
<1>5. (~BareFinish => NeverAsked /\ SuccessMeansComplete)'
  BY <1>1, NoTurnType DEF NeverAsked, SuccessMeansComplete
<1> QED  BY <1>2, <1>3, <1>4, <1>5 DEF Inv, PlanShape

\* The answer of the planner under n: n and what is not below it stay.
LEMMA HungPlan ==
    ASSUME NEW p \in Seq(PlanNode), WellFormed(p), NEW n \in Ids(p),
           NEW f \in Seq(Shoot), Shaped(f),
           NEW live, Spared(p, n) \subseteq live,
           NEW ids \in Names(Len(f), FreeIds(live), {})
    PROVE  /\ Hung(p, n, f, ids) \in Seq(PlanNode) /\ WellFormed(Hung(p, n, f, ids))
           /\ Spared(p, n) \subseteq Ids(Hung(p, n, f, ids))
           /\ n \in Ids(Hung(p, n, f, ids))
<1>1. Len(f) \in Nat /\ FreeIds(live) \in SUBSET Nodes /\ {} \in SUBSET Nodes
  BY LenProperties DEF FreeIds
<1>2. /\ ids \in [1 .. Len(f) -> Nodes] /\ IsInjective(ids)
      /\ \A i \in 1 .. Len(f) : ids[i] \in FreeIds(live) \cup {}
  BY <1>1, NamesType
<1>3. \A i \in 1 .. Len(f) : ids[i] \notin Spared(p, n)
  BY <1>2 DEF FreeIds
<1>4. Node(p, n).depth \in Nat
  BY AtPosition
<1> QED  BY <1>2, <1>3, <1>4, ReplaceChildrenPlan DEF Hung

\* The loss of all that is below n.
LEMMA BarePlan ==
    ASSUME NEW p \in Seq(PlanNode), WellFormed(p), NEW n \in Ids(p)
    PROVE  /\ ReplaceChildren(p, n, <<>>) \in Seq(PlanNode)
           /\ WellFormed(ReplaceChildren(p, n, <<>>))
<1> DEFINE none == [i \in 1 .. 0 |-> n]
<1>1. PICK empty : empty = <<>>
  OBVIOUS
<1>2. empty \in Seq(Shoot) /\ Shaped(empty) /\ Len(empty) = 0
  BY <1>1, EmptySeq DEF Shaped
<1>3. none \in [1 .. Len(empty) -> Nodes] /\ IsInjective(none)
  BY <1>2 DEF IsInjective
<1>4. PICK d : d = Node(p, n).depth
  OBVIOUS
<1>5. d \in Nat
  BY <1>4, AtPosition
<1> HIDE DEF none
<1>6. PICK new : new = Grown(empty, none, d)
  OBVIOUS
<1>7. \A i \in 1 .. Len(empty) : none[i] \notin Spared(p, n)
  BY <1>2
<1>8. ReplaceChildren(p, n, new) \in Seq(PlanNode) /\ WellFormed(ReplaceChildren(p, n, new))
  BY <1>2, <1>3, <1>4, <1>5, <1>6, <1>7, ReplaceChildrenPlan
<1>9. new \in Seq(PlanNode) /\ Len(new) = 0
  BY <1>2, <1>3, <1>5, <1>6, GrownPlan
<1>10. new = <<>>
  BY <1>9, EmptySeq
<1> QED  BY <1>8, <1>10, Zenon

-----------------------------------------------------------------------------
(* The pre-execution review.                                               *)

LEMMA ReviewStep == ASSUME Inv, Review PROVE Inv'
<1> USE DEF unreviewed, retryVars, streakVars, reviewVars
<1>0. /\ TypeOK /\ plan \in Seq(PlanNode) /\ WellFormed(plan) /\ StreakBounds /\ StepLeft
      /\ RetryBudget /\ turn.leaf \in Ids(plan) \cup {NoNode} /\ turn.left \subseteq Ids(plan)
      /\ ~BareFinish => turn.mode # "finish"
      /\ phase = "review" => /\ turn = NoTurn /\ lastFailed = NoNode /\ result = "running"
      /\ phase = "review" /\ reviews < MaxReviews => reviews + 1 \in 0 .. MaxReviews
  <2>1. reviews \in 0 .. MaxReviews /\ MaxReviews \in Nat
    BY Constants DEF Inv, TypeOK
  <2> QED  BY <2>1, InvParts DEF Inv, NeverAsked, TurnOver, FailingUntilResumed, EndIsDone
<1>1. CASE ReviewApprove
  <2>1. TypeOK'
    BY <1>0, <1>1 DEF ReviewApprove, TypeOK, Phases
  <2> QED  BY <1>0, <1>1, <2>1, NoTurnType, PlanKept DEF ReviewApprove, StreakBounds, StepLeft
<1>2. CASE ReviewReject
  <2>1. TypeOK'
    BY <1>0, <1>2, NoTurnType DEF ReviewReject, Finish, TypeOK, Phases, Results
  <2> QED  BY <1>0, <1>2, <2>1, NoTurnType, PlanKept DEF ReviewReject, Finish, StreakBounds, StepLeft
<1>3. CASE ReviewEdit
  <2>1. TypeOK'
    BY <1>0, <1>3 DEF ReviewEdit, TypeOK
  <2> QED  BY <1>0, <1>3, <2>1, NoTurnType, PlanKept DEF ReviewEdit, StreakBounds, StepLeft
<1>4. ASSUME NEW n \in Nodes, ReviewMarkLeaf(n)
      PROVE  Inv'
  <2>1. plan' \in Seq(PlanNode) /\ WellFormed(plan')
    BY <1>0, <1>4, BarePlan DEF ReviewMarkLeaf
  <2>2. TypeOK'
    BY <1>0, <1>4, <2>1 DEF ReviewMarkLeaf, TypeOK
  <2>3. RetryBudget' /\ StreakBounds'
    BY <1>0, <1>4 DEF ReviewMarkLeaf, StreakBounds, RetryBudget
  <2>4. /\ turn' = NoTurn /\ phase' = "review" /\ result' = "running"
        /\ lastFailed' = NoNode
    BY <1>0, <1>4 DEF ReviewMarkLeaf
  <2> QED  BY <2>1, <2>2, <2>3, <2>4, PlanPruned
<1>5. ASSUME NEW n \in Nodes, ReviewRedecompose(n)
      PROVE  Inv'
  <2>1. plan' \in Seq(PlanNode) /\ WellFormed(plan')
    <3>1. PICK f \in Forests :
             \E ids \in Names(Len(f), FreeIds(Spared(plan, n)), {}) :
                plan' = Hung(plan, n, f, ids)
      BY <1>5 DEF ReviewRedecompose
    <3>2. PICK ids \in Names(Len(f), FreeIds(Spared(plan, n)), {}) :
             plan' = Hung(plan, n, f, ids)
      BY <3>1
    <3> QED  BY <1>0, <1>5, <3>2, ForestType, HungPlan DEF ReviewRedecompose
  <2>2. TypeOK'
    BY <1>0, <1>5, <2>1 DEF ReviewRedecompose, TypeOK
  <2>3. RetryBudget' /\ StreakBounds'
    BY <1>0, <1>5 DEF ReviewRedecompose, StreakBounds, RetryBudget
  <2>4. /\ turn' = NoTurn /\ phase' = "review" /\ result' = "running"
        /\ lastFailed' = NoNode
    BY <1>0, <1>5 DEF ReviewRedecompose
  <2> QED  BY <2>1, <2>2, <2>3, <2>4, PlanPruned
<1> QED  BY <1>1, <1>2, <1>3, <1>4, <1>5 DEF Review

-----------------------------------------------------------------------------
(* The top of the loop.                                                    *)

LEMMA TurnStep ==
    ASSUME Inv, StartTurn \/ ExpandCheckpoint \/ OutOfSteps
    PROVE  Inv'
<1> USE DEF retryVars, streakVars, reviewVars
<1>0. /\ TypeOK /\ plan \in Seq(PlanNode) /\ WellFormed(plan) /\ StreakBounds
      /\ Ids(plan) \subseteq Nodes /\ turn.leaf \in Ids(plan) \cup {NoNode}
      /\ turn.left \subseteq Ids(plan)
      /\ phase = "turn" => turn = NoTurn /\ result = "running"
  BY InvParts DEF Inv, TurnOver, EndIsDone
<1>1. CASE StartTurn
  <2>1. CurrentLeaf(plan) \in Ids(plan) \cup {NoNode}
    BY <1>0, LeafType
  <2>2. RetryNode(CurrentLeaf(plan)) \in Charged
    BY <1>0, <2>1, RetryNodeType
  <2>3. /\ turn' \in Turn /\ turn'.leaf = CurrentLeaf(plan) /\ turn'.left = {}
        /\ turn'.mode = "none"
    BY <1>0, <1>1, <2>1, <2>2, TurnType DEF StartTurn
  <2>4. TypeOK'
    BY <1>0, <1>1, <2>3 DEF StartTurn, TypeOK, Phases
  <2> QED  BY <1>0, <1>1, <2>1, <2>3, <2>4, PlanKept DEF StartTurn, StreakBounds, StepLeft
<1>2. CASE ExpandCheckpoint
  <2> DEFINE c == CurrentLeaf(plan)
  <2>1. c \in Ids(plan) /\ IsLeaf(plan, c)
    BY <1>0, <1>2, LeafType DEF ExpandCheckpoint, Unexpanded
  <2>2. PICK f \in Forests :
           \E ids \in Names(Len(f), FreeIds(Ids(plan) \cup Counted), {}) :
              plan' = Hung(DemoteChildless(plan, c, f), c, DemotePassThrough(f), ids)
    BY <1>2 DEF ExpandCheckpoint
  <2>3. PICK ids \in Names(Len(f), FreeIds(Ids(plan) \cup Counted), {}) :
           plan' = Hung(DemoteChildless(plan, c, f), c, DemotePassThrough(f), ids)
    BY <2>2
  <2> DEFINE g == DemotePassThrough(f)
             p == DemoteChildless(plan, c, f)
  <2>4. g \in Seq(Shoot) /\ Shaped(g) /\ Len(g) = Len(f)
    BY ForestType
  <2>5. /\ p \in Seq(PlanNode) /\ WellFormed(p) /\ Ids(p) = Ids(plan) /\ c \in Ids(p)
        /\ Len(p) = Len(plan)
        /\ \A i \in 1 .. Len(plan) : p[i].id = plan[i].id /\ p[i].depth = plan[i].depth
    BY <1>0, <2>1, DemoteChildlessPlan
  <2> HIDE DEF c, g, p
  <2>6. Spared(p, c) = Ids(plan)
    BY <1>0, <2>1, <2>5, LeafSpared
  <2>7. /\ plan' \in Seq(PlanNode) /\ WellFormed(plan')
        /\ Ids(plan) \subseteq Ids(plan')
    BY <2>3, <2>4, <2>5, <2>6, HungPlan DEF c, g, p
  <2>8. CurrentLeaf(plan') \in Ids(plan') \cup {NoNode} /\ Ids(plan') \subseteq Nodes
    BY <2>7, CurrentLeafInPlan, PlanDomain
  <2>9. RetryNode(CurrentLeaf(plan')) \in Charged
    BY <1>0, <2>8, RetryNodeType
  <2>10. /\ turn' \in Turn /\ turn'.leaf = CurrentLeaf(plan') /\ turn'.left = {}
         /\ turn'.mode = "none"
    BY <1>2, <2>8, <2>9, TurnType DEF ExpandCheckpoint
  <2>11. TypeOK'
    BY <1>0, <1>2, <2>7, <2>10 DEF ExpandCheckpoint, TypeOK, Phases
  <2> QED  BY <1>0, <1>2, <2>7, <2>8, <2>10, <2>11, PlanKept
           DEF ExpandCheckpoint, StreakBounds, StepLeft
<1>3. CASE OutOfSteps
  <2>1. TypeOK'
    BY <1>0, <1>3, NoTurnType DEF OutOfSteps, Finish, TypeOK, Phases, Results
  <2> QED  BY <1>0, <1>3, <2>1, NoTurnType, PlanKept DEF OutOfSteps, Finish, StreakBounds, StepLeft
<1> QED  BY <1>1, <1>2, <1>3

-----------------------------------------------------------------------------
(* The model's reply.                                                      *)

LEMMA ReplyStep ==
    ASSUME Inv,
           \/ BackendFails \/ ParseError \/ MutationGuard \/ PlainReasoning
           \/ ToolsFail \/ ToolsSucceed(TRUE) \/ ToolsSucceed(FALSE)
           \/ AutoFinish \/ FinishComplete \/ FinishRequest
    PROVE  Inv'
<1> USE DEF unreplied, retryVars, streakVars, reviewVars
<1>0. /\ TypeOK /\ WellFormed(plan) /\ turn \in Turn /\ StreakBounds
      /\ turn.leaf \in Ids(plan) \cup {NoNode} /\ turn.left \subseteq Ids(plan)
      /\ Ids(plan) \subseteq Nodes /\ MaxSteps \in Nat \ {0}
      /\ ~BareFinish => turn.mode # "finish"
      /\ phase = "reply" => steps < MaxSteps /\ steps + 1 \in 0 .. MaxSteps
      /\ phase = "reply" => result = "running"
  BY InvParts, NextStep, Constants DEF Inv, NeverAsked, StepLeft, EndIsDone
<1>1. CASE BackendFails
  <2>1. TypeOK'
    BY <1>0, <1>1, NoTurnType DEF BackendFails, TypeOK, Phases, Finish, Results
  <2> QED  BY <1>0, <1>1, <2>1, PlanKept, NoTurnType DEF BackendFails, StreakBounds, StepLeft, Finish
<1>2. CASE ParseError
  <2>1. Judge(TRUE)
    BY <1>2 DEF ParseError
  <2>2. /\ failures' \in [Charged -> 0 .. MaxRetries] /\ replans' = replans
        /\ result' = result /\ turn' \in {turn, NoTurn}
        /\ phase' = "replan" => turn' = turn /\ replans[turn.charge] < MaxReplans
        /\ phase' = "turn" => turn' = NoTurn
        /\ phase' \in {"turn", "replan", "escalate"}
    BY <1>0, <2>1, JudgeType
  <2>3. TypeOK'
    BY <1>0, <1>2, <2>2, NoTurnType DEF ParseError, TypeOK, Phases
  <2> QED  BY <1>0, <1>2, <2>2, <2>3, PlanKept, NoTurnType
           DEF ParseError, StreakBounds, StepLeft
<1>3. CASE MutationGuard
  <2>1. Judge(TRUE)
    BY <1>3 DEF MutationGuard
  <2>2. /\ failures' \in [Charged -> 0 .. MaxRetries] /\ replans' = replans
        /\ result' = result /\ turn' \in {turn, NoTurn}
        /\ phase' = "replan" => turn' = turn /\ replans[turn.charge] < MaxReplans
        /\ phase' = "turn" => turn' = NoTurn
        /\ phase' \in {"turn", "replan", "escalate"}
    BY <1>0, <2>1, JudgeType
  <2>3. TypeOK'
    BY <1>0, <1>3, <2>2, NoTurnType DEF MutationGuard, TypeOK, Phases
  <2> QED  BY <1>0, <1>3, <2>2, <2>3, PlanKept, NoTurnType
           DEF MutationGuard, StreakBounds, StepLeft
<1>4. CASE PlainReasoning
  <2>1. TypeOK'
    BY <1>0, <1>4 DEF PlainReasoning, TypeOK, Phases, Turn
  <2> QED  BY <1>0, <1>4, <2>1, PlanKept DEF PlainReasoning, StreakBounds, StepLeft
<1>5. CASE ToolsFail
  <2>1. Judge(TRUE)
    BY <1>5 DEF ToolsFail
  <2>2. /\ failures' \in [Charged -> 0 .. MaxRetries] /\ replans' = replans
        /\ result' = result /\ turn' \in {turn, NoTurn}
        /\ phase' = "replan" => turn' = turn /\ replans[turn.charge] < MaxReplans
        /\ phase' = "turn" => turn' = NoTurn
        /\ phase' \in {"turn", "replan", "escalate"}
    BY <1>0, <2>1, JudgeType
  <2>3. TypeOK'
    BY <1>0, <1>5, <2>2, NoTurnType DEF ToolsFail, TypeOK, Phases
  <2> QED  BY <1>0, <1>5, <2>2, <2>3, PlanKept, NoTurnType
           DEF ToolsFail, StreakBounds, StepLeft
<1>6. CASE ToolsSucceed(TRUE)
  <2>1. /\ turn' \in Turn /\ turn'.leaf = turn.leaf /\ turn'.left = turn.left
        /\ turn'.mode = "tools"
    <3>1. turn' = [turn EXCEPT !.mode = "tools", !.deferred = TRUE]
      BY <1>6 DEF ToolsSucceed
    <3> QED  BY <1>0, <3>1, ToolsTurnType, Zenon
  <2>2. idle' \in 0 .. 2
    BY <1>6 DEF ToolsSucceed
  <2>3. TypeOK'
    BY <1>0, <1>6, <2>1, <2>2 DEF ToolsSucceed, TypeOK, Phases
  <2> QED  BY <1>0, <1>6, <2>1, <2>3, PlanKept DEF ToolsSucceed, StreakBounds, StepLeft
<1>7. CASE ToolsSucceed(FALSE)
  <2>1. /\ turn' \in Turn /\ turn'.leaf = turn.leaf /\ turn'.left = turn.left
        /\ turn'.mode = "tools"
    <3>1. turn' = [turn EXCEPT !.mode = "tools", !.deferred = FALSE]
      BY <1>7 DEF ToolsSucceed
    <3> QED  BY <1>0, <3>1, ToolsTurnType, Zenon
  <2>2. idle' \in 0 .. 2
    BY <1>7 DEF ToolsSucceed
  <2>3. TypeOK'
    BY <1>0, <1>7, <2>1, <2>2 DEF ToolsSucceed, TypeOK, Phases
  <2> QED  BY <1>0, <1>7, <2>1, <2>3, PlanKept DEF ToolsSucceed, StreakBounds, StepLeft
<1>8. CASE AutoFinish
  <2>1. TypeOK'
    BY <1>0, <1>8, NoTurnType DEF AutoFinish, TypeOK, Phases, Finish, Results
  <2> QED  BY <1>0, <1>8, <2>1, PlanKept, NoTurnType DEF AutoFinish, StreakBounds, StepLeft, Finish
<1>9. CASE FinishComplete
  <2>1. TypeOK'
    BY <1>0, <1>9, NoTurnType DEF FinishComplete, TypeOK, Phases, Finish, Results
  <2> QED  BY <1>0, <1>9, <2>1, PlanKept, NoTurnType DEF FinishComplete, StreakBounds, StepLeft, Finish
<1>10. CASE FinishRequest
  <2>1. Unresolved(plan) \subseteq Ids(plan)
    BY DEF Unresolved
  <2>2. TypeOK'
    BY <1>0, <1>10, <2>1 DEF FinishRequest, TypeOK, Phases, Turn
  <2> QED  BY <1>0, <1>10, <2>1, <2>2, PlanKept DEF FinishRequest, StreakBounds, StepLeft
<1> QED  BY <1>1, <1>2, <1>3, <1>4, <1>5, <1>6, <1>7, <1>8, <1>9, <1>10

-----------------------------------------------------------------------------
(* The verification of a step.                                             *)

\* What the steps below need of the invariant.
LEMMA VerifyParts ==
    ASSUME Inv, phase \in {"verify", "rollup", "finish", "replan", "escalate"}
    PROVE  /\ TypeOK /\ plan \in Seq(PlanNode) /\ WellFormed(plan) /\ turn \in Turn
           /\ Ids(plan) \subseteq Nodes /\ turn.leaf \in Ids(plan) \cup {NoNode}
           /\ turn.left \subseteq Ids(plan) /\ turn.charge \in Charged
           /\ result = "running" /\ StreakBounds /\ StepLeft /\ RetryBudget
           /\ replans[turn.charge] \in Nat
           /\ ~BareFinish => phase # "finish" /\ turn.mode # "finish"
<1>1. replans[turn.charge] \in Nat
  BY InvParts DEF TypeOK
<1> QED  BY <1>1, InvParts DEF Inv, NeverAsked, EndIsDone

\* A judged step leaves the plan as it is.
LEMMA JudgeKeeps ==
    ASSUME Inv, phase \in {"verify", "rollup", "finish"},
           NEW failed \in BOOLEAN, Judge(failed),
           UNCHANGED <<plan, subtreeStreak, chainStreak, escalated, reviews, resumes, orphanOf>>,
           lastFailed' \in Ids(plan) \cup {NoNode},
           steps' \in 0 .. MaxSteps, idle' \in 0 .. 2
    PROVE  Inv'
<1>0. /\ TypeOK /\ WellFormed(plan) /\ turn \in Turn /\ Ids(plan) \subseteq Nodes
      /\ turn.leaf \in Ids(plan) \cup {NoNode} /\ turn.left \subseteq Ids(plan)
      /\ result = "running" /\ StreakBounds
      /\ ~BareFinish => turn.mode # "finish"
  BY VerifyParts
<1>1. /\ failures' \in [Charged -> 0 .. MaxRetries] /\ replans' = replans
      /\ result' = result /\ turn' \in {turn, NoTurn}
      /\ phase' = "replan" => turn' = turn /\ replans[turn.charge] < MaxReplans
      /\ phase' = "turn" => turn' = NoTurn
      /\ phase' \in {"turn", "replan", "escalate"}
  BY <1>0, JudgeType
<1>2. TypeOK'
  BY <1>0, <1>1, NoTurnType DEF TypeOK, Phases
<1>3. StreakBounds' /\ StepLeft'
  BY <1>0, <1>1 DEF StreakBounds, StepLeft
<1> QED  BY <1>0, <1>1, <1>2, <1>3, NoTurnType, PlanKept

LEMMA RejectFinishKeeps ==
    ASSUME Inv, phase = "finish" \/ (phase = "rollup" /\ turn.mode = "finish"), RejectFinish,
           UNCHANGED <<plan, subtreeStreak, chainStreak, escalated, reviews, resumes, orphanOf>>,
           lastFailed' \in Ids(plan) \cup {NoNode}
    PROVE  Inv'
<1>1. steps' \in 0 .. MaxSteps /\ idle' \in 0 .. 2
  BY NextStep DEF RejectFinish
<1>2. Judge(TRUE)
  BY DEF RejectFinish
<1>3. phase \in {"verify", "rollup", "finish"}
  OBVIOUS
<1> QED  BY <1>1, <1>2, <1>3, JudgeKeeps, Zenon

\* A node is completed and the verification goes on.
LEMMA CompleteKeeps ==
    ASSUME Inv, phase \in {"verify", "rollup", "finish"}, NEW n \in Ids(plan), Complete(n),
           phase' = "rollup", turn' \in Turn, turn'.leaf = turn.leaf,
           turn'.left \subseteq turn.left, turn'.mode = turn.mode,
           lastFailed' \in Ids(plan) \cup {NoNode},
           UNCHANGED <<retryVars, chainStreak, result, unverified>>
    PROVE  Inv'
<1>0. /\ TypeOK /\ plan \in Seq(PlanNode) /\ WellFormed(plan) /\ Ids(plan) \subseteq Nodes
      /\ turn.leaf \in Ids(plan) \cup {NoNode} /\ turn.left \subseteq Ids(plan)
      /\ result = "running" /\ StreakBounds /\ StepLeft
      /\ ~BareFinish => turn.mode # "finish"
  BY VerifyParts
<1>1. /\ plan' \in Seq(PlanNode) /\ WellFormed(plan') /\ Ids(plan') = Ids(plan)
  BY <1>0, SetStatusPlan DEF Complete, Statuses
<1>2. /\ subtreeStreak' \in [Charged -> Nat]
      /\ \A m \in Charged : subtreeStreak'[m] < WidenLimit
  BY <1>0, ProgressedType DEF Complete
<1>3. TypeOK'
  BY <1>0, <1>1, <1>2 DEF TypeOK, Phases, retryVars, unverified, reviewVars
<1>4. StreakBounds' /\ StepLeft'
  BY <1>0, <1>2 DEF StreakBounds, StepLeft, unverified
<1> QED  BY <1>0, <1>1, <1>3, <1>4, PlanKept DEF retryVars, unverified, reviewVars

LEMMA VerifyStep ==
    ASSUME Inv, VerifyNothing \/ StepNotDone \/ StepDone
    PROVE  Inv'
<1> USE DEF retryVars, streakVars, reviewVars, unverified
<1>0. phase = "verify"
  BY DEF VerifyNothing, StepNotDone, StepDone
<1>1. /\ TypeOK /\ WellFormed(plan) /\ turn \in Turn /\ Ids(plan) \subseteq Nodes
      /\ turn.leaf \in Ids(plan) \cup {NoNode} /\ turn.left \subseteq Ids(plan)
      /\ result = "running" /\ StreakBounds /\ turn.mode # "finish"
  BY <1>0, VerifyParts DEF StepLeft
<1>2. CASE VerifyNothing
  <2>1. TypeOK'
    BY <1>1, <1>2 DEF VerifyNothing, TypeOK, Phases
  <2> QED  BY <1>1, <1>2, <2>1, PlanKept DEF VerifyNothing, StreakBounds, StepLeft
<1>3. CASE StepNotDone
  <2>1. Judge(TRUE)
    BY <1>3 DEF StepNotDone
  <2>2. /\ UNCHANGED <<plan, subtreeStreak, chainStreak, escalated, reviews, resumes, orphanOf>>
        /\ lastFailed' \in Ids(plan) \cup {NoNode}
        /\ steps' \in 0 .. MaxSteps /\ idle' \in 0 .. 2
        /\ phase \in {"verify", "rollup", "finish"}
    BY <1>0, <1>1, <1>3 DEF StepNotDone, TypeOK
  <2> QED  BY <2>1, <2>2, JudgeKeeps, Zenon
<1>4. CASE StepDone
  <2>1. turn.leaf \in Ids(plan)
    BY <1>1, <1>4 DEF StepDone
  <2>2. Complete(turn.leaf)
    BY <1>4 DEF StepDone
  <2> QED  BY <1>0, <1>1, <1>4, <2>1, <2>2, CompleteKeeps DEF StepDone
<1> QED  BY <1>2, <1>3, <1>4

\* What is planned after a checkpoint is spliced in; every node stays.
LEMMA ContinuationPlan ==
    ASSUME plan \in Seq(PlanNode), WellFormed(plan), NEW c \in Ids(plan),
           NEW f \in Forests, NEW live, Ids(plan) \subseteq live,
           NEW ids \in Names(Len(f), FreeIds(live), {}),
           NEW p, p = SetStatus(InsertAfter(plan, c, Grown(f, ids, Node(plan, c).depth - 1)),
                                c, "completed")
    PROVE  p \in Seq(PlanNode) /\ WellFormed(p) /\ Ids(plan) \subseteq Ids(p)
<1>1. f \in Seq(Shoot) /\ Shaped(f) /\ Len(f) \in Nat
  BY ForestType
<1>2. /\ ids \in [1 .. Len(f) -> Nodes] /\ IsInjective(ids)
      /\ \A i \in 1 .. Len(f) : ids[i] \in FreeIds(live) \cup {}
  <2>1. FreeIds(live) \in SUBSET Nodes /\ {} \in SUBSET Nodes
    BY DEF FreeIds
  <2> QED  BY <1>1, <2>1, NamesType
<1>3. \A i \in 1 .. Len(f) : ids[i] \notin Ids(plan)
  BY <1>2 DEF FreeIds
<1>4. PICK d : d = Node(plan, c).depth - 1
  OBVIOUS
<1>5. d \in Nat
  BY <1>4, AtPosition
<1>6. PICK q : q = InsertAfter(plan, c, Grown(f, ids, d))
  OBVIOUS
<1>7. q \in Seq(PlanNode) /\ WellFormed(q) /\ Ids(plan) \subseteq Ids(q)
  BY <1>1, <1>2, <1>3, <1>4, <1>5, <1>6, InsertAfterPlan
<1>8. p = SetStatus(q, c, "completed")
  BY <1>4, <1>6
<1> QED  BY <1>7, <1>8, SetStatusPlan DEF Statuses

LEMMA RollupStep ==
    ASSUME Inv, NEW b \in Nodes, RollupRejects(b) \/ RollupPasses(b) \/ CheckpointPasses(b)
    PROVE  Inv'
<1> USE DEF retryVars, streakVars, reviewVars, unverified
<1>0. phase = "rollup" /\ b \in Ids(plan)
  BY DEF RollupRejects, RollupPasses, CheckpointPasses, FirstReady, ReadyBranches, Branches
<1>1. /\ TypeOK /\ plan \in Seq(PlanNode) /\ WellFormed(plan) /\ turn \in Turn
      /\ Ids(plan) \subseteq Nodes
      /\ turn.leaf \in Ids(plan) \cup {NoNode} /\ turn.left \subseteq Ids(plan)
      /\ result = "running" /\ StreakBounds /\ StepLeft
      /\ ~BareFinish => turn.mode # "finish"
  BY <1>0, VerifyParts
<1>2. CASE RollupRejects(b)
  <2>1. /\ UNCHANGED <<plan, subtreeStreak, chainStreak, escalated, reviews, resumes, orphanOf>>
        /\ lastFailed' \in Ids(plan) \cup {NoNode}
    BY <1>0, <1>2 DEF RollupRejects
  <2>2. CASE turn.mode = "finish"
    <3>1. RejectFinish
      BY <1>2, <2>2 DEF RollupRejects
    <3> QED  BY <1>0, <2>1, <2>2, <3>1, RejectFinishKeeps, Zenon
  <2>3. CASE turn.mode # "finish"
    <3>1. Judge(TRUE)
      BY <1>2, <2>3 DEF RollupRejects
    <3>2. steps' \in 0 .. MaxSteps /\ idle' \in 0 .. 2
      BY <1>1, <1>2, <2>3 DEF RollupRejects, TypeOK
    <3>3. phase \in {"verify", "rollup", "finish"}
      BY <1>0
    <3> QED  BY <2>1, <3>1, <3>2, <3>3, JudgeKeeps, Zenon
  <2> QED  BY <2>2, <2>3
<1>3. CASE RollupPasses(b)
  <2>1. Complete(b)
    BY <1>3 DEF RollupPasses
  <2> QED  BY <1>0, <1>1, <1>3, <2>1, CompleteKeeps DEF RollupPasses
<1>4. CASE CheckpointPasses(b)
  <2>1. PICK answer, forest \in Forests :
           \E ids \in Names(Len(forest), FreeIds(Ids(plan) \cup Counted), {}) :
              /\ plan' = SetStatus(InsertAfter(plan, b,
                                       Grown(forest, ids, Node(plan, b).depth - 1)),
                                   b, "completed")
              /\ chainStreak' = ChainAfter(chainStreak, b, answer, TopIds(forest, ids))
    BY <1>4 DEF CheckpointPasses
  <2>2. PICK ids \in Names(Len(forest), FreeIds(Ids(plan) \cup Counted), {}) :
           /\ plan' = SetStatus(InsertAfter(plan, b,
                                    Grown(forest, ids, Node(plan, b).depth - 1)),
                                b, "completed")
           /\ chainStreak' = ChainAfter(chainStreak, b, answer, TopIds(forest, ids))
    BY <2>1
  <2>3. plan' \in Seq(PlanNode) /\ WellFormed(plan') /\ Ids(plan) \subseteq Ids(plan')
    BY <1>0, <1>1, <2>2, ContinuationPlan
  <2>4. /\ chainStreak' \in [Charged -> Nat]
        /\ \A m \in Charged : chainStreak'[m] < ChainLimit
    BY <1>0, <1>1, <2>2, ChainType, Constants DEF TypeOK, StreakBounds
  <2>5. /\ subtreeStreak' \in [Charged -> Nat]
        /\ \A m \in Charged : subtreeStreak'[m] < WidenLimit
    BY <1>1, <1>4, ProgressedType DEF CheckpointPasses
  <2>6. TypeOK'
    BY <1>1, <1>4, <2>3, <2>4, <2>5 DEF CheckpointPasses, TypeOK
  <2>7. StreakBounds' /\ StepLeft'
    BY <1>1, <1>4, <2>4, <2>5 DEF CheckpointPasses, StreakBounds, StepLeft
  <2> QED  BY <1>0, <1>1, <1>4, <2>3, <2>6, <2>7, PlanKept DEF CheckpointPasses
<1> QED  BY <1>2, <1>3, <1>4

LEMMA SettledStep ==
    ASSUME Inv, TurnDone \/ FinishPhrase \/ DeferredFinish \/ AskedSettled
    PROVE  Inv'
<1> USE DEF retryVars, streakVars, reviewVars, unverified
<1>0. phase = "rollup" /\ lastFailed' = NoNode
  BY DEF TurnDone, FinishPhrase, DeferredFinish, AskedSettled, Settled
<1>1. /\ TypeOK /\ WellFormed(plan) /\ turn \in Turn /\ Ids(plan) \subseteq Nodes
      /\ turn.leaf \in Ids(plan) \cup {NoNode} /\ turn.left \subseteq Ids(plan)
      /\ result = "running" /\ StreakBounds /\ StepLeft /\ turn.charge \in Charged
      /\ phase = "rollup" /\ lastFailed' = NoNode /\ FALSE \in BOOLEAN
      /\ ~BareFinish => turn.mode # "finish"
  BY <1>0, VerifyParts
<1>2. CASE TurnDone
  <2>1. Judge(FALSE)
    BY <1>2 DEF TurnDone
  <2>2. /\ UNCHANGED <<plan, subtreeStreak, chainStreak, escalated, reviews, resumes, orphanOf>>
        /\ lastFailed' \in Ids(plan) \cup {NoNode}
        /\ steps' \in 0 .. MaxSteps /\ idle' \in 0 .. 2
        /\ phase \in {"verify", "rollup", "finish"}
    BY <1>0, <1>1, <1>2 DEF TurnDone, TypeOK
  <2> QED  BY <2>1, <2>2, JudgeKeeps, Zenon
<1>3. CASE FinishPhrase
  <2>1. failures' \in [Charged -> 0 .. MaxRetries]
    BY <1>1, <1>3, RecordedType DEF FinishPhrase
  <2>2. TypeOK'
    BY <1>1, <1>3, <2>1, NoTurnType DEF FinishPhrase, Settled, Finish, TypeOK, Phases, Results
  <2> QED  BY <1>1, <1>3, <2>2, NoTurnType, PlanKept
           DEF FinishPhrase, Settled, Finish, StreakBounds, StepLeft
<1>4. CASE DeferredFinish
  <2>1. failures' \in [Charged -> 0 .. MaxRetries]
    BY <1>1, <1>4, RecordedType DEF DeferredFinish
  <2>2. TypeOK'
    BY <1>1, <1>4, <2>1, NoTurnType DEF DeferredFinish, Settled, Finish, TypeOK, Phases, Results
  <2> QED  BY <1>1, <1>4, <2>2, NoTurnType, PlanKept
           DEF DeferredFinish, Settled, Finish, StreakBounds, StepLeft
<1>5. CASE AskedSettled
  <2>1. TypeOK'
    BY <1>1, <1>5 DEF AskedSettled, Settled, TypeOK, Phases
  <2> QED  BY <1>1, <1>5, <2>1, PlanKept DEF AskedSettled, Settled, StreakBounds, StepLeft
<1> QED  BY <1>2, <1>3, <1>4, <1>5

LEMMA AskedStep ==
    ASSUME Inv, \/ \E n \in Nodes : AskedDone(n) \/ AskedNotDone(n)
                \/ FinishAccepted
    PROVE  Inv'
<1> USE DEF retryVars, streakVars, reviewVars, unverified
<1>0. phase = "finish"
  BY DEF AskedDone, AskedNotDone, FinishAccepted, AtHand
<1>1. /\ TypeOK /\ WellFormed(plan) /\ turn \in Turn /\ Ids(plan) \subseteq Nodes
      /\ turn.leaf \in Ids(plan) \cup {NoNode} /\ turn.left \subseteq Ids(plan)
      /\ result = "running" /\ StreakBounds /\ StepLeft /\ BareFinish
  BY <1>0, VerifyParts
<1>2. ASSUME NEW n \in Nodes, AskedDone(n)
      PROVE  Inv'
  <2>1. n \in turn.left /\ n \in Ids(plan) /\ Complete(n)
    BY <1>1, <1>2 DEF AskedDone, AtHand
  <2>2. /\ turn' \in Turn /\ turn'.leaf = turn.leaf /\ turn'.mode = turn.mode
        /\ turn'.left \subseteq turn.left
    BY <1>1, <1>2 DEF AskedDone, Turn
  <2> QED  BY <1>0, <1>2, <2>1, <2>2, CompleteKeeps DEF AskedDone
<1>3. ASSUME NEW n \in Nodes, AskedNotDone(n)
      PROVE  Inv'
  <2>1. RejectFinish
    BY <1>3 DEF AskedNotDone
  <2>2. /\ UNCHANGED <<plan, subtreeStreak, chainStreak, escalated, reviews, resumes, orphanOf>>
        /\ lastFailed' \in Ids(plan) \cup {NoNode}
    BY <1>1, <1>3 DEF AskedNotDone, AtHand
  <2> QED  BY <1>0, <2>1, <2>2, RejectFinishKeeps, Zenon
<1>4. CASE FinishAccepted
  <2>1. TypeOK'
    BY <1>1, <1>4, NoTurnType DEF FinishAccepted, Finish, TypeOK, Phases, Results
  <2>2. lastFailed' \in Ids(plan) \cup {NoNode, lastFailed}
    BY <1>4 DEF FinishAccepted
  <2> QED  BY <1>1, <1>4, <2>1, <2>2, NoTurnType, PlanKept
           DEF FinishAccepted, Finish, StreakBounds, StepLeft
<1> QED  BY <1>2, <1>3, <1>4

-----------------------------------------------------------------------------
(* Replans.                                                                *)

\* A streak stays below its limit: at the limit it starts again.
LEMMA BumpedType ==
    ASSUME TypeOK, StreakBounds
    PROVE  /\ BumpedStreak \in [Charged -> Nat]
           /\ \A m \in Charged : BumpedStreak[m] < WidenLimit
<1>1. WidenLimit \in Nat \ {0} /\ subtreeStreak \in [Charged -> Nat]
  BY Constants DEF TypeOK
<1>2. ASSUME NEW m \in Charged
      PROVE  /\ (IF m # SuspectParent THEN subtreeStreak[m]
                 ELSE IF Stuck THEN 0 ELSE SuspectStreak) \in Nat
             /\ (IF m # SuspectParent THEN subtreeStreak[m]
                 ELSE IF Stuck THEN 0 ELSE SuspectStreak) < WidenLimit
  <2>1. CASE m # SuspectParent
    BY <1>1, <1>2, <2>1 DEF StreakBounds
  <2>2. CASE m = SuspectParent
    <3>1. SuspectStreak \in Nat
      BY <1>1, <1>2, <2>2 DEF SuspectStreak
    <3>2. CASE Stuck
      BY <1>1, <2>2, <3>2
    <3>3. CASE ~Stuck
      BY <1>1, <2>2, <3>1, <3>3 DEF Stuck
    <3> QED  BY <3>2, <3>3
  <2> QED  BY <2>1, <2>2
<1> QED  BY <1>2 DEF BumpedStreak

\* The counters after a replan that is due.
LEMMA ReplannedType ==
    ASSUME TypeOK, RetryBudget, NEW n \in Charged, replans[n] < MaxReplans
    PROVE  /\ Replanned(n) \in [Charged -> Nat]
           /\ \A m \in Charged : Replanned(n)[m] <= MaxReplans
           /\ Relieved(n) \in [Charged -> 0 .. MaxRetries]
<1>1. replans \in [Charged -> Nat] /\ failures \in [Charged -> 0 .. MaxRetries]
      /\ MaxReplans \in Nat /\ MaxRetries \in Nat
  BY Constants DEF TypeOK
<1> QED  BY <1>1 DEF Replanned, Relieved, RetryBudget

\* What every replan is due to, and what the turn it ends leaves behind.
LEMMA ReplanParts ==
    ASSUME Inv, phase = "replan"
    PROVE  /\ TypeOK /\ plan \in Seq(PlanNode) /\ WellFormed(plan) /\ Ids(plan) \subseteq Nodes
           /\ turn.leaf \in Ids(plan) \cup {NoNode} /\ turn.left \subseteq Ids(plan)
           /\ turn.charge \in Charged
           /\ result = "running" /\ StreakBounds /\ RetryBudget
           /\ Replanned(turn.charge) \in [Charged -> Nat]
           /\ \A m \in Charged : Replanned(turn.charge)[m] <= MaxReplans
           /\ Relieved(turn.charge) \in [Charged -> 0 .. MaxRetries]
           /\ BumpedStreak \in [Charged -> Nat]
           /\ \A m \in Charged : BumpedStreak[m] < WidenLimit
           /\ \A m \in Charged : chainStreak[m] < ChainLimit
           /\ chainStreak \in [Charged -> Nat]
<1>1. /\ TypeOK /\ RetryBudget /\ StreakBounds /\ turn.charge \in Charged
      /\ replans[turn.charge] < MaxReplans
  BY VerifyParts, InvParts
<1>2. \A m \in Charged : chainStreak[m] < ChainLimit
  BY <1>1 DEF StreakBounds
<1>3. chainStreak \in [Charged -> Nat]
  BY <1>1 DEF TypeOK
<1>4. /\ plan \in Seq(PlanNode) /\ WellFormed(plan) /\ Ids(plan) \subseteq Nodes
      /\ turn.leaf \in Ids(plan) \cup {NoNode} /\ turn.left \subseteq Ids(plan)
      /\ result = "running"
  BY VerifyParts
<1> QED  BY <1>1, <1>2, <1>3, <1>4, BumpedType, ReplannedType

\* A replan keeps the invariant when its plan is a tree and its streaks are low.
LEMMA ReplanKeeps ==
    ASSUME Inv, phase = "replan", EndReplan,
           plan' \in Seq(PlanNode), WellFormed(plan'),
           failures' \in [Charged -> 0 .. MaxRetries],
           replans' \in [Charged -> Nat], \A m \in Charged : replans'[m] <= MaxReplans,
           subtreeStreak' \in [Charged -> Nat],
           \A m \in Charged : subtreeStreak'[m] < WidenLimit,
           chainStreak' \in [Charged -> Nat], \A m \in Charged : chainStreak'[m] < ChainLimit
    PROVE  Inv'
<1>1. TypeOK /\ result = "running"
  BY ReplanParts
<1>2. /\ turn' = NoTurn /\ phase' = "turn" /\ result' = "running" /\ lastFailed' = NoNode
      /\ UNCHANGED <<orphanOf, escalated, steps, idle, reviews, resumes>>
  BY <1>1 DEF EndReplan, unverified, reviewVars
<1>3. TypeOK'
  BY <1>1, <1>2, NoTurnType DEF TypeOK, Phases
<1>4. RetryBudget' /\ StreakBounds'
  BY DEF RetryBudget, StreakBounds
<1> QED  BY <1>2, <1>3, <1>4, PlanPruned

LEMMA ReplanSubtreeStep ==
    ASSUME Inv, NEW n \in Nodes, ReplanSubtree(n)
    PROVE  Inv'
<1>0. phase = "replan" /\ n \in Ids(plan) /\ EndReplan /\ n \in Charged
  BY Constants DEF ReplanSubtree
<1>1. /\ TypeOK /\ plan \in Seq(PlanNode) /\ WellFormed(plan)
      /\ Replanned(turn.charge) \in [Charged -> Nat]
      /\ \A m \in Charged : Replanned(turn.charge)[m] <= MaxReplans
      /\ Relieved(turn.charge) \in [Charged -> 0 .. MaxRetries]
      /\ BumpedStreak \in [Charged -> Nat]
      /\ \A m \in Charged : BumpedStreak[m] < WidenLimit
      /\ \A m \in Charged : chainStreak[m] < ChainLimit
      /\ chainStreak \in [Charged -> Nat]
  BY <1>0, ReplanParts
<1> DEFINE live == Spared(plan, n)
           chain == Forget(chainStreak, live)
<1>2. PICK f \in Forests : \E ids \in Names(Len(f), FreeIds(live), {}) :
         /\ plan' = SetStatus(Hung(plan, n, IF IsCheckpoint(plan, n)
                                            THEN Bounded(n, f) ELSE f, ids),
                              n, "pending")
         /\ chainStreak' = IF IsCheckpoint(plan, n)
                           THEN ChainAfter(chain, n, f, TopIds(f, ids)) ELSE chain
         /\ subtreeStreak' = Forget(BumpedStreak, live)
         /\ replans' = Forget(Replanned(turn.charge), live)
         /\ failures' = Forget(Relieved(turn.charge), live)
  BY DEF ReplanSubtree
<1>3. PICK ids \in Names(Len(f), FreeIds(live), {}) :
         /\ plan' = SetStatus(Hung(plan, n, IF IsCheckpoint(plan, n)
                                            THEN Bounded(n, f) ELSE f, ids),
                              n, "pending")
         /\ chainStreak' = IF IsCheckpoint(plan, n)
                           THEN ChainAfter(chain, n, f, TopIds(f, ids)) ELSE chain
         /\ subtreeStreak' = Forget(BumpedStreak, live)
         /\ replans' = Forget(Replanned(turn.charge), live)
         /\ failures' = Forget(Relieved(turn.charge), live)
  BY <1>2
<1>4. PICK g : g = IF IsCheckpoint(plan, n) THEN Bounded(n, f) ELSE f
  OBVIOUS
<1>5. g \in Seq(Shoot) /\ Shaped(g) /\ Len(g) = Len(f)
  BY <1>4, ForestType
<1>6. PICK q : q = Hung(plan, n, g, ids)
  OBVIOUS
<1>7. q \in Seq(PlanNode) /\ WellFormed(q) /\ n \in Ids(q)
  BY <1>0, <1>1, <1>3, <1>5, <1>6, HungPlan
<1>8. plan' = SetStatus(q, n, "pending")
  BY <1>3, <1>4, <1>6
<1>9. plan' \in Seq(PlanNode) /\ WellFormed(plan')
  BY <1>7, <1>8, SetStatusPlan DEF Statuses
<1> HIDE DEF live
<1>10. chain \in [Charged -> Nat] /\ \A m \in Charged : chain[m] < ChainLimit
  BY <1>1, Constants, ForgetBelow
<1> HIDE DEF chain
<1>11. chainStreak' \in [Charged -> Nat] /\ \A m \in Charged : chainStreak'[m] < ChainLimit
  BY <1>0, <1>1, <1>3, <1>10, ChainType
<1>12. /\ subtreeStreak' \in [Charged -> Nat]
       /\ \A m \in Charged : subtreeStreak'[m] < WidenLimit
  BY <1>1, <1>3, Constants, ForgetBelow
<1>13. replans' \in [Charged -> Nat] /\ \A m \in Charged : replans'[m] <= MaxReplans
  BY <1>1, <1>3, Constants, ForgetAtMost
<1>14. failures' \in [Charged -> 0 .. MaxRetries]
  BY <1>1, <1>3, Constants, ForgetUpTo
<1> QED  BY <1>0, <1>9, <1>11, <1>12, <1>13, <1>14, ReplanKeeps

LEMMA ReplanOrphanStep ==
    ASSUME Inv, ReplanOrphan
    PROVE  Inv'
<1>0. phase = "replan" /\ EndReplan
  BY DEF ReplanOrphan
<1>1. UNCHANGED <<plan, chainStreak>>
  BY DEF ReplanOrphan
<1> QED  BY <1>0, <1>1, ReplanParts, ReplanKeeps DEF ReplanOrphan

LEMMA ReplanAllStep ==
    ASSUME Inv, ReplanAll
    PROVE  Inv'
<1>0. phase = "replan" /\ EndReplan
  BY DEF ReplanAll
<1>1. /\ TypeOK /\ plan \in Seq(PlanNode) /\ WellFormed(plan) /\ Ids(plan) \subseteq Nodes
      /\ Replanned(turn.charge) \in [Charged -> Nat]
      /\ \A m \in Charged : Replanned(turn.charge)[m] <= MaxReplans
      /\ Relieved(turn.charge) \in [Charged -> 0 .. MaxRetries]
      /\ \A m \in Charged : chainStreak[m] < ChainLimit
      /\ chainStreak \in [Charged -> Nat]
      /\ subtreeStreak \in [Charged -> Nat]
      /\ \A m \in Charged : subtreeStreak[m] < WidenLimit
      /\ WidenLimit \in Nat \ {0}
  BY <1>0, ReplanParts, Constants DEF TypeOK, StreakBounds
<1> DEFINE claims == {t \in Tops(plan) : Status(plan, t) # "completed"}
           afresh == [subtreeStreak EXCEPT ![Root] = 0]
<1>2. PICK answer \in {f \in Forests : Flat(f)}, places \in Ascending(KeptPositions(plan)) :
         \E ids \in Names(Len(answer), FreeIds(Ids(plan)), claims) :
            plan' = Revised(plan, places, Grown(answer, ids, 0))
  BY DEF ReplanAll
<1>3. PICK ids \in Names(Len(answer), FreeIds(Ids(plan)), claims) :
         plan' = Revised(plan, places, Grown(answer, ids, 0))
  BY <1>2
<1>4. answer \in Seq(Shoot) /\ Flat(answer) /\ Len(answer) \in Nat
  BY <1>2, ForestType
<1>5. claims \in SUBSET Nodes /\ FreeIds(Ids(plan)) \in SUBSET Nodes
  BY <1>1 DEF Tops, FreeIds
<1>6. /\ ids \in [1 .. Len(answer) -> Nodes] /\ IsInjective(ids)
      /\ \A i \in 1 .. Len(answer) : ids[i] \in FreeIds(Ids(plan)) \cup claims
  BY <1>4, <1>5, NamesType
<1>7. \A i \in 1 .. Len(answer) : \A j \in KeptPositions(plan) : ids[i] # plan[j].id
  <2> SUFFICES ASSUME NEW i \in 1 .. Len(answer), NEW j \in KeptPositions(plan),
                      ids[i] = plan[j].id
               PROVE  FALSE
    OBVIOUS
  <2>1. j \in DOMAIN plan /\ (plan[j].depth = 1 => plan[j].status = "completed")
    BY <1>1, KeptClosed, PlanDomain
  <2>2. plan[j].id \in Ids(plan) /\ At(plan, plan[j].id) = j
    BY <1>1, <2>1, AtUnique
  <2>3. ids[i] \in claims
    BY <1>6, <2>2 DEF FreeIds
  <2>4. Node(plan, ids[i]) = plan[j]
    BY <2>2 DEF Node
  <2> QED  BY <2>1, <2>3, <2>4 DEF Tops, Status
<1>8. plan' \in Seq(PlanNode) /\ WellFormed(plan')
  BY <1>1, <1>2, <1>3, <1>4, <1>6, <1>7, RevisedPlan
<1>9. afresh \in [Charged -> Nat] /\ \A m \in Charged : afresh[m] < WidenLimit
  BY <1>1, Constants
<1>10. /\ chainStreak' = Forget(chainStreak, Ids(plan'))
       /\ subtreeStreak' = Forget(afresh, Ids(plan'))
       /\ replans' = Forget(Replanned(turn.charge), Ids(plan'))
       /\ failures' = Forget(Relieved(turn.charge), Ids(plan'))
  BY DEF ReplanAll
<1> HIDE DEF claims, afresh
<1>11. chainStreak' \in [Charged -> Nat] /\ \A m \in Charged : chainStreak'[m] < ChainLimit
  BY <1>1, <1>10, Constants, ForgetBelow
<1>12. /\ subtreeStreak' \in [Charged -> Nat]
       /\ \A m \in Charged : subtreeStreak'[m] < WidenLimit
  BY <1>9, <1>10, Constants, ForgetBelow
<1>13. replans' \in [Charged -> Nat] /\ \A m \in Charged : replans'[m] <= MaxReplans
  BY <1>1, <1>10, Constants, ForgetAtMost
<1>14. failures' \in [Charged -> 0 .. MaxRetries]
  BY <1>1, <1>10, Constants, ForgetUpTo
<1> QED  BY <1>0, <1>8, <1>11, <1>12, <1>13, <1>14, ReplanKeeps

LEMMA RaiseStep ==
    ASSUME Inv, PlannerRaises
    PROVE  Inv'
<1> USE DEF retryVars, streakVars, reviewVars, unverified
<1>1. /\ TypeOK /\ WellFormed(plan) /\ Ids(plan) \subseteq Nodes /\ StreakBounds
  BY InvParts DEF Inv
<1>2. TypeOK'
  BY <1>1, NoTurnType DEF PlannerRaises, Finish, TypeOK, Phases, Results
<1> QED  BY <1>1, <1>2, NoTurnType, PlanKept DEF PlannerRaises, Finish, StreakBounds, StepLeft

-----------------------------------------------------------------------------
(* Escalations and what a human makes of them.                             *)

LEMMA EscalateStep ==
    ASSUME Inv, Escalate \/ EscalateRun
    PROVE  Inv'
<1> USE DEF retryVars, streakVars, reviewVars, unverified
<1>0. phase = "escalate"
  BY DEF Escalate, EscalateRun
<1>1. /\ TypeOK /\ plan \in Seq(PlanNode) /\ WellFormed(plan) /\ Ids(plan) \subseteq Nodes
      /\ turn.leaf \in Ids(plan) \cup {NoNode} /\ result = "running" /\ StreakBounds
  BY <1>0, VerifyParts
<1>2. CASE Escalate
  <2>1. Blamed \in Nodes
    BY <1>1, <1>2 DEF Escalate, Blamed, TypeOK
  <2>2. plan' \in Seq(PlanNode) /\ WellFormed(plan') /\ Ids(plan') = Ids(plan)
    BY <1>1, <1>2, SetStatusPlan DEF Escalate, Statuses
  <2>3. TypeOK'
    BY <1>1, <1>2, <2>1, <2>2, NoTurnType DEF Escalate, TypeOK, Phases
  <2> QED  BY <1>1, <1>2, <2>2, <2>3, NoTurnType, PlanKept DEF Escalate, StreakBounds, StepLeft
<1>3. CASE EscalateRun
  <2>1. TypeOK'
    BY <1>1, <1>3, NoTurnType DEF EscalateRun, Finish, TypeOK, Phases, Results
  <2> QED  BY <1>1, <1>3, <2>1, NoTurnType, PlanKept
           DEF EscalateRun, Finish, StreakBounds, StepLeft
<1> QED  BY <1>2, <1>3

LEMMA ResolveStep ==
    ASSUME Inv, Resolve
    PROVE  Inv'
<1> USE DEF retryVars, streakVars, reviewVars
<1>0. PICK n \in Nodes : \/ ResolveEdit(n) \/ ResolveRedecompose(n)
                         \/ ResolveReject(n) \/ ResolveRaises(n)
  BY DEF Resolve, Resolves
<1>1. phase = "done" /\ n \in Ids(plan) /\ resumes < MaxResumes
  BY <1>0 DEF ResolveEdit, ResolveRedecompose, ResolveReject, ResolveRaises, Resolvable
<1>2. /\ TypeOK /\ plan \in Seq(PlanNode) /\ WellFormed(plan) /\ Ids(plan) \subseteq Nodes
      /\ turn = NoTurn /\ StreakBounds /\ RetryBudget
      /\ resumes + 1 \in 0 .. MaxResumes /\ resumes + 1 # 0
  <2>1. resumes \in 0 .. MaxResumes /\ MaxResumes \in Nat
    BY Constants DEF Inv, TypeOK
  <2> QED  BY <1>1, <2>1, InvParts DEF Inv, TurnOver
<1>3. SetStatus(plan, n, "pending") \in Seq(PlanNode)
      /\ WellFormed(SetStatus(plan, n, "pending"))
      /\ Ids(SetStatus(plan, n, "pending")) = Ids(plan)
  BY <1>1, <1>2, SetStatusPlan DEF Statuses
<1>4. 0 \in 0 .. MaxSteps /\ 0 \in 0 .. 2
  BY Constants
<1>5. CASE ResolveEdit(n)
  <2>1. TypeOK'
    BY <1>2, <1>3, <1>4, <1>5 DEF ResolveEdit, Resume, TypeOK, Phases, Results
  <2>2. RetryBudget' /\ StreakBounds'
    BY <1>2, <1>5 DEF ResolveEdit, RetryBudget, StreakBounds
  <2> QED  BY <1>2, <1>3, <1>5, <2>1, <2>2, PlanPruned DEF ResolveEdit, Resume
<1>6. CASE ResolveRedecompose(n)
  <2> DEFINE live == Spared(plan, n)
             held == live \cup {lastFailed}
  <2>1. PICK f \in Forests : \E ids \in Names(Len(f), FreeIds(live), {}) :
           plan' = SetStatus(Hung(plan, n, f, ids), n, "pending")
    BY <1>6 DEF ResolveRedecompose
  <2>2. PICK ids \in Names(Len(f), FreeIds(live), {}) :
           plan' = SetStatus(Hung(plan, n, f, ids), n, "pending")
    BY <2>1
  <2>3. PICK q : q = Hung(plan, n, f, ids)
    OBVIOUS
  <2>4. q \in Seq(PlanNode) /\ WellFormed(q) /\ n \in Ids(q)
    BY <1>1, <1>2, <2>3, ForestType, HungPlan
  <2>5. plan' \in Seq(PlanNode) /\ WellFormed(plan')
    BY <2>2, <2>3, <2>4, SetStatusPlan DEF Statuses
  <2>6. /\ failures' = Forget(failures, held) /\ replans' = Forget(replans, held)
        /\ subtreeStreak' = Forget(subtreeStreak, held)
        /\ chainStreak' = Forget(chainStreak, held)
        /\ orphanOf' \in {orphanOf, n, NoNode}
    BY <1>6 DEF ResolveRedecompose
  <2> HIDE DEF held, live
  <2>7. failures' \in [Charged -> 0 .. MaxRetries]
    BY <1>2, <2>6, Constants, ForgetUpTo DEF TypeOK
  <2>8. replans' \in [Charged -> Nat] /\ \A m \in Charged : replans'[m] <= MaxReplans
    BY <1>2, <2>6, Constants, ForgetAtMost DEF TypeOK, RetryBudget
  <2>9. /\ subtreeStreak' \in [Charged -> Nat]
        /\ \A m \in Charged : subtreeStreak'[m] < WidenLimit
    BY <1>2, <2>6, Constants, ForgetBelow DEF TypeOK, StreakBounds
  <2>10. chainStreak' \in [Charged -> Nat] /\ \A m \in Charged : chainStreak'[m] < ChainLimit
    BY <1>2, <2>6, Constants, ForgetBelow DEF TypeOK, StreakBounds
  <2>11. /\ orphanOf' \in Nodes \cup {NoNode} /\ turn' = NoTurn /\ phase' = "turn"
         /\ result' = "running" /\ resumes' = resumes + 1 /\ steps' = 0 /\ idle' = 0
         /\ escalated' \subseteq Nodes /\ lastFailed' = lastFailed /\ reviews' = reviews
    BY <1>1, <1>2, <1>6, <2>6 DEF ResolveRedecompose, Resume, TypeOK
  <2>12. TypeOK'
    BY <1>2, <1>4, <2>5, <2>7, <2>8, <2>9, <2>10, <2>11 DEF TypeOK, Phases, Results
  <2>13. RetryBudget' /\ StreakBounds'
    BY <2>8, <2>9, <2>10 DEF RetryBudget, StreakBounds
  <2> QED  BY <1>2, <2>5, <2>11, <2>12, <2>13, PlanPruned
<1>7. CASE ResolveReject(n)
  <2>1. TypeOK'
    BY <1>2, <1>7 DEF ResolveReject, TypeOK, Results
  <2> QED  BY <1>1, <1>2, <1>7, <2>1, NoTurnType, EndKept DEF ResolveReject
<1>8. CASE ResolveRaises(n)
  <2>1. TypeOK'
    BY <1>2, <1>3, <1>8 DEF ResolveRaises, TypeOK, Results
  <2> QED  BY <1>1, <1>2, <1>3, <1>8, <2>1, NoTurnType, EndKept DEF ResolveRaises
<1> QED  BY <1>0, <1>5, <1>6, <1>7, <1>8

-----------------------------------------------------------------------------
(* The theorems.                                                           *)

LEMMA InvNext == Inv /\ [Next]_vars => Inv'
<1> SUFFICES ASSUME Inv, [Next]_vars PROVE Inv'
  OBVIOUS
<1>1. CASE Review
  BY <1>1, ReviewStep
<1>2. CASE LoopStep
  BY <1>2, TurnStep, ReplyStep, VerifyStep, RollupStep, SettledStep, AskedStep,
     ReplanSubtreeStep, ReplanOrphanStep, ReplanAllStep, RaiseStep, EscalateStep DEF LoopStep
<1>3. CASE Resolve
  BY <1>3, ResolveStep
<1>4. CASE UNCHANGED vars
  BY <1>4 DEF vars, retryVars, streakVars, reviewVars, Inv, TypeOK, PlanShape, RetryBudget,
     StreakBounds, TurnInPlan, TurnOver, StepLeft, FailingUntilResumed, FailingNodeInPlan,
     ReplanDue, EndIsDone, NeverAsked, SuccessMeansComplete
<1> QED  BY <1>1, <1>2, <1>3, <1>4 DEF Next, Done

\* The invariant holds in every run, whatever the model, the tools, the planner
\* and the human do.
THEOREM Invariant == Spec => []Inv
BY InvInit, InvNext, PTL DEF Spec

\* Every variable keeps its type; in particular a run never takes more than
\* max_steps turns.
THEOREM TypeCorrect == Spec => []TypeOK
<1>1. Inv => TypeOK
  BY DEF Inv
<1> QED  BY <1>1, Invariant, PTL

\* The plan is a tree of distinct nodes after every splice and every replan.
THEOREM PlanStaysTree == Spec => []PlanShape
<1>1. Inv => PlanShape
  BY DEF Inv
<1> QED  BY <1>1, Invariant, PTL

\* No node is replanned more than max_replans times on its own account.
THEOREM ReplansBounded == Spec => []RetryBudget
<1>1. Inv => RetryBudget
  BY DEF Inv
<1> QED  BY <1>1, Invariant, PTL

\* Neither streak is carried past a turn at its limit.
THEOREM StreaksBounded == Spec => []StreakBounds
<1>1. Inv => StreakBounds
  BY DEF Inv
<1> QED  BY <1>1, Invariant, PTL

\* A run in which the model never asks to finish with work unresolved succeeds
\* only with the whole plan completed.
THEOREM SuccessIsComplete == ASSUME ~BareFinish PROVE Spec => []SuccessMeansComplete
<1>1. Inv => SuccessMeansComplete
  BY DEF Inv
<1> QED  BY <1>1, Invariant, PTL

\* In a run that nobody resumes, the failing node is a node of the plan.
THEOREM FailingNodeLives == ASSUME MaxResumes = 0 PROVE Spec => []FailingNodeInPlan
<1>1. Inv => FailingNodeInPlan
  <2> SUFFICES ASSUME Inv PROVE FailingNodeInPlan
    OBVIOUS
  <2>1. resumes = 0
    BY DEF Inv, TypeOK
  <2> QED  BY <2>1 DEF Inv, FailingUntilResumed
<1> QED  BY <1>1, Invariant, PTL

-----------------------------------------------------------------------------
(* A completed branch is closed.                                           *)

\* The leaf a turn works is a leaf of the plan, and pending until it is verified.
LeafAtWork == turn.leaf # NoNode =>
                  /\ IsLeaf(plan, turn.leaf)
                  /\ phase \in {"reply", "verify"} => Status(plan, turn.leaf) = "pending"

\* While rollups are not under way, nothing of the failing node is completed.
FailingOpen == lastFailed # NoNode /\ phase \notin {"rollup", "done"} =>
                   Open(plan, lastFailed)

\* A turn without a failing node has a leaf to work or a node that was given up, or
\* the plan is complete.
SomethingToDo ==
    phase \in {"turn", "reply", "verify", "replan", "escalate"} /\ lastFailed = NoNode =>
        \/ PendingLeaf(plan) \/ IsComplete(plan)
        \/ \E n \in Ids(plan) : Status(plan, n) = "failed"

\* Nothing is worked before the review is over.
ReviewPending == phase = "review" => \A n \in Ids(plan) : Status(plan, n) = "pending"

\* What holds of a run until a human resumes it.
Path == resumes = 0 => /\ Closed(plan, escalated)
                       /\ LeafAtWork /\ FailingOpen /\ SomethingToDo

-----------------------------------------------------------------------------
(* What the edits of the handlers do to the tree.                          *)

\* The planner's answer under n.
LEMMA HungGraft ==
    ASSUME NEW p \in Seq(PlanNode), WellFormed(p), NEW n \in Ids(p),
           NEW f \in Seq(Shoot), Shaped(f),
           NEW live, Spared(p, n) \subseteq live,
           NEW ids \in Names(Len(f), FreeIds(live), {})
    PROVE  /\ Hung(p, n, f, ids) \in Seq(PlanNode) /\ WellFormed(Hung(p, n, f, ids))
           /\ n \in Ids(Hung(p, n, f, ids))
           /\ Grafted(p, Hung(p, n, f, ids), Spared(p, n), {n} \cup Ancestors(p, n))
<1>1. Len(f) \in Nat /\ FreeIds(live) \in SUBSET Nodes /\ {} \in SUBSET Nodes
  BY LenProperties DEF FreeIds
<1>2. /\ ids \in [1 .. Len(f) -> Nodes] /\ IsInjective(ids)
      /\ \A i \in 1 .. Len(f) : ids[i] \in FreeIds(live) \cup {}
  BY <1>1, NamesType
<1>3. \A i \in 1 .. Len(f) : ids[i] \notin Spared(p, n)
  BY <1>2 DEF FreeIds
<1>4. Node(p, n).depth \in Nat
  BY AtPosition
<1> QED  BY <1>2, <1>3, <1>4, HungPlan, ChildrenGraft DEF Hung

\* Its children gone.
LEMMA BareGraft ==
    ASSUME NEW p \in Seq(PlanNode), WellFormed(p), NEW n \in Ids(p)
    PROVE  Grafted(p, ReplaceChildren(p, n, <<>>), Spared(p, n), {n} \cup Ancestors(p, n))
<1> DEFINE none == [i \in 1 .. 0 |-> n]
<1>1. PICK empty : empty = <<>>
  OBVIOUS
<1>2. empty \in Seq(Shoot) /\ Shaped(empty) /\ Len(empty) = 0
  BY <1>1, EmptySeq DEF Shaped
<1>3. none \in [1 .. Len(empty) -> Nodes] /\ IsInjective(none)
  BY <1>2 DEF IsInjective
<1>4. PICK d : d = Node(p, n).depth
  OBVIOUS
<1>5. d \in Nat
  BY <1>4, AtPosition
<1> HIDE DEF none
<1>6. PICK new : new = Grown(empty, none, d)
  OBVIOUS
<1>7. \A i \in 1 .. Len(empty) : none[i] \notin Spared(p, n)
  BY <1>2
<1>8. Grafted(p, ReplaceChildren(p, n, new), Spared(p, n), {n} \cup Ancestors(p, n))
  BY <1>2, <1>3, <1>4, <1>5, <1>6, <1>7, ChildrenGraft
<1>9. new \in Seq(PlanNode) /\ Len(new) = 0
  BY <1>2, <1>3, <1>5, <1>6, GrownPlan
<1>10. new = <<>>
  BY <1>9, EmptySeq
<1> QED  BY <1>8, <1>10, Zenon

\* What is spliced in after a checkpoint.
LEMMA ContinuationGraft ==
    ASSUME NEW p \in Seq(PlanNode), WellFormed(p), NEW c \in Ids(p),
           NEW f \in Forests, NEW live, Ids(p) \subseteq live,
           NEW ids \in Names(Len(f), FreeIds(live), {}),
           NEW q, q = InsertAfter(p, c, Grown(f, ids, Node(p, c).depth - 1))
    PROVE  /\ q \in Seq(PlanNode) /\ WellFormed(q) /\ c \in Ids(q)
           /\ Grafted(p, q, Ids(p), Ancestors(p, c))
<1>1. f \in Seq(Shoot) /\ Shaped(f) /\ Len(f) \in Nat
  BY ForestType
<1>2. /\ ids \in [1 .. Len(f) -> Nodes] /\ IsInjective(ids)
      /\ \A i \in 1 .. Len(f) : ids[i] \in FreeIds(live) \cup {}
  <2>1. FreeIds(live) \in SUBSET Nodes /\ {} \in SUBSET Nodes
    BY DEF FreeIds
  <2> QED  BY <1>1, <2>1, NamesType
<1>3. \A i \in 1 .. Len(f) : ids[i] \notin Ids(p)
  BY <1>2 DEF FreeIds
<1>4. PICK d : d = Node(p, c).depth - 1
  OBVIOUS
<1>5. d \in Nat
  BY <1>4, AtPosition
<1>6. q = InsertAfter(p, c, Grown(f, ids, d))
  BY <1>4
<1>7. q \in Seq(PlanNode) /\ WellFormed(q) /\ Ids(p) \subseteq Ids(q)
  BY <1>1, <1>2, <1>3, <1>4, <1>5, <1>6, InsertAfterPlan
<1>8. Grafted(p, q, Ids(p), Ancestors(p, c))
  BY <1>1, <1>2, <1>3, <1>4, <1>5, <1>6, InsertGraft
<1> QED  BY <1>7, <1>8

\* The whole plan revised: what is kept are completed steps.
LEMMA WholeGraft ==
    ASSUME NEW p \in Seq(PlanNode), WellFormed(p),
           NEW places \in Ascending(KeptPositions(p)),
           NEW f \in Forests, Flat(f),
           NEW ids \in Names(Len(f), FreeIds(Ids(p)),
                             {t \in Tops(p) : Status(p, t) # "completed"}),
           NEW q, q = Revised(p, places, Grown(f, ids, 0))
    PROVE  /\ q \in Seq(PlanNode) /\ WellFormed(q) /\ Grafted(p, q, KeptIds(p), {})
           /\ \A m \in Ids(q) \ KeptIds(p) :
                 m \in Tops(q) /\ (m \in Ids(p) => m \in Tops(p) /\ Status(p, m) # "completed")
<1> DEFINE claims == {t \in Tops(p) : Status(p, t) # "completed"}
<1>1. f \in Seq(Shoot) /\ Len(f) \in Nat /\ Ids(p) \subseteq Nodes
  BY ForestType, PlanDomain
<1>2. claims \in SUBSET Nodes /\ FreeIds(Ids(p)) \in SUBSET Nodes
  BY <1>1 DEF Tops, FreeIds
<1>3. /\ ids \in [1 .. Len(f) -> Nodes] /\ IsInjective(ids)
      /\ \A i \in 1 .. Len(f) : ids[i] \in FreeIds(Ids(p)) \cup claims
  BY <1>1, <1>2, NamesType
<1>4. \A i \in 1 .. Len(f) : \A j \in KeptPositions(p) : ids[i] # p[j].id
  <2> SUFFICES ASSUME NEW i \in 1 .. Len(f), NEW j \in KeptPositions(p), ids[i] = p[j].id
               PROVE  FALSE
    OBVIOUS
  <2>1. j \in DOMAIN p /\ (p[j].depth = 1 => p[j].status = "completed")
    BY KeptClosed, PlanDomain
  <2>2. p[j].id \in Ids(p) /\ At(p, p[j].id) = j
    BY <2>1, AtUnique
  <2>3. ids[i] \in claims
    BY <1>3, <2>2 DEF FreeIds
  <2>4. Node(p, ids[i]) = p[j]
    BY <2>2 DEF Node
  <2> QED  BY <2>1, <2>3, <2>4 DEF Tops, Status
<1>5. q \in Seq(PlanNode) /\ WellFormed(q)
  BY <1>1, <1>3, <1>4, RevisedPlan
<1>6. /\ Grafted(p, q, KeptIds(p), {})
      /\ Ids(q) = KeptIds(p) \cup {ids[i] : i \in 1 .. Len(f)}
      /\ \A m \in Ids(q) \ KeptIds(p) : m \in Tops(q)
  BY <1>1, <1>3, <1>4, RevisedGraft
<1>7. ASSUME NEW m \in Ids(q) \ KeptIds(p), m \in Ids(p)
      PROVE  m \in Tops(p) /\ Status(p, m) # "completed"
  BY <1>3, <1>6, <1>7 DEF FreeIds
<1> QED  BY <1>5, <1>6, <1>7

\* A checkpoint that is none any more: the same tree, as far as it was worked.
LEMMA DemotedTree ==
    ASSUME NEW p \in Seq(PlanNode), WellFormed(p), NEW n \in Ids(p), NEW f
    PROVE  LET q == DemoteChildless(p, n, f)
           IN  /\ q \in Seq(PlanNode) /\ WellFormed(q) /\ Ids(q) = Ids(p) /\ Len(q) = Len(p)
               /\ \A i \in 1 .. Len(p) : q[i].id = p[i].id /\ q[i].depth = p[i].depth
               /\ \A m \in Ids(p) : Ancestors(q, m) = Ancestors(p, m)
               /\ \A m \in Ids(p) : Status(q, m) = Status(p, m)
<1> DEFINE q == DemoteChildless(p, n, f)
<1>1. /\ q \in Seq(PlanNode) /\ Len(q) = Len(p)
      /\ \A i \in 1 .. Len(p) : q[i].id = p[i].id /\ q[i].depth = p[i].depth
  BY DemoteChildlessPlan
<1>2. /\ Ids(q) = Ids(p) /\ WellFormed(q)
      /\ \A m \in Ids(p) : At(q, m) = At(p, m) /\ Ancestors(q, m) = Ancestors(p, m)
  BY <1>1, SameTree
<1>3. \A i \in 1 .. Len(p) : q[i].status = p[i].status
  <2>1. PICK a : a = At(p, n)
    OBVIOUS
  <2>2. a \in 1 .. Len(p) /\ DOMAIN p = 1 .. Len(p) /\ \A i \in 1 .. Len(p) : p[i] \in PlanNode
    BY <2>1, AtPosition, PlanDomain
  <2>3. PICK e : e = [p[a] EXCEPT !.kind = "plain"]
    OBVIOUS
  <2>4. e.status = p[a].status
    BY <2>2, <2>3 DEF PlanNode
  <2>5. q = p \/ q = [p EXCEPT ![a] = e]
    BY <2>1, <2>3 DEF DemoteChildless
  <2> QED  BY <2>2, <2>4, <2>5
<1>4. \A m \in Ids(p) : Status(q, m) = Status(p, m)
  BY <1>2, <1>3, AtPosition DEF Status, Node
<1> QED  BY <1>1, <1>2, <1>4

-----------------------------------------------------------------------------
(* Every step of the path to the first end of the run.                     *)

LEMMA PathParts ==
    ASSUME Inv, ~BareFinish, Path, resumes = 0
    PROVE  /\ plan \in Seq(PlanNode) /\ WellFormed(plan) /\ Ids(plan) \subseteq Nodes
           /\ Closed(plan, escalated) /\ LeafAtWork /\ FailingOpen /\ SomethingToDo
           /\ lastFailed \in Ids(plan) \cup {NoNode} /\ NoNode \notin Nodes
           /\ turn.leaf \in Ids(plan) \cup {NoNode}
           /\ phase # "finish" /\ turn.mode # "finish"
           /\ phase \in {"review", "turn", "done"} => turn = NoTurn
           /\ phase = "review" => lastFailed = NoNode
           /\ turn.leaf # NoNode /\ phase \in {"reply", "verify"} => Open(plan, turn.leaf)
<1>1. /\ plan \in Seq(PlanNode) /\ WellFormed(plan) /\ Ids(plan) \subseteq Nodes
      /\ NoNode \notin Nodes /\ turn.leaf \in Ids(plan) \cup {NoNode}
  BY InvParts, NoNodeAssumption
<1>2. Closed(plan, escalated) /\ LeafAtWork /\ FailingOpen /\ SomethingToDo
  BY DEF Path
<1>3. ASSUME turn.leaf # NoNode, phase \in {"reply", "verify"} PROVE Open(plan, turn.leaf)
  <2>1. turn.leaf \in Ids(plan) /\ Status(plan, turn.leaf) = "pending"
    BY <1>1, <1>2, <1>3 DEF LeafAtWork
  <2> QED  BY <1>1, <1>2, <2>1, PendingOpen DEF DoneOrGivenUp
<1>4. /\ lastFailed \in Ids(plan) \cup {NoNode} /\ phase # "finish" /\ turn.mode # "finish"
      /\ phase \in {"review", "turn", "done"} => turn = NoTurn
      /\ phase = "review" => lastFailed = NoNode
  BY DEF Inv, FailingUntilResumed, FailingNodeInPlan, NeverAsked, TurnOver
<1> QED  BY <1>1, <1>2, <1>3, <1>4

\* A run that ends leaves the plan as it was.
LEMMA EndPath ==
    ASSUME Path, NEW outcome, Finish(outcome), UNCHANGED <<plan, escalated, resumes>>
    PROVE  Path'
BY NoTurnType DEF Path, Finish, LeafAtWork, FailingOpen, SomethingToDo

\* A step that is judged, or goes on to be.
LEMMA SteadyPath ==
    ASSUME Inv, ~BareFinish, Path, phase \in {"turn", "reply", "verify"},
           UNCHANGED <<plan, escalated, resumes>>, phase' \in Phases \ {"review", "done"},
           \/ turn'.leaf = NoNode
           \/ turn'.leaf = turn.leaf /\ phase # "turn"
           \/ turn'.leaf = CurrentLeaf(plan),
           \/ lastFailed' = lastFailed
           \/ lastFailed' = turn.leaf /\ turn.leaf # NoNode /\ phase # "turn"
    PROVE  Path'
<1> SUFFICES ASSUME resumes = 0
             PROVE  Closed(plan', escalated') /\ LeafAtWork' /\ FailingOpen' /\ SomethingToDo'
  BY DEF Path
<1>1. /\ plan \in Seq(PlanNode) /\ WellFormed(plan)
      /\ Closed(plan, escalated) /\ LeafAtWork /\ FailingOpen /\ SomethingToDo
      /\ turn.leaf # NoNode /\ phase \in {"reply", "verify"} => Open(plan, turn.leaf)
  BY PathParts
<1>2. CurrentLeaf(plan) # NoNode => /\ IsLeaf(plan, CurrentLeaf(plan))
                                    /\ Status(plan, CurrentLeaf(plan)) = "pending"
  BY <1>1, CurrentLeafPending
<1>3. LeafAtWork'
  BY <1>1, <1>2 DEF LeafAtWork
<1>4. FailingOpen'
  BY <1>1 DEF FailingOpen
<1>5. SomethingToDo'
  BY <1>1 DEF SomethingToDo
<1> QED  BY <1>1, <1>3, <1>4, <1>5

LEMMA ReviewPath ==
    ASSUME Inv, ReviewPending, Review
    PROVE  ReviewPending' /\ (Path => Path')
<1> USE DEF unreviewed
<1>0. phase = "review" /\ resumes' = resumes
  BY DEF Review, ReviewApprove, ReviewReject, ReviewEdit, ReviewMarkLeaf, ReviewRedecompose
<1>1. /\ plan \in Seq(PlanNode) /\ WellFormed(plan) /\ turn = NoTurn /\ lastFailed = NoNode
      /\ \A n \in Ids(plan) : Status(plan, n) = "pending"
  BY <1>0, InvParts DEF Inv, TurnOver, FailingUntilResumed, ReviewPending
<1>2. ASSUME UNCHANGED <<turn, lastFailed, escalated>>, phase' = "review",
             \A n \in Ids(plan') : Status(plan', n) = "pending"
      PROVE  Path' /\ ReviewPending'
  <2>1. Closed(plan', escalated')
    BY <1>2, NothingDoneClosed
  <2>2. LeafAtWork' /\ FailingOpen' /\ SomethingToDo' /\ ReviewPending'
    BY <1>1, <1>2, NoTurnType DEF LeafAtWork, FailingOpen, SomethingToDo, ReviewPending
  <2> QED  BY <2>1, <2>2 DEF Path
<1>3. ASSUME NEW n \in Ids(plan), NEW hosts, Grafted(plan, plan', Spared(plan, n), hosts)
      PROVE  \A m \in Ids(plan') : Status(plan', m) = "pending"
  BY <1>1, <1>3 DEF Grafted, Status
<1>4. CASE ReviewApprove
  <2>1. /\ UNCHANGED <<plan, turn, lastFailed, escalated, resumes>> /\ phase' = "turn"
    BY <1>4 DEF ReviewApprove
  <2>2. PendingLeaf(plan) \/ IsComplete(plan)
    <3> SUFFICES ASSUME ~PendingLeaf(plan), ~IsComplete(plan) PROVE FALSE
      OBVIOUS
    <3>1. PICK b \in ReadyBranches(plan) : TRUE
      BY <1>1, NoDeadEnd
    <3>2. b \in Ids(plan) /\ Children(plan, b) # {}
          /\ \A c \in Children(plan, b) : Status(plan, c) = "completed"
      BY <3>1 DEF ReadyBranches, Branches, Leaves, IsLeaf
    <3>3. \A c \in Children(plan, b) : c \in Ids(plan)
      BY <1>1, <3>2, ChildAncestors
    <3> QED  BY <1>1, <3>2, <3>3
  <2>3. Closed(plan, escalated)
    BY <1>1, NothingDoneClosed
  <2>4. LeafAtWork' /\ FailingOpen' /\ SomethingToDo' /\ ReviewPending'
    BY <1>1, <2>1, <2>2, NoTurnType DEF LeafAtWork, FailingOpen, SomethingToDo, ReviewPending
  <2> QED  BY <2>1, <2>3, <2>4 DEF Path
<1>5. CASE ReviewReject
  <2>1. Finish("failure") /\ UNCHANGED <<plan, escalated, resumes>>
    BY <1>5 DEF ReviewReject
  <2> QED  BY <2>1, EndPath DEF Finish, ReviewPending
<1>6. CASE ReviewEdit
  BY <1>0, <1>1, <1>2, <1>6 DEF ReviewEdit
<1>7. ASSUME NEW n \in Nodes, ReviewMarkLeaf(n)
      PROVE  Path' /\ ReviewPending'
  <2>1. n \in Ids(plan) /\ plan' = ReplaceChildren(plan, n, <<>>)
        /\ UNCHANGED <<turn, lastFailed, escalated, phase>>
    BY <1>7 DEF ReviewMarkLeaf
  <2>2. Grafted(plan, plan', Spared(plan, n), {n} \cup Ancestors(plan, n))
    BY <1>1, <2>1, BareGraft
  <2> QED  BY <1>0, <1>2, <1>3, <2>1, <2>2
<1>8. ASSUME NEW n \in Nodes, ReviewRedecompose(n)
      PROVE  Path' /\ ReviewPending'
  <2>1. n \in Ids(plan) /\ UNCHANGED <<turn, lastFailed, escalated, phase>>
    BY <1>8 DEF ReviewRedecompose
  <2>2. PICK f \in Forests : \E ids \in Names(Len(f), FreeIds(Spared(plan, n)), {}) :
           plan' = Hung(plan, n, f, ids)
    BY <1>8 DEF ReviewRedecompose
  <2>3. PICK ids \in Names(Len(f), FreeIds(Spared(plan, n)), {}) :
           plan' = Hung(plan, n, f, ids)
    BY <2>2
  <2>4. Grafted(plan, plan', Spared(plan, n), {n} \cup Ancestors(plan, n))
    BY <1>1, <2>1, <2>3, ForestType, HungGraft
  <2> QED  BY <1>0, <1>2, <1>3, <2>1, <2>4
<1> QED  BY <1>4, <1>5, <1>6, <1>7, <1>8 DEF Review

\* What a verdict leaves of the turn.
LEMMA JudgeTurn ==
    ASSUME Inv, NEW failed \in BOOLEAN, Judge(failed)
    PROVE  /\ turn' = turn \/ turn' = NoTurn
           /\ phase' \in {"turn", "replan", "escalate"}
           /\ ~failed => phase' = "turn" /\ turn' = NoTurn
<1>1. TypeOK
  BY DEF Inv
<1> QED  BY <1>1, JudgeType DEF Judge

LEMMA TurnPath ==
    ASSUME Inv, ~BareFinish, Path, StartTurn \/ ExpandCheckpoint \/ OutOfSteps
    PROVE  Path'
<1> USE DEF reviewVars
<1>0. phase = "turn" /\ UNCHANGED <<lastFailed, escalated, resumes>>
  BY DEF StartTurn, ExpandCheckpoint, OutOfSteps
<1>1. CASE StartTurn
  <2>1. /\ UNCHANGED <<plan, escalated, resumes, lastFailed>> /\ phase' = "reply"
        /\ turn'.leaf = CurrentLeaf(plan)
    BY <1>1 DEF StartTurn, TurnOf
  <2> QED  BY <1>0, <2>1, SteadyPath DEF Phases
<1>2. CASE ExpandCheckpoint
  <2> SUFFICES ASSUME resumes = 0
               PROVE  Closed(plan', escalated') /\ LeafAtWork' /\ FailingOpen' /\ SomethingToDo'
    BY <1>0 DEF Path
  <2>1. /\ plan \in Seq(PlanNode) /\ WellFormed(plan) /\ Closed(plan, escalated)
        /\ FailingOpen /\ lastFailed \in Ids(plan) \cup {NoNode}
    BY PathParts
  <2>2. PICK c : c = CurrentLeaf(plan)
    OBVIOUS
  <2>3. c \in Ids(plan) /\ IsLeaf(plan, c) /\ Status(plan, c) = "pending"
    BY <1>2, <2>1, <2>2, CurrentLeafPending DEF ExpandCheckpoint
  <2>4. PICK f \in Forests :
           \E ids \in Names(Len(f), FreeIds(Ids(plan) \cup Counted), {}) :
              plan' = Hung(DemoteChildless(plan, c, f), c, DemotePassThrough(f), ids)
    BY <1>2, <2>2 DEF ExpandCheckpoint
  <2>5. PICK g : g = DemotePassThrough(f)
    OBVIOUS
  <2>6. g \in Seq(Shoot) /\ Shaped(g) /\ Len(g) = Len(f)
    BY <2>5, ForestType
  <2>7. PICK p : p = DemoteChildless(plan, c, f)
    OBVIOUS
  <2>8. PICK ids \in Names(Len(g), FreeIds(Ids(plan) \cup Counted), {}) :
           plan' = Hung(p, c, g, ids)
    BY <2>4, <2>5, <2>6, <2>7
  <2>9. /\ p \in Seq(PlanNode) /\ WellFormed(p) /\ Ids(p) = Ids(plan) /\ Len(p) = Len(plan)
        /\ \A i \in 1 .. Len(plan) : p[i].id = plan[i].id /\ p[i].depth = plan[i].depth
        /\ \A m \in Ids(plan) : Ancestors(p, m) = Ancestors(plan, m)
        /\ \A m \in Ids(plan) : Status(p, m) = Status(plan, m)
    BY <2>1, <2>3, <2>7, DemotedTree
  <2>10. Spared(p, c) = Ids(plan)
    BY <2>1, <2>3, <2>9, LeafSpared
  <2>11. Closed(p, escalated)
    BY <2>1, <2>9, SameClosed
  <2>12. /\ plan' \in Seq(PlanNode) /\ WellFormed(plan')
         /\ Grafted(p, plan', Ids(plan), {c} \cup Ancestors(p, c))
    BY <2>3, <2>6, <2>8, <2>9, <2>10, HungGraft
  <2>13. Open(p, c)
    BY <2>3, <2>9, <2>11, PendingOpen DEF DoneOrGivenUp
  <2>14. \A h \in {c} \cup Ancestors(p, c) : Open(p, h)
    BY <2>3, <2>9, <2>13, OpenAncestors
  <2>15. Closed(plan', escalated)
    BY <2>9, <2>11, <2>12, <2>14, GraftClosed
  <2>16. (Open(plan', lastFailed) /\ lastFailed \in Ids(plan')) \/ lastFailed = NoNode
    <3> SUFFICES ASSUME lastFailed \in Ids(plan)
                 PROVE  Open(plan', lastFailed) /\ lastFailed \in Ids(plan')
      BY <2>1
    <3>1. lastFailed # NoNode
      BY <2>1, PlanDomain, NoNodeAssumption
    <3>2. Open(plan, lastFailed)
      BY <1>0, <2>1, <3>1 DEF FailingOpen
    <3>3. Open(p, lastFailed)
      BY <2>9, <3>2, AncestorsType DEF Open
    <3> QED  BY <2>9, <2>12, <3>3, GraftAbove
  <2>17. \E m \in Ids(plan') : IsLeaf(plan', m) /\ (m = c \/ Status(plan', m) = "pending")
    BY <2>3, <2>9, <2>10, <2>12, GraftHost
  <2>18. Status(plan', c) = "pending"
    BY <2>3, <2>9, <2>12, GraftAbove
  <2>19. PendingLeaf(plan')
    BY <2>17, <2>18 DEF PendingLeaf
  <2>20. phase' = "reply" /\ turn'.leaf = CurrentLeaf(plan')
    BY <1>2 DEF ExpandCheckpoint, TurnOf
  <2>21. LeafAtWork'
    BY <2>12, <2>20, CurrentLeafPending DEF LeafAtWork
  <2> QED  BY <1>0, <2>15, <2>16, <2>19, <2>20, <2>21 DEF FailingOpen, SomethingToDo
<1>3. CASE OutOfSteps
  <2>1. Finish("failure") /\ UNCHANGED <<plan, escalated, resumes>>
    BY <1>3 DEF OutOfSteps
  <2> QED  BY <2>1, EndPath
<1> QED  BY <1>1, <1>2, <1>3

LEMMA ReplyPath ==
    ASSUME Inv, ~BareFinish, Path,
           \/ BackendFails \/ ParseError \/ MutationGuard \/ PlainReasoning
           \/ ToolsFail \/ ToolsSucceed(TRUE) \/ ToolsSucceed(FALSE)
           \/ AutoFinish \/ FinishComplete \/ FinishRequest
    PROVE  Path'
<1> USE DEF unreplied, reviewVars
<1>0. phase = "reply" /\ UNCHANGED <<plan, escalated, resumes>> /\ turn \in Turn
  BY InvParts DEF BackendFails, ParseError, MutationGuard, PlainReasoning, ToolsFail,
     ToolsSucceed, AutoFinish, FinishComplete, FinishRequest
<1>1. CASE \E outcome : Finish(outcome)
  BY <1>0, <1>1, EndPath
<1>2. CASE Judge(TRUE) /\ \/ lastFailed' = lastFailed
                          \/ lastFailed' = turn.leaf /\ turn.leaf # NoNode
  <2>1. (turn' = turn \/ turn' = NoTurn) /\ phase' \in {"turn", "replan", "escalate"}
    BY <1>2, JudgeTurn
  <2>2. turn'.leaf = NoNode \/ turn'.leaf = turn.leaf
    BY <2>1, NoTurnType
  <2> QED  BY <1>0, <1>2, <2>1, <2>2, SteadyPath DEF Phases
<1>3. CASE phase' = "verify" /\ turn'.leaf = turn.leaf /\ lastFailed' = lastFailed
  BY <1>0, <1>3, SteadyPath DEF Phases
<1>4. ASSUME PlainReasoning \/ ToolsSucceed(TRUE) \/ ToolsSucceed(FALSE)
      PROVE  phase' = "verify" /\ turn'.leaf = turn.leaf /\ lastFailed' = lastFailed
  <2>1. turn'.leaf = turn.leaf
    <3>1. CASE PlainReasoning
      BY <1>0, <3>1 DEF PlainReasoning, Turn
    <3>2. ASSUME NEW b \in BOOLEAN, ToolsSucceed(b) PROVE turn'.leaf = turn.leaf
      <4>1. turn' = [turn EXCEPT !.mode = "tools", !.deferred = b]
        BY <3>2 DEF ToolsSucceed
      <4> QED  BY <1>0, <4>1, ToolsTurnType, Zenon
    <3> QED  BY <1>4, <3>1, <3>2
  <2> QED  BY <1>4, <2>1 DEF PlainReasoning, ToolsSucceed
<1>5. ASSUME BackendFails \/ AutoFinish \/ FinishComplete PROVE \E outcome : Finish(outcome)
  BY <1>5 DEF BackendFails, AutoFinish, FinishComplete
<1>6. ASSUME ParseError \/ MutationGuard \/ ToolsFail
      PROVE  Judge(TRUE) /\ \/ lastFailed' = lastFailed
                            \/ lastFailed' = turn.leaf /\ turn.leaf # NoNode
  BY <1>6 DEF ParseError, MutationGuard, ToolsFail
<1>7. ~FinishRequest
  BY DEF FinishRequest
<1> QED  BY <1>1, <1>2, <1>3, <1>4, <1>5, <1>6, <1>7

LEMMA VerifyPath ==
    ASSUME Inv, ~BareFinish, Path, VerifyNothing \/ StepNotDone \/ StepDone
    PROVE  Path'
<1> USE DEF unverified, reviewVars
<1>0. phase = "verify" /\ UNCHANGED <<escalated, resumes>>
  BY DEF VerifyNothing, StepNotDone, StepDone
<1>1. CASE VerifyNothing
  <2>1. UNCHANGED <<plan, escalated, resumes, turn, lastFailed>> /\ phase' = "rollup"
    BY <1>1 DEF VerifyNothing
  <2> QED  BY <1>0, <2>1, SteadyPath DEF Phases
<1>2. CASE StepNotDone
  <2>1. /\ UNCHANGED <<plan, escalated, resumes>> /\ Judge(TRUE) /\ turn.leaf # NoNode
        /\ lastFailed' = turn.leaf
    BY <1>2 DEF StepNotDone
  <2>2. (turn' = turn \/ turn' = NoTurn) /\ phase' \in {"turn", "replan", "escalate"}
    BY <2>1, JudgeTurn
  <2>3. turn'.leaf = NoNode \/ turn'.leaf = turn.leaf
    BY <2>2, NoTurnType
  <2> QED  BY <1>0, <2>1, <2>2, <2>3, SteadyPath DEF Phases
<1>3. CASE StepDone
  <2> SUFFICES ASSUME resumes = 0
               PROVE  Closed(plan', escalated') /\ LeafAtWork' /\ FailingOpen' /\ SomethingToDo'
    BY <1>0 DEF Path
  <2>1. /\ plan \in Seq(PlanNode) /\ WellFormed(plan) /\ Closed(plan, escalated)
        /\ LeafAtWork /\ turn.leaf \in Ids(plan) \cup {NoNode}
    BY PathParts
  <2>2. /\ turn.leaf \in Ids(plan) /\ IsLeaf(plan, turn.leaf)
        /\ plan' = SetStatus(plan, turn.leaf, "completed")
        /\ phase' = "rollup" /\ turn' = turn
    BY <1>3, <2>1 DEF StepDone, Complete, LeafAtWork
  <2>3. \A k \in Ids(plan) : turn.leaf \notin Ancestors(plan, k)
    BY <2>1, <2>2, ChildAncestors
  <2>4. Closed(plan', escalated)
    BY <2>1, <2>2, <2>3, StatusClosed DEF Statuses
  <2>5. /\ WellFormed(plan') /\ plan' \in Seq(PlanNode) /\ Ids(plan') = Ids(plan)
        /\ \A m \in Ids(plan) : Ancestors(plan', m) = Ancestors(plan, m)
    BY <2>1, <2>2, SetStatusTree DEF Statuses
  <2>6. IsLeaf(plan', turn.leaf)
    BY <2>1, <2>2, <2>5, SameLeaves
  <2> QED  BY <1>0, <2>2, <2>4, <2>6 DEF LeafAtWork, FailingOpen, SomethingToDo
<1> QED  BY <1>1, <1>2, <1>3

LEMMA RollupPath ==
    ASSUME Inv, ~BareFinish, Path, NEW b \in Nodes,
           RollupRejects(b) \/ RollupPasses(b) \/ CheckpointPasses(b)
    PROVE  Path'
<1> USE DEF unverified, reviewVars
<1>0. phase = "rollup" /\ UNCHANGED <<escalated, resumes>> /\ b \in ReadyBranches(plan)
  BY DEF RollupRejects, RollupPasses, CheckpointPasses, FirstReady
<1> SUFFICES ASSUME resumes = 0
             PROVE  Closed(plan', escalated') /\ LeafAtWork' /\ FailingOpen' /\ SomethingToDo'
  BY <1>0 DEF Path
<1>1. /\ plan \in Seq(PlanNode) /\ WellFormed(plan) /\ Closed(plan, escalated)
      /\ LeafAtWork /\ turn.leaf \in Ids(plan) \cup {NoNode} /\ turn.mode # "finish"
      /\ NoNode \notin Nodes
  BY PathParts
<1>2. /\ b \in Ids(plan) /\ ~IsLeaf(plan, b) /\ Open(plan, b)
      /\ \A n \in Ids(plan) : b \in Ancestors(plan, n) => DoneOrGivenUp(plan, escalated, n)
  BY <1>0, <1>1, ReadyOpen
<1>3. turn.leaf # NoNode => turn.leaf \in Ids(plan) /\ IsLeaf(plan, turn.leaf)
  BY <1>1 DEF LeafAtWork
<1>4. CASE RollupRejects(b)
  <2>1. Judge(TRUE) /\ lastFailed' = b /\ plan' = plan
    BY <1>1, <1>4 DEF RollupRejects
  <2>2. (turn' = turn \/ turn' = NoTurn) /\ phase' \in {"turn", "replan", "escalate"}
    BY <2>1, JudgeTurn
  <2> QED  BY <1>0, <1>1, <1>2, <1>3, <2>1, <2>2, NoTurnType
           DEF LeafAtWork, FailingOpen, SomethingToDo
<1>5. CASE RollupPasses(b)
  <2>1. /\ plan' = SetStatus(plan, b, "completed") /\ phase' = "rollup" /\ turn' = turn
    BY <1>0, <1>5 DEF RollupPasses, Complete
  <2>2. Closed(plan', escalated)
    BY <1>1, <1>2, <2>1, StatusClosed DEF Statuses
  <2>3. /\ WellFormed(plan') /\ plan' \in Seq(PlanNode) /\ Ids(plan') = Ids(plan)
        /\ \A m \in Ids(plan) : Ancestors(plan', m) = Ancestors(plan, m)
    BY <1>1, <1>2, <2>1, SetStatusTree DEF Statuses
  <2>4. turn.leaf # NoNode => IsLeaf(plan', turn.leaf)
    BY <1>1, <1>3, <2>3, SameLeaves
  <2> QED  BY <1>0, <2>1, <2>2, <2>4 DEF LeafAtWork, FailingOpen, SomethingToDo
<1>6. CASE CheckpointPasses(b)
  <2>1. PICK forest \in Forests :
           \E ids \in Names(Len(forest), FreeIds(Ids(plan) \cup Counted), {}) :
              plan' = SetStatus(InsertAfter(plan, b,
                                    Grown(forest, ids, Node(plan, b).depth - 1)),
                                b, "completed")
    BY <1>6 DEF CheckpointPasses
  <2>2. PICK ids \in Names(Len(forest), FreeIds(Ids(plan) \cup Counted), {}) :
           plan' = SetStatus(InsertAfter(plan, b,
                                 Grown(forest, ids, Node(plan, b).depth - 1)),
                             b, "completed")
    BY <2>1
  <2>3. PICK q : q = InsertAfter(plan, b, Grown(forest, ids, Node(plan, b).depth - 1))
    OBVIOUS
  <2>4. /\ q \in Seq(PlanNode) /\ WellFormed(q) /\ b \in Ids(q)
        /\ Grafted(plan, q, Ids(plan), Ancestors(plan, b))
    BY <1>1, <1>2, <2>2, <2>3, ContinuationGraft
  <2>5. plan' = SetStatus(q, b, "completed")
    BY <2>2, <2>3
  <2>6. \A h \in Ancestors(plan, b) : Open(plan, h)
    BY <1>1, <1>2, OpenAncestors
  <2>7. Closed(q, escalated)
    BY <1>1, <2>4, <2>6, GraftClosed
  <2>8. ASSUME NEW k \in Ids(q), b \in Ancestors(q, k)
        PROVE  DoneOrGivenUp(q, escalated, k)
    <3>1. b \notin Ancestors(plan, b)
      BY <1>1, <1>2, SubtreeAncestors
    <3>2. k \in Ids(plan) /\ b \in Ancestors(plan, k)
      BY <1>2, <2>4, <2>8, <3>1 DEF Grafted
    <3>3. Status(q, k) = Status(plan, k) /\ DoneOrGivenUp(plan, escalated, k)
      BY <1>2, <2>4, <3>2, GraftAbove, <1>1
    <3>4. k \notin Ancestors(plan, b)
      BY <1>1, <1>2, <3>2, AncestorsLine
    <3>5. IsLeaf(plan, k) => IsLeaf(q, k)
      BY <1>1, <2>4, <3>2, <3>4, GraftLeaf
    <3> QED  BY <3>3, <3>5 DEF DoneOrGivenUp
  <2>9. Closed(plan', escalated)
    BY <2>4, <2>5, <2>7, <2>8, StatusClosed DEF Statuses
  <2>10. turn.leaf # NoNode => turn.leaf \in Ids(q) /\ IsLeaf(q, turn.leaf)
    <3> SUFFICES ASSUME turn.leaf # NoNode
                 PROVE  turn.leaf \in Ids(q) /\ IsLeaf(q, turn.leaf)
      OBVIOUS
    <3>1. turn.leaf \notin Ancestors(plan, b)
      BY <1>1, <1>2, <1>3, ChildAncestors
    <3> QED  BY <1>1, <1>3, <2>4, <3>1, GraftLeaf, GraftAbove
  <2>11. /\ WellFormed(plan') /\ plan' \in Seq(PlanNode) /\ Ids(plan') = Ids(q)
         /\ \A m \in Ids(q) : Ancestors(plan', m) = Ancestors(q, m)
    BY <2>4, <2>5, SetStatusTree DEF Statuses
  <2>12. turn.leaf # NoNode => IsLeaf(plan', turn.leaf)
    BY <2>4, <2>10, <2>11, SameLeaves
  <2>13. phase' = "rollup" /\ turn' = turn
    BY <1>0, <1>6 DEF CheckpointPasses
  <2> QED  BY <1>0, <2>9, <2>12, <2>13 DEF LeafAtWork, FailingOpen, SomethingToDo
<1> QED  BY <1>4, <1>5, <1>6

LEMMA SettledPath ==
    ASSUME Inv, ~BareFinish, Path, TurnDone \/ FinishPhrase \/ DeferredFinish \/ AskedSettled
    PROVE  Path'
<1> USE DEF unverified, reviewVars
<1>0. phase = "rollup" /\ UNCHANGED <<plan, escalated, resumes>>
      /\ ReadyBranches(plan) = {} /\ lastFailed' = NoNode
  BY DEF TurnDone, FinishPhrase, DeferredFinish, AskedSettled, Settled
<1>1. CASE TurnDone
  <2> SUFFICES ASSUME resumes = 0
               PROVE  Closed(plan', escalated') /\ LeafAtWork' /\ FailingOpen' /\ SomethingToDo'
    BY <1>0 DEF Path
  <2>1. plan \in Seq(PlanNode) /\ WellFormed(plan) /\ Closed(plan, escalated)
    BY PathParts
  <2>2. phase' = "turn" /\ turn' = NoTurn
    BY <1>1, JudgeTurn DEF TurnDone
  <2>3. PendingLeaf(plan) \/ IsComplete(plan)
        \/ \E n \in Ids(plan) : Status(plan, n) = "failed"
    BY <1>0, <2>1, NoDeadEnd
  <2> QED  BY <1>0, <2>1, <2>2, <2>3, NoTurnType DEF LeafAtWork, FailingOpen, SomethingToDo
<1>2. CASE FinishPhrase \/ DeferredFinish
  <2>1. Finish("success")
    BY <1>2 DEF FinishPhrase, DeferredFinish
  <2> QED  BY <1>0, <2>1, EndPath
<1>3. CASE AskedSettled
  BY <1>3 DEF AskedSettled, Inv, NeverAsked
<1> QED  BY <1>1, <1>2, <1>3

\* The node to replan is a node of the plan with nothing completed above it.
LEMMA TargetOpen ==
    ASSUME Inv, ~BareFinish, Path, resumes = 0, phase = "replan", Suspect # NoNode
    PROVE  /\ Suspect \in Ids(plan) /\ Open(plan, Suspect)
           /\ Target \in Ids(plan) /\ Open(plan, Target)
<1>1. /\ plan \in Seq(PlanNode) /\ WellFormed(plan) /\ Closed(plan, escalated)
      /\ FailingOpen /\ lastFailed \in Ids(plan) \cup {NoNode}
  BY PathParts
<1>2. Suspect \in Ids(plan) /\ Open(plan, Suspect)
  <2>1. CASE lastFailed # NoNode
    BY <1>1, <2>1 DEF FailingOpen, Suspect
  <2>2. CASE lastFailed = NoNode
    <3>1. Suspect \in Ids(plan) /\ Status(plan, Suspect) = "pending"
      BY <1>1, <2>2, CurrentLeafPending DEF Suspect
    <3> QED  BY <1>1, <3>1, PendingOpen DEF DoneOrGivenUp
  <2> QED  BY <2>1, <2>2
<1>3. Target \in {Suspect} \cup Ancestors(plan, Suspect)
  BY <1>1, <1>2, ParentInPlan DEF Target, SuspectParent
<1> QED  BY <1>1, <1>2, <1>3, OpenAncestors

\* The failing node is forgotten, and the turn over.
LEMMA ReplannedPath ==
    ASSUME EndReplan, Closed(plan', escalated'),
           \/ PendingLeaf(plan') \/ IsComplete(plan')
           \/ \E n \in Ids(plan') : Status(plan', n) = "failed"
    PROVE  Path'
BY NoTurnType DEF EndReplan, Path, LeafAtWork, FailingOpen, SomethingToDo

LEMMA ReplanSubtreePath ==
    ASSUME Inv, ~BareFinish, Path, NEW n \in Nodes, ReplanSubtree(n)
    PROVE  Path'
<1>0. phase = "replan" /\ n \in Ids(plan) /\ EndReplan /\ Suspect # NoNode /\ n = Target
      /\ UNCHANGED <<escalated, resumes>>
  BY DEF ReplanSubtree, EndReplan, unverified, reviewVars
<1>1. CASE resumes # 0
  BY <1>0, <1>1 DEF Path
<1>2. CASE resumes = 0
  <2>1. plan \in Seq(PlanNode) /\ WellFormed(plan) /\ Closed(plan, escalated)
    BY <1>2, PathParts
  <2>2. PICK f \in Forests : \E ids \in Names(Len(f), FreeIds(Spared(plan, n)), {}) :
           plan' = SetStatus(Hung(plan, n, IF IsCheckpoint(plan, n)
                                           THEN Bounded(n, f) ELSE f, ids), n, "pending")
    BY DEF ReplanSubtree
  <2>3. PICK g : g = IF IsCheckpoint(plan, n) THEN Bounded(n, f) ELSE f
    OBVIOUS
  <2>4. g \in Seq(Shoot) /\ Shaped(g) /\ Len(g) = Len(f)
    BY <2>3, ForestType
  <2>5. PICK ids \in Names(Len(g), FreeIds(Spared(plan, n)), {}) :
           plan' = SetStatus(Hung(plan, n, g, ids), n, "pending")
    BY <2>2, <2>3, <2>4
  <2>6. PICK q : q = Hung(plan, n, g, ids)
    OBVIOUS
  <2>7. /\ q \in Seq(PlanNode) /\ WellFormed(q) /\ n \in Ids(q)
        /\ Grafted(plan, q, Spared(plan, n), {n} \cup Ancestors(plan, n))
    BY <1>0, <2>1, <2>4, <2>6, HungGraft
  <2>8. \A h \in {n} \cup Ancestors(plan, n) : Open(plan, h)
    BY <1>0, <1>2, <2>1, TargetOpen, OpenAncestors
  <2>9. Closed(q, escalated)
    BY <2>1, <2>7, <2>8, GraftClosed
  <2>10. n \in Spared(plan, n)
    BY <1>0 DEF Spared
  <2>11. \A a \in Ancestors(q, n) : Status(q, a) # "completed"
    <3>1. Open(q, n)
      BY <2>1, <2>7, <2>8, <2>10, GraftAbove
    <3> QED  BY <3>1 DEF Open
  <2>12. plan' = SetStatus(q, n, "pending")
    BY <2>5, <2>6
  <2>13. Closed(plan', escalated)
    BY <2>7, <2>9, <2>11, <2>12, StatusClosed DEF Statuses
  <2>14. PICK m \in Ids(q) : IsLeaf(q, m) /\ (m = n \/ Status(q, m) = "pending")
    BY <1>0, <2>1, <2>7, GraftHost
  <2>15. PICK r : r = SetStatus(q, n, "pending")
    OBVIOUS
  <2>16. /\ WellFormed(r) /\ r \in Seq(PlanNode) /\ Ids(r) = Ids(q)
         /\ \A k \in Ids(q) : Ancestors(r, k) = Ancestors(q, k)
    BY <2>7, <2>15, SetStatusTree DEF Statuses
  <2>17. Status(r, m) = "pending"
    <3>1. PICK s \in Statuses : s = "pending"
      BY DEF Statuses
    <3>2. \A k \in Ids(q) : Status(r, k) = IF k = n THEN s ELSE Status(q, k)
      BY <2>7, <2>15, <3>1, SetStatusTree
    <3> QED  BY <2>14, <3>1, <3>2
  <2>18. PendingLeaf(plan')
    BY <2>7, <2>12, <2>14, <2>15, <2>16, <2>17, SameLeaves DEF PendingLeaf
  <2> QED  BY <1>0, <2>13, <2>18, ReplannedPath
<1> QED  BY <1>1, <1>2

LEMMA ReplanOrphanPath ==
    ASSUME Inv, ~BareFinish, Path, ReplanOrphan
    PROVE  Path'
<1>1. phase = "replan" /\ Suspect # NoNode /\ Target \notin Ids(plan) /\ resumes' = resumes
  BY DEF ReplanOrphan, EndReplan, unverified, reviewVars
<1>2. resumes # 0
  BY <1>1, TargetOpen
<1> QED  BY <1>1, <1>2 DEF Path

LEMMA ReplanAllPath ==
    ASSUME Inv, ~BareFinish, Path, ReplanAll
    PROVE  Path'
<1>0. phase = "replan" /\ EndReplan /\ UNCHANGED <<escalated, resumes>>
  BY DEF ReplanAll, EndReplan, unverified, reviewVars
<1>1. CASE resumes # 0
  BY <1>0, <1>1 DEF Path
<1>2. CASE resumes = 0
  <2>1. plan \in Seq(PlanNode) /\ WellFormed(plan) /\ Closed(plan, escalated)
    BY <1>2, PathParts
  <2>2. PICK f \in {f \in Forests : Flat(f)}, places \in Ascending(KeptPositions(plan)) :
           \E ids \in Names(Len(f), FreeIds(Ids(plan)),
                            {t \in Tops(plan) : Status(plan, t) # "completed"}) :
              plan' = Revised(plan, places, Grown(f, ids, 0))
    BY DEF ReplanAll
  <2>3. PICK ids \in Names(Len(f), FreeIds(Ids(plan)),
                           {t \in Tops(plan) : Status(plan, t) # "completed"}) :
           plan' = Revised(plan, places, Grown(f, ids, 0))
    BY <2>2
  <2>4. /\ plan' \in Seq(PlanNode) /\ WellFormed(plan')
        /\ Grafted(plan, plan', KeptIds(plan), {})
    BY <2>1, <2>2, <2>3, WholeGraft
  <2>5. Closed(plan', escalated)
    BY <2>1, <2>4, GraftClosed
  <2>6. \/ PendingLeaf(plan') \/ IsComplete(plan')
        \/ \E n \in Ids(plan') : Status(plan', n) = "failed"
    <3>1. CASE Ids(plan') \ KeptIds(plan) # {}
      BY <2>1, <2>4, <3>1, GraftPending
    <3>2. CASE Ids(plan') \subseteq KeptIds(plan)
      <4>1. \A n \in Ids(plan') : Status(plan', n) = Status(plan, n)
                                  /\ DoneOrGivenUp(plan, escalated, n)
        BY <2>1, <2>4, <3>2, KeptDone, GraftAbove
      <4> QED  BY <4>1 DEF DoneOrGivenUp, IsComplete, Unresolved
    <3> QED  BY <3>1, <3>2
  <2> QED  BY <1>0, <2>5, <2>6, ReplannedPath
<1> QED  BY <1>1, <1>2

LEMMA RaisePath ==
    ASSUME Inv, Path, PlannerRaises
    PROVE  Path'
<1>1. Finish("raised") /\ UNCHANGED <<plan, escalated, resumes>>
  BY DEF PlannerRaises, unverified, reviewVars
<1> QED  BY <1>1, EndPath

LEMMA EscalatePath ==
    ASSUME Inv, ~BareFinish, Path, Escalate \/ EscalateRun
    PROVE  Path'
<1>1. CASE Escalate
  <2>0. phase = "escalate" /\ resumes' = resumes
    BY <1>1 DEF Escalate, reviewVars
  <2> SUFFICES ASSUME resumes = 0
               PROVE  Closed(plan', escalated') /\ LeafAtWork' /\ FailingOpen' /\ SomethingToDo'
    BY <2>0 DEF Path
  <2>1. /\ plan \in Seq(PlanNode) /\ WellFormed(plan) /\ Closed(plan, escalated)
        /\ LeafAtWork /\ FailingOpen /\ turn.leaf \in Ids(plan) \cup {NoNode}
        /\ lastFailed \in Ids(plan) \cup {NoNode}
    BY PathParts
  <2>2. Blamed \in Ids(plan) /\ (Open(plan, Blamed) \/ IsLeaf(plan, Blamed))
    <3>1. CASE turn.leaf # NoNode
      BY <2>1, <3>1 DEF Blamed, LeafAtWork
    <3>2. CASE turn.leaf = NoNode
      BY <1>1, <2>0, <2>1, <3>2 DEF Blamed, Escalate, FailingOpen
    <3> QED  BY <3>1, <3>2
  <2>3. PICK n \in Ids(plan) : n = Blamed
    BY <2>2
  <2>4. /\ plan' = SetStatus(plan, n, "failed") /\ escalated' = escalated \cup {n}
        /\ phase' = "turn" /\ turn' = NoTurn /\ lastFailed' = NoNode
    BY <1>1, <2>3 DEF Escalate
  <2>5. Closed(plan', escalated')
    <3>1. \/ \A b \in Ancestors(plan, n) : Status(plan, b) # "completed"
          \/ IsLeaf(plan, n)
      BY <2>2, <2>3 DEF Open
    <3> QED  BY <2>1, <2>4, <3>1, StatusClosed DEF Statuses
  <2>6. n \in Ids(plan') /\ Status(plan', n) = "failed"
    BY <2>1, <2>4, SetStatusTree DEF Statuses
  <2> QED  BY <2>4, <2>5, <2>6, NoTurnType DEF LeafAtWork, FailingOpen, SomethingToDo
<1>2. CASE EscalateRun
  <2>1. Finish("failure") /\ UNCHANGED <<plan, escalated, resumes>>
    BY <1>2 DEF EscalateRun, unverified, reviewVars
  <2> QED  BY <2>1, EndPath
<1> QED  BY <1>1, <1>2

LEMMA ResolvePath ==
    ASSUME Inv, Resolve
    PROVE  resumes' # 0
<1>1. resumes' = resumes + 1
  BY DEF Resolve, Resolves, ResolveEdit, ResolveRedecompose, ResolveReject, ResolveRaises, Resume
<1>2. resumes \in Nat
  BY Constants DEF Inv, TypeOK
<1> QED  BY <1>1, <1>2

LEMMA PathInit == Init => Path /\ ReviewPending
<1> SUFFICES ASSUME Init PROVE Path /\ ReviewPending
  OBVIOUS
<1>1. PICK f \in InitialForests : plan = Grown(f, [i \in DOMAIN f |-> i], 0)
  BY DEF Init
<1>2. \A i \in DOMAIN plan : plan[i].status = "pending"
  BY <1>1 DEF Grown
<1>3. plan \in Seq(PlanNode) /\ WellFormed(plan)
  BY InvInit, InvParts
<1>4. \A n \in Ids(plan) : Status(plan, n) = "pending"
  BY <1>2, <1>3, AtPosition DEF Status, Node
<1>5. Closed(plan, escalated)
  BY <1>4, NothingDoneClosed
<1>6. LeafAtWork /\ FailingOpen /\ SomethingToDo
  BY NoTurnType DEF Init, LeafAtWork, FailingOpen, SomethingToDo
<1> QED  BY <1>4, <1>5, <1>6 DEF Path, ReviewPending

\* Only the review leads to the review.
LEMMA Reviewed ==
    ASSUME Inv, LoopStep \/ Resolve
    PROVE  phase' # "review"
<1>1. \A failed \in BOOLEAN : Judge(failed) => phase' # "review"
  BY JudgeTurn
<1>2. CASE LoopStep
  <2>1. ASSUME NEW n \in Nodes, \/ RollupRejects(n) \/ RollupPasses(n) \/ CheckpointPasses(n)
                                \/ AskedDone(n) \/ AskedNotDone(n) \/ ReplanSubtree(n)
        PROVE  phase' # "review"
    BY <1>1, <2>1 DEF RollupRejects, RollupPasses, CheckpointPasses, AskedDone, AskedNotDone,
       ReplanSubtree, RejectFinish, EndReplan
  <2>2. ASSUME \/ StartTurn \/ ExpandCheckpoint \/ OutOfSteps
               \/ BackendFails \/ ParseError \/ MutationGuard \/ PlainReasoning
               \/ ToolsFail \/ ToolsSucceed(TRUE) \/ ToolsSucceed(FALSE)
               \/ AutoFinish \/ FinishComplete \/ FinishRequest
        PROVE  phase' # "review"
    BY <1>1, <2>2 DEF StartTurn, ExpandCheckpoint, OutOfSteps, BackendFails, ParseError,
       MutationGuard, PlainReasoning, ToolsFail, ToolsSucceed, AutoFinish, FinishComplete,
       FinishRequest, Finish
  <2>3. ASSUME \/ VerifyNothing \/ StepNotDone \/ StepDone
               \/ TurnDone \/ FinishPhrase \/ DeferredFinish \/ AskedSettled \/ FinishAccepted
               \/ ReplanOrphan \/ ReplanAll \/ PlannerRaises \/ Escalate \/ EscalateRun
        PROVE  phase' # "review"
    BY <1>1, <2>3 DEF VerifyNothing, StepNotDone, StepDone, TurnDone, FinishPhrase,
       DeferredFinish, AskedSettled, FinishAccepted, ReplanOrphan, ReplanAll, PlannerRaises,
       Escalate, EscalateRun, EndReplan, Finish
  <2> QED  BY <1>2, <2>1, <2>2, <2>3 DEF LoopStep
<1>3. CASE Resolve
  BY <1>3 DEF Resolve, Resolves, ResolveEdit, ResolveRedecompose, ResolveReject, ResolveRaises, Resume,
     Resolvable
<1> QED  BY <1>2, <1>3

LEMMA PathNext ==
    ASSUME ~BareFinish, Inv, Path, ReviewPending, [Next]_vars
    PROVE  Path' /\ ReviewPending'
<1>1. CASE Review
  BY <1>1, ReviewPath
<1>2. CASE LoopStep
  <2>1. ~ \E n \in Nodes : AskedDone(n) \/ AskedNotDone(n)
    BY DEF AskedDone, AskedNotDone, AtHand, Inv, NeverAsked
  <2>2. ~FinishAccepted
    BY DEF FinishAccepted, Inv, NeverAsked
  <2>3. Path'
    BY <1>2, <2>1, <2>2, TurnPath, ReplyPath, VerifyPath, RollupPath, SettledPath,
       ReplanSubtreePath, ReplanOrphanPath, ReplanAllPath, RaisePath, EscalatePath DEF LoopStep
  <2> QED  BY <1>2, <2>3, Reviewed DEF ReviewPending
<1>3. CASE Resolve
  BY <1>3, ResolvePath, Reviewed DEF Path, ReviewPending
<1>4. CASE UNCHANGED vars
  BY <1>4 DEF vars, reviewVars, Path, LeafAtWork, FailingOpen, SomethingToDo, ReviewPending
<1> QED  BY <1>1, <1>2, <1>3, <1>4 DEF Next, Done

LEMMA PathInvariant == ASSUME ~BareFinish PROVE Spec => [](Inv /\ Path /\ ReviewPending)
<1>1. Inv /\ Path /\ ReviewPending /\ [Next]_vars => (Inv /\ Path /\ ReviewPending)'
  BY InvNext, PathNext
<1> QED  BY <1>1, InvInit, PathInit, PTL DEF Spec

\* Until a human resumes it, a run in which the model asks to finish only with its
\* work resolved has no completed branch above an unfinished step, unless the step
\* was given up: neither a splice, nor a replan, nor a rollup reopens one.
THEOREM BranchesStayClosed ==
    ASSUME ~BareFinish PROVE Spec => [](resumes = 0 => CompletedBranchClosed)
<1>1. ASSUME Inv, Path, resumes = 0 PROVE CompletedBranchClosed
  <2> SUFFICES ASSUME escalated = {}, NEW b \in Branches(plan), Status(plan, b) = "completed",
                      NEW c \in Children(plan, b)
               PROVE  Status(plan, c) = "completed"
    BY DEF CompletedBranchClosed
  <2>1. plan \in Seq(PlanNode) /\ WellFormed(plan) /\ b \in Ids(plan)
    BY <1>1, InvParts DEF Branches
  <2>2. c \in Ids(plan) /\ b \in Ancestors(plan, c)
    BY <2>1, ChildAncestors
  <2> QED  BY <1>1, <2>2 DEF Path, Closed, DoneOrGivenUp
<1>2. Inv /\ Path /\ ReviewPending => (resumes = 0 => CompletedBranchClosed)
  BY <1>1
<1> QED  BY <1>2, PathInvariant, PTL

\* In such a run the whole plan is replanned only when some node was given up, or
\* nothing is left to do: otherwise there is a failing node or a pending leaf to blame.
THEOREM LastResort ==
    ASSUME ~BareFinish PROVE Spec => [](resumes = 0 => WholePlanReplanIsLastResort)
<1>1. ASSUME Inv, Path, resumes = 0 PROVE WholePlanReplanIsLastResort
  <2> SUFFICES ASSUME phase = "replan", Suspect = NoNode
               PROVE  IsComplete(plan) \/ \E n \in Ids(plan) : Status(plan, n) = "failed"
    BY DEF WholePlanReplanIsLastResort
  <2>1. plan \in Seq(PlanNode) /\ WellFormed(plan)
    BY <1>1, InvParts
  <2>2. lastFailed = NoNode /\ CurrentLeaf(plan) = NoNode
    BY DEF Suspect
  <2> QED  BY <1>1, <2>1, <2>2, CurrentLeafPending DEF Path, SomethingToDo
<1>2. Inv /\ Path /\ ReviewPending => (resumes = 0 => WholePlanReplanIsLastResort)
  BY <1>1
<1> QED  BY <1>2, PathInvariant, PTL

-----------------------------------------------------------------------------
(* What a replan leaves alone.                                             *)

\* The other nodes stand where they stood, as they were.
LEMMA ReplacedOutside ==
    ASSUME NEW p \in Seq(PlanNode), WellFormed(p), NEW n \in Ids(p),
           NEW new \in Seq(PlanNode), \A i \in 1 .. Len(new) : new[i].depth > Node(p, n).depth,
           NEW q, q = ReplaceChildren(p, n, new), WellFormed(q)
    PROVE  Outside(q, n) = Outside(p, n)
<1>1. PICK a \in 1 .. Len(p) : a = At(p, n)
  BY AtPosition
<1>2. PICK e \in a .. Len(p) : e = LastOf(p, n)
  BY <1>1, SubtreeEnd
<1>3. PICK k : k = Len(new)
  OBVIOUS
<1>4. Len(p) \in Nat /\ a \in Nat /\ e \in Nat /\ k \in Nat /\ Len(p) - e \in Nat
  BY <1>3, PlanDomain
<1>5. /\ q \in Seq(PlanNode) /\ Len(q) = a + k + (Len(p) - e)
      /\ \A i \in 1 .. a : q[i] = p[i]
      /\ \A i \in 1 .. k : q[a + i] = new[i]
      /\ \A i \in 1 .. Len(p) - e : q[a + k + i] = p[e + i]
  <2>1. q = Spliced(p, a, e, new)
    BY <1>1, <1>2 DEF ReplaceChildren, Spliced
  <2>2. /\ q \in Seq(PlanNode) /\ Len(q) = a + Len(new) + (Len(p) - e)
        /\ \A i \in 1 .. a : q[i] = p[i]
        /\ \A i \in 1 .. Len(new) : q[a + i] = new[i]
        /\ \A i \in 1 .. Len(p) - e : q[a + Len(new) + i] = p[e + i]
    <3>1. Spliced(p, a, e, new) \in Seq(PlanNode)
      BY SpliceMembers
    <3>2. Len(Spliced(p, a, e, new)) = a + Len(new) + (Len(p) - e)
      BY SpliceMembers
    <3>3. \A i \in 1 .. a : Spliced(p, a, e, new)[i] = p[i]
      BY SpliceMembers
    <3>4. \A i \in 1 .. Len(new) : Spliced(p, a, e, new)[a + i] = new[i]
      BY SpliceMembers
    <3>5. \A i \in 1 .. Len(p) - e : Spliced(p, a, e, new)[a + Len(new) + i] = p[e + i]
      BY SpliceMembers
    <3> QED  BY <2>1, <3>1, <3>2, <3>3, <3>4, <3>5, Zenon
  <2> QED  BY <1>3, <2>2, Zenon
<1>6. PICK b \in Nat : b = a + k
  BY <1>4
<1>7. At(q, n) = a /\ n \in Ids(q) /\ Node(q, n) = Node(p, n) /\ Node(p, n).depth \in Nat
  <2>1. q[a] = p[a] /\ p[a].id = n /\ a \in DOMAIN q
    <3>1. DOMAIN q = 1 .. Len(q)
      BY <1>5, PlanDomain
    <3>2. a \in 1 .. a /\ a \in 1 .. Len(q)
      BY <1>4, <1>5
    <3> QED  BY <1>1, <1>5, <3>1, <3>2, AtPosition
  <2>2. At(q, n) = a /\ n \in Ids(q)
    BY <1>5, <2>1, AtUnique
  <2> QED  BY <1>1, <2>1, <2>2, AtPosition DEF Node
<1>8. LastOf(q, n) = b
  <2>1. ASSUME NEW j \in a + 1 .. b PROVE q[j].depth > Node(q, n).depth
    <3>1. j - a \in 1 .. k /\ a + (j - a) = j
      BY <1>4, <1>6
    <3>2. q[j] = new[j - a]
      BY <1>5, <3>1
    <3> QED  BY <1>3, <1>7, <3>1, <3>2
  <2>2. ASSUME b < Len(q) PROVE q[b + 1].depth <= Node(q, n).depth
    <3>1. 1 \in 1 .. Len(p) - e /\ e < Len(p)
      BY <1>4, <1>5, <1>6, <2>2
    <3>2. q[b + 1] = p[e + 1]
      BY <1>5, <1>6, <3>1
    <3> QED  BY <1>2, <1>7, <3>1, <3>2, SubtreeEnd
  <2>3. b \in At(q, n) .. Len(q)
    BY <1>4, <1>5, <1>6, <1>7
  <2> QED  BY <1>5, <1>7, <2>1, <2>2, <2>3, EndOf
<1>9. SubSeq(q, 1, a - 1) = SubSeq(p, 1, a - 1)
  <2>1. PICK c \in Nat : c = a - 1
    BY <1>4
  <2>2. c <= Len(p) /\ c <= Len(q) /\ \A i \in 1 .. c : q[i] = p[i]
    BY <1>4, <1>5, <2>1
  <2> QED  BY <1>5, <2>1, <2>2, SameBefore
<1>10. SubSeq(q, b + 1, Len(q)) = SubSeq(p, e + 1, Len(p))
  <2>1. SameEnd(p, e, q, b)
    <3>1. PICK r \in Nat : r = Len(p) - e
      BY <1>4
    <3>2. Len(q) - b = r
      BY <1>4, <1>5, <1>6, <3>1
    <3>3. \A i \in 1 .. r : q[b + i] = p[e + i]
      BY <1>5, <1>6, <3>1
    <3> QED  BY <3>1, <3>2, <3>3 DEF SameEnd
  <2>2. q \in Seq(PlanNode) /\ e \in Nat /\ b \in Nat
    BY <1>4, <1>5
  <2> QED  BY <2>1, <2>2, SameAfter, Zenon
<1> QED  BY <1>1, <1>2, <1>7, <1>8, <1>9, <1>10 DEF Outside

\* So they do when the node changes its status.
LEMMA StatusOutside ==
    ASSUME NEW p \in Seq(PlanNode), WellFormed(p), NEW n \in Ids(p), NEW s \in Statuses,
           NEW q, q = SetStatus(p, n, s)
    PROVE  Outside(q, n) = Outside(p, n)
<1>1. PICK a \in 1 .. Len(p) : a = At(p, n)
  BY AtPosition
<1>2. PICK e \in a .. Len(p) : e = LastOf(p, n)
  BY <1>1, SubtreeEnd
<1>3. PICK u : u = [p[a] EXCEPT !.status = s]
  OBVIOUS
<1>4. /\ Len(p) \in Nat /\ a \in Nat /\ e \in Nat /\ DOMAIN p = 1 .. Len(p)
      /\ p[a] \in PlanNode /\ p[a].id = n /\ p[a].depth \in Nat
  BY <1>1, AtPosition, PlanDomain
<1>5. u.depth = p[a].depth
  BY <1>3, <1>4 DEF PlanNode
<1>6. /\ q \in Seq(PlanNode) /\ n \in Ids(q) /\ Len(q) = Len(p) /\ At(q, n) = a
      /\ \A i \in 1 .. Len(p) : i # a => q[i] = p[i]
  BY <1>1, SetStatusTree
<1>7. q[a] = u
  <2>1. q = [p EXCEPT ![a] = u]
    BY <1>1, <1>3 DEF SetStatus
  <2> QED  BY <1>4, <2>1
<1>8. Node(q, n).depth = Node(p, n).depth
  BY <1>1, <1>5, <1>6, <1>7 DEF Node
<1>9. LastOf(q, n) = e
  <2>1. /\ \A j \in a + 1 .. e : q[j].depth > Node(q, n).depth
        /\ e < Len(q) => q[e + 1].depth <= Node(q, n).depth
    <3>1. /\ \A j \in a + 1 .. e : q[j] = p[j]
          /\ e < Len(p) => q[e + 1] = p[e + 1]
      BY <1>4, <1>6
    <3> QED  BY <1>1, <1>2, <1>6, <1>8, <3>1, SubtreeEnd
  <2> QED  BY <1>2, <1>6, <2>1, EndOf
<1>10. SubSeq(q, 1, a - 1) = SubSeq(p, 1, a - 1)
  <2>1. PICK c \in Nat : c = a - 1
    BY <1>4
  <2>2. c <= Len(p) /\ c <= Len(q) /\ \A i \in 1 .. c : q[i] = p[i]
    BY <1>4, <1>6, <2>1
  <2> QED  BY <1>6, <2>1, <2>2, SameBefore
<1>11. SubSeq(q, e + 1, Len(q)) = SubSeq(p, e + 1, Len(p))
  <2>1. SameEnd(p, e, q, e)
    <3>1. \A i \in 1 .. Len(p) - e : q[e + i] = p[e + i]
      BY <1>2, <1>4, <1>6
    <3> QED  BY <1>2, <1>4, <1>6, <3>1 DEF SameEnd
  <2> QED  BY <1>4, <1>6, <2>1, SameAfter
<1> QED  BY <1>1, <1>2, <1>6, <1>9, <1>10, <1>11 DEF Outside

\* The planner's answer under n, however n is marked then.
LEMMA HungOutside ==
    ASSUME NEW p \in Seq(PlanNode), WellFormed(p), NEW n \in Ids(p),
           NEW f \in Seq(Shoot), Shaped(f),
           NEW live, Spared(p, n) \subseteq live,
           NEW ids \in Names(Len(f), FreeIds(live), {}), NEW s \in Statuses
    PROVE  Outside(SetStatus(Hung(p, n, f, ids), n, s), n) = Outside(p, n)
<1>1. PICK q : q = Hung(p, n, f, ids)
  OBVIOUS
<1>2. q \in Seq(PlanNode) /\ WellFormed(q) /\ n \in Ids(q)
  BY <1>1, HungPlan
<1>3. PICK d \in Nat : d = Node(p, n).depth
  BY AtPosition
<1>4. Len(f) \in Nat /\ FreeIds(live) \in SUBSET Nodes /\ {} \in SUBSET Nodes
  BY LenProperties DEF FreeIds
<1>5. ids \in [1 .. Len(f) -> Nodes] /\ IsInjective(ids)
  BY <1>4, NamesType
<1>6. PICK new : new = Grown(f, ids, d)
  OBVIOUS
<1>7. new \in Seq(PlanNode) /\ \A i \in 1 .. Len(new) : new[i].depth > d
  <2>1. /\ new \in Seq(PlanNode) /\ Len(new) = Len(f)
        /\ \A i \in 1 .. Len(f) : /\ f[i].depth \in Nat \ {0}
                                  /\ new[i].depth = d + f[i].depth
    BY <1>5, <1>6, GrownPlan
  <2> QED  BY <2>1
<1>8. q = ReplaceChildren(p, n, new)
  BY <1>1, <1>3, <1>6 DEF Hung
<1>9. Outside(q, n) = Outside(p, n)
  BY <1>2, <1>3, <1>7, <1>8, ReplacedOutside
<1> QED  BY <1>1, <1>2, <1>9, StatusOutside

\* The replan of a subtree, and what a human has redecomposed.
LEMMA SubtreeOutside ==
    ASSUME Inv, NEW n \in Nodes, ReplanSubtree(n)
    PROVE  Outside(plan', n) = Outside(plan, n)
<1>1. plan \in Seq(PlanNode) /\ WellFormed(plan) /\ n \in Ids(plan)
  BY InvParts DEF ReplanSubtree
<1>2. PICK f \in Forests : \E ids \in Names(Len(f), FreeIds(Spared(plan, n)), {}) :
         plan' = SetStatus(Hung(plan, n, IF IsCheckpoint(plan, n)
                                         THEN Bounded(n, f) ELSE f, ids), n, "pending")
  BY DEF ReplanSubtree
<1>3. PICK g : g = IF IsCheckpoint(plan, n) THEN Bounded(n, f) ELSE f
  OBVIOUS
<1>4. g \in Seq(Shoot) /\ Shaped(g) /\ Len(g) = Len(f)
  BY <1>3, ForestType
<1>5. PICK ids \in Names(Len(g), FreeIds(Spared(plan, n)), {}) :
         plan' = SetStatus(Hung(plan, n, g, ids), n, "pending")
  BY <1>2, <1>3, <1>4
<1>6. PICK s \in Statuses : s = "pending"
  BY DEF Statuses
<1>7. Outside(SetStatus(Hung(plan, n, g, ids), n, s), n) = Outside(plan, n)
  BY <1>1, <1>4, HungOutside
<1> QED  BY <1>5, <1>6, <1>7

LEMMA RedecomposedOutside ==
    ASSUME Inv, NEW n \in Nodes, ResolveRedecompose(n)
    PROVE  n \in Ids(plan') /\ Outside(plan', n) = Outside(plan, n)
<1>1. plan \in Seq(PlanNode) /\ WellFormed(plan) /\ n \in Ids(plan)
  BY InvParts DEF ResolveRedecompose, Resolvable
<1>2. PICK f \in Forests : \E ids \in Names(Len(f), FreeIds(Spared(plan, n)), {}) :
         plan' = SetStatus(Hung(plan, n, f, ids), n, "pending")
  BY DEF ResolveRedecompose
<1>3. PICK ids \in Names(Len(f), FreeIds(Spared(plan, n)), {}) :
         plan' = SetStatus(Hung(plan, n, f, ids), n, "pending")
  BY <1>2
<1>4. PICK s \in Statuses : s = "pending"
  BY DEF Statuses
<1>5. f \in Seq(Shoot) /\ Shaped(f)
  BY ForestType
<1>6. Outside(SetStatus(Hung(plan, n, f, ids), n, s), n) = Outside(plan, n)
  BY <1>1, <1>5, HungOutside
<1>7. PICK q : q = Hung(plan, n, f, ids)
  OBVIOUS
<1>8. q \in Seq(PlanNode) /\ WellFormed(q) /\ n \in Ids(q)
  BY <1>1, <1>5, <1>7, HungPlan
<1>9. Ids(SetStatus(q, n, s)) = Ids(q)
  BY <1>8, SetStatusPlan
<1> QED  BY <1>3, <1>4, <1>6, <1>7, <1>8, <1>9

\* Only a replan leads from a replan to the next turn, only a human resumes a run.
LEMMA OnlyReplans ==
    ASSUME Inv, [Next]_vars, phase = "replan", phase' = "turn", Suspect # NoNode
    PROVE  ReplanOrphan \/ \E n \in Nodes : ReplanSubtree(n)
<1>1. ~Review
  BY DEF Review, ReviewApprove, ReviewReject, ReviewEdit, ReviewMarkLeaf, ReviewRedecompose
<1>2. ~Resolve
  BY DEF Resolve, Resolves, ResolveEdit, ResolveRedecompose, ResolveReject, ResolveRaises, Resolvable
<1>3. ~Done /\ ~UNCHANGED vars
  BY DEF Done, vars
<1>4. CASE LoopStep
  <2>1. \A n \in Nodes : /\ ~RollupRejects(n) /\ ~RollupPasses(n) /\ ~CheckpointPasses(n)
                         /\ ~AskedDone(n) /\ ~AskedNotDone(n)
    BY DEF RollupRejects, RollupPasses, CheckpointPasses, AskedDone, AskedNotDone, AtHand
  <2>2. /\ ~StartTurn /\ ~ExpandCheckpoint /\ ~OutOfSteps
        /\ ~BackendFails /\ ~ParseError /\ ~MutationGuard /\ ~PlainReasoning
        /\ ~ToolsFail /\ ~ToolsSucceed(TRUE) /\ ~ToolsSucceed(FALSE)
        /\ ~AutoFinish /\ ~FinishComplete /\ ~FinishRequest
    BY DEF StartTurn, ExpandCheckpoint, OutOfSteps, BackendFails, ParseError,
       MutationGuard, PlainReasoning, ToolsFail, ToolsSucceed, AutoFinish, FinishComplete,
       FinishRequest
  <2>3. /\ ~VerifyNothing /\ ~StepNotDone /\ ~StepDone
        /\ ~TurnDone /\ ~FinishPhrase /\ ~DeferredFinish /\ ~AskedSettled /\ ~FinishAccepted
        /\ ~Escalate /\ ~EscalateRun
    BY DEF VerifyNothing, StepNotDone, StepDone, TurnDone, FinishPhrase,
       DeferredFinish, AskedSettled, FinishAccepted, Settled, Escalate, EscalateRun
  <2>4. ~ReplanAll /\ ~PlannerRaises
    BY DEF ReplanAll, PlannerRaises, Finish
  <2> QED  BY <1>4, <2>1, <2>2, <2>3, <2>4 DEF LoopStep
<1> QED  BY <1>1, <1>2, <1>3, <1>4 DEF Next

\* A replan after a failure leaves every node outside the subtree it replans as it
\* was and in its place, orphans and widened targets included.
THEOREM ReplansStayLocal == Spec => ReplanIsLocal
<1>1. ASSUME Inv, [Next]_vars, phase = "replan", phase' = "turn", Suspect # NoNode
      PROVE  Outside(plan, Target) = Outside(plan', Target)
  <2>1. CASE ReplanOrphan
    BY <2>1 DEF ReplanOrphan
  <2>2. ASSUME NEW n \in Nodes, ReplanSubtree(n)
        PROVE  Outside(plan, Target) = Outside(plan', Target)
    <3>1. PICK m \in Nodes : m = n /\ m = Target
      BY <2>2 DEF ReplanSubtree
    <3>2. Outside(plan', m) = Outside(plan, m)
      BY <1>1, <2>2, <3>1, SubtreeOutside
    <3> QED  BY <3>1, <3>2
  <2> QED  BY <1>1, <2>1, <2>2, OnlyReplans
<1>2. Inv /\ [Next]_vars =>
         [phase = "replan" /\ phase' = "turn" /\ Suspect # NoNode =>
             Outside(plan, Target) = Outside(plan', Target)]_vars
  BY <1>1
<1> QED  BY <1>2, Invariant, PTL DEF Spec, ReplanIsLocal

\* What a human decides about one node changes nothing outside its subtree.
THEOREM ResolutionsStayLocal == Spec => ResolveIsLocal
<1>1. ASSUME Inv, NEW n \in Nodes, Resolves(n)
      PROVE  n \in Ids(plan') /\ Outside(plan, n) = Outside(plan', n)
  <2>1. n \in Ids(plan)
    BY <1>1 DEF Resolves, ResolveEdit, ResolveRedecompose, ResolveReject, ResolveRaises, Resolvable
  <2>2. plan \in Seq(PlanNode) /\ WellFormed(plan)
    BY <1>1, InvParts
  <2>3. CASE ResolveEdit(n) \/ ResolveRaises(n)
    <3>1. PICK s \in Statuses : s = "pending"
      BY DEF Statuses
    <3>2. plan' = SetStatus(plan, n, s)
      BY <2>3, <3>1 DEF ResolveEdit, ResolveRaises
    <3>3. Outside(plan', n) = Outside(plan, n)
      BY <2>1, <2>2, <3>2, StatusOutside
    <3>4. Ids(plan') = Ids(plan)
      BY <2>1, <2>2, <3>2, SetStatusPlan
    <3> QED  BY <2>1, <3>3, <3>4
  <2>4. CASE ResolveRedecompose(n)
    BY <1>1, <2>4, RedecomposedOutside
  <2>5. CASE ResolveReject(n)
    BY <2>1, <2>5 DEF ResolveReject
  <2> QED  BY <1>1, <2>3, <2>4, <2>5 DEF Resolves
<1>2. Inv /\ [Next]_vars =>
         [\A n \in Nodes : Resolves(n) =>
             n \in Ids(plan') /\ Outside(plan, n) = Outside(plan', n)]_vars
  BY <1>1
<1> QED  BY <1>2, Invariant, PTL DEF Spec, ResolveIsLocal

-----------------------------------------------------------------------------
(* What becomes of completed work.                                         *)

\* Nothing completed in p is open, or gone, in q.
StillDone(p, q) == \A n \in Ids(p) : Status(p, n) = "completed" =>
                       n \in Ids(q) /\ Status(q, n) = "completed"

LEMMA ReviewNext == Inv /\ ReviewPending /\ [Next]_vars => ReviewPending'
<1> SUFFICES ASSUME Inv, ReviewPending, [Next]_vars PROVE ReviewPending'
  OBVIOUS
<1>1. CASE Review
  BY <1>1, ReviewPath
<1>2. CASE LoopStep \/ Resolve
  BY <1>2, Reviewed DEF ReviewPending
<1>3. CASE UNCHANGED vars
  BY <1>3 DEF vars, ReviewPending
<1> QED  BY <1>1, <1>2, <1>3 DEF Next, Done

LEMMA ReviewInvariant == Spec => [](Inv /\ ReviewPending)
<1>1. Init => ReviewPending
  BY PathInit
<1> QED  BY <1>1, ReviewNext, InvInit, InvNext, PTL DEF Spec

\* A status is set.
LEMMA SetStillDone ==
    ASSUME NEW p \in Seq(PlanNode), WellFormed(p), NEW n \in Ids(p), NEW s \in Statuses,
           NEW q, q = SetStatus(p, n, s)
    PROVE  /\ s = "completed" => StillDone(p, q)
           /\ \A m \in Ids(p) : m # n /\ Status(p, m) = "completed" =>
                 m \in Ids(q) /\ Status(q, m) = "completed"
<1>1. Ids(q) = Ids(p) /\ \A m \in Ids(p) : Status(q, m) = IF m = n THEN s ELSE Status(p, m)
  BY SetStatusTree
<1> QED  BY <1>1 DEF StillDone

\* The planner answered under n, and n was marked: what is not under n is still done.
LEMMA HungStillDone ==
    ASSUME NEW p \in Seq(PlanNode), WellFormed(p), NEW n \in Ids(p),
           NEW f \in Seq(Shoot), Shaped(f),
           NEW live, Spared(p, n) \subseteq live,
           NEW ids \in Names(Len(f), FreeIds(live), {}), NEW s \in Statuses,
           NEW q, q = SetStatus(Hung(p, n, f, ids), n, s),
           NEW m \in Ids(p), m \notin Subtree(p, n), Status(p, m) = "completed"
    PROVE  m \in Ids(q) /\ Status(q, m) = "completed"
<1>1. PICK h : h = Hung(p, n, f, ids)
  OBVIOUS
<1>2. /\ h \in Seq(PlanNode) /\ WellFormed(h) /\ n \in Ids(h)
      /\ Grafted(p, h, Spared(p, n), {n} \cup Ancestors(p, n))
  BY <1>1, HungGraft
<1>3. m \in Spared(p, n) /\ m # n
  BY InOwnSubtree DEF Spared
<1>4. m \in Ids(h) /\ Status(h, m) = "completed"
  BY <1>2, <1>3, GraftAbove
<1> QED  BY <1>1, <1>2, <1>3, <1>4, SetStillDone

\* A checkpoint was expanded.
LEMMA ExpandedStillDone ==
    ASSUME Inv, ExpandCheckpoint
    PROVE  StillDone(plan, plan')
<1>1. plan \in Seq(PlanNode) /\ WellFormed(plan)
  BY InvParts
<1>2. PICK c : c = CurrentLeaf(plan)
  OBVIOUS
<1>3. c \in Ids(plan) /\ IsLeaf(plan, c)
  BY <1>1, <1>2, CurrentLeafPending DEF ExpandCheckpoint
<1>4. PICK f \in Forests :
         \E ids \in Names(Len(f), FreeIds(Ids(plan) \cup Counted), {}) :
            plan' = Hung(DemoteChildless(plan, c, f), c, DemotePassThrough(f), ids)
  BY <1>2 DEF ExpandCheckpoint
<1>5. PICK g : g = DemotePassThrough(f)
  OBVIOUS
<1>6. g \in Seq(Shoot) /\ Shaped(g) /\ Len(g) = Len(f)
  BY <1>5, ForestType
<1>7. PICK p : p = DemoteChildless(plan, c, f)
  OBVIOUS
<1>8. PICK ids \in Names(Len(g), FreeIds(Ids(plan) \cup Counted), {}) : plan' = Hung(p, c, g, ids)
  BY <1>4, <1>5, <1>6, <1>7
<1>9. /\ p \in Seq(PlanNode) /\ WellFormed(p) /\ Ids(p) = Ids(plan) /\ Len(p) = Len(plan)
      /\ \A i \in 1 .. Len(plan) : p[i].id = plan[i].id /\ p[i].depth = plan[i].depth
      /\ \A m \in Ids(plan) : Status(p, m) = Status(plan, m)
  BY <1>1, <1>3, <1>7, DemotedTree
<1>10. Spared(p, c) = Ids(plan)
  BY <1>1, <1>3, <1>9, LeafSpared
<1>11. Grafted(p, plan', Ids(plan), {c} \cup Ancestors(p, c)) /\ plan' \in Seq(PlanNode)
  BY <1>3, <1>6, <1>8, <1>9, <1>10, HungGraft
<1>12. \A m \in Ids(plan) : m \in Ids(plan') /\ Status(plan', m) = Status(p, m)
  BY <1>9, <1>11, GraftAbove
<1> QED  BY <1>9, <1>12 DEF StillDone

\* A checkpoint passed.
LEMMA PassedStillDone ==
    ASSUME Inv, NEW c \in Nodes, CheckpointPasses(c)
    PROVE  StillDone(plan, plan')
<1>1. plan \in Seq(PlanNode) /\ WellFormed(plan) /\ c \in Ids(plan)
  BY InvParts DEF CheckpointPasses, FirstReady, ReadyBranches, Branches
<1>2. PICK f \in Forests :
         \E ids \in Names(Len(f), FreeIds(Ids(plan) \cup Counted), {}) :
            plan' = SetStatus(InsertAfter(plan, c, Grown(f, ids, Node(plan, c).depth - 1)),
                              c, "completed")
  BY DEF CheckpointPasses
<1>3. PICK ids \in Names(Len(f), FreeIds(Ids(plan) \cup Counted), {}) :
         plan' = SetStatus(InsertAfter(plan, c, Grown(f, ids, Node(plan, c).depth - 1)),
                           c, "completed")
  BY <1>2
<1>4. PICK q : q = InsertAfter(plan, c, Grown(f, ids, Node(plan, c).depth - 1))
  OBVIOUS
<1>5. /\ q \in Seq(PlanNode) /\ WellFormed(q) /\ c \in Ids(q)
      /\ Grafted(plan, q, Ids(plan), Ancestors(plan, c))
  BY <1>1, <1>4, ContinuationGraft
<1>6. \A m \in Ids(plan) : m \in Ids(q) /\ Status(q, m) = Status(plan, m)
  BY <1>1, <1>5, GraftAbove
<1>7. PICK s \in Statuses : s = "completed"
  BY DEF Statuses
<1>8. plan' = SetStatus(q, c, s)
  BY <1>3, <1>4, <1>7
<1>9. StillDone(q, plan')
  BY <1>5, <1>7, <1>8, SetStillDone
<1> QED  BY <1>6, <1>9 DEF StillDone

\* The whole plan revised: the completed steps are still done, with what is below.
LEMMA RevisedStillDone ==
    ASSUME Inv, ReplanAll, NEW m \in Ids(plan), Status(plan, m) = "completed"
    PROVE  \/ m \in Ids(plan') /\ Status(plan', m) = "completed"
           \/ \E t \in Tops(plan) : m \in Subtree(plan, t) /\ Status(plan, t) # "completed"
<1>1. plan \in Seq(PlanNode) /\ WellFormed(plan)
  BY InvParts
<1>2. PICK f \in {f \in Forests : Flat(f)}, places \in Ascending(KeptPositions(plan)) :
         \E ids \in Names(Len(f), FreeIds(Ids(plan)),
                          {t \in Tops(plan) : Status(plan, t) # "completed"}) :
            plan' = Revised(plan, places, Grown(f, ids, 0))
  BY DEF ReplanAll
<1>3. PICK ids \in Names(Len(f), FreeIds(Ids(plan)),
                         {t \in Tops(plan) : Status(plan, t) # "completed"}) :
         plan' = Revised(plan, places, Grown(f, ids, 0))
  BY <1>2
<1>4. plan' \in Seq(PlanNode) /\ Grafted(plan, plan', KeptIds(plan), {})
  BY <1>1, <1>2, <1>3, WholeGraft
<1>5. PICK t \in Tops(plan) : m \in Subtree(plan, t)
  BY <1>1, TopAbove
<1>6. CASE Status(plan, t) = "completed"
  <2>1. m \in KeptIds(plan)
    BY <1>1, <1>5, <1>6, TopKept
  <2> QED  BY <1>1, <1>4, <2>1, GraftAbove
<1> QED  BY <1>5, <1>6

\* What a step may do to a completed node.
LEMMA WorkStep ==
    ASSUME Inv, ReviewPending, [Next]_vars,
           NEW n \in Ids(plan), Status(plan, n) = "completed"
    PROVE  \/ n \in Ids(plan') /\ Status(plan', n) = "completed"
           \/ phase = "replan" /\ Suspect # NoNode /\ n \in Subtree(plan, Target)
           \/ phase = "replan" /\ \E t \in Tops(plan) : /\ n \in Subtree(plan, t)
                                                        /\ Status(plan, t) # "completed"
           \/ phase = "escalate" /\ n = Blamed
           \/ \E m \in Nodes : Resolves(m) /\ n \in Subtree(plan, m)
<1> USE DEF unreplied, unverified
<1>0. /\ plan \in Seq(PlanNode) /\ WellFormed(plan) /\ Ids(plan) \subseteq Nodes
      /\ turn.leaf \in Ids(plan) \cup {NoNode} /\ turn.left \subseteq Ids(plan)
  BY InvParts
<1>1. ASSUME plan' = plan
      PROVE  n \in Ids(plan') /\ Status(plan', n) = "completed"
  BY <1>1
<1>2. ASSUME NEW m \in Ids(plan), Complete(m)
      PROVE  n \in Ids(plan') /\ Status(plan', n) = "completed"
  <2>1. PICK s \in Statuses : s = "completed"
    BY DEF Statuses
  <2>2. plan' = SetStatus(plan, m, s)
    BY <1>2, <2>1 DEF Complete
  <2> QED  BY <1>0, <2>1, <2>2, SetStillDone DEF StillDone
<1>3. CASE Review
  BY <1>3 DEF Review, ReviewApprove, ReviewReject, ReviewEdit, ReviewMarkLeaf,
     ReviewRedecompose, ReviewPending
<1>4. CASE Resolve
  <2>1. PICK m \in Nodes : Resolves(m)
    BY <1>4 DEF Resolve
  <2>2. m \in Ids(plan)
    BY <2>1 DEF Resolves, ResolveEdit, ResolveRedecompose, ResolveReject, ResolveRaises, Resolvable
  <2>3. CASE n \in Subtree(plan, m)
    BY <2>1, <2>3
  <2>4. ASSUME n \notin Subtree(plan, m)
        PROVE  n \in Ids(plan') /\ Status(plan', n) = "completed"
    <3>1. PICK s \in Statuses : s = "pending"
      BY DEF Statuses
    <3>2. CASE ResolveEdit(m) \/ ResolveRaises(m)
      <4>1. plan' = SetStatus(plan, m, s)
        BY <3>1, <3>2 DEF ResolveEdit, ResolveRaises
      <4>2. n # m
        BY <1>0, <2>2, <2>4, InOwnSubtree
      <4> QED  BY <1>0, <2>2, <4>1, <4>2, SetStillDone
    <3>3. CASE ResolveRedecompose(m)
      <4>1. PICK f \in Forests : \E ids \in Names(Len(f), FreeIds(Spared(plan, m)), {}) :
               plan' = SetStatus(Hung(plan, m, f, ids), m, "pending")
        BY <3>3 DEF ResolveRedecompose
      <4>2. PICK ids \in Names(Len(f), FreeIds(Spared(plan, m)), {}) :
               plan' = SetStatus(Hung(plan, m, f, ids), m, s)
        BY <3>1, <4>1
      <4>3. f \in Seq(Shoot) /\ Shaped(f)
        BY ForestType
      <4> QED  BY <1>0, <2>2, <2>4, <4>2, <4>3, HungStillDone
    <3>4. CASE ResolveReject(m)
      BY <1>1, <3>4 DEF ResolveReject
    <3> QED  BY <2>1, <3>2, <3>3, <3>4 DEF Resolves
  <2> QED  BY <2>3, <2>4
<1>5. ASSUME NEW m \in Nodes, ReplanSubtree(m), n \notin Subtree(plan, Target)
      PROVE  n \in Ids(plan') /\ Status(plan', n) = "completed"
  <2>1. m \in Ids(plan) /\ m = Target
    BY <1>5 DEF ReplanSubtree
  <2>2. PICK f \in Forests : \E ids \in Names(Len(f), FreeIds(Spared(plan, m)), {}) :
           plan' = SetStatus(Hung(plan, m, IF IsCheckpoint(plan, m)
                                           THEN Bounded(m, f) ELSE f, ids), m, "pending")
    BY <1>5 DEF ReplanSubtree
  <2>3. PICK g : g = IF IsCheckpoint(plan, m) THEN Bounded(m, f) ELSE f
    OBVIOUS
  <2>4. g \in Seq(Shoot) /\ Shaped(g) /\ Len(g) = Len(f)
    BY <2>3, ForestType
  <2>5. PICK s \in Statuses : s = "pending"
    BY DEF Statuses
  <2>6. PICK ids \in Names(Len(g), FreeIds(Spared(plan, m)), {}) :
           plan' = SetStatus(Hung(plan, m, g, ids), m, s)
    BY <2>2, <2>3, <2>4, <2>5
  <2> QED  BY <1>0, <1>5, <2>1, <2>4, <2>6, HungStillDone
<1>6. CASE LoopStep
  <2>1. ASSUME NEW m \in Nodes, \/ RollupRejects(m) \/ RollupPasses(m) \/ CheckpointPasses(m)
                                \/ AskedDone(m) \/ AskedNotDone(m)
        PROVE  n \in Ids(plan') /\ Status(plan', n) = "completed"
    <3>1. CASE RollupRejects(m) \/ AskedNotDone(m)
      BY <1>1, <3>1 DEF RollupRejects, AskedNotDone
    <3>2. CASE RollupPasses(m)
      BY <1>2, <3>2 DEF RollupPasses, FirstReady, ReadyBranches, Branches
    <3>3. CASE AskedDone(m)
      BY <1>0, <1>2, <3>3 DEF AskedDone, AtHand
    <3>4. CASE CheckpointPasses(m)
      BY <3>4, PassedStillDone DEF StillDone
    <3> QED  BY <2>1, <3>1, <3>2, <3>3, <3>4
  <2>2. CASE ExpandCheckpoint
    BY <2>2, ExpandedStillDone DEF StillDone
  <2>3. CASE StepDone
    BY <1>0, <1>2, <2>3 DEF StepDone
  <2>4. CASE \/ StartTurn \/ OutOfSteps
             \/ BackendFails \/ ParseError \/ MutationGuard \/ PlainReasoning
             \/ ToolsFail \/ ToolsSucceed(TRUE) \/ ToolsSucceed(FALSE)
             \/ AutoFinish \/ FinishComplete \/ FinishRequest
    BY <1>1, <2>4 DEF StartTurn, OutOfSteps, BackendFails, ParseError, MutationGuard,
       PlainReasoning, ToolsFail, ToolsSucceed, AutoFinish, FinishComplete, FinishRequest
  <2>5. CASE \/ VerifyNothing \/ StepNotDone
             \/ TurnDone \/ FinishPhrase \/ DeferredFinish \/ AskedSettled \/ FinishAccepted
             \/ ReplanOrphan \/ PlannerRaises \/ EscalateRun
    BY <1>1, <2>5 DEF VerifyNothing, StepNotDone, TurnDone, FinishPhrase, DeferredFinish,
       AskedSettled, FinishAccepted, ReplanOrphan, PlannerRaises, EscalateRun
  <2>6. ASSUME NEW m \in Nodes, ReplanSubtree(m)
        PROVE  \/ n \in Ids(plan') /\ Status(plan', n) = "completed"
               \/ phase = "replan" /\ Suspect # NoNode /\ n \in Subtree(plan, Target)
    BY <1>5, <2>6 DEF ReplanSubtree
  <2>7. CASE ReplanAll
    BY <2>7, RevisedStillDone DEF ReplanAll
  <2>8. ASSUME Escalate, n # Blamed
        PROVE  n \in Ids(plan') /\ Status(plan', n) = "completed"
    <3>1. PICK s \in Statuses : s = "failed"
      BY DEF Statuses
    <3>2. CASE Blamed \in Ids(plan)
      BY <1>0, <2>8, <3>1, <3>2, SetStillDone DEF Escalate
    <3>3. CASE Blamed \notin Ids(plan)
      BY <1>1, <2>8, <3>3 DEF Escalate
    <3> QED  BY <3>2, <3>3
  <2> QED  BY <1>6, <2>1, <2>2, <2>3, <2>4, <2>5, <2>6, <2>7, <2>8 DEF LoopStep, Escalate
<1>7. CASE UNCHANGED vars
  BY <1>1, <1>7 DEF vars
<1> QED  BY <1>3, <1>4, <1>6, <1>7 DEF Next, Done

\* Completed work is undone only by a replan above it, by a whole-plan replan of an
\* unfinished step, by giving the node up, or by a human.
THEOREM CompletedWorkKept == Spec => WorkKept
<1>1. Inv /\ ReviewPending /\ [Next]_vars =>
        [\A n \in Ids(plan) : Status(plan, n) = "completed" =>
          \/ n \in Ids(plan') /\ Status(plan', n) = "completed"
          \/ phase = "replan" /\ Suspect # NoNode /\ n \in Subtree(plan, Target)
          \/ phase = "replan" /\ \E t \in Tops(plan) : /\ n \in Subtree(plan, t)
                                                       /\ Status(plan, t) # "completed"
          \/ phase = "escalate" /\ n = Blamed
          \/ \E m \in Nodes : Resolves(m) /\ n \in Subtree(plan, m)]_vars
  BY WorkStep
<1> QED  BY <1>1, ReviewInvariant, PTL DEF Spec, WorkKept

\* While a finish request is answered, and after it was turned down, no completion
\* is taken back.
THEOREM FinishKeepsWork == Spec => FinishNeverUndoes
<1>1. \A m \in Nodes : Resolves(m) => phase = "done"
  BY DEF Resolves, ResolveEdit, ResolveRedecompose, ResolveReject, ResolveRaises, Resolvable
<1>2. Inv /\ ReviewPending /\ [Next]_vars =>
        [turn.mode = "finish" /\ phase \in {"finish", "rollup"} =>
          \A n \in Ids(plan) : Status(plan, n) = "completed" =>
                                Status(plan', n) = "completed"]_vars
  BY <1>1, WorkStep
<1> QED  BY <1>2, ReviewInvariant, PTL DEF Spec, FinishNeverUndoes

\* A resumed run keeps the replans already spent outside what was redecomposed.
THEOREM BudgetsSurvive == Spec => BudgetSurvivesResume
<1>1. ASSUME Inv, NEW e \in Nodes, Resolves(e), NEW n \in Ids(plan) \cap Ids(plan'),
             replans'[n] < replans[n]
      PROVE  n \in Subtree(plan, e) \ {e}
  <2>1. replans \in [Charged -> Nat] /\ n \in Charged /\ replans[n] \in Nat
    <3>1. replans \in [Charged -> Nat] /\ n \in Charged
      BY <1>1, Constants, InvParts DEF TypeOK
    <3> QED  BY <3>1
  <2>2. ~(ResolveEdit(e) \/ ResolveReject(e) \/ ResolveRaises(e))
    BY <1>1, <2>1 DEF ResolveEdit, ResolveReject, ResolveRaises, retryVars
  <2>3. replans' = Forget(replans, Spared(plan, e) \cup {lastFailed})
    BY <1>1, <2>2 DEF Resolves, ResolveRedecompose
  <2>4. n \notin Spared(plan, e)
    BY <1>1, <2>1, <2>3 DEF Forget
  <2> QED  BY <1>1, <2>4 DEF Spared
<1>2. Inv /\ [Next]_vars =>
         [\A e \in Nodes : Resolves(e) =>
            \A n \in Ids(plan) \cap Ids(plan') :
                replans'[n] < replans[n] => n \in Subtree(plan, e) \ {e}]_vars
  BY <1>1
<1> QED  BY <1>2, Invariant, PTL DEF Spec, BudgetSurvivesResume

-----------------------------------------------------------------------------
(* What a finish request has found so far.                                 *)

\* The verifier is asked for the sake of a finish request only; the steps asked
\* about that it has seen are completed.
AskedProgress ==
    /\ phase = "finish" => turn.mode = "finish"
    /\ turn.mode = "finish" /\ phase \in {"finish", "rollup"} =>
          \A n \in turn.asked \ turn.left : n \in Ids(plan) /\ Status(plan, n) = "completed"

\* A step that goes on for the same turn.
LEMMA AskedSame ==
    ASSUME AskedProgress, StillDone(plan, plan'), turn' = turn,
           phase \in {"finish", "rollup"}, phase' = "finish" => turn.mode = "finish"
    PROVE  AskedProgress'
BY DEF AskedProgress, StillDone

LEMMA AskedElsewhere ==
    ASSUME phase' \notin {"finish", "rollup"} \/ (phase' = "rollup" /\ turn'.mode # "finish")
    PROVE  AskedProgress'
BY DEF AskedProgress

LEMMA AskedInit == Init => AskedProgress
BY DEF Init, AskedProgress

LEMMA AskedNext ==
    ASSUME Inv, AskedProgress, [Next]_vars
    PROVE  AskedProgress'
<1> USE DEF unreplied, unverified
<1>0. /\ plan \in Seq(PlanNode) /\ WellFormed(plan) /\ turn.left \subseteq Ids(plan)
      /\ turn \in Turn
  BY InvParts
<1>1. \A failed \in BOOLEAN : Judge(failed) => phase' \in {"turn", "replan", "escalate"}
  BY JudgeTurn
<1>2. ASSUME NEW m \in Ids(plan), Complete(m) PROVE StillDone(plan, plan')
  <2>1. PICK s \in Statuses : s = "completed"
    BY DEF Statuses
  <2>2. plan' = SetStatus(plan, m, s)
    BY <1>2, <2>1 DEF Complete
  <2> QED  BY <1>0, <2>1, <2>2, SetStillDone
<1>3. CASE Review
  <2>1. phase' \in {"review", "turn", "done"}
    BY <1>3 DEF Review, ReviewApprove, ReviewReject, ReviewEdit, ReviewMarkLeaf,
       ReviewRedecompose, Finish
  <2> QED  BY <2>1, AskedElsewhere
<1>4. CASE Resolve
  <2>1. phase' \in {"turn", "done"}
    BY <1>4 DEF Resolve, Resolves, ResolveEdit, ResolveRedecompose, ResolveReject, ResolveRaises,
       Resolvable, Resume
  <2> QED  BY <2>1, AskedElsewhere
<1>5. CASE LoopStep
  <2>1. ASSUME NEW m \in Nodes, RollupRejects(m) \/ AskedNotDone(m) \/ ReplanSubtree(m)
        PROVE  phase' \notin {"finish", "rollup"}
    BY <1>1, <2>1 DEF RollupRejects, AskedNotDone, RejectFinish, ReplanSubtree, EndReplan
  <2>2. ASSUME NEW m \in Nodes, RollupPasses(m)
        PROVE  AskedProgress'
    <3>1. StillDone(plan, plan') /\ turn' = turn /\ phase = "rollup" /\ phase' = "rollup"
      BY <1>2, <2>2 DEF RollupPasses, FirstReady, ReadyBranches, Branches
    <3> QED  BY <3>1, AskedSame
  <2>3. ASSUME NEW m \in Nodes, CheckpointPasses(m)
        PROVE  AskedProgress'
    <3>1. StillDone(plan, plan') /\ turn' = turn /\ phase = "rollup" /\ phase' = "rollup"
      BY <2>3, PassedStillDone DEF CheckpointPasses
    <3> QED  BY <3>1, AskedSame
  <2>4. ASSUME NEW m \in Nodes, AskedDone(m)
        PROVE  AskedProgress'
    <3>1. m \in Ids(plan) /\ phase = "finish" /\ phase' = "rollup" /\ Complete(m)
          /\ turn' = [turn EXCEPT !.left = @ \ {m}]
      BY <1>0, <2>4 DEF AskedDone, AtHand
    <3>2. turn'.asked = turn.asked /\ turn'.left = turn.left \ {m} /\ turn.mode = "finish"
      BY <1>0, <3>1 DEF Turn, AskedProgress
    <3>3. StillDone(plan, plan') /\ m \in Ids(plan') /\ Status(plan', m) = "completed"
      <4>1. PICK s \in Statuses : s = "completed"
        BY DEF Statuses
      <4>2. \A k \in Ids(plan) : Status(plan', k) = IF k = m THEN s ELSE Status(plan, k)
        BY <1>0, <3>1, <4>1, SetStatusTree DEF Complete
      <4>3. Ids(plan') = Ids(plan)
        BY <1>0, <3>1, <4>1, SetStatusTree DEF Complete
      <4> QED  BY <1>2, <3>1, <4>1, <4>2, <4>3
    <3>4. \A k \in turn'.asked \ turn'.left :
             k = m \/ (k \in Ids(plan) /\ Status(plan, k) = "completed")
      BY <3>1, <3>2 DEF AskedProgress
    <3> QED  BY <3>1, <3>3, <3>4 DEF AskedProgress, StillDone
  <2>5. ASSUME \/ StartTurn \/ ExpandCheckpoint \/ OutOfSteps
               \/ BackendFails \/ ParseError \/ MutationGuard \/ PlainReasoning
               \/ ToolsFail \/ ToolsSucceed(TRUE) \/ ToolsSucceed(FALSE)
               \/ AutoFinish \/ FinishComplete
        PROVE  phase' \notin {"finish", "rollup"}
    BY <1>1, <2>5 DEF StartTurn, ExpandCheckpoint, OutOfSteps, BackendFails, ParseError,
       MutationGuard, PlainReasoning, ToolsFail, ToolsSucceed, AutoFinish, FinishComplete, Finish
  <2>6. CASE FinishRequest
    <3>1. phase' = "finish" /\ turn'.mode = "finish" /\ turn'.asked = turn'.left
      BY <1>0, <2>6 DEF FinishRequest, Turn
    <3> QED  BY <3>1 DEF AskedProgress
  <2>7. CASE VerifyNothing \/ StepDone
    <3>1. phase' = "rollup" /\ turn' = turn /\ turn.mode # "finish"
      BY <2>7 DEF VerifyNothing, StepDone, Inv, StepLeft
    <3> QED  BY <3>1, AskedElsewhere
  <2>8. ASSUME \/ StepNotDone
               \/ TurnDone \/ FinishPhrase \/ DeferredFinish \/ FinishAccepted
               \/ ReplanOrphan \/ ReplanAll \/ PlannerRaises \/ Escalate \/ EscalateRun
        PROVE  phase' \notin {"finish", "rollup"}
    BY <1>1, <2>8 DEF StepNotDone, TurnDone, FinishPhrase, DeferredFinish, FinishAccepted,
       ReplanOrphan, ReplanAll, PlannerRaises, Escalate, EscalateRun, EndReplan, Finish
  <2>9. CASE AskedSettled
    <3>1. StillDone(plan, plan') /\ turn' = turn /\ phase = "rollup" /\ turn.mode = "finish"
      BY <2>9 DEF AskedSettled, Settled, StillDone
    <3> QED  BY <3>1, AskedSame
  <2> QED  BY <1>5, <2>1, <2>2, <2>3, <2>4, <2>5, <2>6, <2>7, <2>8, <2>9, AskedElsewhere
           DEF LoopStep
<1>6. CASE UNCHANGED vars
  BY <1>6 DEF vars, AskedProgress
<1> QED  BY <1>3, <1>4, <1>5, <1>6 DEF Next, Done

\* A finish request is granted to the verifier's word on every single step that was
\* unresolved when it was made, branches that rolled up in between included.
THEOREM FinishesVerified == Spec => FinishVerified
<1>1. ASSUME Inv, AskedProgress, [Next]_vars, phase = "finish", result' = "success",
             NEW n \in turn.asked
      PROVE  Status(plan, n) = "completed"
  <2>1. result = "running"
    BY <1>1 DEF Inv, EndIsDone
  <2>2. FinishAccepted
    <3>1. ~Review /\ ~Resolve /\ ~UNCHANGED vars
      BY <1>1, <2>1 DEF Review, ReviewApprove, ReviewReject, ReviewEdit, ReviewMarkLeaf,
         ReviewRedecompose, Resolve, Resolves, ResolveEdit, ResolveRedecompose,
         ResolveReject, ResolveRaises, Resolvable, vars
    <3>2. \A m \in Nodes : /\ ~RollupRejects(m) /\ ~RollupPasses(m) /\ ~CheckpointPasses(m)
                           /\ ~AskedDone(m) /\ ~AskedNotDone(m) /\ ~ReplanSubtree(m)
      BY <1>1, <2>1 DEF RollupRejects, RollupPasses, CheckpointPasses, AskedDone,
         AskedNotDone, RejectFinish, Judge, ReplanSubtree, unverified
    <3>3. /\ ~StartTurn /\ ~ExpandCheckpoint /\ ~OutOfSteps
          /\ ~BackendFails /\ ~ParseError /\ ~MutationGuard /\ ~PlainReasoning
          /\ ~ToolsFail /\ ~ToolsSucceed(TRUE) /\ ~ToolsSucceed(FALSE)
          /\ ~AutoFinish /\ ~FinishComplete /\ ~FinishRequest
      BY <1>1 DEF StartTurn, ExpandCheckpoint, OutOfSteps, BackendFails, ParseError,
         MutationGuard, PlainReasoning, ToolsFail, ToolsSucceed, AutoFinish, FinishComplete,
         FinishRequest
    <3>4. /\ ~VerifyNothing /\ ~StepNotDone /\ ~StepDone
          /\ ~TurnDone /\ ~FinishPhrase /\ ~DeferredFinish /\ ~AskedSettled
          /\ ~ReplanOrphan /\ ~ReplanAll /\ ~PlannerRaises /\ ~Escalate /\ ~EscalateRun
      BY <1>1 DEF VerifyNothing, StepNotDone, StepDone, TurnDone, FinishPhrase,
         DeferredFinish, AskedSettled, Settled, ReplanOrphan, ReplanAll, PlannerRaises,
         Escalate, EscalateRun
    <3> QED  BY <1>1, <3>1, <3>2, <3>3, <3>4 DEF Next, LoopStep, Done
  <2>3. turn.left = {}
    BY <2>2 DEF FinishAccepted
  <2> QED  BY <1>1, <2>3 DEF AskedProgress
<1>2. Inv /\ AskedProgress /\ [Next]_vars =>
         [phase = "finish" /\ result' = "success" =>
             \A n \in turn.asked : Status(plan, n) = "completed"]_vars
  BY <1>1
<1>3. Spec => [](Inv /\ AskedProgress)
  BY AskedInit, AskedNext, InvInit, InvNext, PTL DEF Spec
<1> QED  BY <1>2, <1>3, PTL DEF Spec, FinishVerified

-----------------------------------------------------------------------------
(* The run as its caller sees it.                                          *)

\* A step of the loop either goes on, taking a turn or not, or ends the run with the
\* plan as it is.
GoesOn == UNCHANGED result /\ steps' \in {steps, steps + 1}
Ends   == \E o \in Results \ {"running"} : Finish(o) /\ UNCHANGED <<plan, steps>>

LEMMA GoesOnOrEnds ==
    ASSUME Inv, Review \/ LoopStep
    PROVE  phase # "done" /\ (GoesOn \/ Ends)
<1> USE DEF GoesOn, Ends, unreviewed, unreplied, unverified, Results
<1>1. \A failed \in BOOLEAN : Judge(failed) => UNCHANGED result
  BY DEF Judge
<1>2. CASE Review
  BY <1>2 DEF Review, ReviewApprove, ReviewReject, ReviewEdit, ReviewMarkLeaf,
     ReviewRedecompose
<1>3. CASE LoopStep
  <2>1. ASSUME NEW n \in Nodes, \/ RollupRejects(n) \/ RollupPasses(n) \/ CheckpointPasses(n)
                                \/ AskedDone(n) \/ AskedNotDone(n) \/ ReplanSubtree(n)
        PROVE  phase # "done" /\ GoesOn
    BY <1>1, <2>1 DEF RollupRejects, RollupPasses, CheckpointPasses, AskedDone,
       AskedNotDone, AtHand, RejectFinish, ReplanSubtree, EndReplan
  <2>2. CASE \/ StartTurn \/ ExpandCheckpoint \/ OutOfSteps
             \/ BackendFails \/ ParseError \/ MutationGuard \/ PlainReasoning
             \/ ToolsFail \/ ToolsSucceed(TRUE) \/ ToolsSucceed(FALSE)
             \/ AutoFinish \/ FinishComplete \/ FinishRequest
    BY <1>1, <2>2 DEF StartTurn, ExpandCheckpoint, OutOfSteps, BackendFails, ParseError,
       MutationGuard, PlainReasoning, ToolsFail, ToolsSucceed, AutoFinish, FinishComplete,
       FinishRequest
  <2>3. CASE \/ VerifyNothing \/ StepNotDone \/ StepDone
             \/ TurnDone \/ FinishPhrase \/ DeferredFinish \/ AskedSettled \/ FinishAccepted
    BY <1>1, <2>3 DEF VerifyNothing, StepNotDone, StepDone, Settled, TurnDone, FinishPhrase,
       DeferredFinish, AskedSettled, FinishAccepted
  <2>4. CASE ReplanOrphan \/ ReplanAll \/ PlannerRaises \/ Escalate \/ EscalateRun
    BY <2>4 DEF ReplanOrphan, ReplanAll, PlannerRaises, Escalate, EscalateRun, EndReplan
  <2> QED  BY <1>3, <2>1, <2>2, <2>3, <2>4 DEF LoopStep
<1> QED  BY <1>2, <1>3

LEMMA RunInit == Init => Run!Init
BY DEF Init, Run!Init, IsComplete

LEMMA RunStep ==
    ASSUME ~BareFinish, MaxResumes = 0, Inv, [Next]_vars
    PROVE  [Run!Next]_Run!vars
<1>1. CASE Review \/ LoopStep
  <2>1. result = "running"
    BY <1>1, GoesOnOrEnds DEF Inv, EndIsDone
  <2>2. Inv'
    BY InvNext
  <2>3. CASE GoesOn
    <3>1. steps' \in {steps, steps + 1} /\ steps' <= MaxSteps /\ UNCHANGED result
      BY <2>2, <2>3, Constants DEF GoesOn, Inv, TypeOK
    <3>2. IsComplete(plan)' \in BOOLEAN
      BY DEF IsComplete
    <3> QED  BY <2>1, <3>1, <3>2 DEF Run!Work, Run!Next
  <2>4. CASE Ends
    <3>1. PICK o \in Results \ {"running"} : Finish(o) /\ UNCHANGED <<plan, steps>>
      BY <2>4 DEF Ends
    <3>2. result' = o /\ UNCHANGED <<plan, steps>>
      BY <3>1 DEF Finish
    <3>3. CASE o = "success"
      <4>1. IsComplete(plan)
        BY <2>2, <3>2, <3>3 DEF Inv, SuccessMeansComplete
      <4> QED  BY <2>1, <3>2, <3>3, <4>1 DEF Run!Succeed, Run!Next
    <3>4. CASE o \in {"failure", "raised"}
      BY <2>1, <3>2, <3>4 DEF Run!GiveUp, Run!Next
    <3> QED  BY <3>3, <3>4 DEF Results
  <2> QED  BY <1>1, <2>3, <2>4, GoesOnOrEnds
<1>2. ~Resolve
  <2>1. resumes = 0
    BY DEF Inv, TypeOK
  <2> QED  BY <2>1 DEF Resolve, Resolves, ResolveEdit, ResolveRedecompose, ResolveReject,
           ResolveRaises, Resolvable
<1>3. CASE UNCHANGED vars
  BY <1>3 DEF vars, Run!vars
<1> QED  BY <1>1, <1>2, <1>3 DEF Next, Done

\* Nobody resuming it, a run whose model finishes only with its work resolved keeps
\* every promise to its caller but the one that it ends: it spends its turns one by
\* one and within max_steps, succeeds only with nothing unresolved, and has one outcome.
THEOREM RunImplements ==
    ASSUME ~BareFinish, MaxResumes = 0 PROVE Spec => Run!Spec
<1>1. Inv /\ [Next]_vars => [Run!Next]_Run!vars
  BY RunStep
<1> QED  BY <1>1, RunInit, Invariant, PTL DEF Spec, Run!Spec

-----------------------------------------------------------------------------
(* The loop with its evidence.                                             *)

\* Every step of the composition is a step of the loop, or none.
LEMMA LedgerStep == [LedgerNext]_ledgerVars => [Next]_vars
<1>1. CASE UNCHANGED ledgerVars
  BY <1>1 DEF ledgerVars
<1>2. ASSUME LedgerNext PROVE Next
  <2>1. CASE Elsewhere
    BY <2>1 DEF Elsewhere, Next, LoopStep
  <2>2. CASE ToolsSucceed(TRUE) \/ ToolsSucceed(FALSE)
    BY <2>2 DEF Next, LoopStep
  <2>3. CASE ToolsFail \/ MutationGuard \/ PlainReasoning \/ VerifyNothing
    BY <2>3 DEF Next, LoopStep
  <2>4. CASE StepDone \/ StepNotDone \/ ReplanAll
    BY <2>4 DEF Next, LoopStep
  <2>5. CASE \E n \in Nodes : AskedDone(n) \/ AskedNotDone(n)
    BY <2>5 DEF Next, LoopStep
  <2>6. CASE \E n \in Nodes : ReplanSubtree(n)
    BY <2>6 DEF Next, LoopStep
  <2> QED  BY <1>2, <2>1, <2>2, <2>3, <2>4, <2>5, <2>6 DEF LedgerNext
<1> QED  BY <1>1, <1>2

\* The composition implements the loop.
THEOREM LedgerIsLoop == LedgerSpec => Spec
BY LedgerStep, PTL DEF LedgerSpec, Spec

\* The plan the evidence is kept for stays a tree of distinct nodes.
THEOREM LedgerPlanStaysTree == LedgerSpec => []PlanShape
BY LedgerIsLoop, PlanStaysTree, PTL

-----------------------------------------------------------------------------
(* Merging buckets.                                                        *)

LEMMA MaxOf ==
    ASSUME NEW S \in SUBSET (Untouched .. Created), S # {}
    PROVE  Max(S) \in S /\ \A x \in S : x <= Max(S)
<1>1. 2 \in Nat /\ S \in SUBSET (0 .. 2) /\ \A x \in S : x \in Nat
  BY DEF Untouched, Created
<1>2. \E i \in S : \A j \in S : j <= i
  BY <1>1, Greatest
<1>3. \E i \in S : \A j \in S : i >= j
  BY <1>1, <1>2
<1>4. Max(S) \in S /\ \A y \in S : Max(S) >= y
  BY <1>3 DEF Max
<1> QED  BY <1>1, <1>4

\* A merge holds what one of its buckets held, and no less than any of them.
LEMMA MergedOf ==
    ASSUME NEW W \in SUBSET Writes
    PROVE  /\ Merged(W) \in Writes
           /\ \A w \in W : \A f \in Files : w[f] <= Merged(W)[f]
           /\ \A f \in Files : Merged(W)[f] # Untouched => \E w \in W : w[f] = Merged(W)[f]
<1>1. ASSUME NEW f \in Files
      PROVE  /\ Merged(W)[f] \in Untouched .. Created
             /\ \A w \in W : w[f] <= Merged(W)[f]
             /\ Merged(W)[f] # Untouched => \E w \in W : w[f] = Merged(W)[f]
  <2> DEFINE S == {w[f] : w \in W} \cup {Untouched}
  <2>1. Merged(W)[f] = Max(S)
    BY DEF Merged
  <2>2. S \in SUBSET (Untouched .. Created) /\ S # {}
    BY DEF Writes, Untouched, Created
  <2>3. \A w \in W : w[f] \in S
    OBVIOUS
  <2>4. \A x \in S : x # Untouched => \E w \in W : w[f] = x
    OBVIOUS
  <2> HIDE DEF S
  <2>5. Max(S) \in S /\ \A x \in S : x <= Max(S)
    BY <2>2, MaxOf
  <2> QED  BY <2>1, <2>2, <2>3, <2>4, <2>5
<1>2. Merged(W) \in Writes
  <2>1. Merged(W) = [f \in Files |-> Merged(W)[f]]
    BY DEF Merged
  <2> QED  BY <1>1, <2>1 DEF Writes
<1> QED  BY <1>1, <1>2

LEMMA MergeTurnOf ==
    ASSUME NEW old \in Writes, NEW new \in Writes
    PROVE  /\ MergeTurn(old, new) \in Writes
           /\ \A f \in Files : /\ old[f] <= MergeTurn(old, new)[f]
                               /\ new[f] <= MergeTurn(old, new)[f]
                               /\ MergeTurn(old, new)[f] \in {old[f], new[f], Untouched}
<1>1. {old, new} \in SUBSET Writes
  OBVIOUS
<1> QED  BY <1>1, MergedOf DEF MergeTurn

-----------------------------------------------------------------------------
(* Sound evidence.                                                         *)

\* The buckets w, r and a are sound for the plan p: the conjuncts are
\* WritesReachBranches, NoStaleWrites and ReadsCreditedOnce.
Sound(p, w, r, a) ==
    /\ \A n \in Ids(p) : \A b \in Ancestors(p, n) : \A f \in Files : w[n][f] <= w[b][f]
    /\ \A n \in Ids(p) : \A f \in Files :
          w[n][f] # Untouched => \E m \in Subtree(p, n) : f \in a[m]
    /\ \A m, n \in Ids(p) :
          r[m] \cap r[n] # {} => m = n \/ m \in Ancestors(p, n) \/ n \in Ancestors(p, m)

\* The buckets of S are empty.
Blank(S, w, r, a) == \A n \in S : w[n] = NoWrites /\ r[n] = {} /\ a[n] = {}

\* Only nodes of the plan have evidence, none has before the review is over, and what
\* was read is remembered.
LedgerInv ==
    /\ LedgerTypeOK
    /\ Sound(plan, written, read, attempt)
    /\ Blank(Nodes \ Ids(plan), written, read, attempt)
    /\ phase = "review" => Blank(Nodes, written, read, attempt)
    /\ \A n \in Nodes : read[n] \subseteq recorded

\* An edit of the plan that drops and adds no node with evidence keeps it sound.
LEMMA SoundMoves ==
    ASSUME NEW p \in Seq(PlanNode), WellFormed(p), NEW q \in Seq(PlanNode), WellFormed(q),
           NEW keep, SameAbove(p, q, keep),
           NEW w \in [Nodes -> Writes], NEW r \in [Nodes -> SUBSET Files],
           NEW a \in [Nodes -> SUBSET Files],
           Blank(Nodes \ keep, w, r, a), Sound(p, w, r, a)
    PROVE  Sound(q, w, r, a) /\ Blank(Nodes \ Ids(q), w, r, a)
<1>1. /\ keep \subseteq Ids(p) /\ keep \subseteq Ids(q) /\ Ids(p) \subseteq Nodes
      /\ Ids(q) \subseteq Nodes
      /\ \A l, m \in keep : l \in Ancestors(q, m) <=> l \in Ancestors(p, m)
      /\ \A l \in keep : \A m \in Ids(q) \ keep : m \notin Ancestors(q, l)
  BY PlanDomain DEF SameAbove
<1>2. \A n \in Ids(q) \ keep : w[n] = NoWrites /\ r[n] = {}
  BY <1>1 DEF Blank
<1>3. \A n \in Nodes : \A f \in Files : w[n][f] \in Untouched .. Created
  BY DEF Writes
<1>4. ASSUME NEW n \in Ids(q), NEW b \in Ancestors(q, n), NEW f \in Files
      PROVE  w[n][f] <= w[b][f]
  <2>1. b \in Ids(q) /\ w[b][f] \in Untouched .. Created
    BY <1>1, <1>3, AncestorsType
  <2>2. CASE n \notin keep
    <3>1. w[n][f] = Untouched
      BY <1>2, <2>2 DEF NoWrites
    <3> QED  BY <2>1, <3>1 DEF Untouched, Created
  <2>3. CASE n \in keep
    <3>1. b \in keep /\ b \in Ancestors(p, n) /\ n \in Ids(p)
      BY <1>1, <2>1, <2>3
    <3> QED  BY <3>1 DEF Sound
  <2> QED  BY <2>2, <2>3
<1>5. ASSUME NEW n \in Ids(q), NEW f \in Files, w[n][f] # Untouched
      PROVE  \E m \in Subtree(q, n) : f \in a[m]
  <2>1. n \in keep /\ n \in Ids(p)
    BY <1>1, <1>2, <1>5 DEF NoWrites
  <2>2. PICK m \in Subtree(p, n) : f \in a[m]
    BY <1>5, <2>1 DEF Sound
  <2>3. m \in Ids(p) /\ (m = n \/ n \in Ancestors(p, m))
    BY <2>1, SubtreeAncestors
  <2>4. m \in keep
    BY <1>1, <2>2, <2>3 DEF Blank
  <2>5. m \in Ids(q) /\ (m = n \/ n \in Ancestors(q, m))
    BY <1>1, <2>1, <2>3, <2>4
  <2>6. m \in Subtree(q, n)
    BY <2>5, SubtreeAncestors
  <2> QED  BY <2>2, <2>6
<1>6. ASSUME NEW m \in Ids(q), NEW n \in Ids(q), r[m] \cap r[n] # {}
      PROVE  m = n \/ m \in Ancestors(q, n) \/ n \in Ancestors(q, m)
  <2>1. m \in keep /\ n \in keep /\ m \in Ids(p) /\ n \in Ids(p)
    BY <1>1, <1>2, <1>6
  <2>2. m = n \/ m \in Ancestors(p, n) \/ n \in Ancestors(p, m)
    BY <1>6, <2>1 DEF Sound
  <2> QED  BY <1>1, <2>1, <2>2
<1>7. Blank(Nodes \ Ids(q), w, r, a)
  BY <1>1 DEF Blank
<1> QED  BY <1>4, <1>5, <1>6, <1>7 DEF Sound

-----------------------------------------------------------------------------
(* What the handlers do to sound evidence.                                 *)

\* A verification credits a node of the plan and every branch above it.
LEMMA MergeSound ==
    ASSUME Inv, LedgerInv, NEW n \in Ids(plan), Merge(n)
    PROVE  /\ LedgerTypeOK'
           /\ Sound(plan, written', read', attempt')
           /\ Blank(Nodes \ Ids(plan), written', read', attempt')
           /\ \A m \in Nodes : read'[m] \subseteq recorded'
           /\ \A m \in Nodes : \A f \in Files : written[m][f] <= written'[m][f]
<1>0. /\ plan \in Seq(PlanNode) /\ WellFormed(plan) /\ Ids(plan) \subseteq Nodes /\ n \in Nodes
      /\ LedgerTypeOK
  BY InvParts DEF LedgerInv
<1>1. Credited(n) \subseteq Ids(plan) /\ \A m \in Credited(n) : m = n \/ m \in Ancestors(plan, n)
  BY AncestorsType DEF Credited
<1> DEFINE fresh == filesRead \ recorded
           W(m)  == MergeTurn(written[m], turnWrites)
<1>2. \A m \in Nodes : /\ written[m] \in Writes /\ written'[m] \in Writes
                       /\ written'[m] = IF m \in Credited(n) THEN W(m) ELSE written[m]
                       /\ \A f \in Files : /\ written[m][f] <= W(m)[f]
                                           /\ turnWrites[f] <= W(m)[f]
                                           /\ W(m)[f] \in {written[m][f], turnWrites[f], Untouched}
  <2>1. \A m \in Nodes : written[m] \in Writes /\ turnWrites \in Writes
    BY <1>0 DEF LedgerTypeOK
  <2>2. \A m \in Nodes : /\ W(m) \in Writes
                         /\ \A f \in Files : /\ written[m][f] <= W(m)[f]
                                             /\ turnWrites[f] <= W(m)[f]
                                             /\ W(m)[f] \in {written[m][f], turnWrites[f], Untouched}
    BY <2>1, MergeTurnOf
  <2>3. \A m \in Nodes : written'[m] = IF m \in Credited(n) THEN W(m) ELSE written[m]
    BY DEF Merge
  <2> HIDE DEF W
  <2> QED  BY <2>1, <2>2, <2>3
<1>3. \A m \in Nodes : read'[m] = IF m \in Credited(n) THEN read[m] \cup fresh ELSE read[m]
  BY DEF Merge
<1>4. /\ recorded' = recorded \cup filesRead /\ turnWrites' = NoWrites /\ filesRead' = filesRead
      /\ attempt' = [attempt EXCEPT ![n] = @ \cup {f \in Files : turnWrites[f] # Untouched}]
  BY DEF Merge
<1> HIDE DEF W, fresh
<1>5. \A m \in Nodes : \A f \in Files :
         /\ written[m][f] \in Untouched .. Created /\ written'[m][f] \in Untouched .. Created
         /\ turnWrites[f] \in Untouched .. Created
         /\ written[m][f] <= written'[m][f]
         /\ m \in Credited(n) => turnWrites[f] <= written'[m][f]
         /\ \/ written'[m][f] = written[m][f]
            \/ m \in Credited(n) /\ written'[m][f] \in {turnWrites[f], Untouched}
  <2>1. turnWrites \in Writes
    BY <1>0 DEF LedgerTypeOK
  <2>2. \A w \in Writes : \A f \in Files : w[f] \in Untouched .. Created
    BY DEF Writes
  <2>3. \A x \in Untouched .. Created : x <= x
    BY DEF Untouched, Created
  <2> QED  BY <1>2, <2>1, <2>2, <2>3
<1>6. LedgerTypeOK'
  <2>1. written' \in [Nodes -> Writes]
    <3>1. written' = [m \in Nodes |-> written'[m]]
      BY DEF Merge
    <3> QED  BY <1>2, <3>1
  <2>2. read' \in [Nodes -> SUBSET Files]
    <3>1. read' = [m \in Nodes |-> read'[m]]
      BY DEF Merge
    <3>2. \A m \in Nodes : read'[m] \in SUBSET Files
      BY <1>0, <1>3 DEF LedgerTypeOK, fresh
    <3> QED  BY <3>1, <3>2
  <2>3. NoWrites \in Writes
    BY DEF NoWrites, Writes, Untouched, Created
  <2> QED  BY <1>0, <1>4, <2>1, <2>2, <2>3 DEF LedgerTypeOK
<1>7. \A m \in Nodes : attempt[m] \subseteq attempt'[m]
  BY <1>0, <1>4 DEF LedgerTypeOK
<1>8. ASSUME NEW l \in Ids(plan), NEW b \in Ancestors(plan, l), NEW f \in Files
      PROVE  written'[l][f] <= written'[b][f]
  <2>1. b \in Ids(plan) /\ written[l][f] <= written[b][f]
    BY <1>8, AncestorsType DEF LedgerInv, Sound
  <2>2. l \in Credited(n) => b \in Credited(n)
    BY <1>0, <1>1, <2>1, AncestorsLine DEF Credited
  <2> QED  BY <1>0, <1>5, <2>1, <2>2 DEF Untouched, Created
<1>9. ASSUME NEW l \in Ids(plan), NEW f \in Files, written'[l][f] # Untouched
      PROVE  \E m \in Subtree(plan, l) : f \in attempt'[m]
  <2>1. CASE written[l][f] # Untouched
    <3>1. PICK m \in Subtree(plan, l) : f \in attempt[m]
      BY <2>1 DEF LedgerInv, Sound
    <3>2. m \in Nodes
      BY <1>0, <3>1, SubtreeAncestors
    <3> QED  BY <1>7, <3>1, <3>2
  <2>2. CASE written[l][f] = Untouched
    <3>1. l \in Credited(n) /\ turnWrites[f] # Untouched
      BY <1>0, <1>5, <1>9, <2>2
    <3>2. n \in Subtree(plan, l)
      BY <1>0, <1>1, <3>1, SubtreeAncestors
    <3>3. f \in attempt'[n]
      BY <1>0, <1>4, <3>1 DEF LedgerTypeOK
    <3> QED  BY <3>2, <3>3
  <2> QED  BY <2>1, <2>2
<1>10. ASSUME NEW l \in Ids(plan), NEW m \in Ids(plan), read'[l] \cap read'[m] # {}
       PROVE  l = m \/ l \in Ancestors(plan, m) \/ m \in Ancestors(plan, l)
  <2>1. PICK f : f \in read'[l] /\ f \in read'[m]
    BY <1>10
  <2>2. CASE f \in read[l] /\ f \in read[m]
    BY <2>2 DEF LedgerInv, Sound
  <2>3. CASE f \notin read[l] \/ f \notin read[m]
    <3>1. f \in fresh
      BY <1>0, <1>3, <2>1, <2>3
    <3>2. f \notin read[l] /\ f \notin read[m]
      BY <1>0, <3>1 DEF LedgerInv, fresh
    <3>3. l \in Credited(n) /\ m \in Credited(n)
      BY <1>0, <1>3, <2>1, <3>2
    <3> QED  BY <1>0, <1>1, <3>3, AncestorsLine
  <2> QED  BY <2>2, <2>3
<1>11. Blank(Nodes \ Ids(plan), written', read', attempt')
  <2>1. ASSUME NEW m \in Nodes \ Ids(plan)
        PROVE  written'[m] = NoWrites /\ read'[m] = {} /\ attempt'[m] = {}
    <3>1. written[m] = NoWrites /\ read[m] = {} /\ attempt[m] = {}
      BY DEF LedgerInv, Blank
    <3>2. m \notin Credited(n) /\ m # n
      BY <1>1
    <3>3. attempt'[m] = attempt[m]
      BY <1>0, <1>4, <3>2 DEF LedgerTypeOK
    <3> QED  BY <1>2, <1>3, <3>1, <3>2, <3>3
  <2> QED  BY <2>1 DEF Blank
<1>12. \A m \in Nodes : read'[m] \subseteq recorded'
  BY <1>3, <1>4 DEF LedgerInv, fresh
<1> QED  BY <1>5, <1>6, <1>8, <1>9, <1>10, <1>11, <1>12 DEF Sound

\* A subtree is discarded, and what its ancestors know is collected anew.
LEMMA RebuiltSound ==
    ASSUME Inv, LedgerInv, NEW n \in Ids(plan), ReplanEvidence(n)
    PROVE  /\ LedgerTypeOK'
           /\ Sound(plan, written', read', attempt')
           /\ Blank(Nodes \ Spared(plan, n), written', read', attempt')
           /\ \A m \in Nodes : read'[m] \subseteq recorded'
<1>0. /\ plan \in Seq(PlanNode) /\ WellFormed(plan) /\ Ids(plan) \subseteq Nodes /\ n \in Nodes
      /\ LedgerTypeOK
  BY InvParts DEF LedgerInv
<1>1. /\ \A m \in Ids(plan) : m \in Discarded(n) <=> m = n \/ n \in Ancestors(plan, m)
      /\ Discarded(n) \subseteq Ids(plan) /\ Ancestors(plan, n) \subseteq Ids(plan)
      /\ \A m \in Ancestors(plan, n) : m \notin Discarded(n)
  <2>1. /\ \A m \in Ids(plan) : m \in Discarded(n) <=> m = n \/ n \in Ancestors(plan, m)
        /\ Discarded(n) \subseteq Ids(plan) /\ n \notin Ancestors(plan, n)
    BY <1>0, SubtreeAncestors DEF Discarded
  <2>2. Ancestors(plan, n) \subseteq Ids(plan)
    BY AncestorsType
  <2> QED  BY <1>0, <2>1, <2>2, AncestorsLine
<1> DEFINE W(m) == {written[k] : k \in Collected(n, m)}
<1>2. \A m \in Ids(plan) : \A k \in Ids(plan) :
         k \in Collected(n, m) <=> /\ m \in Ancestors(plan, k)
                                 /\ k \notin Ancestors(plan, n) /\ k \notin Discarded(n)
  <2>1. \A m \in Ids(plan) : \A k \in Ids(plan) :
           k \in Subtree(plan, m) \ {m} <=> m \in Ancestors(plan, k)
    BY <1>0, SubtreeAncestors
  <2> QED  BY <2>1 DEF Collected
<1>3. \A m \in Ids(plan) : Collected(n, m) \subseteq Ids(plan)
  BY <1>0, SubtreeAncestors DEF Collected
<1>4. \A m \in Ids(plan) :
         /\ Merged(W(m)) \in Writes
         /\ \A k \in Collected(n, m) : \A f \in Files : written[k][f] <= Merged(W(m))[f]
         /\ \A f \in Files : Merged(W(m))[f] # Untouched =>
               \E k \in Collected(n, m) : written[k][f] = Merged(W(m))[f]
  <2>1. SUFFICES ASSUME NEW m \in Ids(plan)
                 PROVE  /\ Merged(W(m)) \in Writes
                        /\ \A k \in Collected(n, m) : \A f \in Files :
                              written[k][f] <= Merged(W(m))[f]
                        /\ \A f \in Files : Merged(W(m))[f] # Untouched =>
                              \E k \in Collected(n, m) : written[k][f] = Merged(W(m))[f]
    OBVIOUS
  <2>2. W(m) \in SUBSET Writes
    BY <1>0, <1>3 DEF LedgerTypeOK
  <2>3. \A k \in Collected(n, m) : written[k] \in W(m)
    OBVIOUS
  <2>4. \A w \in W(m) : \E k \in Collected(n, m) : w = written[k]
    OBVIOUS
  <2> HIDE DEF W
  <2> QED  BY <2>2, <2>3, <2>4, MergedOf
<1>5. /\ \A m \in Nodes : written'[m] = IF m \in Discarded(n) THEN NoWrites
                                       ELSE IF m \in Ancestors(plan, n) THEN Merged(W(m))
                                       ELSE written[m]
      /\ \A m \in Nodes : read'[m] = IF m \in Discarded(n) \cup Ancestors(plan, n) THEN {}
                                    ELSE read[m]
      /\ \A m \in Nodes : attempt'[m] = IF m \in Discarded(n) THEN {} ELSE attempt[m]
      /\ recorded' = recorded /\ filesRead' = filesRead /\ turnWrites' = turnWrites
      /\ written' = [m \in Nodes |-> written'[m]] /\ read' = [m \in Nodes |-> read'[m]]
      /\ attempt' = [m \in Nodes |-> attempt'[m]]
  BY DEF ReplanEvidence, Rebuilt, Discarded
<1> HIDE DEF W
<1>6. NoWrites \in Writes /\ \A f \in Files : NoWrites[f] = Untouched
  BY DEF NoWrites, Writes, Untouched, Created
<1>7. LedgerTypeOK'
  <2>1. \A m \in Nodes : written'[m] \in Writes
    BY <1>0, <1>1, <1>4, <1>5, <1>6 DEF LedgerTypeOK
  <2>2. \A m \in Nodes : read'[m] \in SUBSET Files /\ attempt'[m] \in SUBSET Files
    BY <1>0, <1>5 DEF LedgerTypeOK
  <2>3. /\ written' \in [Nodes -> Writes] /\ read' \in [Nodes -> SUBSET Files]
        /\ attempt' \in [Nodes -> SUBSET Files]
    BY <1>5, <2>1, <2>2, Zenon
  <2> QED  BY <1>0, <1>5, <2>3 DEF LedgerTypeOK
<1>8. \A m \in Nodes : \A f \in Files : /\ written[m][f] \in Untouched .. Created
                                       /\ written'[m][f] \in Untouched .. Created
  BY <1>0, <1>7 DEF LedgerTypeOK, Writes
<1>9. ASSUME NEW m \in Ids(plan), NEW b \in Ancestors(plan, m), NEW f \in Files
      PROVE  written'[m][f] <= written'[b][f]
  <2>1. b \in Ids(plan) /\ written[m][f] <= written[b][f]
    BY <1>9, AncestorsType DEF LedgerInv, Sound
  <2>2. CASE m \in Discarded(n)
    BY <1>0, <1>5, <1>6, <1>8, <2>1, <2>2 DEF Untouched, Created
  <2>3. CASE m \in Ancestors(plan, n)
    <3>1. b \in Ancestors(plan, n) /\ m \notin Discarded(n) /\ b \notin Discarded(n)
      BY <1>0, <1>1, <2>1, <2>3, AncestorsLine
    <3>2. written'[m][f] = Merged(W(m))[f] /\ written'[b][f] = Merged(W(b))[f]
      BY <1>0, <1>5, <2>1, <2>3, <3>1
    <3>3. CASE written'[m][f] = Untouched
      BY <1>0, <1>8, <2>1, <3>3 DEF Untouched, Created
    <3>4. CASE written'[m][f] # Untouched
      <4>1. PICK k \in Collected(n, m) : written[k][f] = written'[m][f]
        BY <1>4, <3>2, <3>4
      <4>2. k \in Ids(plan) /\ k \in Collected(n, b)
        BY <1>0, <1>2, <1>3, <2>1, <4>1, AncestorsLine
      <4> QED  BY <1>4, <2>1, <3>2, <4>1, <4>2
    <3> QED  BY <3>3, <3>4
  <2>4. CASE m \notin Discarded(n) /\ m \notin Ancestors(plan, n)
    <3>1. written'[m] = written[m] /\ b \notin Discarded(n)
      BY <1>0, <1>1, <1>5, <2>1, <2>4, AncestorsLine
    <3>2. CASE b \in Ancestors(plan, n)
      <4>1. m \in Collected(n, b)
        BY <1>2, <2>1, <2>4
      <4>2. written'[b] = Merged(W(b))
        BY <1>0, <1>5, <2>1, <3>1, <3>2
      <4> QED  BY <1>4, <2>1, <3>1, <4>1, <4>2
    <3>3. CASE b \notin Ancestors(plan, n)
      BY <1>0, <1>5, <2>1, <3>1, <3>3
    <3> QED  BY <3>2, <3>3
  <2> QED  BY <2>2, <2>3, <2>4
<1>10. ASSUME NEW k \in Ids(plan), NEW f \in Files, written[k][f] # Untouched,
              k \notin Discarded(n), k \notin Ancestors(plan, n)
       PROVE  \E j \in Subtree(plan, k) : f \in attempt'[j]
  <2>1. PICK j \in Subtree(plan, k) : f \in attempt[j]
    BY <1>10 DEF LedgerInv, Sound
  <2>2. j \in Ids(plan) /\ (j = k \/ k \in Ancestors(plan, j))
    BY <1>0, <2>1, SubtreeAncestors
  <2>3. j \notin Discarded(n)
    <3> SUFFICES ASSUME j \in Discarded(n) PROVE FALSE
      OBVIOUS
    <3>1. j = n \/ n \in Ancestors(plan, j)
      BY <1>1, <2>2
    <3> QED  BY <1>0, <1>1, <1>10, <2>2, <3>1, AncestorsLine
  <2> QED  BY <1>0, <1>5, <2>1, <2>2, <2>3
<1>11. ASSUME NEW m \in Ids(plan), NEW f \in Files, written'[m][f] # Untouched
       PROVE  \E j \in Subtree(plan, m) : f \in attempt'[j]
  <2>1. m \notin Discarded(n)
    BY <1>0, <1>5, <1>6, <1>11
  <2>2. CASE m \in Ancestors(plan, n)
    <3>1. written'[m] = Merged(W(m))
      BY <1>0, <1>5, <2>1, <2>2
    <3>2. PICK k \in Collected(n, m) : written[k][f] # Untouched
      BY <1>4, <1>11, <3>1
    <3>3. /\ k \in Ids(plan) /\ m \in Ancestors(plan, k)
          /\ k \notin Discarded(n) /\ k \notin Ancestors(plan, n)
      BY <1>2, <1>3, <3>2
    <3>4. PICK j \in Subtree(plan, k) : f \in attempt'[j]
      BY <1>10, <3>2, <3>3
    <3>5. j \in Ids(plan) /\ m \in Ancestors(plan, j)
      BY <1>0, <3>3, <3>4, SubtreeAncestors, AncestorsLine
    <3>6. j \in Subtree(plan, m)
      BY <1>0, <3>5, SubtreeAncestors
    <3> QED  BY <3>4, <3>6
  <2>3. CASE m \notin Ancestors(plan, n)
    <3>1. written'[m] = written[m]
      BY <1>0, <1>5, <2>1, <2>3
    <3> QED  BY <1>10, <1>11, <2>1, <2>3, <3>1
  <2> QED  BY <2>2, <2>3
<1>12. \A m \in Nodes : read'[m] \subseteq read[m]
  BY <1>5
<1>13. ASSUME NEW l \in Ids(plan), NEW m \in Ids(plan), read'[l] \cap read'[m] # {}
       PROVE  l = m \/ l \in Ancestors(plan, m) \/ m \in Ancestors(plan, l)
  <2>1. read[l] \cap read[m] # {}
    BY <1>0, <1>12, <1>13
  <2> QED  BY <2>1 DEF LedgerInv, Sound
<1>14. Blank(Nodes \ Spared(plan, n), written', read', attempt')
  <2>1. ASSUME NEW m \in Nodes \ Spared(plan, n)
        PROVE  written'[m] = NoWrites /\ read'[m] = {} /\ attempt'[m] = {}
    <3>1. CASE m \in Ids(plan)
      <4>1. m \in Discarded(n)
        BY <3>1 DEF Spared, Discarded
      <4> QED  BY <1>5, <4>1
    <3>2. CASE m \notin Ids(plan)
      <4>1. written[m] = NoWrites /\ read[m] = {} /\ attempt[m] = {}
        BY <3>2 DEF LedgerInv, Blank
      <4>2. m \notin Discarded(n) /\ m \notin Ancestors(plan, n)
        BY <1>1, <3>2
      <4> QED  BY <1>5, <4>1, <4>2
    <3> QED  BY <3>1, <3>2
  <2> QED  BY <2>1 DEF Blank
<1>15. \A m \in Nodes : read'[m] \subseteq recorded'
  BY <1>5, <1>12 DEF LedgerInv
<1> QED  BY <1>7, <1>9, <1>11, <1>13, <1>14, <1>15 DEF Sound

\* Of a revised plan: what it shares with the plan before it is the completed steps
\* with all that is below, and the unfinished steps whose ids were claimed, leaves now.
LEMMA RevisedSame ==
    ASSUME Inv, ReplanAll
    PROVE  /\ plan' \in Seq(PlanNode) /\ WellFormed(plan')
           /\ KeptIds(plan) \subseteq Ids(plan) \cap Ids(plan')
           /\ SameAbove(plan, plan', Ids(plan) \cap Ids(plan'))
           /\ \A t \in Ids(plan') \ KeptIds(plan) :
                 IsLeaf(plan', t) /\ (t \in Ids(plan) => Ancestors(plan, t) = {})
<1>1. plan \in Seq(PlanNode) /\ WellFormed(plan)
  BY InvParts
<1>2. PICK f \in Forests, order \in Ascending(KeptPositions(plan)) :
         Flat(f) /\ \E ids \in Names(Len(f), FreeIds(Ids(plan)),
                                     {t \in Tops(plan) : Status(plan, t) # "completed"}) :
                       plan' = Revised(plan, order, Grown(f, ids, 0))
  BY DEF ReplanAll
<1>3. PICK ids \in Names(Len(f), FreeIds(Ids(plan)),
                        {t \in Tops(plan) : Status(plan, t) # "completed"}) :
         plan' = Revised(plan, order, Grown(f, ids, 0))
  BY <1>2
<1> DEFINE K == KeptIds(plan)
<1>4. /\ plan' \in Seq(PlanNode) /\ WellFormed(plan') /\ Grafted(plan, plan', K, {})
      /\ \A m \in Ids(plan') \ K :
            m \in Tops(plan') /\ (m \in Ids(plan) => m \in Tops(plan) /\ Status(plan, m) # "completed")
  BY <1>1, <1>2, <1>3, WholeGraft
<1>5. K \subseteq Ids(plan) \cap Ids(plan')
  BY <1>4 DEF Grafted
<1>6. \A t \in Ids(plan') \ K : Ancestors(plan', t) = {}
  BY <1>4, TopsAlone
<1>7. \A t \in (Ids(plan) \cap Ids(plan')) \ K :
         Ancestors(plan, t) = {} /\ \A n \in K : t \notin Ancestors(plan, n)
  BY <1>1, <1>4, TopsAlone, UnfinishedApart
<1>8. \A t \in Ids(plan') \ K : \A m \in Ids(plan') : t \notin Ancestors(plan', m)
  BY <1>4, <1>6 DEF Grafted
<1>9. \A t \in Ids(plan') \ K : IsLeaf(plan', t)
  BY <1>4, <1>8, ChildAncestors
<1>10. SameAbove(plan, plan', Ids(plan) \cap Ids(plan'))
  <2>1. ASSUME NEW l \in Ids(plan) \cap Ids(plan'), NEW m \in Ids(plan) \cap Ids(plan')
        PROVE  l \in Ancestors(plan', m) <=> l \in Ancestors(plan, m)
    <3>1. CASE m \notin K
      BY <1>6, <1>7, <3>1
    <3>2. CASE m \in K /\ l \notin K
      BY <1>7, <1>8, <3>2
    <3>3. CASE m \in K /\ l \in K
      BY <1>4, <3>3 DEF Grafted
    <3> QED  BY <3>1, <3>2, <3>3
  <2>2. \A l \in Ids(plan) \cap Ids(plan') : \A m \in Ids(plan') \ (Ids(plan) \cap Ids(plan')) :
           m \notin Ancestors(plan', l)
    BY <1>5, <1>8
  <2> QED  BY <2>1, <2>2 DEF SameAbove
<1> QED  BY <1>4, <1>5, <1>7, <1>9, <1>10

\* The whole plan is revised: dropped nodes lose their evidence, claimed ones keep it.
LEMMA UpdateSound ==
    ASSUME Inv, LedgerInv, ReplanAll, UpdateEvidence
    PROVE  /\ LedgerTypeOK'
           /\ Sound(plan', written', read', attempt')
           /\ Blank(Nodes \ Ids(plan'), written', read', attempt')
           /\ \A m \in Nodes : read'[m] \subseteq recorded'
<1>0. plan \in Seq(PlanNode) /\ WellFormed(plan) /\ Ids(plan) \subseteq Nodes /\ LedgerTypeOK
  BY InvParts DEF LedgerInv
<1> DEFINE K    == KeptIds(plan)
           keep == Ids(plan) \cap Ids(plan')
<1>1. /\ plan' \in Seq(PlanNode) /\ WellFormed(plan')
      /\ K \subseteq keep /\ SameAbove(plan, plan', keep)
      /\ \A t \in keep \ K : IsLeaf(plan', t) /\ Ancestors(plan, t) = {}
  BY RevisedSame
<1>2. \A n \in K : Ancestors(plan, n) \subseteq K /\ Subtree(plan, n) \subseteq K
  BY <1>0, KeptAbove, KeptBelow
<1>3. /\ \A m \in Nodes : written'[m] = IF m \in Ids(plan') THEN written[m] ELSE NoWrites
      /\ \A m \in Nodes : read'[m] = IF m \in Ids(plan') THEN read[m] ELSE {}
      /\ \A m \in Nodes : attempt'[m] = IF m \notin Ids(plan') THEN {}
                                        ELSE IF IsLeaf(plan', m) /\ m \in Ids(plan)
                                             THEN UNION {attempt[k] : k \in Subtree(plan, m)}
                                             ELSE attempt[m]
      /\ written' = [m \in Nodes |-> written'[m]] /\ read' = [m \in Nodes |-> read'[m]]
      /\ attempt' = [m \in Nodes |-> attempt'[m]]
      /\ recorded' = recorded /\ filesRead' = filesRead /\ turnWrites' = turnWrites
  BY DEF UpdateEvidence
<1>4. NoWrites \in Writes /\ \A f \in Files : NoWrites[f] = Untouched
  BY DEF NoWrites, Writes, Untouched, Created
<1>5. \A m \in Ids(plan) : m \in Subtree(plan, m) /\ Subtree(plan, m) \subseteq Nodes
  BY <1>0, InOwnSubtree, SubtreeAncestors
<1>6. /\ \A m \in keep : attempt[m] \subseteq attempt'[m]
      /\ \A m \in keep : IsLeaf(plan', m) =>
            attempt'[m] = UNION {attempt[k] : k \in Subtree(plan, m)}
  BY <1>0, <1>3, <1>5
<1> HIDE DEF K, keep
<1>7. keep \subseteq Nodes /\ \A m \in Ids(plan) : m \in keep <=> m \in Ids(plan')
  BY <1>0 DEF keep
<1>8. /\ written' \in [Nodes -> Writes] /\ read' \in [Nodes -> SUBSET Files]
      /\ attempt' \in [Nodes -> SUBSET Files]
  <2>1. \A m \in Nodes : written'[m] \in Writes /\ read'[m] \in SUBSET Files
    BY <1>0, <1>3, <1>4 DEF LedgerTypeOK
  <2>2. \A m \in Nodes : attempt'[m] \in SUBSET Files
    BY <1>0, <1>3, <1>5 DEF LedgerTypeOK
  <2> QED  BY <1>3, <2>1, <2>2, Zenon
<1>9. LedgerTypeOK'
  BY <1>0, <1>3, <1>8 DEF LedgerTypeOK
<1>10. \A m \in Nodes : \A f \in Files : /\ written[m][f] \in Untouched .. Created
                                        /\ written'[m][f] \in Untouched .. Created
  BY <1>0, <1>8 DEF LedgerTypeOK, Writes
<1>11. ASSUME NEW n \in Ids(plan), NEW b \in Ancestors(plan, n), NEW f \in Files
       PROVE  written'[n][f] <= written'[b][f]
  <2>1. b \in Ids(plan) /\ written[n][f] <= written[b][f]
    BY <1>11, AncestorsType DEF LedgerInv, Sound
  <2>2. CASE n \notin keep
    BY <1>0, <1>3, <1>4, <1>7, <1>10, <2>1, <2>2 DEF Untouched, Created
  <2>3. CASE n \in keep
    <3>1. n \in K /\ b \in K
      BY <1>1, <1>2, <1>11, <2>3
    <3> QED  BY <1>0, <1>1, <1>3, <1>7, <2>1, <3>1
  <2> QED  BY <2>2, <2>3
<1>12. ASSUME NEW n \in Ids(plan), NEW f \in Files, written'[n][f] # Untouched
       PROVE  \E m \in Subtree(plan, n) : f \in attempt'[m]
  <2>1. n \in keep /\ written[n][f] # Untouched
    BY <1>0, <1>3, <1>4, <1>7, <1>12
  <2>2. PICK m \in Subtree(plan, n) : f \in attempt[m]
    BY <2>1 DEF LedgerInv, Sound
  <2>3. CASE n \in K
    <3>1. m \in keep
      BY <1>1, <1>2, <2>2, <2>3
    <3> QED  BY <1>6, <2>2, <3>1
  <2>4. CASE n \notin K
    <3>1. f \in attempt'[n]
      BY <1>1, <1>6, <2>1, <2>2, <2>4
    <3> QED  BY <1>5, <3>1
  <2> QED  BY <2>3, <2>4
<1>13. \A m \in Nodes : read'[m] \subseteq read[m]
  BY <1>3
<1>14. ASSUME NEW l \in Ids(plan), NEW m \in Ids(plan), read'[l] \cap read'[m] # {}
       PROVE  l = m \/ l \in Ancestors(plan, m) \/ m \in Ancestors(plan, l)
  <2>1. read[l] \cap read[m] # {}
    BY <1>0, <1>13, <1>14
  <2> QED  BY <2>1 DEF LedgerInv, Sound
<1>15. Sound(plan, written', read', attempt')
  BY <1>11, <1>12, <1>14 DEF Sound
<1>16. Blank(Nodes \ keep, written', read', attempt')
  <2>1. ASSUME NEW m \in Nodes \ keep
        PROVE  written'[m] = NoWrites /\ read'[m] = {} /\ attempt'[m] = {}
    <3>1. CASE m \notin Ids(plan')
      BY <1>3, <3>1
    <3>2. CASE m \in Ids(plan')
      <4>1. m \notin Ids(plan)
        BY <3>2 DEF keep
      <4>2. written[m] = NoWrites /\ read[m] = {} /\ attempt[m] = {}
        BY <4>1 DEF LedgerInv, Blank
      <4> QED  BY <1>3, <3>2, <4>1, <4>2
    <3> QED  BY <3>1, <3>2
  <2> QED  BY <2>1 DEF Blank
<1>17. Sound(plan', written', read', attempt') /\ Blank(Nodes \ Ids(plan'), written', read', attempt')
  BY <1>0, <1>1, <1>8, <1>15, <1>16, SoundMoves
<1>18. \A m \in Nodes : read'[m] \subseteq recorded'
  BY <1>3, <1>13 DEF LedgerInv
<1> QED  BY <1>9, <1>17, <1>18

\* A status is set in a plan.
LEMMA StatusSame ==
    ASSUME NEW p \in Seq(PlanNode), WellFormed(p), NEW n \in Ids(p), NEW s \in Statuses,
           NEW q, q = SetStatus(p, n, s)
    PROVE  SameAbove(p, q, Ids(p))
BY SetStatusTree, SameWhole

\* A checkpoint is decomposed.
LEMMA ExpandedSame ==
    ASSUME Inv, ExpandCheckpoint
    PROVE  SameAbove(plan, plan', Ids(plan))
<1>1. plan \in Seq(PlanNode) /\ WellFormed(plan)
  BY InvParts
<1>2. PICK c : c = CurrentLeaf(plan)
  OBVIOUS
<1>3. c \in Ids(plan) /\ IsLeaf(plan, c)
  BY <1>1, <1>2, CurrentLeafPending DEF ExpandCheckpoint
<1>4. PICK f \in Forests :
         \E ids \in Names(Len(f), FreeIds(Ids(plan) \cup Counted), {}) :
            plan' = Hung(DemoteChildless(plan, c, f), c, DemotePassThrough(f), ids)
  BY <1>2 DEF ExpandCheckpoint
<1>5. PICK g : g = DemotePassThrough(f)
  OBVIOUS
<1>6. g \in Seq(Shoot) /\ Shaped(g) /\ Len(g) = Len(f)
  BY <1>5, ForestType
<1>7. PICK p : p = DemoteChildless(plan, c, f)
  OBVIOUS
<1>8. PICK ids \in Names(Len(g), FreeIds(Ids(plan) \cup Counted), {}) : plan' = Hung(p, c, g, ids)
  BY <1>4, <1>5, <1>6, <1>7
<1>9. /\ p \in Seq(PlanNode) /\ WellFormed(p) /\ Ids(p) = Ids(plan) /\ Len(p) = Len(plan)
      /\ \A i \in 1 .. Len(plan) : p[i].id = plan[i].id /\ p[i].depth = plan[i].depth
      /\ \A m \in Ids(plan) : Ancestors(p, m) = Ancestors(plan, m)
  BY <1>1, <1>3, <1>7, DemotedTree
<1>10. Spared(p, c) = Ids(plan)
  BY <1>1, <1>3, <1>9, LeafSpared
<1>11. Grafted(p, plan', Ids(plan), {c} \cup Ancestors(p, c))
  BY <1>3, <1>6, <1>8, <1>9, <1>10, HungGraft
<1> QED  BY <1>9, <1>11 DEF Grafted, SameAbove

\* A checkpoint passed.
LEMMA PassedSame ==
    ASSUME Inv, NEW c \in Nodes, CheckpointPasses(c)
    PROVE  SameAbove(plan, plan', Ids(plan))
<1>1. plan \in Seq(PlanNode) /\ WellFormed(plan) /\ c \in Ids(plan)
  BY InvParts DEF CheckpointPasses, FirstReady, ReadyBranches, Branches
<1>2. PICK f \in Forests :
         \E ids \in Names(Len(f), FreeIds(Ids(plan) \cup Counted), {}) :
            plan' = SetStatus(InsertAfter(plan, c, Grown(f, ids, Node(plan, c).depth - 1)),
                              c, "completed")
  BY DEF CheckpointPasses
<1>3. PICK ids \in Names(Len(f), FreeIds(Ids(plan) \cup Counted), {}) :
         plan' = SetStatus(InsertAfter(plan, c, Grown(f, ids, Node(plan, c).depth - 1)),
                           c, "completed")
  BY <1>2
<1>4. PICK q : q = InsertAfter(plan, c, Grown(f, ids, Node(plan, c).depth - 1))
  OBVIOUS
<1>5. /\ q \in Seq(PlanNode) /\ WellFormed(q) /\ c \in Ids(q)
      /\ Grafted(plan, q, Ids(plan), Ancestors(plan, c))
  BY <1>1, <1>4, ContinuationGraft
<1>6. PICK s \in Statuses : s = "completed"
  BY DEF Statuses
<1>7. plan' = SetStatus(q, c, s)
  BY <1>3, <1>4, <1>6
<1>8. Ids(plan') = Ids(q) /\ \A m \in Ids(q) : Ancestors(plan', m) = Ancestors(q, m)
  BY <1>5, <1>7, SetStatusTree
<1> QED  BY <1>5, <1>8, GraftSame, SameTwice

\* A subtree is replanned.
LEMMA ReplannedSame ==
    ASSUME Inv, NEW n \in Nodes, ReplanSubtree(n)
    PROVE  n \in Ids(plan) /\ SameAbove(plan, plan', Spared(plan, n))
<1>1. plan \in Seq(PlanNode) /\ WellFormed(plan) /\ n \in Ids(plan)
  BY InvParts DEF ReplanSubtree
<1>2. PICK f \in Forests :
         \E ids \in Names(Len(f), FreeIds(Spared(plan, n)), {}) :
            plan' = SetStatus(Hung(plan, n, IF IsCheckpoint(plan, n) THEN Bounded(n, f) ELSE f,
                                   ids), n, "pending")
  BY DEF ReplanSubtree
<1>3. PICK g : g = IF IsCheckpoint(plan, n) THEN Bounded(n, f) ELSE f
  OBVIOUS
<1>4. g \in Seq(Shoot) /\ Shaped(g) /\ Len(g) = Len(f)
  BY <1>3, ForestType
<1>5. PICK ids \in Names(Len(g), FreeIds(Spared(plan, n)), {}) :
         plan' = SetStatus(Hung(plan, n, g, ids), n, "pending")
  BY <1>2, <1>3, <1>4
<1>6. PICK q : q = Hung(plan, n, g, ids)
  OBVIOUS
<1>7. /\ q \in Seq(PlanNode) /\ WellFormed(q) /\ n \in Ids(q)
      /\ Grafted(plan, q, Spared(plan, n), {n} \cup Ancestors(plan, n))
  BY <1>1, <1>4, <1>6, HungGraft
<1>8. PICK s \in Statuses : s = "pending"
  BY DEF Statuses
<1>9. plan' = SetStatus(q, n, s)
  BY <1>5, <1>6, <1>8
<1>10. Ids(plan') = Ids(q) /\ \A m \in Ids(q) : Ancestors(plan', m) = Ancestors(q, m)
  BY <1>7, <1>9, SetStatusTree
<1> QED  BY <1>1, <1>7, <1>10, GraftSame, SameTwice

\* Every other step of the loop but the review drops no node and moves none.
LEMMA OthersSame ==
    ASSUME Inv,
           \/ Elsewhere /\ ~Review
           \/ ToolsSucceed(TRUE) \/ ToolsSucceed(FALSE)
           \/ ToolsFail \/ MutationGuard \/ PlainReasoning
           \/ VerifyNothing \/ StepDone \/ StepNotDone
           \/ \E n \in Nodes : AskedDone(n) \/ AskedNotDone(n)
    PROVE  SameAbove(plan, plan', Ids(plan))
<1>0. /\ plan \in Seq(PlanNode) /\ WellFormed(plan)
      /\ turn.leaf \in Ids(plan) \cup {NoNode} /\ turn.left \subseteq Ids(plan)
  BY InvParts
<1>1. CASE UNCHANGED plan
  BY <1>1, SameWhole
<1>2. ASSUME NEW n \in Ids(plan), NEW s \in Statuses, plan' = SetStatus(plan, n, s)
      PROVE  SameAbove(plan, plan', Ids(plan))
  BY <1>0, <1>2, StatusSame
<1>3. PICK completed \in Statuses, gone \in Statuses : completed = "completed" /\ gone = "failed"
  BY DEF Statuses
<1>4. CASE ExpandCheckpoint
  BY <1>4, ExpandedSame
<1>5. ASSUME NEW b \in Nodes, RollupRejects(b) \/ RollupPasses(b) \/ CheckpointPasses(b)
      PROVE  SameAbove(plan, plan', Ids(plan))
  <2>1. b \in Ids(plan)
    BY <1>5 DEF RollupRejects, RollupPasses, CheckpointPasses, FirstReady, ReadyBranches, Branches
  <2>2. CASE RollupRejects(b)
    BY <1>1, <2>2 DEF RollupRejects
  <2>3. CASE RollupPasses(b)
    BY <1>2, <1>3, <2>1, <2>3 DEF RollupPasses, Complete
  <2>4. CASE CheckpointPasses(b)
    BY <2>4, PassedSame
  <2> QED  BY <1>5, <2>2, <2>3, <2>4
<1>6. CASE Escalate
  <2>1. CASE Blamed \in Ids(plan)
    <3>1. plan' = SetStatus(plan, Blamed, gone)
      BY <1>3, <1>6, <2>1 DEF Escalate
    <3> QED  BY <1>2, <2>1, <3>1
  <2>2. CASE Blamed \notin Ids(plan)
    BY <1>1, <1>6, <2>2 DEF Escalate
  <2> QED  BY <2>1, <2>2
<1>7. CASE StepDone
  BY <1>0, <1>2, <1>3, <1>7 DEF StepDone, Complete
<1>8. ASSUME NEW n \in Nodes, AskedDone(n) \/ AskedNotDone(n)
      PROVE  SameAbove(plan, plan', Ids(plan))
  <2>1. CASE AskedDone(n)
    BY <1>0, <1>2, <1>3, <2>1 DEF AskedDone, AtHand, Complete
  <2>2. CASE AskedNotDone(n)
    BY <1>1, <2>2 DEF AskedNotDone
  <2> QED  BY <1>8, <2>1, <2>2
<1>9. CASE \/ StartTurn \/ OutOfSteps \/ BackendFails \/ ParseError \/ AutoFinish
           \/ FinishComplete \/ FinishRequest
  BY <1>1, <1>9 DEF StartTurn, OutOfSteps, BackendFails, ParseError, AutoFinish, FinishComplete,
                    FinishRequest, unreplied
<1>10. CASE \/ TurnDone \/ FinishPhrase \/ DeferredFinish \/ AskedSettled \/ FinishAccepted
            \/ PlannerRaises \/ EscalateRun \/ Done
  BY <1>1, <1>10 DEF TurnDone, FinishPhrase, DeferredFinish, AskedSettled, FinishAccepted,
                     PlannerRaises, EscalateRun, Done, vars
<1>11. CASE \/ ToolsSucceed(TRUE) \/ ToolsSucceed(FALSE) \/ ToolsFail \/ MutationGuard
            \/ PlainReasoning \/ VerifyNothing \/ StepNotDone
  BY <1>1, <1>11 DEF ToolsSucceed, ToolsFail, MutationGuard, PlainReasoning, VerifyNothing,
                     StepNotDone, unreplied
<1> QED  BY <1>4, <1>5, <1>6, <1>7, <1>8, <1>9, <1>10, <1>11 DEF Elsewhere

\* The evidence that is sound for the plan before such a step is sound after it.
LEMMA OthersSound ==
    ASSUME Inv, Inv', SameAbove(plan, plan', Ids(plan)), LedgerTypeOK',
           Sound(plan, written', read', attempt'),
           Blank(Nodes \ Ids(plan), written', read', attempt'),
           \A m \in Nodes : read'[m] \subseteq recorded',
           phase' = "review" => Blank(Nodes, written', read', attempt')
    PROVE  LedgerInv'
<1>1. /\ plan \in Seq(PlanNode) /\ WellFormed(plan)
      /\ plan' \in Seq(PlanNode) /\ WellFormed(plan')
  BY DEF Inv, TypeOK, PlanShape
<1>2. /\ written' \in [Nodes -> Writes] /\ read' \in [Nodes -> SUBSET Files]
      /\ attempt' \in [Nodes -> SUBSET Files]
  BY DEF LedgerTypeOK
<1>3. Sound(plan', written', read', attempt') /\ Blank(Nodes \ Ids(plan'), written', read', attempt')
  BY <1>1, <1>2, SoundMoves
<1> QED  BY <1>3 DEF LedgerInv, Sound, Blank

LEMMA LedgerInvInit == Inv /\ EvidenceInit => LedgerInv
<1> SUFFICES ASSUME Inv, EvidenceInit PROVE LedgerInv
  OBVIOUS
<1>1. plan \in Seq(PlanNode) /\ WellFormed(plan) /\ Ids(plan) \subseteq Nodes
  BY InvParts
<1>2. NoWrites \in Writes /\ \A f \in Files : NoWrites[f] = Untouched
  BY DEF NoWrites, Writes, Untouched, Created
<1>3. \A n \in Nodes : written[n] = NoWrites /\ read[n] = {} /\ attempt[n] = {}
  BY DEF EvidenceInit
<1>4. LedgerTypeOK
  BY <1>2 DEF EvidenceInit, LedgerTypeOK
<1>5. \A S \in SUBSET Nodes : Blank(S, written, read, attempt)
  BY <1>3 DEF Blank
<1>6. Sound(plan, written, read, attempt)
  <2>1. \A n \in Ids(plan) : \A b \in Ancestors(plan, n) : n \in Nodes /\ b \in Nodes
    BY <1>1, AncestorsType
  <2>2. Untouched <= Untouched
    BY DEF Untouched
  <2> QED  BY <1>1, <1>2, <1>3, <2>1, <2>2 DEF Sound
<1> QED  BY <1>3, <1>4, <1>5, <1>6 DEF LedgerInv

\* A step that leaves the buckets alone, whatever it does to the turn's files.
LEMMA QuietSound ==
    ASSUME Inv, Inv', LedgerInv, UNCHANGED kept,
           filesRead' \subseteq Files, turnWrites' \in Writes,
           SameAbove(plan, plan', Ids(plan)), phase' # "review" \/ phase = "review"
    PROVE  LedgerInv'
<1>1. /\ written' = written /\ read' = read /\ recorded' = recorded /\ attempt' = attempt
  BY DEF kept
<1>2. LedgerTypeOK'
  BY <1>1 DEF LedgerInv, LedgerTypeOK
<1>3. /\ Sound(plan, written', read', attempt')
      /\ Blank(Nodes \ Ids(plan), written', read', attempt')
      /\ \A m \in Nodes : read'[m] \subseteq recorded'
      /\ phase' = "review" => Blank(Nodes, written', read', attempt')
  BY <1>1 DEF LedgerInv
<1> QED  BY <1>2, <1>3, OthersSound

\* Nothing is known of any node while the plan is reviewed.
LEMMA ReviewSound ==
    ASSUME Inv, Inv', LedgerInv, Review, UNCHANGED evidenceVars
    PROVE  LedgerInv'
<1>1. /\ plan \in Seq(PlanNode) /\ WellFormed(plan)
      /\ plan' \in Seq(PlanNode) /\ WellFormed(plan')
  BY DEF Inv, TypeOK, PlanShape
<1>2. /\ written' = written /\ read' = read /\ recorded' = recorded /\ attempt' = attempt
      /\ filesRead' = filesRead /\ turnWrites' = turnWrites
  BY DEF evidenceVars
<1>3. phase = "review"
  BY DEF Review, ReviewApprove, ReviewReject, ReviewEdit, ReviewMarkLeaf, ReviewRedecompose
<1>4. Blank(Nodes, written, read, attempt) /\ Blank(Nodes \ {}, written, read, attempt)
  BY <1>3 DEF LedgerInv, Blank
<1>5. SameAbove(plan, plan', {})
  BY DEF SameAbove
<1>6. /\ written \in [Nodes -> Writes] /\ read \in [Nodes -> SUBSET Files]
      /\ attempt \in [Nodes -> SUBSET Files] /\ Sound(plan, written, read, attempt)
  BY DEF LedgerInv, LedgerTypeOK
<1>7. Sound(plan', written, read, attempt) /\ Blank(Nodes \ Ids(plan'), written, read, attempt)
  BY <1>1, <1>4, <1>5, <1>6, SoundMoves
<1>8. LedgerTypeOK'
  BY <1>2 DEF LedgerInv, LedgerTypeOK
<1> QED  BY <1>2, <1>4, <1>7, <1>8 DEF LedgerInv, Sound, Blank

\* The turn is over and its evidence credited to n.
LEMMA VerifiedSound ==
    ASSUME Inv, Inv', LedgerInv, NEW n \in Ids(plan), Merge(n),
           SameAbove(plan, plan', Ids(plan)), phase' # "review"
    PROVE  LedgerInv'
BY MergeSound, OthersSound

\* A subtree is replanned, and its evidence discarded.
LEMMA ReplannedSound ==
    ASSUME Inv, Inv', LedgerInv, NEW n \in Nodes, ReplanSubtree(n), ReplanEvidence(n)
    PROVE  LedgerInv'
<1>1. n \in Ids(plan) /\ SameAbove(plan, plan', Spared(plan, n)) /\ phase' = "turn"
  BY ReplannedSame DEF ReplanSubtree, EndReplan
<1>2. /\ plan \in Seq(PlanNode) /\ WellFormed(plan)
      /\ plan' \in Seq(PlanNode) /\ WellFormed(plan')
  BY DEF Inv, TypeOK, PlanShape
<1>3. /\ LedgerTypeOK'
      /\ Sound(plan, written', read', attempt')
      /\ Blank(Nodes \ Spared(plan, n), written', read', attempt')
      /\ \A m \in Nodes : read'[m] \subseteq recorded'
  BY <1>1, RebuiltSound
<1>4. /\ written' \in [Nodes -> Writes] /\ read' \in [Nodes -> SUBSET Files]
      /\ attempt' \in [Nodes -> SUBSET Files]
  BY <1>3 DEF LedgerTypeOK
<1>5. Sound(plan', written', read', attempt') /\ Blank(Nodes \ Ids(plan'), written', read', attempt')
  BY <1>1, <1>2, <1>3, <1>4, SoundMoves
<1> QED  BY <1>1, <1>3, <1>5 DEF LedgerInv, Sound, Blank

LEMMA LedgerInvNext ==
    ASSUME Inv, Inv', LedgerInv, [LedgerNext]_ledgerVars
    PROVE  LedgerInv'
<1>1. /\ turn.leaf \in Ids(plan) \cup {NoNode} /\ turn.left \subseteq Ids(plan)
      /\ recorded \subseteq Files /\ filesRead \subseteq Files /\ turnWrites \in Writes
  BY InvParts DEF LedgerInv, LedgerTypeOK
<1>2. CASE UNCHANGED ledgerVars
  BY <1>2 DEF ledgerVars, vars, evidenceVars, LedgerInv, LedgerTypeOK
<1>3. CASE Elsewhere /\ UNCHANGED evidenceVars
  <2>1. CASE Review
    BY <1>3, <2>1, ReviewSound
  <2>2. CASE ~Review
    <3>1. SameAbove(plan, plan', Ids(plan))
      BY <1>3, <2>2, OthersSame
    <3>2. Done => phase' = phase
      BY DEF Done, vars
    <3>3. phase' # "review" \/ phase = "review"
      BY <1>3, <2>2, <3>2, Reviewed DEF Elsewhere, LoopStep
    <3>4. UNCHANGED kept /\ filesRead' \subseteq Files /\ turnWrites' \in Writes
      BY <1>1, <1>3 DEF evidenceVars, kept
    <3> QED  BY <3>1, <3>3, <3>4, QuietSound
  <2> QED  BY <2>1, <2>2
<1>4. CASE (ToolsSucceed(TRUE) \/ ToolsSucceed(FALSE)) /\ ToolsReport
  <2>1. SameAbove(plan, plan', Ids(plan)) /\ phase' # "review"
    BY <1>4, OthersSame, Reviewed DEF LoopStep
  <2>2. UNCHANGED kept /\ filesRead' \subseteq Files /\ turnWrites' \in Writes
    BY <1>1, <1>4 DEF ToolsReport
  <2> QED  BY <2>1, <2>2, QuietSound
<1>5. CASE (ToolsFail \/ MutationGuard \/ PlainReasoning) /\ ToolsLose
  <2>1. SameAbove(plan, plan', Ids(plan)) /\ phase' # "review"
    BY <1>5, OthersSame, Reviewed DEF LoopStep
  <2>2. UNCHANGED kept /\ filesRead' \subseteq Files /\ turnWrites' \in Writes
    BY <1>1, <1>5 DEF ToolsLose, kept
  <2> QED  BY <2>1, <2>2, QuietSound
<1>6. CASE VerifyNothing /\ turnWrites' = NoWrites /\ UNCHANGED <<kept, filesRead>>
  <2>1. SameAbove(plan, plan', Ids(plan)) /\ phase' # "review"
    BY <1>6, OthersSame, Reviewed DEF LoopStep
  <2>2. NoWrites \in Writes
    BY DEF NoWrites, Writes, Untouched, Created
  <2>3. UNCHANGED kept /\ filesRead' \subseteq Files /\ turnWrites' \in Writes
    BY <1>1, <1>6, <2>2
  <2> QED  BY <2>1, <2>3, QuietSound
<1>7. CASE (StepDone \/ StepNotDone) /\ Merge(turn.leaf)
  <2>1. SameAbove(plan, plan', Ids(plan)) /\ phase' # "review"
    BY <1>7, OthersSame, Reviewed DEF LoopStep
  <2>2. turn.leaf \in Ids(plan)
    BY <1>1, <1>7 DEF StepDone, StepNotDone
  <2> QED  BY <1>7, <2>1, <2>2, VerifiedSound
<1>8. ASSUME NEW n \in Nodes, AskedDone(n) \/ AskedNotDone(n), Merge(n)
      PROVE  LedgerInv'
  <2>1. SameAbove(plan, plan', Ids(plan)) /\ phase' # "review"
    BY <1>8, OthersSame, Reviewed DEF LoopStep
  <2>2. n \in Ids(plan)
    BY <1>1, <1>8 DEF AskedDone, AskedNotDone, AtHand
  <2> QED  BY <1>8, <2>1, <2>2, VerifiedSound
<1>9. ASSUME NEW n \in Nodes, ReplanSubtree(n), ReplanEvidence(n)
      PROVE  LedgerInv'
  BY <1>9, ReplannedSound
<1>10. CASE ReplanAll /\ UpdateEvidence
  <2>1. phase' = "turn"
    BY <1>10 DEF ReplanAll, EndReplan
  <2> QED  BY <1>10, <2>1, UpdateSound DEF LedgerInv, Sound, Blank
<1> QED  BY <1>2, <1>3, <1>4, <1>5, <1>6, <1>7, <1>8, <1>9, <1>10 DEF LedgerNext

LEMMA LedgerInvariant == LedgerSpec => [](Inv /\ LedgerInv)
<1>1. LedgerSpec => []Inv
  BY LedgerIsLoop, Invariant, PTL
<1>2. Inv /\ EvidenceInit => LedgerInv
  BY LedgerInvInit
<1>3. Inv /\ Inv' /\ LedgerInv /\ [LedgerNext]_ledgerVars => LedgerInv'
  BY LedgerInvNext
<1> QED  BY <1>1, <1>2, <1>3, PTL DEF LedgerSpec

-----------------------------------------------------------------------------
(* What the verifiers of steps and branches can rely on.                   *)

\* The buckets are well typed: an entry of files_written is never more than
\* "created", and there is one bucket for every node.
THEOREM LedgerTypeCorrect == LedgerSpec => []LedgerTypeOK
<1>1. LedgerInv => LedgerTypeOK
  BY DEF LedgerInv
<1> QED  BY <1>1, LedgerInvariant, PTL

\* A branch knows of every file written below it, through every splice, replan,
\* rebuild and revised plan: its rollup is judged on all of them.
THEOREM WritesAlwaysReach == LedgerSpec => []WritesReachBranches
<1>1. LedgerInv => WritesReachBranches
  BY DEF LedgerInv, Sound, WritesReachBranches
<1> QED  BY <1>1, LedgerInvariant, PTL

\* Nothing a discarded attempt wrote is left in a bucket: what a node knows was
\* written by the present attempt of a node that is still below it, or its own.
THEOREM WritesNeverStale == LedgerSpec => []NoStaleWrites
<1>1. LedgerInv => NoStaleWrites
  BY DEF LedgerInv, Sound, NoStaleWrites
<1> QED  BY <1>1, LedgerInvariant, PTL

\* A file read is credited along one line of the plan: to the step that was
\* verified first after it and to the branches above it.
THEOREM ReadsOnOneLine == LedgerSpec => []ReadsCreditedOnce
<1>1. LedgerInv => ReadsCreditedOnce
  BY DEF LedgerInv, Sound, ReadsCreditedOnce, Credited
<1> QED  BY <1>1, LedgerInvariant, PTL

\* No later turn makes a created file a merely edited one: only a replan forgets
\* that a step created it.
THEOREM CreationsStick == LedgerSpec => CreationSticks
<1>1. ASSUME Inv, LedgerInv, [LedgerNext]_ledgerVars,
             NEW n \in Ids(plan) \cap Ids(plan'), NEW f \in Files, written[n][f] = Created
      PROVE  written'[n][f] = Created \/ phase = "replan"
  <2>1. /\ turn.leaf \in Ids(plan) \cup {NoNode} /\ turn.left \subseteq Ids(plan)
        /\ n \in Nodes /\ LedgerTypeOK
    BY <1>1, InvParts DEF LedgerInv
  <2>2. CASE written' = written
    BY <1>1, <2>2
  <2>3. ASSUME NEW m \in Ids(plan), Merge(m)
        PROVE  written'[n][f] = Created
    <3>1. LedgerTypeOK' /\ written[n][f] <= written'[n][f]
      BY <1>1, <2>1, <2>3, MergeSound
    <3>2. written'[n][f] \in Untouched .. Created
      BY <2>1, <3>1 DEF LedgerTypeOK, Writes
    <3> QED  BY <1>1, <3>1, <3>2 DEF Untouched, Created
  <2>4. CASE (StepDone \/ StepNotDone) /\ Merge(turn.leaf)
    BY <2>1, <2>3, <2>4 DEF StepDone, StepNotDone
  <2>5. ASSUME NEW m \in Nodes, AskedDone(m) \/ AskedNotDone(m), Merge(m)
        PROVE  written'[n][f] = Created
    BY <2>1, <2>3, <2>5 DEF AskedDone, AskedNotDone, AtHand
  <2>6. ASSUME ReplanAll \/ \E m \in Nodes : ReplanSubtree(m) PROVE phase = "replan"
    BY <2>6 DEF ReplanAll, ReplanSubtree
  <2>7. \/ UNCHANGED ledgerVars
        \/ Elsewhere /\ UNCHANGED evidenceVars
        \/ (ToolsSucceed(TRUE) \/ ToolsSucceed(FALSE)) /\ ToolsReport
        \/ (ToolsFail \/ MutationGuard \/ PlainReasoning) /\ ToolsLose
        \/ VerifyNothing /\ turnWrites' = NoWrites /\ UNCHANGED <<kept, filesRead>>
        => written' = written
    BY DEF ledgerVars, evidenceVars, ToolsReport, ToolsLose, kept
  <2> QED  BY <1>1, <2>2, <2>4, <2>5, <2>6, <2>7 DEF LedgerNext
<1>2. Inv /\ LedgerInv /\ [LedgerNext]_ledgerVars =>
         [\A n \in Ids(plan) \cap Ids(plan'), f \in Files :
             written[n][f] = Created => written'[n][f] = Created \/ phase = "replan"]_ledgerVars
  BY <1>1
<1> QED  BY <1>2, LedgerInvariant, PTL DEF LedgerSpec, CreationSticks
=============================================================================
