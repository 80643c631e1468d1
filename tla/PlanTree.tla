------------------------------ MODULE PlanTree ------------------------------
(***************************************************************************)
(* The plan of the agent: chef_human/agent/planner.py, classes PlanNode    *)
(* and Plan.  A plan is a value, the sequence of its nodes in depth-first  *)
(* pre-order with the depth of each (1 for plan.steps); the root is left   *)
(* out, as every walk of the code leaves it out.  This form determines the *)
(* tree, and the walks of the code become quantifiers over positions.      *)
(*                                                                         *)
(* Descriptions, reasons and display indices are abstracted.  The status   *)
(* "in_progress" lives only inside one verification and is not a value     *)
(* here; "invalidated" and "skipped" are never assigned in src/.           *)
(***************************************************************************)
EXTENDS Naturals, Sequences, FiniteSets, SequencesExt

CONSTANTS
    Nodes,    \* node ids (PlanNode.node_id), positive naturals
    NoNode,   \* "None" where the code holds a node or nothing
    Forests   \* what the planner may answer: sequences of [depth, kind]

Root == 0     \* plan.root; also the sentinel "__root__" of the retry manager

Kinds    == {"plain", "checkpoint"}
Statuses == {"pending", "completed", "failed"}

ASSUME NodesAssumption  == Nodes \subseteq Nat \ {0} /\ IsFiniteSet(Nodes)
ASSUME NoNodeAssumption == NoNode \notin Nodes \cup {Root}

\* Pre-order depths of a tree: the first node is a step of the root, and no node
\* is more than one level below the node before it.
Shaped(s) == /\ s # <<>> => s[1].depth = 1
             /\ \A i \in DOMAIN s : i > 1 => s[i].depth <= s[i - 1].depth + 1

Shoot == [depth : Nat \ {0}, kind : Kinds]
ASSUME ForestsAssumption == /\ Forests \subseteq Seq(Shoot) /\ <<>> \in Forests
                            /\ \A f \in Forests : Shaped(f)

PlanNode == [id : Nodes, depth : Nat \ {0}, kind : Kinds, status : Statuses]

-----------------------------------------------------------------------------
(* Reading a plan.                                                         *)

Ids(p)      == {p[i].id : i \in DOMAIN p}
At(p, n)    == CHOOSE i \in DOMAIN p : p[i].id = n
Node(p, n)  == p[At(p, n)]
Status(p, n) == Node(p, n).status

\* j is a position inside the subtree hanging from position i, i included.
Under(p, i, j) == i <= j /\ \A k \in i + 1 .. j : p[k].depth > p[i].depth

\* The last position of the subtree of n.
LastOf(p, n) ==
    CHOOSE j \in DOMAIN p : /\ Under(p, At(p, n), j)
                            /\ \A k \in DOMAIN p : Under(p, At(p, n), k) => k <= j

Subtree(p, n)   == {p[j].id : j \in {j \in DOMAIN p : Under(p, At(p, n), j)}}
Ancestors(p, n) == {m \in Ids(p) : m # n /\ n \in Subtree(p, m)}
Children(p, n)  == {m \in Subtree(p, n) : Node(p, m).depth = Node(p, n).depth + 1}
Tops(p)         == {n \in Ids(p) : Node(p, n).depth = 1}

Parent(p, n) == IF Node(p, n).depth = 1 THEN Root
                ELSE CHOOSE m \in Ancestors(p, n) : n \in Children(p, m)

IsLeaf(p, n)       == Children(p, n) = {}
IsCheckpoint(p, n) == Node(p, n).kind = "checkpoint"
Unexpanded(p, n)   == IsCheckpoint(p, n) /\ IsLeaf(p, n)

Leaves(p)   == {n \in Ids(p) : IsLeaf(p, n)}
Branches(p) == Ids(p) \ Leaves(p)

\* Post-order of the branches: the subtree that ends first, the deepest of
\* those that end together.
Before(p, m, n) == \/ LastOf(p, m) < LastOf(p, n)
                   \/ LastOf(p, m) = LastOf(p, n) /\ Node(p, m).depth > Node(p, n).depth

\* current_leaf(): the first pending leaf.
CurrentLeaf(p) ==
    LET pending == {i \in DOMAIN p : p[i].id \in Leaves(p) /\ p[i].status = "pending"}
    IN  IF pending = {} THEN NoNode
        ELSE p[CHOOSE i \in pending : \A j \in pending : i <= j].id

\* unresolved_steps(), and the order it lists them in: leaves, then branches.
Unresolved(p) == {n \in Ids(p) : Status(p, n) # "completed"}
ListedBefore(p, m, n) ==
    IF IsLeaf(p, m) THEN IsLeaf(p, n) => At(p, m) < At(p, n)
                    ELSE ~IsLeaf(p, n) /\ Before(p, m, n)

IsComplete(p) == Unresolved(p) = {}

\* Slip: one completed child is enough.
ReadyOnAnyChild(p) ==
    {b \in Branches(p) : /\ Status(p, b) # "completed"
                         /\ \E c \in Children(p, b) : Status(p, c) = "completed"}

\* ready_rollup_branches(), and the first of them in post-order.
ReadyBranches(p) ==
    {b \in Branches(p) : /\ Status(p, b) # "completed"
                         /\ \A c \in Children(p, b) : Status(p, c) = "completed"}
FirstReady(p, b) ==
    b \in ReadyBranches(p) /\ \A c \in ReadyBranches(p) \ {b} : Before(p, b, c)

-----------------------------------------------------------------------------
(* Editing a plan.                                                         *)

SetStatus(p, n, s) == [p EXCEPT ![At(p, n)].status = s]

\* The nodes a planner's answer becomes, hung at depth d.
Grown(forest, ids, d) ==
    [i \in DOMAIN forest |-> [id     |-> ids[i],
                              depth  |-> d + forest[i].depth,
                              kind   |-> forest[i].kind,
                              status |-> "pending"]]

\* Slip: what follows the subtree goes with it.
ReplaceAllAfter(p, n, new) == SubSeq(p, 1, At(p, n)) \o new

\* node.set_children(new): the old descendants are dropped.
ReplaceChildren(p, n, new) ==
    SubSeq(p, 1, At(p, n)) \o new \o SubSeq(p, LastOf(p, n) + 1, Len(p))

\* The nodes that outlive the loss of n's descendants.
Spared(p, n) == Ids(p) \ (Subtree(p, n) \ {n})

\* The splice of a checkpoint's continuation, right after its subtree.
InsertAfter(p, n, new) ==
    SubSeq(p, 1, LastOf(p, n)) \o new \o SubSeq(p, LastOf(p, n) + 1, Len(p))

\* Slip: completed nodes are kept wherever they are.
KeptNodes(p) == {j \in DOMAIN p : p[j].status = "completed"}

\* Slip: completed steps are kept without their subtrees.
KeptTops(p) == {j \in DOMAIN p : p[j].depth = 1 /\ p[j].status = "completed"}

\* What update_plan() keeps: the completed steps with their subtrees.
KeptPositions(p) ==
    {j \in DOMAIN p : \E i \in DOMAIN p : /\ p[i].depth = 1 /\ p[i].status = "completed"
                                        /\ Under(p, i, j)}

\* The sequence of the members of K in increasing order, in a set of its own.
Ascending(K) == {s \in [1 .. Cardinality(K) -> K] :
                    \A i, j \in DOMAIN s : i < j => s[i] < s[j]}

\* The plan of update_plan(): what is kept, then the flat revised steps.
Revised(p, kept, new) == [i \in DOMAIN kept |-> p[kept[i]]] \o new

\* Ids for k new nodes: injective, from "free" in increasing order, or one of
\* "claims" (continues_node_id).  Which unused id a node gets is immaterial.
Names(k, free, claims) ==
    {s \in [1 .. k -> free \cup claims] :
        /\ IsInjective(s)
        /\ \A i \in 1 .. k : s[i] \in free =>
              \A m \in free : m < s[i] => \E j \in 1 .. i - 1 : s[j] = m}

-----------------------------------------------------------------------------
(* What becomes of a planner's answer.                                     *)

TopShoots(forest) == SelectSeq(forest, LAMBDA x : x.depth = 1)
Flat(forest)      == \A i \in DOMAIN forest : forest[i].depth = 1
AllCheckpoints(forest) ==
    \A i \in DOMAIN forest : forest[i].depth = 1 => forest[i].kind = "checkpoint"
Plain(forest) ==
    [i \in DOMAIN forest |->
        IF forest[i].depth = 1 THEN [forest[i] EXCEPT !.kind = "plain"] ELSE forest[i]]

\* _demote_pass_through_checkpoint: a lone checkpoint becomes a leaf.
DemotePassThrough(forest) ==
    IF Len(TopShoots(forest)) = 1 THEN Plain(forest) ELSE forest

\* A checkpoint that expanded to nothing is an ordinary leaf from then on.
DemoteChildless(p, n, forest) ==
    IF forest = <<>> THEN [p EXCEPT ![At(p, n)].kind = "plain"] ELSE p

-----------------------------------------------------------------------------
(* A well-formed plan is shaped like a tree and its ids are unique.         *)
WellFormed(p) == Shaped(p) /\ \A i, j \in DOMAIN p : p[i].id = p[j].id => i = j
=============================================================================
