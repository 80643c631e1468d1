--------------------------- MODULE PlanGeneration ---------------------------
(***************************************************************************)
(* chef_human/agent/planner.py, class Planner: how a plan grows.  The      *)
(* model is asked to break a node down, each child it calls a leaf is      *)
(* judged by another call, the ones found too large are broken down in     *)
(* turn, and so on without a limit of depth; checkpoints wait until the    *)
(* run reaches them.  One action is one answer of the model.  An answer is *)
(* a sequence of steps; of its wording only what normalisation and         *)
(* verdicts tell apart is left.                                            *)
(***************************************************************************)
EXTENDS Positions, SequencesExt, FiniteSetsExt, Functions

CONSTANTS
    MaxNodes,   \* bound on the nodes of a tree, the root left out
    MaxAnswer,  \* bound on the steps of an answer
    Noise,      \* steps that normalisation drops for this task
    Limit       \* _ATOMICITY_TREE_CONTEXT_LIMIT

ASSUME PlanGenerationAssumption ==
    /\ {MaxNodes, MaxAnswer} \subseteq Nat /\ Limit \in Nat \ {0}

\* The patterns of noise are words with anything between them, so that a step which is
\* noise without its condition is noise with it.
ASSUME NoiseAssumption == "create" \in Noise => "create if missing" \in Noise

VARIABLES
    nodes,      \* what is known of each node of the tree
    children,   \* PlanNode.children
    calls,      \* the calls of _expand_node to come, the next one first
    batch,      \* the nodes the last answer made
    unjudged,   \* the ones of batch whose atomicity is still to be checked
    facts,      \* planning_facts: whether the file a step names exists
    entry,      \* the operation of the planner, and the node it is for
    phase,
    given       \* history: what became of each node

genVars == <<nodes, children, calls, batch, unjudged, facts, entry, phase, given>>

Root  == 0
Ids   == Root .. MaxNodes
Types == {"leaf", "branch", "checkpoint"}
Facts == {"unknown", "exists", "missing"}
Names == {"", "work", "create", "create if missing", "explore if any"} \cup Noise

\* declared_type, requested_branch, and whether atomicity_reason says something.
GenNode == [type : Types, branch : BOOLEAN, reason : BOOLEAN]
Step    == [name : Names, type : Types]
NoEntry == [op |-> "none", node |-> Root]
Ungiven == [large |-> {}, small |-> {}, asked |-> {}, demoted |-> {}]
Answers == BoundedSeq(Step, MaxAnswer)

-----------------------------------------------------------------------------
(* The tree.                                                               *)

Tree == DOMAIN nodes
ParentOf(n) == {m \in Tree : n \in ToSet(children[m])}

\* S holds the children of its nodes.
Closed(S) == \A m \in S : ToSet(children[m]) \subseteq S

\* The nodes that no closed set around n leaves out.
Below(n) == {m \in Tree \ {n} : \A S \in SUBSET Tree : n \in S /\ Closed(S) => m \in S}

\* n and the nodes above it.
Lineage(n) ==
    LET f[k \in 0..MaxNodes] == IF k = 0 THEN {n}
                                ELSE f[k - 1] \cup UNION {ParentOf(m) : m \in f[k - 1]}
    IN  f[MaxNodes]

\* The nodes next to m that are not in s, children before the parent.
Around(m, s) ==
    LET next == children[m] \o SetToSeq(ParentOf(m))
    IN  Picked(next, {i \in DOMAIN next : next[i] \notin ToSet(s)})

\* Slip: the limit is looked at before a node's neighbours are added, not after.
NearbyUncapped(n) ==
    LET f[k \in 0..Limit] ==
            IF k = 0 THEN <<n>>
            ELSE LET s == f[k - 1]
                 IN  IF k > Len(s) \/ Len(s) >= Limit THEN s ELSE s \o Around(s[k], s)
    IN  f[Limit]

\* _collect_nearby_nodes: breadth first.
NearbyNodes(n) ==
    LET f[k \in 0..Limit] ==
            IF k = 0 THEN <<n>>
            ELSE LET s == f[k - 1]
                     new == IF k > Len(s) THEN <<>> ELSE Around(s[k], s)
                 IN  s \o SubSeq(new, 1, Min({Len(new), Limit - Len(s)}))
    IN  f[Limit]

\* _render_nearby_tree: the nodes shown at the top.
Uppermost(S) == {m \in S : ParentOf(m) \cap S = {}}

-----------------------------------------------------------------------------
(* What an answer is worth.                                                *)

\* _parse_steps: an array or a single object; or else a leaf for each line.
Parsed(answer, readable) ==
    IF readable THEN answer
    ELSE [i \in DOMAIN answer |-> [answer[i] EXCEPT !.type = "leaf"]]

\* _resolve_conditional_step, "" for a step there is no need for.
Resolved(name, fact) ==
    CASE name = "create if missing" /\ fact = "exists"  -> ""
      [] name = "create if missing" /\ fact = "missing" -> "create"
      [] name = "explore if any" /\ fact = "missing"    -> ""
      [] OTHER -> name

\* The first step of each name.
Distinct(steps) ==
    Picked(steps, {i \in DOMAIN steps : \A j \in 1 .. i - 1 : steps[j].name # steps[i].name})

Worded(steps) == Picked(steps, {i \in DOMAIN steps : steps[i].name # ""})
Useful(steps) == Picked(steps, {i \in DOMAIN steps : steps[i].name \notin Noise})

\* The steps with their conditions resolved, without the ones there is no need for.
Unconditional(steps, fact) ==
    Worded([i \in DOMAIN steps |-> [steps[i] EXCEPT !.name = Resolved(steps[i].name, fact)]])

\* Slip: repetitions are sought before conditions are resolved.
NormalizedEarly(steps, fact) ==
    LET kept == Unconditional(Useful(Distinct(Worded(steps))), fact)
    IN  IF kept # <<>> THEN kept ELSE Worded(steps)

\* _normalize_steps: unless nothing would be left.
Normalized(steps, fact) ==
    LET kept == Unconditional(Useful(Worded(steps)), fact)
    IN  IF kept # <<>> THEN Distinct(kept) ELSE Worded(steps)

\* The nodes an answer becomes.
Made(steps) ==
    [i \in DOMAIN steps |->
        [type |-> steps[i].type, branch |-> steps[i].type = "branch", reason |-> FALSE]]

\* What an answer may be made of, when so much is known of the files.
Products == [fact \in Facts |->
    {Made(Normalized(Parsed(answer, readable), fact)) : answer \in Answers, readable \in BOOLEAN}]

\* The sequence s of nodes with ids right after n.
InsertAfterNode(s, n, ids) ==
    LET i == CHOOSE i \in DOMAIN s : s[i] = n
    IN  SubSeq(s, 1, i) \o ids \o SubSeq(s, i + 1, Len(s))

\* k new ids.
Fresh(k) == LET free == Ids \ Tree
            IN  [i \in 1 .. k |-> CHOOSE n \in free : Cardinality({m \in free : m <= n}) = i]
Room(k) == k <= Cardinality(Ids \ Tree)

-----------------------------------------------------------------------------
(* The operations.                                                         *)

Start(op, n, fact) ==
    /\ entry' = [op |-> op, node |-> n]
    /\ facts' = fact
    /\ calls' = <<n>>
    /\ phase' = "expanding"

\* generate_plan
GenInit ==
    /\ nodes = [n \in {Root} |-> [type |-> "branch", branch |-> TRUE, reason |-> FALSE]]
    /\ children = [n \in {Root} |-> <<>>]
    /\ calls = <<Root>> /\ batch = <<>> /\ unjudged = <<>>
    /\ facts \in Facts
    /\ entry = [op |-> "generate", node |-> Root]
    /\ phase = "expanding"
    /\ given = Ungiven

\* Slip: checkpoints too.
ToJudgeAll(ids, made) == Picked(ids, {i \in DOMAIN ids : ~made[ids[i]].branch})

\* The nodes to judge: what the answer calls leaves.
ToJudge(ids, made) ==
    Picked(ids, {i \in DOMAIN ids : ~made[ids[i]].branch /\ made[ids[i]].type # "checkpoint"})

\* n has the nodes made for its children, beside the nodes kept.  They all go to be
\* judged, or if n was found too large and a single one came of it, it stays a leaf.
Attach(n, made, kept) ==
    LET ids  == Fresh(Len(made))
        lone == nodes[n].reason /\ Len(made) = 1
        new  == [i \in ToSet(ids) |->
                    LET x == made[CHOOSE k \in DOMAIN ids : ids[k] = i]
                    IN  IF lone THEN [x EXCEPT !.branch = FALSE] ELSE x]
    IN  /\ nodes' = [m \in kept \cup ToSet(ids) |-> IF m \in ToSet(ids) THEN new[m] ELSE nodes[m]]
        /\ children' = [m \in kept \cup ToSet(ids) |->
                           IF m = n THEN ids ELSE IF m \in ToSet(ids) THEN <<>> ELSE children[m]]
        /\ batch' = ids
        /\ unjudged' = IF lone THEN <<>> ELSE ToJudge(ids, new)
        /\ given' = [large   |-> given.large \ Below(n),
                     small   |-> (given.small \ Below(n)) \cup IF lone THEN ToSet(ids) ELSE {},
                     asked   |-> (given.asked \ Below(n)) \cup {n},
                     demoted |-> given.demoted \ Below(n)]

\* Slip: the nodes below n stay.
GrowOver(n, made) == Attach(n, made, Tree)

\* set_children: the nodes below n are gone.
Grow(n, made) == Attach(n, made, Tree \ Below(n))

\* _expand_node, and the same lines of replan_subtree, up to the judging.
Expand ==
    /\ phase = "expanding"
    /\ \E made \in Products[facts] : Room(Len(made)) /\ Grow(Head(calls), made)
    /\ phase' = "judging"
    /\ UNCHANGED <<calls, facts, entry>>

\* _check_atomicity for the next leaf; an unreadable verdict is ATOMIC, and a
\* verdict may come without a reason.
Judge(breakdown, reason) ==
    LET n == Head(unjudged)
    IN  /\ phase = "judging" /\ unjudged # <<>>
        /\ reason => breakdown
        /\ nodes' = IF breakdown
                    THEN [nodes EXCEPT ![n].branch = TRUE, ![n].reason = reason]
                    ELSE nodes
        /\ unjudged' = Tail(unjudged)
        /\ given' = IF breakdown THEN [given EXCEPT !.large = @ \cup {n}]
                    ELSE [given EXCEPT !.small = @ \cup {n}]
        /\ UNCHANGED <<children, calls, batch, facts, entry, phase>>

\* Slip: the branches of the last answer are forgotten for the ones before.
DescendLast ==
    /\ phase = "judging" /\ unjudged = <<>>
    /\ calls' = Picked(batch, {i \in DOMAIN batch : nodes[batch[i]].branch})
    /\ phase' = IF calls' = <<>> THEN "finishing" ELSE "expanding"
    /\ batch' = <<>>
    /\ UNCHANGED <<nodes, children, unjudged, facts, entry, given>>

\* The branches of the last answer come first, each with all below it.
Descend ==
    /\ phase = "judging" /\ unjudged = <<>>
    /\ calls' = Picked(batch, {i \in DOMAIN batch : nodes[batch[i]].branch
                                                   /\ nodes[batch[i]].type # "checkpoint"})
                \o IF calls = <<>> THEN <<>> ELSE Tail(calls)
    /\ phase' = IF calls' = <<>> THEN "finishing" ELSE "expanding"
    /\ batch' = <<>>
    /\ UNCHANGED <<nodes, children, unjudged, facts, entry, given>>

Demoted(S) == [m \in Tree |-> IF m \in S THEN [nodes[m] EXCEPT !.type = "leaf", !.branch = FALSE]
                              ELSE nodes[m]]

\* _demote_pass_through_checkpoint
PassThrough(ids) == IF Len(ids) = 1 THEN {n \in ToSet(ids) : nodes[n].type = "checkpoint"} ELSE {}

\* The rest of expand_checkpoint; the other operations end as they are.
Finish ==
    LET n     == entry.node
        leafs == IF entry.op # "checkpoint" THEN {}
                 ELSE IF children[n] = <<>> THEN {n} ELSE PassThrough(children[n])
    IN  /\ phase = "finishing" /\ phase' = "ready"
        /\ nodes' = Demoted(leafs)
        /\ given' = [given EXCEPT !.demoted = @ \cup leafs]
        /\ facts' = "unknown"
        /\ UNCHANGED <<children, calls, batch, unjudged, entry>>

\* A call of the model raises: the tree stays as far as it was grown.
PlannerFails ==
    /\ phase \in {"expanding", "judging"}
    /\ phase' = "raised"
    /\ calls' = <<>> /\ batch' = <<>> /\ unjudged' = <<>>
    /\ facts' = "unknown" /\ entry' = NoEntry /\ given' = Ungiven
    /\ UNCHANGED <<nodes, children>>

\* replan_subtree, of the loop or a reviewer.
Replan(n) ==
    /\ phase = "ready" /\ n \in Tree \ {Root}
    /\ Start("replan", n, "unknown")
    /\ UNCHANGED <<nodes, children, batch, unjudged, given>>

\* expand_checkpoint
ExpandCheckpoint(n) ==
    /\ phase = "ready" /\ n \in Tree /\ nodes[n].type = "checkpoint" /\ children[n] = <<>>
    /\ Start("checkpoint", n, "unknown")
    /\ UNCHANGED <<nodes, children, batch, unjudged, given>>

\* continue_from_checkpoint, the splice of the loop, which may have bounded the
\* chain of checkpoints, and expand_spliced_steps up to the judging.
Continue(n, made, bounded) ==
    LET ids   == Fresh(Len(made))
        plain == bounded \/ Len(made) = 1
        new   == [i \in ToSet(ids) |->
                     LET x == made[CHOOSE k \in DOMAIN ids : ids[k] = i]
                     IN  IF plain /\ x.type = "checkpoint" THEN [x EXCEPT !.type = "leaf"] ELSE x]
        up    == CHOOSE m \in ParentOf(n) : TRUE
    IN  /\ phase = "ready" /\ n \in Tree /\ nodes[n].type = "checkpoint" /\ children[n] # <<>>
        /\ made # <<>> /\ Room(Len(made))
        /\ bounded => \A i \in DOMAIN made : made[i].type = "checkpoint"
        /\ nodes' = [m \in Tree \cup ToSet(ids) |-> IF m \in ToSet(ids) THEN new[m] ELSE nodes[m]]
        /\ children' = [m \in Tree \cup ToSet(ids) |->
                           IF m \in ToSet(ids) THEN <<>>
                           ELSE IF m = up THEN InsertAfterNode(children[m], n, ids) ELSE children[m]]
        /\ batch' = ids
        /\ unjudged' = ToJudge(ids, new)
        /\ calls' = <<>>
        /\ facts' = "unknown"
        /\ entry' = [op |-> "continue", node |-> n]
        /\ phase' = "judging"
        /\ UNCHANGED given

GenNext ==
    \/ Expand \/ Descend \/ Finish \/ PlannerFails
    \/ \E breakdown, reason \in BOOLEAN : Judge(breakdown, reason)
    \/ \E n \in Ids : Replan(n) \/ ExpandCheckpoint(n)
    \/ \E n \in Ids, made \in Products["unknown"], bounded \in BOOLEAN : Continue(n, made, bounded)

GenSpec == GenInit /\ [][GenNext]_genVars

-----------------------------------------------------------------------------

\* The type of the state: children are a tree below the root, and the calls to come
\* are for nodes of it that were not answered.
GenTypeOK ==
    /\ nodes \in [Tree -> GenNode] /\ Root \in Tree /\ Tree \subseteq Ids
    /\ children \in [Tree -> Seq(Tree)]
    /\ Tree = {Root} \cup Below(Root) /\ ParentOf(Root) = {}
    /\ \A n \in Tree : IsInjective(children[n]) /\ Cardinality(ParentOf(n)) <= 1
    /\ IsInjective(calls) /\ ToSet(calls) \subseteq Tree
    /\ {ToSet(batch), ToSet(unjudged)} \subseteq SUBSET Tree
    /\ phase \in {"expanding", "judging", "finishing", "ready", "raised"}
    /\ facts \in Facts

\* planner.py 787-794 ("Independently double-check every child the generation call
\* left as a leaf"): when an operation of the planner ends, every node without
\* children is a checkpoint, was found small enough, is the lone product of one found
\* too large, was broken down to nothing, or is a checkpoint that was demoted.
LeavesJudged ==
    phase = "ready" =>
        \A n \in Tree : children[n] = <<>> =>
            nodes[n].type = "checkpoint" \/ n \in given.small \cup given.asked \cup given.demoted

\* CONTEXT.md 19 ("Left undecomposed at generation time; decomposed lazily the first
\* time execution reaches it"): a checkpoint has children only once execution or a
\* replan asked for them.
CheckpointsLazy ==
    phase # "raised" => \A n \in Tree : nodes[n].type = "checkpoint" =>
        /\ ~nodes[n].branch
        /\ children[n] # <<>> => n \in given.asked /\ n \notin given.large

\* planner.py 833-838 ("collecting up to limit nodes in nearest-first order"): the
\* nodes shown around a node are as many as may be, none left out is nearer than one
\* shown, and they hang together, so that the rendering from the top shows them all.
NearbyIsBall ==
    phase = "judging" => \A n \in ToSet(batch) :
        LET near == NearbyNodes(n)
            far(m) == Cardinality((Lineage(n) \cup Lineage(m)) \ (Lineage(n) \cap Lineage(m)))
        IN  /\ IsInjective(near)
            /\ Len(near) = Min({Limit, Cardinality(Tree)})
            /\ \A m \in ToSet(near), k \in Tree \ ToSet(near) : far(m) <= far(k)
            /\ Cardinality(Uppermost(ToSet(near))) = 1

\* planner.py 1426-1489: normalisation keeps something of every answer with words in
\* it, and doing it again changes nothing, whatever its rules did to the steps.
NormalizeSound ==
    calls = <<Root>> /\ given.asked = {} =>
        \A answer \in Answers, fact \in Facts :
            LET steps == Normalized(answer, fact)
            IN  /\ steps = <<>> => Worded(answer) = <<>>
                /\ Normalized(steps, fact) = steps

\* planner.py 745-759 (a lone child of a node the atomicity check found too large is
\* forced "to stay a leaf rather than running it through another atomicity check that
\* would just repeat the cycle").  This fails: the node is recognised by the reason
\* of the verdict, and a verdict may have none.
DescentGuarded ==
    \A n \in given.large \cap Tree : Len(children[n]) = 1 =>
        children[n][1] \notin ToSet(unjudged) \cup given.large
=============================================================================
