------------------------ MODULE PlanGenerationProofs ------------------------
(***************************************************************************)
(* The types of PlanGeneration with the shape of its tree, that every leaf *)
(* was judged, that checkpoints wait, and that what is shown for a verdict *)
(* is a ball, for any number of nodes, any length of answers, any noise    *)
(* and any limit.                                                          *)
(***************************************************************************)
EXTENDS PlanGeneration, OrderProofs

-----------------------------------------------------------------------------
(* Answers and new nodes.                                                  *)

\* A node as an answer makes it: what is called a branch is one, and no verdict gave
\* it a reason.
Sprout == {x \in GenNode : ~ x.reason /\ x.branch = (x.type = "branch")}

\* What is left of a sequence of steps is a sequence of steps.
LEMMA StepsLeft ==
    ASSUME NEW s \in Seq(Step)
    PROVE  Worded(s) \in Seq(Step) /\ Distinct(s) \in Seq(Step) /\ Useful(s) \in Seq(Step)
<1>1. \A I \in SUBSET (DOMAIN s) : Picked(s, I) \in Seq(Step)
  BY PickedOf
<1> QED  BY <1>1 DEF Worded, Distinct, Useful

\* Resolving a condition renames a step.
LEMMA UnconditionalType ==
    ASSUME NEW s \in Seq(Step), NEW fact PROVE Unconditional(s, fact) \in Seq(Step)
<1> DEFINE t == [i \in DOMAIN s |-> [s[i] EXCEPT !.name = Resolved(s[i].name, fact)]]
<1>1. ASSUME NEW i \in DOMAIN s PROVE t[i] \in Step
  <2>1. s[i] \in Step
    OBVIOUS
  <2>2. Resolved(s[i].name, fact) \in Names
    BY <2>1 DEF Step, Resolved, Names
  <2> QED  BY <2>1, <2>2 DEF Step
<1>2. t \in Seq(Step)
  <2>1. DOMAIN s = 1 .. Len(s) /\ Len(s) \in Nat
    OBVIOUS
  <2> HIDE DEF t
  <2>2. t = [i \in 1 .. Len(s) |-> t[i]]
    BY <2>1 DEF t
  <2> QED  BY <1>1, <2>1, <2>2
<1> HIDE DEF t
<1>3. Worded(t) \in Seq(Step)
  BY <1>2, StepsLeft
<1> QED  BY <1>3 DEF Unconditional, t

\* Every answer is made into new nodes.
LEMMA ProductsType ==
    ASSUME NEW fact \in Facts, NEW made \in Products[fact]
    PROVE  made \in Seq(Sprout)
<1>1. PICK answer \in Answers, readable \in BOOLEAN :
          made = Made(Normalized(Parsed(answer, readable), fact))
  BY DEF Products
<1>2. answer \in Seq(Step)
  BY DEF Answers, BoundedSeq, SeqOf
<1>3. Parsed(answer, readable) \in Seq(Step)
  <2>1. ASSUME NEW i \in DOMAIN answer PROVE [answer[i] EXCEPT !.type = "leaf"] \in Step
    <3>1. answer[i] \in Step
      BY <1>2
    <3> QED  BY <3>1 DEF Step, Types
  <2>2. DOMAIN answer = 1 .. Len(answer) /\ Len(answer) \in Nat
    BY <1>2
  <2> QED  BY <1>2, <2>1, <2>2 DEF Parsed
<1> DEFINE p == Parsed(answer, readable)
           s == Normalized(p, fact)
<1>4. s \in Seq(Step)
  <2> HIDE DEF p
  <2>1. p \in Seq(Step)
    BY <1>3 DEF p
  <2>2. Unconditional(Useful(Worded(p)), fact) \in Seq(Step)
    BY <2>1, StepsLeft, UnconditionalType
  <2> QED  BY <2>1, <2>2, StepsLeft DEF Normalized
<1> HIDE DEF p, s
<1>5. ASSUME NEW i \in DOMAIN s
      PROVE  [type |-> s[i].type, branch |-> s[i].type = "branch", reason |-> FALSE] \in Sprout
  <2>1. s[i] \in Step
    BY <1>4
  <2>2. s[i].type \in Types /\ (s[i].type = "branch") \in BOOLEAN
    BY <2>1 DEF Step
  <2> QED  BY <2>2 DEF Sprout, GenNode
<1>6. DOMAIN s = 1 .. Len(s) /\ Len(s) \in Nat
  BY <1>4
<1>7. Made(s) \in Seq(Sprout)
  BY <1>5, <1>6 DEF Made
<1> QED  BY <1>1, <1>7 DEF s, p

\* New ids are new, and no two of them the same.
LEMMA FreshOf ==
    ASSUME NEW k \in Nat, Room(k)
    PROVE  /\ Fresh(k) \in Seq(Ids \ Tree) /\ Len(Fresh(k)) = k
           /\ Lists(Fresh(k), ToSet(Fresh(k)))
<1> DEFINE free == Ids \ Tree
           rank(n) == Cardinality({m \in free : m <= n})
           at(i) == CHOOSE n \in free : rank(n) = i
           ids == Fresh(k)
<1>1. MaxNodes \in Nat
  BY PlanGenerationAssumption
<1>2. IsFiniteSet(Ids) /\ Ids \subseteq Nat
  BY <1>1, FS_Interval DEF Ids, Root
<1>3. IsFiniteSet(free) /\ free \in SUBSET Nat
  BY <1>2, FS_Subset
<1>4. /\ \A i \in 1 .. Cardinality(free) : \E n \in free : rank(n) = i
      /\ Cardinality(free) \in Nat
  BY <1>3, RankOf
<1>5. 1 .. k \subseteq 1 .. Cardinality(free)
  BY <1>4 DEF Room
<1>6. ids = [i \in 1 .. k |-> at(i)]
  BY DEF Fresh
<1> HIDE DEF free, rank, ids
<1>7. \A i \in 1 .. k : at(i) \in free /\ rank(at(i)) = i
  BY <1>4, <1>5
<1> HIDE DEF at
<1>8. ids \in Seq(free) /\ Len(ids) = k /\ DOMAIN ids = 1 .. k
  BY <1>6, <1>7
<1>9. \A i, j \in 1 .. k : ids[i] = ids[j] => i = j
  BY <1>6, <1>7
<1>10. ToSet(ids) = {ids[i] : i \in 1 .. k}
  BY <1>8 DEF ToSet
<1>11. ids \in Seq(ToSet(ids))
  <2>1. ids = [i \in 1 .. k |-> ids[i]]
    BY <1>6
  <2> QED  BY <1>10, <2>1
<1>12. Lists(ids, ToSet(ids))
  BY <1>8, <1>9, <1>10, <1>11 DEF Lists
<1> QED  BY <1>8, <1>12 DEF ids, free

-----------------------------------------------------------------------------
(* The inductive invariant.                                                *)

\* The nodes are a tree below the root: no node has two parents or is twice among the
\* children of one, and no proper part that holds the root is closed.
Shape ==
    /\ nodes \in [Tree -> GenNode] /\ Root \in Tree /\ Tree \subseteq Ids
    /\ nodes[Root].type # "checkpoint"
    /\ children \in [Tree -> Seq(Tree)]
    /\ \A n \in Tree : Lists(children[n], ToSet(children[n]))
    /\ \A p, q \in Tree : \A m \in ToSet(children[p]) : m \in ToSet(children[q]) => p = q
    /\ \A p \in Tree : Root \notin ToSet(children[p])
    /\ \A S \in SUBSET Tree : Root \in S /\ Closed(S) => S = Tree

\* The calls to come are for different nodes without children, the first one aside if
\* it is the only one, and not for the nodes of the answer that is being judged.
Work ==
    /\ phase \in {"expanding", "judging", "finishing", "ready", "raised"} /\ facts \in Facts
    /\ calls \in Seq(Tree) /\ batch \in Seq(Tree) /\ unjudged \in Seq(Tree)
    /\ Lists(calls, ToSet(calls)) /\ Lists(batch, ToSet(batch))
    /\ ToSet(unjudged) \subseteq ToSet(batch)
    /\ phase = "expanding" =>
          calls # <<>> /\ (Len(calls) = 1 \/ \A m \in ToSet(calls) : children[m] = <<>>)
    /\ phase = "judging" => \A m \in ToSet(batch) : children[m] = <<>>
    /\ phase = "judging" /\ calls # <<>> =>
          \A m \in ToSet(Tail(calls)) : children[m] = <<>> /\ m \notin ToSet(batch)
    /\ phase # "judging" => batch = <<>> /\ unjudged = <<>>
    /\ phase \in {"finishing", "ready"} => calls = <<>>

\* A node without children is one that LeavesJudged lets stay, or its turn is still to
\* come: as a call, as a leaf to judge or as a branch of the answer being judged.
Judged ==
    /\ DOMAIN given = {"large", "small", "asked", "demoted"} /\ given.large \subseteq Tree
    /\ phase # "raised" =>
        /\ \A n \in Tree : nodes[n].type = "checkpoint" =>
              /\ ~ nodes[n].branch /\ n \notin given.large
              /\ children[n] # <<>> => n \in given.asked
        /\ \A n \in ToSet(unjudged) : nodes[n].type # "checkpoint"
        /\ phase = "judging" /\ calls # <<>> => Head(calls) \in given.asked
        /\ \A n \in Tree : children[n] = <<>> =>
              \/ nodes[n].type = "checkpoint" \/ n \in given.small \cup given.asked \cup given.demoted
              \/ n \in ToSet(calls) \cup ToSet(unjudged)
              \/ n \in ToSet(batch) /\ nodes[n].branch

GenInv == Shape /\ Work /\ Judged

-----------------------------------------------------------------------------
(* The nodes below a node.                                                 *)

\* n and the nodes below it are closed.
LEMMA BelowClosed ==
    ASSUME Shape, NEW n \in Tree
    PROVE  Closed(Below(n) \cup {n})
<1>1. ASSUME NEW m \in Below(n) \cup {n}, NEW c \in ToSet(children[m])
      PROVE  c \in Below(n) \cup {n}
  <2>1. m \in Tree /\ c \in Tree
    <3>1. m \in Tree
      BY DEF Below
    <3>2. children[m] \in Seq(Tree)
      BY <3>1 DEF Shape
    <3> QED  BY <3>1, <3>2 DEF ToSet
  <2>2. ASSUME NEW S \in SUBSET Tree, n \in S, Closed(S) PROVE c \in S
    <3>1. m \in S
      BY <2>2 DEF Below
    <3> QED  BY <2>2, <3>1 DEF Closed
  <2> QED  BY <2>1, <2>2 DEF Below
<1> QED  BY <1>1 DEF Closed

\* A closed set around n holds what is below n.
LEMMA BelowLeast ==
    ASSUME NEW n \in Tree, NEW S \in SUBSET Tree, n \in S, Closed(S)
    PROVE  Below(n) \subseteq S
BY DEF Below

\* There is nothing below a node without children.
LEMMA BelowChildless ==
    ASSUME NEW n \in Tree, children[n] = <<>>
    PROVE  Below(n) = {}
<1>1. ToSet(children[n]) = {}
  BY DEF ToSet
<1>2. Closed({n})
  BY <1>1 DEF Closed
<1>3. Below(n) \subseteq {n}
  BY <1>2, BelowLeast
<1> QED  BY <1>3 DEF Below

\* A parent of a node below n is n or below it.
LEMMA BelowParents ==
    ASSUME Shape, NEW n \in Tree, NEW m \in Tree, NEW c \in Below(n), c \in ToSet(children[m])
    PROVE  m \in Below(n) \cup {n}
<1> DEFINE B == Below(n) \cup {n}
           S == {n} \cup {x \in Below(n) : \A y \in Tree : x \in ToSet(children[y]) => y \in B}
<1>1. B \subseteq Tree /\ Closed(B) /\ S \subseteq B
  BY BelowClosed DEF Below
<1>2. ASSUME NEW x \in S, NEW y \in ToSet(children[x]) PROVE y \in S
  <2>1. x \in Tree /\ x \in B /\ y \in B
    BY <1>1 DEF Closed
  <2>2. \A z \in Tree : y \in ToSet(children[z]) => z = x
    BY <2>1 DEF Shape
  <2>3. \A z \in Tree : y \in ToSet(children[z]) => z \in B
    BY <2>1, <2>2
  <2> QED  BY <2>1, <2>3
<1>3. Closed(S)
  BY <1>2 DEF Closed
<1>4. Below(n) \subseteq S
  BY <1>1, <1>3, BelowLeast
<1>5. c # n
  BY DEF Below
<1> QED  BY <1>4, <1>5

\* The root is below no node, and every other node has a parent.
LEMMA RootAbove ==
    ASSUME Shape, NEW n \in Tree
    PROVE  /\ Root \notin Below(n)
           /\ n # Root => \E m \in Tree : n \in ToSet(children[m])
<1>1. Root \notin Below(n)
  <2>1. CASE n = Root
    BY <2>1 DEF Below
  <2>2. CASE n # Root
    <3> DEFINE S == Tree \ {Root}
    <3>1. n \in S
      BY <2>2
    <3>2. ASSUME NEW m \in S PROVE ToSet(children[m]) \subseteq S
      <4>1. children[m] \in Seq(Tree) /\ Root \notin ToSet(children[m])
        BY DEF Shape
      <4> QED  BY <4>1 DEF ToSet
    <3>3. Closed(S)
      BY <3>2 DEF Closed
    <3>4. Below(n) \subseteq S
      BY <3>1, <3>3, BelowLeast
    <3> QED  BY <3>4
  <2> QED  BY <2>1, <2>2
<1>2. ASSUME n # Root PROVE \E m \in Tree : n \in ToSet(children[m])
  <2> SUFFICES ASSUME \A m \in Tree : n \notin ToSet(children[m]) PROVE FALSE
    OBVIOUS
  <2> DEFINE S == Tree \ {n}
  <2>1. ASSUME NEW m \in S PROVE ToSet(children[m]) \subseteq S
    <3>1. children[m] \in Seq(Tree)
      BY DEF Shape
    <3> QED  BY <3>1 DEF ToSet
  <2>2. Closed(S) /\ Root \in S
    BY <1>2, <2>1 DEF Closed, Shape
  <2>3. S = Tree
    BY <2>2 DEF Shape
  <2> QED  BY <2>3
<1> QED  BY <1>1, <1>2

-----------------------------------------------------------------------------
(* What an answer does to the tree.                                        *)

Kept(n) == Tree \ Below(n)

\* The tree after the nodes ids became all there is below n.
Regrown(n, ids) ==
    /\ ids \in Seq(Ids \ Tree) /\ Lists(ids, ToSet(ids))
    /\ Tree' = Kept(n) \cup ToSet(ids) /\ DOMAIN children' = Kept(n) \cup ToSet(ids)
    /\ nodes' = [m \in Tree' |-> nodes'[m]] /\ children' = [m \in Tree' |-> children'[m]]
    /\ \A m \in Kept(n) : nodes'[m] = nodes[m]
    /\ \A m \in ToSet(ids) : nodes'[m] \in GenNode /\ (nodes'[m].type = "checkpoint" => ~ nodes'[m].branch)
    /\ children'[n] = ids
    /\ \A m \in ToSet(ids) : children'[m] = <<>>
    /\ \A m \in Kept(n) \ {n} : children'[m] = children[m]

\* What is to be done with the new nodes.
Queued(n, ids) ==
    /\ batch' = ids /\ unjudged' \in Seq(ToSet(ids))
    /\ \A m \in ToSet(unjudged') : nodes'[m].type # "checkpoint"
    /\ DOMAIN given' = {"large", "small", "asked", "demoted"}
    /\ given'.large = given.large \ Below(n)
    /\ given.small \ Below(n) \subseteq given'.small
    /\ given'.asked = (given.asked \ Below(n)) \cup {n}
    /\ given'.demoted = given.demoted \ Below(n)
    /\ \A m \in ToSet(ids) : \/ nodes'[m].type = "checkpoint" \/ nodes'[m].branch
                             \/ m \in ToSet(unjudged') \/ m \in given'.small

\* The nodes to judge are the ones that are neither branch nor checkpoint.
LEMMA ToJudgeOf ==
    ASSUME NEW S, NEW ids \in Seq(S), NEW made
    PROVE  /\ ToJudge(ids, made) \in Seq(ToSet(ids))
           /\ ToSet(ToJudge(ids, made)) =
                 {m \in ToSet(ids) : ~ made[m].branch /\ made[m].type # "checkpoint"}
<1> DEFINE I == {i \in DOMAIN ids : ~ made[ids[i]].branch /\ made[ids[i]].type # "checkpoint"}
           t == Picked(ids, I)
<1>1. ids \in Seq(ToSet(ids)) /\ DOMAIN ids = 1 .. Len(ids)
  <2>1. ids = [i \in 1 .. Len(ids) |-> ids[i]] /\ Len(ids) \in Nat
    OBVIOUS
  <2> QED  BY <2>1 DEF ToSet
<1>2. I \in SUBSET (1 .. Len(ids))
  BY <1>1
<1>3. /\ t \in Seq(ToSet(ids)) /\ Len(t) \in Nat
      /\ \A k \in 1 .. Len(t) : \E i \in I : t[k] = ids[i]
      /\ \A i \in I : \E k \in 1 .. Len(t) : t[k] = ids[i]
  <2> HIDE DEF I
  <2> QED  BY <1>1, <1>2, PickedOf
<1> HIDE DEF t
<1>4. ToSet(t) = {t[k] : k \in 1 .. Len(t)}
  BY <1>3 DEF ToSet
<1>5. \A f : f \in ToSet(t) <=> \E i \in I : f = ids[i]
  BY <1>3, <1>4
<1>6. \A f : f \in ToSet(ids) <=> \E i \in DOMAIN ids : f = ids[i]
  BY DEF ToSet
<1>7. ToSet(t) = {m \in ToSet(ids) : ~ made[m].branch /\ made[m].type # "checkpoint"}
  BY <1>5, <1>6
<1> QED  BY <1>3, <1>7 DEF t, ToJudge

LEMMA GrowOf ==
    ASSUME Shape, NEW n \in Tree, NEW made \in Seq(Sprout), Room(Len(made)), Grow(n, made)
    PROVE  \E ids : Regrown(n, ids) /\ Queued(n, ids)
<1> DEFINE ids  == Fresh(Len(made))
           lone == nodes[n].reason /\ Len(made) = 1
           N    == ToSet(ids)
           at(i) == CHOOSE k \in DOMAIN ids : ids[k] = i
           new  == [i \in N |-> LET x == made[at(i)]
                                IN  IF lone THEN [x EXCEPT !.branch = FALSE] ELSE x]
<1>1. /\ nodes' = [m \in Kept(n) \cup N |-> IF m \in N THEN new[m] ELSE nodes[m]]
      /\ children' = [m \in Kept(n) \cup N |-> IF m = n THEN ids ELSE IF m \in N THEN <<>> ELSE children[m]]
      /\ batch' = ids
      /\ unjudged' = IF lone THEN <<>> ELSE ToJudge(ids, new)
      /\ given' = [large   |-> given.large \ Below(n),
                   small   |-> (given.small \ Below(n)) \cup IF lone THEN N ELSE {},
                   asked   |-> (given.asked \ Below(n)) \cup {n},
                   demoted |-> given.demoted \ Below(n)]
  BY DEF Grow, Attach, Kept
<1>2. Len(made) \in Nat /\ DOMAIN made = 1 .. Len(made)
  OBVIOUS
<1>3. ids \in Seq(Ids \ Tree) /\ Len(ids) = Len(made) /\ Lists(ids, N)
  BY <1>2, FreshOf
<1> HIDE DEF ids
<1>4. DOMAIN ids = 1 .. Len(made) /\ \A i \in N : \E k \in DOMAIN ids : ids[k] = i
  BY <1>2, <1>3 DEF ToSet
<1>5. \A i \in N : at(i) \in 1 .. Len(made)
  BY <1>4
<1> HIDE DEF at
<1>6. n \in Kept(n) /\ n \notin N /\ N \cap Tree = {}
  <2>1. N \subseteq Ids \ Tree
    BY <1>3 DEF ToSet
  <2> QED  BY <2>1 DEF Kept, Below
<1>7. ASSUME NEW i \in N
      PROVE  new[i] \in GenNode /\ (new[i].type = "checkpoint" => ~ new[i].branch)
  <2>1. made[at(i)] \in Sprout
    BY <1>2, <1>5
  <2>2. new[i] = made[at(i)] \/ new[i] = [made[at(i)] EXCEPT !.branch = FALSE]
    OBVIOUS
  <2> QED  BY <2>1, <2>2 DEF Sprout, GenNode, Types
<1> DEFINE judge == ToJudge(ids, new)
<1>8. judge \in Seq(N) /\ ToSet(judge) = {m \in N : ~ new[m].branch /\ new[m].type # "checkpoint"}
  <2> HIDE DEF new
  <2> QED  BY <1>3, ToJudgeOf
<1>9. ToSet(<<>>) = {} /\ <<>> \in Seq(N)
  BY DEF ToSet
<1> HIDE DEF new, judge, N
<1>10. Regrown(n, ids)
  <2>1. Tree' = Kept(n) \cup N /\ DOMAIN children' = Kept(n) \cup N
    BY <1>1 DEF Tree
  <2>2. nodes' = [m \in Tree' |-> nodes'[m]] /\ children' = [m \in Tree' |-> children'[m]]
    BY <1>1, <2>1
  <2>3. \A m \in Kept(n) : nodes'[m] = nodes[m]
    BY <1>1, <1>6 DEF Kept
  <2>4. \A m \in N : nodes'[m] \in GenNode /\ (nodes'[m].type = "checkpoint" => ~ nodes'[m].branch)
    BY <1>1, <1>7
  <2>5. children'[n] = ids /\ \A m \in N : children'[m] = <<>>
    BY <1>1, <1>6
  <2>6. \A m \in Kept(n) \ {n} : children'[m] = children[m]
    BY <1>1, <1>6 DEF Kept
  <2> QED  BY <1>3, <2>1, <2>2, <2>3, <2>4, <2>5, <2>6 DEF Regrown, N
<1>11. Queued(n, ids)
  <2>1. batch' = ids /\ unjudged' \in Seq(N)
    BY <1>1, <1>8, <1>9 DEF judge
  <2>2. \A m \in N : nodes'[m] = new[m]
    BY <1>1
  <2>3. ToSet(unjudged') = IF lone THEN {} ELSE {m \in N : ~ new[m].branch /\ new[m].type # "checkpoint"}
    BY <1>1, <1>8, <1>9 DEF judge
  <2>4. \A m \in ToSet(unjudged') : nodes'[m].type # "checkpoint"
    BY <2>2, <2>3
  <2>5. /\ DOMAIN given' = {"large", "small", "asked", "demoted"}
        /\ given'.large = given.large \ Below(n)
        /\ given'.small = (given.small \ Below(n)) \cup IF lone THEN N ELSE {}
        /\ given'.asked = (given.asked \ Below(n)) \cup {n}
        /\ given'.demoted = given.demoted \ Below(n)
    BY <1>1
  <2>6. \A m \in N : \/ nodes'[m].type = "checkpoint" \/ nodes'[m].branch
                     \/ m \in ToSet(unjudged') \/ m \in given'.small
    BY <2>2, <2>3, <2>5
  <2> QED  BY <2>1, <2>4, <2>5, <2>6 DEF Queued, N
<1> QED  BY <1>10, <1>11

\* The tree stays one.
LEMMA RegrownShape ==
    ASSUME Shape, NEW n \in Tree, NEW ids, Regrown(n, ids)
    PROVE  Shape'
<1> DEFINE K == Kept(n)
           N == ToSet(ids)
           B == Below(n)
<1>1. /\ K \subseteq Tree /\ n \in K /\ Root \in K /\ B \subseteq Tree /\ K \cap B = {} /\ K \cup B = Tree
      /\ N \subseteq Ids \ Tree /\ Tree' = K \cup N
  <2>1. Root \notin B /\ n \notin B /\ B \subseteq Tree
    BY RootAbove DEF Below
  <2>2. ids \in Seq(Ids \ Tree) /\ Tree' = K \cup N
    BY DEF Regrown
  <2>3. N \subseteq Ids \ Tree
    BY <2>2 DEF ToSet
  <2> QED  BY <2>1, <2>2, <2>3 DEF Kept, Shape
<1>2. /\ \A m \in K : nodes'[m] = nodes[m]
      /\ \A m \in N : nodes'[m] \in GenNode
      /\ children'[n] = ids
      /\ \A m \in N : children'[m] = <<>>
      /\ \A m \in K \ {n} : children'[m] = children[m]
      /\ nodes' = [m \in Tree' |-> nodes'[m]] /\ children' = [m \in Tree' |-> children'[m]]
  BY DEF Regrown
<1>3. ASSUME NEW m \in K, m # n PROVE ToSet(children[m]) \subseteq K
  <2>1. children[m] \in Seq(Tree)
    BY <1>1 DEF Shape
  <2>2. ToSet(children[m]) \subseteq Tree
    BY <2>1 DEF ToSet
  <2>3. ASSUME NEW c \in ToSet(children[m]), c \in B PROVE FALSE
    BY <1>1, <1>3, <2>3, BelowParents
  <2> QED  BY <1>1, <2>2, <2>3
<1>4. ToSet(children[n]) \subseteq B \cup {n} /\ \A m \in B : ToSet(children[m]) \subseteq B \cup {n}
  BY BelowClosed DEF Closed
<1>5. /\ Lists(ids, N) /\ Lists(<<>>, {}) /\ ToSet(<<>>) = {}
      /\ ids \in Seq(N) /\ <<>> \in Seq(N)
  BY DEF Lists, ToSet, Regrown
<1>6. (nodes \in [Tree -> GenNode] /\ Root \in Tree /\ Tree \subseteq Ids /\ nodes[Root].type # "checkpoint")'
  <2>1. \A m \in Tree' : nodes'[m] \in GenNode
    BY <1>1, <1>2 DEF Shape
  <2>2. Root \in Tree' /\ Tree' \subseteq Ids /\ nodes'[Root].type # "checkpoint"
    BY <1>1, <1>2 DEF Shape
  <2>3. Root' = Root /\ Ids' = Ids /\ GenNode' = GenNode
    BY DEF Root, Ids, GenNode, Types
  <2>4. nodes' \in [Tree' -> GenNode]
    BY <1>2, <2>1
  <2> QED  BY <2>2, <2>3, <2>4
<1>7. ASSUME NEW m \in Tree'
      PROVE  /\ children'[m] \in Seq(Tree') /\ Lists(children'[m], ToSet(children'[m]))
             /\ m \in N => ToSet(children'[m]) = {}
             /\ m = n => ToSet(children'[m]) = N
             /\ m \in K \ {n} => ToSet(children'[m]) = ToSet(children[m]) /\ ToSet(children'[m]) \subseteq K
  <2>1. CASE m \in N
    <3>1. m \notin K
      BY <1>1, <2>1
    <3>2. <<>> \in Seq(Tree')
      OBVIOUS
    <3> QED  BY <1>1, <1>2, <1>5, <2>1, <3>1, <3>2
  <2>2. CASE m = n
    <3>1. ids \in Seq(Tree')
      BY <1>1, <1>5
    <3> QED  BY <1>1, <1>2, <1>5, <2>2, <3>1
  <2>3. CASE m \in K \ {n}
    <3>1. children[m] \in Seq(Tree) /\ Lists(children[m], ToSet(children[m])) /\ m \notin N
      BY <1>1, <2>3 DEF Shape
    <3>2. ToSet(children[m]) \subseteq K
      BY <1>3, <2>3
    <3>3. children[m] \in Seq(Tree')
      <4>1. children[m] \in Seq(ToSet(children[m]))
        BY <3>1 DEF Lists
      <4> QED  BY <1>1, <3>2, <4>1
    <3> QED  BY <1>2, <2>3, <3>1, <3>2, <3>3
  <2> QED  BY <1>1, <2>1, <2>2, <2>3
<1>8. \A p, q \in Tree' : \A m \in ToSet(children'[p]) : m \in ToSet(children'[q]) => p = q
  <2> SUFFICES ASSUME NEW p \in Tree', NEW q \in Tree', NEW m \in ToSet(children'[p]),
                      m \in ToSet(children'[q])
               PROVE  p = q
    OBVIOUS
  <2>1. p \notin N /\ q \notin N
    BY <1>7
  <2>2. CASE m \in N
    BY <1>1, <1>7, <2>1, <2>2
  <2>3. CASE m \notin N
    <3>1. p \in K \ {n} /\ q \in K \ {n}
      BY <1>1, <1>7, <2>1, <2>3
    <3>2. m \in ToSet(children[p]) /\ m \in ToSet(children[q]) /\ p \in Tree /\ q \in Tree
      BY <1>1, <1>7, <3>1
    <3> QED  BY <3>2 DEF Shape
  <2> QED  BY <2>2, <2>3
<1>9. \A p \in Tree' : Root \notin ToSet(children'[p])
  <2> SUFFICES ASSUME NEW p \in Tree', Root \in ToSet(children'[p]) PROVE FALSE
    OBVIOUS
  <2>1. p \notin N /\ p # n
    BY <1>1, <1>7
  <2>2. p \in K \ {n} /\ Root \in ToSet(children[p]) /\ p \in Tree
    BY <1>1, <1>7, <2>1
  <2> QED  BY <2>2 DEF Shape
<1>10. ASSUME NEW S \in SUBSET Tree', Root \in S, \A m \in S : ToSet(children'[m]) \subseteq S
       PROVE  S = Tree'
  <2>1. \A m \in S \cap K : m # n => ToSet(children[m]) \subseteq S \cap K
    BY <1>3, <1>7, <1>10
  <2>2. n \in S
    <3> SUFFICES ASSUME n \notin S PROVE FALSE
      OBVIOUS
    <3>1. Closed(S \cap K) /\ S \cap K \in SUBSET Tree /\ Root \in S \cap K
      BY <1>1, <1>10, <2>1 DEF Closed
    <3>2. S \cap K = Tree
      BY <3>1 DEF Shape
    <3> QED  BY <3>2
  <2>3. N \subseteq S
    BY <1>1, <1>7, <1>10, <2>2
  <2>4. Closed((S \cap K) \cup B)
    <3>1. ASSUME NEW m \in (S \cap K) \cup B PROVE ToSet(children[m]) \subseteq (S \cap K) \cup B
      <4>1. n \in S \cap K
        BY <1>1, <2>2
      <4>2. CASE m \in B
        BY <1>4, <4>1, <4>2
      <4>3. CASE m \in S \cap K /\ m # n
        BY <2>1, <4>3
      <4>4. CASE m = n
        BY <1>4, <4>1, <4>4
      <4> QED  BY <4>2, <4>3, <4>4
    <3> QED  BY <3>1 DEF Closed
  <2>5. (S \cap K) \cup B \in SUBSET Tree /\ Root \in (S \cap K) \cup B
    BY <1>1, <1>10
  <2>6. (S \cap K) \cup B = Tree
    BY <2>4, <2>5 DEF Shape
  <2>7. K \subseteq S
    BY <1>1, <2>6
  <2> QED  BY <1>1, <2>3, <2>7
<1>11. \A S \in SUBSET Tree' : Root \in S /\ Closed(S)' => S = Tree'
  BY <1>10 DEF Closed
<1>12. children' \in [Tree' -> Seq(Tree')] /\ \A m \in Tree' : Lists(children'[m], ToSet(children'[m]))
  BY <1>2, <1>7
<1>13. Root' = Root
  BY DEF Root
<1> HIDE DEF K, N, B
<1> QED  BY <1>6, <1>8, <1>9, <1>11, <1>12, <1>13 DEF Shape

-----------------------------------------------------------------------------
(* The operations.                                                         *)

\* A node an answer was asked for now has one, and the new nodes wait for verdicts.
LEMMA ExpandKeeps == ASSUME GenInv, Expand PROVE GenInv'
<1> DEFINE n == Head(calls)
<1>1. PICK made \in Products[facts] : Room(Len(made)) /\ Grow(n, made)
  BY DEF Expand
<1>2. /\ phase = "expanding" /\ phase' = "judging" /\ UNCHANGED <<calls, facts, entry>>
  BY DEF Expand
<1>3. Shape /\ Work /\ Judged /\ facts \in Facts
  BY DEF GenInv, Work
<1>4. made \in Seq(Sprout)
  BY <1>3, ProductsType
<1>5. /\ calls \in Seq(Tree) /\ calls # <<>> /\ n \in ToSet(calls) /\ ToSet(calls) \subseteq Tree
      /\ n \in Tree
  <2>1. calls \in Seq(Tree) /\ calls # <<>>
    BY <1>2 DEF GenInv, Work
  <2>2. n = calls[1] /\ 1 \in DOMAIN calls
    BY <2>1
  <2> QED  BY <2>1, <2>2 DEF ToSet
<1>6. PICK ids : Regrown(n, ids) /\ Queued(n, ids)
  <2> HIDE DEF n
  <2> QED  BY <1>1, <1>3, <1>4, <1>5, GrowOf
<1>7. Shape'
  BY <1>3, <1>5, <1>6, RegrownShape
<1>8. /\ ToSet(ids) \subseteq Ids \ Tree /\ n \in Kept(n) /\ Kept(n) \subseteq Tree
      /\ Tree' = Kept(n) \cup ToSet(ids) /\ Kept(n) = Tree \ Below(n)
      /\ \A m \in Kept(n) : nodes'[m] = nodes[m]
      /\ children'[n] = ids
      /\ \A m \in ToSet(ids) : children'[m] = <<>>
      /\ \A m \in Kept(n) \ {n} : children'[m] = children[m]
  <2>1. ids \in Seq(Ids \ Tree)
    BY <1>6 DEF Regrown
  <2>2. ToSet(ids) \subseteq Ids \ Tree
    BY <2>1 DEF ToSet
  <2> QED  BY <1>5, <1>6, <2>2 DEF Regrown, Kept, Below
<1>9. ToSet(calls) \subseteq Kept(n)
  <2>1. CASE Len(calls) = 1
    <3>1. ToSet(calls) = {n}
      BY <1>5, <2>1 DEF ToSet
    <3> QED  BY <1>8, <3>1
  <2>2. CASE \A m \in ToSet(calls) : children[m] = <<>>
    <3>1. Below(n) = {}
      BY <1>5, <2>2, BelowChildless
    <3> QED  BY <1>5, <3>1 DEF Kept
  <2> QED  BY <1>2, <2>1, <2>2 DEF GenInv, Work
<1>10. /\ batch' = ids /\ Lists(ids, ToSet(ids)) /\ unjudged' \in Seq(ToSet(ids))
       /\ ToSet(unjudged') \subseteq ToSet(ids)
  <2>1. batch' = ids /\ Lists(ids, ToSet(ids)) /\ unjudged' \in Seq(ToSet(ids))
    BY <1>6 DEF Queued, Regrown
  <2> QED  BY <2>1 DEF ToSet
<1>11. ASSUME calls # <<>>, NEW m \in ToSet(Tail(calls))
       PROVE  children'[m] = <<>> /\ m \notin ToSet(ids)
  <2>1. PICK i \in 1 .. Len(calls) - 1 : m = calls[i + 1]
    BY <1>5 DEF ToSet
  <2>2. i + 1 \in 1 .. Len(calls) /\ 1 \in 1 .. Len(calls) /\ Len(calls) # 1 /\ i + 1 # 1
    <3>1. \A l \in Nat : \A j \in 1 .. l - 1 : j + 1 \in 1 .. l /\ 1 \in 1 .. l /\ l # 1 /\ j + 1 # 1
      OBVIOUS
    <3>2. Len(calls) \in Nat
      BY <1>5
    <3> QED  BY <3>1, <3>2, Zenon
  <2>3. m # n
    <3>1. Lists(calls, ToSet(calls))
      BY DEF GenInv, Work
    <3> QED  BY <1>5, <2>1, <2>2, <3>1 DEF Lists
  <2>4. m \in ToSet(calls)
    BY <1>5, <2>1, <2>2 DEF ToSet
  <2>5. children[m] = <<>>
    BY <1>2, <2>2, <2>4 DEF GenInv, Work
  <2> QED  BY <1>8, <1>9, <2>3, <2>4, <2>5
<1>12. Work'
  <2>1. calls' \in Seq(Tree') /\ Lists(calls', ToSet(calls'))
    <3>1. Lists(calls, ToSet(calls))
      BY DEF GenInv, Work
    <3>2. calls \in Seq(ToSet(calls))
      BY <3>1 DEF Lists
    <3>3. calls \in Seq(Tree')
      BY <1>8, <1>9, <3>2
    <3> QED  BY <1>2, <3>1, <3>3
  <2>2. batch' \in Seq(Tree') /\ unjudged' \in Seq(Tree')
    <3>1. ids \in Seq(ToSet(ids))
      BY <1>10 DEF Lists
    <3> QED  BY <1>8, <1>10, <3>1
  <2>3. \A m \in ToSet(batch') : children'[m] = <<>>
    BY <1>8, <1>10
  <2>4. calls' # <<>> => \A m \in ToSet(Tail(calls')) : children'[m] = <<>> /\ m \notin ToSet(batch')
    BY <1>2, <1>10, <1>11
  <2>5. Facts' = Facts
    BY DEF Facts
  <2> QED  BY <1>2, <1>3, <1>10, <2>1, <2>2, <2>3, <2>4, <2>5 DEF Work
<1>13. Judged'
  <2>1. /\ DOMAIN given' = {"large", "small", "asked", "demoted"}
        /\ given'.large = given.large \ Below(n)
        /\ given.small \ Below(n) \subseteq given'.small
        /\ given'.asked = (given.asked \ Below(n)) \cup {n}
        /\ given'.demoted = given.demoted \ Below(n)
        /\ \A m \in ToSet(unjudged') : nodes'[m].type # "checkpoint"
        /\ \A m \in ToSet(ids) : \/ nodes'[m].type = "checkpoint" \/ nodes'[m].branch
                                 \/ m \in ToSet(unjudged') \/ m \in given'.small
    BY <1>6 DEF Queued
  <2>2. \A m \in ToSet(ids) : nodes'[m].type = "checkpoint" => ~ nodes'[m].branch
    BY <1>6 DEF Regrown
  <2>3. given.large \subseteq Tree /\ batch = <<>> /\ unjudged = <<>> /\ ToSet(<<>>) = {}
    BY <1>2 DEF GenInv, Judged, Work, ToSet
  <2>4. given'.large \subseteq Tree'
    BY <1>8, <2>1, <2>3
  <2>5. ASSUME NEW m \in Tree', nodes'[m].type = "checkpoint"
        PROVE  ~ nodes'[m].branch /\ m \notin given'.large /\ (children'[m] # <<>> => m \in given'.asked)
    <3>1. CASE m \in ToSet(ids)
      BY <1>8, <2>1, <2>2, <2>3, <2>5, <3>1
    <3>2. CASE m \in Kept(n)
      <4>1. m \in Tree /\ nodes[m].type = "checkpoint"
        BY <1>8, <2>5, <3>2
      <4>2. ~ nodes[m].branch /\ m \notin given.large /\ (children[m] # <<>> => m \in given.asked)
        BY <1>2, <4>1 DEF GenInv, Judged
      <4> QED  BY <1>8, <2>1, <3>2, <4>2
    <3> QED  BY <1>8, <3>1, <3>2
  <2>6. ASSUME NEW m \in Tree', children'[m] = <<>>
        PROVE  \/ nodes'[m].type = "checkpoint" \/ m \in given'.small \cup given'.asked \cup given'.demoted
               \/ m \in ToSet(calls') \cup ToSet(unjudged')
               \/ m \in ToSet(batch') /\ nodes'[m].branch
    <3>1. CASE m \in ToSet(ids)
      BY <1>10, <2>1, <3>1
    <3>2. CASE m = n
      BY <2>1, <3>2
    <3>3. CASE m \in Kept(n) \ {n}
      <4>1. m \in Tree /\ children[m] = <<>>
        BY <1>8, <2>6, <3>3
      <4>2. \/ nodes[m].type = "checkpoint" \/ m \in given.small \cup given.asked \cup given.demoted
            \/ m \in ToSet(calls)
        BY <1>2, <2>3, <4>1 DEF GenInv, Judged
      <4> QED  BY <1>2, <1>8, <2>1, <3>3, <4>2
    <3> QED  BY <1>8, <3>1, <3>2, <3>3
  <2>7. calls' # <<>> => Head(calls') \in given'.asked
    BY <1>2, <2>1
  <2> QED  BY <2>1, <2>4, <2>5, <2>6, <2>7 DEF Judged
<1> QED  BY <1>7, <1>12, <1>13 DEF GenInv

\* Changing what is known of nodes leaves the tree.
LEMMA ShapeSame ==
    ASSUME Shape, nodes' \in [Tree -> GenNode], nodes'[Root].type # "checkpoint", UNCHANGED children
    PROVE  Shape' /\ Tree' = Tree
<1>1. Tree' = Tree /\ Root' = Root
  BY DEF Tree, Root
<1>2. \A S : Closed(S)' <=> Closed(S)
  BY DEF Closed
<1> QED  BY <1>1, <1>2 DEF Shape

\* A list and the set of what it holds.
LEMMA ListsSet ==
    ASSUME NEW s, NEW D, Lists(s, D)
    PROVE  ToSet(s) = D
BY DEF Lists, ToSet

LEMMA NoneAndOne ==
    ASSUME NEW x
    PROVE  /\ Lists(<<>>, {}) /\ ToSet(<<>>) = {}
           /\ Lists(<<x>>, {x}) /\ ToSet(<<x>>) = {x}
<1>1. Lists(<<>>, {})
  BY DEF Lists
<1>2. Lists(<<x>>, {x})
  <2>1. <<x>> \in Seq({x}) /\ Len(<<x>>) = 1 /\ <<x>>[1] = x
    OBVIOUS
  <2> QED  BY <2>1 DEF Lists
<1> QED  BY <1>1, <1>2, ListsSet

\* What comes after the first of a list.
LEMMA TailLists ==
    ASSUME NEW s, NEW D, Lists(s, D), s # <<>>
    PROVE  /\ Lists(Tail(s), ToSet(Tail(s)))
           /\ ToSet(s) = {Head(s)} \cup ToSet(Tail(s))
           /\ Head(s) \notin ToSet(Tail(s))
<1> DEFINE t == Tail(s)
<1>1. s \in Seq(D) /\ Len(s) \in Nat /\ Len(s) > 0 /\ Head(s) = s[1] /\ 1 \in 1 .. Len(s)
  BY DEF Lists
<1>2. t \in Seq(D) /\ Len(t) = Len(s) - 1 /\ \A k \in 1 .. Len(t) : t[k] = s[k + 1]
  BY <1>1
<1> HIDE DEF t
<1>3. Len(t) \in Nat /\ DOMAIN t = 1 .. Len(t) /\ DOMAIN s = 1 .. Len(s)
  BY <1>1, <1>2
<1>4. ToSet(t) = {t[k] : k \in 1 .. Len(t)} /\ ToSet(s) = {s[k] : k \in 1 .. Len(s)}
  BY <1>3 DEF ToSet
<1>5. /\ \A k \in 1 .. Len(t) : k + 1 \in 1 .. Len(s) /\ k + 1 # 1
      /\ \A k \in 1 .. Len(s) : k # 1 => k - 1 \in 1 .. Len(t) /\ k - 1 + 1 = k
      /\ \A j, k \in 1 .. Len(t) : j + 1 = k + 1 => j = k
  <2>1. Len(s) \in Nat /\ Len(t) = Len(s) - 1
    BY <1>1, <1>2
  <2> QED  BY <2>1
<1>6. \A i, j \in 1 .. Len(s) : s[i] = s[j] => i = j
  BY DEF Lists
<1>7. Head(s) \notin ToSet(t)
  BY <1>1, <1>2, <1>4, <1>5, <1>6
<1>8. ToSet(s) = {Head(s)} \cup ToSet(t)
  <2>1. ASSUME NEW k \in 1 .. Len(s), k # 1 PROVE s[k] \in ToSet(t)
    <3>1. k - 1 \in 1 .. Len(t) /\ k - 1 + 1 = k
      BY <1>5, <2>1
    <3>2. t[k - 1] = s[k]
      BY <1>2, <3>1
    <3> QED  BY <1>4, <3>1, <3>2
  <2>2. \A k \in 1 .. Len(t) : t[k] \in ToSet(s)
    BY <1>2, <1>4, <1>5
  <2>3. Head(s) \in ToSet(s)
    BY <1>1, <1>4
  <2> QED  BY <1>1, <1>4, <2>1, <2>2, <2>3
<1>9. Lists(t, ToSet(t))
  <2>1. t \in Seq(ToSet(t))
    <3>1. t = [k \in 1 .. Len(t) |-> t[k]]
      BY <1>2, <1>3
    <3> QED  BY <1>3, <1>4, <3>1
  <2>2. \A j, k \in 1 .. Len(t) : t[j] = t[k] => j = k
    <3> SUFFICES ASSUME NEW j \in 1 .. Len(t), NEW k \in 1 .. Len(t), t[j] = t[k] PROVE j = k
      OBVIOUS
    <3>1. s[j + 1] = s[k + 1] /\ j + 1 \in 1 .. Len(s) /\ k + 1 \in 1 .. Len(s)
      BY <1>2, <1>5
    <3>2. j + 1 = k + 1
      BY <1>6, <3>1, Zenon
    <3> QED  BY <1>5, <3>2
  <2> QED  BY <1>4, <2>1, <2>2 DEF Lists
<1> QED  BY <1>7, <1>8, <1>9 DEF t

\* The plan begins with a root, to be broken down.
LEMMA InitInv == ASSUME GenInit PROVE GenInv
<1>1. /\ Tree = {Root} /\ children[Root] = <<>> /\ calls = <<Root>> /\ batch = <<>> /\ unjudged = <<>>
      /\ nodes[Root] = [type |-> "branch", branch |-> TRUE, reason |-> FALSE]
      /\ children = [n \in {Root} |-> <<>>] /\ given = Ungiven /\ facts \in Facts /\ phase = "expanding"
      /\ nodes = [n \in {Root} |-> nodes[Root]]
  BY DEF GenInit, Tree
<1>2. /\ Lists(<<>>, {}) /\ ToSet(<<>>) = {} /\ Lists(<<Root>>, {Root}) /\ ToSet(<<Root>>) = {Root}
  BY NoneAndOne
<1>3. Shape
  <2>1. nodes[Root] \in GenNode
    BY <1>1 DEF GenNode, Types
  <2>2. nodes \in [Tree -> GenNode]
    BY <1>1, <2>1
  <2>3. Root \in Tree /\ Tree \subseteq Ids
    <3>1. MaxNodes \in Nat
      BY PlanGenerationAssumption
    <3> QED  BY <1>1, <3>1 DEF Ids, Root
  <2>4. children \in [Tree -> Seq(Tree)] /\ \A n \in Tree : children[n] = <<>>
    <3>1. <<>> \in Seq(Tree)
      OBVIOUS
    <3> QED  BY <1>1, <3>1
  <2>5. nodes[Root].type # "checkpoint"
    BY <1>1
  <2>6. \A n \in Tree : ToSet(children[n]) = {} /\ Lists(children[n], ToSet(children[n]))
    <3> HIDE DEF Tree
    <3> QED  BY <1>2, <2>4
  <2>7. \A S \in SUBSET Tree : Root \in S => S = Tree
    BY <1>1
  <2> QED  BY <2>2, <2>3, <2>4, <2>5, <2>6, <2>7 DEF Shape
<1>4. Work
  <2>1. <<Root>> \in Seq(Tree) /\ <<>> \in Seq(Tree) /\ <<Root>> # <<>> /\ Len(<<Root>>) = 1
    BY <1>1
  <2> QED  BY <1>1, <1>2, <2>1 DEF Work
<1>5. Judged
  BY <1>1, <1>2 DEF Judged, Ungiven
<1> QED  BY <1>3, <1>4, <1>5 DEF GenInv

\* The next leaf has its verdict.
LEMMA JudgeKeeps ==
    ASSUME GenInv, NEW breakdown \in BOOLEAN, NEW reason \in BOOLEAN, Judge(breakdown, reason)
    PROVE  GenInv'
<1> DEFINE n == Head(unjudged)
<1>1. /\ phase = "judging" /\ unjudged # <<>> /\ unjudged' = Tail(unjudged)
      /\ nodes' = IF breakdown
                  THEN [nodes EXCEPT ![n].branch = TRUE, ![n].reason = reason] ELSE nodes
      /\ given' = IF breakdown THEN [given EXCEPT !.large = @ \cup {n}]
                  ELSE [given EXCEPT !.small = @ \cup {n}]
      /\ UNCHANGED <<children, calls, batch, facts, entry, phase>>
  BY DEF Judge
<1>2. Shape /\ Work /\ Judged
  BY DEF GenInv
<1>3. /\ unjudged \in Seq(Tree) /\ batch \in Seq(Tree) /\ ToSet(unjudged) \subseteq ToSet(batch)
      /\ Lists(batch, ToSet(batch)) /\ calls \in Seq(Tree) /\ facts \in Facts
  BY <1>2 DEF Work
<1>4. /\ n \in Tree /\ Tail(unjudged) \in Seq(Tree) /\ ToSet(unjudged) = {n} \cup ToSet(Tail(unjudged))
  <2>1. unjudged \in Seq(Tree) /\ unjudged # <<>>
    BY <1>1, <1>3
  <2>2. ToSet(unjudged) = {unjudged[i] : i \in 1 .. Len(unjudged)}
    BY <2>1 DEF ToSet
  <2>3. Tail(unjudged) \in Seq(Tree) /\ Len(Tail(unjudged)) = Len(unjudged) - 1 /\ Len(unjudged) \in Nat
        /\ Len(unjudged) > 0 /\ n = unjudged[1]
    BY <2>1
  <2>4. \A i \in 1 .. Len(unjudged) - 1 : Tail(unjudged)[i] = unjudged[i + 1]
    BY <2>1
  <2>5. ToSet(Tail(unjudged)) = {Tail(unjudged)[i] : i \in 1 .. Len(unjudged) - 1}
    <3>1. DOMAIN Tail(unjudged) = 1 .. Len(unjudged) - 1
      BY <2>3
    <3> QED  BY <3>1 DEF ToSet
  <2>6. /\ \A i \in 1 .. Len(unjudged) - 1 : i + 1 \in 1 .. Len(unjudged)
        /\ \A i \in 1 .. Len(unjudged) : i # 1 => i - 1 \in 1 .. Len(unjudged) - 1 /\ i - 1 + 1 = i
        /\ 1 \in 1 .. Len(unjudged)
    <3>1. Len(unjudged) \in Nat /\ Len(unjudged) > 0
      BY <2>3
    <3> QED  BY <3>1
  <2>7. \A i \in 1 .. Len(unjudged) : unjudged[i] = n \/ unjudged[i] \in ToSet(Tail(unjudged))
    BY <2>3, <2>4, <2>5, <2>6
  <2>8. \A i \in 1 .. Len(unjudged) - 1 : Tail(unjudged)[i] \in ToSet(unjudged)
    BY <2>2, <2>4, <2>6
  <2>9. n \in ToSet(unjudged) /\ n \in Tree
    BY <2>1, <2>2, <2>3, <2>6
  <2> QED  BY <2>2, <2>3, <2>5, <2>7, <2>8, <2>9
<1>5. n \in ToSet(batch) /\ nodes[n].type # "checkpoint"
  BY <1>1, <1>2, <1>3, <1>4 DEF Judged
<1> HIDE DEF n
<1>6. /\ nodes' \in [Tree -> GenNode] /\ \A m \in Tree : nodes'[m].type = nodes[m].type
      /\ \A m \in Tree \ {n} : nodes'[m] = nodes[m]
      /\ breakdown => nodes'[n].branch
      /\ ~ breakdown => nodes' = nodes
  <2>1. nodes \in [Tree -> GenNode] /\ nodes[n] \in GenNode
    BY <1>2, <1>4 DEF Shape
  <2>2. CASE breakdown
    <3> DEFINE x == [nodes[n] EXCEPT !.branch = TRUE, !.reason = reason]
    <3>1. x \in GenNode /\ x.type = nodes[n].type /\ x.branch = TRUE
      BY <2>1 DEF GenNode
    <3>2. nodes' = [nodes EXCEPT ![n] = x]
      BY <1>1, <1>4, <2>1, <2>2
    <3> HIDE DEF x
    <3> QED  BY <1>4, <2>1, <2>2, <3>1, <3>2
  <2>3. CASE ~ breakdown
    BY <1>1, <2>1, <2>3
  <2> QED  BY <2>2, <2>3
<1>7. Shape' /\ Tree' = Tree
  <2>1. Root \in Tree /\ nodes[Root].type # "checkpoint"
    BY <1>2 DEF Shape
  <2> QED  BY <1>1, <1>2, <1>6, <2>1, ShapeSame
<1>8. Work'
  <2>1. Facts' = Facts
    BY DEF Facts
  <2>2. phase' = "judging"
    BY <1>1
  <2>3. ToSet(unjudged') \subseteq ToSet(batch')
    BY <1>1, <1>3, <1>4
  <2> QED  BY <1>1, <1>2, <1>3, <1>4, <1>7, <2>1, <2>2, <2>3 DEF Work
<1>9. /\ DOMAIN given' = {"large", "small", "asked", "demoted"}
      /\ given'.asked = given.asked /\ given'.demoted = given.demoted
      /\ given.small \subseteq given'.small /\ given'.large \subseteq given.large \cup {n}
      /\ ~ breakdown => n \in given'.small
  <2>1. DOMAIN given = {"large", "small", "asked", "demoted"}
    BY <1>2 DEF Judged
  <2>2. CASE breakdown
    BY <1>1, <2>1, <2>2
  <2>3. CASE ~ breakdown
    BY <1>1, <2>1, <2>3
  <2> QED  BY <2>2, <2>3
<1>10. Judged'
  <2>1. given'.large \subseteq Tree'
    BY <1>2, <1>4, <1>7, <1>9 DEF Judged
  <2>2. ASSUME NEW m \in Tree, nodes'[m].type = "checkpoint"
        PROVE  ~ nodes'[m].branch /\ m \notin given'.large /\ (children'[m] # <<>> => m \in given'.asked)
    <3>1. m # n /\ nodes[m].type = "checkpoint" /\ nodes'[m] = nodes[m]
      BY <1>5, <1>6, <2>2
    <3>2. ~ nodes[m].branch /\ m \notin given.large /\ (children[m] # <<>> => m \in given.asked)
      BY <1>1, <1>2, <3>1 DEF Judged
    <3> QED  BY <1>1, <1>9, <3>1, <3>2
  <2>3. ASSUME NEW m \in ToSet(unjudged') PROVE nodes'[m].type # "checkpoint"
    <3>1. m \in ToSet(unjudged)
      BY <1>1, <1>4, <2>3
    <3>2. m \in Tree
      BY <1>3, <3>1 DEF ToSet
    <3>3. nodes[m].type # "checkpoint"
      BY <1>1, <1>2, <3>1 DEF Judged
    <3> QED  BY <1>6, <3>2, <3>3
  <2>4. calls' # <<>> => Head(calls') \in given'.asked
    BY <1>1, <1>2, <1>9 DEF Judged
  <2>5. ASSUME NEW m \in Tree, children'[m] = <<>>
        PROVE  \/ nodes'[m].type = "checkpoint" \/ m \in given'.small \cup given'.asked \cup given'.demoted
               \/ m \in ToSet(calls') \cup ToSet(unjudged')
               \/ m \in ToSet(batch') /\ nodes'[m].branch
    <3>1. CASE m = n
      BY <1>1, <1>5, <1>6, <1>9, <3>1
    <3>2. CASE m # n
      <4>1. \/ nodes[m].type = "checkpoint" \/ m \in given.small \cup given.asked \cup given.demoted
            \/ m \in ToSet(calls) \cup ToSet(unjudged)
            \/ m \in ToSet(batch) /\ nodes[m].branch
        BY <1>1, <1>2, <2>5 DEF Judged
      <4>2. nodes'[m] = nodes[m]
        BY <1>6, <3>2
      <4> QED  BY <1>1, <1>4, <1>9, <3>2, <4>1, <4>2
    <3> QED  BY <3>1, <3>2
  <2> QED  BY <1>7, <1>9, <2>1, <2>2, <2>3, <2>4, <2>5 DEF Judged
<1> QED  BY <1>7, <1>8, <1>10 DEF GenInv

\* The branches of the answer come before the calls that wait.
LEMMA DescendKeeps == ASSUME GenInv, Descend PROVE GenInv'
<1> DEFINE I     == {i \in DOMAIN batch : nodes[batch[i]].branch /\ nodes[batch[i]].type # "checkpoint"}
           first == Picked(batch, I)
           rest  == IF calls = <<>> THEN <<>> ELSE Tail(calls)
<1>1. /\ phase = "judging" /\ unjudged = <<>> /\ batch' = <<>> /\ calls' = first \o rest
      /\ phase' = IF calls' = <<>> THEN "finishing" ELSE "expanding"
      /\ UNCHANGED <<nodes, children, unjudged, facts, entry, given>>
  BY DEF Descend
<1>2. Shape /\ Work /\ Judged
  BY DEF GenInv
<1>3. /\ batch \in Seq(Tree) /\ Lists(batch, ToSet(batch)) /\ calls \in Seq(Tree) /\ Lists(calls, ToSet(calls))
      /\ \A m \in ToSet(batch) : children[m] = <<>>
      /\ calls # <<>> => \A m \in ToSet(Tail(calls)) : children[m] = <<>> /\ m \notin ToSet(batch)
      /\ facts \in Facts
  BY <1>1, <1>2 DEF Work
<1>4. Shape' /\ Tree' = Tree
  <2>1. nodes \in [Tree -> GenNode] /\ nodes[Root].type # "checkpoint"
    BY <1>2 DEF Shape
  <2> QED  BY <1>1, <1>2, <2>1, ShapeSame
<1>5. ToSet(<<>>) = {} /\ Lists(<<>>, {})
  BY NoneAndOne
<1> DEFINE F == {batch[i] : i \in I}
<1>6. DOMAIN batch = 1 .. Len(batch) /\ I \in SUBSET (1 .. Len(batch))
  BY <1>3
<1>7. /\ Lists(first, F) /\ F \subseteq ToSet(batch) /\ F \subseteq Tree
      /\ \A m \in ToSet(batch) : nodes[m].branch /\ nodes[m].type # "checkpoint" => m \in F
  <2>1. Lists(first, F)
    <3> HIDE DEF I
    <3> QED  BY <1>3, <1>6, PickedLists
  <2> QED  BY <1>3, <2>1 DEF ToSet
<1>8. /\ Lists(rest, ToSet(rest)) /\ ToSet(rest) \subseteq ToSet(calls)
      /\ \A m \in ToSet(rest) : children[m] = <<>> /\ m \notin ToSet(batch)
      /\ calls # <<>> => ToSet(calls) = {Head(calls)} \cup ToSet(rest)
  <2>1. CASE calls = <<>>
    BY <1>5, <2>1
  <2>2. CASE calls # <<>>
    BY <1>3, <2>2, TailLists
  <2> QED  BY <2>1, <2>2
<1> HIDE DEF first, rest, F, I
<1>9. Lists(calls', F \cup ToSet(rest)) /\ ToSet(calls') = F \cup ToSet(rest)
  <2>1. F \cap ToSet(rest) = {}
    BY <1>7, <1>8
  <2>2. Lists(first \o rest, F \cup ToSet(rest))
    BY <1>7, <1>8, <2>1, ConcatLists
  <2> QED  BY <1>1, <2>2, ListsSet
<1>10. Work'
  <2>1. calls' \in Seq(Tree')
    <3>1. F \cup ToSet(rest) \subseteq Tree
      <4>1. ToSet(calls) \subseteq Tree
        BY <1>3 DEF ToSet
      <4> QED  BY <1>7, <1>8, <4>1
    <3>2. calls' \in Seq(F \cup ToSet(rest))
      BY <1>9 DEF Lists
    <3> QED  BY <1>4, <3>1, <3>2
  <2>2. \A m \in ToSet(calls') : children'[m] = <<>>
    BY <1>1, <1>3, <1>7, <1>8, <1>9
  <2>3. phase' \in {"expanding", "finishing"} /\ (phase' = "expanding" => calls' # <<>>)
        /\ (phase' = "finishing" => calls' = <<>>)
    BY <1>1
  <2>4. <<>> \in Seq(Tree')
    OBVIOUS
  <2>5. Facts' = Facts
    BY DEF Facts
  <2> QED  BY <1>1, <1>3, <1>5, <1>9, <2>1, <2>2, <2>3, <2>4, <2>5 DEF Work
<1>11. Judged'
  <2>1. /\ DOMAIN given = {"large", "small", "asked", "demoted"} /\ given.large \subseteq Tree
        /\ \A n \in Tree : nodes[n].type = "checkpoint" =>
              /\ ~ nodes[n].branch /\ n \notin given.large
              /\ children[n] # <<>> => n \in given.asked
        /\ calls # <<>> => Head(calls) \in given.asked
    BY <1>1, <1>2 DEF Judged
  <2>2. ASSUME NEW m \in Tree, children[m] = <<>>
        PROVE  \/ nodes[m].type = "checkpoint" \/ m \in given.small \cup given.asked \cup given.demoted
               \/ m \in ToSet(calls')
    <3>1. \/ nodes[m].type = "checkpoint" \/ m \in given.small \cup given.asked \cup given.demoted
          \/ m \in ToSet(calls) \cup ToSet(unjudged)
          \/ m \in ToSet(batch) /\ nodes[m].branch
      BY <1>1, <1>2, <2>2 DEF Judged
    <3>2. CASE m \in ToSet(calls)
      <4>1. calls # <<>>
        BY <1>5, <3>2
      <4> QED  BY <1>8, <1>9, <2>1, <3>2, <4>1
    <3>3. CASE m \in ToSet(batch) /\ nodes[m].branch
      BY <1>7, <1>9, <3>3
    <3> QED  BY <1>1, <1>5, <3>1, <3>2, <3>3
  <2>3. phase' # "judging"
    BY <1>1
  <2> QED  BY <1>1, <1>4, <1>5, <2>1, <2>2, <2>3 DEF Judged
<1> QED  BY <1>4, <1>10, <1>11 DEF GenInv

\* When an operation ends, what it found to be no checkpoint becomes a leaf.
LEMMA FinishKeeps == ASSUME GenInv, Finish PROVE GenInv'
<1>1. PICK leafs : nodes' = Demoted(leafs) /\ given' = [given EXCEPT !.demoted = @ \cup leafs]
  BY DEF Finish
<1>2. /\ phase = "finishing" /\ phase' = "ready" /\ facts' = "unknown"
      /\ UNCHANGED <<children, calls, batch, unjudged, entry>>
  BY DEF Finish
<1>3. Shape /\ Work /\ Judged
  BY DEF GenInv
<1>4. nodes \in [Tree -> GenNode] /\ Root \in Tree
  BY <1>3 DEF Shape
<1>5. ASSUME NEW m \in Tree
      PROVE  /\ nodes'[m] \in GenNode
             /\ m \in leafs => nodes'[m].type = "leaf"
             /\ m \notin leafs => nodes'[m] = nodes[m]
  <2>1. nodes'[m] = IF m \in leafs THEN [nodes[m] EXCEPT !.type = "leaf", !.branch = FALSE] ELSE nodes[m]
    BY <1>1 DEF Demoted
  <2>2. nodes[m] \in GenNode
    BY <1>4
  <2>3. [nodes[m] EXCEPT !.type = "leaf", !.branch = FALSE] \in GenNode
    BY <2>2 DEF GenNode, Types
  <2>4. [nodes[m] EXCEPT !.type = "leaf", !.branch = FALSE].type = "leaf"
    BY <2>2 DEF GenNode
  <2> QED  BY <2>1, <2>2, <2>3, <2>4
<1>6. nodes' \in [Tree -> GenNode]
  <2>1. nodes' = [m \in Tree |-> nodes'[m]]
    BY <1>1 DEF Demoted
  <2> QED  BY <1>5, <2>1
<1>7. Shape' /\ Tree' = Tree
  <2>1. nodes'[Root].type # "checkpoint"
    BY <1>3, <1>4, <1>5 DEF Shape
  <2> QED  BY <1>2, <1>3, <1>6, <2>1, ShapeSame
<1>8. Work'
  <2>1. Facts' = Facts /\ facts' \in Facts
    BY <1>2 DEF Facts
  <2> QED  BY <1>2, <1>3, <1>7, <2>1 DEF Work
<1>9. /\ given'.large = given.large /\ given'.small = given.small /\ given'.asked = given.asked
      /\ given'.demoted = given.demoted \cup leafs
      /\ DOMAIN given' = {"large", "small", "asked", "demoted"}
  <2>1. DOMAIN given = {"large", "small", "asked", "demoted"}
    BY <1>3 DEF Judged
  <2> QED  BY <1>1, <2>1
<1>10. calls = <<>> /\ unjudged = <<>> /\ batch = <<>> /\ ToSet(<<>>) = {}
  BY <1>2, <1>3, NoneAndOne DEF Work
<1>11. Judged'
  <2>1. ASSUME NEW m \in Tree, nodes'[m].type = "checkpoint"
        PROVE  ~ nodes'[m].branch /\ m \notin given'.large /\ (children'[m] # <<>> => m \in given'.asked)
    <3>1. nodes'[m] = nodes[m]
      BY <1>5, <2>1
    <3>2. ~ nodes[m].branch /\ m \notin given.large /\ (children[m] # <<>> => m \in given.asked)
      BY <1>2, <1>3, <2>1, <3>1 DEF Judged
    <3> QED  BY <1>2, <1>9, <3>1, <3>2
  <2>2. ASSUME NEW m \in Tree, children'[m] = <<>>
        PROVE  nodes'[m].type = "checkpoint" \/ m \in given'.small \cup given'.asked \cup given'.demoted
    <3>1. nodes[m].type = "checkpoint" \/ m \in given.small \cup given.asked \cup given.demoted
      BY <1>2, <1>3, <1>10, <2>2 DEF Judged
    <3> QED  BY <1>5, <1>9, <3>1
  <2>3. given.large \subseteq Tree /\ phase' = "ready"
    BY <1>2, <1>3 DEF Judged
  <2> QED  BY <1>2, <1>7, <1>9, <1>10, <2>1, <2>2, <2>3 DEF Judged
<1> QED  BY <1>7, <1>8, <1>11 DEF GenInv

\* When the planner's call raises, the tree is as it was.
LEMMA FailKeeps == ASSUME GenInv, PlannerFails PROVE GenInv'
<1>1. /\ phase' = "raised" /\ calls' = <<>> /\ batch' = <<>> /\ unjudged' = <<>>
      /\ facts' = "unknown" /\ given' = Ungiven /\ UNCHANGED <<nodes, children>>
  BY DEF PlannerFails
<1>2. Shape
  BY DEF GenInv
<1>3. Shape' /\ Tree' = Tree
  <2>1. nodes \in [Tree -> GenNode] /\ nodes[Root].type # "checkpoint"
    BY <1>2 DEF Shape
  <2> QED  BY <1>1, <1>2, <2>1, ShapeSame
<1>4. Work'
  <2>1. Lists(<<>>, {}) /\ ToSet(<<>>) = {}
    BY NoneAndOne
  <2>2. <<>> \in Seq(Tree')
    OBVIOUS
  <2> QED  BY <1>1, <2>1, <2>2 DEF Work, Facts
<1>5. Judged'
  BY <1>1 DEF Judged, Ungiven
<1> QED  BY <1>3, <1>4, <1>5 DEF GenInv

\* Breaking a node down, again or for the first time, begins with a call for it.
LEMMA StartKeeps ==
    ASSUME GenInv, phase = "ready", NEW op, NEW n \in Tree, Start(op, n, "unknown"),
           UNCHANGED <<nodes, children, batch, unjudged, given>>
    PROVE  GenInv'
<1>1. calls' = <<n>> /\ phase' = "expanding" /\ facts' = "unknown"
  BY DEF Start
<1>2. Shape /\ Work /\ Judged
  BY DEF GenInv
<1>3. Shape' /\ Tree' = Tree
  <2>1. nodes \in [Tree -> GenNode] /\ nodes[Root].type # "checkpoint"
    BY <1>2 DEF Shape
  <2> QED  BY <1>2, <2>1, ShapeSame
<1>4. batch = <<>> /\ unjudged = <<>> /\ calls = <<>> /\ ToSet(<<>>) = {}
  BY <1>2, NoneAndOne DEF Work
<1>5. Work'
  <2>1. Lists(<<n>>, {n}) /\ ToSet(<<n>>) = {n} /\ Lists(<<>>, {})
    BY NoneAndOne
  <2>2. <<n>> \in Seq(Tree') /\ <<>> \in Seq(Tree') /\ <<n>> # <<>> /\ Len(<<n>>) = 1
    BY <1>3
  <2> QED  BY <1>1, <1>4, <2>1, <2>2 DEF Work, Facts
<1>6. Judged'
  BY <1>1, <1>2, <1>3, <1>4 DEF Judged
<1> QED  BY <1>3, <1>5, <1>6 DEF GenInv

\* Nodes put behind one of a list.
LEMMA InsertLists ==
    ASSUME NEW D, NEW s, Lists(s, D), NEW n \in D, NEW N, NEW ids, Lists(ids, N), D \cap N = {}
    PROVE  Lists(InsertAfterNode(s, n, ids), D \cup N)
<1> DEFINE i == CHOOSE i \in DOMAIN s : s[i] = n
           a == SubSeq(s, 1, i)
           b == SubSeq(s, i + 1, Len(s))
<1>1. s \in Seq(D) /\ Len(s) \in Nat /\ DOMAIN s = 1 .. Len(s)
  BY DEF Lists
<1>2. i \in 1 .. Len(s)
  BY <1>1 DEF Lists
<1> HIDE DEF i
<1>3. i \in Nat /\ i + 1 \in Nat /\ 1 <= i + 1 /\ i <= Len(s) /\ 1 \in Nat /\ 1 <= 1 /\ Len(s) <= Len(s)
  BY <1>1, <1>2
<1>4. Lists(a, ToSet(a)) /\ ToSet(a) = {s[k] : k \in 1 .. i}
  BY <1>3, PartLists
<1>5. Lists(b, ToSet(b)) /\ ToSet(b) = {s[k] : k \in i + 1 .. Len(s)}
  <2> DEFINE j == i + 1
             l == Len(s)
  <2>1. j \in Nat /\ l \in Nat /\ 1 <= j /\ l <= Len(s)
    BY <1>1, <1>3
  <2> HIDE DEF j, l
  <2>2. Lists(SubSeq(s, j, l), ToSet(SubSeq(s, j, l))) /\ ToSet(SubSeq(s, j, l)) = {s[k] : k \in j .. l}
    BY <2>1, PartLists
  <2> QED  BY <2>2 DEF j, l
<1> HIDE DEF a, b
<1>6. ToSet(a) \cap ToSet(b) = {} /\ ToSet(a) \cup ToSet(b) = D
  <2>1. \A k \in 1 .. Len(s) : k \in 1 .. i \/ k \in i + 1 .. Len(s)
    BY <1>1, <1>3
  <2>2. /\ 1 .. i \subseteq 1 .. Len(s) /\ i + 1 .. Len(s) \subseteq 1 .. Len(s)
        /\ \A k \in 1 .. i : k \notin i + 1 .. Len(s)
    BY <1>1, <1>3
  <2>3. ASSUME NEW f \in ToSet(a), f \in ToSet(b) PROVE FALSE
    <3>1. PICK k \in 1 .. i : f = s[k]
      BY <1>4
    <3>2. PICK l \in i + 1 .. Len(s) : f = s[l]
      BY <1>5, <2>3
    <3>3. k = l
      BY <2>2, <3>1, <3>2 DEF Lists
    <3> QED  BY <2>2, <3>3
  <2>4. \A k \in 1 .. Len(s) : s[k] \in D
    BY <1>1
  <2>5. \A f \in D : f \in ToSet(a) \cup ToSet(b)
    <3>1. \A f \in D : \E k \in 1 .. Len(s) : s[k] = f
      BY DEF Lists
    <3> QED  BY <1>4, <1>5, <2>1, <3>1
  <2>6. ToSet(a) \subseteq D /\ ToSet(b) \subseteq D
    BY <1>4, <1>5, <2>2, <2>4
  <2> QED  BY <2>3, <2>5, <2>6
<1>7. Lists(a \o ids, ToSet(a) \cup N)
  BY <1>4, <1>6, ConcatLists
<1>8. Lists((a \o ids) \o b, (ToSet(a) \cup N) \cup ToSet(b))
  <2>1. (ToSet(a) \cup N) \cap ToSet(b) = {}
    BY <1>6
  <2> QED  BY <1>5, <1>7, <2>1, ConcatLists
<1>9. (ToSet(a) \cup N) \cup ToSet(b) = D \cup N
  BY <1>6
<1>10. InsertAfterNode(s, n, ids) = (a \o ids) \o b
  BY DEF InsertAfterNode, a, b, i
<1> QED  BY <1>8, <1>9, <1>10

\* The tree after the nodes ids came beside others, as children of up.
Widened(up, ids) ==
    /\ Lists(ids, ToSet(ids)) /\ ids \in Seq(Ids \ Tree)
    /\ Tree' = Tree \cup ToSet(ids)
    /\ nodes' \in [Tree' -> GenNode] /\ \A m \in Tree : nodes'[m] = nodes[m]
    /\ children' = [m \in Tree' |-> children'[m]]
    /\ \A m \in ToSet(ids) : children'[m] = <<>>
    /\ \A m \in Tree \ {up} : children'[m] = children[m]
    /\ Lists(children'[up], ToSet(children[up]) \cup ToSet(ids))

LEMMA WidenedShape ==
    ASSUME Shape, NEW up \in Tree, NEW ids, Widened(up, ids)
    PROVE  Shape'
<1> DEFINE N == ToSet(ids)
           C(m) == ToSet(children'[m])
<1>1. /\ N \subseteq Ids /\ N \cap Tree = {} /\ Tree' = Tree \cup N /\ up \notin N /\ Root \in Tree /\ Tree \subseteq Ids
  <2>1. N \subseteq Ids \ Tree
    BY DEF Widened, ToSet
  <2> QED  BY <2>1 DEF Widened, Shape
<1>2. \A m \in Tree : /\ children[m] \in Seq(Tree) /\ ToSet(children[m]) \subseteq Tree
                      /\ Lists(children[m], ToSet(children[m]))
  <2>1. \A m \in Tree : children[m] \in Seq(Tree) /\ Lists(children[m], ToSet(children[m]))
    BY DEF Shape
  <2>2. \A t \in Seq(Tree) : ToSet(t) \subseteq Tree
    BY DEF ToSet
  <2> QED  BY <2>1, <2>2, Zenon
<1>3. /\ \A m \in N : C(m) = {}
      /\ \A m \in Tree \ {up} : C(m) = ToSet(children[m])
      /\ C(up) = ToSet(children[up]) \cup N
  <2>1. ToSet(<<>>) = {}
    BY NoneAndOne
  <2>2. Lists(children'[up], ToSet(children[up]) \cup N)
    BY DEF Widened
  <2>3. C(up) = ToSet(children[up]) \cup N
    BY <2>2, ListsSet
  <2> QED  BY <2>1, <2>3 DEF Widened
<1>4. ASSUME NEW m \in Tree' PROVE children'[m] \in Seq(Tree') /\ Lists(children'[m], C(m))
  <2>1. CASE m \in N
    <3>1. Lists(<<>>, {})
      BY NoneAndOne
    <3>2. <<>> \in Seq(Tree')
      OBVIOUS
    <3> QED  BY <1>3, <2>1, <3>1, <3>2 DEF Widened
  <2>2. CASE m \in Tree \ {up}
    <3>1. children'[m] = children[m]
      BY <2>2 DEF Widened
    <3>2. children[m] \in Seq(Tree')
      BY <1>1, <1>2, <2>2
    <3> QED  BY <1>2, <2>2, <3>1, <3>2
  <2>3. CASE m = up
    <3>1. Lists(children'[m], C(m))
      BY <1>3, <2>3 DEF Widened
    <3>2. C(m) \subseteq Tree'
      BY <1>1, <1>2, <1>3, <2>3
    <3>3. children'[m] \in Seq(C(m))
      BY <3>1 DEF Lists
    <3> HIDE DEF C
    <3> QED  BY <3>1, <3>2, <3>3
  <2> QED  BY <1>1, <2>1, <2>2, <2>3
<1> HIDE DEF C
<1>5. \A p, q \in Tree' : \A m \in C(p) : m \in C(q) => p = q
  <2> SUFFICES ASSUME NEW p \in Tree', NEW q \in Tree', NEW m \in C(p), m \in C(q) PROVE p = q
    OBVIOUS
  <2>1. p \in Tree /\ q \in Tree
    BY <1>1, <1>3
  <2>2. CASE m \in N
    <3>1. \A r \in Tree \ {up} : m \notin C(r)
      BY <1>1, <1>2, <1>3, <2>2
    <3> QED  BY <2>1, <3>1
  <2>3. CASE m \notin N
    <3>1. m \in ToSet(children[p]) /\ m \in ToSet(children[q])
      BY <1>3, <2>1, <2>3
    <3> QED  BY <2>1, <3>1 DEF Shape
  <2> QED  BY <2>2, <2>3
<1>6. \A p \in Tree' : Root \notin C(p)
  <2>1. \A p \in Tree : Root \notin ToSet(children[p])
    BY DEF Shape
  <2> QED  BY <1>1, <1>3, <2>1
<1>7. ASSUME NEW S \in SUBSET Tree', Root \in S, \A m \in S : C(m) \subseteq S
      PROVE  S = Tree'
  <2>1. ASSUME NEW m \in S \cap Tree PROVE ToSet(children[m]) \subseteq S \cap Tree
    <3>1. ToSet(children[m]) \subseteq C(m)
      BY <1>3
    <3> QED  BY <1>2, <1>7, <3>1
  <2>2. Closed(S \cap Tree)
    BY <2>1 DEF Closed
  <2>3. S \cap Tree = Tree
    BY <1>1, <1>7, <2>2 DEF Shape
  <2>4. N \subseteq S
    BY <1>3, <1>7, <2>3
  <2> QED  BY <1>1, <2>3, <2>4
<1>8. \A S \in SUBSET Tree' : Root \in S /\ Closed(S)' => S = Tree'
  BY <1>7 DEF Closed, C
<1>9. Root' = Root /\ Tree' \subseteq Ids /\ Root \in Tree'
  BY <1>1 DEF Root
<1>10. nodes' \in [Tree' -> GenNode] /\ nodes'[Root].type # "checkpoint"
  BY <1>1 DEF Widened, Shape
<1>11. children' \in [Tree' -> Seq(Tree')]
  BY <1>4 DEF Widened
<1>12. Ids' = Ids /\ GenNode' = GenNode
  BY DEF Ids, Root, GenNode, Types
<1> HIDE DEF N
<1> QED  BY <1>4, <1>5, <1>6, <1>8, <1>9, <1>10, <1>11, <1>12 DEF Shape, C

\* What the answer for a checkpoint adds comes beside the checkpoint, to be judged.
LEMMA ContinueKeeps ==
    ASSUME GenInv, NEW n \in Ids, NEW made \in Products["unknown"], NEW bounded \in BOOLEAN,
           Continue(n, made, bounded)
    PROVE  GenInv'
<1> DEFINE ids   == Fresh(Len(made))
           plain == bounded \/ Len(made) = 1
           N     == ToSet(ids)
           at(i) == CHOOSE k \in DOMAIN ids : ids[k] = i
           new   == [i \in N |-> LET x == made[at(i)]
                                 IN  IF plain /\ x.type = "checkpoint" THEN [x EXCEPT !.type = "leaf"] ELSE x]
           up    == CHOOSE m \in ParentOf(n) : TRUE
<1>1. /\ phase = "ready" /\ n \in Tree /\ nodes[n].type = "checkpoint" /\ Room(Len(made))
      /\ nodes' = [m \in Tree \cup N |-> IF m \in N THEN new[m] ELSE nodes[m]]
      /\ children' = [m \in Tree \cup N |->
                         IF m \in N THEN <<>>
                         ELSE IF m = up THEN InsertAfterNode(children[m], n, ids) ELSE children[m]]
      /\ batch' = ids /\ unjudged' = ToJudge(ids, new) /\ calls' = <<>>
      /\ facts' = "unknown" /\ phase' = "judging" /\ UNCHANGED given
  BY DEF Continue
<1>2. Shape /\ Work /\ Judged
  BY DEF GenInv
<1>3. made \in Seq(Sprout) /\ Len(made) \in Nat /\ DOMAIN made = 1 .. Len(made)
  <2>1. "unknown" \in Facts
    BY DEF Facts
  <2>2. made \in Seq(Sprout)
    BY <2>1, ProductsType
  <2> QED  BY <2>2
<1>4. ids \in Seq(Ids \ Tree) /\ Len(ids) = Len(made) /\ Lists(ids, N)
  BY <1>1, <1>3, FreshOf
<1> HIDE DEF ids
<1>5. DOMAIN ids = 1 .. Len(made) /\ \A i \in N : \E k \in DOMAIN ids : ids[k] = i
  BY <1>3, <1>4 DEF ToSet
<1>6. \A i \in N : at(i) \in 1 .. Len(made)
  BY <1>5
<1> HIDE DEF at
<1>7. N \subseteq Ids \ Tree /\ N \cap Tree = {}
  BY <1>4 DEF ToSet
<1>8. ASSUME NEW i \in N
      PROVE  new[i] \in GenNode /\ (new[i].type = "checkpoint" => ~ new[i].branch)
  <2>1. made[at(i)] \in Sprout
    BY <1>3, <1>6
  <2>2. new[i] = made[at(i)] \/ new[i] = [made[at(i)] EXCEPT !.type = "leaf"]
    OBVIOUS
  <2>3. /\ [made[at(i)] EXCEPT !.type = "leaf"] \in GenNode
        /\ [made[at(i)] EXCEPT !.type = "leaf"].type = "leaf"
    BY <2>1 DEF Sprout, GenNode, Types
  <2>4. made[at(i)] \in GenNode /\ (made[at(i)].type = "checkpoint" => ~ made[at(i)].branch)
    BY <2>1 DEF Sprout
  <2> QED  BY <2>2, <2>3, <2>4
<1> HIDE DEF new
<1>9. up \in Tree /\ n \in ToSet(children[up])
  <2>1. n # Root
    BY <1>1, <1>2 DEF Shape
  <2>2. \E m \in Tree : n \in ToSet(children[m])
    BY <1>1, <1>2, <2>1, RootAbove
  <2>3. ParentOf(n) # {}
    BY <2>2 DEF ParentOf
  <2>4. up \in ParentOf(n)
    BY <2>3
  <2> QED  BY <2>4 DEF ParentOf
<1> HIDE DEF up
<1>10. Tree' = Tree \cup N /\ Tree \subseteq Tree'
  BY <1>1 DEF Tree
<1>11. /\ \A m \in Tree : nodes'[m] = nodes[m]
       /\ \A m \in N : nodes'[m] = new[m] /\ children'[m] = <<>>
       /\ \A m \in Tree \ {up} : children'[m] = children[m]
       /\ children'[up] = InsertAfterNode(children[up], n, ids)
       /\ nodes' = [m \in Tree' |-> nodes'[m]]
       /\ children' = [m \in Tree' |-> children'[m]]
  <2> HIDE DEF N
  <2> QED  BY <1>1, <1>7, <1>9, <1>10
<1>12. Lists(children'[up], ToSet(children[up]) \cup N)
  <2>1. Lists(children[up], ToSet(children[up])) /\ ToSet(children[up]) \subseteq Tree
    <3>1. children[up] \in Seq(Tree) /\ Lists(children[up], ToSet(children[up]))
      BY <1>2, <1>9 DEF Shape
    <3> QED  BY <3>1 DEF ToSet
  <2>2. ToSet(children[up]) \cap N = {}
    BY <1>7, <2>1
  <2>3. Lists(InsertAfterNode(children[up], n, ids), ToSet(children[up]) \cup N)
    BY <1>4, <1>9, <2>1, <2>2, InsertLists
  <2> QED  BY <1>11, <2>3
<1>13. nodes' \in [Tree' -> GenNode]
  <2>1. nodes \in [Tree -> GenNode]
    BY <1>2 DEF Shape
  <2>2. \A m \in Tree' : nodes'[m] \in GenNode
    BY <1>8, <1>10, <1>11, <2>1
  <2> QED  BY <1>11, <2>2
<1>14. Shape'
  <2>1. Widened(up, ids)
    BY <1>4, <1>10, <1>11, <1>12, <1>13 DEF Widened
  <2> QED  BY <1>2, <1>9, <2>1, WidenedShape
<1>15. /\ unjudged' \in Seq(N) /\ ToSet(unjudged') \subseteq N
       /\ ToSet(unjudged') = {m \in N : ~ new[m].branch /\ new[m].type # "checkpoint"}
  <2>1. unjudged' \in Seq(N) /\ ToSet(unjudged') = {m \in N : ~ new[m].branch /\ new[m].type # "checkpoint"}
    BY <1>1, <1>4, ToJudgeOf
  <2> QED  BY <2>1
<1>16. Work'
  <2>1. batch' \in Seq(Tree') /\ unjudged' \in Seq(Tree')
    <3>1. ids \in Seq(N)
      BY <1>4 DEF Lists
    <3> QED  BY <1>1, <1>10, <1>15, <3>1
  <2>2. Lists(<<>>, {}) /\ ToSet(<<>>) = {}
    BY NoneAndOne
  <2>3. <<>> \in Seq(Tree')
    OBVIOUS
  <2>4. facts' \in Facts' /\ Lists(batch', ToSet(batch')) /\ ToSet(unjudged') \subseteq ToSet(batch')
    BY <1>1, <1>4, <1>15 DEF Facts
  <2>5. \A m \in ToSet(batch') : children'[m] = <<>>
    BY <1>1, <1>11
  <2>6. calls' = <<>> /\ phase' = "judging"
    BY <1>1
  <2> QED  BY <2>1, <2>2, <2>3, <2>4, <2>5, <2>6 DEF Work
<1>17. Judged'
  <2>1. /\ DOMAIN given = {"large", "small", "asked", "demoted"} /\ given.large \subseteq Tree
        /\ calls = <<>> /\ batch = <<>> /\ unjudged = <<>> /\ ToSet(<<>>) = {}
    BY <1>1, <1>2, NoneAndOne DEF Judged, Work
  <2>2. ASSUME NEW m \in Tree', nodes'[m].type = "checkpoint"
        PROVE  ~ nodes'[m].branch /\ m \notin given.large /\ (children'[m] # <<>> => m \in given.asked)
    <3>1. CASE m \in N
      BY <1>7, <1>8, <1>11, <2>1, <2>2, <3>1
    <3>2. CASE m \in Tree
      <4>1. nodes[m].type = "checkpoint" /\ nodes'[m] = nodes[m]
        BY <1>11, <2>2, <3>2
      <4>2. ~ nodes[m].branch /\ m \notin given.large /\ (children[m] # <<>> => m \in given.asked)
        BY <1>1, <1>2, <3>2, <4>1 DEF Judged
      <4>3. children'[m] # <<>> => children[m] # <<>>
        <5>1. children[up] # <<>>
          BY <1>9, <2>1
        <5> QED  BY <1>11, <3>2, <5>1
      <4> QED  BY <4>1, <4>2, <4>3
    <3> QED  BY <1>10, <3>1, <3>2
  <2>3. \A m \in ToSet(unjudged') : nodes'[m].type # "checkpoint"
    BY <1>11, <1>15
  <2>4. ASSUME NEW m \in Tree', children'[m] = <<>>
        PROVE  \/ nodes'[m].type = "checkpoint" \/ m \in given.small \cup given.asked \cup given.demoted
               \/ m \in ToSet(unjudged')
               \/ m \in ToSet(batch') /\ nodes'[m].branch
    <3>1. CASE m \in N
      BY <1>1, <1>11, <1>15, <3>1
    <3>2. CASE m \in Tree
      <4>1. m # up
        <5>1. ToSet(children'[up]) = ToSet(children[up]) \cup N
          BY <1>12, ListsSet
        <5> QED  BY <1>9, <2>1, <2>4, <5>1
      <4>2. children[m] = <<>> /\ nodes'[m] = nodes[m]
        BY <1>11, <2>4, <3>2, <4>1
      <4>3. nodes[m].type = "checkpoint" \/ m \in given.small \cup given.asked \cup given.demoted
        BY <1>1, <1>2, <2>1, <3>2, <4>2 DEF Judged
      <4> QED  BY <4>2, <4>3
    <3> QED  BY <1>10, <3>1, <3>2
  <2>5. given.large \subseteq Tree' /\ given' = given /\ calls' = <<>>
    BY <1>1, <1>10, <2>1
  <2> QED  BY <2>1, <2>2, <2>3, <2>4, <2>5 DEF Judged
<1> QED  BY <1>14, <1>16, <1>17 DEF GenInv

-----------------------------------------------------------------------------
(* The theorems.                                                           *)

LEMMA GenStep == ASSUME GenInv, [GenNext]_genVars PROVE GenInv'
<1>1. CASE Expand
  BY <1>1, ExpandKeeps
<1>2. CASE Descend
  BY <1>2, DescendKeeps
<1>3. CASE Finish
  BY <1>3, FinishKeeps
<1>4. CASE PlannerFails
  BY <1>4, FailKeeps
<1>5. ASSUME NEW breakdown \in BOOLEAN, NEW reason \in BOOLEAN, Judge(breakdown, reason)
      PROVE  GenInv'
  BY <1>5, JudgeKeeps
<1>6. ASSUME NEW n \in Ids, Replan(n) PROVE GenInv'
  <2>1. /\ phase = "ready" /\ n \in Tree /\ Start("replan", n, "unknown")
        /\ UNCHANGED <<nodes, children, batch, unjudged, given>>
    BY <1>6 DEF Replan
  <2> QED  BY <2>1, StartKeeps
<1>7. ASSUME NEW n \in Ids, ExpandCheckpoint(n) PROVE GenInv'
  <2>1. /\ phase = "ready" /\ n \in Tree /\ Start("checkpoint", n, "unknown")
        /\ UNCHANGED <<nodes, children, batch, unjudged, given>>
    BY <1>7 DEF ExpandCheckpoint
  <2> QED  BY <2>1, StartKeeps
<1>8. ASSUME NEW n \in Ids, NEW made \in Products["unknown"], NEW bounded \in BOOLEAN,
             Continue(n, made, bounded)
      PROVE  GenInv'
  BY <1>8, ContinueKeeps
<1>9. CASE UNCHANGED genVars
  <2>1. UNCHANGED <<nodes, children, calls, batch, unjudged, facts, phase, given>>
    BY <1>9 DEF genVars
  <2>2. Shape /\ nodes \in [Tree -> GenNode] /\ nodes[Root].type # "checkpoint"
    BY DEF GenInv, Shape
  <2>3. Shape' /\ Tree' = Tree
    BY <2>1, <2>2, ShapeSame
  <2>4. Work'
    BY <2>1, <2>3 DEF GenInv, Work, Facts
  <2>5. Judged'
    BY <2>1, <2>3 DEF GenInv, Judged
  <2> QED  BY <2>3, <2>4, <2>5 DEF GenInv
<1> QED  BY <1>1, <1>2, <1>3, <1>4, <1>5, <1>6, <1>7, <1>8, <1>9 DEF GenNext

\* The inductive invariant holds, whatever the model answers.
THEOREM GenInvariant == GenSpec => []GenInv
<1>1. GenInit => GenInv
  BY InitInv
<1>2. GenInv /\ [GenNext]_genVars => GenInv'
  BY GenStep
<1> QED  BY <1>1, <1>2, PTL DEF GenSpec

LEMMA InvType == ASSUME GenInv PROVE GenTypeOK
<1>1. Shape /\ Work
  BY DEF GenInv
<1>2. /\ nodes \in [Tree -> GenNode] /\ Root \in Tree /\ Tree \subseteq Ids
      /\ children \in [Tree -> Seq(Tree)]
  BY <1>1 DEF Shape
<1>3. Tree = {Root} \cup Below(Root)
  <2>1. Closed(Below(Root) \cup {Root}) /\ Below(Root) \subseteq Tree
    BY <1>1, <1>2, BelowClosed DEF Below
  <2> QED  BY <1>1, <1>2, <2>1 DEF Shape
<1>4. ParentOf(Root) = {}
  BY <1>1 DEF ParentOf, Shape
<1>5. \A s, D : Lists(s, D) => IsInjective(s)
  <2> SUFFICES ASSUME NEW s, NEW D, Lists(s, D) PROVE IsInjective(s)
    OBVIOUS
  <2>1. DOMAIN s = 1 .. Len(s)
    BY DEF Lists
  <2> QED  BY <2>1 DEF Lists, IsInjective
<1>6. ASSUME NEW n \in Tree PROVE Cardinality(ParentOf(n)) <= 1
  <2>1. CASE ParentOf(n) = {}
    BY <2>1, FS_EmptySet
  <2>2. CASE ParentOf(n) # {}
    <3>1. PICK p : p \in ParentOf(n)
      BY <2>2
    <3>2. ParentOf(n) = {p}
      BY <1>1, <3>1 DEF ParentOf, Shape
    <3>3. Cardinality({p}) = 1
      BY FS_Singleton
    <3> QED  BY <3>2, <3>3
  <2> QED  BY <2>1, <2>2
<1>7. \A n \in Tree : IsInjective(children[n])
  BY <1>1, <1>5 DEF Shape
<1>8. IsInjective(calls)
  BY <1>1, <1>5 DEF Work
<1>9. ToSet(calls) \subseteq Tree /\ ToSet(batch) \subseteq Tree /\ ToSet(unjudged) \subseteq Tree
  <2>1. \A t \in Seq(Tree) : ToSet(t) \subseteq Tree
    BY DEF ToSet
  <2>2. calls \in Seq(Tree) /\ batch \in Seq(Tree) /\ unjudged \in Seq(Tree)
    BY <1>1 DEF Work
  <2> QED  BY <2>1, <2>2, Zenon
<1>10. phase \in {"expanding", "judging", "finishing", "ready", "raised"} /\ facts \in Facts
  BY <1>1 DEF Work
<1> QED  BY <1>2, <1>3, <1>4, <1>6, <1>7, <1>8, <1>9, <1>10 DEF GenTypeOK

\* However often nodes are broken down, broken down again or continued behind a
\* checkpoint, the plan stays a tree and the calls to come are for its nodes.
THEOREM GenTypeCorrect == GenSpec => []GenTypeOK
<1>1. GenInv => GenTypeOK
  BY InvType
<1> QED  BY <1>1, GenInvariant, PTL

\* No leaf slips past the check of its size.
THEOREM LeavesAreJudged == GenSpec => []LeavesJudged
<1>1. GenInv => LeavesJudged
  <2> SUFFICES ASSUME GenInv, phase = "ready", NEW n \in Tree, children[n] = <<>>
               PROVE  nodes[n].type = "checkpoint" \/ n \in given.small \cup given.asked \cup given.demoted
    BY DEF LeavesJudged
  <2>1. calls = <<>> /\ unjudged = <<>> /\ batch = <<>> /\ ToSet(<<>>) = {}
    BY NoneAndOne DEF GenInv, Work
  <2> QED  BY <2>1 DEF GenInv, Judged
<1> QED  BY <1>1, GenInvariant, PTL

\* A checkpoint is broken down only when it is asked for.
THEOREM CheckpointsWait == GenSpec => []CheckpointsLazy
<1>1. GenInv => CheckpointsLazy
  BY DEF GenInv, Judged, CheckpointsLazy
<1> QED  BY <1>1, GenInvariant, PTL

-----------------------------------------------------------------------------
(* Normalisation, of any answer.                                           *)

\* Nothing is left to do about a step: it has words, is no noise and has no condition
\* that is known to hold or not to.
Settled(x, fact) == x.name # "" /\ x.name \notin Noise /\ Resolved(x.name, fact) = x.name

\* A resolved condition needs no other resolution, and makes no noise of a step.
LEMMA ResolvedOnce ==
    ASSUME NEW fact, NEW name \in Names \ Noise, Resolved(name, fact) # ""
    PROVE  /\ Resolved(name, fact) \notin Noise
           /\ Resolved(Resolved(name, fact), fact) = Resolved(name, fact)
BY NoiseAssumption DEF Resolved

\* What is picked by a condition meets it.
LEMMA PickedMeets ==
    ASSUME NEW s \in Seq(Step)
    PROVE  /\ \A k \in 1 .. Len(Worded(s)) : Worded(s)[k].name # "" /\ \E i \in 1 .. Len(s) : Worded(s)[k] = s[i]
           /\ \A k \in 1 .. Len(Useful(s)) : Useful(s)[k].name \notin Noise
<1> DEFINE I == {i \in DOMAIN s : s[i].name # ""}
           J == {i \in DOMAIN s : s[i].name \notin Noise}
<1>0. DOMAIN s = 1 .. Len(s)
  OBVIOUS
<1>1. I \in SUBSET (1 .. Len(s)) /\ J \in SUBSET (1 .. Len(s))
  BY <1>0
<1>2. \A k \in 1 .. Len(Worded(s)) : \E i \in I : Worded(s)[k] = s[i]
  <2> HIDE DEF I
  <2>1. \A k \in 1 .. Len(Picked(s, I)) : \E i \in I : Picked(s, I)[k] = s[i]
    BY <1>1, PickedOf
  <2> QED  BY <2>1 DEF Worded, I
<1>3. \A k \in 1 .. Len(Useful(s)) : \E i \in J : Useful(s)[k] = s[i]
  <2> HIDE DEF J
  <2>1. \A k \in 1 .. Len(Picked(s, J)) : \E i \in J : Picked(s, J)[k] = s[i]
    BY <1>1, PickedOf
  <2> QED  BY <2>1 DEF Useful, J
<1>4. \A i \in I : s[i].name # "" /\ i \in 1 .. Len(s)
  BY <1>0
<1>5. \A i \in J : s[i].name \notin Noise
  OBVIOUS
<1> QED  BY <1>2, <1>3, <1>4, <1>5, Zenon

\* What the rules keep is settled.
LEMMA KeptSettled ==
    ASSUME NEW s \in Seq(Step), NEW fact
    PROVE  \A k \in 1 .. Len(Unconditional(Useful(s), fact)) : Settled(Unconditional(Useful(s), fact)[k], fact)
<1> DEFINE u == Useful(s)
           t == [i \in DOMAIN u |-> [u[i] EXCEPT !.name = Resolved(u[i].name, fact)]]
<1>1. u \in Seq(Step) /\ \A k \in 1 .. Len(u) : u[k].name \notin Noise
  BY StepsLeft, PickedMeets
<1> HIDE DEF u
<1>2. Len(u) \in Nat /\ DOMAIN u = 1 .. Len(u) /\ \A i \in 1 .. Len(u) : u[i] \in Step
  BY <1>1
<1>3. \A i \in 1 .. Len(u) : t[i].name = Resolved(u[i].name, fact) /\ t[i] \in Step
  <2> TAKE i \in 1 .. Len(u)
  <2>1. u[i] \in Step
    BY <1>2
  <2>2. Resolved(u[i].name, fact) \in Names
    BY <2>1 DEF Step, Resolved, Names
  <2> QED  BY <1>2, <2>1, <2>2 DEF Step
<1>4. t \in Seq(Step) /\ Len(t) = Len(u)
  <2>1. t = [i \in 1 .. Len(u) |-> t[i]]
    BY <1>2
  <2> HIDE DEF t
  <2> QED  BY <1>2, <1>3, <2>1
<1> HIDE DEF t
<1>5. ASSUME NEW k \in 1 .. Len(Worded(t)) PROVE Settled(Worded(t)[k], fact)
  <2>1. PICK i \in 1 .. Len(t) : Worded(t)[k] = t[i]
    BY <1>4, PickedMeets
  <2>2. Worded(t)[k].name # ""
    BY <1>4, PickedMeets
  <2>3. t[i].name = Resolved(u[i].name, fact) /\ u[i].name \in Names \ Noise
    BY <1>1, <1>2, <1>3, <1>4 DEF Step
  <2> QED  BY <2>1, <2>2, <2>3, ResolvedOnce DEF Settled
<1>6. Unconditional(u, fact) = Worded(t)
  BY DEF Unconditional, t
<1> QED  BY <1>5, <1>6 DEF u

\* A sequence of steps holds one at each of its positions.
LEMMA StepsAt == ASSUME NEW s \in Seq(Step) PROVE DOMAIN s = 1 .. Len(s) /\ \A i \in DOMAIN s : s[i] \in Step
OBVIOUS

\* Steps with words all stay when the others are dropped.
LEMMA WordedAll ==
    ASSUME NEW s \in Seq(Step), \A i \in 1 .. Len(s) : s[i].name # ""
    PROVE  Worded(s) = s
<1>1. {i \in DOMAIN s : s[i].name # ""} = 1 .. Len(s)
  <2>1. DOMAIN s = 1 .. Len(s)
    BY StepsAt
  <2> QED  BY <2>1
<1> QED  BY <1>1, PickedAll DEF Worded

\* Settled steps all stay as they are.
LEMMA SettledStay ==
    ASSUME NEW s \in Seq(Step), NEW fact, \A i \in 1 .. Len(s) : Settled(s[i], fact)
    PROVE  Worded(s) = s /\ Unconditional(Useful(s), fact) = s
<1>0. DOMAIN s = 1 .. Len(s) /\ \A i \in DOMAIN s : s[i] \in Step
  BY StepsAt
<1>1. Worded(s) = s
  BY WordedAll DEF Settled
<1>2. Useful(s) = s
  <2>1. {i \in DOMAIN s : s[i].name \notin Noise} = 1 .. Len(s)
    BY <1>0 DEF Settled
  <2> QED  BY <2>1, PickedAll DEF Useful
<1>3. [i \in DOMAIN s |-> [s[i] EXCEPT !.name = Resolved(s[i].name, fact)]] = s
  <2>1. \A i \in DOMAIN s : [s[i] EXCEPT !.name = Resolved(s[i].name, fact)] = s[i]
    <3> TAKE i \in DOMAIN s
    <3>1. s[i] \in Step /\ Resolved(s[i].name, fact) = s[i].name
      BY <1>0, Zenon DEF Settled
    <3> QED  BY <3>1 DEF Step
  <2>2. s = [i \in DOMAIN s |-> s[i]]
    OBVIOUS
  <2> QED  BY <2>1, <2>2
<1> QED  BY <1>1, <1>2, <1>3 DEF Unconditional

\* The first steps of each name: some if there are steps, among these, and the first
\* ones of each name of themselves.
LEMMA DistinctOf ==
    ASSUME NEW s \in Seq(Step)
    PROVE  /\ Distinct(s) \in Seq(Step)
           /\ \A k \in 1 .. Len(Distinct(s)) : \E i \in 1 .. Len(s) : Distinct(s)[k] = s[i]
           /\ s # <<>> => Distinct(s) # <<>>
           /\ Distinct(Distinct(s)) = Distinct(s)
<1> DEFINE I == {i \in DOMAIN s : \A j \in 1 .. i - 1 : s[j].name # s[i].name}
           d == Picked(s, I)
<1>1. Len(s) \in Nat /\ DOMAIN s = 1 .. Len(s)
  OBVIOUS
<1>2. I \in SUBSET (1 .. Len(s))
  BY <1>1
<1>3. \A i, j \in I : s[i].name = s[j].name => i = j
  <2> SUFFICES ASSUME NEW i \in I, NEW j \in I, s[i].name = s[j].name, i # j PROVE FALSE
    OBVIOUS
  <2>1. i \in 1 .. Len(s) /\ j \in 1 .. Len(s)
    BY <1>2
  <2>2. i \in 1 .. j - 1 \/ j \in 1 .. i - 1
    BY <1>1, <2>1
  <2> QED  BY <2>2
<1>4. /\ d \in Seq(Step) /\ Len(d) \in Nat
      /\ \A k \in 1 .. Len(d) : \E i \in I : d[k] = s[i]
      /\ \A i \in I : \E k \in 1 .. Len(d) : d[k] = s[i]
      /\ \A k, l \in 1 .. Len(d) : d[k] = d[l] => k = l
  <2>1. \A i, j \in I : s[i] = s[j] => i = j
    BY <1>3
  <2> HIDE DEF I
  <2> QED  BY <1>2, <2>1, PickedOf
<1>5. s # <<>> => 1 \in I
  <2> SUFFICES ASSUME s # <<>> PROVE 1 \in I
    OBVIOUS
  <2>1. Len(s) \in Nat /\ Len(s) # 0
    OBVIOUS
  <2>2. 1 \in 1 .. Len(s) /\ 1 .. 1 - 1 = {}
    BY <2>1
  <2> QED  BY <1>1, <2>2
<1> HIDE DEF I
<1>6. d = Distinct(s)
  BY DEF Distinct, I
<1> HIDE DEF d
<1>7. s # <<>> => d # <<>>
  <2>1. \A k \in 1 .. Len(<<>>) : FALSE
    OBVIOUS
  <2> QED  BY <1>4, <1>5, <2>1
<1>8. \A k, l \in 1 .. Len(d) : d[k].name = d[l].name => k = l
  <2> SUFFICES ASSUME NEW k \in 1 .. Len(d), NEW l \in 1 .. Len(d), d[k].name = d[l].name PROVE k = l
    OBVIOUS
  <2>1. PICK i \in I : d[k] = s[i]
    BY <1>4
  <2>2. PICK j \in I : d[l] = s[j]
    BY <1>4
  <2>3. i = j
    BY <1>3, <2>1, <2>2
  <2> QED  BY <1>4, <2>1, <2>2, <2>3
<1>9. {k \in DOMAIN d : \A l \in 1 .. k - 1 : d[l].name # d[k].name} = 1 .. Len(d)
  <2>1. DOMAIN d = 1 .. Len(d)
    BY <1>4
  <2>2. ASSUME NEW k \in 1 .. Len(d), NEW l \in 1 .. k - 1 PROVE l \in 1 .. Len(d) /\ l # k
    BY <1>4
  <2> QED  BY <1>8, <2>1, <2>2
<1>10. Distinct(d) = d
  BY <1>4, <1>9, PickedAll DEF Distinct
<1> QED  BY <1>2, <1>4, <1>6, <1>7, <1>10

LEMMA NormalizedTwice ==
    ASSUME NEW answer \in Seq(Step), NEW fact
    PROVE  /\ Normalized(answer, fact) = <<>> => Worded(answer) = <<>>
           /\ Normalized(Normalized(answer, fact), fact) = Normalized(answer, fact)
<1> DEFINE w    == Worded(answer)
           kept == Unconditional(Useful(w), fact)
<1>1. w \in Seq(Step) /\ \A i \in 1 .. Len(w) : w[i].name # ""
  BY StepsLeft, PickedMeets
<1>2. Normalized(answer, fact) = IF kept # <<>> THEN Distinct(kept) ELSE w
  BY DEF Normalized
<1> HIDE DEF w
<1>3. kept \in Seq(Step) /\ \A k \in 1 .. Len(kept) : Settled(kept[k], fact)
  <2>1. Useful(w) \in Seq(Step)
    BY <1>1, StepsLeft
  <2> QED  BY <1>1, <2>1, UnconditionalType, KeptSettled
<1>4. Worded(w) = w
  BY <1>1, WordedAll
<1>5. CASE kept = <<>>
  <2>1. Normalized(w, fact) = w
    BY <1>4, <1>5 DEF Normalized
  <2> QED  BY <1>2, <1>5, <2>1 DEF w
<1>6. CASE kept # <<>>
  <2> HIDE DEF kept
  <2> DEFINE d == Distinct(kept)
  <2>1. /\ d \in Seq(Step) /\ d # <<>> /\ Distinct(d) = d
        /\ \A k \in 1 .. Len(d) : \E i \in 1 .. Len(kept) : d[k] = kept[i]
    BY <1>3, <1>6, DistinctOf
  <2> HIDE DEF d
  <2>2. \A k \in 1 .. Len(d) : Settled(d[k], fact)
    BY <1>3, <2>1
  <2>3. Worded(d) = d /\ Unconditional(Useful(d), fact) = d
    BY <2>1, <2>2, SettledStay
  <2>4. Normalized(d, fact) = d
    BY <2>1, <2>3 DEF Normalized
  <2> QED  BY <1>2, <1>6, <2>1, <2>4 DEF d
<1> QED  BY <1>5, <1>6

\* Normalisation keeps something of every answer with words in it, and is done at once:
\* for answers of any length, any noise and whatever is known of the files.
THEOREM NormalizedIsSound == GenSpec => []NormalizeSound
<1>1. NormalizeSound
  <2>1. \A answer \in Answers : answer \in Seq(Step)
    BY DEF Answers, BoundedSeq, SeqOf
  <2> QED  BY <2>1, NormalizedTwice DEF NormalizeSound
<1> QED  BY <1>1, PTL

-----------------------------------------------------------------------------
(* The nodes above a node.                                               *)

\* S holds the parents of its nodes.
Upward(S) == \A m \in S : ParentOf(m) \subseteq S

\* The nodes of S and their parents.
Raised(S) == S \cup UNION {ParentOf(m) : m \in S}

\* Parents are nodes, at most one for each, and it has the node for a child.
LEMMA ParentsOf ==
    ASSUME Shape, NEW m
    PROVE  /\ ParentOf(m) \subseteq Tree
           /\ \A p, q \in ParentOf(m) : p = q
           /\ \A p \in ParentOf(m) : m \in ToSet(children[p]) /\ m \in Tree
<1>1. \A p \in Tree : children[p] \in Seq(Tree)
  BY DEF Shape
<1>2. \A p \in Tree : ToSet(children[p]) \subseteq Tree
  <2>1. \A t \in Seq(Tree) : ToSet(t) \subseteq Tree
    BY DEF ToSet
  <2> QED  BY <1>1, <2>1, Zenon
<1>3. ParentOf(m) \subseteq Tree /\ \A p \in ParentOf(m) : m \in ToSet(children[p]) /\ m \in Tree
  BY <1>2 DEF ParentOf
<1>4. \A p, q \in Tree : \A x \in ToSet(children[p]) : x \in ToSet(children[q]) => p = q
  BY DEF Shape
<1> QED  BY <1>3, <1>4

\* The lineage of a node is the least set around it that holds the parents of its nodes.
LEMMA LineageLeast ==
    ASSUME Shape, NEW n \in Tree
    PROVE  /\ n \in Lineage(n) /\ Lineage(n) \subseteq Tree /\ Upward(Lineage(n))
           /\ \A S \in SUBSET Tree : n \in S /\ Upward(S) => Lineage(n) \subseteq S
<1> DEFINE X == SUBSET Tree
           step == [k \in 1 .. MaxNodes |-> [S \in X |-> Raised(S)]]
           Rec(f) == f = [k \in 0 .. MaxNodes |->
                             IF k = 0 THEN {n}
                             ELSE f[k - 1] \cup UNION {ParentOf(m) : m \in f[k - 1]}]
           g == CHOOSE f : Rec(f)
<1>1. MaxNodes \in Nat
  BY PlanGenerationAssumption
<1>2. \A S \in X : Raised(S) \in X
  <2>1. \A m \in Tree : ParentOf(m) \subseteq Tree
    BY ParentsOf
  <2> QED  BY <2>1 DEF Raised
<1>3. step \in Moves(MaxNodes, X)
  BY <1>2 DEF Moves
<1>4. \A i \in 1 .. MaxNodes : \A S \in X : step[i][S] = Raised(S)
  OBVIOUS
<1>5. {n} \in X
  OBVIOUS
<1> HIDE DEF step
<1>6. PICK f \in [0 .. MaxNodes -> X] : f[0] = {n} /\ \A i \in 1 .. MaxNodes : f[i] = step[i][f[i - 1]]
  <2> HIDE DEF X
  <2> QED  BY <1>1, <1>3, <1>5, Iterates DEF Runs
<1>7. \A i \in 1 .. MaxNodes : f[i] = Raised(f[i - 1])
  <2> SUFFICES ASSUME NEW i \in 1 .. MaxNodes PROVE f[i] = Raised(f[i - 1])
    OBVIOUS
  <2>1. i - 1 \in 0 .. MaxNodes
    BY <1>1
  <2>2. f[i - 1] \in X
    BY <1>6, <2>1
  <2> QED  BY <1>4, <1>6, <2>2
<1>8. Rec(f)
  <2>1. \A i \in 1 .. MaxNodes : f[i] = f[i - 1] \cup UNION {ParentOf(m) : m \in f[i - 1]}
    BY <1>7 DEF Raised
  <2> QED  BY <1>1, <1>6, <2>1
<1>9. Rec(g)
  <2> HIDE DEF Rec
  <2> QED  BY <1>8
<1>10. Lineage(n) = g[MaxNodes]
  BY DEF Lineage
<1> HIDE DEF g
<1>11. g[0] = {n} /\ \A i \in 1 .. MaxNodes : g[i] = Raised(g[i - 1])
  <2>1. g = [k \in 0 .. MaxNodes |-> IF k = 0 THEN {n} ELSE Raised(g[k - 1])]
    BY <1>9 DEF Raised
  <2>2. \A k \in 0 .. MaxNodes : g[k] = IF k = 0 THEN {n} ELSE Raised(g[k - 1])
    <3> DEFINE h(k) == IF k = 0 THEN {n} ELSE Raised(g[k - 1])
    <3>1. g = [k \in 0 .. MaxNodes |-> h(k)]
      BY <2>1
    <3> HIDE DEF h
    <3>2. \A k \in 0 .. MaxNodes : g[k] = h(k)
      BY <3>1
    <3> QED  BY <3>2 DEF h
  <2> QED  BY <1>1, <2>2
<1> DEFINE T == {k \in 0 .. MaxNodes : g[k] \in X /\ n \in g[k]}
<1>12. \A k \in 0 .. MaxNodes : g[k] \in X /\ n \in g[k]
  <2>1. 0 \in T
    BY <1>1, <1>5, <1>11
  <2>2. \A k \in 0 .. MaxNodes : k \in T /\ k < MaxNodes => k + 1 \in T
    <3> SUFFICES ASSUME NEW k \in 0 .. MaxNodes, k \in T, k < MaxNodes PROVE k + 1 \in T
      OBVIOUS
    <3>1. k + 1 \in 1 .. MaxNodes /\ (k + 1) - 1 = k /\ k + 1 \in 0 .. MaxNodes
      BY <1>1
    <3>2. g[k + 1] = Raised(g[k])
      BY <1>11, <3>1
    <3>3. Raised(g[k]) \in X /\ n \in Raised(g[k])
      BY <1>2 DEF Raised
    <3> QED  BY <3>1, <3>2, <3>3
  <2> HIDE DEF T
  <2>3. \A k \in 0 .. MaxNodes : k \in T
    BY <1>1, <2>1, <2>2, Climb
  <2> QED  BY <2>3 DEF T
<1> HIDE DEF T
<1>13. ASSUME NEW S \in SUBSET Tree, n \in S, Upward(S) PROVE g[MaxNodes] \subseteq S
  <2> DEFINE V == {k \in 0 .. MaxNodes : g[k] \subseteq S}
  <2>1. 0 \in V
    BY <1>1, <1>11, <1>13
  <2>2. \A k \in 0 .. MaxNodes : k \in V /\ k < MaxNodes => k + 1 \in V
    <3> SUFFICES ASSUME NEW k \in 0 .. MaxNodes, k \in V, k < MaxNodes PROVE k + 1 \in V
      OBVIOUS
    <3>1. k + 1 \in 1 .. MaxNodes /\ (k + 1) - 1 = k /\ k + 1 \in 0 .. MaxNodes
      BY <1>1
    <3>2. g[k + 1] = Raised(g[k])
      BY <1>11, <3>1
    <3>3. Raised(g[k]) \subseteq S
      BY <1>13 DEF Raised, Upward
    <3> QED  BY <3>1, <3>2, <3>3
  <2> HIDE DEF V
  <2>3. \A k \in 0 .. MaxNodes : k \in V
    BY <1>1, <2>1, <2>2, Climb
  <2> QED  BY <1>1, <2>3 DEF V
<1>14. Upward(g[MaxNodes])
  <2>0. IsFiniteSet(Tree) /\ Tree \subseteq 0 .. MaxNodes /\ \A S \in X : IsFiniteSet(S) /\ Cardinality(S) \in Nat
    <3>1. Tree \subseteq 0 .. MaxNodes
      BY DEF Shape, Ids, Root
    <3>2. IsFiniteSet(0 .. MaxNodes)
      BY <1>1, FS_Interval
    <3>3. IsFiniteSet(Tree)
      BY <3>1, <3>2, FS_Subset
    <3> QED  BY <3>1, <3>3, FS_Subset, FS_CardinalityType
  <2> DEFINE V == {k \in 0 .. MaxNodes : Raised(g[k]) = g[k] \/ Cardinality(g[k]) >= k + 1}
  <2>1. 0 \in V
    <3>1. Cardinality({n}) = 1
      BY FS_Singleton
    <3>2. Cardinality(g[0]) >= 0 + 1
      BY <1>11, <3>1
    <3> QED  BY <1>1, <3>2
  <2>2. \A k \in 0 .. MaxNodes : k \in V /\ k < MaxNodes => k + 1 \in V
    <3> SUFFICES ASSUME NEW k \in 0 .. MaxNodes, k \in V, k < MaxNodes PROVE k + 1 \in V
      OBVIOUS
    <3>1. k + 1 \in 1 .. MaxNodes /\ (k + 1) - 1 = k /\ k + 1 \in 0 .. MaxNodes
      BY <1>1
    <3>2. g[k + 1] = Raised(g[k])
      BY <1>11, <3>1
    <3>3. g[k] \in X /\ g[k + 1] \in X
      BY <1>12, <3>1
    <3>4. CASE Raised(g[k]) = g[k]
      BY <3>1, <3>2, <3>4
    <3>5. CASE Raised(g[k]) # g[k]
      <4>1. Cardinality(g[k]) >= k + 1
        BY <3>5
      <4>2. PICK x \in Raised(g[k]) : x \notin g[k]
        BY <3>5 DEF Raised
      <4> DEFINE A == g[k]
                 B == g[k + 1]
      <4>3. A \cup {x} \subseteq B
        BY <3>2, <4>2 DEF Raised
      <4>4. IsFiniteSet(A) /\ IsFiniteSet(B) /\ Cardinality(A) \in Nat /\ Cardinality(B) \in Nat
        BY <2>0, <3>3
      <4>5. x \notin A /\ Cardinality(A) >= k + 1
        BY <4>1, <4>2
      <4> HIDE DEF A, B
      <4>6. Cardinality(A \cup {x}) = Cardinality(A) + 1 /\ IsFiniteSet(A \cup {x})
        BY <4>4, <4>5, FS_AddElement
      <4>7. Cardinality(A \cup {x}) <= Cardinality(B)
        BY <4>3, <4>4, FS_Subset
      <4>8. Cardinality(B) >= (k + 1) + 1
        BY <1>1, <4>4, <4>5, <4>6, <4>7
      <4> QED  BY <3>1, <4>8 DEF B
    <3> QED  BY <3>4, <3>5
  <2>3. MaxNodes \in V
    <3> HIDE DEF V
    <3>1. \A k \in 0 .. MaxNodes : k \in V
      BY <1>1, <2>1, <2>2, Climb
    <3> QED  BY <1>1, <3>1
  <2>4. g[MaxNodes] \in X
    BY <1>1, <1>12
  <2>5. Raised(g[MaxNodes]) = g[MaxNodes]
    <3>1. CASE Cardinality(g[MaxNodes]) >= MaxNodes + 1
      <4> DEFINE A == g[MaxNodes]
                 B == 0 .. MaxNodes
      <4>1. IsFiniteSet(B) /\ Cardinality(B) = MaxNodes + 1
        BY <1>1, FS_Interval
      <4>2. A \subseteq B /\ Cardinality(A) \in Nat /\ Cardinality(A) >= MaxNodes + 1
        BY <2>0, <2>4, <3>1
      <4> HIDE DEF A, B
      <4>3. A = B
        BY <1>1, <4>1, <4>2, FS_Subset
      <4>4. A \subseteq Tree /\ Tree \subseteq B /\ A \in X
        BY <2>0, <2>4 DEF A, B
      <4>5. Raised(A) \subseteq Tree
        BY <1>2, <4>4
      <4> QED  BY <4>3, <4>4, <4>5 DEF Raised, A
    <3> QED  BY <2>3, <3>1
  <2> QED  BY <2>5 DEF Raised, Upward
<1> QED  BY <1>1, <1>10, <1>12, <1>13, <1>14

\* The lineage of a node is that of its parent and the node itself, which is not in it;
\* and the root is in every lineage.
LEMMA LineageStep ==
    ASSUME Shape
    PROVE  /\ \A m \in Tree : Root \in Lineage(m)
           /\ Lineage(Root) = {Root}
           /\ \A m \in Tree : \A p \in ParentOf(m) :
                 Lineage(m) = Lineage(p) \cup {m} /\ m \notin Lineage(p)
           /\ \A m \in Tree : m # Root => ParentOf(m) # {}
<1>0. Root \in Tree /\ ParentOf(Root) = {} /\ \A S \in SUBSET Tree : Root \in S /\ Closed(S) => S = Tree
  BY DEF Shape, ParentOf
<1>1. ASSUME NEW m \in Tree PROVE Root \in Lineage(m)
  <2> DEFINE L == Lineage(m)
             S == Tree \ L
  <2>1. m \in L /\ L \subseteq Tree /\ Upward(L)
    BY LineageLeast
  <2> HIDE DEF L
  <2>2. ASSUME NEW x \in S, NEW c \in ToSet(children[x]) PROVE c \in S
    <3>1. x \in ParentOf(c) /\ c \in Tree
      <4>1. x \in ParentOf(c)
        BY DEF ParentOf
      <4> QED  BY <4>1, ParentsOf
    <3> QED  BY <2>1, <3>1 DEF Upward
  <2>3. Closed(S)
    BY <2>2 DEF Closed
  <2> QED  BY <1>0, <2>1, <2>3 DEF L
<1>2. Lineage(Root) = {Root}
  <2>1. Upward({Root})
    BY <1>0 DEF Upward
  <2>2. {Root} \in SUBSET Tree /\ Root \in {Root}
    BY <1>0
  <2> QED  BY <1>0, <2>1, <2>2, LineageLeast
<1>3. ASSUME NEW m \in Tree, NEW p \in ParentOf(m) PROVE Lineage(m) = Lineage(p) \cup {m}
  <2> DEFINE L == Lineage(m)
             K == Lineage(p)
  <2>0. p \in Tree /\ \A q \in ParentOf(m) : q = p
    BY ParentsOf
  <2>1. m \in L /\ L \subseteq Tree /\ Upward(L) /\ \A S \in SUBSET Tree : m \in S /\ Upward(S) => L \subseteq S
    BY LineageLeast
  <2>2. p \in K /\ K \subseteq Tree /\ Upward(K) /\ \A S \in SUBSET Tree : p \in S /\ Upward(S) => K \subseteq S
    BY <2>0, LineageLeast
  <2> HIDE DEF L, K
  <2>3. p \in L
    BY <2>1 DEF Upward
  <2>4. K \subseteq L
    BY <2>1, <2>2, <2>3
  <2>5. Upward(K \cup {m})
    BY <2>0, <2>2 DEF Upward
  <2>6. L \subseteq K \cup {m}
    BY <2>1, <2>2, <2>5
  <2> QED  BY <2>1, <2>4, <2>6 DEF L, K
<1>4. ASSUME NEW m \in Tree, NEW p \in ParentOf(m), m \in Lineage(p) PROVE FALSE
  <2> DEFINE K == Lineage(p)
             S == {x \in K : m \in Lineage(x)}
  <2>0. p \in Tree /\ \A q \in ParentOf(m) : q = p
    BY ParentsOf
  <2>1. p \in K /\ K \subseteq Tree /\ Upward(K) /\ \A V \in SUBSET Tree : p \in V /\ Upward(V) => K \subseteq V
    BY <2>0, LineageLeast
  <2>2. Root \in K /\ m \in K
    BY <1>1, <1>4, <2>0
  <2>3. ASSUME NEW x \in S, NEW q \in ParentOf(x) PROVE m \in Lineage(q)
    <3>1. x \in Tree /\ Lineage(x) = Lineage(q) \cup {x}
      BY <1>3, <2>1
    <3> QED  BY <1>4, <2>0, <3>1
  <2>4. p \in S /\ S \in SUBSET Tree
    BY <1>4, <2>1
  <2>5. Upward(S)
    BY <2>1, <2>3 DEF Upward
  <2> HIDE DEF K
  <2>6. Root \in S
    BY <2>1, <2>2, <2>4, <2>5
  <2>7. m = Root
    BY <1>2, <2>6
  <2> QED  BY <1>0, <2>7
<1>5. \A m \in Tree : m # Root => ParentOf(m) # {}
  BY RootAbove DEF ParentOf
<1> QED  BY <1>1, <1>2, <1>3, <1>4, <1>5

\* A node of a lineage is the node it is of, or the parent of another one in it.
LEMMA LineageWay ==
    ASSUME Shape, NEW n \in Tree, NEW m \in Lineage(n), m # n
    PROVE  \E c \in Lineage(n) : m \in ParentOf(c)
<1> DEFINE L == Lineage(n)
           S == {x \in L : x = n \/ \E c \in L : x \in ParentOf(c)}
<1>1. n \in L /\ L \subseteq Tree /\ Upward(L) /\ \A V \in SUBSET Tree : n \in V /\ Upward(V) => L \subseteq V
  BY LineageLeast
<1>2. m \in L
  OBVIOUS
<1> HIDE DEF L
<1>3. n \in S /\ S \in SUBSET Tree /\ Upward(S)
  BY <1>1 DEF Upward
<1>4. L \subseteq S
  BY <1>1, <1>3
<1> QED  BY <1>2, <1>4 DEF L

-----------------------------------------------------------------------------
(* The nodes around a node.                                                *)

\* The steps of the tree from n to m.
Far(n, m) == Cardinality((Lineage(n) \cup Lineage(m)) \ (Lineage(n) \cap Lineage(m)))

\* The nodes next to m.
Beside(m) == ToSet(children[m]) \cup ParentOf(m)

\* Lineages are finite, so distances are numbers.
LEMMA FarNat ==
    ASSUME Shape, NEW n \in Tree, NEW m \in Tree
    PROVE  /\ IsFiniteSet(Lineage(m)) /\ Far(n, m) \in Nat
           /\ IsFiniteSet((Lineage(n) \cup Lineage(m)) \ (Lineage(n) \cap Lineage(m)))
<1>1. IsFiniteSet(0 .. MaxNodes)
  BY PlanGenerationAssumption, FS_Interval
<1>2. Tree \subseteq 0 .. MaxNodes
  BY DEF Shape, Ids, Root
<1>3. Lineage(n) \subseteq Tree /\ Lineage(m) \subseteq Tree
  BY LineageLeast
<1> DEFINE D == (Lineage(n) \cup Lineage(m)) \ (Lineage(n) \cap Lineage(m))
<1>4. Lineage(m) \subseteq 0 .. MaxNodes /\ D \subseteq 0 .. MaxNodes
  BY <1>2, <1>3
<1>5. IsFiniteSet(Lineage(m)) /\ IsFiniteSet(D)
  <2> HIDE DEF D
  <2> QED  BY <1>1, <1>4, FS_Subset
<1>6. Cardinality(D) \in Nat
  BY <1>5, FS_CardinalityType
<1> QED  BY <1>5, <1>6 DEF Far

\* From a node to its parent it is a step towards n, unless it is above n: then it is one away.
LEMMA FarEdge ==
    ASSUME Shape, NEW n \in Tree, NEW m \in Tree, NEW p \in ParentOf(m)
    PROVE  /\ p \in Tree
           /\ m \in Lineage(n) => Far(n, p) = Far(n, m) + 1
           /\ m \notin Lineage(n) => Far(n, m) = Far(n, p) + 1
<1> DEFINE A == Lineage(n)
           K == Lineage(p)
           L == Lineage(m)
           D(S) == (A \cup S) \ (A \cap S)
<1>1. p \in Tree
  BY ParentsOf
<1>2. L = K \cup {m} /\ m \notin K
  BY LineageStep
<1>3. IsFiniteSet(D(K)) /\ IsFiniteSet(D(L)) /\ Cardinality(D(K)) \in Nat /\ Cardinality(D(L)) \in Nat
  BY <1>1, FarNat DEF Far
<1>4. Far(n, p) = Cardinality(D(K)) /\ Far(n, m) = Cardinality(D(L))
  BY DEF Far
<1> HIDE DEF A, K, L
<1>5. ASSUME m \in A PROVE Cardinality(D(K)) = Cardinality(D(L)) + 1
  <2>1. D(K) = D(L) \cup {m} /\ m \notin D(L)
    BY <1>2, <1>5
  <2> HIDE DEF D
  <2> QED  BY <1>3, <2>1, FS_AddElement
<1>6. ASSUME m \notin A PROVE Cardinality(D(L)) = Cardinality(D(K)) + 1
  <2>1. D(L) = D(K) \cup {m} /\ m \notin D(K)
    BY <1>2, <1>6
  <2> HIDE DEF D
  <2> QED  BY <1>3, <2>1, FS_AddElement
<1> QED  BY <1>1, <1>4, <1>5, <1>6 DEF A

\* Nodes next to each other are a step apart.
LEMMA FarBeside ==
    ASSUME Shape, NEW n \in Tree, NEW m \in Tree, NEW x \in Beside(m)
    PROVE  x \in Tree /\ m \in Beside(x) /\ Far(n, x) \in Nat /\ Far(n, x) <= Far(n, m) + 1
<1>1. CASE x \in ParentOf(m)
  <2>1. x \in Tree /\ m \in ToSet(children[x])
    BY <1>1, ParentsOf
  <2>2. Far(n, x) \in Nat /\ Far(n, m) \in Nat
    BY <2>1, FarNat
  <2>3. Far(n, x) = Far(n, m) + 1 \/ Far(n, m) = Far(n, x) + 1
    BY <1>1, FarEdge
  <2>4. Far(n, x) <= Far(n, m) + 1
    BY <2>2, <2>3
  <2> QED  BY <2>1, <2>2, <2>4 DEF Beside
<1>2. CASE x \in ToSet(children[m])
  <2>1. m \in ParentOf(x)
    BY <1>2 DEF ParentOf
  <2>2. x \in Tree
    BY <2>1, ParentsOf
  <2>3. Far(n, x) \in Nat /\ Far(n, m) \in Nat
    BY <2>2, FarNat
  <2>4. Far(n, m) = Far(n, x) + 1 \/ Far(n, x) = Far(n, m) + 1
    BY <2>1, <2>2, FarEdge
  <2>5. Far(n, x) <= Far(n, m) + 1
    BY <2>3, <2>4
  <2> QED  BY <2>1, <2>2, <2>3, <2>5 DEF Beside
<1> QED  BY <1>1, <1>2 DEF Beside

\* From every node but n there is a step towards n.
LEMMA Nearer ==
    ASSUME Shape, NEW n \in Tree, NEW m \in Tree, m # n
    PROVE  \E x \in Beside(m) : Far(n, m) = Far(n, x) + 1
<1>1. CASE m \in Lineage(n)
  <2>1. PICK c \in Lineage(n) : m \in ParentOf(c)
    BY <1>1, LineageWay
  <2>2. c \in Tree /\ c \in ToSet(children[m])
    BY <2>1, ParentsOf
  <2>3. Far(n, m) = Far(n, c) + 1
    BY <2>1, <2>2, FarEdge
  <2> QED  BY <2>2, <2>3 DEF Beside
<1>2. CASE m \notin Lineage(n)
  <2>1. ParentOf(m) # {}
    BY <1>2, LineageStep
  <2>2. PICK p \in ParentOf(m) : TRUE
    BY <2>1
  <2>3. Far(n, m) = Far(n, p) + 1
    BY <1>2, FarEdge
  <2> QED  BY <2>3 DEF Beside
<1> QED  BY <1>1, <1>2

\* What the search finds next to m is what is there and was not found before.
LEMMA AroundOf ==
    ASSUME Shape, NEW m \in Tree, NEW s \in Seq(Tree)
    PROVE  /\ Around(m, s) \in Seq(Tree)
           /\ Lists(Around(m, s), Beside(m) \ ToSet(s))
<1> DEFINE P == ParentOf(m)
           C == ToSet(children[m])
           next == children[m] \o SetToSeq(P)
           I == {i \in DOMAIN next : next[i] \notin ToSet(s)}
<1>1. P \subseteq Tree /\ C \subseteq Tree /\ IsFiniteSet(P)
  <2>1. P \subseteq Tree /\ \A p, q \in P : p = q
    BY ParentsOf
  <2>2. IsFiniteSet(P)
    <3>1. CASE P = {}
      BY <3>1, FS_EmptySet
    <3>2. CASE P # {}
      <4>1. PICK p : P = {p}
        BY <2>1, <3>2
      <4> QED  BY <4>1, FS_Singleton
    <3> QED  BY <3>1, <3>2
  <2>3. children[m] \in Seq(Tree)
    BY DEF Shape
  <2>4. C \subseteq Tree
    BY <2>3 DEF ToSet
  <2> QED  BY <2>1, <2>2, <2>4
<1>2. Lists(children[m], C)
  BY DEF Shape
<1>3. Lists(SetToSeq(P), P)
  BY <1>1, SetToSeqOf
<1>4. C \cap P = {}
  <2> SUFFICES ASSUME NEW p \in P, p \in C PROVE FALSE
    OBVIOUS
  <2>1. m \in ParentOf(p) /\ p \in Tree
    BY <1>1 DEF ParentOf
  <2>2. Lineage(p) = Lineage(m) \cup {p} /\ m \notin Lineage(p) /\ m \in Lineage(m)
    BY <2>1, LineageStep, LineageLeast
  <2> QED  BY <2>2
<1>5. Lists(next, C \cup P)
  <2> HIDE DEF P, C
  <2> QED  BY <1>2, <1>3, <1>4, ConcatLists
<1>6. Around(m, s) = Picked(next, I)
  BY DEF Around
<1>7. Beside(m) = C \cup P /\ C \cup P \subseteq Tree
  BY <1>1 DEF Beside
<1> HIDE DEF next, P, C
<1>8. DOMAIN next = 1 .. Len(next) /\ Len(next) \in Nat /\ {next[i] : i \in DOMAIN next} = C \cup P
  BY <1>5 DEF Lists
<1>9. Lists(Picked(next, I), {next[i] : i \in I})
  BY <1>5, <1>8, PickedLists
<1>10. {next[i] : i \in I} = (C \cup P) \ ToSet(s)
  BY <1>8
<1>11. Lists(Around(m, s), Beside(m) \ ToSet(s))
  BY <1>6, <1>7, <1>9, <1>10
<1>12. Around(m, s) \in Seq(Tree)
  <2> DEFINE t == Around(m, s)
             D == Beside(m) \ ToSet(s)
  <2>1. Lists(t, D) /\ D \subseteq Tree
    BY <1>7, <1>11
  <2> HIDE DEF t, D
  <2> QED  BY <2>1 DEF Lists, t
<1> QED  BY <1>11, <1>12

-----------------------------------------------------------------------------
(* The search around a node.                                             *)

\* What the search finds when it comes to the k-th node, and what it has found then.
News(s, k) == IF k > Len(s) THEN <<>> ELSE Around(s[k], s)
Found(s, k) == s \o SubSeq(News(s, k), 1, Min({Len(News(s, k)), Limit - Len(s)}))

\* One of S is above all of them, and the only one whose parent is not in S.
Topped(S) == \E t \in S : \A m \in S : t \in Lineage(m) /\ (m = t \/ ParentOf(m) \cap S # {})

\* What was found from n when the first k nodes were looked at: the limit is reached and
\* none is nearer than what was found, or all that is next to the k nodes was found and
\* the others are at most a step farther than the one that comes next.
Scanned(n, k, s) ==
    /\ s \in Seq(Tree) /\ Len(s) \in 1 .. Limit /\ s[1] = n
    /\ \A i, j \in 1 .. Len(s) : s[i] = s[j] => i = j
    /\ \A i, j \in 1 .. Len(s) : i <= j => Far(n, s[i]) <= Far(n, s[j])
    /\ Topped(ToSet(s))
    /\ \/ /\ Len(s) = Limit
          /\ \A x \in Tree \ ToSet(s) : \A i \in 1 .. Len(s) : Far(n, s[i]) <= Far(n, x)
       \/ /\ Len(s) < Limit
          /\ \A i \in 1 .. Len(s) : i <= k => Beside(s[i]) \subseteq ToSet(s)
          /\ k < Len(s) => \A i \in 1 .. Len(s) : Far(n, s[i]) <= Far(n, s[k + 1]) + 1

\* What is found is appended, up to the limit.
LEMMA FoundOf ==
    ASSUME Shape, NEW s \in Seq(Tree), Len(s) <= Limit, NEW k \in Nat \ {0}
    PROVE  /\ News(s, k) \in Seq(Tree) /\ Found(s, k) \in Seq(Tree)
           /\ \E b \in 0 .. Len(News(s, k)) :
                 /\ b <= Limit - Len(s) /\ (b = Len(News(s, k)) \/ b = Limit - Len(s))
                 /\ Len(Found(s, k)) = Len(s) + b
                 /\ \A i \in 1 .. Len(s) : Found(s, k)[i] = s[i]
                 /\ \A i \in 1 .. b : Found(s, k)[Len(s) + i] = News(s, k)[i]
<1> DEFINE new == News(s, k)
           T == {Len(new), Limit - Len(s)}
           b == Min(T)
           t == SubSeq(new, 1, b)
<1>1. new \in Seq(Tree)
  <2>1. CASE k > Len(s)
    BY <2>1 DEF News
  <2>2. CASE ~ k > Len(s)
    <3>1. s[k] \in Tree
      BY <2>2
    <3> QED  BY <2>2, <3>1, AroundOf DEF News
  <2> QED  BY <2>1, <2>2
<1>2. Found(s, k) = s \o t
  BY DEF Found
<1> HIDE DEF new
<1>3. Limit \in Nat /\ Len(s) \in Nat /\ Len(new) \in Nat
  BY <1>1, PlanGenerationAssumption
<1>4. T \in SUBSET Nat /\ T # {}
  BY <1>3
<1>5. b \in T /\ \A j \in T : b <= j
  <2> HIDE DEF T
  <2> QED  BY <1>4, MinOf
<1>6. b \in 0 .. Len(new) /\ b <= Limit - Len(s) /\ (b = Len(new) \/ b = Limit - Len(s))
  BY <1>3, <1>5
<1> HIDE DEF b
<1>7. t \in Seq(Tree) /\ Len(t) = b /\ \A i \in 1 .. b : t[i] = new[i]
  BY <1>1, <1>6
<1> HIDE DEF t
<1>8. /\ s \o t \in Seq(Tree) /\ Len(s \o t) = Len(s) + b
      /\ \A i \in 1 .. Len(s) : (s \o t)[i] = s[i]
      /\ \A i \in 1 .. b : (s \o t)[Len(s) + i] = new[i]
  <2>1. /\ s \o t \in Seq(Tree) /\ Len(s \o t) = Len(s) + Len(t)
        /\ \A i \in 1 .. Len(s) : (s \o t)[i] = s[i]
        /\ \A i \in 1 .. Len(t) : (s \o t)[Len(s) + i] = t[i]
    <3> DEFINE S == Tree
    <3>1. s \in Seq(S) /\ t \in Seq(S)
      BY <1>7
    <3> HIDE DEF S
    <3>2. /\ s \o t \in Seq(S) /\ Len(s \o t) = Len(s) + Len(t)
          /\ \A i \in 1 .. Len(s) : (s \o t)[i] = s[i]
          /\ \A i \in 1 .. Len(t) : (s \o t)[Len(s) + i] = t[i]
      BY <3>1, JoinOf
    <3> QED  BY <3>2 DEF S
  <2> QED  BY <1>7, <2>1
<1> DEFINE r == Found(s, k)
<1>9. r = s \o t
  BY <1>2
<1> HIDE DEF r
<1>10. /\ b \in 0 .. Len(new) /\ b <= Limit - Len(s) /\ (b = Len(new) \/ b = Limit - Len(s))
       /\ Len(r) = Len(s) + b
       /\ \A i \in 1 .. Len(s) : r[i] = s[i]
       /\ \A i \in 1 .. b : r[Len(s) + i] = new[i]
  BY <1>6, <1>8, <1>9
<1>11. r \in Seq(Tree)
  BY <1>8, <1>9
<1> QED  BY <1>1, <1>10, <1>11 DEF new, r

\* What is next to a node of a set with a top can join it.
LEMMA ToppedMore ==
    ASSUME Shape, NEW S \in SUBSET Tree, Topped(S), NEW m \in S, NEW T, T \subseteq Beside(m)
    PROVE  Topped(S \cup T)
<1>1. PICK t \in S : \A x \in S : t \in Lineage(x) /\ (x = t \/ ParentOf(x) \cap S # {})
  BY DEF Topped
<1>2. \A x \in Tree : Upward(Lineage(x)) /\ x \in Lineage(x)
  BY LineageLeast
<1>3. ASSUME NEW c \in ToSet(children[m]) PROVE m \in ParentOf(c) /\ \A x \in Lineage(m) : x \in Lineage(c)
  <2>1. m \in ParentOf(c)
    BY DEF ParentOf
  <2>2. c \in Tree
    BY <2>1, ParentsOf
  <2>3. Lineage(c) = Lineage(m) \cup {c}
    BY <2>1, <2>2, LineageStep
  <2> QED  BY <2>1, <2>3
<1>4. CASE ParentOf(m) \cap T \subseteq S
  <2>1. ASSUME NEW x \in S \cup T, x \notin S
        PROVE  t \in Lineage(x) /\ ParentOf(x) \cap (S \cup T) # {}
    <3>1. x \in ToSet(children[m])
      BY <1>4, <2>1 DEF Beside
    <3> QED  BY <1>1, <1>3, <3>1
  <2>2. \A x \in S \cup T : t \in Lineage(x) /\ (x = t \/ ParentOf(x) \cap (S \cup T) # {})
    BY <1>1, <2>1
  <2> QED  BY <2>2 DEF Topped
<1>5. CASE ~ (ParentOf(m) \cap T \subseteq S)
  <2>1. PICK p \in ParentOf(m) \cap T : p \notin S
    BY <1>5
  <2>2. \A q \in ParentOf(m) : q = p
    BY <2>1, ParentsOf
  <2>3. m = t
    BY <1>1, <2>1, <2>2
  <2>4. \A x \in S : p \in Lineage(x)
    BY <1>1, <1>2, <2>1, <2>3 DEF Upward
  <2>5. p \in Tree
    BY <2>1, ParentsOf
  <2>6. ASSUME NEW x \in S \cup T
        PROVE  p \in Lineage(x) /\ (x = p \/ ParentOf(x) \cap (S \cup T) # {})
    <3>1. CASE x \in S
      BY <1>1, <2>1, <2>3, <2>4, <3>1
    <3>2. CASE x = p
      BY <1>2, <2>5, <3>2
    <3>3. CASE x \in ToSet(children[m])
      BY <1>3, <2>4, <3>3
    <3>4. x \in S \/ x = p \/ x \in ToSet(children[m])
      BY <2>2 DEF Beside
    <3> QED  BY <3>1, <3>2, <3>3, <3>4
  <2> QED  BY <2>1, <2>6 DEF Topped
<1> QED  BY <1>4, <1>5

\* What was not found is farther away than the node to look at next.
LEMMA Outside ==
    ASSUME Shape, NEW n \in Tree, NEW k \in Nat, NEW s, Scanned(n, k, s), Len(s) < Limit, k < Len(s),
           NEW x \in Tree \ ToSet(s)
    PROVE  Far(n, s[k + 1]) + 1 <= Far(n, x)
<1> DEFINE W == Tree \ ToSet(s)
           D == {Far(n, y) : y \in W}
           v == Min(D)
<1>1. /\ s \in Seq(Tree) /\ Len(s) \in Nat /\ s[1] = n /\ Limit \in Nat
      /\ \A i, j \in 1 .. Len(s) : i <= j => Far(n, s[i]) <= Far(n, s[j])
      /\ \A i \in 1 .. Len(s) : i <= k => Beside(s[i]) \subseteq ToSet(s)
  BY PlanGenerationAssumption DEF Scanned
<1>2. \A y \in Tree : Far(n, y) \in Nat
  BY FarNat
<1>3. D \in SUBSET Nat /\ D # {}
  BY <1>2
<1>4. v \in D /\ \A j \in D : v <= j
  <2> HIDE DEF D
  <2> QED  BY <1>3, MinOf
<1> HIDE DEF v
<1>5. PICK w \in W : Far(n, w) = v
  BY <1>4
<1>6. \A y \in W : Far(n, w) <= Far(n, y)
  BY <1>4, <1>5
<1>7. ToSet(s) = {s[i] : i \in 1 .. Len(s)}
  BY <1>1 DEF ToSet
<1>8. w # n
  BY <1>1, <1>7
<1>9. PICK y \in Beside(w) : Far(n, w) = Far(n, y) + 1
  BY <1>8, Nearer
<1>10. y \in Tree /\ w \in Beside(y)
  BY FarBeside
<1>11. y \notin W
  BY <1>2, <1>6, <1>9, <1>10
<1>12. PICK j \in 1 .. Len(s) : y = s[j]
  BY <1>7, <1>10, <1>11
<1>13. k + 1 <= j
  BY <1>1, <1>10, <1>12
<1>14. Far(n, s[k + 1]) <= Far(n, y)
  BY <1>1, <1>12, <1>13
<1>15. Far(n, s[k + 1]) \in Nat /\ Far(n, y) \in Nat /\ Far(n, x) \in Nat /\ Far(n, w) <= Far(n, x)
  <2>1. s[k + 1] \in Tree
    BY <1>1
  <2> QED  BY <1>2, <1>6, <1>10, <2>1
<1> QED  BY <1>9, <1>14, <1>15

\* Looking at one more node keeps it so.
LEMMA ScanStep ==
    ASSUME Shape, NEW n \in Tree, NEW k \in Nat, NEW s, Scanned(n, k, s)
    PROVE  Scanned(n, k + 1, Found(s, k + 1))
<1> DEFINE new == News(s, k + 1)
           r == Found(s, k + 1)
           l == Len(s)
           F(y) == Far(n, y)
<1>1. /\ s \in Seq(Tree) /\ l \in 1 .. Limit /\ s[1] = n /\ Limit \in Nat
      /\ \A i, j \in 1 .. l : s[i] = s[j] => i = j
      /\ \A i, j \in 1 .. l : i <= j => F(s[i]) <= F(s[j])
      /\ Topped(ToSet(s))
  BY PlanGenerationAssumption DEF Scanned
<1>2. PICK b \in 0 .. Len(new) :
         /\ b <= Limit - l /\ (b = Len(new) \/ b = Limit - l)
         /\ Len(r) = l + b
         /\ \A i \in 1 .. l : r[i] = s[i]
         /\ \A i \in 1 .. b : r[l + i] = new[i]
  BY <1>1, FoundOf
<1>3. new \in Seq(Tree) /\ r \in Seq(Tree)
  BY <1>1, FoundOf
<1>4. \A y \in Tree : F(y) \in Nat
  BY FarNat
<1>5. \A q \in Seq(Tree) : ToSet(q) = {q[i] : i \in 1 .. Len(q)}
  BY DEF ToSet
<1>n. k + 1 > l => new = <<>>
  BY DEF News
<1>a. k + 1 <= l => new = Around(s[k + 1], s)
  BY <1>1 DEF News
<1>s. ASSUME b = 0 PROVE r = s
  <2>1. Len(r) = l /\ \A i \in 1 .. l : r[i] = s[i]
    BY <1>1, <1>2, <1>s
  <2> HIDE DEF r
  <2> QED  BY <1>1, <1>3, <2>1, SameSeq
<1>6. CASE l = Limit
  <2>1. r = s
    BY <1>1, <1>2, <1>6, <1>s
  <2>2. Scanned(n, k + 1, s)
    BY <1>6 DEF Scanned
  <2> QED  BY <2>1, <2>2
<1>7. CASE l < Limit /\ k + 1 > l
  <2>1. r = s
    BY <1>2, <1>7, <1>n, <1>s
  <2>2. Scanned(n, k + 1, s)
    BY <1>1, <1>7 DEF Scanned
  <2> QED  BY <2>1, <2>2
<1>8. CASE l < Limit /\ k + 1 <= l
  <2> DEFINE m == s[k + 1]
             d == F(m)
  <2>1. m \in Tree /\ m \in ToSet(s) /\ d \in Nat /\ k + 1 \in 1 .. l
    <3>1. k + 1 \in 1 .. l
      BY <1>1, <1>8
    <3> QED  BY <1>1, <1>4, <1>5, <3>1
  <2>2. /\ \A i \in 1 .. l : i <= k => Beside(s[i]) \subseteq ToSet(s)
        /\ \A i \in 1 .. l : F(s[i]) <= d + 1
    BY <1>1, <1>8 DEF Scanned
  <2>3. \A x \in Tree \ ToSet(s) : d + 1 <= F(x)
    BY <1>1, <1>8, Outside
  <2>4. Lists(new, Beside(m) \ ToSet(s))
    BY <1>1, <1>8, <1>a, <2>1, AroundOf
  <2>5. /\ \A i \in 1 .. Len(new) : new[i] \in Beside(m) /\ new[i] \notin ToSet(s)
        /\ \A i, j \in 1 .. Len(new) : new[i] = new[j] => i = j
        /\ \A x \in Beside(m) : x \in ToSet(s) \/ \E i \in 1 .. Len(new) : new[i] = x
    <3> HIDE DEF new, m
    <3> QED  BY <2>4 DEF Lists
  <2>6. \A x \in Beside(m) : x \in Tree /\ F(x) <= d + 1
    BY <2>1, FarBeside
  <2> HIDE DEF new, r, l, F, m, d
  <2>7. \A i \in 1 .. b : new[i] \in Tree /\ F(new[i]) = d + 1
    <3> SUFFICES ASSUME NEW i \in 1 .. b PROVE new[i] \in Tree /\ F(new[i]) = d + 1
      OBVIOUS
    <3>1. i \in 1 .. Len(new)
      BY <1>2, <1>3
    <3>2. new[i] \in Tree /\ F(new[i]) <= d + 1 /\ new[i] \notin ToSet(s)
      BY <2>5, <2>6, <3>1
    <3>3. d + 1 <= F(new[i]) /\ F(new[i]) \in Nat
      BY <1>4, <2>3, <3>2
    <3> QED  BY <2>1, <3>2, <3>3
  <2>8. b \in Nat /\ l \in Nat /\ l >= 1 /\ Limit \in Nat /\ Len(r) = l + b /\ l + b <= Limit /\ b <= Len(new)
    BY <1>1, <1>2, <1>3
  <2>9. \A i \in 1 .. Len(r) : \/ i \in 1 .. l /\ r[i] = s[i]
                               \/ i - l \in 1 .. b /\ i \notin 1 .. l /\ r[i] = new[i - l]
    <3> SUFFICES ASSUME NEW i \in 1 .. Len(r), i \notin 1 .. l
                 PROVE  i - l \in 1 .. b /\ r[i] = new[i - l]
      BY <1>2
    <3>1. i - l \in 1 .. b /\ l + (i - l) = i
      BY <2>8
    <3> QED  BY <1>2, <3>1
  <2>10. ToSet(r) = ToSet(s) \cup {new[i] : i \in 1 .. b}
    <3>1. ToSet(r) \subseteq ToSet(s) \cup {new[i] : i \in 1 .. b}
      <4> SUFFICES ASSUME NEW i \in 1 .. Len(r) PROVE r[i] \in ToSet(s) \cup {new[j] : j \in 1 .. b}
        BY <1>3, <1>5
      <4> QED  BY <1>1, <1>5, <2>9 DEF l
    <3>2. \A i \in 1 .. l : s[i] \in ToSet(r)
      <4> SUFFICES ASSUME NEW i \in 1 .. l PROVE s[i] \in ToSet(r)
        OBVIOUS
      <4>1. i \in 1 .. Len(r) /\ r[i] = s[i]
        BY <1>2, <2>8
      <4> QED  BY <1>3, <1>5, <4>1
    <3>3. \A i \in 1 .. b : new[i] \in ToSet(r)
      <4> SUFFICES ASSUME NEW i \in 1 .. b PROVE new[i] \in ToSet(r)
        OBVIOUS
      <4>1. l + i \in 1 .. Len(r) /\ r[l + i] = new[i]
        BY <1>2, <2>8
      <4> QED  BY <1>3, <1>5, <4>1
    <3> QED  BY <1>1, <1>5, <3>1, <3>2, <3>3 DEF l
  <2>11. Len(r) \in 1 .. Limit /\ r[1] = n
    BY <1>1, <1>2, <2>8
  <2>12. \A i, j \in 1 .. Len(r) : r[i] = r[j] => i = j
    <3> SUFFICES ASSUME NEW i \in 1 .. Len(r), NEW j \in 1 .. Len(r), r[i] = r[j] PROVE i = j
      OBVIOUS
    <3>1. \A a \in 1 .. l : \A c \in 1 .. b : s[a] # new[c]
      <4> SUFFICES ASSUME NEW a \in 1 .. l, NEW c \in 1 .. b PROVE s[a] # new[c]
        OBVIOUS
      <4>1. c \in 1 .. Len(new)
        BY <1>3, <2>8
      <4>2. s[a] \in ToSet(s)
        BY <1>1, <1>5 DEF l
      <4> QED  BY <2>5, <4>1, <4>2
    <3>2. CASE i \in 1 .. l
      BY <1>1, <2>9, <3>1, <3>2
    <3>3. CASE i \notin 1 .. l
      <4>1. i - l \in 1 .. b /\ r[i] = new[i - l]
        BY <2>9, <3>3
      <4>2. j - l \in 1 .. b /\ r[j] = new[j - l]
        BY <2>9, <3>1, <4>1
      <4>3. i - l \in 1 .. Len(new) /\ j - l \in 1 .. Len(new)
        BY <1>3, <2>8, <4>1, <4>2
      <4>4. i - l = j - l
        BY <2>5, <4>1, <4>2, <4>3
      <4> QED  BY <2>8, <4>4
    <3> QED  BY <3>2, <3>3
  <2>13. \A i, j \in 1 .. Len(r) : i <= j => F(r[i]) <= F(r[j])
    <3> SUFFICES ASSUME NEW i \in 1 .. Len(r), NEW j \in 1 .. Len(r), i <= j PROVE F(r[i]) <= F(r[j])
      OBVIOUS
    <3>1. CASE i \in 1 .. l /\ j \in 1 .. l
      BY <1>1, <1>2, <3>1
    <3>2. CASE i \in 1 .. l /\ j \notin 1 .. l
      <4>1. r[i] = s[i] /\ F(s[i]) <= d + 1
        BY <1>2, <2>2, <3>2
      <4>2. r[j] = new[j - l] /\ j - l \in 1 .. b
        BY <2>9, <3>2
      <4> QED  BY <2>7, <4>1, <4>2
    <3>3. CASE i \notin 1 .. l
      <4>1. r[i] = new[i - l] /\ i - l \in 1 .. b
        BY <2>9, <3>3
      <4>2. j \notin 1 .. l
        BY <2>8, <3>3
      <4>3. r[j] = new[j - l] /\ j - l \in 1 .. b
        BY <2>9, <4>2
      <4>4. F(r[i]) = d + 1 /\ F(r[j]) = d + 1
        BY <2>7, <4>1, <4>3
      <4> QED  BY <2>1, <4>4
    <3> QED  BY <3>1, <3>2, <3>3
  <2>14. Topped(ToSet(r))
    <3> DEFINE N == {new[i] : i \in 1 .. b}
    <3>1. ToSet(s) \in SUBSET Tree
      BY <1>1, <1>5
    <3>2. N \subseteq Beside(m)
      <4> SUFFICES ASSUME NEW i \in 1 .. b PROVE new[i] \in Beside(m)
        OBVIOUS
      <4>1. i \in 1 .. Len(new)
        BY <1>3, <2>8
      <4> QED  BY <2>5, <4>1
    <3> HIDE DEF N
    <3>3. Topped(ToSet(s) \cup N)
      BY <1>1, <2>1, <3>1, <3>2, ToppedMore
    <3> QED  BY <2>10, <3>3 DEF N
  <2>15. CASE l + b = Limit
    <3>1. ASSUME NEW x \in Tree \ ToSet(r), NEW i \in 1 .. Len(r) PROVE F(r[i]) <= F(x)
      <4>1. d + 1 <= F(x) /\ F(x) \in Nat
        BY <1>4, <2>3, <2>10
      <4>2. F(r[i]) <= d + 1 /\ r[i] \in Tree
        BY <1>3, <2>1, <2>2, <2>7, <2>9
      <4>3. F(r[i]) \in Nat
        BY <1>4, <4>2
      <4> QED  BY <2>1, <4>1, <4>2, <4>3
    <3>2. Len(r) = Limit
      BY <2>8, <2>15
    <3> QED  BY <1>3, <2>11, <2>12, <2>13, <2>14, <3>1, <3>2 DEF Scanned, F, r
  <2>16. CASE l + b < Limit
    <3>1. b = Len(new) /\ Len(r) < Limit
      BY <1>2, <2>8, <2>16
    <3>2. ASSUME NEW i \in 1 .. Len(r), i <= k + 1 PROVE Beside(r[i]) \subseteq ToSet(r)
      <4>1. i \in 1 .. l /\ r[i] = s[i]
        <5>1. i \in 1 .. l
          BY <2>1, <2>8, <3>2
        <5> QED  BY <1>2, <5>1
      <4>2. CASE i <= k
        BY <2>2, <2>10, <4>1, <4>2
      <4>3. CASE ~ i <= k
        <5>1. r[i] = m
          BY <2>1, <3>2, <4>1, <4>3 DEF m
        <5> QED  BY <2>5, <2>10, <3>1, <5>1
      <4> QED  BY <4>2, <4>3
    <3>3. ASSUME k + 1 < Len(r), NEW i \in 1 .. Len(r) PROVE F(r[i]) <= F(r[(k + 1) + 1]) + 1
      <4>1. F(r[i]) <= d + 1 /\ r[i] \in Tree
        BY <1>3, <2>1, <2>2, <2>7, <2>9
      <4>2. k + 1 \in 1 .. Len(r) /\ (k + 1) + 1 \in 1 .. Len(r) /\ k + 1 <= (k + 1) + 1
        BY <2>1, <2>8, <3>3
      <4>3. F(r[k + 1]) <= F(r[(k + 1) + 1])
        BY <2>13, <4>2
      <4>4. r[k + 1] = m
        BY <1>2, <2>1 DEF m
      <4>5. r[(k + 1) + 1] \in Tree
        BY <1>3, <4>2
      <4>6. F(r[(k + 1) + 1]) \in Nat /\ F(r[i]) \in Nat
        BY <1>4, <4>1, <4>5
      <4> QED  BY <2>1, <4>1, <4>3, <4>4, <4>6 DEF d
    <3> QED  BY <1>3, <2>11, <2>12, <2>13, <2>14, <3>1, <3>2, <3>3 DEF Scanned, F, r
  <2> QED  BY <2>8, <2>15, <2>16 DEF r
<1> QED  BY <1>1, <1>6, <1>7, <1>8

\* A set of nodes that holds what is next to them is the whole tree.
LEMMA Connected ==
    ASSUME Shape, NEW S \in SUBSET Tree, NEW n \in S, \A m \in S : Beside(m) \subseteq S
    PROVE  S = Tree
<1>1. Upward(S)
  BY DEF Upward, Beside
<1>2. Lineage(n) \subseteq S
  BY <1>1, LineageLeast
<1>3. Root \in S
  BY <1>2, LineageStep
<1>4. Closed(S)
  BY DEF Closed, Beside
<1> QED  BY <1>3, <1>4 DEF Shape

\* The search has looked at as many nodes as the limit allows.
LEMMA NearbyScanned ==
    ASSUME Shape, NEW n \in Tree
    PROVE  Scanned(n, Limit, NearbyNodes(n))
<1> DEFINE X == {s \in Seq(Tree) : Len(s) <= Limit}
           step == [k \in 1 .. Limit |-> [s \in X |-> Found(s, k)]]
           Rec(f) == f = [k \in 0 .. Limit |->
                             IF k = 0 THEN <<n>>
                             ELSE LET s == f[k - 1]
                                      new == IF k > Len(s) THEN <<>> ELSE Around(s[k], s)
                                  IN  s \o SubSeq(new, 1, Min({Len(new), Limit - Len(s)}))]
           g == CHOOSE f : Rec(f)
<1>1. Limit \in Nat /\ 1 <= Limit
  BY PlanGenerationAssumption
<1>2. \A k \in 1 .. Limit : \A s \in X : Found(s, k) \in X
  <2> SUFFICES ASSUME NEW k \in 1 .. Limit, NEW s \in X PROVE Found(s, k) \in X
    OBVIOUS
  <2>1. s \in Seq(Tree) /\ Len(s) <= Limit /\ Len(s) \in Nat /\ k \in Nat \ {0}
    BY <1>1
  <2>2. Found(s, k) \in Seq(Tree) /\ Len(Found(s, k)) <= Limit
    <3>1. /\ Found(s, k) \in Seq(Tree)
          /\ \E b \in 0 .. Len(News(s, k)) : b <= Limit - Len(s) /\ Len(Found(s, k)) = Len(s) + b
      BY <2>1, FoundOf
    <3>2. PICK b \in 0 .. Len(News(s, k)) : b <= Limit - Len(s) /\ Len(Found(s, k)) = Len(s) + b
      BY <3>1
    <3> QED  BY <1>1, <2>1, <3>1, <3>2
  <2> QED  BY <2>2
<1>3. step \in Moves(Limit, X)
  BY <1>2 DEF Moves
<1>4. \A k \in 1 .. Limit : \A s \in X : step[k][s] = Found(s, k)
  OBVIOUS
<1>5. <<n>> \in X
  BY <1>1
<1> HIDE DEF step
<1>6. PICK f \in [0 .. Limit -> X] : f[0] = <<n>> /\ \A i \in 1 .. Limit : f[i] = step[i][f[i - 1]]
  <2> DEFINE base == <<n>>
  <2>1. base \in X
    BY <1>5
  <2> HIDE DEF X, base
  <2>2. Runs(Limit, X, base, step) # {}
    BY <1>1, <1>3, <2>1, Iterates
  <2>3. PICK f \in [0 .. Limit -> X] : f[0] = base /\ \A i \in 1 .. Limit : f[i] = step[i][f[i - 1]]
    BY <2>2 DEF Runs
  <2> QED  BY <2>3 DEF base
<1>7. \A i \in 1 .. Limit : f[i] = Found(f[i - 1], i)
  <2> SUFFICES ASSUME NEW i \in 1 .. Limit PROVE f[i] = Found(f[i - 1], i)
    OBVIOUS
  <2>1. i - 1 \in 0 .. Limit
    BY <1>1
  <2>2. f[i - 1] \in X
    BY <1>6, <2>1
  <2> QED  BY <1>4, <1>6, <2>2
<1> HIDE DEF X
<1>8. Rec(f)
  <2>1. \A h : Rec(h) <=> h = [k \in 0 .. Limit |-> IF k = 0 THEN <<n>> ELSE Found(h[k - 1], k)]
    BY DEF Found, News
  <2>2. f = [k \in 0 .. Limit |-> f[k]]
    BY <1>6
  <2>3. \A k \in 0 .. Limit : f[k] = IF k = 0 THEN <<n>> ELSE Found(f[k - 1], k)
    <3> SUFFICES ASSUME NEW k \in 0 .. Limit PROVE f[k] = IF k = 0 THEN <<n>> ELSE Found(f[k - 1], k)
      OBVIOUS
    <3>1. k = 0 \/ k \in 1 .. Limit
      BY <1>1
    <3> QED  BY <1>6, <1>7, <3>1
  <2>4. f = [k \in 0 .. Limit |-> IF k = 0 THEN <<n>> ELSE Found(f[k - 1], k)]
    <3> HIDE DEF Rec
    <3> QED  BY <2>2, <2>3, Zenon
  <2> HIDE DEF Rec
  <2> QED  BY <2>1, <2>4
<1>9. Rec(g)
  <2> HIDE DEF Rec
  <2> QED  BY <1>8
<1>10. NearbyNodes(n) = g[Limit]
  BY DEF NearbyNodes
<1> HIDE DEF g
<1>11. g[0] = <<n>> /\ \A k \in 1 .. Limit : g[k] = Found(g[k - 1], k)
  <2> DEFINE h(k) == IF k = 0 THEN <<n>> ELSE Found(g[k - 1], k)
  <2>1. g = [k \in 0 .. Limit |-> h(k)]
    BY <1>9 DEF Found, News
  <2> HIDE DEF h
  <2>2. \A k \in 0 .. Limit : g[k] = h(k)
    BY <2>1
  <2> QED  BY <1>1, <2>2 DEF h
<1> DEFINE T == {k \in 0 .. Limit : Scanned(n, k, g[k])}
<1>12. 0 \in T
  <2> DEFINE s == <<n>>
  <2>1. s \in Seq(Tree) /\ Len(s) = 1 /\ s[1] = n /\ ToSet(s) = {n}
    <3>1. s \in Seq(Tree) /\ Len(s) = 1 /\ s[1] = n
      OBVIOUS
    <3> QED  BY <3>1 DEF ToSet
  <2>2. Topped({n})
    BY LineageLeast DEF Topped
  <2>3. Far(n, n) = 0 /\ \A x \in Tree : Far(n, x) \in Nat
    <3>1. (Lineage(n) \cup Lineage(n)) \ (Lineage(n) \cap Lineage(n)) = {}
      OBVIOUS
    <3>2. Far(n, n) = 0
      BY <3>1, FS_EmptySet DEF Far
    <3> QED  BY <3>2, FarNat
  <2> HIDE DEF s
  <2>4. Scanned(n, 0, s)
    <3>1. \A i \in 1 .. Len(s) : i = 1
      BY <2>1
    <3>2. s \in Seq(Tree) /\ Len(s) \in 1 .. Limit /\ s[1] = n
      BY <1>1, <2>1
    <3>3. /\ \A i, j \in 1 .. Len(s) : s[i] = s[j] => i = j
          /\ \A i, j \in 1 .. Len(s) : i <= j => Far(n, s[i]) <= Far(n, s[j])
      BY <2>1, <2>3, <3>1
    <3>4. Topped(ToSet(s))
      BY <2>1, <2>2
    <3>5. CASE Limit = 1
      <4>1. \A x \in Tree \ ToSet(s) : \A i \in 1 .. Len(s) : Far(n, s[i]) <= Far(n, x)
        BY <2>1, <2>3, <3>1
      <4> QED  BY <2>1, <3>2, <3>3, <3>4, <3>5, <4>1 DEF Scanned
    <3>6. CASE Limit # 1
      <4>1. Len(s) < Limit
        BY <1>1, <2>1, <3>6
      <4>2. \A i \in 1 .. Len(s) : ~ i <= 0
        BY <2>1
      <4>3. \A i \in 1 .. Len(s) : Far(n, s[i]) <= Far(n, s[0 + 1]) + 1
        BY <2>1, <2>3, <3>1
      <4> QED  BY <3>2, <3>3, <3>4, <4>1, <4>2, <4>3 DEF Scanned
    <3> QED  BY <3>5, <3>6
  <2> QED  BY <1>1, <1>11, <2>4 DEF s
<1>13. \A k \in 0 .. Limit : k \in T /\ k < Limit => k + 1 \in T
  <2> SUFFICES ASSUME NEW k \in 0 .. Limit, k \in T, k < Limit PROVE k + 1 \in T
    OBVIOUS
  <2>1. k + 1 \in 1 .. Limit /\ (k + 1) - 1 = k /\ k + 1 \in 0 .. Limit /\ k \in Nat
    BY <1>1
  <2>2. g[k + 1] = Found(g[k], k + 1)
    BY <1>11, <2>1
  <2>3. Scanned(n, k, g[k])
    OBVIOUS
  <2>4. Scanned(n, k + 1, Found(g[k], k + 1))
    BY <2>1, <2>3, ScanStep
  <2> QED  BY <2>1, <2>2, <2>4
<1>14. \A k \in 0 .. Limit : k \in T
  <2> HIDE DEF T
  <2> QED  BY <1>1, <1>12, <1>13, Climb
<1>15. Scanned(n, Limit, g[Limit])
  BY <1>1, <1>14
<1> QED  BY <1>10, <1>15

\* The part of the plan shown around a node is a ball around it, all in one piece.
LEMMA NearbyBall ==
    ASSUME Shape, NEW n \in Tree
    PROVE  /\ IsInjective(NearbyNodes(n))
           /\ Len(NearbyNodes(n)) = Min({Limit, Cardinality(Tree)})
           /\ \A m \in ToSet(NearbyNodes(n)), k \in Tree \ ToSet(NearbyNodes(n)) : Far(n, m) <= Far(n, k)
           /\ Cardinality(Uppermost(ToSet(NearbyNodes(n)))) = 1
<1> DEFINE s == NearbyNodes(n)
<1>1. Scanned(n, Limit, s)
  BY NearbyScanned
<1> HIDE DEF s
<1>2. /\ s \in Seq(Tree) /\ Len(s) \in 1 .. Limit /\ s[1] = n /\ Limit \in Nat
      /\ \A i, j \in 1 .. Len(s) : s[i] = s[j] => i = j
      /\ Topped(ToSet(s))
  BY <1>1, PlanGenerationAssumption DEF Scanned
<1>3. ToSet(s) = {s[i] : i \in 1 .. Len(s)} /\ DOMAIN s = 1 .. Len(s) /\ Len(s) \in Nat
  BY <1>2 DEF ToSet
<1>4. IsInjective(s)
  BY <1>2, <1>3 DEF IsInjective
<1>5. Cardinality(ToSet(s)) = Len(s) /\ ToSet(s) \subseteq Tree
  <2>1. Lists(s, ToSet(s))
    BY <1>2, <1>3 DEF Lists
  <2>2. Cardinality(ToSet(s)) = Len(s)
    BY <2>1, ListsLength
  <2>3. \A i \in 1 .. Len(s) : s[i] \in Tree
    BY <1>2
  <2>4. ToSet(s) \subseteq Tree
    BY <1>3, <2>3
  <2> QED  BY <2>2, <2>4
<1>6. IsFiniteSet(Tree) /\ Cardinality(Tree) \in Nat
  <2>1. IsFiniteSet(0 .. MaxNodes)
    BY PlanGenerationAssumption, FS_Interval
  <2>2. Tree \subseteq 0 .. MaxNodes
    BY DEF Shape, Ids, Root
  <2>3. IsFiniteSet(Tree)
    BY <2>1, <2>2, FS_Subset
  <2> QED  BY <2>3, FS_CardinalityType
<1>7. Len(s) <= Cardinality(Tree)
  BY <1>5, <1>6, FS_Subset
<1>8. ASSUME Len(s) < Limit PROVE ToSet(s) = Tree
  <2>1. \A i \in 1 .. Len(s) : Beside(s[i]) \subseteq ToSet(s)
    BY <1>1, <1>2, <1>8 DEF Scanned
  <2>2. n \in ToSet(s) /\ ToSet(s) \in SUBSET Tree /\ \A m \in ToSet(s) : Beside(m) \subseteq ToSet(s)
    BY <1>2, <1>3, <1>5, <2>1
  <2> QED  BY <2>2, Connected
<1>9. Len(s) = Min({Limit, Cardinality(Tree)})
  <2> DEFINE T == {Limit, Cardinality(Tree)}
  <2>1. T \in SUBSET Nat /\ T # {} /\ Len(s) \in T /\ \A j \in T : Len(s) <= j
    <3>1. Len(s) = Limit \/ Len(s) = Cardinality(Tree)
      BY <1>2, <1>5, <1>8
    <3> QED  BY <1>2, <1>6, <1>7, <3>1
  <2> HIDE DEF T
  <2>2. Min(T) \in T /\ \A j \in T : Min(T) <= j
    BY <2>1, MinOf
  <2>3. Len(s) <= Min(T) /\ Min(T) <= Len(s) /\ Min(T) \in Nat /\ Len(s) \in Nat
    BY <2>1, <2>2
  <2>4. Len(s) = Min(T)
    BY <2>3
  <2> QED  BY <2>4 DEF T
<1>10. \A m \in ToSet(s), k \in Tree \ ToSet(s) : Far(n, m) <= Far(n, k)
  <2>1. CASE Len(s) < Limit
    BY <1>8, <2>1
  <2>2. CASE ~ Len(s) < Limit
    <3>1. \A x \in Tree \ ToSet(s) : \A i \in 1 .. Len(s) : Far(n, s[i]) <= Far(n, x)
      BY <1>1, <2>2 DEF Scanned
    <3> QED  BY <1>3, <3>1
  <2> QED  BY <2>1, <2>2
<1>11. Cardinality(Uppermost(ToSet(s))) = 1
  <2>1. PICK t \in ToSet(s) : \A m \in ToSet(s) : t \in Lineage(m) /\ (m = t \/ ParentOf(m) \cap ToSet(s) # {})
    BY <1>2 DEF Topped
  <2>2. ParentOf(t) \cap ToSet(s) = {}
    <3> SUFFICES ASSUME NEW p \in ParentOf(t), p \in ToSet(s) PROVE FALSE
      OBVIOUS
    <3>1. t \in Tree /\ t \in Lineage(p)
      BY <1>5, <2>1
    <3> QED  BY <3>1, LineageStep
  <2>3. Uppermost(ToSet(s)) = {t}
    BY <2>1, <2>2 DEF Uppermost
  <2> QED  BY <2>3, FS_Singleton
<1> QED  BY <1>4, <1>9, <1>10, <1>11 DEF s

\* Whatever of the plan is shown for a verdict is what is nearest to the node judged, as
\* much of it as the limit allows, and hangs together.
THEOREM NearbyStaysBall == GenSpec => []NearbyIsBall
<1>1. GenInv => NearbyIsBall
  <2> SUFFICES ASSUME GenInv, NEW n \in ToSet(batch)
               PROVE  LET near == NearbyNodes(n)
                          far(m) == Cardinality((Lineage(n) \cup Lineage(m)) \ (Lineage(n) \cap Lineage(m)))
                      IN  /\ IsInjective(near)
                          /\ Len(near) = Min({Limit, Cardinality(Tree)})
                          /\ \A m \in ToSet(near), k \in Tree \ ToSet(near) : far(m) <= far(k)
                          /\ Cardinality(Uppermost(ToSet(near))) = 1
    BY DEF NearbyIsBall
  <2>1. Shape /\ batch \in Seq(Tree)
    BY DEF GenInv, Work
  <2>2. n \in Tree
    BY <2>1 DEF ToSet
  <2> QED  BY <2>1, <2>2, NearbyBall DEF Far
<1> QED  BY <1>1, GenInvariant, PTL

=============================================================================
