--------------------------- MODULE PlanTreeProofs ---------------------------
(***************************************************************************)
(* Facts about the operators of PlanTree, for plans of any size: where a   *)
(* node stands, what an edit returns, and that every edit of a well-formed *)
(* plan gives a well-formed plan.                                          *)
(***************************************************************************)
EXTENDS PlanTree, SequenceTheorems, FiniteSetTheorems, TLAPS

-----------------------------------------------------------------------------
(* Extrema of bounded sets of naturals.                                    *)

\* A nonempty set of naturals has a least member.
LEMMA Least ==
    ASSUME NEW T \in SUBSET Nat, T # {}
    PROVE  \E i \in T : \A j \in T : i <= j
<1>1. PICK x \in T : \A y \in T : ~ (<<y, x>> \in OpToRel(<, Nat))
  BY WFMin, NatLessThanWellFounded
<1>2. ASSUME NEW y \in T PROVE x <= y
  <2>1. x \in Nat /\ y \in Nat
    OBVIOUS
  <2>2. ~ (<<y, x>> \in OpToRel(<, Nat))
    BY <1>1
  <2>3. ~ (y < x)
    BY <2>1, <2>2, Zenon DEF OpToRel
  <2> QED  BY <2>1, <2>3
<1> QED  BY <1>2

\* A nonempty set of naturals with an upper bound has a greatest member.
LEMMA Greatest ==
    ASSUME NEW k \in Nat, NEW T \in SUBSET (0 .. k), T # {}
    PROVE  \E i \in T : \A j \in T : j <= i
<1> DEFINE U == {k - i : i \in T}
<1>1. U \in SUBSET Nat /\ U # {}
  <2>1. \A i \in T : i \in 0 .. k
    OBVIOUS
  <2>2. \A i \in T : k - i \in Nat
    BY <2>1
  <2>3. PICK i \in T : TRUE
    OBVIOUS
  <2>4. k - i \in U
    BY <2>3
  <2> QED  BY <2>2, <2>4
<1>2. PICK u \in U : \A v \in U : u <= v
  BY <1>1, Least
<1>3. PICK i \in T : u = k - i
  OBVIOUS
<1>4. \A j \in T : j <= i
  BY <1>2, <1>3
<1> QED  BY <1>3, <1>4

\* An interval from 1 determines its length.
LEMMA SameLength ==
    ASSUME NEW m \in Nat, NEW n \in Nat, 1 .. m = 1 .. n
    PROVE  m = n
<1>1. m >= 1 => m \in 1 .. n
  OBVIOUS
<1>2. n >= 1 => n \in 1 .. m
  OBVIOUS
<1> QED  BY <1>1, <1>2

-----------------------------------------------------------------------------
(* Where a node stands.                                                    *)

\* A plan is a function on 1 .. Len(p).
LEMMA PlanDomain ==
    ASSUME NEW p \in Seq(PlanNode)
    PROVE  /\ Len(p) \in Nat /\ DOMAIN p = 1 .. Len(p)
           /\ \A i \in DOMAIN p : p[i] \in PlanNode
           /\ \A i \in DOMAIN p : /\ p[i].id \in Nodes /\ p[i].depth \in Nat \ {0}
                                  /\ p[i].kind \in Kinds /\ p[i].status \in Statuses
           /\ Ids(p) \subseteq Nodes
<1>1. Len(p) \in Nat /\ DOMAIN p = 1 .. Len(p) /\ p \in [1 .. Len(p) -> PlanNode]
  BY LenProperties
<1>2. \A i \in DOMAIN p : p[i] \in PlanNode
  BY <1>1
<1> QED  BY <1>1, <1>2 DEF PlanNode, Ids

\* At(p, n) is a position of n.
LEMMA AtPosition ==
    ASSUME NEW p \in Seq(PlanNode), NEW n \in Ids(p)
    PROVE  /\ At(p, n) \in 1 .. Len(p) /\ At(p, n) \in DOMAIN p /\ At(p, n) \in Nat \ {0}
           /\ p[At(p, n)].id = n
           /\ Node(p, n) \in PlanNode /\ Node(p, n).depth \in Nat \ {0}
<1>1. \E i \in DOMAIN p : p[i].id = n
  BY DEF Ids
<1>2. At(p, n) \in DOMAIN p /\ p[At(p, n)].id = n
  BY <1>1 DEF At
<1> QED  BY <1>2, PlanDomain DEF Node

\* In a well-formed plan it is the only one.
LEMMA AtUnique ==
    ASSUME NEW p \in Seq(PlanNode), WellFormed(p), NEW i \in DOMAIN p
    PROVE  p[i].id \in Ids(p) /\ At(p, p[i].id) = i
<1>1. p[i].id \in Ids(p)
  BY DEF Ids
<1>2. At(p, p[i].id) \in DOMAIN p /\ p[At(p, p[i].id)].id = p[i].id
  BY <1>1, AtPosition
<1> QED  BY <1>1, <1>2 DEF WellFormed

\* The subtree of n runs from n to LastOf(p, n).
LEMMA SubtreeEnd ==
    ASSUME NEW p \in Seq(PlanNode), NEW n \in Ids(p)
    PROVE  /\ LastOf(p, n) \in At(p, n) .. Len(p) /\ LastOf(p, n) \in Nat
           /\ \A j \in DOMAIN p : Under(p, At(p, n), j) <=> j \in At(p, n) .. LastOf(p, n)
           /\ \A j \in At(p, n) + 1 .. LastOf(p, n) : p[j].depth > Node(p, n).depth
           /\ LastOf(p, n) < Len(p) => p[LastOf(p, n) + 1].depth <= Node(p, n).depth
<1> DEFINE a == At(p, n)
           L == LastOf(p, n)
           T == {j \in DOMAIN p : Under(p, a, j)}
<1>1. a \in 1 .. Len(p) /\ Len(p) \in Nat /\ DOMAIN p = 1 .. Len(p)
  BY AtPosition, PlanDomain
<1>2. Under(p, a, a)
  BY <1>1 DEF Under
<1>3. PICK m \in T : \A j \in T : j <= m
  <2>1. T \in SUBSET (0 .. Len(p)) /\ T # {}
    BY <1>1, <1>2
  <2> HIDE DEF T
  <2> QED  BY <1>1, <2>1, Greatest
<1>4. L \in DOMAIN p /\ Under(p, a, L) /\ \A k \in DOMAIN p : Under(p, a, k) => k <= L
  BY <1>3 DEF LastOf
<1>5. a <= L /\ \A k \in a + 1 .. L : p[k].depth > p[a].depth
  BY <1>4 DEF Under
<1>6. \A j \in DOMAIN p : Under(p, a, j) <=> j \in a .. L
  <2>1. SUFFICES ASSUME NEW j \in DOMAIN p PROVE Under(p, a, j) <=> j \in a .. L
    OBVIOUS
  <2>2. Under(p, a, j) => j \in a .. L
    BY <1>1, <1>4, <2>1 DEF Under
  <2>3. j \in a .. L => Under(p, a, j)
    BY <1>1, <1>4, <1>5, <2>1 DEF Under
  <2> QED  BY <2>2, <2>3
<1>7. ASSUME L < Len(p) PROVE p[L + 1].depth <= p[a].depth
  <2>1. L + 1 \in DOMAIN p /\ ~ Under(p, a, L + 1)
    BY <1>1, <1>4, <1>7
  <2>2. \E k \in a + 1 .. L + 1 : ~ (p[k].depth > p[a].depth)
    BY <1>1, <1>4, <1>5, <2>1 DEF Under
  <2>3. ~ (p[L + 1].depth > p[a].depth)
    BY <1>1, <1>4, <1>5, <2>2
  <2>4. p[L + 1].depth \in Nat /\ p[a].depth \in Nat
    BY <1>1, <2>1, PlanDomain
  <2> QED  BY <2>3, <2>4
<1> QED  BY <1>1, <1>4, <1>5, <1>6, <1>7 DEF Node

\* The current leaf is a node of the plan.
LEMMA CurrentLeafInPlan ==
    ASSUME NEW p \in Seq(PlanNode), CurrentLeaf(p) # NoNode
    PROVE  CurrentLeaf(p) \in Ids(p)
<1> DEFINE T == {i \in DOMAIN p : p[i].id \in Leaves(p) /\ p[i].status = "pending"}
<1>1. T # {} /\ CurrentLeaf(p) = p[CHOOSE i \in T : \A j \in T : i <= j].id
  BY DEF CurrentLeaf
<1>2. T \in SUBSET Nat
  BY PlanDomain
<1>3. \E i \in T : \A j \in T : i <= j
  <2> HIDE DEF T
  <2> QED  BY <1>1, <1>2, Least
<1>4. (CHOOSE i \in T : \A j \in T : i <= j) \in T
  BY <1>3
<1> QED  BY <1>1, <1>4 DEF Ids

\* In a well-formed plan a node below the top level has its parent in the plan.
LEMMA ParentInPlan ==
    ASSUME NEW p \in Seq(PlanNode), WellFormed(p), NEW n \in Ids(p),
           Parent(p, n) # Root
    PROVE  Parent(p, n) \in Ids(p) /\ Parent(p, n) \in Ancestors(p, n)
<1> DEFINE a == At(p, n)
           d == p[a].depth
           T == {i \in 1 .. a - 1 : p[i].depth < d}
<1>1. a \in 1 .. Len(p) /\ Len(p) \in Nat /\ DOMAIN p = 1 .. Len(p) /\ p[a].id = n
  BY AtPosition, PlanDomain
<1>2. \A i \in 1 .. Len(p) : p[i].depth \in Nat \ {0}
  BY <1>1, PlanDomain
<1>3. d # 1
  BY DEF Parent, Node
<1>4. /\ p[1].depth = 1
      /\ \A i \in 1 .. Len(p) : i > 1 => p[i].depth <= p[i - 1].depth + 1
  <2>1. p # <<>>
    BY <1>1, EmptySeq
  <2> QED  BY <1>1, <2>1 DEF WellFormed, Shaped
<1>5. 1 \in T
  BY <1>1, <1>2, <1>3, <1>4
<1>6. PICK g \in T : \A j \in T : j <= g
  <2>1. T \in SUBSET (0 .. a) /\ T # {} /\ a \in Nat
    BY <1>1, <1>5
  <2> HIDE DEF T
  <2> QED  BY <2>1, Greatest
<1>7. \A k \in g + 1 .. a : p[k].depth >= d
  BY <1>1, <1>2, <1>6
<1>8. p[g].depth = d - 1
  <2>1. g + 1 \in 1 .. Len(p) /\ g + 1 \in g + 1 .. a /\ g + 1 > 1 /\ g \in 1 .. Len(p)
    BY <1>1, <1>6
  <2>2. p[g + 1].depth >= d /\ p[g + 1].depth <= p[g].depth + 1
    BY <1>4, <1>7, <2>1
  <2> QED  BY <1>1, <1>2, <1>6, <2>1, <2>2
<1> DEFINE m == p[g].id
<1>9. m \in Ids(p) /\ At(p, m) = g
  BY <1>1, <1>6, AtUnique
<1>10. Under(p, g, a)
  BY <1>1, <1>2, <1>6, <1>7, <1>8 DEF Under
<1>11. m # n
  BY <1>1, <1>6 DEF WellFormed
<1>12. n \in Subtree(p, m)
  BY <1>1, <1>9, <1>10 DEF Subtree
<1>13. m \in Ancestors(p, n)
  BY <1>9, <1>11, <1>12 DEF Ancestors
<1>14. n \in Children(p, m)
  <2>1. p[a].depth = p[g].depth + 1
    BY <1>1, <1>2, <1>6, <1>8
  <2> QED  BY <1>9, <1>12, <2>1 DEF Children, Node
<1>15. Parent(p, n) \in Ancestors(p, n)
  BY <1>3, <1>13, <1>14 DEF Parent, Node
<1> QED  BY <1>15 DEF Ancestors

-----------------------------------------------------------------------------
(* What an edit returns.                                                   *)

\* Ids and depths decide whether a plan is well formed.
LEMMA SameSkeleton ==
    ASSUME NEW p \in Seq(PlanNode), NEW q \in Seq(PlanNode), Len(q) = Len(p),
           \A i \in 1 .. Len(p) : q[i].id = p[i].id /\ q[i].depth = p[i].depth
    PROVE  Ids(q) = Ids(p) /\ (WellFormed(p) => WellFormed(q))
<1>1. DOMAIN p = 1 .. Len(p) /\ DOMAIN q = 1 .. Len(p) /\ Len(p) \in Nat
  BY PlanDomain
<1>2. Ids(q) = Ids(p)
  BY <1>1 DEF Ids
<1>3. ASSUME WellFormed(p) PROVE WellFormed(q)
  <2>1. \A i, j \in DOMAIN q : q[i].id = q[j].id => i = j
    BY <1>1, <1>3 DEF WellFormed
  <2>2. q # <<>> => q[1].depth = 1
    <3>1. q # <<>> => Len(p) \in Nat \ {0}
      BY EmptySeq
    <3>2. Len(p) \in Nat \ {0} => p # <<>> /\ 1 \in 1 .. Len(p)
      BY EmptySeq
    <3> QED  BY <1>3, <3>1, <3>2 DEF WellFormed, Shaped
  <2>3. \A i \in DOMAIN q : i > 1 => q[i].depth <= q[i - 1].depth + 1
    <3>1. SUFFICES ASSUME NEW i \in 1 .. Len(p), i > 1
                   PROVE  q[i].depth <= q[i - 1].depth + 1
      BY <1>1
    <3>2. i - 1 \in 1 .. Len(p)
      BY <1>1, <3>1
    <3>3. p[i].depth <= p[i - 1].depth + 1
      BY <1>1, <1>3, <3>1 DEF WellFormed, Shaped
    <3> QED  BY <3>1, <3>2, <3>3
  <2> QED  BY <2>1, <2>2, <2>3 DEF WellFormed, Shaped
<1> QED  BY <1>2, <1>3

\* Setting a status keeps the nodes and the shape.
LEMMA SetStatusPlan ==
    ASSUME NEW p \in Seq(PlanNode), NEW n \in Ids(p), NEW s \in Statuses
    PROVE  /\ SetStatus(p, n, s) \in Seq(PlanNode)
           /\ Ids(SetStatus(p, n, s)) = Ids(p)
           /\ WellFormed(p) => WellFormed(SetStatus(p, n, s))
<1> DEFINE a == At(p, n)
           e == [p[a] EXCEPT !.status = s]
           q == [p EXCEPT ![a] = e]
<1>1. a \in 1 .. Len(p) /\ p[a] \in PlanNode
  BY AtPosition, PlanDomain
<1>2. e \in PlanNode /\ e.id = p[a].id /\ e.depth = p[a].depth
  BY <1>1 DEF PlanNode
<1>3. SetStatus(p, n, s) = q
  BY DEF SetStatus
<1>4. /\ q \in Seq(PlanNode) /\ Len(q) = Len(p)
      /\ \A j \in 1 .. Len(p) : q[j] = IF j = a THEN e ELSE p[j]
  <2> HIDE DEF e, a
  <2> QED  BY <1>1, <1>2, ExceptSeq
<1>5. \A j \in 1 .. Len(p) : q[j].id = p[j].id /\ q[j].depth = p[j].depth
  BY <1>2, <1>4
<1> HIDE DEF q
<1> QED  BY <1>3, <1>4, <1>5, SameSkeleton

\* So does making a childless checkpoint plain.
LEMMA DemoteChildlessPlan ==
    ASSUME NEW p \in Seq(PlanNode), NEW n \in Ids(p), NEW f
    PROVE  /\ DemoteChildless(p, n, f) \in Seq(PlanNode)
           /\ Len(DemoteChildless(p, n, f)) = Len(p)
           /\ Ids(DemoteChildless(p, n, f)) = Ids(p)
           /\ \A i \in 1 .. Len(p) :
                 /\ DemoteChildless(p, n, f)[i].id = p[i].id
                 /\ DemoteChildless(p, n, f)[i].depth = p[i].depth
           /\ WellFormed(p) => WellFormed(DemoteChildless(p, n, f))
<1> DEFINE a == At(p, n)
           e == [p[a] EXCEPT !.kind = "plain"]
           q == [p EXCEPT ![a] = e]
<1>1. a \in 1 .. Len(p) /\ p[a] \in PlanNode
  BY AtPosition, PlanDomain
<1>2. e \in PlanNode /\ e.id = p[a].id /\ e.depth = p[a].depth
  BY <1>1 DEF PlanNode, Kinds
<1>3. DemoteChildless(p, n, f) = IF f = <<>> THEN q ELSE p
  BY DEF DemoteChildless
<1>4. /\ q \in Seq(PlanNode) /\ Len(q) = Len(p)
      /\ \A j \in 1 .. Len(p) : q[j] = IF j = a THEN e ELSE p[j]
  <2> HIDE DEF e, a
  <2> QED  BY <1>1, <1>2, ExceptSeq
<1>5. \A j \in 1 .. Len(p) : q[j].id = p[j].id /\ q[j].depth = p[j].depth
  BY <1>2, <1>4
<1> HIDE DEF q
<1> QED  BY <1>3, <1>4, <1>5, SameSkeleton

\* The nodes an answer becomes: as many, with the names given, the depths moved
\* down by d.
LEMMA GrownPlan ==
    ASSUME NEW forest \in Seq(Shoot), NEW d \in Nat,
           NEW ids \in [1 .. Len(forest) -> Nodes]
    PROVE  /\ Grown(forest, ids, d) \in Seq(PlanNode)
           /\ Len(Grown(forest, ids, d)) = Len(forest)
           /\ \A i \in 1 .. Len(forest) :
                 /\ forest[i].depth \in Nat \ {0}
                 /\ Grown(forest, ids, d)[i].id = ids[i]
                 /\ Grown(forest, ids, d)[i].depth = d + forest[i].depth
<1> DEFINE G == Grown(forest, ids, d)
<1>1. Len(forest) \in Nat /\ DOMAIN forest = 1 .. Len(forest)
  BY LenProperties
<1>2. \A i \in 1 .. Len(forest) : forest[i].depth \in Nat \ {0} /\ forest[i].kind \in Kinds
  <2>1. \A i \in 1 .. Len(forest) : forest[i] \in Shoot
    BY ElementOfSeq
  <2> QED  BY <2>1 DEF Shoot
<1>3. G = [i \in 1 .. Len(forest) |-> [id |-> ids[i], depth |-> d + forest[i].depth,
                                       kind |-> forest[i].kind, status |-> "pending"]]
  BY <1>1 DEF Grown
<1>4. G \in [1 .. Len(forest) -> PlanNode]
  <2>1. \A i \in 1 .. Len(forest) :
           [id |-> ids[i], depth |-> d + forest[i].depth,
            kind |-> forest[i].kind, status |-> "pending"] \in PlanNode
    BY <1>2 DEF PlanNode, Statuses
  <2> QED  BY <1>3, <2>1
<1>5. G \in Seq(PlanNode)
  BY <1>1, <1>4, SeqDef
<1>6. Len(G) = Len(forest)
  <2>1. DOMAIN G = 1 .. Len(G) /\ Len(G) \in Nat
    BY <1>5, LenProperties
  <2>2. DOMAIN G = 1 .. Len(forest)
    BY <1>4
  <2> HIDE DEF G
  <2> QED  BY <1>1, <2>1, <2>2, SameLength
<1> QED  BY <1>2, <1>3, <1>5, <1>6

\* p with the positions after a and up to e replaced by "new".
Spliced(p, a, e, new) == SubSeq(p, 1, a) \o new \o SubSeq(p, e + 1, Len(p))

\* A splice member by member.
LEMMA SpliceMembers ==
    ASSUME NEW p \in Seq(PlanNode), NEW new \in Seq(PlanNode),
           NEW a \in 1 .. Len(p), NEW e \in a .. Len(p)
    PROVE  /\ Spliced(p, a, e, new) \in Seq(PlanNode)
           /\ Len(Spliced(p, a, e, new)) = a + Len(new) + (Len(p) - e)
           /\ \A i \in 1 .. a : Spliced(p, a, e, new)[i] = p[i]
           /\ \A i \in 1 .. Len(new) : Spliced(p, a, e, new)[a + i] = new[i]
           /\ \A i \in 1 .. Len(p) - e : Spliced(p, a, e, new)[a + Len(new) + i] = p[e + i]
<1> DEFINE x == SubSeq(p, 1, a)
           y == SubSeq(p, e + 1, Len(p))
<1>1. Len(p) \in Nat /\ Len(new) \in Nat /\ \A i \in 1 .. Len(p) : p[i] \in PlanNode
  BY PlanDomain
<1>2. x \in Seq(PlanNode) /\ Len(x) = a /\ \A i \in 1 .. a : x[i] = p[i]
  <2>1. \A i \in 1 .. a : p[i] \in PlanNode
    BY <1>1
  <2>2. 1 \in Int /\ a \in Int /\ 1 <= a /\ a - 1 + 1 = a /\ \A i \in Int : 1 + i - 1 = i
    BY <1>1
  <2>3. /\ x \in Seq(PlanNode) /\ Len(x) = a - 1 + 1
        /\ \A i \in 1 .. a - 1 + 1 : x[i] = p[1 + i - 1]
    BY <2>1, <2>2, SubSeqProperties
  <2> QED  BY <2>2, <2>3
<1>3. /\ y \in Seq(PlanNode) /\ Len(y) = Len(p) - e
      /\ \A i \in 1 .. Len(p) - e : y[i] = p[e + i]
  <2>1. \A i \in e + 1 .. Len(p) : p[i] \in PlanNode
    BY <1>1
  <2>2. e + 1 \in Int /\ Len(p) \in Int
    BY <1>1
  <2>3. /\ y \in Seq(PlanNode)
        /\ Len(y) = IF e + 1 <= Len(p) THEN Len(p) - (e + 1) + 1 ELSE 0
        /\ \A i \in 1 .. Len(p) - (e + 1) + 1 : y[i] = p[(e + 1) + i - 1]
    BY <2>1, <2>2, SubSeqProperties
  <2>4. Len(y) = Len(p) - e
    BY <1>1, <2>3
  <2>5. ASSUME NEW i \in 1 .. Len(p) - e PROVE y[i] = p[e + i]
    <3>1. i \in 1 .. Len(p) - (e + 1) + 1 /\ (e + 1) + i - 1 = e + i
      BY <1>1
    <3> QED  BY <2>3, <3>1
  <2> QED  BY <2>3, <2>4, <2>5
<1> HIDE DEF x, y
<1> DEFINE z == x \o new
           q == z \o y
<1>4. /\ z \in Seq(PlanNode) /\ Len(z) = a + Len(new)
      /\ \A i \in 1 .. a + Len(new) : z[i] = IF i <= a THEN x[i] ELSE new[i - a]
  BY <1>2, ConcatProperties
<1> HIDE DEF z
<1>5. /\ q \in Seq(PlanNode) /\ Len(q) = a + Len(new) + (Len(p) - e)
      /\ \A i \in 1 .. a + Len(new) + (Len(p) - e) :
            q[i] = IF i <= a + Len(new) THEN z[i] ELSE y[i - (a + Len(new))]
  <2>1. /\ q \in Seq(PlanNode) /\ Len(q) = Len(z) + Len(y)
        /\ \A i \in 1 .. Len(z) + Len(y) :
              q[i] = IF i <= Len(z) THEN z[i] ELSE y[i - Len(z)]
    BY <1>3, <1>4, ConcatProperties
  <2> HIDE DEF q
  <2> QED  BY <1>3, <1>4, <2>1
<1> HIDE DEF q
<1>6. Spliced(p, a, e, new) = q
  BY DEF Spliced, x, y, z, q
<1>7. ASSUME NEW i \in 1 .. a PROVE q[i] = p[i]
  <2>1. i \in 1 .. a + Len(new) + (Len(p) - e) /\ i <= a + Len(new) /\ i \in 1 .. a + Len(new)
    BY <1>1
  <2> QED  BY <1>2, <1>4, <1>5, <2>1
<1>8. ASSUME NEW i \in 1 .. Len(new) PROVE q[a + i] = new[i]
  <2>1. /\ a + i \in 1 .. a + Len(new) + (Len(p) - e)
        /\ a + i <= a + Len(new) /\ a + i \in 1 .. a + Len(new)
        /\ ~ (a + i <= a) /\ (a + i) - a = i
    BY <1>1
  <2> QED  BY <1>4, <1>5, <2>1
<1>9. ASSUME NEW i \in 1 .. Len(p) - e PROVE q[a + Len(new) + i] = p[e + i]
  <2>1. /\ a + Len(new) + i \in 1 .. a + Len(new) + (Len(p) - e)
        /\ ~ (a + Len(new) + i <= a + Len(new))
        /\ (a + Len(new) + i) - (a + Len(new)) = i
    BY <1>1
  <2> QED  BY <1>3, <1>5, <2>1
<1> QED  BY <1>5, <1>6, <1>7, <1>8, <1>9

\* A splice of nodes with ids of their own, which hang where the shape lets them
\* hang, keeps a plan well formed and loses the replaced nodes only.
LEMMA SplicePlan ==
    ASSUME NEW p \in Seq(PlanNode), WellFormed(p), NEW new \in Seq(PlanNode),
           NEW a \in 1 .. Len(p), NEW e \in a .. Len(p),
           \A i \in 1 .. Len(new) : \A j \in (1 .. a) \cup (e + 1 .. Len(p)) :
               new[i].id # p[j].id,
           \A i, j \in 1 .. Len(new) : new[i].id = new[j].id => i = j,
           Len(new) > 0 => new[1].depth <= p[a].depth + 1,
           \A i \in 1 .. Len(new) : i > 1 => new[i].depth <= new[i - 1].depth + 1,
           e < Len(p) => /\ p[e + 1].depth <= p[a].depth + 1
                         /\ \A i \in 1 .. Len(new) : p[e + 1].depth <= new[i].depth + 1
    PROVE  /\ Spliced(p, a, e, new) \in Seq(PlanNode)
           /\ WellFormed(Spliced(p, a, e, new))
           /\ \A j \in (1 .. a) \cup (e + 1 .. Len(p)) : p[j].id \in Ids(Spliced(p, a, e, new))
<1> DEFINE q == Spliced(p, a, e, new)
           n == Len(new)
<1>1. /\ Len(p) \in Nat /\ n \in Nat /\ DOMAIN p = 1 .. Len(p)
      /\ \A i \in 1 .. Len(p) : p[i].depth \in Nat
      /\ \A i \in 1 .. n : new[i].depth \in Nat
  BY PlanDomain
<1>2. /\ q \in Seq(PlanNode) /\ Len(q) = a + n + (Len(p) - e) /\ DOMAIN q = 1 .. Len(q)
      /\ \A i \in 1 .. a : q[i] = p[i]
      /\ \A i \in 1 .. n : q[a + i] = new[i]
      /\ \A i \in 1 .. Len(p) - e : q[a + n + i] = p[e + i]
  <2>1. q \in Seq(PlanNode)
    BY SpliceMembers
  <2>2. DOMAIN q = 1 .. Len(q)
    BY <2>1, LenProperties
  <2>3. Len(q) = a + n + (Len(p) - e)
    BY SpliceMembers
  <2>4. \A i \in 1 .. a : q[i] = p[i]
    BY SpliceMembers
  <2>5. \A i \in 1 .. n : q[a + i] = new[i]
    BY SpliceMembers
  <2>6. \A i \in 1 .. Len(p) - e : q[a + n + i] = p[e + i]
    BY SpliceMembers
  <2> QED  BY <2>1, <2>2, <2>3, <2>4, <2>5, <2>6
<1> HIDE DEF q, n
<1>3. ASSUME NEW i \in DOMAIN q
      PROVE  \/ i \in 1 .. a /\ q[i] = p[i]
             \/ \E k \in 1 .. n : i = a + k /\ q[i] = new[k]
             \/ \E k \in 1 .. Len(p) - e : i = a + n + k /\ q[i] = p[e + k]
  <2>1. i \in 1 .. a + n + (Len(p) - e)
    BY <1>2
  <2>2. CASE i \in 1 .. a
    BY <1>2, <2>2
  <2>3. CASE i > a /\ i <= a + n
    <3>1. i - a \in 1 .. n /\ i = a + (i - a)
      BY <1>1, <2>1, <2>3
    <3>2. q[i] = new[i - a]
      BY <1>2, <3>1
    <3> QED  BY <3>1, <3>2
  <2>4. CASE i > a + n
    <3>1. i - (a + n) \in 1 .. Len(p) - e /\ i = a + n + (i - (a + n))
      BY <1>1, <2>1, <2>4
    <3>2. q[i] = p[e + (i - (a + n))]
      BY <1>2, <3>1
    <3> QED  BY <3>1, <3>2
  <2> QED  BY <1>1, <2>1, <2>2, <2>3, <2>4
<1>4. ASSUME NEW i \in DOMAIN q, NEW j \in DOMAIN q, q[i].id = q[j].id
      PROVE  i = j
  <2>1. \A k, l \in 1 .. Len(p) : p[k].id = p[l].id => k = l
    BY <1>1 DEF WellFormed
  <2>2. /\ \A k \in 1 .. n : \A l \in 1 .. a : new[k].id # p[l].id
        /\ \A k \in 1 .. n : \A l \in e + 1 .. Len(p) : new[k].id # p[l].id
    BY DEF n
  <2>3. \A k, l \in 1 .. n : new[k].id = new[l].id => k = l
    BY DEF n
  <2>4. \A k \in 1 .. Len(p) - e : e + k \in e + 1 .. Len(p) /\ e + k \in 1 .. Len(p)
    BY <1>1
  <2>5. 1 .. a \subseteq 1 .. Len(p)
    BY <1>1
  <2>6. CASE i \in 1 .. a /\ q[i] = p[i]
    <3>1. CASE j \in 1 .. a /\ q[j] = p[j]
      BY <1>4, <2>1, <2>5, <2>6, <3>1
    <3>2. CASE \E k \in 1 .. n : j = a + k /\ q[j] = new[k]
      BY <1>4, <2>2, <2>6, <3>2
    <3>3. CASE \E k \in 1 .. Len(p) - e : j = a + n + k /\ q[j] = p[e + k]
      <4>1. PICK k \in 1 .. Len(p) - e : j = a + n + k /\ q[j] = p[e + k]
        BY <3>3
      <4>2. i = e + k
        BY <1>4, <2>1, <2>4, <2>5, <2>6, <4>1
      <4> QED  BY <1>1, <2>6, <4>2
    <3> QED  BY <1>3, <3>1, <3>2, <3>3
  <2>7. CASE \E k \in 1 .. n : i = a + k /\ q[i] = new[k]
    <3>0. PICK k \in 1 .. n : i = a + k /\ q[i] = new[k]
      BY <2>7
    <3>1. CASE j \in 1 .. a /\ q[j] = p[j]
      BY <1>4, <2>2, <3>0, <3>1
    <3>2. CASE \E l \in 1 .. n : j = a + l /\ q[j] = new[l]
      BY <1>4, <2>3, <3>0, <3>2
    <3>3. CASE \E l \in 1 .. Len(p) - e : j = a + n + l /\ q[j] = p[e + l]
      BY <1>4, <2>2, <2>4, <3>0, <3>3
    <3> QED  BY <1>3, <3>1, <3>2, <3>3
  <2>8. CASE \E k \in 1 .. Len(p) - e : i = a + n + k /\ q[i] = p[e + k]
    <3>0. PICK k \in 1 .. Len(p) - e : i = a + n + k /\ q[i] = p[e + k]
      BY <2>8
    <3>1. CASE j \in 1 .. a /\ q[j] = p[j]
      <4>1. j = e + k
        BY <1>4, <2>1, <2>4, <2>5, <3>0, <3>1
      <4> QED  BY <1>1, <3>1, <4>1
    <3>2. CASE \E l \in 1 .. n : j = a + l /\ q[j] = new[l]
      BY <1>4, <2>2, <2>4, <3>0, <3>2
    <3>3. CASE \E l \in 1 .. Len(p) - e : j = a + n + l /\ q[j] = p[e + l]
      <4>1. PICK l \in 1 .. Len(p) - e : j = a + n + l /\ q[j] = p[e + l]
        BY <3>3
      <4>2. e + k = e + l
        BY <1>4, <2>1, <2>4, <3>0, <4>1
      <4>3. k = l
        BY <1>1, <4>2
      <4> QED  BY <3>0, <4>1, <4>3
    <3> QED  BY <1>3, <3>1, <3>2, <3>3
  <2> QED  BY <1>3, <2>6, <2>7, <2>8
<1>6. q # <<>> => q[1].depth = 1
  <2>1. q[1] = p[1] /\ p # <<>>
    BY <1>1, <1>2, EmptySeq
  <2> QED  BY <2>1 DEF WellFormed, Shaped
<1>7. \A i \in DOMAIN q : i > 1 => q[i].depth <= q[i - 1].depth + 1
  <2>1. SUFFICES ASSUME NEW i \in DOMAIN q, i > 1
                 PROVE  q[i].depth <= q[i - 1].depth + 1
    OBVIOUS
  <2>2. i - 1 \in DOMAIN q /\ i \in Int
    BY <1>1, <1>2, <2>1
  <2>3. \A k \in 1 .. Len(p) : k > 1 => p[k].depth <= p[k - 1].depth + 1
    BY <1>1 DEF WellFormed, Shaped
  <2>4. CASE i \in 1 .. a /\ q[i] = p[i]
    <3>1. i - 1 \in 1 .. a /\ i \in 1 .. Len(p)
      BY <1>1, <2>1, <2>4
    <3>2. q[i - 1] = p[i - 1]
      BY <1>2, <3>1
    <3> QED  BY <2>1, <2>3, <2>4, <3>1, <3>2
  <2>5. CASE \E k \in 1 .. n : i = a + k /\ q[i] = new[k]
    <3>0. PICK k \in 1 .. n : i = a + k /\ q[i] = new[k]
      BY <2>5
    <3>1. CASE k = 1
      <4>1. i - 1 = a /\ a \in 1 .. a /\ n > 0
        BY <1>1, <3>0, <3>1
      <4>2. q[i - 1] = p[a]
        BY <1>2, <4>1
      <4> QED  BY <3>0, <3>1, <4>1, <4>2 DEF n
    <3>2. CASE k > 1
      <4>1. i - 1 = a + (k - 1) /\ k - 1 \in 1 .. n
        BY <1>1, <3>0, <3>2
      <4>2. q[i - 1] = new[k - 1]
        BY <1>2, <4>1
      <4>3. new[k].depth <= new[k - 1].depth + 1
        BY <3>0, <3>2 DEF n
      <4> QED  BY <3>0, <4>2, <4>3
    <3> QED  BY <3>0, <3>1, <3>2
  <2>6. CASE \E k \in 1 .. Len(p) - e : i = a + n + k /\ q[i] = p[e + k]
    <3>0. PICK k \in 1 .. Len(p) - e : i = a + n + k /\ q[i] = p[e + k]
      BY <2>6
    <3>1. e < Len(p)
      BY <1>1, <3>0
    <3>2. CASE k > 1
      <4>0. k \in Int /\ k <= Len(p) - e /\ {a, e, n, Len(p)} \subseteq Nat
        BY <1>1, <3>0
      <4>1. k - 1 \in 1 .. Len(p) - e /\ i - 1 = a + n + (k - 1)
        BY <3>0, <3>2, <4>0
      <4>2. q[i - 1] = p[e + (k - 1)]
        BY <1>2, <4>1
      <4>3. e + k \in 1 .. Len(p) /\ e + k > 1 /\ (e + k) - 1 = e + (k - 1)
        BY <3>2, <4>0
      <4> QED  BY <2>3, <3>0, <4>2, <4>3
    <3>3. CASE k = 1 /\ n = 0
      <4>1. i - 1 = a /\ a \in 1 .. a
        BY <1>1, <3>0, <3>3
      <4>2. q[i - 1] = p[a]
        BY <1>2, <4>1
      <4> QED  BY <3>0, <3>1, <3>3, <4>2
    <3>4. CASE k = 1 /\ n > 0
      <4>1. i - 1 = a + n /\ n \in 1 .. n
        BY <1>1, <3>0, <3>4
      <4>2. q[i - 1] = new[n]
        BY <1>2, <4>1
      <4> QED  BY <3>0, <3>1, <3>4, <4>1, <4>2 DEF n
    <3> QED  BY <1>1, <3>0, <3>2, <3>3, <3>4
  <2> QED  BY <1>3, <2>4, <2>5, <2>6
<1>8. \A j \in (1 .. a) \cup (e + 1 .. Len(p)) : p[j].id \in Ids(q)
  <2>1. ASSUME NEW j \in 1 .. a PROVE p[j].id \in Ids(q)
    <3>1. j \in DOMAIN q /\ q[j] = p[j]
      BY <1>1, <1>2
    <3> QED  BY <3>1 DEF Ids
  <2>2. ASSUME NEW j \in e + 1 .. Len(p) PROVE p[j].id \in Ids(q)
    <3>1. j - e \in 1 .. Len(p) - e /\ e + (j - e) = j /\ a + n + (j - e) \in DOMAIN q
      BY <1>1, <1>2
    <3>2. q[a + n + (j - e)] = p[j]
      BY <1>2, <3>1
    <3> QED  BY <3>1, <3>2 DEF Ids
  <2> QED  BY <2>1, <2>2
<1>9. WellFormed(q)
  BY <1>4, <1>6, <1>7 DEF WellFormed, Shaped
<1> QED  BY <1>2, <1>8, <1>9 DEF q

-----------------------------------------------------------------------------
(* The edits of the loop.                                                  *)

\* Making the steps of an answer plain keeps its shape.
LEMMA PlainForest ==
    ASSUME NEW f \in Seq(Shoot), Shaped(f)
    PROVE  /\ Plain(f) \in Seq(Shoot) /\ Shaped(Plain(f)) /\ Len(Plain(f)) = Len(f)
           /\ \A i \in 1 .. Len(f) : Plain(f)[i].depth = f[i].depth
<1> DEFINE q == Plain(f)
<1>1. /\ Len(f) \in Nat /\ DOMAIN f = 1 .. Len(f)
      /\ \A i \in 1 .. Len(f) : f[i] \in Shoot
  BY LenProperties, ElementOfSeq
<1>2. q = [i \in 1 .. Len(f) |-> IF f[i].depth = 1 THEN [f[i] EXCEPT !.kind = "plain"] ELSE f[i]]
  BY <1>1 DEF Plain
<1>3. \A i \in 1 .. Len(f) : q[i] \in Shoot /\ q[i].depth = f[i].depth
  <2>1. SUFFICES ASSUME NEW i \in 1 .. Len(f)
                 PROVE  q[i] \in Shoot /\ q[i].depth = f[i].depth
    OBVIOUS
  <2> DEFINE x == f[i]
             y == [x EXCEPT !.kind = "plain"]
  <2>2. x \in Shoot
    BY <1>1
  <2>3. y \in Shoot /\ y.depth = x.depth
    <3> HIDE DEF x
    <3> QED  BY <2>2 DEF Shoot, Kinds
  <2>4. q[i] = y \/ q[i] = x
    BY <1>2
  <2> QED  BY <2>2, <2>3, <2>4
<1>4. q \in [1 .. Len(f) -> Shoot] /\ DOMAIN q = 1 .. Len(f)
  BY <1>2, <1>3
<1>5. q \in Seq(Shoot)
  BY <1>1, <1>4, SeqDef
<1> HIDE DEF q
<1>6. Len(q) = Len(f)
  BY <1>1, <1>4, <1>5, SameLength, LenProperties
<1>7. q # <<>> => q[1].depth = 1
  <2>1. q # <<>> => Len(f) \in Nat \ {0}
    BY <1>5, <1>6, EmptySeq
  <2>2. Len(f) \in Nat \ {0} => f # <<>> /\ 1 \in 1 .. Len(f)
    BY EmptySeq
  <2> QED  BY <1>3, <2>1, <2>2 DEF Shaped
<1>8. \A i \in DOMAIN q : i > 1 => q[i].depth <= q[i - 1].depth + 1
  <2>1. SUFFICES ASSUME NEW i \in 1 .. Len(f), i > 1
                 PROVE  q[i].depth <= q[i - 1].depth + 1
    BY <1>4
  <2>2. i - 1 \in 1 .. Len(f)
    BY <1>1, <2>1
  <2>3. f[i].depth <= f[i - 1].depth + 1
    BY <1>1, <2>1 DEF Shaped
  <2> QED  BY <1>3, <2>1, <2>2, <2>3
<1> QED  BY <1>3, <1>5, <1>6, <1>7, <1>8 DEF q, Shaped

\* An answer's nodes: their ids differ, and their shape is the answer's.
LEMMA GrownShape ==
    ASSUME NEW forest \in Seq(Shoot), Shaped(forest), NEW d \in Nat,
           NEW ids \in [1 .. Len(forest) -> Nodes], IsInjective(ids)
    PROVE  LET G == Grown(forest, ids, d)
           IN  /\ Len(G) \in Nat
               /\ \A i, j \in 1 .. Len(G) : G[i].id = G[j].id => i = j
               /\ Len(G) > 0 => G[1].depth = d + 1
               /\ \A i \in 1 .. Len(G) : i > 1 => G[i].depth <= G[i - 1].depth + 1
               /\ \A i \in 1 .. Len(G) : G[i].depth >= d + 1
<1> DEFINE G == Grown(forest, ids, d)
<1>1. /\ G \in Seq(PlanNode) /\ Len(G) = Len(forest)
      /\ \A i \in 1 .. Len(forest) : /\ forest[i].depth \in Nat \ {0}
                                      /\ G[i].id = ids[i] /\ G[i].depth = d + forest[i].depth
  BY GrownPlan
<1>2. Len(forest) \in Nat /\ DOMAIN forest = 1 .. Len(forest)
  BY LenProperties
<1> HIDE DEF G
<1>3. \A i, j \in 1 .. Len(G) : G[i].id = G[j].id => i = j
  BY <1>1 DEF IsInjective
<1>4. Len(G) > 0 => G[1].depth = d + 1
  <2>1. Len(forest) > 0 => forest # <<>> /\ 1 \in 1 .. Len(forest)
    BY <1>2, EmptySeq
  <2> QED  BY <1>1, <2>1 DEF Shaped
<1>5. \A i \in 1 .. Len(G) : i > 1 => G[i].depth <= G[i - 1].depth + 1
  <2>1. SUFFICES ASSUME NEW i \in 1 .. Len(forest), i > 1
                 PROVE  G[i].depth <= G[i - 1].depth + 1
    BY <1>1
  <2>2. i - 1 \in 1 .. Len(forest)
    BY <1>2, <2>1
  <2>3. forest[i].depth <= forest[i - 1].depth + 1
    BY <1>2, <2>1 DEF Shaped
  <2> QED  BY <1>1, <2>1, <2>2, <2>3
<1>6. \A i \in 1 .. Len(G) : G[i].depth >= d + 1
  BY <1>1
<1> QED  BY <1>1, <1>2, <1>3, <1>4, <1>5, <1>6 DEF G

\* A generated plan is well formed.
LEMMA GeneratedPlan ==
    ASSUME NEW forest \in Seq(Shoot), Shaped(forest),
           NEW ids \in [1 .. Len(forest) -> Nodes], IsInjective(ids)
    PROVE  Grown(forest, ids, 0) \in Seq(PlanNode) /\ WellFormed(Grown(forest, ids, 0))
<1> DEFINE G == Grown(forest, ids, 0)
<1>1. G \in Seq(PlanNode) /\ 0 \in Nat
  BY GrownPlan
<1>2. DOMAIN G = 1 .. Len(G) /\ (G # <<>> => Len(G) \in Nat \ {0})
  BY <1>1, LenProperties, EmptySeq
<1>3. /\ \A i, j \in 1 .. Len(G) : G[i].id = G[j].id => i = j
      /\ Len(G) > 0 => G[1].depth = 1
      /\ \A i \in 1 .. Len(G) : i > 1 => G[i].depth <= G[i - 1].depth + 1
  BY GrownShape
<1> HIDE DEF G
<1>4. WellFormed(G)
  <2>1. G # <<>> => G[1].depth = 1
    BY <1>2, <1>3
  <2>2. \A i \in DOMAIN G : i > 1 => G[i].depth <= G[i - 1].depth + 1
    BY <1>2, <1>3
  <2>3. \A i, j \in DOMAIN G : G[i].id = G[j].id => i = j
    BY <1>2, <1>3
  <2> QED  BY <2>1, <2>2, <2>3 DEF WellFormed, Shaped
<1> QED  BY <1>1, <1>4 DEF G

\* The nodes that survive the loss of n's descendants are those outside the
\* positions after n up to the end of its subtree.
LEMMA SparedPositions ==
    ASSUME NEW p \in Seq(PlanNode), WellFormed(p), NEW n \in Ids(p)
    PROVE  Spared(p, n) = {p[j].id : j \in (1 .. At(p, n)) \cup (LastOf(p, n) + 1 .. Len(p))}
<1> DEFINE a == At(p, n)
           e == LastOf(p, n)
<1>1. a \in 1 .. Len(p) /\ p[a].id = n /\ DOMAIN p = 1 .. Len(p) /\ Len(p) \in Nat
  BY AtPosition, PlanDomain
<1>2. e \in a .. Len(p) /\ \A j \in DOMAIN p : Under(p, a, j) <=> j \in a .. e
  BY SubtreeEnd
<1>3. \A i, j \in 1 .. Len(p) : p[i].id = p[j].id => i = j
  BY <1>1 DEF WellFormed
<1> HIDE DEF a, e
<1>4. Subtree(p, n) = {p[j].id : j \in a .. e}
  BY <1>1, <1>2 DEF Subtree, a
<1>5. \A j \in 1 .. Len(p) : p[j].id \in Spared(p, n) <=> j \in (1 .. a) \cup (e + 1 .. Len(p))
  <2>1. SUFFICES ASSUME NEW j \in 1 .. Len(p)
                 PROVE  p[j].id \in Spared(p, n) <=> j \in (1 .. a) \cup (e + 1 .. Len(p))
    OBVIOUS
  <2>2. p[j].id \in Subtree(p, n) <=> j \in a .. e
    BY <1>1, <1>2, <1>3, <1>4
  <2>3. p[j].id = n <=> j = a
    BY <1>1, <1>3
  <2>4. p[j].id \in Spared(p, n) <=> ~ (j \in a .. e) \/ j = a
    BY <1>1, <2>2, <2>3 DEF Spared, Ids
  <2> QED  BY <1>1, <1>2, <2>4
<1>6. (1 .. a) \cup (e + 1 .. Len(p)) \subseteq 1 .. Len(p)
  BY <1>1, <1>2
<1>7. Spared(p, n) \subseteq {p[j].id : j \in 1 .. Len(p)}
  BY <1>1 DEF Spared, Ids
<1> QED  BY <1>5, <1>6, <1>7 DEF a, e

\* node.set_children of new nodes: the plan stays well formed, n and what lies
\* outside its subtree stay in it.
LEMMA ReplaceChildrenPlan ==
    ASSUME NEW p \in Seq(PlanNode), WellFormed(p), NEW n \in Ids(p),
           NEW forest \in Seq(Shoot), Shaped(forest),
           NEW ids \in [1 .. Len(forest) -> Nodes], IsInjective(ids),
           \A i \in 1 .. Len(forest) : ids[i] \notin Spared(p, n),
           NEW d \in Nat, d = Node(p, n).depth
    PROVE  LET q == ReplaceChildren(p, n, Grown(forest, ids, d))
           IN  q \in Seq(PlanNode) /\ WellFormed(q) /\ Spared(p, n) \subseteq Ids(q)
               /\ n \in Ids(q)
<1> DEFINE G == Grown(forest, ids, d)
           a == At(p, n)
           e == LastOf(p, n)
<1>1. /\ a \in 1 .. Len(p) /\ p[a].id = n /\ p[a].depth = d
      /\ e \in a .. Len(p)
      /\ e < Len(p) => p[e + 1].depth <= d
  BY AtPosition, SubtreeEnd DEF Node
<1>2. /\ G \in Seq(PlanNode) /\ Len(G) = Len(forest)
      /\ \A i \in 1 .. Len(G) : G[i].id = ids[i]
      /\ \A i \in 1 .. Len(G) : G[i].depth \in Nat
  <2>1. /\ G \in Seq(PlanNode) /\ Len(G) = Len(forest)
        /\ \A i \in 1 .. Len(G) : G[i].id = ids[i]
    BY GrownPlan
  <2> HIDE DEF G
  <2> QED  BY <2>1, PlanDomain
<1>3. /\ Len(G) \in Nat
      /\ \A i, j \in 1 .. Len(G) : G[i].id = G[j].id => i = j
      /\ Len(G) > 0 => G[1].depth = d + 1
      /\ \A i \in 1 .. Len(G) : i > 1 => G[i].depth <= G[i - 1].depth + 1
      /\ \A i \in 1 .. Len(G) : G[i].depth >= d + 1
  BY GrownShape
<1>4. Spared(p, n) = {p[j].id : j \in (1 .. a) \cup (e + 1 .. Len(p))}
  BY SparedPositions
<1>5. ReplaceChildren(p, n, G) = Spliced(p, a, e, G)
  BY DEF ReplaceChildren, Spliced
<1>6. Len(p) \in Nat /\ \A i \in 1 .. Len(p) : p[i].depth \in Nat
  BY PlanDomain
<1> HIDE DEF G, a, e
<1>7. \A i \in 1 .. Len(G) : \A j \in (1 .. a) \cup (e + 1 .. Len(p)) : G[i].id # p[j].id
  BY <1>2, <1>4
<1>8. e < Len(p) => /\ p[e + 1].depth <= p[a].depth + 1
                    /\ \A i \in 1 .. Len(G) : p[e + 1].depth <= G[i].depth + 1
  <2>1. SUFFICES ASSUME e < Len(p)
                 PROVE  /\ p[e + 1].depth <= p[a].depth + 1
                        /\ \A i \in 1 .. Len(G) : p[e + 1].depth <= G[i].depth + 1
    OBVIOUS
  <2>2. e + 1 \in 1 .. Len(p) /\ p[e + 1].depth \in Nat /\ p[e + 1].depth <= d
    BY <1>1, <1>6, <2>1
  <2> QED  BY <1>1, <1>2, <1>3, <2>2
<1>9. Len(G) > 0 => G[1].depth <= p[a].depth + 1
  BY <1>1, <1>3
<1>10. /\ Spliced(p, a, e, G) \in Seq(PlanNode) /\ WellFormed(Spliced(p, a, e, G))
       /\ \A j \in (1 .. a) \cup (e + 1 .. Len(p)) : p[j].id \in Ids(Spliced(p, a, e, G))
  BY <1>1, <1>2, <1>3, <1>7, <1>8, <1>9, SplicePlan
<1>11. a \in (1 .. a) \cup (e + 1 .. Len(p))
  BY <1>1
<1> QED  BY <1>1, <1>4, <1>5, <1>10, <1>11 DEF G

\* A checkpoint's continuation after it: the plan stays well formed and loses
\* no node.
LEMMA InsertAfterPlan ==
    ASSUME NEW p \in Seq(PlanNode), WellFormed(p), NEW c \in Ids(p),
           NEW forest \in Seq(Shoot), Shaped(forest),
           NEW ids \in [1 .. Len(forest) -> Nodes], IsInjective(ids),
           \A i \in 1 .. Len(forest) : ids[i] \notin Ids(p),
           NEW d \in Nat, d = Node(p, c).depth - 1
    PROVE  LET q == InsertAfter(p, c, Grown(forest, ids, d))
           IN  q \in Seq(PlanNode) /\ WellFormed(q) /\ Ids(p) \subseteq Ids(q)
<1> DEFINE G == Grown(forest, ids, d)
           e == LastOf(p, c)
<1>1. /\ At(p, c) \in 1 .. Len(p) /\ p[At(p, c)].depth = d + 1
      /\ e \in At(p, c) .. Len(p)
      /\ e < Len(p) => p[e + 1].depth <= d + 1
      /\ \A j \in At(p, c) + 1 .. e : p[j].depth > d + 1
  BY AtPosition, SubtreeEnd DEF Node
<1>2. /\ G \in Seq(PlanNode) /\ Len(G) = Len(forest)
      /\ \A i \in 1 .. Len(G) : G[i].id = ids[i]
      /\ \A i \in 1 .. Len(G) : G[i].depth \in Nat
  <2>1. /\ G \in Seq(PlanNode) /\ Len(G) = Len(forest)
        /\ \A i \in 1 .. Len(G) : G[i].id = ids[i]
    BY GrownPlan
  <2> HIDE DEF G
  <2> QED  BY <2>1, PlanDomain
<1>3. /\ Len(G) \in Nat
      /\ \A i, j \in 1 .. Len(G) : G[i].id = G[j].id => i = j
      /\ Len(G) > 0 => G[1].depth = d + 1
      /\ \A i \in 1 .. Len(G) : i > 1 => G[i].depth <= G[i - 1].depth + 1
      /\ \A i \in 1 .. Len(G) : G[i].depth >= d + 1
  BY GrownShape
<1>5. InsertAfter(p, c, G) = Spliced(p, e, e, G)
  BY DEF InsertAfter, Spliced
<1>6. /\ Len(p) \in Nat /\ DOMAIN p = 1 .. Len(p)
      /\ \A i \in 1 .. Len(p) : p[i].depth \in Nat /\ p[i].id \in Ids(p)
  BY PlanDomain DEF Ids
<1> HIDE DEF G, e
<1>7. e \in 1 .. Len(p) /\ e \in e .. Len(p) /\ p[e].depth >= d + 1
  BY <1>1, <1>6
<1>8. \A i \in 1 .. Len(G) : \A j \in (1 .. e) \cup (e + 1 .. Len(p)) : G[i].id # p[j].id
  <2>1. (1 .. e) \cup (e + 1 .. Len(p)) = 1 .. Len(p)
    BY <1>6, <1>7
  <2> QED  BY <1>2, <1>6, <2>1
<1>9. e < Len(p) => /\ p[e + 1].depth <= p[e].depth + 1
                    /\ \A i \in 1 .. Len(G) : p[e + 1].depth <= G[i].depth + 1
  <2>1. SUFFICES ASSUME e < Len(p)
                 PROVE  /\ p[e + 1].depth <= p[e].depth + 1
                        /\ \A i \in 1 .. Len(G) : p[e + 1].depth <= G[i].depth + 1
    OBVIOUS
  <2>2. e + 1 \in 1 .. Len(p) /\ p[e + 1].depth \in Nat /\ p[e + 1].depth <= d + 1
    BY <1>1, <1>6, <1>7, <2>1
  <2> QED  BY <1>2, <1>3, <1>6, <1>7, <2>2
<1>10. Len(G) > 0 => G[1].depth <= p[e].depth + 1
  BY <1>3, <1>6, <1>7
<1>11. /\ Spliced(p, e, e, G) \in Seq(PlanNode) /\ WellFormed(Spliced(p, e, e, G))
       /\ \A j \in (1 .. e) \cup (e + 1 .. Len(p)) : p[j].id \in Ids(Spliced(p, e, e, G))
  BY <1>2, <1>3, <1>7, <1>8, <1>9, <1>10, SplicePlan
<1>12. Ids(p) \subseteq Ids(Spliced(p, e, e, G))
  <2>1. (1 .. e) \cup (e + 1 .. Len(p)) = 1 .. Len(p)
    BY <1>6, <1>7
  <2> QED  BY <1>6, <1>11, <2>1 DEF Ids
<1> QED  BY <1>5, <1>11, <1>12 DEF G

\* A sequence in Ascending(K) runs through all of K.
LEMMA AscendingCovers ==
    ASSUME NEW n \in Nat, NEW K \in SUBSET (1 .. n), NEW s \in Ascending(K)
    PROVE  /\ Cardinality(K) \in Nat
           /\ s \in [1 .. Cardinality(K) -> K]
           /\ \A i, j \in 1 .. Cardinality(K) : i < j <=> s[i] < s[j]
           /\ \A k \in K : \E i \in 1 .. Cardinality(K) : s[i] = k
<1> DEFINE m == Cardinality(K)
<1>1. IsFiniteSet(K) /\ m \in Nat
  <2>1. IsFiniteSet(1 .. n)
    BY FS_Interval
  <2>2. IsFiniteSet(K)
    BY <2>1, FS_Subset
  <2> QED  BY <2>2, FS_CardinalityType
<1>2. /\ s \in [1 .. m -> K] /\ DOMAIN s = 1 .. m
      /\ \A i, j \in 1 .. m : i < j => s[i] < s[j]
  BY DEF Ascending
<1> HIDE DEF m
<1>3. \A i \in 1 .. m : s[i] \in Nat
  <2>1. \A k \in K : k \in Nat
    OBVIOUS
  <2> QED  BY <1>2, <2>1
<1>4. \A i, j \in 1 .. m : i < j <=> s[i] < s[j]
  BY <1>1, <1>2, <1>3
<1>5. s \in Injection(1 .. m, K)
  <2>1. \A i, j \in 1 .. m : s[i] = s[j] => i = j
    BY <1>1, <1>2, <1>3
  <2> QED  BY <1>2, <2>1 DEF Injection, IsInjective
<1>6. Cardinality(1 .. m) = m
  BY <1>1, FS_Interval
<1>7. s \in Surjection(1 .. m, K)
  BY <1>1, <1>5, <1>6, FS_Injection DEF m
<1>8. \A k \in K : \E i \in 1 .. m : s[i] = k
  BY <1>7 DEF Surjection
<1> QED  BY <1>1, <1>2, <1>4, <1>8 DEF m

\* What update_plan() keeps is closed under going one position back from a node
\* below the top level, and its top-level nodes are completed.
LEMMA KeptClosed ==
    ASSUME NEW p \in Seq(PlanNode), WellFormed(p), NEW j \in KeptPositions(p)
    PROVE  /\ j \in 1 .. Len(p)
           /\ p[j].depth = 1 => p[j].status = "completed"
           /\ p[j].depth > 1 => j > 1 /\ j - 1 \in KeptPositions(p)
<1>1. DOMAIN p = 1 .. Len(p) /\ Len(p) \in Nat /\ \A i \in 1 .. Len(p) : p[i].depth \in Nat
  BY PlanDomain
<1>2. j \in 1 .. Len(p)
  BY <1>1 DEF KeptPositions
<1>3. PICK i \in 1 .. Len(p) : p[i].depth = 1 /\ p[i].status = "completed" /\ Under(p, i, j)
  BY <1>1 DEF KeptPositions
<1>4. i <= j /\ \A k \in i + 1 .. j : p[k].depth > 1
  BY <1>3 DEF Under
<1>5. p[j].depth = 1 => p[j].status = "completed"
  <2>1. p[j].depth = 1 => i = j
    BY <1>1, <1>2, <1>3, <1>4
  <2> QED  BY <1>3, <2>1
<1>6. ASSUME p[j].depth > 1 PROVE j > 1 /\ j - 1 \in KeptPositions(p)
  <2>1. i < j
    BY <1>1, <1>2, <1>3, <1>4, <1>6
  <2>2. j - 1 \in DOMAIN p /\ i <= j - 1 /\ i + 1 .. j - 1 \subseteq i + 1 .. j
    BY <1>1, <1>2, <1>3, <2>1
  <2>3. Under(p, i, j - 1)
    BY <1>3, <1>4, <2>2 DEF Under
  <2> QED  BY <1>1, <1>2, <1>3, <2>1, <2>2, <2>3 DEF KeptPositions
<1> QED  BY <1>2, <1>5, <1>6

\* A revised plan member by member.
LEMMA RevisedMembers ==
    ASSUME NEW p \in Seq(PlanNode), NEW kept \in Ascending(KeptPositions(p)),
           NEW forest \in Seq(Shoot), Flat(forest),
           NEW ids \in [1 .. Len(forest) -> Nodes]
    PROVE  LET q == Revised(p, kept, Grown(forest, ids, 0))
               m == Cardinality(KeptPositions(p))
           IN  /\ m \in Nat /\ KeptPositions(p) \in SUBSET (1 .. Len(p))
               /\ kept \in [1 .. m -> KeptPositions(p)]
               /\ \A i, j \in 1 .. m : i < j <=> kept[i] < kept[j]
               /\ \A k \in KeptPositions(p) : \E i \in 1 .. m : kept[i] = k
               /\ q \in Seq(PlanNode) /\ Len(q) = m + Len(forest)
               /\ DOMAIN q = 1 .. m + Len(forest)
               /\ \A i \in 1 .. m : q[i] = p[kept[i]]
               /\ \A i \in 1 .. Len(forest) : /\ q[m + i].id = ids[i] /\ q[m + i].depth = 1
                                              /\ q[m + i].status = "pending"
<1> DEFINE G == Grown(forest, ids, 0)
           K == KeptPositions(p)
           m == Cardinality(K)
           old == [i \in DOMAIN kept |-> p[kept[i]]]
<1>1. /\ DOMAIN p = 1 .. Len(p) /\ Len(p) \in Nat
      /\ \A i \in 1 .. Len(p) : p[i] \in PlanNode /\ p[i].depth \in Nat \ {0}
  BY PlanDomain
<1>2. K \in SUBSET (1 .. Len(p))
  BY <1>1 DEF KeptPositions
<1>3. /\ m \in Nat /\ kept \in [1 .. m -> K]
      /\ \A i, j \in 1 .. m : i < j <=> kept[i] < kept[j]
      /\ \A k \in K : \E i \in 1 .. m : kept[i] = k
  <2> HIDE DEF K
  <2> QED  BY <1>1, <1>2, AscendingCovers DEF K
<1>4. /\ G \in Seq(PlanNode) /\ Len(G) = Len(forest)
      /\ \A i \in 1 .. Len(G) : G[i].id = ids[i] /\ G[i].depth = 1 /\ G[i].status = "pending"
  <2>1. 0 \in Nat /\ DOMAIN forest = 1 .. Len(forest)
    BY LenProperties
  <2>2. /\ G \in Seq(PlanNode) /\ Len(G) = Len(forest)
        /\ \A i \in 1 .. Len(forest) : /\ forest[i].depth \in Nat \ {0}
                                        /\ G[i].id = ids[i] /\ G[i].depth = 0 + forest[i].depth
    BY <2>1, GrownPlan
  <2>3. \A i \in 1 .. Len(forest) : G[i].status = "pending"
    BY <2>1 DEF Grown
  <2> HIDE DEF G
  <2> QED  BY <2>1, <2>2, <2>3 DEF Flat
<1> HIDE DEF G, K, m
<1>5. /\ old \in Seq(PlanNode) /\ Len(old) = m /\ \A i \in 1 .. m : old[i] = p[kept[i]]
  <2>1. DOMAIN kept = 1 .. m /\ \A i \in 1 .. m : p[kept[i]] \in PlanNode
    BY <1>1, <1>2, <1>3
  <2>2. old \in [1 .. m -> PlanNode] /\ DOMAIN old = 1 .. m
    BY <2>1
  <2>3. old \in Seq(PlanNode)
    BY <1>3, <2>2, SeqDef
  <2>4. Len(old) = m
    <3> HIDE DEF old
    <3> QED  BY <1>3, <2>2, <2>3, SameLength, LenProperties
  <2> QED  BY <2>1, <2>3, <2>4
<1> HIDE DEF old
<1> DEFINE q == old \o G
<1>6. /\ q \in Seq(PlanNode) /\ Len(q) = m + Len(G) /\ DOMAIN q = 1 .. m + Len(G)
      /\ Len(G) \in Nat
      /\ \A i \in 1 .. m + Len(G) : q[i] = IF i <= m THEN old[i] ELSE G[i - m]
  <2>1. /\ q \in Seq(PlanNode) /\ Len(q) = Len(old) + Len(G)
        /\ \A i \in 1 .. Len(old) + Len(G) : q[i] = IF i <= Len(old) THEN old[i] ELSE G[i - Len(old)]
    <3>1. old \in Seq(PlanNode) /\ G \in Seq(PlanNode)
      BY <1>4, <1>5
    <3> QED  BY <3>1, ConcatProperties
  <2>2. DOMAIN q = 1 .. Len(q) /\ Len(G) \in Nat
    BY <1>4, <2>1, LenProperties
  <2> HIDE DEF q
  <2> QED  BY <1>5, <2>1, <2>2
<1> HIDE DEF q
<1>7. \A i \in 1 .. m : q[i] = p[kept[i]]
  BY <1>3, <1>5, <1>6
<1>8. ASSUME NEW i \in 1 .. Len(G) PROVE q[m + i] = G[i]
  <2>1. m + i \in 1 .. m + Len(G) /\ ~ (m + i <= m) /\ (m + i) - m = i
    BY <1>3, <1>6
  <2> QED  BY <1>6, <2>1
<1>9. Revised(p, kept, G) = q
  BY DEF Revised, old, q
<1> QED  BY <1>2, <1>3, <1>4, <1>6, <1>7, <1>8, <1>9 DEF G, K, m

\* update_plan(): what is kept and the flat revised steps form a well-formed plan.
LEMMA RevisedPlan ==
    ASSUME NEW p \in Seq(PlanNode), WellFormed(p),
           NEW kept \in Ascending(KeptPositions(p)),
           NEW forest \in Seq(Shoot), Flat(forest),
           NEW ids \in [1 .. Len(forest) -> Nodes], IsInjective(ids),
           \A i \in 1 .. Len(forest) : \A j \in KeptPositions(p) : ids[i] # p[j].id
    PROVE  LET q == Revised(p, kept, Grown(forest, ids, 0))
           IN  q \in Seq(PlanNode) /\ WellFormed(q)
<1> DEFINE K == KeptPositions(p)
           m == Cardinality(K)
           n == Len(forest)
           q == Revised(p, kept, Grown(forest, ids, 0))
<1>1. /\ DOMAIN p = 1 .. Len(p) /\ Len(p) \in Nat /\ n \in Nat
      /\ \A i \in 1 .. Len(p) : p[i] \in PlanNode /\ p[i].depth \in Nat \ {0}
  BY PlanDomain, LenProperties
<1>2. K \in SUBSET (1 .. Len(p))
  BY RevisedMembers
<1>3. /\ m \in Nat /\ kept \in [1 .. m -> K]
      /\ \A i, j \in 1 .. m : i < j <=> kept[i] < kept[j]
      /\ \A k \in K : \E i \in 1 .. m : kept[i] = k
  BY RevisedMembers
<1>4. /\ q \in Seq(PlanNode) /\ Len(q) = m + n /\ DOMAIN q = 1 .. m + n
      /\ \A i \in 1 .. m : q[i] = p[kept[i]]
      /\ \A i \in 1 .. n : q[m + i].id = ids[i] /\ q[m + i].depth = 1
  BY RevisedMembers
<1> HIDE DEF K, m, n, q
<1>7. ASSUME NEW i \in DOMAIN q
      PROVE  \/ i \in 1 .. m /\ kept[i] \in K /\ q[i] = p[kept[i]]
             \/ \E k \in 1 .. n : i = m + k
  <2>1. CASE i <= m
    BY <1>3, <1>4, <2>1
  <2>2. CASE i > m
    <3>1. i - m \in 1 .. n /\ i = m + (i - m)
      BY <1>1, <1>3, <1>4, <2>2
    <3> QED  BY <3>1
  <2> QED  BY <1>1, <1>3, <1>4, <2>1, <2>2
<1>8. ASSUME NEW i \in DOMAIN q, NEW j \in DOMAIN q, q[i].id = q[j].id
      PROVE  i = j
  <2>1. \A k, l \in K : p[k].id = p[l].id => k = l
    BY <1>1, <1>2 DEF WellFormed
  <2>2. \A k \in 1 .. n : \A l \in K : q[m + k].id # p[l].id
    BY <1>4 DEF K, n
  <2>3. \A k, l \in 1 .. n : q[m + k].id = q[m + l].id => k = l
    <3>1. \A k, l \in 1 .. n : ids[k] = ids[l] => k = l
      BY DEF IsInjective, n
    <3> QED  BY <1>4, <3>1
  <2>4. CASE i \in 1 .. m /\ kept[i] \in K /\ q[i] = p[kept[i]]
    <3>1. CASE j \in 1 .. m /\ kept[j] \in K /\ q[j] = p[kept[j]]
      <4>1. kept[i] = kept[j]
        BY <1>8, <2>1, <2>4, <3>1
      <4>2. kept[i] \in Nat
        BY <1>2, <2>4
      <4>3. ~ (i < j) /\ ~ (j < i)
        BY <1>3, <2>4, <3>1, <4>1, <4>2
      <4> QED  BY <2>4, <3>1, <4>3
    <3>2. CASE \E k \in 1 .. n : j = m + k
      BY <1>8, <2>2, <2>4, <3>2
    <3> QED  BY <1>7, <3>1, <3>2
  <2>5. CASE \E k \in 1 .. n : i = m + k
    <3>1. CASE j \in 1 .. m /\ kept[j] \in K /\ q[j] = p[kept[j]]
      BY <1>8, <2>2, <2>5, <3>1
    <3>2. CASE \E k \in 1 .. n : j = m + k
      <4>1. PICK k \in 1 .. n : i = m + k
        BY <2>5
      <4>2. PICK l \in 1 .. n : j = m + l
        BY <3>2
      <4>3. k = l
        BY <1>8, <2>3, <4>1, <4>2
      <4> QED  BY <4>1, <4>2, <4>3
    <3> QED  BY <1>7, <3>1, <3>2
  <2> QED  BY <1>7, <2>4, <2>5
<1>9. ASSUME NEW i \in 1 .. m, p[kept[i]].depth > 1
      PROVE  i > 1 /\ kept[i - 1] = kept[i] - 1
  <2>1. kept[i] \in K
    BY <1>3
  <2>9. \A k \in K : k \in Nat
    BY <1>2
  <2>2. kept[i] - 1 \in K
    <3>1. \A k \in K : p[k].depth > 1 => k - 1 \in K
      BY KeptClosed DEF K
    <3> QED  BY <1>9, <2>1, <3>1
  <2>3. PICK j \in 1 .. m : kept[j] = kept[i] - 1
    BY <1>3, <2>2
  <2>4. j < i
    <3>1. kept[j] < kept[i]
      BY <2>1, <2>9, <2>3
    <3> QED  BY <1>3, <3>1
  <2>5. i - 1 \in 1 .. m /\ kept[i - 1] < kept[i] /\ kept[i - 1] \in Nat
    <3>1. i - 1 \in 1 .. m /\ i - 1 < i
      BY <1>3, <2>4
    <3> QED  BY <1>3, <2>9, <3>1
  <2>6. ~ (j < i - 1)
    <3>1. ~ (kept[j] < kept[i - 1])
      BY <2>1, <2>9, <2>3, <2>5
    <3> QED  BY <1>3, <2>5, <3>1
  <2> QED  BY <1>3, <2>3, <2>4, <2>6
<1>10. ASSUME NEW i \in DOMAIN q, i > 1
       PROVE  q[i].depth <= q[i - 1].depth + 1
  <2>0. \A k \in DOMAIN q : q[k].depth \in Nat
    BY <1>4, PlanDomain
  <2>1. i - 1 \in DOMAIN q
    BY <1>1, <1>3, <1>4, <1>10
  <2>2. CASE i \in 1 .. m /\ kept[i] \in K /\ q[i] = p[kept[i]]
    <3>1. CASE p[kept[i]].depth > 1
      <4>1. kept[i - 1] = kept[i] - 1 /\ i - 1 \in 1 .. m
        BY <1>3, <1>9, <2>2, <3>1
      <4>2. q[i - 1] = p[kept[i] - 1]
        BY <1>4, <2>1, <4>1
      <4>3. kept[i] \in 1 .. Len(p) /\ kept[i] > 1
        BY <2>2, <3>1, KeptClosed DEF K
      <4>4. p[kept[i]].depth <= p[kept[i] - 1].depth + 1
        BY <1>1, <4>3 DEF WellFormed, Shaped
      <4> QED  BY <2>2, <4>2, <4>4
    <3>2. CASE p[kept[i]].depth <= 1
      BY <2>0, <2>1, <2>2, <3>2
    <3>3. p[kept[i]].depth \in Nat
      BY <1>1, <1>2, <2>2
    <3> QED  BY <3>1, <3>2, <3>3
  <2>3. CASE \E k \in 1 .. n : i = m + k
    BY <1>4, <2>0, <2>1, <2>3
  <2> QED  BY <1>7, <2>2, <2>3
<1>11. q # <<>> => q[1].depth = 1
  <2>1. SUFFICES ASSUME q # <<>> PROVE q[1].depth = 1
    OBVIOUS
  <2>2. 1 \in DOMAIN q
    BY <1>1, <1>3, <1>4, <2>1, EmptySeq
  <2>3. CASE 1 \in 1 .. m /\ kept[1] \in K /\ q[1] = p[kept[1]]
    <3>1. ~ (p[kept[1]].depth > 1)
      BY <1>9, <2>3
    <3>2. p[kept[1]].depth \in Nat \ {0}
      BY <1>1, <1>2, <2>3
    <3> QED  BY <2>3, <3>1, <3>2
  <2>4. CASE \E k \in 1 .. n : 1 = m + k
    BY <1>4, <2>4
  <2> QED  BY <1>7, <2>2, <2>3, <2>4
<1>12. WellFormed(q)
  BY <1>8, <1>10, <1>11 DEF WellFormed, Shaped
<1> QED  BY <1>4, <1>12 DEF q

-----------------------------------------------------------------------------
(* Nothing is lost when a leaf gets its first children.                    *)

LEMMA LeafEnd ==
    ASSUME NEW p \in Seq(PlanNode), WellFormed(p), NEW n \in Ids(p), IsLeaf(p, n)
    PROVE  LastOf(p, n) = At(p, n)
<1> DEFINE a == At(p, n)
           e == LastOf(p, n)
<1>1. a \in 1 .. Len(p) /\ p[a].id = n /\ e \in a .. Len(p) /\ DOMAIN p = 1 .. Len(p)
      /\ Len(p) \in Nat
  BY AtPosition, SubtreeEnd, PlanDomain
<1> SUFFICES ASSUME e # a PROVE FALSE
  OBVIOUS
<1>2. a + 1 \in DOMAIN p /\ a + 1 \in a + 1 .. e /\ a + 1 \in a .. e
  BY <1>1
<1>3. p[a + 1].depth > p[a].depth
  BY <1>2, SubtreeEnd DEF Node
<1>4. p[a + 1].depth <= p[a].depth + 1
  <2>1. a + 1 > 1 /\ (a + 1) - 1 = a
    BY <1>1
  <2>2. p[a + 1].depth <= p[(a + 1) - 1].depth + 1
    BY <1>2, <2>1 DEF WellFormed, Shaped
  <2> QED  BY <2>1, <2>2
<1>5. p[a].depth \in Nat /\ p[a + 1].depth \in Nat
  BY <1>1, <1>2, PlanDomain
<1>6. p[a + 1].depth = p[a].depth + 1
  BY <1>3, <1>4, <1>5
<1> DEFINE m == p[a + 1].id
<1>7. m \in Subtree(p, n)
  BY <1>2, SubtreeEnd DEF Subtree
<1>8. Node(p, m) = p[a + 1]
  BY <1>2, AtUnique DEF Node
<1>9. m \in Children(p, n)
  BY <1>6, <1>7, <1>8 DEF Children, Node
<1> QED  BY <1>9 DEF IsLeaf

LEMMA LeafSpared ==
    ASSUME NEW p \in Seq(PlanNode), WellFormed(p), NEW n \in Ids(p), IsLeaf(p, n),
           NEW q \in Seq(PlanNode), Len(q) = Len(p),
           \A i \in 1 .. Len(p) : q[i].id = p[i].id /\ q[i].depth = p[i].depth
    PROVE  Spared(q, n) = Ids(p)
<1>1. WellFormed(q) /\ Ids(q) = Ids(p)
  BY SameSkeleton
<1>2. n \in Ids(q)
  BY <1>1
<1> DEFINE a == At(p, n)
           b == At(q, n)
           e == LastOf(q, n)
<1>3. /\ a \in 1 .. Len(p) /\ p[a].id = n /\ b \in 1 .. Len(q) /\ q[b].id = n
      /\ DOMAIN p = 1 .. Len(p) /\ DOMAIN q = 1 .. Len(q) /\ Len(p) \in Nat
  BY <1>2, AtPosition, PlanDomain
<1>4. a = b
  BY <1>3 DEF WellFormed
<1>5. LastOf(p, n) = a
  BY LeafEnd
<1>6. a < Len(p) => p[a + 1].depth <= p[a].depth
  BY <1>5, SubtreeEnd DEF Node
<1>7. /\ e \in b .. Len(q)
      /\ \A j \in b + 1 .. e : q[j].depth > q[b].depth
  BY <1>2, SubtreeEnd DEF Node
<1>8. e = b
  <2> SUFFICES ASSUME e # b PROVE FALSE
    OBVIOUS
  <2>1. b + 1 \in b + 1 .. e /\ a + 1 \in 1 .. Len(p) /\ a < Len(p)
    BY <1>3, <1>4, <1>7
  <2>2. q[b + 1].depth > q[b].depth
    BY <2>1, <1>7
  <2>3. p[a + 1].depth > p[a].depth
    BY <2>1, <2>2, <1>3, <1>4
  <2>4. p[a].depth \in Nat /\ p[a + 1].depth \in Nat
    BY <2>1, <1>3, PlanDomain
  <2> QED  BY <1>6, <2>1, <2>3, <2>4
<1>9. (1 .. b) \cup (e + 1 .. Len(q)) = 1 .. Len(q)
  BY <1>3, <1>8
<1>10. Spared(q, n) = {q[j].id : j \in 1 .. Len(q)}
  BY <1>1, <1>2, <1>9, SparedPositions
<1> QED  BY <1>1, <1>3, <1>10 DEF Ids

-----------------------------------------------------------------------------
(* Who is above whom.                                                      *)

\* The position i is that of an ancestor of position j.
Above(p, i, j) == i < j /\ \A k \in i + 1 .. j : p[k].depth > p[i].depth

\* A node is above another if it stands before it and every node in between is deeper.
LEMMA AncestorsAt ==
    ASSUME NEW p \in Seq(PlanNode), WellFormed(p), NEW m \in Ids(p), NEW n \in Ids(p)
    PROVE  m \in Ancestors(p, n) <=> Above(p, At(p, m), At(p, n))
<1>1. /\ At(p, m) \in DOMAIN p /\ At(p, n) \in DOMAIN p /\ DOMAIN p = 1 .. Len(p)
      /\ Len(p) \in Nat /\ p[At(p, m)].id = m /\ p[At(p, n)].id = n
  BY AtPosition, PlanDomain
<1>2. n \in Subtree(p, m) <=> Under(p, At(p, m), At(p, n))
  <2>1. ASSUME n \in Subtree(p, m) PROVE Under(p, At(p, m), At(p, n))
    <3>1. PICK j \in DOMAIN p : Under(p, At(p, m), j) /\ p[j].id = n
      BY <2>1 DEF Subtree
    <3>2. j = At(p, n)
      BY <3>1, AtUnique
    <3> QED  BY <3>1, <3>2
  <2>2. ASSUME Under(p, At(p, m), At(p, n)) PROVE n \in Subtree(p, m)
    BY <1>1, <2>2 DEF Subtree
  <2> QED  BY <2>1, <2>2
<1>3. m # n <=> At(p, m) # At(p, n)
  BY <1>1
<1> QED  BY <1>1, <1>2, <1>3 DEF Ancestors, Under, Above

\* The same of two positions.
LEMMA AboveAncestors ==
    ASSUME NEW p \in Seq(PlanNode), WellFormed(p), NEW i \in DOMAIN p, NEW j \in DOMAIN p
    PROVE  p[i].id \in Ancestors(p, p[j].id) <=> Above(p, i, j)
BY AncestorsAt, AtUnique

\* The subtree of a node is the node and what it is above of.
LEMMA SubtreeAncestors ==
    ASSUME NEW p \in Seq(PlanNode), WellFormed(p), NEW m \in Ids(p)
    PROVE  /\ Subtree(p, m) = {m} \cup {n \in Ids(p) : m \in Ancestors(p, n)}
           /\ Subtree(p, m) \subseteq Ids(p) /\ m \notin Ancestors(p, m)
<1>1. Subtree(p, m) \subseteq Ids(p)
  BY DEF Subtree, Ids
<1>2. m \in Subtree(p, m)
  <2>1. At(p, m) \in DOMAIN p /\ p[At(p, m)].id = m /\ At(p, m) \in Nat
    BY AtPosition
  <2>2. Under(p, At(p, m), At(p, m))
    BY <2>1 DEF Under
  <2> QED  BY <2>1, <2>2 DEF Subtree
<1>3. \A n \in Ids(p) : m \in Ancestors(p, n) <=> m # n /\ n \in Subtree(p, m)
  BY DEF Ancestors
<1> QED  BY <1>1, <1>2, <1>3

\* Above is transitive, and the ancestors of a node are in line.
LEMMA AncestorsLine ==
    ASSUME NEW p \in Seq(PlanNode), WellFormed(p),
           NEW l \in Ids(p), NEW m \in Ids(p), NEW n \in Ids(p)
    PROVE  /\ l \in Ancestors(p, m) /\ m \in Ancestors(p, n) => l \in Ancestors(p, n)
           /\ l \in Ancestors(p, n) /\ m \in Ancestors(p, n) =>
                 l = m \/ l \in Ancestors(p, m) \/ m \in Ancestors(p, l)
           /\ l \in Ancestors(p, m) => m \notin Ancestors(p, l)
<1> DEFINE i == At(p, l)
           j == At(p, m)
           k == At(p, n)
<1>1. /\ i \in 1 .. Len(p) /\ j \in 1 .. Len(p) /\ k \in 1 .. Len(p) /\ Len(p) \in Nat
      /\ p[i].id = l /\ p[j].id = m /\ p[k].id = n
      /\ \A x \in 1 .. Len(p) : p[x].depth \in Nat
  BY AtPosition, PlanDomain
<1>2. /\ l \in Ancestors(p, m) <=> Above(p, i, j)
      /\ m \in Ancestors(p, n) <=> Above(p, j, k)
      /\ l \in Ancestors(p, n) <=> Above(p, i, k)
      /\ m \in Ancestors(p, l) <=> Above(p, j, i)
  BY AncestorsAt
<1> HIDE DEF i, j, k
<1>3. ASSUME Above(p, i, j), Above(p, j, k) PROVE Above(p, i, k)
  <2>1. \A x \in i + 1 .. k : p[x].depth > p[i].depth
    <3>1. SUFFICES ASSUME NEW x \in i + 1 .. k PROVE p[x].depth > p[i].depth
      OBVIOUS
    <3>2. CASE x <= j
      BY <1>1, <1>3, <3>2 DEF Above
    <3>3. CASE x > j
      <4>1. p[x].depth > p[j].depth /\ p[j].depth > p[i].depth
        BY <1>1, <1>3, <3>3 DEF Above
      <4> QED  BY <1>1, <4>1, <3>1
    <3> QED  BY <1>1, <3>2, <3>3
  <2> QED  BY <1>1, <1>3, <2>1 DEF Above
<1>4. ASSUME Above(p, i, k), Above(p, j, k) PROVE i = j \/ Above(p, i, j) \/ Above(p, j, i)
  BY <1>1, <1>4 DEF Above
<1>5. ~ (Above(p, i, j) /\ Above(p, j, i))
  BY <1>1 DEF Above
<1>6. i = j => l = m
  BY <1>1
<1> QED  BY <1>2, <1>3, <1>4, <1>5, <1>6

\* A child of a node is below it; a node below another is a child of it or below one.
LEMMA ChildAncestors ==
    ASSUME NEW p \in Seq(PlanNode), WellFormed(p), NEW m \in Ids(p)
    PROVE  /\ \A c \in Children(p, m) : c \in Ids(p) /\ m \in Ancestors(p, c)
           /\ IsLeaf(p, m) <=> \A n \in Ids(p) : m \notin Ancestors(p, n)
<1>1. \A c \in Children(p, m) : c \in Ids(p) /\ m \in Ancestors(p, c)
  <2>1. SUFFICES ASSUME NEW c \in Children(p, m) PROVE c \in Ids(p) /\ m \in Ancestors(p, c)
    OBVIOUS
  <2>2. c \in Subtree(p, m) /\ Node(p, c).depth = Node(p, m).depth + 1
    BY DEF Children
  <2>3. c # m
    <3>1. Node(p, m).depth \in Nat
      BY AtPosition
    <3> QED  BY <2>2, <3>1
  <2> QED  BY <2>2, <2>3, SubtreeAncestors
<1>2. ASSUME NEW n \in Ids(p), m \in Ancestors(p, n), IsLeaf(p, m) PROVE FALSE
  <2>1. LastOf(p, m) = At(p, m)
    BY <1>2, LeafEnd
  <2>2. Above(p, At(p, m), At(p, n))
    BY <1>2, AncestorsAt
  <2>3. At(p, n) \in DOMAIN p /\ Under(p, At(p, m), At(p, n))
    BY <2>2, AtPosition DEF Above, Under
  <2>4. At(p, n) \in At(p, m) .. LastOf(p, m)
    BY <2>3, SubtreeEnd
  <2> QED  BY <2>1, <2>2, <2>4, AtPosition DEF Above
<1>3. ASSUME \A n \in Ids(p) : m \notin Ancestors(p, n) PROVE IsLeaf(p, m)
  BY <1>1, <1>3 DEF IsLeaf
<1> QED  BY <1>1, <1>2, <1>3

-----------------------------------------------------------------------------
(* What an edit does to the tree.                                          *)

\* q is p with some of its nodes gone and pending ones grown under "hosts": the nodes
\* of "keep" stay, as they are and as they stood to each other; every other node of q is
\* pending, above none of them, and below those of them that are hosts.
Grafted(p, q, keep, hosts) ==
    /\ keep \subseteq Ids(p) \cap Ids(q)
    /\ \A m \in keep : Node(q, m) = Node(p, m)
    /\ \A m \in Ids(q) \ keep : Status(q, m) = "pending"
    /\ \A l, m \in keep : l \in Ancestors(q, m) <=> l \in Ancestors(p, m)
    /\ \A l \in keep : \A m \in Ids(q) \ keep : /\ m \notin Ancestors(q, l)
                                                /\ l \in Ancestors(q, m) <=> l \in hosts

\* A splice of pending nodes at level g in the place of nodes not above that level.
LEMMA SpliceGraft ==
    ASSUME NEW p \in Seq(PlanNode), WellFormed(p), NEW new \in Seq(PlanNode),
           NEW a \in 1 .. Len(p), NEW e \in a .. Len(p), NEW g \in Nat,
           WellFormed(Spliced(p, a, e, new)),
           \A i \in a + 1 .. e : p[i].depth >= g,
           \A i \in 1 .. Len(new) : new[i].depth >= g /\ new[i].status = "pending",
           Len(new) > 0 => new[1].depth = g,
           e < Len(p) => p[e + 1].depth <= g,
           NEW hosts, hosts = {p[i].id : i \in {i \in 1 .. a :
                          p[i].depth < g /\ \A k \in i + 1 .. a : p[k].depth > p[i].depth}}
    PROVE  Grafted(p, Spliced(p, a, e, new),
                   {p[j].id : j \in (1 .. a) \cup (e + 1 .. Len(p))}, hosts)
<1> DEFINE q == Spliced(p, a, e, new)
           n == Len(new)
           K == (1 .. a) \cup (e + 1 .. Len(p))
           keep == {p[j].id : j \in K}
           pos(j) == IF j <= a THEN j ELSE j - e + a + n
<1>1. /\ Len(p) \in Nat /\ n \in Nat /\ DOMAIN p = 1 .. Len(p) /\ a \in Nat /\ e \in Nat
      /\ \A i \in 1 .. Len(p) : p[i].depth \in Nat /\ p[i].id \in Nodes
      /\ \A i \in 1 .. n : new[i].depth \in Nat
  BY PlanDomain
<1>2. /\ q \in Seq(PlanNode) /\ Len(q) = a + n + (Len(p) - e)
      /\ \A i \in 1 .. a : q[i] = p[i]
      /\ \A i \in 1 .. n : q[a + i] = new[i]
      /\ \A i \in 1 .. Len(p) - e : q[a + n + i] = p[e + i]
  BY SpliceMembers
<1>3. DOMAIN q = 1 .. Len(q) /\ WellFormed(q) /\ \A i \in 1 .. Len(q) : q[i].depth \in Nat
  <2> HIDE DEF q
  <2> QED  BY <1>2, PlanDomain DEF q
<1> HIDE DEF q, n
<1>4. \A j \in K : j \in DOMAIN p /\ pos(j) \in DOMAIN q /\ q[pos(j)] = p[j]
  <2>1. SUFFICES ASSUME NEW j \in K
                 PROVE  j \in DOMAIN p /\ pos(j) \in DOMAIN q /\ q[pos(j)] = p[j]
    OBVIOUS
  <2>2. CASE j <= a
    BY <1>1, <1>2, <1>3, <2>2
  <2>3. CASE j > a
    <3>1. j - e \in 1 .. Len(p) - e /\ pos(j) = a + n + (j - e) /\ e + (j - e) = j
      BY <1>1, <2>3
    <3>2. q[a + n + (j - e)] = p[e + (j - e)]
      BY <1>2, <3>1
    <3> QED  BY <1>1, <1>2, <1>3, <3>1, <3>2
  <2> QED  BY <1>1, <2>2, <2>3
<1>5. \A x \in DOMAIN q : (\E j \in K : x = pos(j)) \/ x \in a + 1 .. a + n
  <2>1. SUFFICES ASSUME NEW x \in DOMAIN q, x \notin a + 1 .. a + n
                 PROVE  \E j \in K : x = pos(j)
    OBVIOUS
  <2>2. CASE x <= a
    BY <1>1, <1>2, <1>3, <2>1, <2>2
  <2>3. CASE x > a + n
    <3>1. PICK y : y = x - a - n + e
      OBVIOUS
    <3>2. x \in Nat /\ x > a + n /\ x <= a + n + (Len(p) - e)
      <4> HIDE DEF K, pos
      <4> QED  BY <1>1, <1>2, <1>3, <2>1, <2>3
    <3>4. y \in e + 1 .. Len(p) /\ y > a /\ x = y - e + a + n
      <4> HIDE DEF K, pos
      <4>1. PICK l : l = Len(p)
        OBVIOUS
      <4>2. l \in Nat /\ n \in Nat /\ a \in Nat /\ e \in Nat /\ a <= e /\ e <= l
        BY <1>1, <4>1
      <4>3. x \in Nat /\ x > a + n /\ x <= a + n + (l - e)
        BY <3>2, <4>1
      <4>4. y \in Int /\ y > e /\ y <= l /\ x = y - e + a + n
        <5>1. PICK b : b = a + n
          OBVIOUS
        <5>2. b \in Nat /\ x - b \in Nat /\ x - b > 0 /\ x - b <= l - e
          BY <4>2, <4>3, <5>1
        <5>3. y = (x - b) + e
          BY <3>1, <4>2, <4>3, <5>1
        <5>4. y \in Int
          BY <4>2, <5>2, <5>3
        <5>5. y > e /\ y <= l
          BY <4>2, <5>2, <5>3
        <5>6. x = y - e + b
          BY <4>2, <4>3, <5>1, <5>2, <5>3
        <5>7. y - e + b = y - e + a + n
          BY <4>2, <5>4, <5>1
        <5> QED  BY <5>4, <5>5, <5>6, <5>7
      <4> QED  BY <4>1, <4>2, <4>4
    <3>3. y \in K /\ x = pos(y)
      BY <1>1, <3>4
    <3> QED  BY <3>3
  <2> QED  BY <1>1, <1>2, <1>3, <2>1, <2>2, <2>3
<1>0. /\ \A j \in K : /\ j \in 1 .. Len(p) /\ pos(j) \in Nat
                      /\ j <= a => pos(j) = j
                      /\ j > a => j \in e + 1 .. Len(p) /\ pos(j) = j - e + a + n
      /\ \A j \in 1 .. Len(p) : j <= a \/ j > e => j \in K
  BY <1>1
<1> HIDE DEF K, pos
<1>6. \A i, j \in K : Above(p, i, j) <=> Above(q, pos(i), pos(j))
  <2>1. SUFFICES ASSUME NEW i \in K, NEW j \in K
                 PROVE  Above(p, i, j) <=> Above(q, pos(i), pos(j))
    OBVIOUS
  <2>2. CASE i <= a /\ j <= a
    <3>1. /\ pos(i) = i /\ pos(j) = j /\ i \in 1 .. Len(p) /\ j \in 1 .. Len(p)
          /\ q[i] = p[i] /\ \A k \in i + 1 .. j : q[k] = p[k]
      BY <1>0, <1>1, <1>2, <2>1, <2>2
    <3> QED  BY <3>1 DEF Above
  <2>3. CASE i > a /\ j <= a
    <3>1. j < i /\ pos(j) < pos(i)
      BY <1>0, <1>1, <2>1, <2>3
    <3> QED  BY <1>0, <1>1, <3>1 DEF Above
  <2>4. CASE i > a /\ j > a
    <3>0. i \in e + 1 .. Len(p) /\ j \in e + 1 .. Len(p)
      BY <1>0, <2>1, <2>4
    <3>1. /\ pos(i) = i - e + a + n /\ pos(j) = j - e + a + n
          /\ \A k \in e + 1 .. Len(p) : q[k - e + a + n] = p[k]
      <4>1. \A k \in e + 1 .. Len(p) : k \in K /\ pos(k) = k - e + a + n
        <5>1. \A k \in e + 1 .. Len(p) : k \in 1 .. Len(p) /\ k > e /\ k > a
          BY <1>1
        <5> QED  BY <1>0, <5>1
      <4> QED  BY <1>0, <1>4, <2>4, <3>0, <4>1
    <3>2. ASSUME Above(p, i, j) PROVE Above(q, pos(i), pos(j))
      <4>1. SUFFICES ASSUME NEW x \in pos(i) + 1 .. pos(j) PROVE q[x].depth > q[pos(i)].depth
        BY <1>1, <3>0, <3>1, <3>2 DEF Above
      <4>2. PICK y : y = x - a - n + e
        OBVIOUS
      <4>3. y \in i + 1 .. j /\ y \in e + 1 .. Len(p) /\ x = y - e + a + n
        BY <1>1, <3>0, <3>1, <4>1, <4>2
      <4>4. q[x] = p[y] /\ q[pos(i)] = p[i]
        BY <1>4, <3>1, <4>3
      <4> QED  BY <3>2, <4>3, <4>4 DEF Above
    <3>3. ASSUME Above(q, pos(i), pos(j)) PROVE Above(p, i, j)
      <4>1. SUFFICES ASSUME NEW x \in i + 1 .. j PROVE p[x].depth > p[i].depth
        BY <1>1, <3>0, <3>1, <3>3 DEF Above
      <4>2. x - e + a + n \in pos(i) + 1 .. pos(j) /\ x \in e + 1 .. Len(p)
        BY <1>1, <3>0, <3>1, <4>1
      <4>3. q[x - e + a + n] = p[x] /\ q[pos(i)] = p[i]
        BY <1>4, <3>1, <4>2
      <4> QED  BY <3>3, <4>2, <4>3 DEF Above
    <3> QED  BY <3>2, <3>3
  <2>5. CASE i <= a /\ j > a
    <3>1. /\ j \in e + 1 .. Len(p) /\ i \in 1 .. a /\ pos(i) = i /\ pos(j) = j - e + a + n
          /\ e + 1 \in i + 1 .. j /\ a + n + 1 \in i + 1 .. pos(j)
          /\ q[i] = p[i] /\ q[a + n + 1] = p[e + 1] /\ p[e + 1].depth <= g
          /\ p[e + 1].depth \in Nat /\ p[i].depth \in Nat
      <4>1. j \in e + 1 .. Len(p) /\ i \in 1 .. a /\ pos(i) = i /\ pos(j) = j - e + a + n
        BY <1>0, <1>1, <2>1, <2>5
      <4>2. e + 1 \in i + 1 .. j /\ a + n + 1 \in i + 1 .. pos(j) /\ e + 1 \in K
            /\ pos(e + 1) = a + n + 1 /\ i \in K /\ e < Len(p)
        BY <1>0, <1>1, <4>1
      <4>3. q[pos(e + 1)] = p[e + 1] /\ q[pos(i)] = p[i]
        BY <1>4, <4>2
      <4>4. p[e + 1].depth \in Nat /\ p[i].depth \in Nat
        BY <1>1, <4>1, <4>2
      <4> QED  BY <4>1, <4>2, <4>3, <4>4
    <3>2. ASSUME Above(p, i, j) PROVE Above(q, pos(i), pos(j))
      <4>0. \A x \in i + 1 .. j : p[x].depth > p[i].depth
        BY <3>2 DEF Above
      <4>1. p[e + 1].depth > p[i].depth
        BY <3>1, <4>0
      <4>3. g > p[i].depth /\ p[i].depth \in Nat
        BY <3>1, <4>1
      <4>2. ASSUME NEW x \in i + 1 .. pos(j) PROVE q[x].depth > p[i].depth
        <5>1. CASE x <= a
          <6>1. q[x] = p[x] /\ x \in i + 1 .. j
            BY <1>1, <1>2, <3>1, <4>2, <5>1
          <6> QED  BY <4>0, <6>1
        <5>2. CASE x \in a + 1 .. a + n
          <6>1. PICK y : y = x - a
            OBVIOUS
          <6>2. y \in 1 .. n /\ x = a + y
            BY <1>1, <5>2, <6>1
          <6>3. q[x] = new[y]
            BY <1>2, <6>2
          <6>4. new[y].depth >= g /\ new[y].depth \in Nat
            BY <1>1, <6>2 DEF n
          <6> QED  BY <4>3, <6>3, <6>4
        <5>3. CASE x > a + n
          <6>1. PICK y : y = x - a - n + e
            OBVIOUS
          <6>2. y \in i + 1 .. j /\ y \in 1 .. Len(p) /\ y > e /\ y > a /\ x = y - e + a + n
            BY <1>1, <3>1, <4>2, <5>3, <6>1
          <6>3. y \in K /\ pos(y) = x
            BY <1>0, <6>2
          <6>4. q[x] = p[y]
            BY <1>4, <6>3
          <6> QED  BY <4>0, <6>2, <6>4
        <5> QED  BY <1>1, <3>1, <4>2, <5>1, <5>2, <5>3
      <4> QED  BY <1>1, <3>1, <4>2 DEF Above
    <3>3. ASSUME Above(q, pos(i), pos(j)) PROVE Above(p, i, j)
      <4>0. \A x \in i + 1 .. pos(j) : q[x].depth > p[i].depth
        BY <3>1, <3>3 DEF Above
      <4>1. p[e + 1].depth > p[i].depth
        BY <3>1, <4>0
      <4>3. g > p[i].depth /\ p[i].depth \in Nat
        BY <3>1, <4>1
      <4>2. ASSUME NEW x \in i + 1 .. j PROVE p[x].depth > p[i].depth
        <5>1. CASE x <= a
          <6>1. q[x] = p[x] /\ x \in i + 1 .. pos(j)
            BY <1>1, <1>2, <3>1, <4>2, <5>1
          <6> QED  BY <4>0, <6>1
        <5>2. CASE x \in a + 1 .. e
          <6>1. p[x].depth >= g /\ p[x].depth \in Nat
            BY <1>1, <5>2
          <6> QED  BY <4>3, <6>1
        <5>3. CASE x > e
          <6>1. x \in 1 .. Len(p) /\ x > a
            BY <1>1, <3>1, <4>2, <5>3
          <6>2. x \in K /\ pos(x) = x - e + a + n
            BY <1>0, <5>3, <6>1
          <6>3. pos(x) \in i + 1 .. pos(j)
            BY <1>1, <3>1, <4>2, <5>3, <6>2
          <6>4. q[pos(x)] = p[x]
            BY <1>4, <6>2
          <6> QED  BY <4>0, <6>3, <6>4
        <5> QED  BY <1>1, <3>1, <4>2, <5>1, <5>2, <5>3
      <4> QED  BY <1>1, <3>1, <4>2 DEF Above
    <3> QED  BY <3>2, <3>3
  <2> QED  BY <1>0, <1>1, <2>1, <2>2, <2>3, <2>4, <2>5
<1>7. \A j \in K : \A x \in a + 1 .. a + n :
          /\ ~Above(q, x, pos(j))
          /\ Above(q, pos(j), x) <=> /\ j <= a /\ p[j].depth < g
                                     /\ \A k \in j + 1 .. a : p[k].depth > p[j].depth
  <2>1. SUFFICES ASSUME NEW j \in K, NEW x \in a + 1 .. a + n
        PROVE /\ ~Above(q, x, pos(j))
              /\ Above(q, pos(j), x) <=> /\ j <= a /\ p[j].depth < g
                                         /\ \A k \in j + 1 .. a : p[k].depth > p[j].depth
    OBVIOUS
  <2>2. \A k \in 1 .. n : q[a + k].depth >= g /\ q[a + k].depth \in Nat
    BY <1>1, <1>2 DEF n
  <2>3. \A y \in a + 1 .. a + n : q[y].depth >= g /\ q[y].depth \in Nat
    <3>1. SUFFICES ASSUME NEW y \in a + 1 .. a + n
                   PROVE  q[y].depth >= g /\ q[y].depth \in Nat
      OBVIOUS
    <3>2. y - a \in 1 .. n /\ a + (y - a) = y
      BY <1>1
    <3> QED  BY <2>2, <3>2
  <2>4. q[a + 1].depth = g /\ a + 1 \in a + 1 .. x
    <3>1. a + 1 \in a + 1 .. x /\ n > 0 /\ 1 \in 1 .. n
      BY <1>1, <2>1
    <3> QED  BY <1>2, <3>1 DEF n
  <2>5. CASE j > a
    <3>1. j \in e + 1 .. Len(p) /\ pos(j) = j - e + a + n /\ x < pos(j)
      BY <1>0, <1>1, <2>1, <2>5
    <3>2. a + n + 1 \in x + 1 .. pos(j) /\ e + 1 \in K /\ pos(e + 1) = a + n + 1 /\ e < Len(p)
      BY <1>0, <1>1, <2>1, <3>1
    <3>3. q[a + n + 1] = p[e + 1] /\ p[e + 1].depth <= g /\ p[e + 1].depth \in Nat
      <4>1. q[pos(e + 1)] = p[e + 1] /\ e + 1 \in DOMAIN p
        BY <1>4, <3>2
      <4> QED  BY <1>1, <3>2, <4>1
    <3>4. q[x].depth >= g /\ q[x].depth \in Nat
      BY <2>3
    <3>5. ~ (q[a + n + 1].depth > q[x].depth)
      BY <3>3, <3>4
    <3> QED  BY <1>0, <1>1, <2>1, <2>5, <3>1, <3>2, <3>5 DEF Above
  <2>6. CASE j <= a
    <3>1. j \in 1 .. a /\ pos(j) = j /\ q[j] = p[j] /\ j < x /\ p[j].depth \in Nat
      BY <1>0, <1>1, <1>2, <2>1, <2>6
    <3>2. ASSUME Above(q, j, x)
          PROVE  p[j].depth < g /\ \A k \in j + 1 .. a : p[k].depth > p[j].depth
      <4>1. \A k \in j + 1 .. x : q[k].depth > p[j].depth
        BY <3>1, <3>2 DEF Above
      <4>2. a + 1 \in j + 1 .. x /\ \A k \in j + 1 .. a : k \in j + 1 .. x /\ k \in 1 .. a
        BY <1>1, <2>1, <3>1
      <4>3. \A k \in j + 1 .. a : q[k] = p[k]
        BY <1>2, <4>2
      <4> QED  BY <2>4, <3>1, <4>1, <4>2, <4>3
    <3>3. ASSUME p[j].depth < g, \A k \in j + 1 .. a : p[k].depth > p[j].depth
          PROVE  Above(q, j, x)
      <4>1. ASSUME NEW k \in j + 1 .. x PROVE q[k].depth > p[j].depth
        <5>1. CASE k <= a
          <6>1. k \in j + 1 .. a /\ q[k] = p[k]
            BY <1>1, <1>2, <3>1, <4>1, <5>1
          <6> QED  BY <3>3, <6>1
        <5>2. CASE k > a
          <6>1. k \in a + 1 .. a + n
            BY <1>1, <2>1, <3>1, <4>1, <5>2
          <6> QED  BY <2>3, <3>1, <3>3, <6>1
        <5> QED  BY <1>1, <3>1, <4>1, <5>1, <5>2
      <4> QED  BY <3>1, <4>1 DEF Above
    <3> QED  BY <1>0, <1>1, <2>1, <2>6, <3>1, <3>2, <3>3 DEF Above
  <2> QED  BY <1>0, <1>1, <2>1, <2>5, <2>6
<1>8. \A j \in K : /\ p[j].id \in Ids(p) /\ p[j].id \in Ids(q) /\ At(p, p[j].id) = j
                   /\ At(q, p[j].id) = pos(j)
  <2>1. SUFFICES ASSUME NEW j \in K
        PROVE /\ p[j].id \in Ids(p) /\ p[j].id \in Ids(q) /\ At(p, p[j].id) = j
              /\ At(q, p[j].id) = pos(j)
    OBVIOUS
  <2>2. p[j].id \in Ids(p) /\ At(p, p[j].id) = j
    BY <1>4, AtUnique
  <2>3. q[pos(j)].id \in Ids(q) /\ At(q, q[pos(j)].id) = pos(j)
    BY <1>2, <1>3, <1>4, AtUnique
  <2> QED  BY <1>4, <2>2, <2>3
<1>9. \A m \in Ids(q) \ keep : At(q, m) \in a + 1 .. a + n
  <2>1. SUFFICES ASSUME NEW m \in Ids(q) \ keep PROVE At(q, m) \in a + 1 .. a + n
    OBVIOUS
  <2>2. At(q, m) \in DOMAIN q /\ q[At(q, m)].id = m
    BY <1>2, AtPosition
  <2>3. ASSUME NEW j \in K, At(q, m) = pos(j) PROVE FALSE
    <3>1. m = p[j].id
      BY <1>4, <2>2, <2>3
    <3> QED  BY <2>1, <3>1
  <2> QED  BY <1>5, <2>2, <2>3
<1>10. keep \subseteq Ids(p) \cap Ids(q) /\ \A m \in keep : Node(q, m) = Node(p, m)
  <2>1. ASSUME NEW m \in keep PROVE m \in Ids(p) /\ m \in Ids(q) /\ Node(q, m) = Node(p, m)
    <3>1. PICK j \in K : m = p[j].id
      OBVIOUS
    <3> QED  BY <1>4, <1>8, <3>1 DEF Node
  <2> QED  BY <2>1
<1>11. \A m \in Ids(q) \ keep : Status(q, m) = "pending"
  <2>1. SUFFICES ASSUME NEW m \in Ids(q) \ keep PROVE Status(q, m) = "pending"
    OBVIOUS
  <2>2. At(q, m) - a \in 1 .. n /\ a + (At(q, m) - a) = At(q, m)
    BY <1>1, <1>9
  <2>3. q[At(q, m)] = new[At(q, m) - a]
    BY <1>2, <2>2
  <2> QED  BY <2>2, <2>3 DEF Status, Node, n
<1>12. \A l, m \in keep : l \in Ancestors(q, m) <=> l \in Ancestors(p, m)
  <2>1. SUFFICES ASSUME NEW l \in keep, NEW m \in keep
                 PROVE  l \in Ancestors(q, m) <=> l \in Ancestors(p, m)
    OBVIOUS
  <2>2. PICK i \in K : l = p[i].id
    OBVIOUS
  <2>3. PICK j \in K : m = p[j].id
    OBVIOUS
  <2>4. l \in Ancestors(p, m) <=> Above(p, i, j)
    BY <1>8, <2>2, <2>3, AncestorsAt
  <2>5. l \in Ancestors(q, m) <=> Above(q, pos(i), pos(j))
    BY <1>2, <1>3, <1>8, <2>2, <2>3, AncestorsAt
  <2> QED  BY <1>6, <2>4, <2>5
<1>13. \A l \in keep : \A m \in Ids(q) \ keep : /\ m \notin Ancestors(q, l)
                                                /\ l \in Ancestors(q, m) <=> l \in hosts
  <2>1. SUFFICES ASSUME NEW l \in keep, NEW m \in Ids(q) \ keep
                 PROVE  m \notin Ancestors(q, l) /\ (l \in Ancestors(q, m) <=> l \in hosts)
    OBVIOUS
  <2>2. PICK j \in K : l = p[j].id
    OBVIOUS
  <2>3. At(q, m) \in a + 1 .. a + n
    BY <1>9
  <2>4. /\ m \in Ancestors(q, l) <=> Above(q, At(q, m), pos(j))
        /\ l \in Ancestors(q, m) <=> Above(q, pos(j), At(q, m))
    BY <1>2, <1>3, <1>8, <2>2, AncestorsAt
  <2>5. l \in hosts <=> /\ j <= a /\ p[j].depth < g
                        /\ \A k \in j + 1 .. a : p[k].depth > p[j].depth
    <3>1. \A i \in 1 .. a : p[i].id = p[j].id => i = j
      <4>1. \A i \in 1 .. a : i \in DOMAIN p
        BY <1>1
      <4> QED  BY <1>4, <4>1 DEF WellFormed
    <3>2. j \in 1 .. a <=> j <= a
      BY <1>0, <1>1
    <3> QED  BY <2>2, <3>1, <3>2
  <2> QED  BY <1>7, <2>3, <2>4, <2>5
<1> QED  BY <1>10, <1>11, <1>12, <1>13 DEF Grafted, q, K

\* What the planner grew: nodes not above the level they hang at, all pending.
LEMMA GrownNodes ==
    ASSUME NEW forest \in Seq(Shoot), Shaped(forest), NEW d \in Nat,
           NEW ids \in [1 .. Len(forest) -> Nodes], IsInjective(ids)
    PROVE  LET G == Grown(forest, ids, d)
           IN  /\ G \in Seq(PlanNode) /\ Len(G) = Len(forest)
               /\ \A i \in 1 .. Len(G) : G[i].depth >= d + 1 /\ G[i].status = "pending"
               /\ Len(G) > 0 => G[1].depth = d + 1
<1> DEFINE G == Grown(forest, ids, d)
<1>1. G \in Seq(PlanNode) /\ Len(G) = Len(forest)
  BY GrownPlan
<1>2. \A i \in 1 .. Len(forest) : G[i].status = "pending"
  <2>1. DOMAIN forest = 1 .. Len(forest)
    BY LenProperties
  <2> QED  BY <2>1 DEF Grown
<1>3. /\ Len(G) > 0 => G[1].depth = d + 1
      /\ \A i \in 1 .. Len(G) : G[i].depth >= d + 1
  BY GrownShape
<1> HIDE DEF G
<1> QED  BY <1>1, <1>2, <1>3 DEF G

\* set_children: the new nodes are below n and below what is above n.
LEMMA ChildrenGraft ==
    ASSUME NEW p \in Seq(PlanNode), WellFormed(p), NEW n \in Ids(p),
           NEW forest \in Seq(Shoot), Shaped(forest),
           NEW ids \in [1 .. Len(forest) -> Nodes], IsInjective(ids),
           \A i \in 1 .. Len(forest) : ids[i] \notin Spared(p, n),
           NEW d \in Nat, d = Node(p, n).depth
    PROVE  Grafted(p, ReplaceChildren(p, n, Grown(forest, ids, d)), Spared(p, n),
                   {n} \cup Ancestors(p, n))
<1>1. PICK G : G = Grown(forest, ids, d)
  OBVIOUS
<1> DEFINE a == At(p, n)
           e == LastOf(p, n)
           g == d + 1
           hosts == {p[i].id : i \in {i \in 1 .. a :
                         p[i].depth < g /\ \A k \in i + 1 .. a : p[k].depth > p[i].depth}}
<1>2. /\ G \in Seq(PlanNode)
      /\ Len(G) > 0 => G[1].depth = g
      /\ \A i \in 1 .. Len(G) : G[i].depth >= g /\ G[i].status = "pending"
  BY <1>1, GrownNodes
<1>3. /\ a \in 1 .. Len(p) /\ p[a].id = n /\ p[a].depth = d /\ e \in a .. Len(p)
      /\ e < Len(p) => p[e + 1].depth <= d
      /\ \A j \in a + 1 .. e : p[j].depth > d
  BY AtPosition, SubtreeEnd DEF Node
<1>4. /\ Len(p) \in Nat /\ DOMAIN p = 1 .. Len(p)
      /\ \A i \in 1 .. Len(p) : p[i].depth \in Nat /\ p[i].id \in Ids(p)
  BY PlanDomain DEF Ids
<1>5. Spared(p, n) = {p[j].id : j \in (1 .. a) \cup (e + 1 .. Len(p))}
  BY SparedPositions
<1>6. ReplaceChildren(p, n, G) = Spliced(p, a, e, G)
  BY DEF ReplaceChildren, Spliced
<1>7. WellFormed(Spliced(p, a, e, G))
  BY <1>1, <1>6, ReplaceChildrenPlan, Zenon
<1> HIDE DEF a, e
<1>8. /\ g \in Nat /\ \A i \in a + 1 .. e : p[i].depth >= g
      /\ e < Len(p) => p[e + 1].depth <= g
  <2>1. \A i \in a + 1 .. e : i \in 1 .. Len(p)
    BY <1>3, <1>4
  <2>2. e < Len(p) => e + 1 \in 1 .. Len(p)
    BY <1>3, <1>4
  <2> QED  BY <1>3, <1>4, <2>1, <2>2
<1>9. hosts = {n} \cup Ancestors(p, n)
  <2>1. \A i \in 1 .. a : i \in 1 .. Len(p) /\ i \in DOMAIN p
    BY <1>3, <1>4
  <2>2. \A i \in 1 .. a : p[i].id \in Ancestors(p, n) <=> Above(p, i, a)
    BY <1>3, <1>4, <2>1, AboveAncestors
  <2>3. ASSUME NEW i \in 1 .. a
        PROVE  p[i].depth < g /\ (\A k \in i + 1 .. a : p[k].depth > p[i].depth)
                  <=> i = a \/ Above(p, i, a)
    <3>1. p[i].depth \in Nat /\ i \in Nat /\ a \in Nat
      BY <1>3, <1>4, <2>1
    <3>2. CASE i = a
      BY <1>3, <3>1, <3>2
    <3>3. CASE i # a
      <4>1. i < a /\ a \in i + 1 .. a
        BY <3>1, <3>3
      <4> QED  BY <1>3, <3>1, <4>1 DEF Above
    <3> QED  BY <3>2, <3>3
  <2>4. hosts \subseteq {n} \cup Ancestors(p, n)
    BY <1>3, <2>2, <2>3
  <2>5. n \in hosts
    <3>1. a \in 1 .. a
      BY <1>3, <1>4
    <3> QED  BY <1>3, <2>3, <3>1
  <2>6. ASSUME NEW m \in Ancestors(p, n) PROVE m \in hosts
    <3>1. m \in Ids(p)
      BY DEF Ancestors
    <3>2. At(p, m) \in 1 .. Len(p) /\ p[At(p, m)].id = m /\ Above(p, At(p, m), a)
      BY <3>1, <2>6, AtPosition, AncestorsAt DEF a
    <3>3. At(p, m) \in 1 .. a
      BY <1>3, <1>4, <3>2 DEF Above
    <3> QED  BY <2>3, <3>2, <3>3
  <2> QED  BY <2>4, <2>5, <2>6
<1> HIDE DEF g
<1>10. Grafted(p, Spliced(p, a, e, G), {p[j].id : j \in (1 .. a) \cup (e + 1 .. Len(p))}, hosts)
  <2>1. PICK h : h = hosts
    OBVIOUS
  <2>2. Grafted(p, Spliced(p, a, e, G), {p[j].id : j \in (1 .. a) \cup (e + 1 .. Len(p))}, h)
    BY <1>2, <1>3, <1>7, <1>8, <2>1, SpliceGraft
  <2> QED  BY <2>1, <2>2, Zenon
<1> QED  BY <1>1, <1>5, <1>6, <1>9, <1>10, Zenon

\* The continuation of a checkpoint: the new nodes are below what is above it.
LEMMA InsertGraft ==
    ASSUME NEW p \in Seq(PlanNode), WellFormed(p), NEW c \in Ids(p),
           NEW forest \in Seq(Shoot), Shaped(forest),
           NEW ids \in [1 .. Len(forest) -> Nodes], IsInjective(ids),
           \A i \in 1 .. Len(forest) : ids[i] \notin Ids(p),
           NEW d \in Nat, d = Node(p, c).depth - 1
    PROVE  Grafted(p, InsertAfter(p, c, Grown(forest, ids, d)), Ids(p), Ancestors(p, c))
<1>1. PICK G : G = Grown(forest, ids, d)
  OBVIOUS
<1> DEFINE b == At(p, c)
           a == LastOf(p, c)
           g == d + 1
           hosts == {p[i].id : i \in {i \in 1 .. a :
                         p[i].depth < g /\ \A k \in i + 1 .. a : p[k].depth > p[i].depth}}
<1>2. /\ G \in Seq(PlanNode)
      /\ Len(G) > 0 => G[1].depth = g
      /\ \A i \in 1 .. Len(G) : G[i].depth >= g /\ G[i].status = "pending"
  BY <1>1, GrownNodes
<1>3. /\ b \in 1 .. Len(p) /\ p[b].id = c /\ p[b].depth = g /\ a \in b .. Len(p)
      /\ a < Len(p) => p[a + 1].depth <= g
      /\ \A j \in b + 1 .. a : p[j].depth > g
  BY AtPosition, SubtreeEnd DEF Node
<1>4. /\ Len(p) \in Nat /\ DOMAIN p = 1 .. Len(p)
      /\ \A i \in 1 .. Len(p) : p[i].depth \in Nat /\ p[i].id \in Ids(p)
  BY PlanDomain DEF Ids
<1>5. InsertAfter(p, c, G) = Spliced(p, a, a, G)
  BY DEF InsertAfter, Spliced
<1>6. WellFormed(Spliced(p, a, a, G))
  BY <1>1, <1>5, InsertAfterPlan, Zenon
<1> HIDE DEF a, b
<1>7. /\ g \in Nat /\ a \in 1 .. Len(p) /\ a \in a .. Len(p)
      /\ \A i \in a + 1 .. a : p[i].depth >= g
      /\ (1 .. a) \cup (a + 1 .. Len(p)) = 1 .. Len(p)
  BY <1>3, <1>4
<1>8. hosts = Ancestors(p, c)
  <2>1. \A i \in 1 .. a : i \in 1 .. Len(p) /\ i \in DOMAIN p
    BY <1>3, <1>4
  <2>2. \A i \in 1 .. a : p[i].id \in Ancestors(p, c) <=> Above(p, i, b)
    BY <1>3, <1>4, <2>1, AboveAncestors
  <2>3. ASSUME NEW i \in 1 .. a
        PROVE  p[i].depth < g /\ (\A k \in i + 1 .. a : p[k].depth > p[i].depth)
                  <=> Above(p, i, b)
    <3>1. p[i].depth \in Nat /\ i \in Nat /\ a \in Nat /\ b \in Nat /\ b <= a /\ g \in Nat
      BY <1>3, <1>4, <1>7, <2>1
    <3>2. CASE i >= b
      <4>1. ~Above(p, i, b)
        BY <3>1, <3>2 DEF Above
      <4>2. i = b \/ i \in b + 1 .. a
        BY <3>1, <3>2
      <4> QED  BY <1>3, <3>1, <4>1, <4>2
    <3>3. CASE i < b
      <4>1. b \in i + 1 .. b /\ i + 1 .. b \subseteq i + 1 .. a
        BY <3>1, <3>3
      <4>2. \A k \in i + 1 .. a : k \in i + 1 .. b \/ (k \in b + 1 .. a /\ p[k].depth \in Nat)
        <5>1. ASSUME NEW k \in i + 1 .. a PROVE k \in i + 1 .. b \/ k \in b + 1 .. a
          BY <3>1
        <5>2. \A k \in b + 1 .. a : k \in 1 .. Len(p)
          BY <1>3, <1>4
        <5> QED  BY <1>4, <5>1, <5>2
      <4>3. ASSUME Above(p, i, b)
            PROVE  p[i].depth < g /\ \A k \in i + 1 .. a : p[k].depth > p[i].depth
        <5>1. p[i].depth < g
          BY <1>3, <3>1, <4>1, <4>3 DEF Above
        <5>2. \A k \in b + 1 .. a : p[k].depth \in Nat => p[k].depth > p[i].depth
          BY <1>3, <3>1, <5>1
        <5> QED  BY <4>2, <4>3, <5>1, <5>2 DEF Above
      <4> QED  BY <1>3, <3>3, <4>1, <4>3 DEF Above
    <3> QED  BY <3>1, <3>2, <3>3
  <2>4. hosts \subseteq Ancestors(p, c)
    BY <2>2, <2>3
  <2>5. ASSUME NEW m \in Ancestors(p, c) PROVE m \in hosts
    <3>1. m \in Ids(p)
      BY DEF Ancestors
    <3>2. At(p, m) \in 1 .. Len(p) /\ p[At(p, m)].id = m /\ Above(p, At(p, m), b)
      BY <3>1, <2>5, AtPosition, AncestorsAt DEF b
    <3>3. At(p, m) \in 1 .. a
      BY <1>3, <1>4, <3>2 DEF Above
    <3> QED  BY <2>3, <3>2, <3>3
  <2> QED  BY <2>4, <2>5
<1> HIDE DEF g
<1>9. Grafted(p, Spliced(p, a, a, G), {p[j].id : j \in (1 .. a) \cup (a + 1 .. Len(p))}, hosts)
  <2>1. PICK h : h = hosts
    OBVIOUS
  <2>2. Grafted(p, Spliced(p, a, a, G), {p[j].id : j \in (1 .. a) \cup (a + 1 .. Len(p))}, h)
    BY <1>2, <1>3, <1>6, <1>7, <2>1, SpliceGraft
  <2> QED  BY <2>1, <2>2, Zenon
<1>10. {p[j].id : j \in (1 .. a) \cup (a + 1 .. Len(p))} = Ids(p)
  BY <1>4, <1>7 DEF Ids
<1> QED  BY <1>1, <1>5, <1>8, <1>9, <1>10, Zenon

\* A change of a node's status, or of its kind, changes nothing else.
LEMMA SameTree ==
    ASSUME NEW p \in Seq(PlanNode), WellFormed(p), NEW q \in Seq(PlanNode), Len(q) = Len(p),
           \A i \in 1 .. Len(p) : q[i].id = p[i].id /\ q[i].depth = p[i].depth
    PROVE  /\ Ids(q) = Ids(p) /\ WellFormed(q)
           /\ \A n \in Ids(p) : At(q, n) = At(p, n) /\ Ancestors(q, n) = Ancestors(p, n)
<1>1. Ids(q) = Ids(p) /\ WellFormed(q)
  BY SameSkeleton
<1>2. DOMAIN p = 1 .. Len(p) /\ DOMAIN q = 1 .. Len(p) /\ Len(p) \in Nat
  BY PlanDomain
<1>3. \A n \in Ids(p) : At(q, n) = At(p, n)
  BY <1>1, <1>2, AtPosition, AtUnique
<1>4. \A m, n \in Ids(p) : m \in Ancestors(q, n) <=> m \in Ancestors(p, n)
  <2>1. SUFFICES ASSUME NEW m \in Ids(p), NEW n \in Ids(p)
                 PROVE  m \in Ancestors(q, n) <=> m \in Ancestors(p, n)
    OBVIOUS
  <2>2. PICK i : i = At(p, m)
    OBVIOUS
  <2>3. PICK j : j = At(p, n)
    OBVIOUS
  <2>4. i \in 1 .. Len(p) /\ j \in 1 .. Len(p)
    BY <2>2, <2>3, AtPosition
  <2>5. \A k \in i + 1 .. j : k \in 1 .. Len(p)
    BY <1>2, <2>4
  <2>6. Above(q, i, j) <=> Above(p, i, j)
    BY <2>4, <2>5 DEF Above
  <2>7. m \in Ancestors(q, n) <=> Above(q, i, j)
    BY <1>1, <1>3, <2>2, <2>3, AncestorsAt
  <2>8. m \in Ancestors(p, n) <=> Above(p, i, j)
    BY <2>2, <2>3, AncestorsAt
  <2> QED  BY <2>6, <2>7, <2>8
<1>5. \A n \in Ids(p) : Ancestors(q, n) = Ancestors(p, n)
  <2>1. \A n \in Ids(p) : Ancestors(p, n) \subseteq Ids(p) /\ Ancestors(q, n) \subseteq Ids(p)
    BY <1>1 DEF Ancestors
  <2> QED  BY <1>4, <2>1
<1> QED  BY <1>1, <1>3, <1>5

LEMMA SetStatusTree ==
    ASSUME NEW p \in Seq(PlanNode), WellFormed(p), NEW n \in Ids(p), NEW s \in Statuses
    PROVE  LET q == SetStatus(p, n, s)
           IN  /\ q \in Seq(PlanNode) /\ WellFormed(q) /\ Ids(q) = Ids(p) /\ Len(q) = Len(p)
               /\ \A m \in Ids(p) : At(q, m) = At(p, m) /\ Ancestors(q, m) = Ancestors(p, m)
               /\ \A m \in Ids(p) : Status(q, m) = IF m = n THEN s ELSE Status(p, m)
               /\ \A i \in 1 .. Len(p) : i # At(p, n) => q[i] = p[i]
<1> DEFINE q == SetStatus(p, n, s)
           a == At(p, n)
<1>1. q \in Seq(PlanNode) /\ WellFormed(q) /\ Ids(q) = Ids(p)
  BY SetStatusPlan
<1>2. /\ DOMAIN p = 1 .. Len(p) /\ a \in DOMAIN p /\ p[a].id = n /\ Len(p) \in Nat
      /\ \A i \in 1 .. Len(p) : p[i] \in PlanNode
  BY AtPosition, PlanDomain
<1>3. /\ DOMAIN q = DOMAIN p
      /\ \A i \in 1 .. Len(p) : i # a => q[i] = p[i]
      /\ q[a] = [p[a] EXCEPT !.status = s]
  BY <1>2 DEF SetStatus
<1>4. /\ q[a].id = p[a].id /\ q[a].depth = p[a].depth /\ q[a].status = s
  <2>1. p[a] \in PlanNode
    BY <1>2
  <2> QED  BY <1>3, <2>1 DEF PlanNode
<1> HIDE DEF q, a
<1>5. Len(q) = Len(p)
  BY <1>1, <1>2, <1>3, SameLength, LenProperties
<1>6. \A i \in 1 .. Len(p) : q[i].id = p[i].id /\ q[i].depth = p[i].depth
  BY <1>3, <1>4
<1>7. \A m \in Ids(p) : At(q, m) = At(p, m) /\ Ancestors(q, m) = Ancestors(p, m)
  BY <1>1, <1>5, <1>6, SameTree
<1>8. ASSUME NEW m \in Ids(p) PROVE Status(q, m) = IF m = n THEN s ELSE Status(p, m)
  <2>1. At(q, m) = At(p, m) /\ At(p, m) \in 1 .. Len(p) /\ p[At(p, m)].id = m
    BY <1>7, AtPosition
  <2>2. m = n <=> At(p, m) = a
    BY <1>2, <2>1 DEF a
  <2> QED  BY <1>3, <1>4, <2>1, <2>2 DEF Status, Node
<1> QED  BY <1>1, <1>3, <1>5, <1>7, <1>8 DEF q, a

\* The ids of what update_plan() keeps.
KeptIds(p) == {p[j].id : j \in KeptPositions(p)}

\* update_plan(): the new steps are below and above nobody.
LEMMA RevisedGraft ==
    ASSUME NEW p \in Seq(PlanNode), WellFormed(p),
           NEW kept \in Ascending(KeptPositions(p)),
           NEW forest \in Seq(Shoot), Flat(forest),
           NEW ids \in [1 .. Len(forest) -> Nodes], IsInjective(ids),
           \A i \in 1 .. Len(forest) : \A j \in KeptPositions(p) : ids[i] # p[j].id
    PROVE  LET q == Revised(p, kept, Grown(forest, ids, 0))
           IN  /\ Grafted(p, q, KeptIds(p), {})
               /\ Ids(q) = KeptIds(p) \cup {ids[i] : i \in 1 .. Len(forest)}
               /\ \A l \in Ids(q) \ KeptIds(p) : l \in Tops(q)
<1> DEFINE K == KeptPositions(p)
           m == Cardinality(K)
           n == Len(forest)
           q == Revised(p, kept, Grown(forest, ids, 0))
<1>1. /\ DOMAIN p = 1 .. Len(p) /\ Len(p) \in Nat /\ n \in Nat
      /\ \A i \in 1 .. Len(p) : p[i] \in PlanNode /\ p[i].depth \in Nat \ {0}
  BY PlanDomain, LenProperties
<1>2. K \in SUBSET (1 .. Len(p))
  BY RevisedMembers
<1>3. /\ m \in Nat /\ kept \in [1 .. m -> K]
      /\ \A i, j \in 1 .. m : i < j <=> kept[i] < kept[j]
      /\ \A k \in K : \E i \in 1 .. m : kept[i] = k
  BY RevisedMembers
<1>4. /\ q \in Seq(PlanNode) /\ Len(q) = m + n /\ DOMAIN q = 1 .. m + n
      /\ \A i \in 1 .. m : q[i] = p[kept[i]]
      /\ \A i \in 1 .. n : /\ q[m + i].id = ids[i] /\ q[m + i].depth = 1
                           /\ q[m + i].status = "pending"
  BY RevisedMembers
<1>5. WellFormed(q)
  BY RevisedPlan
<1>6. KeptIds(p) = {p[j].id : j \in K}
  BY DEF KeptIds
<1> HIDE DEF K, m, n, q
<1>7. \A i \in 1 .. m : /\ kept[i] \in K /\ kept[i] \in 1 .. Len(p) /\ q[i] = p[kept[i]]
                        /\ i \in DOMAIN q /\ kept[i] \in DOMAIN p
                        /\ q[i].depth \in Nat \ {0}
  <2>1. \A i \in 1 .. m : kept[i] \in K /\ i \in 1 .. m + n
    BY <1>1, <1>3
  <2> QED  BY <1>1, <1>2, <1>4, <2>1
<1>8. \A i, j \in 1 .. m : Above(q, i, j) <=> Above(p, kept[i], kept[j])
  <2>1. SUFFICES ASSUME NEW i \in 1 .. m, NEW j \in 1 .. m
                 PROVE  Above(q, i, j) <=> Above(p, kept[i], kept[j])
    OBVIOUS
  <2>2. ASSUME Above(q, i, j) PROVE Above(p, kept[i], kept[j])
    <3>0. i < j /\ \A y \in i + 1 .. j : q[y].depth > q[i].depth
      BY <2>2 DEF Above
    <3>1. kept[j] \in K
      BY <1>7
    <3>2. PICK t \in DOMAIN p : /\ p[t].depth = 1 /\ p[t].status = "completed"
                                /\ Under(p, t, kept[j])
      BY <3>1 DEF K, KeptPositions
    <3>3. /\ t \in 1 .. Len(p) /\ t <= kept[j]
          /\ \A x \in t + 1 .. kept[j] : p[x].depth > 1
      BY <1>1, <3>2 DEF Under
    <3>4. \A x \in t .. kept[j] : x \in K
      <4>1. SUFFICES ASSUME NEW x \in t .. kept[j] PROVE x \in K
        OBVIOUS
      <4>2. x \in DOMAIN p /\ t <= x /\ \A y \in t + 1 .. x : y \in t + 1 .. kept[j]
        BY <1>1, <1>7, <3>3
      <4>3. Under(p, t, x)
        BY <3>2, <3>3, <4>2 DEF Under
      <4> QED  BY <3>2, <4>2, <4>3 DEF K, KeptPositions
    <3>5. t <= kept[i]
      <4> SUFFICES ASSUME ~ (t <= kept[i]) PROVE FALSE
        OBVIOUS
      <4>1. t \in t .. kept[j] /\ kept[i] < t
        BY <1>1, <1>7, <3>3
      <4>2. PICK l \in 1 .. m : kept[l] = t
        BY <1>3, <3>4, <4>1
      <4>3. i < l
        BY <1>3, <4>1, <4>2
      <4>4. ~ (j < l)
        <5>1. ~ (kept[j] < kept[l])
          BY <1>1, <1>7, <3>3, <4>2
        <5> QED  BY <1>3, <4>2, <5>1
      <4>5. l \in i + 1 .. j
        BY <1>3, <4>2, <4>3, <4>4
      <4>6. q[l].depth > q[i].depth /\ q[l].depth = 1 /\ q[i].depth \in Nat \ {0}
        BY <1>7, <3>0, <3>2, <4>2, <4>5
      <4> QED  BY <4>6
    <3>6. ASSUME NEW x \in kept[i] + 1 .. kept[j] PROVE p[x].depth > p[kept[i]].depth
      <4>1. x \in t .. kept[j] /\ kept[i] < x
        BY <1>1, <1>7, <3>3, <3>5, <3>6
      <4>2. PICK y \in 1 .. m : kept[y] = x
        BY <1>3, <3>4, <4>1
      <4>3. i < y
        BY <1>3, <4>1, <4>2
      <4>4. ~ (j < y)
        <5>1. ~ (kept[j] < kept[y])
          BY <1>1, <1>7, <3>6, <4>2
        <5> QED  BY <1>3, <4>2, <5>1
      <4>5. y \in i + 1 .. j
        BY <1>3, <4>2, <4>3, <4>4
      <4> QED  BY <1>7, <3>0, <4>2, <4>5
    <3>7. kept[i] < kept[j]
      BY <1>3, <3>0
    <3> QED  BY <3>6, <3>7 DEF Above
  <2>3. ASSUME Above(p, kept[i], kept[j]) PROVE Above(q, i, j)
    <3>1. i < j
      BY <1>3, <2>3 DEF Above
    <3>2. ASSUME NEW y \in i + 1 .. j PROVE q[y].depth > q[i].depth
      <4>1. y \in 1 .. m /\ i < y /\ ~ (j < y)
        BY <1>3, <3>2
      <4>2. kept[i] < kept[y] /\ ~ (kept[j] < kept[y])
        BY <1>3, <4>1
      <4>3. kept[y] \in kept[i] + 1 .. kept[j]
        BY <1>1, <1>7, <4>1, <4>2
      <4> QED  BY <1>7, <2>3, <4>1, <4>3 DEF Above
    <3> QED  BY <3>1, <3>2 DEF Above
  <2> QED  BY <2>2, <2>3
<1>9. \A i \in 1 .. m : \A x \in m + 1 .. m + n : ~Above(q, i, x) /\ ~Above(q, x, i)
  <2>1. SUFFICES ASSUME NEW i \in 1 .. m, NEW x \in m + 1 .. m + n
                 PROVE  ~Above(q, i, x) /\ ~Above(q, x, i)
    OBVIOUS
  <2>2. x - m \in 1 .. n /\ m + (x - m) = x /\ i < x /\ x \in i + 1 .. x
    BY <1>1, <1>3
  <2>3. q[x].depth = 1
    BY <1>4, <2>2
  <2> QED  BY <1>3, <1>7, <2>2, <2>3 DEF Above
<1>10. \A j \in K : /\ p[j].id \in Ids(p) /\ At(p, p[j].id) = j
                    /\ p[j].id \in Ids(q)
                    /\ \E i \in 1 .. m : j = kept[i] /\ At(q, p[j].id) = i
  <2>1. SUFFICES ASSUME NEW j \in K
                 PROVE  /\ p[j].id \in Ids(p) /\ At(p, p[j].id) = j
                        /\ p[j].id \in Ids(q)
                        /\ \E i \in 1 .. m : j = kept[i] /\ At(q, p[j].id) = i
    OBVIOUS
  <2>2. PICK i \in 1 .. m : j = kept[i]
    BY <1>3
  <2>3. q[i].id \in Ids(q) /\ At(q, q[i].id) = i
    BY <1>4, <1>5, <1>7, AtUnique
  <2> QED  BY <1>1, <1>2, <1>7, <2>2, <2>3, AtUnique
<1>11. \A m1 \in Ids(q) \ KeptIds(p) : At(q, m1) \in m + 1 .. m + n
  <2>1. SUFFICES ASSUME NEW l \in Ids(q) \ KeptIds(p) PROVE At(q, l) \in m + 1 .. m + n
    OBVIOUS
  <2>2. At(q, l) \in 1 .. m + n /\ q[At(q, l)].id = l
    BY <1>4, AtPosition
  <2>3. ~ (At(q, l) \in 1 .. m)
    BY <1>6, <1>7, <2>1, <2>2
  <2> QED  BY <1>1, <1>3, <2>2, <2>3
<1>12. \A x \in m + 1 .. m + n : x \in DOMAIN q /\ q[x].status = "pending" /\ q[x].depth = 1
                                 /\ q[x].id \in {ids[i] : i \in 1 .. n}
  <2>1. SUFFICES ASSUME NEW x \in m + 1 .. m + n
                 PROVE  /\ x \in DOMAIN q /\ q[x].status = "pending" /\ q[x].depth = 1
                        /\ q[x].id \in {ids[i] : i \in 1 .. n}
    OBVIOUS
  <2>2. PICK i : i = x - m
    OBVIOUS
  <2>3. i \in 1 .. n /\ m + i = x /\ x \in 1 .. m + n
    BY <1>1, <1>3, <2>2
  <2> QED  BY <1>4, <2>3
<1>13. Ids(q) = KeptIds(p) \cup {ids[i] : i \in 1 .. n}
  <2>1. KeptIds(p) \subseteq Ids(q)
    BY <1>6, <1>10
  <2>2. ASSUME NEW l \in Ids(q), l \notin KeptIds(p) PROVE l \in {ids[i] : i \in 1 .. n}
    BY <1>4, <1>11, <1>12, <2>2, AtPosition
  <2>3. ASSUME NEW i \in 1 .. n PROVE ids[i] \in Ids(q)
    <3>1. m + i \in DOMAIN q /\ q[m + i].id = ids[i]
      BY <1>1, <1>3, <1>4
    <3> QED  BY <3>1 DEF Ids
  <2> QED  BY <2>1, <2>2, <2>3
<1>14. /\ KeptIds(p) \subseteq Ids(p) \cap Ids(q)
       /\ \A l \in KeptIds(p) : Node(q, l) = Node(p, l)
  BY <1>6, <1>7, <1>10 DEF Node
<1>15. \A l \in Ids(q) \ KeptIds(p) : Status(q, l) = "pending"
  BY <1>11, <1>12 DEF Status, Node
<1>16. \A l, k \in KeptIds(p) : l \in Ancestors(q, k) <=> l \in Ancestors(p, k)
  <2>1. SUFFICES ASSUME NEW l \in KeptIds(p), NEW k \in KeptIds(p)
                 PROVE  l \in Ancestors(q, k) <=> l \in Ancestors(p, k)
    OBVIOUS
  <2>2. PICK i \in 1 .. m : kept[i] = At(p, l) /\ At(q, l) = i
    BY <1>6, <1>10
  <2>3. PICK j \in 1 .. m : kept[j] = At(p, k) /\ At(q, k) = j
    BY <1>6, <1>10
  <2> QED  BY <1>4, <1>5, <1>8, <1>14, <2>2, <2>3, AncestorsAt
<1>17. \A l \in KeptIds(p) : \A k \in Ids(q) \ KeptIds(p) :
           k \notin Ancestors(q, l) /\ l \notin Ancestors(q, k)
  <2>1. SUFFICES ASSUME NEW l \in KeptIds(p), NEW k \in Ids(q) \ KeptIds(p)
                 PROVE  k \notin Ancestors(q, l) /\ l \notin Ancestors(q, k)
    OBVIOUS
  <2>2. PICK i \in 1 .. m : At(q, l) = i
    BY <1>6, <1>10
  <2> QED  BY <1>4, <1>5, <1>9, <1>11, <1>14, <2>2, AncestorsAt
<1>18. \A l \in Ids(q) \ KeptIds(p) : l \in Tops(q)
  BY <1>11, <1>12 DEF Tops, Node
<1> QED  BY <1>13, <1>14, <1>15, <1>16, <1>17, <1>18 DEF Grafted, q, n

-----------------------------------------------------------------------------
(* Which work is done.                                                     *)

\* A node below another is a child of it or below one.
LEMMA ChildAbove ==
    ASSUME NEW p \in Seq(PlanNode), WellFormed(p), NEW m \in Ids(p), NEW n \in Ids(p),
           m \in Ancestors(p, n)
    PROVE  \E c \in Children(p, m) : c \in Ids(p) /\ (n = c \/ c \in Ancestors(p, n))
<1> DEFINE i == At(p, m)
           j == At(p, n)
           d == p[i].depth
           T == {k \in i + 1 .. j : p[k].depth = d + 1}
<1>1. /\ i \in 1 .. Len(p) /\ j \in 1 .. Len(p) /\ p[i].id = m /\ p[j].id = n
      /\ Len(p) \in Nat /\ DOMAIN p = 1 .. Len(p) /\ i < j
      /\ \A k \in i + 1 .. j : p[k].depth > d
  <2>1. Above(p, i, j)
    BY AncestorsAt
  <2> QED  BY <2>1, AtPosition, PlanDomain DEF Above
<1>2. \A k \in 1 .. Len(p) : p[k].depth \in Nat
  BY PlanDomain
<1> HIDE DEF i, j
<1>3. i + 1 \in T
  <2>1. i + 1 \in i + 1 .. j /\ i + 1 \in 1 .. Len(p) /\ i + 1 > 1 /\ (i + 1) - 1 = i
    BY <1>1
  <2>2. p[i + 1].depth <= p[i].depth + 1
    BY <1>1, <2>1 DEF WellFormed, Shaped
  <2> QED  BY <1>1, <1>2, <2>1, <2>2
<1>4. PICK k \in T : \A l \in T : l <= k
  <2>1. j \in Nat /\ T \in SUBSET (0 .. j) /\ T # {}
    BY <1>1, <1>3
  <2> HIDE DEF T
  <2> QED  BY <2>1, Greatest
<1>5. k \in 1 .. Len(p) /\ k <= j /\ i < k /\ p[k].depth = d + 1
  BY <1>1, <1>4
<1>6. \A l \in k + 1 .. j : p[l].depth > p[k].depth
  <2>1. SUFFICES ASSUME NEW l \in k + 1 .. j PROVE p[l].depth > p[k].depth
    OBVIOUS
  <2>2. l \in i + 1 .. j /\ ~ (l <= k) /\ l \in 1 .. Len(p)
    BY <1>1, <1>5
  <2>3. p[l].depth > d /\ p[l].depth # d + 1 /\ p[l].depth \in Nat /\ d \in Nat
    BY <1>1, <1>2, <1>4, <2>2
  <2> QED  BY <1>5, <2>3
<1>7. At(p, p[k].id) = k /\ p[k].id \in Ids(p)
  BY <1>1, <1>5, AtUnique
<1>8. p[k].id \in Children(p, m)
  <2>1. Under(p, i, k)
    BY <1>1, <1>5 DEF Under
  <2> QED  BY <1>1, <1>5, <1>7, <2>1 DEF Children, Subtree, Node, i
<1>9. n = p[k].id \/ p[k].id \in Ancestors(p, n)
  <2>1. CASE k = j
    BY <1>1, <2>1
  <2>2. CASE k # j
    <3>1. Above(p, k, j)
      BY <1>1, <1>5, <1>6, <2>2 DEF Above
    <3> QED  BY <1>7, <3>1, AncestorsAt DEF j
  <2> QED  BY <2>1, <2>2
<1> QED  BY <1>7, <1>8, <1>9

\* Nothing of n, nor of what is above it, is completed.
Open(p, n) == \A m \in {n} \cup Ancestors(p, n) : Status(p, m) # "completed"

\* n is completed, or one of the leaves E that were given up.
DoneOrGivenUp(p, E, n) == \/ Status(p, n) = "completed"
                          \/ Status(p, n) = "failed" /\ IsLeaf(p, n) /\ n \in E

\* Below a completed node everything is.
Closed(p, E) == \A n \in Ids(p) : \A b \in Ancestors(p, n) :
                    Status(p, b) = "completed" => DoneOrGivenUp(p, E, n)

LEMMA AncestorsType ==
    ASSUME NEW p, NEW n, NEW m \in Ancestors(p, n)
    PROVE  m \in Ids(p) /\ m # n
BY DEF Ancestors

\* The statuses decide it, where the tree is the same.
LEMMA OpenAncestors ==
    ASSUME NEW p \in Seq(PlanNode), WellFormed(p), NEW n \in Ids(p), Open(p, n),
           NEW m \in {n} \cup Ancestors(p, n)
    PROVE  m \in Ids(p) /\ Open(p, m)
<1>1. m \in Ids(p)
  BY AncestorsType
<1>2. \A l \in Ancestors(p, m) : l \in Ids(p) /\ l \in {n} \cup Ancestors(p, n)
  BY <1>1, AncestorsType, AncestorsLine
<1> QED  BY <1>1, <1>2 DEF Open

\* A node that is neither completed nor given up has nothing completed above it.
LEMMA PendingOpen ==
    ASSUME NEW p \in Seq(PlanNode), WellFormed(p), NEW E, Closed(p, E), NEW n \in Ids(p),
           ~DoneOrGivenUp(p, E, n)
    PROVE  Open(p, n)
BY DEF Open, Closed, DoneOrGivenUp

\* A branch that is ready is open, and everything below it is done.
LEMMA ReadyOpen ==
    ASSUME NEW p \in Seq(PlanNode), WellFormed(p), NEW E, Closed(p, E),
           NEW b \in ReadyBranches(p)
    PROVE  /\ b \in Ids(p) /\ ~IsLeaf(p, b) /\ Open(p, b)
           /\ \A n \in Ids(p) : b \in Ancestors(p, n) => DoneOrGivenUp(p, E, n)
<1>1. /\ b \in Ids(p) /\ ~IsLeaf(p, b) /\ Status(p, b) # "completed"
      /\ \A c \in Children(p, b) : Status(p, c) = "completed"
  BY DEF ReadyBranches, Branches, Leaves
<1>2. Open(p, b)
  BY <1>1, PendingOpen DEF DoneOrGivenUp
<1>3. ASSUME NEW n \in Ids(p), b \in Ancestors(p, n) PROVE DoneOrGivenUp(p, E, n)
  <2>1. PICK c \in Children(p, b) : c \in Ids(p) /\ (n = c \/ c \in Ancestors(p, n))
    BY <1>1, <1>3, ChildAbove
  <2> QED  BY <1>1, <2>1 DEF Closed, DoneOrGivenUp
<1> QED  BY <1>1, <1>2, <1>3

\* Leaves are leaves by the tree alone.
LEMMA SameLeaves ==
    ASSUME NEW p \in Seq(PlanNode), WellFormed(p), NEW q \in Seq(PlanNode), WellFormed(q),
           Ids(q) = Ids(p), \A m \in Ids(p) : Ancestors(q, m) = Ancestors(p, m)
    PROVE  \A n \in Ids(p) : IsLeaf(q, n) <=> IsLeaf(p, n)
BY ChildAncestors

\* A node changes its status.
LEMMA StatusClosed ==
    ASSUME NEW p \in Seq(PlanNode), WellFormed(p), NEW E, NEW F, Closed(p, E), E \subseteq F,
           NEW n \in Ids(p), NEW s \in Statuses,
           s = "completed" => \A k \in Ids(p) : n \in Ancestors(p, k) => DoneOrGivenUp(p, E, k),
           s # "completed" => \/ \A b \in Ancestors(p, n) : Status(p, b) # "completed"
                              \/ s = "failed" /\ IsLeaf(p, n) /\ n \in F
    PROVE  Closed(SetStatus(p, n, s), F)
<1>1. PICK q : q = SetStatus(p, n, s)
  OBVIOUS
<1>2. /\ q \in Seq(PlanNode) /\ WellFormed(q) /\ Ids(q) = Ids(p)
      /\ \A m \in Ids(p) : Ancestors(q, m) = Ancestors(p, m)
      /\ \A m \in Ids(p) : Status(q, m) = IF m = n THEN s ELSE Status(p, m)
  BY <1>1, SetStatusTree
<1>3. \A m \in Ids(p) : IsLeaf(q, m) <=> IsLeaf(p, m)
  BY <1>2, SameLeaves
<1>4. \A m \in Ids(p) : m # n /\ DoneOrGivenUp(p, E, m) => DoneOrGivenUp(q, F, m)
  BY <1>2, <1>3 DEF DoneOrGivenUp
<1>5. ASSUME NEW m \in Ids(q), NEW b \in Ancestors(q, m), Status(q, b) = "completed"
      PROVE  DoneOrGivenUp(q, F, m)
  <2>1. m \in Ids(p) /\ b \in Ids(p) /\ b \in Ancestors(p, m) /\ b # m
    BY <1>2, <1>5, AncestorsType
  <2>2. CASE m = n
    <3>1. Status(p, b) = "completed"
      BY <1>2, <1>5, <2>1, <2>2
    <3>2. CASE s = "completed"
      BY <1>2, <2>2, <3>2 DEF DoneOrGivenUp
    <3>3. CASE s # "completed"
      BY <1>2, <1>3, <2>1, <2>2, <3>1, <3>3 DEF DoneOrGivenUp
    <3> QED  BY <3>2, <3>3
  <2>3. CASE m # n /\ b = n
    BY <1>2, <1>4, <1>5, <2>1, <2>3
  <2>4. CASE m # n /\ b # n
    <3>1. Status(p, b) = "completed"
      BY <1>2, <1>5, <2>1, <2>4
    <3> QED  BY <1>4, <2>1, <2>4, <3>1 DEF Closed
  <2> QED  BY <2>2, <2>3, <2>4
<1> QED  BY <1>1, <1>5 DEF Closed

\* New nodes grow where nothing above them is completed.
LEMMA GraftClosed ==
    ASSUME NEW p \in Seq(PlanNode), WellFormed(p), NEW q \in Seq(PlanNode), WellFormed(q),
           NEW keep, NEW hosts, Grafted(p, q, keep, hosts), NEW E, Closed(p, E),
           \A h \in hosts : Open(p, h)
    PROVE  Closed(q, E)
<1>1. /\ keep \subseteq Ids(p) /\ keep \subseteq Ids(q)
      /\ \A m \in keep : Status(q, m) = Status(p, m)
      /\ \A m \in Ids(q) \ keep : Status(q, m) = "pending"
      /\ \A l, m \in keep : l \in Ancestors(q, m) <=> l \in Ancestors(p, m)
      /\ \A l \in keep : \A m \in Ids(q) \ keep : /\ m \notin Ancestors(q, l)
                                                  /\ l \in Ancestors(q, m) <=> l \in hosts
  BY DEF Grafted, Status
<1>2. SUFFICES ASSUME NEW n \in Ids(q), NEW b \in Ancestors(q, n), Status(q, b) = "completed"
               PROVE  DoneOrGivenUp(q, E, n)
  BY DEF Closed
<1>3. b \in Ids(q) /\ b \in keep
  BY <1>1, <1>2, AncestorsType
<1>4. n \in keep
  BY <1>1, <1>2, <1>3 DEF Open
<1>5. b \in Ancestors(p, n) /\ Status(p, b) = "completed" /\ DoneOrGivenUp(p, E, n)
  BY <1>1, <1>2, <1>3, <1>4 DEF Closed
<1>6. n \notin hosts
  BY <1>5 DEF Open
<1>7. IsLeaf(p, n) => IsLeaf(q, n)
  BY <1>1, <1>4, <1>6, ChildAncestors
<1> QED  BY <1>1, <1>4, <1>5, <1>7 DEF DoneOrGivenUp

-----------------------------------------------------------------------------
(* There is always something to do.                                        *)

PendingLeaf(p) == \E n \in Ids(p) : IsLeaf(p, n) /\ Status(p, n) = "pending"

\* What current_leaf() finds.
LEMMA CurrentLeafPending ==
    ASSUME NEW p \in Seq(PlanNode), WellFormed(p)
    PROVE  /\ CurrentLeaf(p) # NoNode <=> PendingLeaf(p)
           /\ CurrentLeaf(p) # NoNode => /\ CurrentLeaf(p) \in Ids(p)
                                         /\ IsLeaf(p, CurrentLeaf(p))
                                         /\ Status(p, CurrentLeaf(p)) = "pending"
<1> DEFINE T == {i \in DOMAIN p : p[i].id \in Leaves(p) /\ p[i].status = "pending"}
<1>1. \A i \in DOMAIN p : p[i].id \in Ids(p) /\ Status(p, p[i].id) = p[i].status
  BY AtUnique DEF Status, Node
<1>2. PendingLeaf(p) <=> T # {}
  <2>1. ASSUME PendingLeaf(p) PROVE T # {}
    <3>1. PICK n \in Ids(p) : IsLeaf(p, n) /\ Status(p, n) = "pending"
      BY <2>1 DEF PendingLeaf
    <3>2. At(p, n) \in DOMAIN p /\ p[At(p, n)].id = n
      BY AtPosition
    <3> QED  BY <3>1, <3>2 DEF Leaves, Status, Node
  <2>2. ASSUME T # {} PROVE PendingLeaf(p)
    BY <1>1, <2>2 DEF PendingLeaf, Leaves
  <2> QED  BY <2>1, <2>2
<1>3. ASSUME T # {}
      PROVE  \E i \in T : CurrentLeaf(p) = p[i].id
  <2>1. T \in SUBSET Nat
    BY PlanDomain
  <2>2. \E i \in T : \A j \in T : i <= j
    <3> HIDE DEF T
    <3> QED  BY <1>3, <2>1, Least
  <2>3. (CHOOSE i \in T : \A j \in T : i <= j) \in T
    BY <2>2
  <2> QED  BY <1>3, <2>3 DEF CurrentLeaf
<1>4. T = {} => CurrentLeaf(p) = NoNode
  BY DEF CurrentLeaf
<1>5. Ids(p) \subseteq Nodes
  BY PlanDomain
<1> QED  BY <1>1, <1>2, <1>3, <1>4, <1>5, NoNodeAssumption DEF Leaves

\* Of some nodes of a plan, one stands last.
LEMMA LastNode ==
    ASSUME NEW p \in Seq(PlanNode), NEW S \in SUBSET Ids(p), S # {}
    PROVE  \E m \in S : \A n \in S : At(p, n) <= At(p, m)
<1> DEFINE T == {At(p, n) : n \in S}
<1>1. \A n \in S : At(p, n) \in 0 .. Len(p)
  BY AtPosition, PlanDomain
<1>2. Len(p) \in Nat /\ T \in SUBSET (0 .. Len(p)) /\ T # {}
  BY <1>1, PlanDomain
<1>3. \E i \in T : \A j \in T : j <= i
  <2> HIDE DEF T
  <2> QED  BY <1>2, Greatest
<1> QED  BY <1>3

LEMMA BelowIsLater ==
    ASSUME NEW p \in Seq(PlanNode), WellFormed(p), NEW m \in Ids(p), NEW n \in Ids(p),
           m \in Ancestors(p, n)
    PROVE  ~ (At(p, n) <= At(p, m))
<1>1. Above(p, At(p, m), At(p, n)) /\ At(p, m) \in Nat /\ At(p, n) \in Nat
  BY AncestorsAt, AtPosition
<1> QED  BY <1>1 DEF Above

\* Among new nodes there is a leaf.
LEMMA GraftPending ==
    ASSUME NEW p \in Seq(PlanNode), NEW q \in Seq(PlanNode), WellFormed(q),
           NEW keep, NEW hosts, Grafted(p, q, keep, hosts), Ids(q) \ keep # {}
    PROVE  PendingLeaf(q)
<1>1. PICK m \in Ids(q) \ keep : \A n \in Ids(q) \ keep : At(q, n) <= At(q, m)
  <2>1. Ids(q) \ keep \in SUBSET Ids(q)
    OBVIOUS
  <2> QED  BY <2>1, LastNode
<1>2. \A n \in Ids(q) : m \notin Ancestors(q, n)
  BY <1>1, BelowIsLater DEF Grafted
<1>3. IsLeaf(q, m) /\ Status(q, m) = "pending"
  BY <1>2, ChildAncestors DEF Grafted
<1> QED  BY <1>3 DEF PendingLeaf

\* A plan in which nothing failed and no leaf is pending is complete, or a branch of
\* it is ready.
LEMMA NoDeadEnd ==
    ASSUME NEW p \in Seq(PlanNode), WellFormed(p), ~PendingLeaf(p),
           \A n \in Ids(p) : Status(p, n) # "failed", ~IsComplete(p)
    PROVE  ReadyBranches(p) # {}
<1>1. Unresolved(p) \in SUBSET Ids(p) /\ Unresolved(p) # {}
  BY DEF Unresolved, IsComplete
<1>2. PICK m \in Unresolved(p) : \A n \in Unresolved(p) : At(p, n) <= At(p, m)
  BY <1>1, LastNode
<1>3. m \in Ids(p) /\ Status(p, m) # "completed"
  BY <1>2 DEF Unresolved
<1>4. Status(p, m) = "pending"
  <2>1. Status(p, m) \in Statuses
    BY <1>3, AtPosition DEF Status, PlanNode
  <2> QED  BY <1>3, <2>1 DEF Statuses
<1>5. ~IsLeaf(p, m)
  BY <1>3, <1>4 DEF PendingLeaf
<1>6. ASSUME NEW c \in Children(p, m) PROVE Status(p, c) = "completed"
  <2>1. c \in Ids(p) /\ m \in Ancestors(p, c)
    BY <1>3, ChildAncestors
  <2>2. c \notin Unresolved(p)
    BY <1>2, <1>3, <2>1, BelowIsLater
  <2> QED  BY <2>1, <2>2 DEF Unresolved
<1> QED  BY <1>3, <1>5, <1>6 DEF ReadyBranches, Branches, Leaves

-----------------------------------------------------------------------------
(* What a graft leaves alone.                                              *)

\* A leaf that hosts nothing is a leaf still.
LEMMA GraftLeaf ==
    ASSUME NEW p \in Seq(PlanNode), WellFormed(p), NEW q \in Seq(PlanNode), WellFormed(q),
           NEW keep, NEW hosts, Grafted(p, q, keep, hosts),
           NEW n \in keep, n \notin hosts, IsLeaf(p, n)
    PROVE  IsLeaf(q, n)
<1>1. n \in Ids(p) /\ n \in Ids(q) /\ keep \subseteq Ids(p)
  BY DEF Grafted
<1>2. \A k \in Ids(p) : n \notin Ancestors(p, k)
  BY <1>1, ChildAncestors
<1>3. \A k \in Ids(q) : n \notin Ancestors(q, k)
  BY <1>1, <1>2 DEF Grafted
<1> QED  BY <1>1, <1>3, ChildAncestors

\* What is above a node that is kept is kept, and was above it.
LEMMA GraftAbove ==
    ASSUME NEW p \in Seq(PlanNode), NEW q \in Seq(PlanNode),
           NEW keep, NEW hosts, Grafted(p, q, keep, hosts), NEW n \in keep
    PROVE  /\ n \in Ids(p) /\ n \in Ids(q) /\ Status(q, n) = Status(p, n)
           /\ \A m \in Ancestors(q, n) : m \in keep /\ m \in Ancestors(p, n)
           /\ Open(p, n) => Open(q, n)
<1>1. n \in Ids(p) /\ n \in Ids(q) /\ \A m \in keep : Status(q, m) = Status(p, m)
  BY DEF Grafted, Status
<1>2. \A m \in Ancestors(q, n) : m \in keep /\ m \in Ancestors(p, n)
  BY AncestorsType DEF Grafted
<1>3. Open(p, n) => Open(q, n)
  BY <1>1, <1>2 DEF Open
<1> QED  BY <1>1, <1>2, <1>3

\* The node whose children are replaced, or one of the new ones, is a leaf.
LEMMA GraftHost ==
    ASSUME NEW p \in Seq(PlanNode), WellFormed(p), NEW q \in Seq(PlanNode), WellFormed(q),
           NEW n \in Ids(p), NEW hosts, Grafted(p, q, Spared(p, n), hosts)
    PROVE  \E m \in Ids(q) : IsLeaf(q, m) /\ (m = n \/ Status(q, m) = "pending")
<1>1. CASE Ids(q) \ Spared(p, n) # {}
  BY <1>1, GraftPending DEF PendingLeaf
<1>2. CASE Ids(q) \subseteq Spared(p, n)
  <2>1. n \in Spared(p, n) /\ n \in Ids(q)
    BY DEF Spared, Grafted
  <2>2. ASSUME NEW k \in Ids(q), n \in Ancestors(q, k) PROVE FALSE
    <3>1. k \in Spared(p, n) /\ k \in Ids(p) /\ n \in Ancestors(p, k)
      BY <1>2, <2>1, <2>2 DEF Grafted
    <3>2. k \in Subtree(p, n) /\ k # n
      BY <3>1, SubtreeAncestors DEF Ancestors
    <3> QED  BY <3>1, <3>2 DEF Spared
  <2> QED  BY <2>1, <2>2, ChildAncestors
<1> QED  BY <1>1, <1>2

\* The same tree with the same statuses is as closed.
LEMMA SameClosed ==
    ASSUME NEW p \in Seq(PlanNode), WellFormed(p), NEW q \in Seq(PlanNode), WellFormed(q),
           Ids(q) = Ids(p), \A m \in Ids(p) : Ancestors(q, m) = Ancestors(p, m),
           \A m \in Ids(p) : Status(q, m) = Status(p, m), NEW E, Closed(p, E)
    PROVE  Closed(q, E)
<1>1. \A n \in Ids(p) : IsLeaf(q, n) <=> IsLeaf(p, n)
  BY SameLeaves
<1>2. \A n \in Ids(p) : \A b \in Ancestors(p, n) : b \in Ids(p)
  BY AncestorsType
<1> QED  BY <1>1, <1>2 DEF Closed, DoneOrGivenUp

\* What update_plan() keeps is a completed step or below one.
LEMMA KeptDone ==
    ASSUME NEW p \in Seq(PlanNode), WellFormed(p), NEW E, Closed(p, E), NEW n \in KeptIds(p)
    PROVE  n \in Ids(p) /\ DoneOrGivenUp(p, E, n)
<1>1. PICK j \in KeptPositions(p) : n = p[j].id
  BY DEF KeptIds
<1>2. j \in DOMAIN p
  BY DEF KeptPositions
<1>3. PICK i \in DOMAIN p : /\ p[i].depth = 1 /\ p[i].status = "completed"
                            /\ Under(p, i, j)
  BY DEF KeptPositions
<1>4. /\ i \in Nat /\ j \in Nat
  BY <1>2, <1>3, PlanDomain
<1>5. /\ n \in Ids(p) /\ p[i].id \in Ids(p) /\ At(p, n) = j /\ At(p, p[i].id) = i
  BY <1>1, <1>2, <1>3, AtUnique
<1>6. Status(p, p[i].id) = "completed"
  BY <1>3, <1>5 DEF Status, Node
<1>7. n = p[i].id \/ p[i].id \in Ancestors(p, n)
  <2>1. CASE i = j
    BY <1>1, <2>1
  <2>2. CASE i # j
    <3>1. Above(p, i, j)
      BY <1>3, <1>4, <2>2 DEF Above, Under
    <3> QED  BY <1>5, <3>1, AncestorsAt
  <2> QED  BY <2>1, <2>2
<1> QED  BY <1>5, <1>6, <1>7 DEF Closed, DoneOrGivenUp

\* A plan all pending is closed.
LEMMA NothingDoneClosed ==
    ASSUME NEW p, NEW E, \A n \in Ids(p) : Status(p, n) = "pending"
    PROVE  Closed(p, E)
BY AncestorsType DEF Closed

-----------------------------------------------------------------------------
(* What an edit leaves outside a subtree.                                  *)

\* The beginnings of two plans that agree on them.
LEMMA SameBefore ==
    ASSUME NEW p \in Seq(PlanNode), NEW q \in Seq(PlanNode),
           NEW a \in Nat, a <= Len(p), a <= Len(q), \A i \in 1 .. a : q[i] = p[i]
    PROVE  SubSeq(q, 1, a) = SubSeq(p, 1, a)
<1>1. /\ Len(p) \in Nat /\ Len(q) \in Nat
      /\ \A i \in 1 .. Len(p) : p[i] \in PlanNode
      /\ \A i \in 1 .. Len(q) : q[i] \in PlanNode
  BY PlanDomain
<1>2. /\ \A i \in 1 .. a : p[i] \in PlanNode /\ q[i] \in PlanNode
      /\ 1 \in Int /\ a \in Int /\ a - 1 + 1 = a /\ \A i \in Int : 1 + i - 1 = i
  BY <1>1
<1> DEFINE x == SubSeq(p, 1, a)
           y == SubSeq(q, 1, a)
<1>3. /\ x \in Seq(PlanNode) /\ Len(x) = IF 1 <= a THEN a - 1 + 1 ELSE 0
      /\ \A i \in 1 .. a - 1 + 1 : x[i] = p[1 + i - 1]
  BY <1>2, SubSeqProperties
<1>4. /\ y \in Seq(PlanNode) /\ Len(y) = IF 1 <= a THEN a - 1 + 1 ELSE 0
      /\ \A i \in 1 .. a - 1 + 1 : y[i] = q[1 + i - 1]
  BY <1>2, SubSeqProperties
<1> HIDE DEF x, y
<1>5. Len(x) = a /\ Len(y) = a
  BY <1>3, <1>4
<1>6. \A i \in 1 .. Len(x) : y[i] = x[i]
  BY <1>2, <1>3, <1>4, <1>5
<1>7. x = y
  BY <1>3, <1>4, <1>5, <1>6, SeqEqual
<1> QED  BY <1>7 DEF x, y

\* From position e of p and from position d of q the two plans go on alike.
SameEnd(p, e, q, d) ==
    /\ Len(p) - e \in Nat
    /\ Len(q) - d = Len(p) - e
    /\ \A i \in 1 .. Len(p) - e : q[d + i] = p[e + i]

LEMMA SameAfter ==
    ASSUME NEW p \in Seq(PlanNode), NEW q \in Seq(PlanNode), NEW e \in Nat, NEW d \in Nat,
           SameEnd(p, e, q, d)
    PROVE  SubSeq(q, d + 1, Len(q)) = SubSeq(p, e + 1, Len(p))
<1>0. PICK k \in Nat : k = Len(p) - e
  BY DEF SameEnd
<1>k. Len(p) = e + k /\ Len(q) = d + k /\ \A i \in 1 .. k : q[d + i] = p[e + i]
  BY <1>0, PlanDomain DEF SameEnd
<1>1. /\ \A i \in 1 .. Len(p) : p[i] \in PlanNode
      /\ \A i \in 1 .. Len(q) : q[i] \in PlanNode
  BY PlanDomain
<1>2. /\ \A i \in e + 1 .. Len(p) : p[i] \in PlanNode
      /\ \A i \in d + 1 .. Len(q) : q[i] \in PlanNode
      /\ e + 1 \in Int /\ d + 1 \in Int /\ Len(p) \in Int /\ Len(q) \in Int
      /\ Len(p) - (e + 1) + 1 = k /\ Len(q) - (d + 1) + 1 = k
  BY <1>1, <1>k
<1> DEFINE s == SubSeq(p, e + 1, Len(p))
           t == SubSeq(q, d + 1, Len(q))
<1>3. /\ s \in Seq(PlanNode)
      /\ Len(s) = IF e + 1 <= Len(p) THEN Len(p) - (e + 1) + 1 ELSE 0
      /\ \A i \in 1 .. Len(p) - (e + 1) + 1 : s[i] = p[(e + 1) + i - 1]
  BY <1>2, SubSeqProperties
<1>4. /\ t \in Seq(PlanNode)
      /\ Len(t) = IF d + 1 <= Len(q) THEN Len(q) - (d + 1) + 1 ELSE 0
      /\ \A i \in 1 .. Len(q) - (d + 1) + 1 : t[i] = q[(d + 1) + i - 1]
  BY <1>2, SubSeqProperties
<1> HIDE DEF s, t
<1>5. Len(s) = k /\ Len(t) = k
  BY <1>2, <1>3, <1>4, <1>k
<1>6. ASSUME NEW i \in 1 .. k PROVE t[i] = s[i]
  <2>1. (e + 1) + i - 1 = e + i /\ (d + 1) + i - 1 = d + i
    OBVIOUS
  <2>2. s[i] = p[e + i]
    BY <1>2, <1>3, <2>1
  <2>3. t[i] = q[d + i]
    BY <1>2, <1>4, <2>1
  <2> QED  BY <1>k, <2>2, <2>3
<1>7. s = t
  BY <1>3, <1>4, <1>5, <1>6, SeqEqual
<1> QED  BY <1>7 DEF s, t

\* Where a subtree ends is where the depth says so.
LEMMA EndOf ==
    ASSUME NEW p \in Seq(PlanNode), NEW n \in Ids(p), NEW e \in At(p, n) .. Len(p),
           \A j \in At(p, n) + 1 .. e : p[j].depth > Node(p, n).depth,
           e < Len(p) => p[e + 1].depth <= Node(p, n).depth
    PROVE  LastOf(p, n) = e
<1>1. /\ At(p, n) \in Nat /\ Len(p) \in Nat /\ Node(p, n).depth \in Nat
      /\ \A j \in 1 .. Len(p) : p[j].depth \in Nat
      /\ LastOf(p, n) \in At(p, n) .. Len(p)
      /\ \A j \in At(p, n) + 1 .. LastOf(p, n) : p[j].depth > Node(p, n).depth
      /\ LastOf(p, n) < Len(p) => p[LastOf(p, n) + 1].depth <= Node(p, n).depth
  BY AtPosition, SubtreeEnd, PlanDomain
<1>2. ASSUME LastOf(p, n) < e PROVE FALSE
  <2>1. /\ LastOf(p, n) + 1 \in At(p, n) + 1 .. e /\ LastOf(p, n) < Len(p)
        /\ LastOf(p, n) + 1 \in 1 .. Len(p)
    BY <1>1, <1>2
  <2> QED  BY <1>1, <2>1
<1>3. ASSUME e < LastOf(p, n) PROVE FALSE
  <2>1. e + 1 \in At(p, n) + 1 .. LastOf(p, n) /\ e < Len(p) /\ e + 1 \in 1 .. Len(p)
    BY <1>1, <1>3
  <2> QED  BY <1>1, <2>1
<1> QED  BY <1>1, <1>2, <1>3

\* Every node is in the subtree of a step of the root.
LEMMA TopAbove ==
    ASSUME NEW p \in Seq(PlanNode), WellFormed(p), NEW n \in Ids(p)
    PROVE  \E t \in Tops(p) : n \in Subtree(p, t)
<1>1. PICK j \in 1 .. Len(p) : j = At(p, n) /\ p[j].id = n
  BY AtPosition, PlanDomain
<1>2. /\ Len(p) \in Nat /\ DOMAIN p = 1 .. Len(p)
      /\ \A i \in 1 .. Len(p) : p[i].depth \in Nat \ {0}
      /\ p[1].depth = 1
  <2>1. /\ Len(p) \in Nat /\ DOMAIN p = 1 .. Len(p)
        /\ \A i \in 1 .. Len(p) : p[i].depth \in Nat \ {0}
    BY PlanDomain DEF PlanNode
  <2>2. p # <<>>
    BY <1>1, <2>1, EmptySeq
  <2> QED  BY <2>1, <2>2 DEF WellFormed, Shaped
<1> DEFINE T == {i \in 1 .. j : p[i].depth = 1}
<1>3. T \in SUBSET (0 .. Len(p)) /\ 1 \in T
  BY <1>1, <1>2
<1>4. PICK i \in T : \A k \in T : k <= i
  BY <1>2, <1>3, Greatest
<1>5. Under(p, i, j) /\ i \in DOMAIN p /\ j \in DOMAIN p /\ p[i].depth = 1
  BY <1>1, <1>2, <1>4 DEF Under
<1>6. At(p, p[i].id) = i /\ p[i].id \in Ids(p)
  BY <1>5, AtUnique
<1>7. p[i].id \in Tops(p)
  BY <1>5, <1>6 DEF Tops, Node
<1>8. n \in Subtree(p, p[i].id)
  BY <1>1, <1>5, <1>6 DEF Subtree
<1> QED  BY <1>7, <1>8

\* update_plan() keeps what is below a completed step.
LEMMA TopKept ==
    ASSUME NEW p \in Seq(PlanNode), WellFormed(p), NEW t \in Tops(p),
           Status(p, t) = "completed", NEW n \in Subtree(p, t)
    PROVE  n \in KeptIds(p)
<1>1. t \in Ids(p) /\ Node(p, t).depth = 1
  BY DEF Tops
<1>2. PICK i \in DOMAIN p : i = At(p, t) /\ p[i].depth = 1 /\ p[i].status = "completed"
  BY <1>1, AtPosition DEF Node, Status
<1>3. PICK j \in DOMAIN p : Under(p, i, j) /\ n = p[j].id
  BY <1>2 DEF Subtree
<1> QED  BY <1>2, <1>3 DEF KeptIds, KeptPositions

LEMMA InOwnSubtree ==
    ASSUME NEW p \in Seq(PlanNode), NEW n \in Ids(p)
    PROVE  n \in Subtree(p, n)
<1>1. At(p, n) \in DOMAIN p /\ p[At(p, n)].id = n /\ At(p, n) \in Nat
  BY AtPosition, PlanDomain
<1>2. Under(p, At(p, n), At(p, n))
  BY <1>1 DEF Under
<1> QED  BY <1>1, <1>2 DEF Subtree

\* Nobody but the root is above a step of the root.
LEMMA TopsAlone ==
    ASSUME NEW p \in Seq(PlanNode), WellFormed(p), NEW t \in Tops(p)
    PROVE  t \in Ids(p) /\ Ancestors(p, t) = {}
<1>1. t \in Ids(p) /\ Node(p, t).depth = 1
  BY DEF Tops
<1>2. SUFFICES ASSUME NEW m \in Ancestors(p, t) PROVE FALSE
  BY <1>1
<1>3. m \in Ids(p) /\ Above(p, At(p, m), At(p, t))
  BY <1>1, AncestorsAt, AncestorsType
<1>4. /\ At(p, m) \in Nat /\ At(p, t) \in Nat /\ p[At(p, m)].depth \in Nat \ {0}
      /\ p[At(p, t)].depth = 1
  BY <1>1, <1>3, AtPosition DEF Node
<1>5. At(p, t) \in At(p, m) + 1 .. At(p, t)
  BY <1>3, <1>4 DEF Above
<1>6. p[At(p, t)].depth > p[At(p, m)].depth
  BY <1>3, <1>5 DEF Above
<1> QED  BY <1>4, <1>6

\* What update_plan() keeps is what completed steps and their subtrees are made of.
LEMMA KeptTop ==
    ASSUME NEW p \in Seq(PlanNode), WellFormed(p), NEW n \in KeptIds(p)
    PROVE  n \in Ids(p) /\ \E t \in Tops(p) : Status(p, t) = "completed" /\ n \in Subtree(p, t)
<1>1. PICK j \in KeptPositions(p) : n = p[j].id
  BY DEF KeptIds
<1>2. j \in DOMAIN p
  BY DEF KeptPositions
<1>3. PICK i \in DOMAIN p : /\ p[i].depth = 1 /\ p[i].status = "completed"
                            /\ Under(p, i, j)
  BY DEF KeptPositions
<1>4. /\ n \in Ids(p) /\ p[i].id \in Ids(p) /\ At(p, p[i].id) = i
  BY <1>1, <1>2, <1>3, AtUnique
<1>5. p[i].id \in Tops(p) /\ Status(p, p[i].id) = "completed" /\ n \in Subtree(p, p[i].id)
  BY <1>1, <1>2, <1>3, <1>4 DEF Tops, Node, Status, Subtree
<1> QED  BY <1>4, <1>5

\* An unfinished step is none of it, and not above any of it.
LEMMA UnfinishedApart ==
    ASSUME NEW p \in Seq(PlanNode), WellFormed(p), NEW n \in KeptIds(p),
           NEW t \in Tops(p), Status(p, t) # "completed"
    PROVE  n # t /\ t \notin Ancestors(p, n)
<1>1. PICK u \in Tops(p) : n \in Ids(p) /\ Status(p, u) = "completed" /\ n \in Subtree(p, u)
  BY KeptTop
<1>2. u \in Ids(p) /\ t \in Ids(p) /\ Ancestors(p, u) = {} /\ Ancestors(p, t) = {} /\ u # t
  BY <1>1, TopsAlone
<1>3. n = u \/ u \in Ancestors(p, n)
  BY <1>1, <1>2, SubtreeAncestors
<1> QED  BY <1>1, <1>2, <1>3, AncestorsLine

\* It is kept with all that is below.
LEMMA KeptBelow ==
    ASSUME NEW p \in Seq(PlanNode), WellFormed(p), NEW n \in KeptIds(p), NEW m \in Subtree(p, n)
    PROVE  m \in KeptIds(p)
<1>1. PICK t \in Tops(p) : n \in Ids(p) /\ Status(p, t) = "completed" /\ n \in Subtree(p, t)
  BY KeptTop
<1>2. t \in Ids(p)
  BY TopsAlone
<1>3. n = t \/ t \in Ancestors(p, n)
  BY <1>1, <1>2, SubtreeAncestors
<1>4. m \in Ids(p) /\ (m = n \/ n \in Ancestors(p, m))
  BY <1>1, SubtreeAncestors
<1>5. m = t \/ t \in Ancestors(p, m)
  BY <1>1, <1>2, <1>3, <1>4, AncestorsLine
<1>6. m \in Subtree(p, t)
  BY <1>2, <1>4, <1>5, SubtreeAncestors
<1> QED  BY <1>1, <1>6, TopKept

\* And with all that is above.
LEMMA KeptAbove ==
    ASSUME NEW p \in Seq(PlanNode), WellFormed(p), NEW n \in KeptIds(p), NEW m \in Ancestors(p, n)
    PROVE  m \in KeptIds(p)
<1>1. PICK t \in Tops(p) : n \in Ids(p) /\ Status(p, t) = "completed" /\ n \in Subtree(p, t)
  BY KeptTop
<1>2. t \in Ids(p) /\ m \in Ids(p) /\ Ancestors(p, t) = {}
  BY TopsAlone, AncestorsType
<1>3. n = t \/ t \in Ancestors(p, n)
  BY <1>1, <1>2, SubtreeAncestors
<1>4. m = t \/ t \in Ancestors(p, m)
  BY <1>1, <1>2, <1>3, AncestorsLine
<1>5. m \in Subtree(p, t)
  BY <1>2, <1>4, SubtreeAncestors
<1> QED  BY <1>1, <1>5, TopKept

-----------------------------------------------------------------------------
(* Which part of the tree outlives an edit.                                *)

\* The nodes of "keep" are in both trees, above and below each other as before, and
\* below no other.
SameAbove(p, q, keep) ==
    /\ keep \subseteq Ids(p) \cap Ids(q)
    /\ \A l, m \in keep : l \in Ancestors(q, m) <=> l \in Ancestors(p, m)
    /\ \A l \in keep : \A m \in Ids(q) \ keep : m \notin Ancestors(q, l)

LEMMA GraftSame ==
    ASSUME NEW p, NEW q, NEW keep, NEW hosts, Grafted(p, q, keep, hosts)
    PROVE  SameAbove(p, q, keep)
BY DEF Grafted, SameAbove

\* Another edit of the same tree.
LEMMA SameTwice ==
    ASSUME NEW p, NEW q, NEW r, NEW keep, SameAbove(p, q, keep),
           Ids(r) = Ids(q), \A m \in Ids(q) : Ancestors(r, m) = Ancestors(q, m)
    PROVE  SameAbove(p, r, keep)
BY DEF SameAbove

LEMMA SameWhole ==
    ASSUME NEW p, NEW q, Ids(q) = Ids(p), \A m \in Ids(p) : Ancestors(q, m) = Ancestors(p, m)
    PROVE  SameAbove(p, q, Ids(p))
BY DEF SameAbove
=============================================================================
