---------------------------- MODULE ReviewProofs ----------------------------
(***************************************************************************)
(* That a review loses no finding on the way from its leaves to the        *)
(* report, and of the text on the way to the leaves no more than what an   *)
(* oversized class holds beside its methods; that prompts keep to their    *)
(* budgets and clusters are sound: for every codebase and whatever the     *)
(* model answers.                                                          *)
(***************************************************************************)
EXTENDS ReviewTree, OrderProofs

-----------------------------------------------------------------------------
(* What text costs.                                                        *)

\* A text that is cut: lines and where they are from.
Text == [from : Int, to : Int, lines : Seq(Line)]

\* The sums of the first lines, up to the cost of all.
Sums(f, lines) ==
    /\ f \in [0 .. Len(lines) -> Nat] /\ f[0] = 0
    /\ \A i \in 1 .. Len(lines) : f[i] = f[i - 1] + lines[i].cost
    /\ Cost(lines) = f[Len(lines)]

\* There are such sums.
LEMMA CostRun ==
    ASSUME NEW lines \in Seq(Line)
    PROVE  \E f : Sums(f, lines)
<1> DEFINE n == Len(lines)
           step == [i \in 1 .. n |-> [sum \in Nat |-> sum + lines[i].cost]]
           Rec(f) == f = [i \in 0 .. n |-> IF i = 0 THEN 0
                                           ELSE LET acc == f[i - 1] IN acc + lines[i].cost]
           upTo == CHOOSE f : Rec(f)
<1>1. n \in Nat /\ \A i \in 1 .. n : lines[i].cost \in Nat
  <2>1. \A i \in 1 .. n : lines[i] \in Line
    OBVIOUS
  <2>2. \A line \in Line : line.cost \in Nat
    BY DEF Line
  <2> QED  BY <2>1, <2>2
<1>2. Cost(lines) = upTo[n]
  BY DEF Cost, Scan
<1>3. step \in Moves(n, Nat)
  BY <1>1 DEF Moves
<1>4. \A i \in 1 .. n : \A x \in Nat : step[i][x] = x + lines[i].cost
  OBVIOUS
<1> HIDE DEF n, step
<1>5. Runs(n, Nat, 0, step) # {}
  BY <1>1, <1>3, Iterates
<1>6. PICK f \in [0 .. n -> Nat] : f[0] = 0 /\ \A i \in 1 .. n : f[i] = step[i][f[i - 1]]
  BY <1>5 DEF Runs
<1>7. Rec(f)
  <2>1. ASSUME NEW i \in 1 .. n PROVE f[i] = f[i - 1] + lines[i].cost
    <3>1. i - 1 \in 0 .. n
      BY <1>1
    <3> QED  BY <1>4, <1>6, <3>1
  <2> QED  BY <1>1, <1>6, <2>1
<1>8. Rec(upTo)
  <2> HIDE DEF Rec
  <2> QED  BY <1>7
<1> HIDE DEF upTo
<1>a. DOMAIN upTo = 0 .. n
  BY <1>8
<1>b. upTo = [i \in 0 .. n |-> upTo[i]]
  BY <1>8
<1>9. upTo[0] = 0 /\ \A i \in 1 .. n : upTo[i] = upTo[i - 1] + lines[i].cost
  BY <1>1, <1>8
<1> HIDE DEF Rec
<1> DEFINE T == {i \in 0 .. n : upTo[i] \in Nat}
<1>10. 0 \in T
  BY <1>1, <1>9
<1>11. ASSUME NEW m \in 0 .. n, m \in T, m < n PROVE m + 1 \in T
  <2>1. m + 1 \in 1 .. n /\ m + 1 \in 0 .. n /\ (m + 1) - 1 = m
    BY <1>1, <1>11
  <2>2. upTo[m + 1] = upTo[m] + lines[m + 1].cost
    BY <1>9, <2>1
  <2>3. upTo[m] \in Nat /\ lines[m + 1].cost \in Nat
    BY <1>1, <1>11, <2>1
  <2> QED  BY <2>1, <2>2, <2>3
<1>12. \A i \in 0 .. n : upTo[i] \in Nat
  <2>1. \A i \in 0 .. n : i \in T
    <3> HIDE DEF T
    <3> QED  BY <1>1, <1>10, <1>11, Climb
  <2> QED  BY <2>1
<1>13. upTo \in [0 .. n -> Nat]
  BY <1>a, <1>b, <1>12
<1>14. Sums(upTo, lines)
  BY <1>2, <1>9, <1>13 DEF Sums, n
<1> QED  BY <1>14

\* The cost of lines is a natural number, and at least that of each.
LEMMA CostType ==
    ASSUME NEW lines \in Seq(Line)
    PROVE  Cost(lines) \in Nat
<1>1. PICK f : Sums(f, lines)
  BY CostRun
<1>2. Len(lines) \in 0 .. Len(lines)
  OBVIOUS
<1> QED  BY <1>1, <1>2 DEF Sums

\* The sums of the first lines grow.
LEMMA CostGrows ==
    ASSUME NEW lines \in Seq(Line), NEW f, Sums(f, lines)
    PROVE  \A i \in 0 .. Len(lines) : f[i] <= Cost(lines)
<1> DEFINE n == Len(lines)
           T == {j \in 0 .. n : f[n - j] <= Cost(lines)}
<1>1. n \in Nat /\ \A i \in 1 .. n : lines[i].cost \in Nat
  <2>1. \A i \in 1 .. n : lines[i] \in Line
    OBVIOUS
  <2>2. \A line \in Line : line.cost \in Nat
    BY DEF Line
  <2> QED  BY <2>1, <2>2
<1>2. /\ Cost(lines) \in Nat /\ f[n] = Cost(lines) /\ \A i \in 0 .. n : f[i] \in Nat
      /\ \A i \in 1 .. n : f[i] = f[i - 1] + lines[i].cost
  BY CostType DEF Sums
<1> HIDE DEF n
<1>3. 0 \in T
  <2>1. 0 \in 0 .. n /\ n - 0 = n
    BY <1>1
  <2> QED  BY <1>2, <2>1
<1>4. ASSUME NEW m \in 0 .. n, m \in T, m < n PROVE m + 1 \in T
  <2>1. /\ m + 1 \in 0 .. n /\ n - m \in 1 .. n /\ n - (m + 1) \in 0 .. n
        /\ n - m \in 0 .. n /\ (n - m) - 1 = n - (m + 1)
    BY <1>1, <1>4
  <2>2. f[n - m] = f[n - (m + 1)] + lines[n - m].cost /\ f[n - m] <= Cost(lines)
    BY <1>2, <1>4, <2>1
  <2>3. f[n - (m + 1)] \in Nat /\ lines[n - m].cost \in Nat
    BY <1>1, <1>2, <2>1
  <2> QED  BY <1>2, <2>1, <2>2, <2>3
<1>5. \A j \in 0 .. n : j \in T
  <2> HIDE DEF T
  <2> QED  BY <1>1, <1>3, <1>4, Climb
<1>6. \A i \in 0 .. n : n - i \in 0 .. n /\ n - (n - i) = i
  BY <1>1
<1>7. \A i \in 0 .. n : f[i] <= Cost(lines)
  BY <1>5, <1>6
<1> QED  BY <1>7 DEF n

\* Of no lines it is nothing, and one line more adds its own.
LEMMA CostAppend ==
    /\ Cost(<<>>) = 0
    /\ \A lines \in Seq(Line) : \A line \in Line : Cost(Append(lines, line)) = Cost(lines) + line.cost
<1>1. Cost(<<>>) = 0
  <2>1. <<>> \in Seq(Line) /\ Len(<<>>) = 0
    OBVIOUS
  <2>2. PICK f : Sums(f, <<>>)
    BY <2>1, CostRun
  <2> QED  BY <2>1, <2>2 DEF Sums
<1>2. ASSUME NEW lines \in Seq(Line), NEW line \in Line
      PROVE  Cost(Append(lines, line)) = Cost(lines) + line.cost
  <2> DEFINE n == Len(lines)
             more == Append(lines, line)
  <2>1. /\ n \in Nat /\ more \in Seq(Line) /\ Len(more) = n + 1 /\ more[n + 1] = line
        /\ \A i \in 1 .. n : more[i] = lines[i]
    OBVIOUS
  <2>2. PICK f : Sums(f, lines)
    BY CostRun
  <2>3. PICK g : Sums(g, more)
    BY <2>1, CostRun
  <2> HIDE DEF more
  <2> DEFINE T == {i \in 0 .. n : g[i] = f[i]}
  <2>4. 0 \in T
    BY <2>1, <2>2, <2>3 DEF Sums
  <2>5. ASSUME NEW m \in 0 .. n, m \in T, m < n PROVE m + 1 \in T
    <3>1. m + 1 \in 1 .. n /\ m + 1 \in 1 .. n + 1 /\ m + 1 \in 0 .. n /\ (m + 1) - 1 = m
      BY <2>1, <2>5
    <3>2. f[m + 1] = f[m] + lines[m + 1].cost /\ g[m + 1] = g[m] + more[m + 1].cost
      BY <2>1, <2>2, <2>3, <3>1 DEF Sums
    <3> QED  BY <2>1, <2>5, <3>1, <3>2
  <2>6. n \in T
    <3> HIDE DEF T, n
    <3>1. \A i \in 0 .. n : i \in T
      BY <2>1, <2>4, <2>5, Climb
    <3> QED  BY <2>1, <3>1
  <2>7. n + 1 \in 1 .. n + 1 /\ (n + 1) - 1 = n
    BY <2>1
  <2>8. g[n + 1] = g[n] + line.cost
    BY <2>1, <2>3, <2>7 DEF Sums
  <2> QED  BY <2>1, <2>2, <2>3, <2>6, <2>8 DEF Sums, more
<1> QED  BY <1>1, <1>2

-----------------------------------------------------------------------------
(* Merging.                                                                *)

\* The keys of findings are keys.
LEMMA KeysOfType ==
    ASSUME NEW s \in Seq(Findings)
    PROVE  KeysOf(s) \subseteq Keys
BY DEF KeysOf, Keys

\* What was listed is kept, and of what is below nothing is left out but what was
\* dropped.
LEMMA RecoverKeeps ==
    ASSUME NEW listed \in Seq(Findings), NEW dropped \in SUBSET Keys, NEW below \in Seq(Findings)
    PROVE  /\ Recover(listed, dropped, below) \in Seq(Findings)
           /\ Len(Recover(listed, dropped, below)) - Len(listed) \in Nat
           /\ KeysOf(below) \subseteq KeysOf(Recover(listed, dropped, below)) \cup dropped
<1> DEFINE n == Len(below)
           X == [seen : SUBSET Keys, all : Seq(Findings)]
           base == [seen |-> KeysOf(listed) \cup dropped, all |-> listed]
           Add(acc, f) == IF KeyOf[f] \in acc.seen THEN acc
                          ELSE [seen |-> acc.seen \cup {KeyOf[f]}, all |-> Append(acc.all, f)]
           step == [i \in 1 .. n |-> [acc \in X |-> Add(acc, below[i])]]
           Rec(g) == g = [i \in 0 .. n |-> IF i = 0 THEN base
                                           ELSE LET acc == g[i - 1] IN Add(acc, below[i])]
           upTo == CHOOSE g : Rec(g)
           Good(acc, i) ==
              /\ acc \in X /\ acc.seen = KeysOf(acc.all) \cup dropped
              /\ Len(acc.all) >= Len(listed)
              /\ \A j \in 1 .. i : KeyOf[below[j]] \in acc.seen
<1>1. n \in Nat /\ \A i \in 1 .. n : below[i] \in Findings
  OBVIOUS
<1>2. Recover(listed, dropped, below) = upTo[n].all
  BY DEF Recover, Scan
<1>3. Good(base, 0)
  BY KeysOfType
<1>4. ASSUME NEW acc, NEW i \in 0 .. n, Good(acc, i), i < n
      PROVE  Good(Add(acc, below[i + 1]), i + 1)
  <2> DEFINE f == below[i + 1]
  <2>1. i + 1 \in 1 .. n /\ f \in Findings /\ KeyOf[f] \in Keys
    BY <1>1, <1>4 DEF Keys
  <2>2. \A j \in 1 .. i + 1 : j = i + 1 \/ j \in 1 .. i
    BY <1>1
  <2>3. CASE KeyOf[f] \in acc.seen
    BY <1>4, <2>2, <2>3
  <2>4. CASE KeyOf[f] \notin acc.seen
    <3>1. acc.all \in Seq(Findings) /\ acc.seen \in SUBSET Keys
      BY <1>4
    <3> HIDE DEF f
    <3>2. Append(acc.all, f) \in Seq(Findings) /\ Len(Append(acc.all, f)) = Len(acc.all) + 1
      BY <2>1, <3>1
    <3>3. KeysOf(Append(acc.all, f)) = KeysOf(acc.all) \cup {KeyOf[f]}
      <4>1. /\ DOMAIN acc.all = 1 .. Len(acc.all) /\ Len(acc.all) \in Nat
            /\ DOMAIN Append(acc.all, f) = 1 .. Len(acc.all) + 1
        BY <2>1, <3>1, <3>2
      <4>2. /\ \A k \in 1 .. Len(acc.all) : Append(acc.all, f)[k] = acc.all[k]
            /\ Append(acc.all, f)[Len(acc.all) + 1] = f
        BY <2>1, <3>1, <4>1
      <4>3. \A k \in 1 .. Len(acc.all) + 1 : k = Len(acc.all) + 1 \/ k \in 1 .. Len(acc.all)
        BY <4>1
      <4>4. Len(acc.all) + 1 \in 1 .. Len(acc.all) + 1
            /\ \A k \in 1 .. Len(acc.all) : k \in 1 .. Len(acc.all) + 1
        BY <4>1
      <4> QED  BY <4>1, <4>2, <4>3, <4>4 DEF KeysOf
    <3>4. Add(acc, f) = [seen |-> acc.seen \cup {KeyOf[f]}, all |-> Append(acc.all, f)]
      BY <2>4
    <3>5. Len(Append(acc.all, f)) >= Len(listed)
      BY <1>4, <3>1, <3>2
    <3> HIDE DEF Add
    <3>6. /\ Add(acc, f) \in X /\ Add(acc, f).seen = acc.seen \cup {KeyOf[f]}
          /\ Add(acc, f).all = Append(acc.all, f)
      BY <2>1, <3>1, <3>2, <3>4
    <3>7. \A j \in 1 .. i + 1 : KeyOf[below[j]] \in Add(acc, f).seen
      BY <1>4, <2>2, <3>6 DEF f
    <3>8. Add(acc, f).seen = KeysOf(Add(acc, f).all) \cup dropped
      BY <1>4, <3>3, <3>6
    <3>9. Good(Add(acc, f), i + 1)
      BY <3>5, <3>6, <3>7, <3>8
    <3> QED  BY <3>9 DEF f
  <2> QED  BY <2>3, <2>4
<1>5. step \in Moves(n, X)
  <2>1. ASSUME NEW i \in 1 .. n, NEW acc \in X PROVE Add(acc, below[i]) \in X
    <3>1. KeyOf[below[i]] \in Keys
      BY <1>1 DEF Keys
    <3> QED  BY <1>1, <3>1
  <2> HIDE DEF Add, X
  <2> QED  BY <2>1 DEF Moves
<1>6. \A i \in 1 .. n : \A x \in X : step[i][x] = Add(x, below[i])
  OBVIOUS
<1>7. base \in X
  BY <1>3
<1> HIDE DEF n, step, X, base, Add
<1>8. Runs(n, X, base, step) # {}
  BY <1>1, <1>5, <1>7, Iterates
<1>9. PICK g \in [0 .. n -> X] : g[0] = base /\ \A i \in 1 .. n : g[i] = step[i][g[i - 1]]
  BY <1>8 DEF Runs
<1>10. Rec(g)
  <2>1. ASSUME NEW i \in 1 .. n PROVE g[i] = Add(g[i - 1], below[i])
    <3>1. i - 1 \in 0 .. n
      BY <1>1
    <3> QED  BY <1>6, <1>9, <3>1
  <2> QED  BY <1>1, <1>9, <2>1
<1>11. Rec(upTo)
  <2> HIDE DEF Rec
  <2> QED  BY <1>10
<1> HIDE DEF upTo
<1>12. upTo[0] = base /\ \A i \in 1 .. n : upTo[i] = Add(upTo[i - 1], below[i])
  BY <1>1, <1>11
<1> HIDE DEF Rec, Good
<1> DEFINE T == {i \in 0 .. n : Good(upTo[i], i)}
<1>13. 0 \in T
  BY <1>1, <1>3, <1>12
<1>14. ASSUME NEW m \in 0 .. n, m \in T, m < n PROVE m + 1 \in T
  <2>1. m + 1 \in 1 .. n /\ m + 1 \in 0 .. n /\ (m + 1) - 1 = m
    BY <1>1, <1>14
  <2> QED  BY <1>4, <1>12, <1>14, <2>1
<1>15. n \in T
  <2> HIDE DEF T
  <2>1. \A i \in 0 .. n : i \in T
    BY <1>1, <1>13, <1>14, Climb
  <2> QED  BY <1>1, <2>1
<1>16. Good(upTo[n], n)
  BY <1>15
<1>17. /\ upTo[n].all \in Seq(Findings) /\ Len(upTo[n].all) >= Len(listed)
       /\ \A j \in 1 .. n : KeyOf[below[j]] \in KeysOf(upTo[n].all) \cup dropped
  BY <1>16 DEF Good, X
<1>18. KeysOf(below) \subseteq KeysOf(upTo[n].all) \cup dropped
  BY <1>17 DEF KeysOf, n
<1> QED  BY <1>2, <1>17, <1>18

-----------------------------------------------------------------------------
(* The tree.                                                               *)

\* The nodes right below n.
Below(n) == {c \in ToSet(tree.nodes) : c # <<>> /\ Front(c) = n}

\* What the review relies on of a tree: the leaves and the others are apart, the root
\* comes last and nowhere else, what a node is below is in the order, and what is
\* below a node is a leaf or comes before it.
Grown(t) ==
    LET leaves == {t.leaves[i].id : i \in DOMAIN t.leaves} IN
    /\ Len(t.leaves) \in Nat /\ DOMAIN t.leaves = 1 .. Len(t.leaves)
    /\ t.order \in Seq(Seq(Nat)) /\ t.nodes \in Seq(Seq(Nat))
    /\ ToSet(t.nodes) = leaves \cup ToSet(t.order)
    /\ leaves \cap ToSet(t.order) = {}
    /\ \A i \in 1 .. Len(t.order) : t.order[i] = <<>> <=> i = Len(t.order)
    /\ t.order # <<>>
    /\ \A c \in ToSet(t.nodes) : c # <<>> => Front(c) \in ToSet(t.order)
    /\ \A i \in 1 .. Len(t.order) : \A c \in ToSet(t.nodes) :
          c # <<>> /\ Front(c) = t.order[i] => c \in leaves \/ \E j \in 1 .. i - 1 : t.order[j] = c

\* A path is the one it is below with one more step.
LEMMA PathSplit ==
    ASSUME NEW c \in Seq(Nat), c # <<>>
    PROVE  Front(c) \in Seq(Nat) /\ Last(c) \in Nat /\ Append(Front(c), Last(c)) = c
<1>1. Len(c) \in Nat /\ Len(c) > 0
  OBVIOUS
<1> QED  BY <1>1 DEF Front, Last

\* Children lists what is right below.
LEMMA ChildrenOf ==
    ASSUME Grown(tree), NEW n
    PROVE  /\ Children(n) \in Seq(Below(n))
           /\ \A c \in Below(n) : \E k \in 1 .. Len(Children(n)) : Children(n)[k] = c
<1> DEFINE places == {Last(c) : c \in Below(n)}
           s == [k \in places |-> Append(n, k)]
<1>1. Children(n) = Picked(s, places)
  BY DEF Children, Below
<1>2. \A c \in Below(n) : c \in Seq(Nat) /\ c # <<>> /\ Front(c) = n
  <2>1. \A c \in ToSet(tree.nodes) : c \in Seq(Nat)
    BY DEF Grown, ToSet
  <2> QED  BY <2>1 DEF Below
<1>3. \A c \in Below(n) : Last(c) \in Nat /\ Append(n, Last(c)) = c
  BY <1>2, PathSplit
<1>4. places \in SUBSET Nat
  BY <1>3
<1>5. IsFiniteSet(places)
  <2> DEFINE nodes == tree.nodes
             last == [c \in Below(n) |-> Last(c)]
  <2>1. nodes \in Seq(Seq(Nat))
    BY DEF Grown
  <2>2. DOMAIN nodes = 1 .. Len(nodes) /\ Len(nodes) \in Nat
    BY <2>1
  <2>3. Below(n) \in SUBSET ToSet(nodes)
    BY DEF Below
  <2> HIDE DEF nodes
  <2>4. IsFiniteSet(DOMAIN nodes)
    BY <2>2, FS_Interval
  <2>5. IsFiniteSet(ToSet(nodes))
    BY <2>4, FiniteImage DEF ToSet
  <2>6. IsFiniteSet(Below(n))
    BY <2>3, <2>5, FS_Subset
  <2>7. IsFiniteSet({last[c] : c \in Below(n)})
    <3>1. DOMAIN last = Below(n)
      OBVIOUS
    <3> HIDE DEF last
    <3> QED  BY <2>6, <3>1, FiniteImage
  <2>8. places = {last[c] : c \in Below(n)}
    OBVIOUS
  <2> QED  BY <2>7, <2>8
<1>6. \A k \in places : s[k] \in Below(n)
  BY <1>3
<1>7. \A c \in Below(n) : Last(c) \in places /\ s[Last(c)] = c
  BY <1>3
<1> HIDE DEF places, s
<1>8. /\ Picked(s, places) \in Seq(Below(n))
      /\ \A i \in places : \E k \in 1 .. Len(Picked(s, places)) : Picked(s, places)[k] = s[i]
  BY <1>4, <1>5, <1>6, PickedAt
<1> QED  BY <1>1, <1>7, <1>8

\* The children's findings are all found in what is merged.
LEMMA FromChildrenOf ==
    ASSUME Grown(tree), NEW n, \A c \in Below(n) : c \in DOMAIN result /\ result[c].findings \in Seq(Findings)
    PROVE  /\ FromChildren(n) \in Seq(Findings)
           /\ \A c \in Below(n) : KeysOf(result[c].findings) \subseteq KeysOf(FromChildren(n))
<1> DEFINE below == Children(n)
           seqs == [i \in DOMAIN below |-> result[below[i]].findings]
           all == FlattenSeq(seqs)
<1>1. FromChildren(n) = all
  BY DEF FromChildren
<1>2. below \in Seq(Below(n)) /\ \A c \in Below(n) : \E k \in 1 .. Len(below) : below[k] = c
  BY ChildrenOf
<1> HIDE DEF below
<1>3. DOMAIN below = 1 .. Len(below) /\ Len(below) \in Nat /\ \A i \in 1 .. Len(below) : below[i] \in Below(n)
  BY <1>2
<1>4. seqs \in Seq(Seq(Findings)) /\ Len(seqs) = Len(below) /\ DOMAIN seqs = 1 .. Len(below)
  <2>1. \A i \in 1 .. Len(below) : result[below[i]].findings \in Seq(Findings)
    BY <1>3
  <2> QED  BY <1>3, <2>1
<1>5. \A k \in 1 .. Len(below) : seqs[k] = result[below[k]].findings
  BY <1>3
<1> HIDE DEF seqs
<1>6. all \in Seq(Findings) /\ Holds(all, seqs, Len(seqs))
  BY <1>4, FlattenSeqOf
<1> HIDE DEF all
<1>7. ASSUME NEW c \in Below(n), NEW o \in DOMAIN result[c].findings
      PROVE  KeyOf[result[c].findings[o]] \in KeysOf(all)
  <2>1. PICK k \in 1 .. Len(below) : below[k] = c
    BY <1>2
  <2>2. k \in 1 .. Len(seqs) /\ seqs[k] = result[c].findings
    BY <1>4, <1>5, <2>1
  <2>3. PICK i \in DOMAIN all : all[i] = result[c].findings[o]
    BY <1>6, <2>2 DEF Holds
  <2> QED  BY <2>3 DEF KeysOf
<1> QED  BY <1>1, <1>6, <1>7 DEF KeysOf

-----------------------------------------------------------------------------
(* The inductive invariant.                                                *)

\* What is below a resolved node was resolved before it, and its findings are
\* among those of the node or were dropped there.
Kept ==
    \A n \in ToSet(tree.order) : n \in DOMAIN result =>
        \A c \in Below(n) :
            /\ c \in DOMAIN result
            /\ KeysOf(result[c].findings) \subseteq KeysOf(result[n].findings) \cup result[n].dropped

\* With the root, everything is resolved.
Complete == phase \in {"verify", "reported"} => ToSet(tree.nodes) \subseteq DOMAIN result

\* A report is written without verdicts, or with one on each finding.
Judged ==
    /\ verdicts \in Seq({"confirmed", "refuted", "uncertain"})
    /\ phase = "reported" => Len(verdicts) \in {0, Len(result[<<>>].findings)}

ReviewInv == ReviewTypeOK /\ Grown(tree) /\ Kept /\ Complete /\ Judged

\* An answer, taken as it is, is a result.
LEMMA PlainType ==
    ASSUME NEW answer \in LeafAnswers \cup SynthesisAnswers
    PROVE  Plain(answer) \in NodeResult
<1> DEFINE s == answer.findings
           I == {i \in DOMAIN s : s[i] \in Findings}
<1>1. s \in Seq(ToSet(s)) /\ answer.truncated \in BOOLEAN
  BY ReviewAssumption
<1> HIDE DEF s
<1>2. DOMAIN s = 1 .. Len(s) /\ Len(s) \in Nat
  BY <1>1
<1>3. I \in SUBSET Nat /\ IsFiniteSet(I)
  <2>1. IsFiniteSet(DOMAIN s)
    BY <1>2, FS_Interval
  <2>2. IsFiniteSet(I)
    BY <2>1, FS_Subset
  <2> QED  BY <1>2, <2>2
<1>4. Picked(s, I) \in Seq(Findings)
  <2>1. \A i \in I : s[i] \in Findings
    OBVIOUS
  <2> HIDE DEF I
  <2> QED  BY <1>3, <2>1, PickedAt
<1>5. Plain(answer).findings = Picked(s, I) /\ Plain(answer).dropped = answer.dropped \cap Keys
  BY DEF Plain, Parsed, s
<1> HIDE DEF I
<1> QED  BY <1>1, <1>4, <1>5 DEF Plain, NodeResult

\* The nodes below one are accounted for in r.
Accounts(r, n) == KeysOf(FromChildren(n)) \subseteq KeysOf(r.findings) \cup r.dropped

\* A merged answer is a result that accounts for what is below.
LEMMA MergedOf ==
    ASSUME NEW answer \in SynthesisAnswers, NEW n, FromChildren(n) \in Seq(Findings)
    PROVE  Merged(answer, n) \in NodeResult /\ Accounts(Merged(answer, n), n)
<1> DEFINE own == Plain(answer)
           below == FromChildren(n)
           all == Recover(own.findings, own.dropped, below)
<1>1. own \in NodeResult
  BY PlainType
<1> HIDE DEF own
<1>2. own.findings \in Seq(Findings) /\ own.dropped \in SUBSET Keys
  BY <1>1 DEF NodeResult
<1>3. below \in Seq(Findings)
  OBVIOUS
<1> HIDE DEF below
<1>4. /\ all \in Seq(Findings) /\ Len(all) - Len(own.findings) \in Nat
      /\ KeysOf(below) \subseteq KeysOf(all) \cup own.dropped
  BY <1>2, <1>3, RecoverKeeps
<1> HIDE DEF all
<1>5. Merged(answer, n) = [own EXCEPT !.findings = all, !.recovered = Len(all) - Len(own.findings)]
  BY DEF Merged, own, below, all
<1>6. Merged(answer, n) \in NodeResult
  BY <1>1, <1>4, <1>5 DEF NodeResult
<1>7. Merged(answer, n).findings = all /\ Merged(answer, n).dropped = own.dropped
  BY <1>1, <1>5 DEF NodeResult
<1> QED  BY <1>4, <1>6, <1>7 DEF Accounts, below

\* So is what is passed on of a file that does not fit.
LEMMA SkippedOf ==
    ASSUME NEW n, FromChildren(n) \in Seq(Findings)
    PROVE  Skipped(n) \in NodeResult /\ Accounts(Skipped(n), n)
<1> DEFINE below == FromChildren(n)
           none == <<>>
           all == Recover(none, {}, below)
<1>1. none \in Seq(Findings) /\ Len(none) = 0 /\ {} \in SUBSET Keys
  OBVIOUS
<1>2. below \in Seq(Findings)
  OBVIOUS
<1> HIDE DEF none, below
<1>3. /\ all \in Seq(Findings) /\ Len(all) - Len(none) \in Nat
      /\ KeysOf(below) \subseteq KeysOf(all) \cup {}
  BY <1>1, <1>2, RecoverKeeps
<1>4. Skipped(n) = [findings |-> all, dropped |-> {}, truncated |-> FALSE, skipped |-> TRUE,
                    recovered |-> Len(all)]
  BY DEF Skipped, none, below
<1> HIDE DEF all
<1>5. Len(all) \in Nat
  BY <1>3
<1> QED  BY <1>3, <1>4, <1>5 DEF NodeResult, Accounts, below

\* When a node is due, everything below it is resolved; and everything, when it is
\* the root.
LEMMA DueOf ==
    ASSUME ReviewInv, NEW n, Due(n)
    PROVE  /\ phase = "review" /\ n \in ToSet(tree.order) /\ n \in ToSet(tree.nodes) /\ n \notin DOMAIN result
           /\ \A c \in Below(n) : c \in DOMAIN result /\ result[c].findings \in Seq(Findings)
           /\ n = <<>> => ToSet(tree.nodes) \subseteq DOMAIN result \cup {n}
<1> DEFINE m == Len(tree.order)
<1>1. phase = "review" /\ LeafIds \subseteq DOMAIN result
  BY DEF Due
<1>2. tree.order \in Seq(Seq(Nat)) /\ DOMAIN tree.order = 1 .. m /\ m \in Nat
  BY DEF ReviewInv, Grown
<1>3. PICK i \in 1 .. m : /\ tree.order[i] = n /\ n \notin DOMAIN result
                         /\ \A j \in 1 .. i - 1 : tree.order[j] \in DOMAIN result
  BY <1>2 DEF Due, Resolved
<1>4. ToSet(tree.order) = {tree.order[j] : j \in 1 .. m}
  BY <1>2 DEF ToSet
<1>5. ToSet(tree.nodes) = LeafIds \cup ToSet(tree.order)
  BY DEF ReviewInv, Grown, LeafIds
<1>6. ASSUME NEW c \in Below(n) PROVE c \in DOMAIN result
  <2>1. c \in LeafIds \/ \E j \in 1 .. i - 1 : tree.order[j] = c
    BY <1>3 DEF ReviewInv, Grown, Below, LeafIds
  <2> QED  BY <1>1, <1>3, <2>1
<1>7. \A c \in DOMAIN result : result[c].findings \in Seq(Findings)
  BY DEF ReviewInv, ReviewTypeOK, NodeResult
<1>8. ASSUME n = <<>> PROVE ToSet(tree.nodes) \subseteq DOMAIN result \cup {n}
  <2>1. i = m
    BY <1>3, <1>8 DEF ReviewInv, Grown
  <2>2. \A j \in 1 .. m : j = i \/ j \in 1 .. i - 1
    BY <1>2, <2>1
  <2>3. ToSet(tree.order) \subseteq DOMAIN result \cup {n}
    BY <1>3, <1>4, <2>2
  <2> QED  BY <1>1, <1>5, <2>3
<1> QED  BY <1>1, <1>3, <1>4, <1>5, <1>6, <1>7, <1>8

-----------------------------------------------------------------------------
(* The steps.                                                              *)

\* Only finitely many leaves are with the model; with more results, no more of them.
LEMMA FlightOf ==
    ASSUME ReviewInv
    PROVE  /\ IsFiniteSet(InFlight) /\ Cardinality(InFlight) \in Nat
           /\ \A S \in SUBSET InFlight : Cardinality(S) \in Nat /\ Cardinality(S) <= Cardinality(InFlight)
<1> DEFINE id == [i \in 1 .. started |-> tree.leaves[i].id]
           sent == {id[i] : i \in 1 .. started}
<1>1. started \in Nat
  BY DEF ReviewInv, ReviewTypeOK, Grown
<1>2. IsFiniteSet(sent)
  <2>1. DOMAIN id = 1 .. started /\ IsFiniteSet(1 .. started)
    BY <1>1, FS_Interval
  <2> HIDE DEF id
  <2> QED  BY <2>1, FiniteImage
<1>3. InFlight \in SUBSET sent
  BY DEF InFlight
<1> HIDE DEF sent
<1>4. IsFiniteSet(InFlight)
  BY <1>2, <1>3, FS_Subset
<1> QED  BY <1>4, FS_Subset, FS_CardinalityType

\* Another result of a node that had none.
LEMMA WithOf ==
    ASSUME NEW n, NEW r, n \notin DOMAIN result
    PROVE  /\ DOMAIN With(n, r) = DOMAIN result \cup {n} /\ With(n, r)[n] = r
           /\ \A m \in DOMAIN result : With(n, r)[m] = result[m]
BY DEF With

\* The type, after one more result.
LEMMA ResultAdded ==
    ASSUME ReviewInv, NEW n \in ToSet(tree.nodes), n \notin DOMAIN result, NEW r \in NodeResult,
           result' = With(n, r), UNCHANGED <<code, tree, started, verdicts>>,
           phase' \in {"start", "review", "verify", "reported", "raised"},
           loop'.turn \in 0 .. MaxTurns, loop'.calls \in 0 .. MaxCalls, loop'.used \in 0 .. NetworkBudget
    PROVE  ReviewTypeOK'
<1>1. /\ DOMAIN result' = DOMAIN result \cup {n} /\ result'[n] = r
      /\ \A m \in DOMAIN result : result'[m] = result[m]
  BY WithOf
<1>2. /\ DOMAIN result' \subseteq ToSet(tree.nodes)
      /\ \A m \in DOMAIN result' : result'[m] \in NodeResult
  BY <1>1 DEF ReviewInv, ReviewTypeOK
<1>3. Cardinality(InFlight') <= Concurrency
  <2>1. InFlight' \in SUBSET InFlight
    BY <1>1 DEF InFlight
  <2>2. Cardinality(InFlight') \in Nat /\ Cardinality(InFlight') <= Cardinality(InFlight)
        /\ Cardinality(InFlight) \in Nat
    BY <2>1, FlightOf
  <2>3. Cardinality(InFlight) <= Concurrency /\ Concurrency \in Nat
    BY ReviewAssumption DEF ReviewInv, ReviewTypeOK
  <2> QED  BY <2>2, <2>3
<1> QED  BY <1>2, <1>3 DEF ReviewInv, ReviewTypeOK

\* An answer on a leaf.
LEMMA LeafStep ==
    ASSUME ReviewInv, NEW n \in LeafIds, LeafAnswered(n)
    PROVE  ReviewInv'
<1>1. PICK answer \in LeafAnswers : result' = With(n, Plain(answer))
  BY DEF LeafAnswered
<1>2. phase = "review" /\ n \notin DOMAIN result /\ UNCHANGED <<code, phase, tree, started, loop, verdicts>>
  BY DEF LeafAnswered, InFlight
<1>3. n \in ToSet(tree.nodes) /\ n \notin ToSet(tree.order)
  BY DEF ReviewInv, Grown, LeafIds
<1>4. Plain(answer) \in NodeResult
  BY PlainType
<1>5. ReviewTypeOK'
  BY <1>1, <1>2, <1>3, <1>4, ResultAdded DEF ReviewInv, ReviewTypeOK
<1>6. /\ DOMAIN result' = DOMAIN result \cup {n}
      /\ \A m \in DOMAIN result : result'[m] = result[m]
  <2>1. n \notin DOMAIN result
    BY <1>2
  <2>2. /\ DOMAIN With(n, Plain(answer)) = DOMAIN result \cup {n}
        /\ \A m \in DOMAIN result : With(n, Plain(answer))[m] = result[m]
    BY <2>1 DEF With
  <2> QED  BY <1>1, <2>2
<1>7. Kept'
  <2> SUFFICES ASSUME NEW m \in ToSet(tree.order), m \in DOMAIN result', NEW c \in Below(m)
               PROVE  /\ c \in DOMAIN result'
                      /\ KeysOf(result'[c].findings) \subseteq
                           KeysOf(result'[m].findings) \cup result'[m].dropped
    BY <1>2 DEF Kept, Below
  <2>1. m \in DOMAIN result
    BY <1>3, <1>6
  <2>2. c \in DOMAIN result /\ KeysOf(result[c].findings) \subseteq KeysOf(result[m].findings) \cup result[m].dropped
    BY <2>1 DEF ReviewInv, Kept
  <2>3. result'[m] = result[m] /\ result'[c] = result[c] /\ c \in DOMAIN result'
    BY <1>6, <2>1, <2>2
  <2> QED  BY <2>2, <2>3
<1>8. Grown(tree)' /\ Complete' /\ Judged'
  BY <1>2 DEF ReviewInv, Complete, Judged
<1> QED  BY <1>5, <1>7, <1>8 DEF ReviewInv

\* A result of a node above the leaves.
LEMMA ResolveStep ==
    ASSUME ReviewInv, NEW n, Due(n), NEW r \in NodeResult, Accounts(r, n), Resolve(n, r),
           loop'.turn \in 0 .. MaxTurns, loop'.calls \in 0 .. MaxCalls, loop'.used \in 0 .. NetworkBudget
    PROVE  ReviewInv'
<1>1. /\ result' = With(n, r) /\ phase' = (IF n = <<>> THEN "verify" ELSE phase)
      /\ UNCHANGED <<code, tree, started, verdicts>>
  BY DEF Resolve
<1>2. /\ phase = "review" /\ n \in ToSet(tree.order) /\ n \in ToSet(tree.nodes) /\ n \notin DOMAIN result
      /\ \A c \in Below(n) : c \in DOMAIN result /\ result[c].findings \in Seq(Findings)
      /\ n = <<>> => ToSet(tree.nodes) \subseteq DOMAIN result \cup {n}
  BY DueOf
<1>3. phase' \in {"review", "verify"}
  BY <1>1, <1>2
<1>4. ReviewTypeOK'
  BY <1>1, <1>2, <1>3, ResultAdded
<1>5. /\ DOMAIN result' = DOMAIN result \cup {n} /\ result'[n] = r
      /\ \A m \in DOMAIN result : result'[m] = result[m]
  <2>1. n \notin DOMAIN result
    BY <1>2
  <2>2. /\ DOMAIN With(n, r) = DOMAIN result \cup {n} /\ With(n, r)[n] = r
        /\ \A m \in DOMAIN result : With(n, r)[m] = result[m]
    BY <2>1 DEF With
  <2> QED  BY <1>1, <2>2
<1>6. Kept'
  <2> SUFFICES ASSUME NEW m \in ToSet(tree.order), m \in DOMAIN result', NEW c \in Below(m)
               PROVE  /\ c \in DOMAIN result'
                      /\ KeysOf(result'[c].findings) \subseteq
                           KeysOf(result'[m].findings) \cup result'[m].dropped
    BY <1>1 DEF Kept, Below
  <2>1. CASE m = n
    <3>1. c \in DOMAIN result /\ result'[c] = result[c] /\ c \in DOMAIN result'
      BY <1>2, <1>5, <2>1
    <3>2. KeysOf(result[c].findings) \subseteq KeysOf(FromChildren(n))
      BY <1>2, <2>1, FromChildrenOf DEF ReviewInv
    <3> QED  BY <1>5, <2>1, <3>1, <3>2 DEF Accounts
  <2>2. CASE m \in DOMAIN result
    <3>1. c \in DOMAIN result /\ KeysOf(result[c].findings) \subseteq KeysOf(result[m].findings) \cup result[m].dropped
      BY <2>2 DEF ReviewInv, Kept
    <3>2. result'[m] = result[m] /\ result'[c] = result[c] /\ c \in DOMAIN result'
      BY <1>5, <2>2, <3>1
    <3> QED  BY <3>1, <3>2
  <2> QED  BY <1>5, <2>1, <2>2
<1>7. Complete'
  <2>1. phase' = "verify" => n = <<>>
    BY <1>1, <1>2
  <2> QED  BY <1>1, <1>2, <1>3, <1>5, <2>1 DEF Complete
<1>8. Grown(tree)' /\ Judged'
  BY <1>1, <1>3 DEF ReviewInv, Judged
<1> QED  BY <1>4, <1>6, <1>7, <1>8 DEF ReviewInv

\* Every merge resolves a node with a result that accounts for what is below it.
LEMMA MergeStep ==
    ASSUME ReviewInv, NEW n, Synthesize(n) \/ SkipFile(n) \/ ValidateFile(n) \/ NetworkAnswers(n)
    PROVE  ReviewInv'
<1>1. Due(n)
  BY DEF Synthesize, SkipFile, ValidateFile, NetworkAnswers
<1>2. FromChildren(n) \in Seq(Findings)
  BY <1>1, DueOf, FromChildrenOf DEF ReviewInv
<1>3. loop'.turn \in 0 .. MaxTurns /\ loop'.calls \in 0 .. MaxCalls /\ loop'.used \in 0 .. NetworkBudget
  <2>1. MaxTurns \in Nat /\ MaxCalls \in Nat /\ NetworkBudget \in Nat
    BY ReviewAssumption
  <2>2. loop' = loop \/ loop' = NoLoop
    BY DEF Synthesize, SkipFile, ValidateFile, NetworkAnswers
  <2>3. loop.turn \in 0 .. MaxTurns /\ loop.calls \in 0 .. MaxCalls /\ loop.used \in 0 .. NetworkBudget
    BY DEF ReviewInv, ReviewTypeOK
  <2> QED  BY <2>1, <2>2, <2>3 DEF NoLoop
<1>4. \E r \in NodeResult : Accounts(r, n) /\ Resolve(n, r)
  <2>1. CASE SkipFile(n)
    BY <1>2, <2>1, SkippedOf DEF SkipFile
  <2>2. CASE Synthesize(n) \/ ValidateFile(n) \/ NetworkAnswers(n)
    <3>1. PICK answer \in SynthesisAnswers : Resolve(n, Merged(answer, n))
      BY <2>2 DEF Synthesize, ValidateFile, NetworkAnswers
    <3>2. Merged(answer, n) \in NodeResult /\ Accounts(Merged(answer, n), n)
      BY <1>2, MergedOf
    <3> QED  BY <3>1, <3>2
  <2> QED  BY <2>1, <2>2
<1> QED  BY <1>1, <1>3, <1>4, ResolveStep

\* Another leaf is sent.
LEMMA StartStep ==
    ASSUME ReviewInv, StartLeaf
    PROVE  ReviewInv'
<1> DEFINE leaf == tree.leaves[started + 1].id
<1>1. /\ phase = "review" /\ started < Len(tree.leaves) /\ Cardinality(InFlight) < Concurrency
      /\ started' = started + 1 /\ UNCHANGED <<code, phase, tree, result, loop, verdicts>>
  BY DEF StartLeaf
<1>2. started \in 0 .. Len(tree.leaves) /\ Len(tree.leaves) \in Nat
  BY DEF ReviewInv, ReviewTypeOK, Grown
<1>3. started' \in 0 .. Len(tree.leaves)
  BY <1>1, <1>2
<1>4. Cardinality(InFlight') <= Concurrency
  <2>1. InFlight' \in SUBSET (InFlight \cup {leaf})
    <3>1. \A i \in 1 .. started' : i = started + 1 \/ i \in 1 .. started
      BY <1>1, <1>2
    <3>2. DOMAIN result' = DOMAIN result /\ tree' = tree
      BY <1>1
    <3> QED  BY <3>1, <3>2 DEF InFlight
  <2>2. IsFiniteSet(InFlight) /\ Cardinality(InFlight) \in Nat
    BY FlightOf
  <2>3. /\ IsFiniteSet(InFlight \cup {leaf})
        /\ Cardinality(InFlight \cup {leaf}) \in {Cardinality(InFlight), Cardinality(InFlight) + 1}
    BY <2>2, FS_AddElement
  <2>4. Cardinality(InFlight') \in Nat /\ Cardinality(InFlight') <= Cardinality(InFlight \cup {leaf})
    BY <2>1, <2>3, FS_Subset, FS_CardinalityType
  <2>5. Concurrency \in Nat
    BY ReviewAssumption
  <2> QED  BY <1>1, <2>2, <2>3, <2>4, <2>5
<1>5. ReviewTypeOK'
  BY <1>1, <1>3, <1>4 DEF ReviewInv, ReviewTypeOK
<1>6. Kept'
  BY <1>1 DEF ReviewInv, Kept, Below
<1> QED  BY <1>1, <1>5, <1>6 DEF ReviewInv, Complete, Judged

\* What a read costs stays within what is left of the budget.
LEMMA ReadCostOf ==
    ASSUME code \in Codebases, NEW cluster, NEW meant \in SUBSET DOMAIN code, NEW used \in 0 .. NetworkBudget,
           NEW from \in 0 .. 2, NEW to \in 1 .. 3
    PROVE  used + ReadCost(cluster, meant, used, from, to) \in 0 .. NetworkBudget
<1> DEFINE last == IF to < from + MaxReadLines - 1 THEN to ELSE from + MaxReadLines - 1
           fits == meant \cap cluster
           file == CHOOSE f \in fits : \A g \in fits : f <= g
           lines == code[file].lines
           end == IF last < Len(lines) THEN last ELSE Len(lines)
           cost == Cost(SubSeq(lines, from, end))
<1>1. ReadCost(cluster, meant, used, from, to) =
         IF fits = {} \/ from < 1 \/ to < from \/ used + cost > NetworkBudget THEN 0 ELSE cost
  BY DEF ReadCost
<1>2. NetworkBudget \in Nat /\ MaxReadLines \in Nat
  BY ReviewAssumption
<1>3. ASSUME fits # {}, from >= 1 PROVE cost \in Nat
  <2>1. code \in Seq(ToSet(code)) /\ \A f \in ToSet(code) : f.lines \in Seq(Line)
    BY ReviewAssumption DEF Source
  <2>2. DOMAIN code = 1 .. Len(code) /\ Len(code) \in Nat
    BY <2>1
  <2>3. fits \in SUBSET Nat
    BY <2>2
  <2>4. file \in fits
    <3>1. \E f \in fits : \A g \in fits : f <= g
      BY <1>3, <2>3, MinOf
    <3> HIDE DEF fits
    <3> QED  BY <3>1
  <2>5. file \in DOMAIN code
    BY <2>4
  <2> HIDE DEF file
  <2>6. lines \in Seq(Line)
    BY <2>1, <2>5 DEF ToSet
  <2> HIDE DEF lines
  <2>7. Len(lines) \in Nat /\ last \in Int
    BY <1>2, <2>6
  <2> HIDE DEF last
  <2>8. end \in Int /\ end <= Len(lines)
    BY <2>7
  <2> HIDE DEF end
  <2>9. SubSeq(lines, from, end) \in Seq(Line)
    BY <1>3, <2>6, <2>7, <2>8
  <2> QED  BY <2>9, CostType
<1> HIDE DEF fits, cost
<1>4. CASE fits = {} \/ from < 1 \/ to < from \/ used + cost > NetworkBudget
  BY <1>1, <1>4, <1>2
<1>5. CASE ~ (fits = {} \/ from < 1 \/ to < from \/ used + cost > NetworkBudget)
  <2>1. cost \in Nat
    BY <1>3, <1>5
  <2> QED  BY <1>1, <1>2, <1>5, <2>1
<1> QED  BY <1>4, <1>5

\* The tool calls of a response, asked for and dispatched.
LEMMA LoopStep ==
    ASSUME ReviewInv, UNCHANGED <<code, phase, tree, started, result, verdicts>>,
           loop'.turn \in 0 .. MaxTurns, loop'.calls \in 0 .. MaxCalls, loop'.used \in 0 .. NetworkBudget
    PROVE  ReviewInv'
<1>1. ReviewTypeOK'
  <2>1. InFlight' = InFlight
    BY DEF InFlight
  <2> QED  BY <2>1 DEF ReviewInv, ReviewTypeOK
<1>2. Kept'
  BY DEF ReviewInv, Kept, Below
<1> QED  BY <1>1, <1>2 DEF ReviewInv, Complete, Judged

LEMMA AskStep ==
    ASSUME ReviewInv, NEW n, NetworkAsks(n)
    PROVE  ReviewInv'
<1>1. loop.turn < MaxTurns /\ UNCHANGED <<code, phase, tree, started, result, verdicts>>
  BY DEF NetworkAsks
<1>2. PICK calls \in 1 .. MaxCalls : loop' = [turn |-> loop.turn + 1, calls |-> calls, used |-> loop.used]
  BY DEF NetworkAsks
<1>3. loop.turn \in 0 .. MaxTurns /\ loop.used \in 0 .. NetworkBudget /\ MaxTurns \in Nat /\ MaxCalls \in Nat
  BY ReviewAssumption DEF ReviewInv, ReviewTypeOK
<1>4. loop'.turn \in 0 .. MaxTurns /\ loop'.calls \in 0 .. MaxCalls /\ loop'.used \in 0 .. NetworkBudget
  BY <1>1, <1>2, <1>3
<1> QED  BY <1>1, <1>4, LoopStep

LEMMA ReadStep ==
    ASSUME ReviewInv, NEW n, NetworkReads(n)
    PROVE  ReviewInv'
<1>1. loop.calls > 0 /\ UNCHANGED <<code, phase, tree, started, result, verdicts>>
  BY DEF NetworkReads
<1>2. PICK f \in DOMAIN code, from \in 0 .. 2, to \in 1 .. 3 :
        \E meant \in {{f}, {g \in DOMAIN code : code[g].name = code[f].name}} :
            loop' = [turn |-> loop.turn, calls |-> loop.calls - 1,
                     used |-> loop.used + ReadCost(tree.clusters[n[1]], meant, loop.used, from, to)]
  BY DEF NetworkReads
<1>3. PICK meant \in SUBSET DOMAIN code :
            loop' = [turn |-> loop.turn, calls |-> loop.calls - 1,
                     used |-> loop.used + ReadCost(tree.clusters[n[1]], meant, loop.used, from, to)]
  BY <1>2
<1>4. /\ code \in Codebases
      /\ loop.turn \in 0 .. MaxTurns /\ loop.calls \in 0 .. MaxCalls /\ loop.used \in 0 .. NetworkBudget
  BY DEF ReviewInv, ReviewTypeOK
<1>5. loop'.used \in 0 .. NetworkBudget
  BY <1>3, <1>4, ReadCostOf
<1>6. loop'.turn \in 0 .. MaxTurns /\ loop'.calls \in 0 .. MaxCalls
  <2>1. MaxCalls \in Nat
    BY ReviewAssumption
  <2>2. loop'.turn = loop.turn /\ loop'.calls = loop.calls - 1
    BY <1>3
  <2> QED  BY <1>1, <1>4, <2>1, <2>2
<1> QED  BY <1>1, <1>5, <1>6, LoopStep

\* The beginning, the verification and the report, and a call that raises.
LEMMA FrameStep ==
    ASSUME ReviewInv, Prepare \/ ReadFails \/ CallRaises \/ VerifyFinding \/ WriteReport \/ UNCHANGED vars
    PROVE  ReviewInv'
<1>1. UNCHANGED <<code, tree, started, result, loop>>
  BY DEF Prepare, ReadFails, CallRaises, VerifyFinding, WriteReport, vars
<1>2. InFlight' = InFlight
  BY <1>1 DEF InFlight
<1>3. Kept'
  BY <1>1 DEF ReviewInv, Kept, Below
<1>4. phase' \in {"start", "review", "verify", "reported", "raised"}
  BY DEF ReviewInv, ReviewTypeOK, Prepare, ReadFails, CallRaises, VerifyFinding, WriteReport, vars
<1>5. Complete'
  BY <1>1 DEF ReviewInv, Complete, Prepare, ReadFails, CallRaises, VerifyFinding, WriteReport, vars
<1>6. Judged'
  <2>1. CASE VerifyFinding
    BY <1>1, <2>1 DEF ReviewInv, Judged, VerifyFinding
  <2>2. CASE ~ VerifyFinding
    BY <1>1, <2>2 DEF ReviewInv, Judged, Prepare, ReadFails, CallRaises, WriteReport, vars
  <2> QED  BY <2>1, <2>2
<1>7. ReviewTypeOK'
  <2>1. DOMAIN verdicts' = 1 .. Len(verdicts')
        /\ \A i \in DOMAIN verdicts' : verdicts'[i] \in {"confirmed", "refuted", "uncertain"}
    BY <1>6 DEF Judged
  <2> QED  BY <1>1, <1>2, <1>4, <2>1 DEF ReviewInv, ReviewTypeOK
<1> QED  BY <1>1, <1>3, <1>5, <1>6, <1>7 DEF ReviewInv

\* Every step keeps the invariant.
LEMMA ReviewStep ==
    ASSUME ReviewInv, [Next]_vars
    PROVE  ReviewInv'
<1>1. CASE Prepare \/ ReadFails \/ CallRaises \/ VerifyFinding \/ WriteReport \/ Done \/ UNCHANGED vars
  BY <1>1, FrameStep DEF Done
<1>2. CASE StartLeaf
  BY <1>2, StartStep
<1>3. CASE \E n \in LeafIds : LeafAnswered(n)
  BY <1>3, LeafStep
<1>4. CASE \E n \in ToSet(tree.order) : Synthesize(n) \/ SkipFile(n) \/ ValidateFile(n) \/ NetworkAnswers(n)
  BY <1>4, MergeStep
<1>5. CASE \E n \in ToSet(tree.order) : NetworkAsks(n) \/ NetworkReads(n)
  BY <1>5, AskStep, ReadStep
<1> QED  BY <1>1, <1>2, <1>3, <1>4, <1>5 DEF Next, Step

-----------------------------------------------------------------------------
(* The results.                                                            *)

\* Every node on the path to a node is a node, and all but the last are in the order.
LEMMA PathsGrow ==
    ASSUME Grown(tree), NEW leaf \in ToSet(tree.nodes)
    PROVE  /\ leaf \in Seq(Nat) /\ Len(leaf) \in Nat
           /\ \A k \in 0 .. Len(leaf) : SubSeq(leaf, 1, k) \in ToSet(tree.nodes)
           /\ \A k \in 1 .. Len(leaf) : /\ SubSeq(leaf, 1, k - 1) \in ToSet(tree.order)
                                      /\ SubSeq(leaf, 1, k) \in Below(SubSeq(leaf, 1, k - 1))
<1> DEFINE n == Len(leaf)
           path(k) == SubSeq(leaf, 1, k)
           T == {k \in 0 .. n : path(n - k) \in ToSet(tree.nodes)}
<1>1. leaf \in Seq(Nat) /\ n \in Nat
  <2>1. leaf \in Seq(Nat)
    BY DEF Grown, ToSet
  <2> QED  BY <2>1
<1>2. path(n) = leaf
  BY <1>1
<1>3. ASSUME NEW k \in 1 .. n, path(k) \in ToSet(tree.nodes)
      PROVE  path(k - 1) \in ToSet(tree.order) /\ path(k) \in Below(path(k - 1))
  <2>1. Len(path(k)) = k /\ path(k) # <<>>
    BY <1>1
  <2>2. Front(path(k)) = path(k - 1)
    BY <1>1, <2>1 DEF Front
  <2> HIDE DEF path
  <2> QED  BY <1>3, <2>1, <2>2 DEF Grown, Below
<1>4. \A c \in ToSet(tree.order) : c \in ToSet(tree.nodes)
  BY DEF Grown
<1> HIDE DEF path
<1>5. 0 \in T
  BY <1>1, <1>2
<1>6. ASSUME NEW k \in 0 .. n, k \in T, k < n PROVE k + 1 \in T
  <2>1. n - k \in 1 .. n /\ (n - k) - 1 = n - (k + 1) /\ k + 1 \in 0 .. n
    BY <1>1, <1>6
  <2> QED  BY <1>3, <1>4, <1>6, <2>1
<1>7. \A k \in 0 .. n : k \in T
  <2> HIDE DEF T
  <2> QED  BY <1>1, <1>5, <1>6, Climb
<1>8. ASSUME NEW k \in 0 .. n PROVE path(k) \in ToSet(tree.nodes)
  <2>1. n - k \in 0 .. n /\ n - (n - k) = k
    BY <1>1
  <2>2. n - k \in T
    BY <1>7, <2>1
  <2> QED  BY <2>1, <2>2
<1>9. \A k \in 1 .. n : k \in 0 .. n
  OBVIOUS
<1> QED  BY <1>1, <1>3, <1>8, <1>9 DEF path

\* Where everything below a node is accounted for at it, a finding of a leaf is
\* dropped above it or reaches the report.
LEMMA InvNothingLost ==
    ASSUME ReviewInv
    PROVE  NothingLost
<1> SUFFICES ASSUME phase = "reported", NEW leaf \in LeafIds, NEW k \in KeysOf(result[leaf].findings),
                    Above(leaf) \cap Pruning(k) = {}
             PROVE  k \in Reported \cup Refuted
  BY DEF NothingLost
<1> DEFINE n == Len(leaf)
           path(j) == SubSeq(leaf, 1, j)
           found(c) == k \in KeysOf(result[c].findings)
           T == {j \in 0 .. n : found(path(n - j))}
<1>1. Grown(tree) /\ leaf \in ToSet(tree.nodes) /\ ToSet(tree.nodes) \subseteq DOMAIN result
  BY DEF ReviewInv, Grown, Complete, LeafIds
<1>2. /\ leaf \in Seq(Nat) /\ n \in Nat
      /\ \A j \in 0 .. n : path(j) \in ToSet(tree.nodes)
      /\ \A j \in 1 .. n : path(j - 1) \in ToSet(tree.order) /\ path(j) \in Below(path(j - 1))
  BY <1>1, PathsGrow
<1>3. path(n) = leaf /\ path(0) = <<>>
  BY <1>2
<1>4. \A j \in 0 .. n - 1 : path(j) \in Above(leaf)
  BY DEF Above
<1> HIDE DEF path
<1>5. ASSUME NEW j \in 1 .. n, found(path(j)) PROVE found(path(j - 1))
  <2>1. j - 1 \in 0 .. n - 1 /\ j - 1 \in 0 .. n
    BY <1>2
  <2>2. path(j - 1) \in Above(leaf) /\ path(j - 1) \in DOMAIN result
    BY <1>1, <1>2, <1>4, <2>1
  <2>3. k \notin result[path(j - 1)].dropped
    BY <2>2 DEF Pruning
  <2>4. KeysOf(result[path(j)].findings) \subseteq
           KeysOf(result[path(j - 1)].findings) \cup result[path(j - 1)].dropped
    BY <1>2, <2>2 DEF ReviewInv, Kept
  <2> QED  BY <1>5, <2>3, <2>4
<1> HIDE DEF found
<1>6. 0 \in T
  BY <1>2, <1>3 DEF found
<1>7. ASSUME NEW j \in 0 .. n, j \in T, j < n PROVE j + 1 \in T
  <2>1. n - j \in 1 .. n /\ (n - j) - 1 = n - (j + 1) /\ j + 1 \in 0 .. n
    BY <1>2, <1>7
  <2> QED  BY <1>5, <1>7, <2>1
<1>8. n \in T
  <2> HIDE DEF T
  <2>1. \A j \in 0 .. n : j \in T
    BY <1>2, <1>6, <1>7, Climb
  <2> QED  BY <1>2, <2>1
<1>9. k \in KeysOf(result[<<>>].findings)
  <2>1. n - n = 0
    BY <1>2
  <2>2. found(path(0))
    BY <1>8, <2>1
  <2> QED  BY <1>3, <2>2 DEF found
<1> DEFINE all == result[<<>>].findings
<1>10. all \in Seq(Findings)
  <2>1. <<>> \in DOMAIN result
    BY <1>1, <1>2, <1>3
  <2> QED  BY <2>1 DEF ReviewInv, ReviewTypeOK, NodeResult
<1>11. PICK i \in DOMAIN all : KeyOf[all[i]] = k
  BY <1>9 DEF KeysOf
<1>12. /\ Reported = {KeyOf[all[j]] : j \in {j \in DOMAIN all : verdicts = <<>> \/ verdicts[j] # "refuted"}}
       /\ Refuted = {KeyOf[all[j]] : j \in {j \in DOMAIN verdicts : verdicts[j] = "refuted"}}
  BY DEF Reported, Refuted
<1> HIDE DEF all
<1>13. /\ verdicts \in Seq({"confirmed", "refuted", "uncertain"})
       /\ Len(verdicts) = 0 \/ Len(verdicts) = Len(all)
  BY DEF ReviewInv, Judged, all
<1>14. CASE Len(verdicts) = 0
  <2>1. verdicts = <<>>
    BY <1>13, <1>14
  <2> QED  BY <1>11, <1>12, <2>1
<1>15. CASE Len(verdicts) = Len(all)
  <2>1. DOMAIN verdicts = DOMAIN all
    BY <1>10, <1>13, <1>15
  <2> QED  BY <1>11, <1>12, <2>1
<1> QED  BY <1>13, <1>14, <1>15

-----------------------------------------------------------------------------
(* Cutting.                                                                *)

\* What a line is halved into: costs that are small, or those of the halves.
Small(n, budget) == n <= budget \/ n \div 2 = 0
Halving(f, n, budget) == IF Small(n, budget) THEN <<n>> ELSE f[n \div 2] \o f[n - n \div 2]
Halved(f, line, budget) ==
    /\ f \in [0 .. line.cost -> Seq(Nat)]
    /\ \A n \in 0 .. line.cost : f[n] = Halving(f, n, budget)
    /\ HalvedLine(line, budget) =
          [i \in DOMAIN f[line.cost] |-> <<[line EXCEPT !.cost = f[line.cost][i]]>>]

\* A half is smaller.
LEMMA HalfOf ==
    ASSUME NEW n \in Nat, NEW budget, ~Small(n, budget)
    PROVE  /\ n \div 2 \in Nat /\ n \div 2 < n /\ n - n \div 2 \in Nat /\ n - n \div 2 < n
           /\ n \div 2 + (n - n \div 2) = n
BY DEF Small

\* What a line is halved into is such.
LEMMA HalvesRun ==
    ASSUME NEW line \in Line, NEW budget
    PROVE  \E f : Halved(f, line, budget)
<1> DEFINE cost == line.cost
           Half(f, n) == IF n <= budget \/ n \div 2 = 0 THEN <<n>> ELSE f[n \div 2] \o f[n - n \div 2]
           Rec(f) == f = [n \in 0 .. cost |-> Half(f, n)]
           X == [0 .. cost -> Seq(Nat)]
           S == {m \in 0 .. cost : \E f \in X : \A i \in 0 .. m : f[i] = Half(f, i)}
           parts == CHOOSE f : Rec(f)
           halves == parts[cost]
<1>1. HalvedLine(line, budget) = [i \in DOMAIN halves |-> <<[line EXCEPT !.cost = halves[i]]>>]
  BY DEF HalvedLine
<1>2. line \in [no : Nat, cost : Nat] /\ cost \in Nat
  BY DEF Line
<1>a. \A f, n : Half(f, n) = Halving(f, n, budget)
  BY DEF Halving, Small
<1> HIDE DEF cost, Half
<1>3. ASSUME NEW n \in 0 .. cost, ~ Small(n, budget)
      PROVE  n \div 2 \in 0 .. cost /\ n \div 2 < n /\ n - n \div 2 \in 0 .. cost /\ n - n \div 2 < n
  <2>1. n \in Nat
    BY <1>2
  <2>2. n \div 2 \in Nat /\ n \div 2 < n /\ n - n \div 2 \in Nat /\ n - n \div 2 < n
    BY <1>3, <2>1, HalfOf
  <2> QED  BY <1>2, <2>2
<1>4. \A n \in 0 .. cost : <<n>> \in Seq(Nat)
  BY <1>2
<1>5. ASSUME NEW f \in X, NEW n \in 0 .. cost PROVE Half(f, n) \in Seq(Nat)
  <2>1. CASE Small(n, budget)
    BY <1>4, <1>a, <2>1 DEF Halving
  <2>2. CASE ~ Small(n, budget)
    <3>1. f[n \div 2] \in Seq(Nat) /\ f[n - n \div 2] \in Seq(Nat)
      BY <1>3, <2>2
    <3>2. f[n \div 2] \o f[n - n \div 2] \in Seq(Nat)
      BY <3>1
    <3>3. Half(f, n) = f[n \div 2] \o f[n - n \div 2]
      BY <1>a, <2>2 DEF Halving
    <3> QED  BY <3>2, <3>3
  <2> QED  BY <2>1, <2>2
<1>6. 0 \in S
  <2> DEFINE none == [n \in 0 .. cost |-> <<n>>]
  <2>1. none \in X /\ none[0] = <<0>>
    BY <1>2, <1>4
  <2>2. Small(0, budget)
    BY DEF Small
  <2>3. 0 \in 0 .. cost /\ \A i \in 0 .. 0 : i = 0
    BY <1>2
  <2> HIDE DEF X, none
  <2>4. Half(none, 0) = <<0>>
    BY <1>a, <2>2 DEF Halving
  <2>5. \A i \in 0 .. 0 : none[i] = Half(none, i)
    BY <2>1, <2>3, <2>4
  <2> QED  BY <2>1, <2>3, <2>5
<1>7. ASSUME NEW m \in 0 .. cost, m \in S, m < cost PROVE m + 1 \in S
  <2>1. PICK f \in X : \A i \in 0 .. m : f[i] = Half(f, i)
    BY <1>7
  <2>2. m + 1 \in 0 .. cost /\ \A i \in 0 .. m + 1 : i = m + 1 \/ i \in 0 .. m
    BY <1>7, <1>2
  <2> DEFINE h == Half(f, m + 1)
             g == [f EXCEPT ![m + 1] = h]
  <2>3. h \in Seq(Nat)
    BY <1>5, <2>2
  <2> HIDE DEF h
  <2>4. g \in X /\ g[m + 1] = h /\ \A i \in 0 .. m : g[i] = f[i]
    BY <1>2, <2>2, <2>3
  <2> HIDE DEF g
  <2>5. ASSUME NEW i \in 0 .. m + 1 PROVE Half(g, i) = Half(f, i)
    <3>1. CASE Small(i, budget)
      BY <1>a, <3>1 DEF Halving
    <3>2. CASE ~ Small(i, budget)
      <4>1. i \in 0 .. cost
        BY <1>2, <2>2
      <4>2. i \div 2 \in 0 .. m /\ i - i \div 2 \in 0 .. m
        BY <1>2, <1>3, <3>2, <4>1
      <4>3. g[i \div 2] = f[i \div 2] /\ g[i - i \div 2] = f[i - i \div 2]
        BY <2>4, <4>2
      <4> QED  BY <1>a, <3>2, <4>3 DEF Halving
    <3> QED  BY <3>1, <3>2
  <2>6. \A i \in 0 .. m + 1 : g[i] = Half(g, i)
    BY <2>1, <2>2, <2>4, <2>5 DEF h
  <2> HIDE DEF X
  <2> QED  BY <2>2, <2>4, <2>6
<1>8. PICK f \in X : \A i \in 0 .. cost : f[i] = Half(f, i)
  <2> HIDE DEF S
  <2>1. \A i \in 0 .. cost : i \in S
    BY <1>6, <1>7, <1>2, Climb
  <2>2. cost \in S
    BY <1>2, <2>1
  <2> HIDE DEF X
  <2> QED  BY <2>2 DEF S
<1>9. Rec(f)
  BY <1>8
<1>10. Rec(parts)
  <2> HIDE DEF Rec
  <2> QED  BY <1>9
<1> HIDE DEF parts, S, X
<1>11. DOMAIN parts = 0 .. cost /\ parts = [n \in 0 .. cost |-> parts[n]]
       /\ \A n \in 0 .. cost : parts[n] = Half(parts, n)
  BY <1>10
<1> DEFINE T == {n \in 0 .. cost : parts[n] \notin Seq(Nat)}
<1>12. T = {}
  <2> SUFFICES ASSUME T # {} PROVE FALSE
    OBVIOUS
  <2>1. PICK n \in T : \A j \in T : n <= j
    <3>1. T \in SUBSET Nat
      BY <1>2
    <3> HIDE DEF T
    <3> QED  BY <3>1, MinOf
  <2>2. n \in 0 .. cost /\ parts[n] \notin Seq(Nat) /\ parts[n] = Halving(parts, n, budget)
    BY <1>11, <1>a, <2>1
  <2>3. CASE Small(n, budget)
    BY <1>4, <2>2, <2>3 DEF Halving
  <2>4. CASE ~ Small(n, budget)
    <3>1. n \div 2 \notin T /\ n - n \div 2 \notin T
      <4>1. n \div 2 \in 0 .. cost /\ n \div 2 < n /\ n - n \div 2 \in 0 .. cost /\ n - n \div 2 < n
        BY <1>3, <2>2, <2>4
      <4> HIDE DEF T
      <4> QED  BY <1>2, <2>1, <2>2, <4>1
    <3>2. parts[n \div 2] \in Seq(Nat) /\ parts[n - n \div 2] \in Seq(Nat)
      BY <1>3, <2>2, <2>4, <3>1
    <3>3. parts[n] = parts[n \div 2] \o parts[n - n \div 2]
      BY <2>2, <2>4 DEF Halving
    <3>4. parts[n \div 2] \o parts[n - n \div 2] \in Seq(Nat)
      BY <3>2
    <3> QED  BY <2>2, <3>3, <3>4
  <2> QED  BY <2>3, <2>4
<1>13. parts \in [0 .. cost -> Seq(Nat)]
  BY <1>11, <1>12
<1>14. Halved(parts, line, budget)
  BY <1>1, <1>11, <1>13, <1>a DEF Halved, cost
<1> QED  BY <1>14

\* The parts fit, or are of one character; and a line of one character is left as it is.
LEMMA HalvesFit ==
    ASSUME NEW line \in Line, NEW budget \in Nat, NEW f, Halved(f, line, budget)
    PROVE  /\ \A n \in 0 .. line.cost : \A i \in DOMAIN f[n] : f[n][i] <= budget \/ f[n][i] <= 1
           /\ line.cost <= 1 => f[line.cost] = <<line.cost>>
<1> DEFINE cost == line.cost
           Fits(s) == \A i \in DOMAIN s : s[i] <= budget \/ s[i] <= 1
           T == {n \in 0 .. cost : ~Fits(f[n])}
<1>1. cost \in Nat
  BY DEF Line
<1>2. /\ f \in [0 .. cost -> Seq(Nat)]
      /\ \A n \in 0 .. cost : f[n] = Halving(f, n, budget)
  BY DEF Halved
<1> HIDE DEF cost
<1>3. \A n \in 0 .. cost : Small(n, budget) => n <= budget \/ n <= 1
  BY <1>1 DEF Small
<1>4. T = {}
  <2> SUFFICES ASSUME T # {} PROVE FALSE
    OBVIOUS
  <2>1. PICK n \in T : \A j \in T : n <= j
    <3>1. T \in SUBSET Nat
      BY <1>1
    <3> HIDE DEF T
    <3> QED  BY <3>1, MinOf
  <2>2. n \in 0 .. cost /\ ~Fits(f[n]) /\ f[n] = Halving(f, n, budget)
    BY <1>2, <2>1
  <2>3. CASE Small(n, budget)
    <3>1. f[n] = <<n>> /\ DOMAIN <<n>> = {1} /\ <<n>>[1] = n
      BY <2>2, <2>3 DEF Halving
    <3>2. n <= budget \/ n <= 1
      BY <1>3, <2>2, <2>3
    <3> QED  BY <2>2, <3>1, <3>2
  <2>4. CASE ~Small(n, budget)
    <3> DEFINE a == n \div 2
               b == n - n \div 2
    <3>1. n \in Nat
      BY <1>1
    <3>2. a \in Nat /\ a < n /\ b \in Nat /\ b < n
      BY <2>4, <3>1, HalfOf
    <3>3. f[n] = f[a] \o f[b]
      BY <2>2, <2>4 DEF Halving
    <3> HIDE DEF a, b
    <3>4. a \in 0 .. cost /\ b \in 0 .. cost
      BY <1>1, <2>2, <3>2
    <3>5. a \notin T /\ b \notin T
      <4> HIDE DEF T
      <4> QED  BY <1>1, <2>1, <2>2, <3>2, <3>4
    <3>6. Fits(f[a]) /\ Fits(f[b])
      BY <3>4, <3>5
    <3>7. f[a] \in Seq(Nat) /\ f[b] \in Seq(Nat)
      BY <1>2, <3>4
    <3>8. Fits(f[a] \o f[b])
      <4> DEFINE s == f[a]
                 t == f[b]
      <4>1. s \in Seq(Nat) /\ t \in Seq(Nat) /\ Fits(s) /\ Fits(t)
        BY <3>6, <3>7
      <4> HIDE DEF s, t
      <4> SUFFICES ASSUME NEW i \in DOMAIN (s \o t)
                   PROVE  (s \o t)[i] <= budget \/ (s \o t)[i] <= 1
        BY DEF s, t
      <4>2. (i \in DOMAIN s /\ (s \o t)[i] = s[i]) \/ \E j \in DOMAIN t : (s \o t)[i] = t[j]
        <5>1. Len(s) \in Nat /\ Len(t) \in Nat /\ DOMAIN s = 1 .. Len(s) /\ DOMAIN t = 1 .. Len(t)
          BY <4>1
        <5>2. i \in 1 .. Len(s) + Len(t)
          BY <4>1
        <5>3. CASE i \in 1 .. Len(s)
          BY <4>1, <5>1, <5>3
        <5>4. CASE i \notin 1 .. Len(s)
          <6>1. i - Len(s) \in 1 .. Len(t) /\ (s \o t)[i] = t[i - Len(s)]
            BY <4>1, <5>1, <5>2, <5>4
          <6> QED  BY <5>1, <6>1
        <5> QED  BY <5>3, <5>4
      <4> QED  BY <4>1, <4>2
    <3> QED  BY <2>2, <3>3, <3>8
  <2> QED  BY <2>3, <2>4
<1>5. \A n \in 0 .. cost : Fits(f[n])
  BY <1>4
<1>6. cost <= 1 => f[cost] = <<cost>>
  <2>1. cost <= 1 => Small(cost, budget)
    BY <1>1 DEF Small
  <2>2. cost \in 0 .. cost
    BY <1>1
  <2> QED  BY <1>2, <2>1, <2>2 DEF Halving
<1> QED  BY <1>5, <1>6 DEF cost

\* A line that is too long is halved into lines with its number, one at a time.
IsPart(lines, line, budget) ==
    /\ lines \in Seq(Line) /\ Len(lines) = 1
    /\ lines[1].no = line.no /\ (lines[1].cost <= budget \/ lines[1].cost <= 1)

\* Its halves are such parts; a single character is one part.
LEMMA HalvedLineOf ==
    ASSUME NEW line \in Line, NEW budget \in Nat
    PROVE  /\ HalvedLine(line, budget) \in Seq(Seq(Line))
           /\ Len(HalvedLine(line, budget)) \in Nat
           /\ \A i \in 1 .. Len(HalvedLine(line, budget)) : IsPart(HalvedLine(line, budget)[i], line, budget)
           /\ line.cost <= 1 => Len(HalvedLine(line, budget)) = 1
<1>1. PICK f : Halved(f, line, budget)
  BY HalvesRun
<1> DEFINE halves == f[line.cost]
           Part(c) == <<[line EXCEPT !.cost = c]>>
<1>2. line \in [no : Nat, cost : Nat] /\ line.cost \in Nat
  BY DEF Line
<1>3. line.cost \in 0 .. line.cost
  BY <1>2
<1>4. halves \in Seq(Nat)
  BY <1>1, <1>3 DEF Halved
<1>5. /\ \A i \in DOMAIN halves : halves[i] <= budget \/ halves[i] <= 1
      /\ line.cost <= 1 => halves = <<line.cost>>
  BY <1>1, <1>3, HalvesFit
<1>6. HalvedLine(line, budget) = [i \in DOMAIN halves |-> Part(halves[i])]
  BY <1>1 DEF Halved
<1>7. ASSUME NEW c \in Nat PROVE Part(c) \in Seq(Line) /\ Len(Part(c)) = 1 /\ Part(c)[1].no = line.no /\ Part(c)[1].cost = c
  <2> DEFINE l == [line EXCEPT !.cost = c]
  <2>1. l \in Line
    BY <1>2 DEF Line
  <2>2. l.no = line.no /\ l.cost = c
    BY <1>2
  <2> HIDE DEF l
  <2>3. <<l>> \in Seq(Line) /\ Len(<<l>>) = 1 /\ <<l>>[1] = l
    BY <2>1
  <2> QED  BY <2>2, <2>3 DEF l
<1> HIDE DEF Part, halves
<1>8. DOMAIN halves = 1 .. Len(halves) /\ Len(halves) \in Nat /\ \A i \in 1 .. Len(halves) : halves[i] \in Nat
  BY <1>4
<1>9. \A i \in 1 .. Len(halves) : IsPart(Part(halves[i]), line, budget)
  BY <1>5, <1>7, <1>8 DEF IsPart
<1>10. \A i \in 1 .. Len(halves) : Part(halves[i]) \in Seq(Line)
  BY <1>9 DEF IsPart
<1> DEFINE h == [i \in 1 .. Len(halves) |-> Part(halves[i])]
<1>11. HalvedLine(line, budget) = h
  BY <1>6, <1>8
<1>12. h \in Seq(Seq(Line)) /\ Len(h) = Len(halves) /\ \A i \in 1 .. Len(halves) : h[i] = Part(halves[i])
  BY <1>8, <1>10
<1>13. line.cost <= 1 => Len(halves) = 1
  BY <1>5
<1> HIDE DEF h
<1> QED  BY <1>8, <1>9, <1>11, <1>12, <1>13

-----------------------------------------------------------------------------
(* Groups of lines.                                                        *)

\* What _split_chunk_by_lines has done so far, and does for a line.
Group == [groups : Seq(Text), open : Seq(Line), start : Int, at : Int]

Closed(acc) == IF acc.open = <<>> THEN acc.groups
               ELSE Append(acc.groups, Chunk(acc.start, acc.at - 1, acc.open))

HalvesAt(at, line, budget) ==
    [i \in DOMAIN HalvedLine(line, budget) |-> Chunk(at, at, HalvedLine(line, budget)[i])]

Halve(acc, line, budget) ==
    [groups |-> Closed(acc) \o HalvesAt(acc.at, line, budget), open |-> <<>>,
     start |-> acc.at + 1, at |-> acc.at + 1]

Reopen(acc, line) ==
    [groups |-> Closed(acc), open |-> <<line>>, start |-> acc.at, at |-> acc.at + 1]

Extend(acc, line) == [acc EXCEPT !.open = Append(@, line), !.at = @ + 1]

Grow(acc, line, budget) ==
    IF line.cost > budget THEN Halve(acc, line, budget)
    ELSE IF acc.open # <<>> /\ Cost(acc.open) + line.cost > budget THEN Reopen(acc, line)
    ELSE Extend(acc, line)

\* Closing a group keeps the type.
LEMMA ClosedOf ==
    ASSUME NEW acc \in Group
    PROVE  /\ Chunk(acc.start, acc.at - 1, acc.open) \in Text
           /\ Closed(acc) \in Seq(Text)
<1>1. acc.groups \in Seq(Text) /\ acc.open \in Seq(Line) /\ acc.start \in Int /\ acc.at \in Int
  BY DEF Group
<1>2. Chunk(acc.start, acc.at - 1, acc.open) \in Text
  BY <1>1 DEF Chunk, Text
<1> QED  BY <1>1, <1>2 DEF Closed

\* The halves of a line are texts, each on that line.
LEMMA HalvesAtOf ==
    ASSUME NEW at \in Int, NEW line \in Line, NEW budget \in Nat
    PROVE  /\ HalvesAt(at, line, budget) \in Seq(Text)
           /\ Len(HalvesAt(at, line, budget)) = Len(HalvedLine(line, budget))
           /\ \A i \in 1 .. Len(HalvesAt(at, line, budget)) :
                 HalvesAt(at, line, budget)[i] = Chunk(at, at, HalvedLine(line, budget)[i])
<1> DEFINE parts == HalvedLine(line, budget)
           h == [i \in 1 .. Len(parts) |-> Chunk(at, at, parts[i])]
<1>1. parts \in Seq(Seq(Line))
  BY HalvedLineOf
<1> HIDE DEF parts
<1>2. DOMAIN parts = 1 .. Len(parts) /\ Len(parts) \in Nat
  BY <1>1
<1>3. \A i \in 1 .. Len(parts) : Chunk(at, at, parts[i]) \in Text
  BY <1>1, <1>2 DEF Chunk, Text
<1>4. HalvesAt(at, line, budget) = h
  BY <1>2 DEF HalvesAt, parts
<1>5. h \in Seq(Text) /\ Len(h) = Len(parts) /\ \A i \in 1 .. Len(parts) : h[i] = Chunk(at, at, parts[i])
  BY <1>2, <1>3
<1> HIDE DEF h
<1> QED  BY <1>4, <1>5 DEF parts

\* Each of the three ways stays in the type.
LEMMA GrowType ==
    ASSUME NEW acc \in Group, NEW line \in Line, NEW budget \in Nat
    PROVE  /\ Halve(acc, line, budget) \in Group
           /\ Reopen(acc, line) \in Group
           /\ Extend(acc, line) \in Group
           /\ Grow(acc, line, budget) \in Group
<1>1. acc.groups \in Seq(Text) /\ acc.open \in Seq(Line) /\ acc.start \in Int /\ acc.at \in Int
  BY DEF Group
<1>2. Closed(acc) \o HalvesAt(acc.at, line, budget) \in Seq(Text) /\ Closed(acc) \in Seq(Text)
  <2>1. HalvesAt(acc.at, line, budget) \in Seq(Text) /\ Closed(acc) \in Seq(Text)
    BY <1>1, HalvesAtOf, ClosedOf
  <2> QED  BY <2>1
<1>3. Halve(acc, line, budget) \in Group /\ Reopen(acc, line) \in Group
  BY <1>1, <1>2 DEF Halve, Reopen, Group
<1>4. Extend(acc, line) \in Group
  <2>1. Append(acc.open, line) \in Seq(Line) /\ acc.at + 1 \in Int
    BY <1>1
  <2>2. ASSUME NEW open \in Seq(Line), NEW at \in Int
        PROVE  [acc EXCEPT !.open = open, !.at = at] \in Group
    BY <2>2 DEF Group
  <2> QED  BY <2>1, <2>2 DEF Extend
<1> QED  BY <1>3, <1>4 DEF Grow

\* The scan, line by line.
Grouped(run, chunk, budget) ==
    /\ run \in [0 .. Len(chunk.lines) -> Group]
    /\ run[0] = [groups |-> <<>>, open |-> <<>>, start |-> chunk.from, at |-> chunk.from]
    /\ \A i \in 1 .. Len(chunk.lines) : run[i] = Grow(run[i - 1], chunk.lines[i], budget)
    /\ LineGroups(chunk, budget) = Closed(run[Len(chunk.lines)])

\* There is such a scan.
LEMMA GroupsRun ==
    ASSUME NEW chunk \in Text, NEW budget \in Nat
    PROVE  \E run : Grouped(run, chunk, budget)
<1> DEFINE n == Len(chunk.lines)
           Close(acc) == IF acc.open = <<>> THEN acc.groups
                         ELSE Append(acc.groups, Chunk(acc.start, acc.at - 1, acc.open))
           Halves(acc, line) == LET parts == HalvedLine(line, budget)
                                IN  [i \in DOMAIN parts |-> Chunk(acc.at, acc.at, parts[i])]
           Add(acc, line) ==
               IF line.cost > budget
               THEN [groups |-> Close(acc) \o Halves(acc, line), open |-> <<>>,
                     start |-> acc.at + 1, at |-> acc.at + 1]
               ELSE IF acc.open # <<>> /\ Cost(acc.open) + line.cost > budget
               THEN [groups |-> Close(acc), open |-> <<line>>, start |-> acc.at, at |-> acc.at + 1]
               ELSE [acc EXCEPT !.open = Append(@, line), !.at = @ + 1]
           base == [groups |-> <<>>, open |-> <<>>, start |-> chunk.from, at |-> chunk.from]
           step == [i \in 1 .. n |-> [acc \in Group |-> Add(acc, chunk.lines[i])]]
           Rec(g) == g = [i \in 0 .. n |-> IF i = 0 THEN base
                                           ELSE LET acc == g[i - 1] IN Add(acc, chunk.lines[i])]
           upTo == CHOOSE g : Rec(g)
<1>1. chunk.from \in Int /\ chunk.lines \in Seq(Line)
  BY DEF Text
<1>2. n \in Nat /\ \A i \in 1 .. n : chunk.lines[i] \in Line
  BY <1>1
<1>3. LineGroups(chunk, budget) = Close(upTo[n])
  BY DEF LineGroups, Scan
<1>4. base \in Group
  BY <1>1 DEF Group
<1>5. \A acc : Close(acc) = Closed(acc)
  BY DEF Closed
<1>6. \A acc, line : Halves(acc, line) = HalvesAt(acc.at, line, budget)
  BY DEF HalvesAt
<1> HIDE DEF Close, Halves
<1>7. \A acc, line : Add(acc, line) = Grow(acc, line, budget)
  <2> TAKE acc, line
  <2>1. Close(acc) = Closed(acc) /\ Halves(acc, line) = HalvesAt(acc.at, line, budget)
    BY <1>5, <1>6
  <2> QED  BY <2>1, Zenon DEF Grow, Halve, Reopen, Extend
<1> HIDE DEF Add
<1>8. step \in Moves(n, Group)
  <2>1. \A i \in 1 .. n : \A acc \in Group : Add(acc, chunk.lines[i]) \in Group
    BY <1>2, <1>7, GrowType
  <2> QED  BY <2>1 DEF Moves
<1>9. \A i \in 1 .. n : \A x \in Group : step[i][x] = Add(x, chunk.lines[i])
  OBVIOUS
<1> HIDE DEF n, step, base
<1>10. Runs(n, Group, base, step) # {}
  BY <1>2, <1>4, <1>8, Iterates
<1>11. PICK g \in [0 .. n -> Group] : g[0] = base /\ \A i \in 1 .. n : g[i] = step[i][g[i - 1]]
  BY <1>10 DEF Runs
<1>12. Rec(g)
  <2>1. ASSUME NEW i \in 1 .. n PROVE g[i] = Add(g[i - 1], chunk.lines[i])
    <3>1. i - 1 \in 0 .. n
      BY <1>2
    <3> QED  BY <1>9, <1>11, <3>1
  <2> QED  BY <1>2, <1>11, <2>1
<1>13. Rec(upTo)
  <2> HIDE DEF Rec
  <2> QED  BY <1>12
<1> HIDE DEF upTo
<1>14. /\ DOMAIN upTo = 0 .. n
       /\ upTo[0] = base /\ \A i \in 1 .. n : upTo[i] = Add(upTo[i - 1], chunk.lines[i])
  BY <1>2, <1>13
<1>15. upTo = [i \in 0 .. n |-> upTo[i]]
  BY <1>13
<1> HIDE DEF Rec
<1> DEFINE T == {i \in 0 .. n : upTo[i] \in Group}
<1>16. 0 \in T
  BY <1>2, <1>4, <1>14
<1>17. ASSUME NEW m \in 0 .. n, m \in T, m < n PROVE m + 1 \in T
  <2>1. m + 1 \in 1 .. n /\ m + 1 \in 0 .. n /\ (m + 1) - 1 = m
    BY <1>2, <1>17
  <2>2. upTo[m + 1] = Grow(upTo[m], chunk.lines[m + 1], budget)
    BY <1>7, <1>14, <2>1
  <2>3. upTo[m + 1] \in Group
    BY <1>2, <1>17, <2>1, <2>2, GrowType
  <2> QED  BY <2>1, <2>3
<1>18. \A i \in 0 .. n : upTo[i] \in Group
  <2>1. \A i \in 0 .. n : i \in T
    <3> HIDE DEF T
    <3> QED  BY <1>2, <1>16, <1>17, Climb
  <2> QED  BY <2>1
<1>19. upTo \in [0 .. n -> Group]
  BY <1>15, <1>18
<1>20. Grouped(upTo, chunk, budget)
  BY <1>3, <1>5, <1>7, <1>14, <1>19 DEF Grouped, base, n
<1> QED  BY <1>20

\* What a text is cut into by lines are texts.
LEMMA LineGroupsOf ==
    ASSUME NEW chunk \in Text, NEW budget \in Nat
    PROVE  LineGroups(chunk, budget) \in Seq(Text)
<1>1. PICK run : Grouped(run, chunk, budget)
  BY GroupsRun
<1>2. Len(chunk.lines) \in 0 .. Len(chunk.lines)
  <2>1. chunk.lines \in Seq(Line)
    BY DEF Text
  <2> QED  BY <2>1
<1> QED  BY <1>1, <1>2, ClosedOf DEF Grouped

\* A part fits, or is one character that no budget cuts.
Fitting(part, budget) ==
    \/ Cost(part.lines) <= budget
    \/ Len(part.lines) = 1 /\ part.lines[1].cost <= 1

\* The cost of one line is its own.
LEMMA CostOfOne ==
    ASSUME NEW lines \in Seq(Line), Len(lines) = 1
    PROVE  lines[1] \in Line /\ Cost(lines) = lines[1].cost
<1>1. PICK f : Sums(f, lines)
  BY CostRun
<1>2. lines[1] \in Line /\ lines[1].cost \in Nat
  <2>1. lines[1] \in Line
    OBVIOUS
  <2> QED  BY <2>1 DEF Line
<1>3. f[1] = f[1 - 1] + lines[1].cost /\ f[1 - 1] = 0 /\ Cost(lines) = f[1]
  BY <1>1 DEF Sums
<1> QED  BY <1>2, <1>3

\* What is cut by lines fits.
LEMMA GroupsFit ==
    ASSUME NEW chunk \in Text, NEW budget \in Nat
    PROVE  \A i \in 1 .. Len(LineGroups(chunk, budget)) : Fitting(LineGroups(chunk, budget)[i], budget)
<1> DEFINE n == Len(chunk.lines)
           AllFit(groups) == \A i \in 1 .. Len(groups) : Fitting(groups[i], budget)
           Good(acc) == AllFit(acc.groups) /\ Cost(acc.open) <= budget
<1>1. n \in Nat /\ \A i \in 1 .. n : chunk.lines[i] \in Line
  <2>1. chunk.lines \in Seq(Line)
    BY DEF Text
  <2> QED  BY <2>1
<1>2. PICK run : Grouped(run, chunk, budget)
  BY GroupsRun
<1>3. ASSUME NEW acc \in Group, Good(acc) PROVE AllFit(Closed(acc))
  <2>1. acc.groups \in Seq(Text) /\ Len(acc.groups) \in Nat
    BY DEF Group
  <2> DEFINE last == Chunk(acc.start, acc.at - 1, acc.open)
  <2>2. Fitting(last, budget)
    BY <1>3 DEF Fitting, Chunk
  <2>3. last \in Text
    BY ClosedOf
  <2> HIDE DEF last
  <2>4. /\ Len(Append(acc.groups, last)) = Len(acc.groups) + 1
        /\ Append(acc.groups, last)[Len(acc.groups) + 1] = last
        /\ \A i \in 1 .. Len(acc.groups) : Append(acc.groups, last)[i] = acc.groups[i]
    BY <2>1
  <2>5. \A i \in 1 .. Len(acc.groups) + 1 : i = Len(acc.groups) + 1 \/ i \in 1 .. Len(acc.groups)
    BY <2>1
  <2>6. AllFit(Append(acc.groups, last))
    BY <1>3, <2>2, <2>4, <2>5
  <2> QED  BY <1>3, <2>6 DEF Closed, last
<1> HIDE DEF AllFit
<1>4. ASSUME NEW acc \in Group, Good(acc), NEW line \in Line PROVE Good(Grow(acc, line, budget))
  <2>1. acc.groups \in Seq(Text) /\ acc.open \in Seq(Line) /\ acc.start \in Int /\ acc.at \in Int
    BY DEF Group
  <2>2. line.cost \in Nat /\ Cost(acc.open) \in Nat /\ Cost(<<>>) = 0
    BY <2>1, CostType, CostAppend DEF Line
  <2>3. CASE line.cost > budget
    <3> DEFINE h == HalvesAt(acc.at, line, budget)
               c == Closed(acc)
    <3>1. h \in Seq(Text) /\ c \in Seq(Text)
      BY <2>1, HalvesAtOf, ClosedOf
    <3>2. AllFit(h)
      <4>1. /\ Len(h) = Len(HalvedLine(line, budget))
            /\ \A i \in 1 .. Len(h) : h[i] = Chunk(acc.at, acc.at, HalvedLine(line, budget)[i])
        BY <2>1, HalvesAtOf
      <4> DEFINE parts == HalvedLine(line, budget)
      <4>2. \A i \in 1 .. Len(parts) : IsPart(parts[i], line, budget)
        BY HalvedLineOf
      <4> HIDE DEF parts, h
      <4>3. ASSUME NEW i \in 1 .. Len(h) PROVE Fitting(h[i], budget)
        <5>1. h[i].lines = parts[i] /\ IsPart(parts[i], line, budget)
          <6>1. i \in 1 .. Len(parts)
            BY <4>1 DEF parts
          <6>2. h[i] = Chunk(acc.at, acc.at, parts[i])
            BY <4>1, <6>1 DEF parts
          <6> QED  BY <4>2, <6>1, <6>2 DEF Chunk
        <5>2. Cost(parts[i]) = parts[i][1].cost
          BY <5>1, CostOfOne DEF IsPart
        <5> QED  BY <5>1, <5>2 DEF IsPart, Fitting
      <4> QED  BY <4>3 DEF AllFit
    <3>3. AllFit(c)
      BY <1>3, <1>4
    <3> HIDE DEF h, c
    <3>4. AllFit(c \o h)
      <4>1. ASSUME NEW i \in 1 .. Len(c \o h) PROVE Fitting((c \o h)[i], budget)
        <5>1. Len(c) \in Nat /\ Len(h) \in Nat /\ Len(c \o h) = Len(c) + Len(h)
          BY <3>1
        <5>2. CASE i <= Len(c)
          <6>1. (c \o h)[i] = c[i] /\ i \in 1 .. Len(c)
            BY <3>1, <5>1, <5>2
          <6> QED  BY <3>3, <6>1 DEF AllFit
        <5>3. CASE ~(i <= Len(c))
          <6>1. (c \o h)[i] = h[i - Len(c)] /\ i - Len(c) \in 1 .. Len(h)
            BY <3>1, <5>1, <5>3
          <6> QED  BY <3>2, <6>1 DEF AllFit
        <5> QED  BY <5>2, <5>3
      <4> QED  BY <4>1 DEF AllFit
    <3>5. Halve(acc, line, budget).groups = c \o h /\ Halve(acc, line, budget).open = <<>>
      BY DEF Halve, c, h
    <3>6. Grow(acc, line, budget) = Halve(acc, line, budget)
      BY <2>3 DEF Grow
    <3>7. AllFit(Grow(acc, line, budget).groups)
      BY <3>4, <3>5, <3>6
    <3>8. Cost(Grow(acc, line, budget).open) <= budget
      BY <2>2, <3>5, <3>6
    <3> QED  BY <3>7, <3>8
  <2>4. CASE ~(line.cost > budget) /\ acc.open # <<>> /\ Cost(acc.open) + line.cost > budget
    <3>1. Reopen(acc, line).groups = Closed(acc) /\ Reopen(acc, line).open = <<line>>
      BY DEF Reopen
    <3>2. Cost(<<line>>) = line.cost
      <4>1. <<line>> \in Seq(Line) /\ Len(<<line>>) = 1 /\ <<line>>[1] = line
        OBVIOUS
      <4> QED  BY <4>1, CostOfOne
    <3>3. Grow(acc, line, budget) = Reopen(acc, line)
      BY <2>4 DEF Grow
    <3> QED  BY <1>3, <1>4, <2>2, <2>4, <3>1, <3>2, <3>3
  <2>5. CASE ~(line.cost > budget) /\ ~(acc.open # <<>> /\ Cost(acc.open) + line.cost > budget)
    <3>1. Extend(acc, line).groups = acc.groups /\ Extend(acc, line).open = Append(acc.open, line)
      BY DEF Extend, Group
    <3>2. Cost(Append(acc.open, line)) = Cost(acc.open) + line.cost
      BY <2>1, CostAppend
    <3>3. Grow(acc, line, budget) = Extend(acc, line)
      BY <2>5 DEF Grow
    <3>4. Cost(acc.open) + line.cost <= budget
      <4>1. CASE acc.open = <<>>
        BY <2>2, <2>5, <4>1
      <4>2. CASE acc.open # <<>>
        BY <2>2, <2>5, <4>2
      <4> QED  BY <4>1, <4>2
    <3> QED  BY <1>4, <3>1, <3>2, <3>3, <3>4
  <2> QED  BY <2>3, <2>4, <2>5
<1>5. \A i \in 0 .. n : run[i] \in Group
  BY <1>2 DEF Grouped
<1> DEFINE T == {i \in 0 .. n : Good(run[i])}
<1>6. 0 \in T
  <2>1. run[0].groups = <<>> /\ run[0].open = <<>>
    BY <1>2 DEF Grouped
  <2>2. Cost(<<>>) = 0
    BY CostAppend
  <2>3. AllFit(<<>>)
    BY DEF AllFit
  <2> QED  BY <1>1, <2>1, <2>2, <2>3
<1>7. ASSUME NEW m \in 0 .. n, m \in T, m < n PROVE m + 1 \in T
  <2>1. m + 1 \in 1 .. n /\ m + 1 \in 0 .. n /\ (m + 1) - 1 = m
    BY <1>1, <1>7
  <2>2. run[m + 1] = Grow(run[m], chunk.lines[m + 1], budget)
    BY <1>2, <2>1 DEF Grouped
  <2> HIDE DEF Good
  <2>3. Good(run[m + 1])
    BY <1>1, <1>4, <1>5, <1>7, <2>1, <2>2
  <2> QED  BY <2>1, <2>3
<1>8. n \in T
  <2> HIDE DEF T
  <2>1. \A i \in 0 .. n : i \in T
    BY <1>1, <1>6, <1>7, Climb
  <2> QED  BY <1>1, <2>1
<1>9. AllFit(Closed(run[n]))
  BY <1>1, <1>3, <1>5, <1>8
<1> QED  BY <1>2, <1>9 DEF Grouped, AllFit

\* What fits is not cut again.
LEMMA FittingOnce ==
    ASSUME NEW chunk \in Text, NEW budget \in Nat, Fitting(chunk, budget)
    PROVE  Len(LineGroups(chunk, budget)) <= 1
<1> DEFINE n == Len(chunk.lines)
           lines == chunk.lines
<1>1. lines \in Seq(Line) /\ n \in Nat /\ \A i \in 1 .. n : lines[i] \in Line /\ lines[i].cost \in Nat
  <2>1. lines \in Seq(Line)
    BY DEF Text
  <2>2. \A i \in 1 .. n : lines[i] \in Line
    BY <2>1
  <2> QED  BY <2>1, <2>2 DEF Line
<1>2. PICK run : Grouped(run, chunk, budget)
  BY GroupsRun
<1>3. \A i \in 0 .. n : run[i] \in Group
  BY <1>2 DEF Grouped
<1>4. run[0].groups = <<>> /\ run[0].open = <<>> /\ run[0].at = chunk.from /\ run[0].at \in Int
  BY <1>2 DEF Grouped, Text
<1>5. CASE Cost(lines) <= budget
  <2>1. PICK f : Sums(f, lines)
    BY <1>1, CostRun
  <2>2. \A i \in 0 .. n : f[i] \in Nat /\ f[i] <= budget
    <3>1. \A i \in 0 .. n : f[i] <= Cost(lines) /\ f[i] \in Nat
      BY <1>1, <2>1, CostGrows DEF Sums
    <3>2. Cost(lines) \in Nat
      BY <1>1, CostType
    <3> QED  BY <1>5, <3>1, <3>2
  <2> DEFINE T == {i \in 0 .. n : run[i].groups = <<>> /\ Cost(run[i].open) = f[i]}
  <2>3. 0 \in T
    BY <1>1, <1>4, <2>1, CostAppend DEF Sums
  <2>4. ASSUME NEW m \in 0 .. n, m \in T, m < n PROVE m + 1 \in T
    <3>1. m + 1 \in 1 .. n /\ m + 1 \in 0 .. n /\ (m + 1) - 1 = m
      BY <1>1, <2>4
    <3> DEFINE acc == run[m]
               line == lines[m + 1]
    <3>2. acc \in Group /\ acc.groups = <<>> /\ Cost(acc.open) = f[m] /\ line \in Line /\ line.cost \in Nat
      BY <1>1, <1>3, <2>4, <3>1
    <3>3. f[m + 1] = f[m] + line.cost
      BY <2>1, <3>1 DEF Sums
    <3>4. run[m + 1] = Grow(acc, line, budget)
      BY <1>2, <3>1 DEF Grouped
    <3>5. f[m] \in Nat /\ f[m + 1] <= budget
      BY <2>2, <3>1
    <3> HIDE DEF acc, line
    <3>6. ~(line.cost > budget) /\ ~(acc.open # <<>> /\ Cost(acc.open) + line.cost > budget)
      BY <3>2, <3>3, <3>5
    <3>7. run[m + 1] = Extend(acc, line)
      BY <3>4, <3>6 DEF Grow
    <3>8. run[m + 1].groups = <<>> /\ run[m + 1].open = Append(acc.open, line) /\ acc.open \in Seq(Line)
      BY <3>2, <3>7 DEF Extend, Group
    <3>9. Cost(run[m + 1].open) = f[m + 1]
      BY <3>2, <3>3, <3>8, CostAppend
    <3> QED  BY <3>1, <3>8, <3>9
  <2>5. n \in T
    <3> HIDE DEF T, n
    <3>1. \A i \in 0 .. n : i \in T
      BY <1>1, <2>3, <2>4, Climb
    <3> QED  BY <1>1, <3>1
  <2>6. run[n].groups = <<>>
    BY <2>5
  <2>7. LineGroups(chunk, budget) = Closed(run[n])
    BY <1>2 DEF Grouped
  <2>8. Len(Closed(run[n])) <= 1
    BY <2>6 DEF Closed
  <2> QED  BY <2>7, <2>8
<1>6. CASE n = 1 /\ lines[1].cost <= 1 /\ ~(Cost(lines) <= budget)
  <2> DEFINE line == lines[1]
             acc == run[0]
             h == HalvesAt(acc.at, line, budget)
  <2>1. line \in Line /\ line.cost > budget
    <3>1. Cost(lines) = line.cost /\ line \in Line /\ line.cost \in Nat
      BY <1>1, <1>6, CostOfOne
    <3> QED  BY <1>6, <3>1
  <2>2. run[1] = Grow(acc, line, budget)
    <3>1. 1 \in 1 .. n /\ 1 - 1 = 0
      BY <1>6
    <3> QED  BY <1>2, <3>1 DEF Grouped
  <2>3. acc \in Group
    BY <1>1, <1>3
  <2>4. Len(h) = Len(HalvedLine(line, budget)) /\ h \in Seq(Text)
    BY <1>4, <2>1, HalvesAtOf
  <2>5. Len(HalvedLine(line, budget)) = 1
    BY <1>6, <2>1, HalvedLineOf
  <2>6. acc.groups = <<>> /\ acc.open = <<>>
    BY <1>4
  <2>7. LineGroups(chunk, budget) = Closed(run[1])
    BY <1>2, <1>6 DEF Grouped
  <2> HIDE DEF acc, line, h
  <2>8. run[1].groups = <<>> \o h /\ run[1].open = <<>>
    BY <2>1, <2>2, <2>6 DEF Grow, Halve, Closed, h
  <2>9. <<>> \o h = h
    BY <2>4
  <2>10. Len(h) = 1
    BY <2>4, <2>5 DEF line
  <2>11. Closed(run[1]) = h
    BY <2>8, <2>9 DEF Closed
  <2>12. LineGroups(chunk, budget) = h
    BY <2>7, <2>11
  <2>13. Len(LineGroups(chunk, budget)) = 1
    BY <2>10, <2>12
  <2> QED  BY <2>13
<1>7. ~(Cost(lines) <= budget) => n = 1 /\ lines[1].cost <= 1
  BY DEF Fitting
<1> QED  BY <1>5, <1>6, <1>7

\* A slice is a text of so many lines.
LEMMA SliceOf ==
    ASSUME NEW chunk \in Text, NEW a \in Nat, NEW b \in Nat, a <= b, b <= Len(chunk.lines)
    PROVE  Slice(chunk, a, b) \in Text /\ Len(Slice(chunk, a, b).lines) = b - a
<1>1. chunk.from \in Int /\ chunk.lines \in Seq(Line)
  BY DEF Text
<1>2. SubSeq(chunk.lines, a + 1, b) \in Seq(Line) /\ Len(SubSeq(chunk.lines, a + 1, b)) = b - a
  BY <1>1
<1> QED  BY <1>1, <1>2 DEF Slice, Chunk, Text

BlockOf(b, body) ==
    /\ b.chunk \in Text /\ b.stmt.def \in BOOLEAN
    /\ b.stmt.def => \E i \in DOMAIN body : /\ b.stmt = body[i]
                                            /\ Len(b.chunk.lines) = End(body, i) - End(body, i - 1)

\* The blocks of a text's statements are such blocks.
LEMMA BlocksOf ==
    ASSUME NEW chunk \in Text, NEW body, Statements(body, Len(chunk.lines))
    PROVE  /\ Sequence(Blocks(chunk, body))
           /\ \A i \in DOMAIN Blocks(chunk, body) : BlockOf(Blocks(chunk, body)[i], body)
<1> DEFINE n == Len(body)
           all == Len(chunk.lines)
           first == [i \in 1 .. n |-> [stmt |-> body[i], chunk |-> Slice(chunk, End(body, i - 1), End(body, i))]]
           left == [stmt |-> [def |-> FALSE], chunk |-> Slice(chunk, End(body, n), all)]
           rest == IF End(body, n) = all THEN <<>> ELSE <<left>>
           B == {first[i] : i \in 1 .. n} \cup {rest[i] : i \in DOMAIN rest}
<1>1. n \in Nat /\ DOMAIN body = 1 .. n
  BY DEF Statements
<1>2. all \in Nat
  <2>1. chunk.lines \in Seq(Line)
    BY DEF Text
  <2> QED  BY <2>1
<1>3. \A i \in 1 .. n : body[i].def \in BOOLEAN /\ body[i].last \in 0 .. all /\ End(body, i - 1) <= End(body, i)
  BY <1>1 DEF Statements
<1>4. Blocks(chunk, body) = first \o rest
  BY <1>1 DEF Blocks
<1>5. \A i \in 0 .. n : End(body, i) \in 0 .. all
  BY <1>2, <1>3 DEF End
<1> HIDE DEF all, n
<1>6. ASSUME NEW i \in 1 .. n PROVE BlockOf(first[i], body)
  <2>1. i - 1 \in 0 .. n /\ i \in 0 .. n
    BY <1>1
  <2>2. /\ End(body, i - 1) \in Nat /\ End(body, i) \in Nat
        /\ End(body, i - 1) <= End(body, i) /\ End(body, i) <= all
    BY <1>2, <1>3, <1>5, <2>1
  <2>3. /\ Slice(chunk, End(body, i - 1), End(body, i)) \in Text
        /\ Len(Slice(chunk, End(body, i - 1), End(body, i)).lines) = End(body, i) - End(body, i - 1)
    BY <2>2, SliceOf DEF all
  <2>4. first[i].stmt = body[i] /\ first[i].chunk = Slice(chunk, End(body, i - 1), End(body, i))
    OBVIOUS
  <2> HIDE DEF first
  <2> QED  BY <1>1, <1>3, <2>3, <2>4 DEF BlockOf
<1>7. ASSUME NEW i \in DOMAIN rest PROVE BlockOf(rest[i], body)
  <2>1. rest[i] = left
    <3> HIDE DEF left
    <3> QED  OBVIOUS
  <2>2. End(body, n) \in Nat /\ End(body, n) <= all
    BY <1>1, <1>2, <1>5
  <2>3. Slice(chunk, End(body, n), all) \in Text
    BY <1>2, <2>2, SliceOf DEF all
  <2>4. rest[i].stmt.def = FALSE /\ rest[i].chunk \in Text
    BY <2>1, <2>3
  <2> HIDE DEF rest
  <2> QED  BY <2>4 DEF BlockOf
<1>8. first \in Seq(B) /\ Len(first) = n /\ DOMAIN first = 1 .. n
  <2>1. \A i \in 1 .. n : first[i] \in B
    OBVIOUS
  <2>2. DOMAIN first = 1 .. n /\ first = [i \in 1 .. n |-> first[i]]
    OBVIOUS
  <2> HIDE DEF first, B
  <2> QED  BY <1>1, <2>1, <2>2
<1>9. rest \in Seq(B) /\ Len(rest) \in Nat /\ DOMAIN rest = 1 .. Len(rest)
  <2>1. \A i \in DOMAIN rest : rest[i] \in B
    OBVIOUS
  <2>2. /\ rest = [i \in DOMAIN rest |-> rest[i]] /\ Len(rest) \in Nat /\ DOMAIN rest = 1 .. Len(rest)
    <3> HIDE DEF left
    <3>1. rest \in Seq({left})
      <4>1. rest = <<>> \/ rest = <<left>>
        OBVIOUS
      <4>2. <<>> \in Seq({left}) /\ <<left>> \in Seq({left})
        OBVIOUS
      <4> HIDE DEF rest
      <4> QED  BY <4>1, <4>2
    <3> HIDE DEF rest
    <3> QED  BY <3>1
  <2> HIDE DEF rest, B
  <2> QED  BY <2>1, <2>2
<1>10. \A b \in B : BlockOf(b, body)
  <2> HIDE DEF first, rest
  <2> QED  BY <1>6, <1>7
<1> HIDE DEF first, rest, B
<1>11. first \o rest \in Seq(B)
  BY <1>8, <1>9
<1>12. \A i \in DOMAIN (first \o rest) : (first \o rest)[i] \in B
  BY <1>11
<1> QED  BY <1>4, <1>10, <1>11, <1>12, SequenceOf

\* A unit has a text with statements, and a docstring and a signature that cost something.
UnitOf(unit) ==
    /\ {"name", "chunk", "body", "calls"} \subseteq DOMAIN unit
    /\ unit.chunk \in Text /\ Statements(unit.body, Len(unit.chunk.lines))
    /\ unit.bodyLine \in Nat /\ unit.doc \in Nat /\ unit.signature \in Nat

\* A piece of a unit is one, without a body, that is not cut again.
PieceOf(piece, budget) ==
    /\ UnitOf(piece) /\ piece.body = <<>>
    /\ Fitting(piece.chunk, budget)

\* A leaf of the tree is a unit that fits or that cannot be cut any further.
Settled(unit, header, budget) ==
    /\ UnitOf(unit) /\ header \in Text
    /\ IsAtom(unit, header, budget) \/ Len(SplitUnit(unit, budget)) <= 1

\* The lines in front of a body are lines of the text.
LEMMA SignatureOfLines ==
    ASSUME NEW chunk \in Text, NEW bodyLine \in Int
    PROVE  SignatureOf(chunk, bodyLine) \in Seq(Line)
<1>1. chunk.lines \in Seq(Line) /\ chunk.from \in Int /\ Len(chunk.lines) \in Nat
  <2>1. chunk.lines \in Seq(Line) /\ chunk.from \in Int
    BY DEF Text
  <2> QED  BY <2>1
<1> DEFINE end == IF bodyLine - chunk.from > 1 THEN bodyLine - chunk.from ELSE 1
<1>2. end \in Int /\ end >= 1
  BY <1>1
<1>3. SignatureOf(chunk, bodyLine) = IF end <= Len(chunk.lines) THEN SubSeq(chunk.lines, 1, end) ELSE chunk.lines
  BY DEF SignatureOf
<1> HIDE DEF end
<1>4. end <= Len(chunk.lines) => SubSeq(chunk.lines, 1, end) \in Seq(Line)
  <2> SUFFICES ASSUME end <= Len(chunk.lines) PROVE SubSeq(chunk.lines, 1, end) \in Seq(Line)
    OBVIOUS
  <2> DEFINE lines == chunk.lines
  <2>1. lines \in Seq(Line) /\ Len(lines) \in Nat /\ end \in 1 .. Len(lines)
    BY <1>1, <1>2
  <2> HIDE DEF lines
  <2>2. \A i \in 1 .. end : lines[i] \in Line
    BY <2>1
  <2>3. SubSeq(lines, 1, end) \in Seq(Line)
    BY <2>1, <2>2
  <2> QED  BY <2>3 DEF lines
<1> QED  BY <1>1, <1>3, <1>4

\* A unit that is given another name and text, without a body, is one.
LEMMA Rewritten ==
    ASSUME NEW unit, UnitOf(unit), NEW piece, DOMAIN piece = DOMAIN unit,
           piece.chunk \in Text, piece.body = <<>>,
           piece.bodyLine = unit.bodyLine, piece.doc = unit.doc, piece.signature = unit.signature
    PROVE  UnitOf(piece)
<1>1. Statements(<<>>, Len(piece.chunk.lines))
  BY DEF Statements, ToSet
<1> QED  BY <1>1 DEF UnitOf

\* The pieces that a text of a unit is cut into by lines.
LEMMA WrappedOf ==
    ASSUME NEW unit, UnitOf(unit), NEW chunk \in Text, NEW budget \in Nat
    PROVE  /\ Sequence(WrapAsUnits(unit, LineGroups(chunk, budget)))
           /\ Len(WrapAsUnits(unit, LineGroups(chunk, budget))) = Len(LineGroups(chunk, budget))
           /\ \A i \in DOMAIN WrapAsUnits(unit, LineGroups(chunk, budget)) :
                 PieceOf(WrapAsUnits(unit, LineGroups(chunk, budget))[i], budget)
<1> DEFINE groups == LineGroups(chunk, budget)
           wrapped == WrapAsUnits(unit, groups)
<1>1. groups \in Seq(Text) /\ \A i \in 1 .. Len(groups) : Fitting(groups[i], budget)
  BY LineGroupsOf, GroupsFit
<1> HIDE DEF groups
<1>2. Len(groups) \in Nat /\ DOMAIN groups = 1 .. Len(groups)
  BY <1>1
<1>3. /\ DOMAIN wrapped = 1 .. Len(groups) /\ wrapped = [i \in 1 .. Len(groups) |-> wrapped[i]]
      /\ \A i \in 1 .. Len(groups) :
            wrapped[i] = [unit EXCEPT !.name = Append(@, i), !.chunk = groups[i], !.body = <<>>]
  BY <1>2 DEF WrapAsUnits
<1> HIDE DEF wrapped
<1>4. ASSUME NEW i \in 1 .. Len(groups) PROVE PieceOf(wrapped[i], budget)
  <2> DEFINE piece == wrapped[i]
             chunk2 == groups[i]
             name == Append(unit.name, i)
  <2>1. piece = [unit EXCEPT !.name = name, !.chunk = chunk2, !.body = <<>>]
    BY <1>3
  <2>2. chunk2 \in Text /\ Fitting(chunk2, budget)
    BY <1>1
  <2> HIDE DEF piece, chunk2, name
  <2>3. /\ piece.chunk = chunk2 /\ piece.body = <<>> /\ DOMAIN piece = DOMAIN unit
        /\ piece.bodyLine = unit.bodyLine /\ piece.doc = unit.doc /\ piece.signature = unit.signature
    BY <2>1 DEF UnitOf
  <2>4. UnitOf(piece)
    BY <2>2, <2>3, Rewritten
  <2>5. PieceOf(piece, budget)
    BY <2>2, <2>3, <2>4 DEF PieceOf
  <2> QED  BY <2>5 DEF piece
<1>5. Sequence(wrapped) /\ Len(wrapped) = Len(groups)
  BY <1>2, <1>3, FunctionSequence
<1> QED  BY <1>3, <1>4, <1>5 DEF wrapped, groups

\* A piece is not cut again.
LEMMA SplitOnce ==
    ASSUME NEW piece, NEW budget \in Nat, PieceOf(piece, budget)
    PROVE  Len(SplitUnit(piece, budget)) <= 1
<1>1. SplitUnit(piece, budget) = WrapAsUnits(piece, LineGroups(piece.chunk, budget))
  BY DEF SplitUnit, PieceOf
<1>2. UnitOf(piece) /\ piece.chunk \in Text /\ Fitting(piece.chunk, budget)
  BY DEF PieceOf, UnitOf
<1>3. Len(SplitUnit(piece, budget)) = Len(LineGroups(piece.chunk, budget))
  BY <1>1, <1>2, WrappedOf
<1>4. Len(LineGroups(piece.chunk, budget)) <= 1
  BY <1>2, FittingOnce
<1> QED  BY <1>3, <1>4

\* The definitions among the blocks are definitions.
LEMMA DefinitionsOf ==
    ASSUME NEW blocks, Sequence(blocks)
    PROVE  /\ Sequence(Definitions(blocks))
           /\ \A k \in DOMAIN Definitions(blocks) : \E i \in DOMAIN blocks :
                 blocks[i].stmt.def /\ Definitions(blocks)[k] = blocks[i]
<1> DEFINE I == {i \in DOMAIN blocks : blocks[i].stmt.def}
<1>1. blocks \in Seq(ToSet(blocks)) /\ DOMAIN blocks = 1 .. Len(blocks)
  BY DEF Sequence
<1>2. Definitions(blocks) = Picked(blocks, I) /\ I \in SUBSET (1 .. Len(blocks))
  BY <1>1 DEF Definitions
<1> HIDE DEF I
<1>3. /\ Picked(blocks, I) \in Seq(ToSet(blocks))
      /\ \A k \in 1 .. Len(Picked(blocks, I)) : \E i \in I : Picked(blocks, I)[k] = blocks[i]
  BY <1>1, <1>2, PickedOf
<1>4. Sequence(Picked(blocks, I)) /\ DOMAIN Picked(blocks, I) = 1 .. Len(Picked(blocks, I))
  BY <1>3, SequenceOf, DomainSequence
<1> QED  BY <1>2, <1>3, <1>4 DEF I

\* A unit is cut into pieces, by methods or by lines.
LEMMA SplitUnitOf ==
    ASSUME NEW unit, UnitOf(unit), NEW budget \in Nat
    PROVE  /\ Sequence(SplitUnit(unit, budget))
           /\ \A i \in DOMAIN SplitUnit(unit, budget) : PieceOf(SplitUnit(unit, budget)[i], budget)
<1> DEFINE byLines == WrapAsUnits(unit, LineGroups(unit.chunk, budget))
           prefix  == SignatureOf(unit.chunk, unit.bodyLine) \o <<[no |-> 0, cost |-> unit.doc]>>
           Piece(block) ==
               [unit EXCEPT !.name = Append(@, block.stmt.name), !.body = <<>>, !.calls = block.stmt.calls,
                            !.chunk = [block.chunk EXCEPT !.lines = prefix \o @]]
           Pieces(block) ==
               IF Cost(Piece(block).chunk.lines) > budget
               THEN WrapAsUnits(Piece(block), LineGroups(block.chunk, budget))
               ELSE <<Piece(block)>>
           blocks  == Blocks(unit.chunk, unit.body)
           methods == Definitions(blocks)
           lists   == [i \in DOMAIN methods |-> Pieces(methods[i])]
           pieces  == FlattenSeq(lists)
           Cut(s)  == Sequence(s) /\ \A i \in DOMAIN s : PieceOf(s[i], budget)
<1>1. SplitUnit(unit, budget) = IF unit.body # <<>> /\ pieces # <<>> THEN pieces ELSE byLines
  BY DEF SplitUnit
<1>2. unit.chunk \in Text
  BY DEF UnitOf
<1>3. Cut(byLines)
  BY <1>2, WrappedOf
<1> HIDE DEF byLines
<1>4. Sequence(blocks) /\ \A i \in DOMAIN blocks : blocks[i].chunk \in Text
  BY BlocksOf DEF UnitOf, BlockOf
<1> HIDE DEF blocks
<1>5. Sequence(methods) /\ \A k \in DOMAIN methods : methods[k].chunk \in Text
  BY <1>4, DefinitionsOf
<1>6. prefix \in Seq(Line)
  <2> DEFINE signature == SignatureOf(unit.chunk, unit.bodyLine)
             line == [no |-> 0, cost |-> unit.doc]
  <2>1. signature \in Seq(Line)
    BY <1>2, SignatureOfLines DEF UnitOf
  <2>2. line \in Line
    BY DEF UnitOf, Line
  <2> HIDE DEF signature, line
  <2>3. signature \o <<line>> \in Seq(Line)
    BY <2>1, <2>2
  <2> QED  BY <2>3 DEF signature, line
<1> HIDE DEF methods, prefix
<1>7. ASSUME NEW k \in DOMAIN methods PROVE UnitOf(Piece(methods[k]))
  <2> DEFINE block == methods[k]
             name == Append(unit.name, block.stmt.name)
             text == [block.chunk EXCEPT !.lines = prefix \o block.chunk.lines]
             calls == block.stmt.calls
             piece == Piece(block)
  <2>1. piece = [unit EXCEPT !.name = name, !.body = <<>>, !.calls = calls, !.chunk = text]
    OBVIOUS
  <2>2. text \in Text
    <3> DEFINE chunk == block.chunk
               lines == prefix \o chunk.lines
    <3>1. chunk \in [from : Int, to : Int, lines : Seq(Line)]
      BY <1>5 DEF Text
    <3> HIDE DEF chunk
    <3>2. lines \in Seq(Line)
      BY <1>6, <3>1
    <3> HIDE DEF lines
    <3>3. [chunk EXCEPT !.lines = lines] \in Text
      BY <3>1, <3>2 DEF Text
    <3> QED  BY <3>3 DEF chunk, lines
  <2> HIDE DEF piece, name, text, calls
  <2>3. /\ piece.chunk = text /\ piece.body = <<>> /\ DOMAIN piece = DOMAIN unit
        /\ piece.bodyLine = unit.bodyLine /\ piece.doc = unit.doc /\ piece.signature = unit.signature
    BY <2>1 DEF UnitOf
  <2>4. UnitOf(piece)
    BY <2>2, <2>3, Rewritten
  <2> QED  BY <2>4 DEF piece
<1>8. ASSUME NEW k \in DOMAIN methods PROVE Piece(methods[k]).body = <<>>
  BY DEF UnitOf
<1> HIDE DEF Piece
<1>9. ASSUME NEW k \in DOMAIN methods PROVE Cut(Pieces(methods[k]))
  <2> DEFINE piece == Piece(methods[k])
             wrapped == WrapAsUnits(piece, LineGroups(methods[k].chunk, budget))
  <2>1. Cut(wrapped)
    BY <1>5, <1>7, WrappedOf
  <2>2. Cost(piece.chunk.lines) <= budget => Cut(<<piece>>)
    <3> SUFFICES ASSUME Cost(piece.chunk.lines) <= budget PROVE Cut(<<piece>>)
      OBVIOUS
    <3>1. PieceOf(piece, budget)
      BY <1>7, <1>8 DEF PieceOf, Fitting
    <3> HIDE DEF piece
    <3>2. <<piece>> \in Seq({piece}) /\ \A i \in DOMAIN <<piece>> : <<piece>>[i] = piece
      OBVIOUS
    <3>3. Sequence(<<piece>>)
      BY <3>2, SequenceOf
    <3> QED  BY <3>1, <3>2, <3>3
  <2>3. Pieces(methods[k]) = IF Cost(piece.chunk.lines) > budget THEN wrapped ELSE <<piece>>
    OBVIOUS
  <2>4. Cost(piece.chunk.lines) > budget \/ Cost(piece.chunk.lines) <= budget
    <3>1. Cost(piece.chunk.lines) \in Nat
      <4>1. piece.chunk \in Text
        BY <1>7 DEF UnitOf
      <4> HIDE DEF piece
      <4>2. piece.chunk.lines \in Seq(Line)
        BY <4>1 DEF Text
      <4> QED  BY <4>2, CostType
    <3> HIDE DEF piece
    <3> QED  BY <3>1
  <2> HIDE DEF piece, wrapped, Pieces, Cut
  <2>5. CASE Cost(piece.chunk.lines) > budget
    BY <2>1, <2>3, <2>5
  <2>6. CASE ~(Cost(piece.chunk.lines) > budget)
    BY <2>2, <2>3, <2>4, <2>6
  <2> QED  BY <2>5, <2>6
<1> HIDE DEF Pieces
<1>10. Sequence(lists) /\ \A k \in DOMAIN lists : Cut(lists[k])
  <2>1. Len(methods) \in Nat /\ DOMAIN methods = 1 .. Len(methods)
    BY <1>5, DomainSequence
  <2> HIDE DEF Cut
  <2>2. DOMAIN lists = 1 .. Len(methods) /\ lists = [i \in 1 .. Len(methods) |-> lists[i]]
        /\ \A k \in DOMAIN lists : Cut(lists[k])
    BY <1>9, <2>1
  <2> HIDE DEF lists
  <2> QED  BY <2>1, <2>2, FunctionSequence
<1> HIDE DEF lists
<1>11. Sequence(pieces) /\ InOrderOf(pieces, lists, Len(lists))
  BY <1>10, FlattenSequence
<1>12. DOMAIN lists = 1 .. Len(lists)
  BY <1>10, DomainSequence
<1>13. \A i \in DOMAIN pieces : PieceOf(pieces[i], budget)
  <2> SUFFICES ASSUME NEW i \in DOMAIN pieces PROVE PieceOf(pieces[i], budget)
    OBVIOUS
  <2>1. PICK b \in 1 .. Len(lists) : Follows(pieces, i, lists, b)
    BY <1>11 DEF InOrderOf
  <2>2. PICK o \in DOMAIN lists[b] : pieces[i] = lists[b][o]
    BY <2>1 DEF Follows
  <2> QED  BY <1>10, <1>12, <2>2
<1> HIDE DEF pieces
<1>14. Cut(pieces)
  BY <1>11, <1>13
<1>15. SplitUnit(unit, budget) = pieces \/ SplitUnit(unit, budget) = byLines
  BY <1>1
<1> QED  BY <1>3, <1>14, <1>15

\* So are the leaves below a unit, of which none is cut again.
LEMMA LeavesOf ==
    ASSUME NEW unit, UnitOf(unit), NEW header \in Text, NEW budget \in Nat
    PROVE  /\ Sequence(Leaves(unit, header, budget))
           /\ \A i \in DOMAIN Leaves(unit, header, budget) :
                 Settled(Leaves(unit, header, budget)[i], header, budget)
<1> DEFINE pieces == SplitUnit(unit, budget)
<1>1. Sequence(<<unit>>) /\ \A i \in DOMAIN <<unit>> : <<unit>>[i] = unit
  <2>1. <<unit>> \in Seq({unit}) /\ \A i \in DOMAIN <<unit>> : <<unit>>[i] = unit
    OBVIOUS
  <2> QED  BY <2>1, SequenceOf
<1>2. Sequence(pieces) /\ \A i \in DOMAIN pieces : PieceOf(pieces[i], budget)
  BY SplitUnitOf
<1>3. \A i \in DOMAIN pieces : Settled(pieces[i], header, budget)
  <2> TAKE i \in DOMAIN pieces
  <2> DEFINE piece == pieces[i]
  <2>1. PieceOf(piece, budget)
    BY <1>2
  <2> HIDE DEF piece
  <2>2. Len(SplitUnit(piece, budget)) <= 1
    BY <2>1, SplitOnce
  <2>3. Settled(piece, header, budget)
    BY <2>1, <2>2 DEF PieceOf, Settled
  <2> QED  BY <2>3 DEF piece
<1>4. IsAtom(unit, header, budget) \/ Len(pieces) <= 1 => Settled(unit, header, budget)
  BY DEF Settled
<1>5. Leaves(unit, header, budget) = IF IsAtom(unit, header, budget) \/ Len(pieces) <= 1 THEN <<unit>> ELSE pieces
  BY DEF Leaves
<1> HIDE DEF pieces
<1>6. CASE IsAtom(unit, header, budget) \/ Len(pieces) <= 1
  <2>1. Leaves(unit, header, budget) = <<unit>>
    BY <1>5, <1>6
  <2> QED  BY <1>1, <1>4, <1>6, <2>1
<1>7. CASE ~(IsAtom(unit, header, budget) \/ Len(pieces) <= 1)
  <2>1. Leaves(unit, header, budget) = pieces
    BY <1>5, <1>7
  <2> QED  BY <1>2, <1>3, <2>1
<1> QED  BY <1>6, <1>7

\* The units of a file that is source.
LEMMA FileUnitsOf ==
    ASSUME NEW file, Source(file)
    PROVE  /\ FileUnits(file).header \in Text
           /\ Sequence(FileUnits(file).units)
           /\ \A i \in DOMAIN FileUnits(file).units : UnitOf(FileUnits(file).units[i])
<1> DEFINE whole  == Chunk(1, Len(file.lines), file.lines)
           blocks == IF file.parses THEN Blocks(whole, file.body) ELSE <<>>
           I      == {i \in DOMAIN blocks : ~blocks[i].stmt.def /\ ~Blank(blocks[i].chunk.lines)}
           kept   == Picked(blocks, I)
           texts  == [i \in DOMAIN kept |-> kept[i].chunk.lines]
           header == IF kept = <<>> THEN NoChunk
                     ELSE Chunk(kept[1].chunk.from, kept[Len(kept)].chunk.to, FlattenSeq(texts))
           defs   == Definitions(blocks)
           text   == IF header # NoChunk THEN header ELSE whole
           some   == [i \in DOMAIN defs |-> MakeUnit(file.path, defs[i])]
           one    == [path |-> file.path, name |-> <<file.name>>, chunk |-> text, body |-> <<>>,
                      bodyLine |-> 0, calls |-> {}, signature |-> 0, doc |-> 0]
           units  == FileUnits(file).units
<1>1. units = some \/ units = <<>> \/ units = <<one>>
  BY DEF FileUnits
<1>a. FileUnits(file).header = header \/ FileUnits(file).header = NoChunk
  BY DEF FileUnits
<1>b. NoChunk \in Text
  <2>1. <<>> \in Seq(Line)
    OBVIOUS
  <2> QED  BY <2>1 DEF NoChunk, Chunk, Text
<1>2. whole \in Text /\ whole.lines = file.lines
  <2>1. file.lines \in Seq(Line)
    BY DEF Source
  <2>2. Len(file.lines) \in Int
    BY <2>1
  <2> QED  BY <2>1, <2>2 DEF Chunk, Text
<1> HIDE DEF whole
<1>3. Sequence(blocks) /\ \A i \in DOMAIN blocks : file.parses /\ BlockOf(blocks[i], file.body)
  <2>1. CASE file.parses
    <3>1. Statements(file.body, Len(whole.lines))
      BY <1>2, <2>1 DEF Source
    <3> QED  BY <1>2, <2>1, <3>1, BlocksOf
  <2>2. CASE ~ file.parses
    <3>1. blocks = <<>>
      BY <2>2
    <3> HIDE DEF blocks
    <3> QED  BY <3>1, EmptySequence
  <2>3. file.parses \in BOOLEAN
    BY DEF Source
  <2> QED  BY <2>1, <2>2, <2>3
<1> HIDE DEF blocks
<1>4. Sequence(kept) /\ \A k \in DOMAIN kept : kept[k].chunk \in Text
  <2>1. blocks \in Seq(ToSet(blocks)) /\ DOMAIN blocks = 1 .. Len(blocks)
    BY <1>3 DEF Sequence
  <2>2. I \in SUBSET (1 .. Len(blocks))
    BY <2>1
  <2> HIDE DEF I
  <2>3. /\ kept \in Seq(ToSet(blocks))
        /\ \A k \in 1 .. Len(kept) : \E i \in I : kept[k] = blocks[i]
    BY <2>1, <2>2, PickedOf
  <2>4. Sequence(kept) /\ DOMAIN kept = 1 .. Len(kept)
    BY <2>3, SequenceOf, DomainSequence
  <2> QED  BY <1>3, <2>1, <2>2, <2>3, <2>4 DEF BlockOf
<1> HIDE DEF kept
<1>5. header \in Text
  <2>1. CASE kept = <<>>
    <3>1. <<>> \in Seq(Line)
      OBVIOUS
    <3> QED  BY <2>1, <3>1 DEF NoChunk, Chunk, Text
  <2>2. CASE kept # <<>>
    <3>1. Len(kept) \in Nat /\ DOMAIN kept = 1 .. Len(kept) /\ Len(kept) # 0
      BY <1>4, <2>2 DEF Sequence
    <3>2. kept[1].chunk.from \in Int /\ kept[Len(kept)].chunk.to \in Int
      <4>1. kept[1].chunk \in Text /\ kept[Len(kept)].chunk \in Text
        BY <1>4, <3>1
      <4> QED  BY <4>1 DEF Text
    <3>3. texts \in Seq(Seq(Line))
      <4>1. \A k \in 1 .. Len(kept) : kept[k].chunk.lines \in Seq(Line)
        BY <1>4, <3>1 DEF Text
      <4> QED  BY <3>1, <4>1
    <3> HIDE DEF texts
    <3>4. FlattenSeq(texts) \in Seq(Line)
      BY <3>3, FlattenSeqOf
    <3> QED  BY <2>2, <3>2, <3>4 DEF Chunk, Text
  <2> QED  BY <2>1, <2>2
<1> HIDE DEF header
<1>6. text \in Text
  BY <1>2, <1>5
<1> HIDE DEF text
<1>7. UnitOf(one) /\ Sequence(<<one>>) /\ \A i \in DOMAIN <<one>> : <<one>>[i] = one
  <2>1. /\ one.chunk = text /\ one.body = <<>> /\ {"name", "chunk", "body", "calls"} \subseteq DOMAIN one
        /\ one.bodyLine \in Nat /\ one.doc \in Nat /\ one.signature \in Nat
    OBVIOUS
  <2> HIDE DEF one
  <2>2. Statements(<<>>, Len(text.lines))
    BY DEF Statements, ToSet
  <2>3. <<one>> \in Seq({one}) /\ \A i \in DOMAIN <<one>> : <<one>>[i] = one
    OBVIOUS
  <2>4. Sequence(<<one>>)
    BY <2>3, SequenceOf
  <2> QED  BY <1>6, <2>1, <2>2, <2>3, <2>4 DEF UnitOf
<1>8. Sequence(<<>>) /\ DOMAIN <<>> = {}
  BY EmptySequence
<1>9. Sequence(defs) /\ \A k \in DOMAIN defs : \E i \in DOMAIN blocks : blocks[i].stmt.def /\ defs[k] = blocks[i]
  BY <1>3, DefinitionsOf
<1> HIDE DEF defs
<1>10. ASSUME NEW k \in DOMAIN defs PROVE UnitOf(MakeUnit(file.path, defs[k]))
  <2> DEFINE unit == MakeUnit(file.path, defs[k])
  <2>1. PICK i \in DOMAIN blocks : blocks[i].stmt.def /\ defs[k] = blocks[i]
    BY <1>9
  <2>2. file.parses /\ defs[k].stmt.def /\ BlockOf(defs[k], file.body)
    BY <1>3, <2>1
  <2>3. PICK j \in DOMAIN file.body : /\ defs[k].stmt = file.body[j]
                                      /\ Len(defs[k].chunk.lines) = End(file.body, j) - End(file.body, j - 1)
    BY <2>2 DEF BlockOf
  <2>4. /\ Statements(defs[k].stmt.body, Len(defs[k].chunk.lines))
        /\ defs[k].stmt.bodyLine \in Nat /\ defs[k].stmt.doc \in Nat
    BY <2>2, <2>3 DEF Source
  <2> DEFINE front == SignatureOf(defs[k].chunk, defs[k].chunk.from + defs[k].stmt.bodyLine - 1)
  <2>5. /\ unit.chunk = defs[k].chunk /\ unit.body = defs[k].stmt.body
        /\ unit.bodyLine = defs[k].stmt.bodyLine /\ unit.doc = defs[k].stmt.doc
        /\ unit.signature = Cost(front) + defs[k].stmt.doc
        /\ {"name", "chunk", "body", "calls"} \subseteq DOMAIN unit
    BY DEF MakeUnit
  <2>7. Cost(front) \in Nat
    <3>1. defs[k].chunk \in Text
      BY <2>2 DEF BlockOf
    <3>2. defs[k].chunk.from + defs[k].stmt.bodyLine - 1 \in Int
      BY <2>4, <3>1 DEF Text
    <3>3. front \in Seq(Line)
      BY <3>1, <3>2, SignatureOfLines
    <3> HIDE DEF front
    <3> QED  BY <3>3, CostType
  <2> HIDE DEF unit, front
  <2>8. unit.signature \in Nat
    BY <2>4, <2>5, <2>7
  <2>6. UnitOf(unit)
    BY <2>2, <2>4, <2>5, <2>8 DEF UnitOf, BlockOf
  <2> QED  BY <2>6 DEF unit
<1>11. Sequence(some) /\ \A k \in DOMAIN some : UnitOf(some[k])
  <2>1. Len(defs) \in Nat /\ DOMAIN defs = 1 .. Len(defs)
    BY <1>9, DomainSequence
  <2>2. DOMAIN some = 1 .. Len(defs) /\ some = [i \in 1 .. Len(defs) |-> some[i]]
        /\ \A k \in DOMAIN some : UnitOf(some[k])
    BY <1>10, <2>1
  <2> HIDE DEF some
  <2> QED  BY <2>1, <2>2, FunctionSequence
<1>12. FileUnits(file).header \in Text
  BY <1>5, <1>a, <1>b
<1> HIDE DEF some, one, units
<1> QED  BY <1>1, <1>7, <1>8, <1>11, <1>12 DEF units

-----------------------------------------------------------------------------
(* Where the text goes.                                                    *)

\* What a line adds to the share of a number, and the shares of the first lines.
Part(line, no) == IF line.no = no THEN line.cost ELSE 0

Shares(f, lines, no) ==
    /\ f \in [0 .. Len(lines) -> Nat] /\ f[0] = 0
    /\ \A i \in 1 .. Len(lines) : f[i] = f[i - 1] + Part(lines[i], no)
    /\ Share(lines, no) = f[Len(lines)]

\* There are such shares.
LEMMA ShareRun ==
    ASSUME NEW lines \in Seq(Line), NEW no
    PROVE  \E f : Shares(f, lines, no)
<1> DEFINE n == Len(lines)
           Add(sum, line) == IF line.no = no THEN sum + line.cost ELSE sum
           step == [i \in 1 .. n |-> [sum \in Nat |-> Add(sum, lines[i])]]
           Rec(f) == f = [i \in 0 .. n |-> IF i = 0 THEN 0
                                           ELSE LET acc == f[i - 1] IN Add(acc, lines[i])]
           upTo == CHOOSE f : Rec(f)
<1>1. n \in Nat /\ \A i \in 1 .. n : lines[i].cost \in Nat
  <2>1. \A i \in 1 .. n : lines[i] \in Line
    OBVIOUS
  <2>2. \A line \in Line : line.cost \in Nat
    BY DEF Line
  <2> QED  BY <2>1, <2>2
<1>2. Share(lines, no) = upTo[n]
  BY DEF Share, Scan
<1>3. \A sum \in Nat : \A i \in 1 .. n : Add(sum, lines[i]) = sum + Part(lines[i], no) /\ Add(sum, lines[i]) \in Nat
  BY <1>1 DEF Part
<1> HIDE DEF Add
<1>4. step \in Moves(n, Nat) /\ \A i \in 1 .. n : \A x \in Nat : step[i][x] = Add(x, lines[i])
  BY <1>3 DEF Moves
<1> HIDE DEF n, step
<1>5. Runs(n, Nat, 0, step) # {}
  BY <1>1, <1>4, Iterates
<1>6. PICK f \in [0 .. n -> Nat] : f[0] = 0 /\ \A i \in 1 .. n : f[i] = step[i][f[i - 1]]
  BY <1>5 DEF Runs
<1>7. \A i \in 1 .. n : f[i] = Add(f[i - 1], lines[i]) /\ f[i] = f[i - 1] + Part(lines[i], no)
  <2> TAKE i \in 1 .. n
  <2>1. i - 1 \in 0 .. n
    BY <1>1
  <2>2. f[i - 1] \in Nat /\ f[i] = step[i][f[i - 1]]
    BY <1>6, <2>1
  <2>3. f[i] = Add(f[i - 1], lines[i])
    BY <1>4, <2>2
  <2> QED  BY <1>3, <2>2, <2>3
<1>8. Rec(f)
  BY <1>1, <1>6, <1>7
<1>9. Rec(upTo)
  <2> HIDE DEF Rec
  <2> QED  BY <1>8
<1> HIDE DEF upTo
<1>10. upTo[0] = 0 /\ \A i \in 1 .. n : upTo[i] = Add(upTo[i - 1], lines[i])
  <2> DEFINE h(i) == IF i = 0 THEN 0 ELSE Add(upTo[i - 1], lines[i])
  <2>1. upTo = [i \in 0 .. n |-> h(i)]
    BY <1>9
  <2>2. \A i \in 0 .. n : upTo[i] = h(i)
    <3> HIDE DEF h, Rec
    <3> QED  BY <2>1
  <2>3. 0 \in 0 .. n /\ \A i \in 1 .. n : i \in 0 .. n /\ i # 0
    BY <1>1
  <2> QED  BY <2>2, <2>3
<1> HIDE DEF Rec
<1> DEFINE T == {i \in 0 .. n : upTo[i] = f[i]}
<1>11. 0 \in T
  BY <1>1, <1>6, <1>10
<1>12. ASSUME NEW m \in 0 .. n, m \in T, m < n PROVE m + 1 \in T
  <2>1. m + 1 \in 1 .. n /\ m + 1 \in 0 .. n /\ (m + 1) - 1 = m
    BY <1>1, <1>12
  <2>2. upTo[m + 1] = Add(upTo[m], lines[m + 1]) /\ f[m + 1] = Add(f[m], lines[m + 1])
    BY <1>7, <1>10, <2>1
  <2> QED  BY <1>12, <2>1, <2>2
<1>13. upTo[n] = f[n]
  <2>1. \A i \in 0 .. n : i \in T
    <3> HIDE DEF T
    <3> QED  BY <1>1, <1>11, <1>12, Climb
  <2> QED  BY <1>1, <2>1
<1>14. Shares(f, lines, no)
  BY <1>2, <1>6, <1>7, <1>13 DEF Shares, n
<1> QED  BY <1>14

\* The share is a natural number.
LEMMA ShareType ==
    ASSUME NEW lines \in Seq(Line), NEW no
    PROVE  Share(lines, no) \in Nat
<1>1. PICK f : Shares(f, lines, no)
  BY ShareRun
<1>2. Len(lines) \in 0 .. Len(lines)
  OBVIOUS
<1> QED  BY <1>1, <1>2 DEF Shares

\* No lines have nothing of it.
LEMMA ShareNone ==
    ASSUME NEW no
    PROVE  Share(<<>>, no) = 0
<1>1. <<>> \in Seq(Line) /\ Len(<<>>) = 0
  OBVIOUS
<1>2. PICK f : Shares(f, <<>>, no)
  BY <1>1, ShareRun
<1> QED  BY <1>1, <1>2 DEF Shares

\* One line has its part.
LEMMA ShareOne ==
    ASSUME NEW line \in Line, NEW no
    PROVE  Share(<<line>>, no) = Part(line, no)
<1>1. <<line>> \in Seq(Line) /\ Len(<<line>>) = 1 /\ <<line>>[1] = line
  OBVIOUS
<1>2. PICK f : Shares(f, <<line>>, no)
  BY <1>1, ShareRun
<1>3. Part(line, no) \in Nat
  BY DEF Part, Line
<1>4. f[1] = f[1 - 1] + Part(<<line>>[1], no) /\ f[1 - 1] = 0
  BY <1>1, <1>2 DEF Shares
<1> QED  BY <1>1, <1>2, <1>3, <1>4 DEF Shares

\* What is put together has what both have.
LEMMA ShareJoin ==
    ASSUME NEW lines \in Seq(Line), NEW more \in Seq(Line), NEW no
    PROVE  Share(lines \o more, no) = Share(lines, no) + Share(more, no)
<1> DEFINE n == Len(lines)
           m == Len(more)
           all == lines \o more
<1>1. /\ n \in Nat /\ m \in Nat /\ all \in Seq(Line) /\ Len(all) = n + m
  OBVIOUS
<1>a. /\ \A i \in 1 .. n : all[i] = lines[i] /\ lines[i] \in Line
      /\ \A i \in 1 .. m : all[n + i] = more[i] /\ more[i] \in Line
  OBVIOUS
<1>b. \A line \in Line : Part(line, no) \in Nat
  BY DEF Part, Line
<1>2. PICK f : Shares(f, lines, no)
  BY ShareRun
<1>3. PICK g : Shares(g, more, no)
  BY ShareRun
<1> HIDE DEF all
<1>4. PICK h : Shares(h, all, no)
  BY <1>1, ShareRun
<1>5. /\ f \in [0 .. n -> Nat] /\ f[0] = 0 /\ \A i \in 1 .. n : f[i] = f[i - 1] + Part(lines[i], no)
      /\ Share(lines, no) = f[n]
  BY <1>2 DEF Shares
<1>6. /\ g \in [0 .. m -> Nat] /\ g[0] = 0 /\ \A i \in 1 .. m : g[i] = g[i - 1] + Part(more[i], no)
      /\ Share(more, no) = g[m]
  BY <1>3 DEF Shares
<1>7. /\ h \in [0 .. n + m -> Nat] /\ h[0] = 0 /\ \A i \in 1 .. n + m : h[i] = h[i - 1] + Part(all[i], no)
      /\ Share(all, no) = h[n + m]
  BY <1>1, <1>4 DEF Shares
<1> HIDE DEF n, m
<1> DEFINE T == {i \in 0 .. n : h[i] = f[i]}
<1>8. 0 \in T
  BY <1>1, <1>5, <1>7
<1>9. ASSUME NEW i \in 0 .. n, i \in T, i < n PROVE i + 1 \in T
  <2>1. i + 1 \in 1 .. n /\ i + 1 \in 1 .. n + m /\ i + 1 \in 0 .. n /\ (i + 1) - 1 = i
    BY <1>1, <1>9
  <2>2. h[i + 1] = h[i] + Part(all[i + 1], no) /\ f[i + 1] = f[i] + Part(lines[i + 1], no) /\ all[i + 1] = lines[i + 1]
    BY <1>5, <1>7, <1>a, <2>1
  <2> QED  BY <1>9, <2>1, <2>2
<1>10. h[n] = f[n]
  <2>1. \A i \in 0 .. n : i \in T
    <3> HIDE DEF T
    <3> QED  BY <1>1, <1>8, <1>9, Climb
  <2> QED  BY <1>1, <2>1
<1> HIDE DEF T
<1>11. f[n] \in Nat
  BY <1>1, <1>5
<1> DEFINE U == {j \in 0 .. m : h[n + j] = f[n] + g[j]}
<1>12. 0 \in U
  BY <1>1, <1>6, <1>10, <1>11
<1>13. ASSUME NEW j \in 0 .. m, j \in U, j < m PROVE j + 1 \in U
  <2>1. /\ j + 1 \in 1 .. m /\ j + 1 \in 0 .. m /\ n + (j + 1) \in 1 .. n + m
        /\ (j + 1) - 1 = j /\ (n + (j + 1)) - 1 = n + j
    BY <1>1, <1>13
  <2>2. h[n + (j + 1)] = h[n + j] + Part(all[n + (j + 1)], no) /\ g[j + 1] = g[j] + Part(more[j + 1], no)
    BY <1>6, <1>7, <2>1
  <2>3. all[n + (j + 1)] = more[j + 1] /\ Part(more[j + 1], no) \in Nat /\ g[j] \in Nat
    BY <1>6, <1>a, <1>b, <2>1
  <2>4. h[n + j] = f[n] + g[j]
    BY <1>13
  <2>5. h[n + (j + 1)] = f[n] + g[j + 1]
    BY <1>11, <2>2, <2>3, <2>4
  <2> QED  BY <2>1, <2>5
<1>14. h[n + m] = f[n] + g[m]
  <2>1. \A j \in 0 .. m : j \in U
    <3> HIDE DEF U
    <3> QED  BY <1>1, <1>12, <1>13, Climb
  <2>2. m \in 0 .. m
    BY <1>1
  <2> QED  BY <2>1, <2>2
<1> QED  BY <1>5, <1>6, <1>7, <1>14 DEF all

\* Of lines with different numbers, each is the share of its own.
LEMMA ShareOwn ==
    ASSUME NEW lines \in Seq(Line),
           \A i, j \in 1 .. Len(lines) : lines[i].no = lines[j].no => i = j,
           NEW k \in 1 .. Len(lines)
    PROVE  Share(lines, lines[k].no) = lines[k].cost
<1> DEFINE n == Len(lines)
           no == lines[k].no
           cost == lines[k].cost
<1>1. n \in Nat /\ k \in Nat /\ k \in 1 .. n
  OBVIOUS
<1>2. \A i \in 1 .. n : Part(lines[i], no) = IF i = k THEN cost ELSE 0
  BY DEF Part
<1>3. cost \in Nat
  <2>1. lines[k] \in Line
    OBVIOUS
  <2> QED  BY <2>1 DEF Line
<1>4. PICK f : Shares(f, lines, no)
  BY ShareRun
<1>5. /\ f[0] = 0 /\ \A i \in 1 .. n : f[i] = f[i - 1] + Part(lines[i], no)
      /\ Share(lines, no) = f[n]
  BY <1>4 DEF Shares
<1> HIDE DEF no, cost, n
<1> DEFINE T == {i \in 0 .. n : f[i] = IF i < k THEN 0 ELSE cost}
<1>6. 0 \in T
  BY <1>1, <1>5
<1>7. ASSUME NEW m \in 0 .. n, m \in T, m < n PROVE m + 1 \in T
  <2>1. m + 1 \in 1 .. n /\ m + 1 \in 0 .. n /\ (m + 1) - 1 = m
    BY <1>1, <1>7
  <2>2. f[m + 1] = f[m] + (IF m + 1 = k THEN cost ELSE 0)
    BY <1>2, <1>5, <2>1
  <2>3. f[m] = IF m < k THEN 0 ELSE cost
    BY <1>7
  <2>4. f[m + 1] = IF m + 1 < k THEN 0 ELSE cost
    BY <1>1, <1>3, <2>1, <2>2, <2>3
  <2> QED  BY <2>1, <2>4
<1>8. n \in T
  <2>1. \A i \in 0 .. n : i \in T
    <3> HIDE DEF T
    <3> QED  BY <1>1, <1>6, <1>7, Climb
  <2> QED  BY <1>1, <2>1
<1>9. f[n] = cost
  BY <1>1, <1>8
<1> QED  BY <1>5, <1>9 DEF no, cost

\* The lines of each part.
LinesOf(parts) == [i \in DOMAIN parts |-> parts[i].lines]

\* What becomes of a line in the text of the parts: itself, or its halves.
Bits(line, budget) ==
    IF line.cost > budget THEN FlattenSeq(HalvedLine(line, budget)) ELSE <<line>>

\* Lines with the number of a line, that cost what the line costs.
IsBits(bits, line) ==
    /\ bits \in Seq(Line) /\ Len(bits) >= 1
    /\ \A i \in 1 .. Len(bits) : bits[i].no = line.no
    /\ \A no : Share(bits, no) = Part(line, no)

\* Lines in a row that have one number are bits of what they cost together.
LEMMA BitsJoin ==
    ASSUME NEW a \in Line, NEW b \in Line, NEW line \in Line, a.no = line.no, b.no = line.no,
           a.cost + b.cost = line.cost, NEW s, NEW t, IsBits(s, a), IsBits(t, b)
    PROVE  IsBits(s \o t, line)
<1>1. /\ s \in Seq(Line) /\ t \in Seq(Line) /\ Len(s) >= 1 /\ Len(t) >= 1
      /\ \A i \in 1 .. Len(s) : s[i].no = line.no
      /\ \A i \in 1 .. Len(t) : t[i].no = line.no
  BY DEF IsBits
<1>2. Len(s) \in Nat /\ Len(t) \in Nat /\ s \o t \in Seq(Line) /\ Len(s \o t) = Len(s) + Len(t)
  BY <1>1
<1>3. ASSUME NEW i \in 1 .. Len(s \o t) PROVE (s \o t)[i].no = line.no
  <2>1. CASE i <= Len(s)
    <3>1. i \in 1 .. Len(s) /\ (s \o t)[i] = s[i]
      BY <1>1, <1>2, <2>1
    <3> QED  BY <1>1, <3>1
  <2>2. CASE ~(i <= Len(s))
    <3>1. i - Len(s) \in 1 .. Len(t) /\ (s \o t)[i] = t[i - Len(s)]
      BY <1>1, <1>2, <2>2
    <3> QED  BY <1>1, <3>1
  <2> QED  BY <2>1, <2>2
<1>4. ASSUME NEW no PROVE Share(s \o t, no) = Part(line, no)
  <2>1. Share(s \o t, no) = Share(s, no) + Share(t, no)
    BY <1>1, ShareJoin
  <2>2. Share(s, no) = Part(a, no) /\ Share(t, no) = Part(b, no)
    BY DEF IsBits
  <2>3. a.cost \in Nat /\ b.cost \in Nat
    BY DEF Line
  <2> QED  BY <2>1, <2>2, <2>3 DEF Part
<1>5. Len(s \o t) >= 1
  BY <1>1, <1>2
<1> QED  BY <1>2, <1>3, <1>4, <1>5 DEF IsBits

\* A line is the only bit of itself.
LEMMA BitsOne ==
    ASSUME NEW line \in Line
    PROVE  IsBits(<<line>>, line)
<1>1. <<line>> \in Seq(Line) /\ Len(<<line>>) = 1 /\ <<line>>[1] = line
  OBVIOUS
<1>2. \A no : Share(<<line>>, no) = Part(line, no)
  BY ShareOne
<1> QED  BY <1>1, <1>2 DEF IsBits

\* A line's bits are such.
LEMMA BitsOf ==
    ASSUME NEW line \in Line, NEW budget \in Nat
    PROVE  IsBits(Bits(line, budget), line)
<1> DEFINE cost == line.cost
           At(c) == [line EXCEPT !.cost = c]
           Map(s) == [i \in DOMAIN s |-> At(s[i])]
<1>1. line \in [no : Nat, cost : Nat] /\ cost \in Nat
  BY DEF Line
<1>2. PICK f : Halved(f, line, budget)
  BY HalvesRun
<1>3. /\ f \in [0 .. cost -> Seq(Nat)]
      /\ \A n \in 0 .. cost : f[n] = Halving(f, n, budget)
      /\ HalvedLine(line, budget) = [i \in DOMAIN f[cost] |-> <<At(f[cost][i])>>]
  BY <1>2 DEF Halved
<1>4. ASSUME NEW c \in Nat PROVE At(c) \in Line /\ At(c).no = line.no /\ At(c).cost = c
  BY <1>1 DEF Line
<1>5. At(cost) = line
  BY <1>1
<1> HIDE DEF cost, At
<1>6. ASSUME NEW s \in Seq(Nat)
      PROVE  Map(s) \in Seq(Line) /\ Len(Map(s)) = Len(s) /\ \A i \in 1 .. Len(s) : Map(s)[i] = At(s[i])
  <2>1. Len(s) \in Nat /\ DOMAIN s = 1 .. Len(s) /\ \A i \in 1 .. Len(s) : At(s[i]) \in Line
    BY <1>4
  <2>2. Map(s) = [i \in 1 .. Len(s) |-> At(s[i])]
    BY <2>1
  <2> QED  BY <2>1, <2>2
<1>7. ASSUME NEW s \in Seq(Nat), NEW t \in Seq(Nat) PROVE Map(s \o t) = Map(s) \o Map(t)
  <2> DEFINE x == Map(s)
             y == Map(t)
             z == Map(s \o t)
  <2>1. Len(s) \in Nat /\ Len(t) \in Nat /\ s \o t \in Seq(Nat) /\ Len(s \o t) = Len(s) + Len(t)
    OBVIOUS
  <2>2. /\ x \in Seq(Line) /\ y \in Seq(Line) /\ z \in Seq(Line)
        /\ Len(x) = Len(s) /\ Len(y) = Len(t) /\ Len(z) = Len(s) + Len(t)
        /\ \A i \in 1 .. Len(s) : x[i] = At(s[i])
        /\ \A i \in 1 .. Len(t) : y[i] = At(t[i])
        /\ \A i \in 1 .. Len(s) + Len(t) : z[i] = At((s \o t)[i])
    BY <1>6, <2>1
  <2> HIDE DEF x, y, z, Map
  <2>3. ASSUME NEW i \in 1 .. Len(s) + Len(t) PROVE z[i] = (x \o y)[i]
    <3>1. CASE i <= Len(s)
      <4>1. i \in 1 .. Len(s) /\ (s \o t)[i] = s[i] /\ (x \o y)[i] = x[i]
        BY <2>1, <2>2, <3>1
      <4> QED  BY <2>2, <4>1
    <3>2. CASE ~(i <= Len(s))
      <4>1. i - Len(s) \in 1 .. Len(t) /\ (s \o t)[i] = t[i - Len(s)]
        BY <2>1, <3>2
      <4>2. (x \o y)[i] = y[i - Len(s)]
        BY <2>1, <2>2, <3>2
      <4> QED  BY <2>2, <4>1, <4>2
    <3> QED  BY <3>1, <3>2
  <2>4. x \o y \in Seq(Line) /\ Len(x \o y) = Len(s) + Len(t)
    BY <2>2
  <2>5. z = x \o y
    BY <2>1, <2>2, <2>3, <2>4
  <2> QED  BY <2>5 DEF x, y, z
<1>a. ASSUME NEW n \in Nat PROVE Map(<<n>>) = <<At(n)>>
  <2>1. <<n>> \in Seq(Nat) /\ Len(<<n>>) = 1 /\ <<n>>[1] = n
    OBVIOUS
  <2> DEFINE s == <<n>>
             m == Map(s)
  <2> HIDE DEF s
  <2>2. m \in Seq(Line) /\ Len(m) = Len(s) /\ \A i \in 1 .. Len(s) : m[i] = At(s[i])
    BY <1>6, <2>1 DEF s
  <2> HIDE DEF m
  <2>3. Len(m) = 1 /\ m[1] = At(n)
    BY <2>1, <2>2 DEF s
  <2>4. m = <<At(n)>>
    BY <2>2, <2>3
  <2> QED  BY <2>4 DEF m, s
<1> HIDE DEF Map
<1> DEFINE T == {n \in 0 .. cost : ~IsBits(Map(f[n]), At(n))}
<1>8. T = {}
  <2> SUFFICES ASSUME T # {} PROVE FALSE
    OBVIOUS
  <2>1. PICK n \in T : \A j \in T : n <= j
    <3>1. T \in SUBSET Nat
      BY <1>1
    <3> HIDE DEF T
    <3> QED  BY <3>1, MinOf
  <2>2. n \in 0 .. cost /\ n \in Nat /\ ~IsBits(Map(f[n]), At(n)) /\ f[n] = Halving(f, n, budget)
    BY <1>1, <1>3, <2>1
  <2>3. CASE Small(n, budget)
    <3>1. f[n] = <<n>>
      BY <2>2, <2>3 DEF Halving
    <3>2. IsBits(<<At(n)>>, At(n))
      BY <1>4, <2>2, BitsOne
    <3> QED  BY <1>a, <2>2, <3>1, <3>2
  <2>4. CASE ~Small(n, budget)
    <3> DEFINE a == n \div 2
               b == n - n \div 2
    <3>1. a \in Nat /\ a < n /\ b \in Nat /\ b < n /\ a + b = n
      BY <2>2, <2>4, HalfOf
    <3>2. f[n] = f[a] \o f[b]
      BY <2>2, <2>4 DEF Halving
    <3> HIDE DEF a, b
    <3>3. a \in 0 .. cost /\ b \in 0 .. cost
      BY <1>1, <2>2, <3>1
    <3>4. a \notin T /\ b \notin T
      <4> HIDE DEF T
      <4> QED  BY <1>1, <2>1, <2>2, <3>1, <3>3
    <3>5. IsBits(Map(f[a]), At(a)) /\ IsBits(Map(f[b]), At(b))
      BY <3>3, <3>4
    <3>6. f[a] \in Seq(Nat) /\ f[b] \in Seq(Nat)
      BY <1>3, <3>3
    <3>7. Map(f[n]) = Map(f[a]) \o Map(f[b])
      BY <1>7, <3>2, <3>6
    <3>8. /\ At(a) \in Line /\ At(b) \in Line /\ At(n) \in Line /\ At(a).no = At(n).no /\ At(b).no = At(n).no
          /\ At(a).cost + At(b).cost = At(n).cost
      BY <1>4, <2>2, <3>1
    <3>9. IsBits(Map(f[a]) \o Map(f[b]), At(n))
      BY <3>5, <3>8, BitsJoin
    <3> QED  BY <2>2, <3>7, <3>9
  <2> QED  BY <2>3, <2>4
<1>9. IsBits(Map(f[cost]), line)
  <2>1. cost \in 0 .. cost
    BY <1>1
  <2> QED  BY <1>5, <1>8, <2>1
<1>10. FlattenSeq(HalvedLine(line, budget)) = Map(f[cost])
  <2> DEFINE s == f[cost]
             n == Len(s)
             seqs == HalvedLine(line, budget)
             m == Map(s)
  <2>1. s \in Seq(Nat)
    BY <1>1, <1>3
  <2>2. n \in Nat /\ DOMAIN s = 1 .. n /\ \A i \in 1 .. n : s[i] \in Nat
    BY <2>1
  <2>3. m \in Seq(Line) /\ Len(m) = n /\ \A i \in 1 .. n : m[i] = At(s[i])
    BY <1>6, <2>1
  <2>4. /\ DOMAIN seqs = 1 .. n /\ seqs = [i \in 1 .. n |-> <<At(s[i])>>]
    BY <1>3, <2>2
  <2>a. \A i \in 1 .. n : <<At(s[i])>> \in Seq(Line)
    <3> TAKE i \in 1 .. n
    <3>1. At(s[i]) \in Line
      BY <1>4, <2>2
    <3> QED  BY <3>1
  <2>5. seqs \in Seq(Seq(Line)) /\ Len(seqs) = n /\ \A i \in 1 .. n : seqs[i] = <<m[i]>>
    BY <2>2, <2>3, <2>4, <2>a
  <2> HIDE DEF s, n, seqs, m
  <2>6. PICK g \in [0 .. n -> Seq(Line)] :
           g[0] = <<>> /\ (\A i \in 1 .. n : g[i] = g[i - 1] \o seqs[i]) /\ FlattenSeq(seqs) = g[n]
    <3>1. PICK g \in [0 .. Len(seqs) -> Seq(Line)] :
             /\ g[0] = <<>> /\ \A i \in 1 .. Len(seqs) : g[i] = g[i - 1] \o seqs[i]
             /\ FlattenSeq(seqs) = g[Len(seqs)]
      BY <2>5, FlattenSeqGrows
    <3> QED  BY <2>5, <3>1
  <2> DEFINE S == {i \in 0 .. n : g[i] = SubSeq(m, 1, i)}
  <2>7. 0 \in S
    <3>1. SubSeq(m, 1, 0) = <<>>
      BY <2>3
    <3> QED  BY <2>2, <2>6, <3>1
  <2>8. ASSUME NEW i \in 0 .. n, i \in S, i < n PROVE i + 1 \in S
    <3>1. i + 1 \in 1 .. n /\ i + 1 \in 0 .. n /\ (i + 1) - 1 = i /\ i \in Nat
      BY <2>2, <2>8
    <3>2. g[i + 1] = SubSeq(m, 1, i) \o <<m[i + 1]>>
      BY <2>5, <2>6, <2>8, <3>1
    <3>3. SubSeq(m, 1, i) \o <<m[i + 1]>> = SubSeq(m, 1, i + 1)
      <4>1. 1 \in 1 .. Len(m) + 1 /\ i \in 1 - 1 .. Len(m) /\ i + 1 \in i .. Len(m)
        BY <2>2, <2>3, <3>1
      <4>2. SubSeq(m, 1, i) \o SubSeq(m, i + 1, i + 1) = SubSeq(m, 1, i + 1)
        BY <2>3, <4>1, ConcatAdjacentSubSeq
      <4> DEFINE k == i + 1
      <4>a. k \in 1 .. Len(m)
        BY <2>2, <2>3, <3>1
      <4> HIDE DEF k
      <4>b. SubSeq(m, k, k) = <<m[k]>>
        BY <2>3, <4>a, SubSeqOne
      <4>3. SubSeq(m, i + 1, i + 1) = <<m[i + 1]>>
        BY <4>b DEF k
      <4> QED  BY <4>2, <4>3
    <3> QED  BY <3>1, <3>2, <3>3
  <2>9. g[n] = SubSeq(m, 1, n)
    <3>1. \A i \in 0 .. n : i \in S
      <4> HIDE DEF S
      <4> QED  BY <2>2, <2>7, <2>8, Climb
    <3> QED  BY <2>2, <3>1
  <2>10. SubSeq(m, 1, n) = m
    BY <2>2, <2>3
  <2> QED  BY <2>6, <2>9, <2>10 DEF s, seqs, m
<1>11. IsBits(<<line>>, line)
  BY BitsOne
<1> QED  BY <1>9, <1>10, <1>11 DEF Bits

\* The lines of parts, one after the other.
Whole(parts) == FlattenSeq(LinesOf(parts))

\* They are sequences of lines.
LEMMA LinesOfType ==
    ASSUME NEW parts \in Seq(Text)
    PROVE  /\ LinesOf(parts) \in Seq(Seq(Line)) /\ Len(LinesOf(parts)) = Len(parts)
           /\ \A i \in 1 .. Len(parts) : LinesOf(parts)[i] = parts[i].lines /\ parts[i].lines \in Seq(Line)
           /\ Whole(parts) \in Seq(Line)
<1> DEFINE n == Len(parts)
           s == LinesOf(parts)
<1>1. n \in Nat /\ DOMAIN parts = 1 .. n /\ \A i \in 1 .. n : parts[i] \in Text
  OBVIOUS
<1>2. \A i \in 1 .. n : parts[i].lines \in Seq(Line)
  BY <1>1 DEF Text
<1>3. s = [i \in 1 .. n |-> parts[i].lines]
  BY <1>1 DEF LinesOf
<1> HIDE DEF s, n
<1>4. s \in Seq(Seq(Line)) /\ Len(s) = n /\ \A i \in 1 .. n : s[i] = parts[i].lines
  BY <1>1, <1>2, <1>3
<1>5. FlattenSeq(s) \in Seq(Line)
  BY <1>4, FlattenSeqOf
<1> QED  BY <1>2, <1>4, <1>5 DEF s, n, Whole

\* No parts have none.
LEMMA WholeNone == Whole(<<>>) = <<>>
<1>1. <<>> \in Seq(Text) /\ Len(<<>>) = 0
  OBVIOUS
<1> DEFINE s == LinesOf(<<>>)
<1>2. s \in Seq(Seq(Line)) /\ Len(s) = 0
  BY <1>1, LinesOfType
<1> HIDE DEF s
<1>3. PICK f \in [0 .. Len(s) -> Seq(Line)] : f[0] = <<>> /\ FlattenSeq(s) = f[Len(s)]
  BY <1>2, FlattenSeqGrows
<1> QED  BY <1>2, <1>3 DEF Whole, s

\* The lines of more parts follow.
LEMMA WholeJoin ==
    ASSUME NEW a \in Seq(Text), NEW b \in Seq(Text)
    PROVE  Whole(a \o b) = Whole(a) \o Whole(b)
<1> DEFINE n == Len(a)
           m == Len(b)
           x == LinesOf(a)
           y == LinesOf(b)
           z == LinesOf(a \o b)
<1>1. /\ a \o b \in Seq(Text) /\ n \in Nat /\ m \in Nat /\ Len(a \o b) = n + m
      /\ \A i \in 1 .. n : (a \o b)[i] = a[i]
  OBVIOUS
<1>a. \A i \in 1 .. m : (a \o b)[n + i] = b[i]
  OBVIOUS
<1>2. /\ x \in Seq(Seq(Line)) /\ y \in Seq(Seq(Line)) /\ z \in Seq(Seq(Line))
      /\ Len(x) = n /\ Len(y) = m /\ Len(z) = n + m
      /\ \A i \in 1 .. n : x[i] = a[i].lines
      /\ \A i \in 1 .. m : y[i] = b[i].lines
      /\ \A i \in 1 .. n + m : z[i] = (a \o b)[i].lines
  BY <1>1, LinesOfType
<1> HIDE DEF n, m, x, y, z
<1>3. ASSUME NEW i \in 1 .. n + m PROVE z[i] = (x \o y)[i]
  <2>1. CASE i <= n
    <3>1. i \in 1 .. n /\ (x \o y)[i] = x[i]
      BY <1>1, <1>2, <2>1
    <3> QED  BY <1>1, <1>2, <3>1
  <2>2. CASE ~(i <= n)
    <3>1. i - n \in 1 .. m /\ n + (i - n) = i
      BY <1>1, <2>2
    <3>2. (x \o y)[i] = y[i - n]
      BY <1>1, <1>2, <2>2
    <3>3. (a \o b)[i] = b[i - n]
      BY <1>a, <3>1
    <3>4. y[i - n] = b[i - n].lines /\ z[i] = (a \o b)[i].lines
      BY <1>2, <3>1
    <3> QED  BY <3>2, <3>3, <3>4
  <2> QED  BY <2>1, <2>2
<1>4. x \o y \in Seq(Seq(Line)) /\ Len(x \o y) = n + m
  BY <1>2, JoinOf
<1>5. z = x \o y
  BY <1>2, <1>3, <1>4, SameSeq
<1>6. FlattenSeq(x \o y) = FlattenSeq(x) \o FlattenSeq(y)
  BY <1>2, FlattenSeqJoin
<1> QED  BY <1>5, <1>6 DEF Whole, x, y, z

\* So do those of one more.
LEMMA WholeAppend ==
    ASSUME NEW a \in Seq(Text), NEW c \in Text
    PROVE  Whole(Append(a, c)) = Whole(a) \o c.lines
<1> DEFINE one == <<c>>
<1>1. one \in Seq(Text) /\ Len(one) = 1 /\ one[1] = c /\ Append(a, c) = a \o one
  OBVIOUS
<1>2. Whole(a \o one) = Whole(a) \o Whole(one)
  BY <1>1, WholeJoin
<1>3. Whole(one) = c.lines
  <2> DEFINE s == LinesOf(one)
             t == <<c.lines>>
  <2>1. c.lines \in Seq(Line)
    BY DEF Text
  <2>2. t \in Seq(Seq(Line)) /\ Len(t) = 1 /\ t[1] = c.lines
    BY <2>1
  <2>3. s \in Seq(Seq(Line)) /\ Len(s) = 1 /\ s[1] = c.lines
    <3> HIDE DEF one
    <3> QED  BY <1>1, LinesOfType
  <2> HIDE DEF s, t
  <2>4. s = t
    BY <2>2, <2>3
  <2>5. FlattenSeq(t) = c.lines
    BY <2>1, FlattenSeqOne DEF t
  <2> QED  BY <2>4, <2>5 DEF Whole, s
<1> QED  BY <1>1, <1>2, <1>3

\* What was collected, in groups and in front of them, in a row.
Spread(acc) == Whole(acc.groups) \o acc.open

\* Closing the last group changes nothing about the lines.
LEMMA SpreadOf ==
    ASSUME NEW acc \in Group
    PROVE  /\ Whole(acc.groups) \in Seq(Line) /\ Spread(acc) \in Seq(Line)
           /\ Whole(Closed(acc)) = Spread(acc)
<1>1. acc.groups \in Seq(Text) /\ acc.open \in Seq(Line)
  BY DEF Group
<1>2. Whole(acc.groups) \in Seq(Line)
  BY <1>1, LinesOfType
<1>3. Spread(acc) \in Seq(Line)
  BY <1>1, <1>2 DEF Spread
<1>4. CASE acc.open = <<>>
  <2>1. Closed(acc) = acc.groups
    BY <1>4 DEF Closed
  <2>2. Whole(acc.groups) \o <<>> = Whole(acc.groups)
    BY <1>2
  <2> QED  BY <1>2, <1>3, <1>4, <2>1, <2>2 DEF Spread
<1>5. CASE acc.open # <<>>
  <2> DEFINE c == Chunk(acc.start, acc.at - 1, acc.open)
  <2>1. Closed(acc) = Append(acc.groups, c)
    BY <1>5 DEF Closed
  <2>2. c \in Text /\ c.lines = acc.open
    BY ClosedOf DEF Chunk
  <2> HIDE DEF c
  <2>3. Whole(Append(acc.groups, c)) = Whole(acc.groups) \o c.lines
    BY <1>1, <2>2, WholeAppend
  <2> QED  BY <1>2, <1>3, <2>1, <2>2, <2>3 DEF Spread
<1> QED  BY <1>4, <1>5

\* The halves of a line, as parts.
LEMMA HalvesWhole ==
    ASSUME NEW at \in Int, NEW line \in Line, NEW budget \in Nat
    PROVE  Whole(HalvesAt(at, line, budget)) = FlattenSeq(HalvedLine(line, budget))
<1> DEFINE h == HalvesAt(at, line, budget)
           parts == HalvedLine(line, budget)
           s == LinesOf(h)
<1>1. h \in Seq(Text) /\ Len(h) = Len(parts) /\ \A i \in 1 .. Len(h) : h[i] = Chunk(at, at, parts[i])
  BY HalvesAtOf
<1>2. parts \in Seq(Seq(Line))
  BY HalvedLineOf
<1> HIDE DEF h, parts
<1>3. s \in Seq(Seq(Line)) /\ Len(s) = Len(h) /\ \A i \in 1 .. Len(h) : s[i] = h[i].lines
  BY <1>1, LinesOfType
<1> HIDE DEF s
<1>4. \A i \in 1 .. Len(h) : s[i] = parts[i]
  <2> TAKE i \in 1 .. Len(h)
  <2>1. s[i] = h[i].lines /\ h[i] = Chunk(at, at, parts[i])
    BY <1>1, <1>3
  <2> DEFINE part == parts[i]
  <2> HIDE DEF part
  <2>2. h[i].lines = part
    BY <2>1 DEF Chunk, part
  <2> QED  BY <2>1, <2>2 DEF part
<1>5. s = parts
  BY <1>1, <1>2, <1>3, <1>4, SameSeq
<1> QED  BY <1>5 DEF Whole, s, h, parts

\* Whichever way a line is taken in, its bits follow what was collected.
LEMMA SpreadGrows ==
    ASSUME NEW acc \in Group, NEW line \in Line, NEW budget \in Nat
    PROVE  Spread(Grow(acc, line, budget)) = Spread(acc) \o Bits(line, budget)
<1>1. acc.groups \in Seq(Text) /\ acc.open \in Seq(Line) /\ acc.at \in Int
  BY DEF Group
<1>2. /\ Whole(acc.groups) \in Seq(Line) /\ Spread(acc) \in Seq(Line)
      /\ Whole(Closed(acc)) = Spread(acc) /\ Closed(acc) \in Seq(Text)
  BY SpreadOf, ClosedOf
<1>3. CASE line.cost > budget
  <2> DEFINE h == HalvesAt(acc.at, line, budget)
  <2>1. Grow(acc, line, budget).groups = Closed(acc) \o h /\ Grow(acc, line, budget).open = <<>>
    BY <1>3 DEF Grow, Halve
  <2>2. h \in Seq(Text) /\ Whole(h) = Bits(line, budget)
    BY <1>1, <1>3, HalvesAtOf, HalvesWhole DEF Bits
  <2> HIDE DEF h
  <2>3. Whole(Closed(acc) \o h) = Spread(acc) \o Bits(line, budget)
    BY <1>2, <2>2, WholeJoin
  <2>4. Whole(Closed(acc) \o h) \in Seq(Line)
    <3>1. Closed(acc) \o h \in Seq(Text)
      BY <1>2, <2>2
    <3> QED  BY <3>1, LinesOfType
  <2>5. Whole(Closed(acc) \o h) \o <<>> = Whole(Closed(acc) \o h)
    BY <2>4
  <2> QED  BY <2>1, <2>3, <2>5 DEF Spread
<1>4. CASE ~(line.cost > budget) /\ acc.open # <<>> /\ Cost(acc.open) + line.cost > budget
  <2>1. Grow(acc, line, budget).groups = Closed(acc) /\ Grow(acc, line, budget).open = <<line>>
    BY <1>4 DEF Grow, Reopen
  <2>2. Bits(line, budget) = <<line>>
    BY <1>4 DEF Bits
  <2> QED  BY <1>2, <2>1, <2>2 DEF Spread
<1>5. CASE ~(line.cost > budget) /\ ~(acc.open # <<>> /\ Cost(acc.open) + line.cost > budget)
  <2>1. Grow(acc, line, budget) = Extend(acc, line)
    BY <1>5 DEF Grow
  <2>2. Grow(acc, line, budget).groups = acc.groups /\ Grow(acc, line, budget).open = Append(acc.open, line)
    BY <2>1 DEF Extend, Group
  <2>3. Bits(line, budget) = <<line>>
    BY <1>5 DEF Bits
  <2>4. Append(acc.open, line) = acc.open \o <<line>>
    BY <1>1
  <2> DEFINE x == Whole(acc.groups)
             y == acc.open
             z == <<line>>
  <2>5. x \in Seq(Line) /\ y \in Seq(Line) /\ z \in Seq(Line)
    BY <1>1, <1>2
  <2> HIDE DEF x, y, z
  <2>6. (x \o y) \o z = x \o (y \o z)
    BY <2>5, ConcatAssociative
  <2> QED  BY <2>2, <2>3, <2>4, <2>6 DEF Spread, x, y, z
<1> QED  BY <1>3, <1>4, <1>5

\* A text whose lines are numbered from its first line on.
Numbered(chunk) ==
    /\ chunk \in Text
    /\ \A i \in 1 .. Len(chunk.lines) : chunk.lines[i].no = chunk.from + i - 1

\* The numbers of lines that are put together.
LEMMA NosJoin ==
    ASSUME NEW s \in Seq(Line), NEW t \in Seq(Line)
    PROVE  Nos(s \o t) = Nos(s) \cup Nos(t)
<1> DEFINE u == s \o t
<1>1. /\ u \in Seq(Line) /\ Len(u) = Len(s) + Len(t) /\ Len(s) \in Nat /\ Len(t) \in Nat
      /\ \A i \in 1 .. Len(s) : u[i] = s[i]
      /\ \A i \in 1 .. Len(t) : u[Len(s) + i] = t[i]
  BY JoinOf
<1> HIDE DEF u
<1>2. DOMAIN u = 1 .. Len(u) /\ DOMAIN s = 1 .. Len(s) /\ DOMAIN t = 1 .. Len(t)
  BY <1>1
<1>3. ASSUME NEW no \in Nos(u) PROVE no \in Nos(s) \cup Nos(t)
  <2>1. PICK i \in 1 .. Len(u) : no = u[i].no
    BY <1>2 DEF Nos
  <2>2. CASE i <= Len(s)
    <3>1. i \in 1 .. Len(s)
      BY <1>1, <2>2
    <3> QED  BY <1>1, <1>2, <2>1, <3>1 DEF Nos
  <2>3. CASE ~(i <= Len(s))
    <3>1. i - Len(s) \in 1 .. Len(t) /\ Len(s) + (i - Len(s)) = i
      BY <1>1, <2>3
    <3>2. u[i] = t[i - Len(s)]
      BY <1>1, <3>1
    <3> QED  BY <1>2, <2>1, <3>1, <3>2 DEF Nos
  <2> QED  BY <2>2, <2>3
<1>4. ASSUME NEW no \in Nos(s) PROVE no \in Nos(u)
  <2>1. PICK i \in 1 .. Len(s) : no = s[i].no
    BY <1>2 DEF Nos
  <2>2. i \in 1 .. Len(u) /\ u[i] = s[i]
    BY <1>1
  <2> QED  BY <1>2, <2>1, <2>2 DEF Nos
<1>5. ASSUME NEW no \in Nos(t) PROVE no \in Nos(u)
  <2>1. PICK i \in 1 .. Len(t) : no = t[i].no
    BY <1>2 DEF Nos
  <2>2. Len(s) + i \in 1 .. Len(u) /\ u[Len(s) + i] = t[i]
    BY <1>1
  <2> QED  BY <1>2, <2>1, <2>2 DEF Nos
<1> QED  BY <1>3, <1>4, <1>5 DEF u

\* No lines, no numbers.
LEMMA NosNone == Nos(<<>>) = {}
  BY DEF Nos

\* The bits of a line have its number.
LEMMA NosBits ==
    ASSUME NEW line \in Line, NEW bits, IsBits(bits, line)
    PROVE  Nos(bits) = {line.no}
<1>1. bits \in Seq(Line) /\ Len(bits) >= 1 /\ \A i \in 1 .. Len(bits) : bits[i].no = line.no
  BY DEF IsBits
<1>2. DOMAIN bits = 1 .. Len(bits) /\ Len(bits) \in Nat /\ 1 \in 1 .. Len(bits)
  BY <1>1
<1> QED  BY <1>1, <1>2 DEF Nos

\* Lines in the order of their numbers.
Ascending(lines) == \A i, j \in DOMAIN lines : i < j => lines[i].no <= lines[j].no

\* What comes later is numbered later.
LEMMA AscendingJoin ==
    ASSUME NEW s \in Seq(Line), NEW t \in Seq(Line), Ascending(s), Ascending(t),
           \A a \in Nos(s), b \in Nos(t) : a <= b
    PROVE  Ascending(s \o t)
<1> DEFINE u == s \o t
<1>1. /\ u \in Seq(Line) /\ Len(u) = Len(s) + Len(t) /\ Len(s) \in Nat /\ Len(t) \in Nat
      /\ \A i \in 1 .. Len(s) : u[i] = s[i]
      /\ \A i \in 1 .. Len(t) : u[Len(s) + i] = t[i]
  BY JoinOf
<1> HIDE DEF u
<1>2. DOMAIN u = 1 .. Len(u) /\ DOMAIN s = 1 .. Len(s) /\ DOMAIN t = 1 .. Len(t)
  BY <1>1
<1>3. ASSUME NEW i \in 1 .. Len(u), NEW j \in 1 .. Len(u), i < j PROVE u[i].no <= u[j].no
  <2>1. CASE j <= Len(s)
    <3>1. i \in 1 .. Len(s) /\ j \in 1 .. Len(s)
      BY <1>1, <1>3, <2>1
    <3>2. s[i].no <= s[j].no
      BY <1>2, <1>3, <3>1 DEF Ascending
    <3> QED  BY <1>1, <3>1, <3>2
  <2>2. CASE ~(j <= Len(s)) /\ i <= Len(s)
    <3>1. i \in 1 .. Len(s) /\ j - Len(s) \in 1 .. Len(t) /\ Len(s) + (j - Len(s)) = j
      BY <1>1, <1>3, <2>2
    <3>2. u[i] = s[i] /\ u[j] = t[j - Len(s)]
      BY <1>1, <3>1
    <3>3. s[i].no \in Nos(s) /\ t[j - Len(s)].no \in Nos(t)
      BY <1>2, <3>1 DEF Nos
    <3> QED  BY <3>2, <3>3
  <2>3. CASE ~(i <= Len(s))
    <3>1. /\ i - Len(s) \in 1 .. Len(t) /\ Len(s) + (i - Len(s)) = i
          /\ j - Len(s) \in 1 .. Len(t) /\ Len(s) + (j - Len(s)) = j /\ i - Len(s) < j - Len(s)
      BY <1>1, <1>3, <2>3
    <3>2. u[i] = t[i - Len(s)] /\ u[j] = t[j - Len(s)]
      BY <1>1, <3>1
    <3>3. t[i - Len(s)].no <= t[j - Len(s)].no
      BY <1>2, <3>1 DEF Ascending
    <3> QED  BY <3>2, <3>3
  <2>4. (j <= Len(s)) \/ (~(j <= Len(s)) /\ i <= Len(s)) \/ ~(i <= Len(s))
    BY <1>1
  <2> QED  BY <2>1, <2>2, <2>3, <2>4
<1>4. Ascending(u)
  BY <1>2, <1>3 DEF Ascending
<1> QED  BY <1>4 DEF u

\* Bits of one line are in order.
LEMMA AscendingBits ==
    ASSUME NEW line \in Line, NEW bits, IsBits(bits, line)
    PROVE  Ascending(bits)
<1>1. bits \in Seq(Line) /\ \A i \in 1 .. Len(bits) : bits[i].no = line.no
  BY DEF IsBits
<1>2. DOMAIN bits = 1 .. Len(bits) /\ line.no \in Nat
  BY <1>1 DEF Line
<1> QED  BY <1>1, <1>2 DEF Ascending

\* A part holds the lines it says.
Spans(part) == Nos(part.lines) = part.from .. part.to

\* After m lines of a text: the groups and the open one span what they hold, and
\* all the lines are there in their order.
Filled(acc, m, from) ==
    /\ acc.at = from + m /\ acc.start <= acc.at
    /\ Nos(acc.open) = acc.start .. acc.at - 1
    /\ \A i \in 1 .. Len(acc.groups) : Spans(acc.groups[i])
    /\ Ascending(Spread(acc)) /\ Nos(Spread(acc)) = from .. from + m - 1

\* So does the last one once it is closed.
LEMMA ClosedSpans ==
    ASSUME NEW acc \in Group, NEW m, NEW from, Filled(acc, m, from)
    PROVE  \A i \in 1 .. Len(Closed(acc)) : Spans(Closed(acc)[i])
<1>1. /\ acc.groups \in Seq(Text) /\ \A i \in 1 .. Len(acc.groups) : Spans(acc.groups[i])
  BY DEF Filled, Group
<1>2. CASE acc.open = <<>>
  BY <1>1, <1>2 DEF Closed
<1>3. CASE acc.open # <<>>
  <2> DEFINE c == Chunk(acc.start, acc.at - 1, acc.open)
  <2>1. Closed(acc) = Append(acc.groups, c)
    BY <1>3 DEF Closed
  <2>2. c \in Text /\ Spans(c)
    BY ClosedOf DEF Filled, Spans, Chunk
  <2> HIDE DEF c
  <2> DEFINE g == acc.groups
             h == Append(g, c)
  <2>3. /\ Len(g) \in Nat /\ Len(h) = Len(g) + 1 /\ h[Len(g) + 1] = c
        /\ \A i \in 1 .. Len(g) : h[i] = g[i]
    BY <1>1, <2>2
  <2> HIDE DEF g, h
  <2>4. ASSUME NEW i \in 1 .. Len(h) PROVE Spans(h[i])
    <3>1. i \in 1 .. Len(g) \/ i = Len(g) + 1
      BY <2>3
    <3> QED  BY <1>1, <2>2, <2>3, <3>1 DEF g
  <2> QED  BY <2>1, <2>4 DEF g, h
<1> QED  BY <1>2, <1>3

\* One line more is spread at the end.
LEMMA FilledSpread ==
    ASSUME NEW acc \in Group, NEW m \in Nat, NEW from \in Int, Filled(acc, m, from),
           NEW line \in Line, line.no = from + m, NEW budget \in Nat
    PROVE  /\ Ascending(Spread(Grow(acc, line, budget)))
           /\ Nos(Spread(Grow(acc, line, budget))) = from .. from + m
<1> DEFINE s == Spread(acc)
           t == Bits(line, budget)
<1>1. Spread(Grow(acc, line, budget)) = s \o t /\ s \in Seq(Line)
  BY SpreadGrows, SpreadOf
<1>2. IsBits(t, line)
  BY BitsOf
<1>3. t \in Seq(Line)
  BY <1>2 DEF IsBits
<1>4. Ascending(s) /\ Nos(s) = from .. from + m - 1
  BY DEF Filled
<1> HIDE DEF s, t
<1>5. Ascending(t) /\ Nos(t) = {from + m}
  BY <1>2, AscendingBits, NosBits
<1>6. \A a \in Nos(s), b \in Nos(t) : a <= b
  BY <1>4, <1>5
<1>7. Ascending(s \o t) /\ Nos(s \o t) = Nos(s) \cup Nos(t)
  BY <1>1, <1>3, <1>4, <1>5, <1>6, AscendingJoin, NosJoin
<1>8. (from .. from + m - 1) \cup {from + m} = from .. from + m
  OBVIOUS
<1> QED  BY <1>1, <1>4, <1>5, <1>7, <1>8

\* However it is taken in, the groups span what they hold.
LEMMA FilledStep ==
    ASSUME NEW acc \in Group, NEW m \in Nat, NEW from \in Int, Filled(acc, m, from),
           NEW line \in Line, line.no = from + m, NEW budget \in Nat
    PROVE  Filled(Grow(acc, line, budget), m + 1, from)
<1> DEFINE next == Grow(acc, line, budget)
           n == m + 1
<1>1. /\ acc.groups \in Seq(Text) /\ acc.open \in Seq(Line) /\ acc.start \in Int /\ acc.at \in Int
      /\ Closed(acc) \in Seq(Text) /\ acc.at = from + m /\ acc.start <= acc.at
      /\ Nos(acc.open) = acc.start .. acc.at - 1
  BY ClosedOf DEF Group, Filled
<1>2. Ascending(Spread(next)) /\ Nos(Spread(next)) = from .. from + n - 1
  <2>1. from + n - 1 = from + m
    OBVIOUS
  <2> QED  BY <2>1, FilledSpread
<1>3. \A i \in 1 .. Len(Closed(acc)) : Spans(Closed(acc)[i])
  BY ClosedSpans
<1> HIDE DEF n
<1>4. CASE line.cost > budget
  <2> DEFINE h == HalvesAt(acc.at, line, budget)
             g == Closed(acc)
  <2>1. next = [groups |-> g \o h, open |-> <<>>, start |-> acc.at + 1, at |-> acc.at + 1]
    BY <1>4 DEF Grow, Halve
  <2> DEFINE parts == HalvedLine(line, budget)
  <2>2. h \in Seq(Text) /\ Len(h) = Len(parts) /\ \A i \in 1 .. Len(h) : h[i] = Chunk(acc.at, acc.at, parts[i])
    BY <1>1, HalvesAtOf
  <2>3. \A i \in 1 .. Len(parts) : IsPart(parts[i], line, budget)
    BY HalvedLineOf
  <2> HIDE DEF parts, h
  <2>4. ASSUME NEW i \in 1 .. Len(h) PROVE Spans(h[i])
    <3> DEFINE lines == parts[i]
    <3>1. lines \in Seq(Line) /\ Len(lines) = 1 /\ lines[1].no = line.no
      BY <2>2, <2>3 DEF IsPart
    <3>2. h[i] = Chunk(acc.at, acc.at, lines)
      BY <2>2
    <3> HIDE DEF lines
    <3>3. DOMAIN lines = {1}
      BY <3>1
    <3>4. Nos(lines) = {line.no}
      BY <3>1, <3>3 DEF Nos
    <3>5. acc.at .. acc.at = {line.no}
      BY <1>1
    <3> QED  BY <3>2, <3>4, <3>5 DEF Spans, Chunk
  <2> HIDE DEF g
  <2>g. g \in Seq(Text) /\ h \in Seq(Text)
    BY <1>1, <2>2 DEF g
  <2>l. Len(g) \in Nat /\ Len(h) \in Nat
    BY <2>g
  <2>5. /\ Len(g \o h) = Len(g) + Len(h)
        /\ \A i \in 1 .. Len(g) : (g \o h)[i] = g[i]
        /\ \A i \in 1 .. Len(h) : (g \o h)[Len(g) + i] = h[i]
    BY <2>g, JoinOf
  <2>6. ASSUME NEW i \in 1 .. Len(g \o h) PROVE Spans((g \o h)[i])
    <3>1. CASE i <= Len(g)
      <4>1. i \in 1 .. Len(g)
        BY <2>l, <3>1
      <4>2. (g \o h)[i] = g[i]
        BY <2>5, <4>1
      <4>3. Spans(g[i])
        BY <1>3, <4>1 DEF g
      <4> QED  BY <4>2, <4>3
    <3>2. CASE ~(i <= Len(g))
      <4>1. i - Len(g) \in 1 .. Len(h) /\ Len(g) + (i - Len(g)) = i
        BY <2>l, <2>5, <3>2
      <4>2. (g \o h)[i] = h[i - Len(g)]
        BY <2>5, <4>1
      <4> QED  BY <2>4, <4>1, <4>2
    <3> QED  BY <3>1, <3>2
  <2>7. next.at = from + n /\ next.start <= next.at /\ next.start .. next.at - 1 = {} /\ next.open = <<>>
        /\ next.groups = g \o h
    BY <1>1, <2>1 DEF n
  <2> HIDE DEF next
  <2>8. Filled(next, n, from)
    BY <1>2, <2>6, <2>7, NosNone DEF Filled
  <2> QED  BY <2>8 DEF next, n
<1>5. CASE ~(line.cost > budget) /\ acc.open # <<>> /\ Cost(acc.open) + line.cost > budget
  <2>1. next = [groups |-> Closed(acc), open |-> <<line>>, start |-> acc.at, at |-> acc.at + 1]
    BY <1>5 DEF Grow, Reopen
  <2>2. next.at = from + n /\ next.start <= next.at /\ next.start .. next.at - 1 = {line.no}
        /\ next.open = <<line>> /\ next.groups = Closed(acc)
    BY <1>1, <2>1 DEF n
  <2>3. Nos(<<line>>) = {line.no}
    BY BitsOne, NosBits
  <2> HIDE DEF next
  <2>4. Filled(next, n, from)
    BY <1>2, <1>3, <2>2, <2>3 DEF Filled
  <2> QED  BY <2>4 DEF next, n
<1>6. CASE ~(line.cost > budget) /\ ~(acc.open # <<>> /\ Cost(acc.open) + line.cost > budget)
  <2>1. next = Extend(acc, line)
    BY <1>6 DEF Grow
  <2>2. /\ next.groups = acc.groups /\ next.open = Append(acc.open, line)
        /\ next.start = acc.start /\ next.at = acc.at + 1
    BY <2>1 DEF Extend, Group
  <2>3. Append(acc.open, line) = acc.open \o <<line>> /\ <<line>> \in Seq(Line)
    BY <1>1
  <2>4. Nos(acc.open \o <<line>>) = Nos(acc.open) \cup Nos(<<line>>) /\ Nos(<<line>>) = {line.no}
    BY <1>1, <2>3, NosJoin, BitsOne, NosBits
  <2>5. next.start .. next.at - 1 = (acc.start .. acc.at - 1) \cup {line.no}
    BY <1>1, <2>2
  <2>6. next.at = from + n /\ next.start <= next.at
    BY <1>1, <2>2 DEF n
  <2>7. \A i \in 1 .. Len(acc.groups) : Spans(acc.groups[i])
    BY DEF Filled
  <2> HIDE DEF next
  <2>8. Nos(next.open) = next.start .. next.at - 1
    BY <1>1, <2>2, <2>3, <2>4, <2>5
  <2>9. \A i \in 1 .. Len(next.groups) : Spans(next.groups[i])
    BY <2>2, <2>7
  <2>10. Filled(next, n, from)
    BY <1>2, <2>6, <2>8, <2>9 DEF Filled
  <2> QED  BY <2>10 DEF next, n
<1> QED  BY <1>4, <1>5, <1>6

\* The scan of a text that is numbered fills the groups line by line.
LEMMA FilledAlong ==
    ASSUME NEW chunk, Numbered(chunk), NEW budget \in Nat, NEW run, Grouped(run, chunk, budget),
           NEW m \in 0 .. Len(chunk.lines)
    PROVE  Filled(run[m], m, chunk.from)
<1> DEFINE lines == chunk.lines
           n == Len(lines)
           from == chunk.from
<1>1. /\ chunk \in Text /\ lines \in Seq(Line) /\ n \in Nat /\ from \in Int
      /\ \A i \in 1 .. n : lines[i] \in Line /\ lines[i].no = from + i - 1
  <2>1. chunk \in Text /\ lines \in Seq(Line) /\ from \in Int
    BY DEF Numbered, Text
  <2>2. \A i \in 1 .. n : lines[i].no = from + i - 1
    BY DEF Numbered
  <2> QED  BY <2>1, <2>2
<1>2. /\ \A i \in 0 .. n : run[i] \in Group
      /\ run[0] = [groups |-> <<>>, open |-> <<>>, start |-> from, at |-> from]
      /\ \A i \in 1 .. n : run[i] = Grow(run[i - 1], lines[i], budget)
  BY DEF Grouped
<1> HIDE DEF lines, from
<1> DEFINE T == {i \in 0 .. n : Filled(run[i], i, from)}
<1>3. 0 \in T
  <2> DEFINE acc == run[0]
  <2>1. acc.groups = <<>> /\ acc.open = <<>> /\ acc.start = from /\ acc.at = from
    BY <1>2
  <2> HIDE DEF acc
  <2>2. Spread(acc) = <<>>
    <3>1. <<>> \o <<>> = <<>>
      OBVIOUS
    <3> QED  BY <2>1, <3>1, WholeNone DEF Spread
  <2>3. Ascending(<<>>)
    BY DEF Ascending
  <2>4. from .. from + 0 - 1 = {} /\ from .. from - 1 = {} /\ from = from + 0 /\ from <= from
    BY <1>1
  <2>g. \A i \in 1 .. Len(acc.groups) : Spans(acc.groups[i])
    BY <2>1
  <2>n. Nos(acc.open) = acc.start .. acc.at - 1 /\ acc.at = from + 0 /\ acc.start <= acc.at
    BY <2>1, <2>4, NosNone
  <2>5. Filled(acc, 0, from)
    BY <2>2, <2>3, <2>4, <2>g, <2>n, NosNone DEF Filled
  <2>6. 0 \in 0 .. n
    BY <1>1
  <2> QED  BY <2>5, <2>6 DEF acc
<1>4. ASSUME NEW i \in 0 .. n, i \in T, i < n PROVE i + 1 \in T
  <2>1. i + 1 \in 1 .. n /\ i + 1 \in 0 .. n /\ (i + 1) - 1 = i /\ i \in Nat
    BY <1>1, <1>4
  <2> DEFINE acc == run[i]
             line == lines[i + 1]
  <2>2. acc \in Group /\ Filled(acc, i, from) /\ line \in Line
    BY <1>1, <1>2, <1>4, <2>1
  <2>3. line.no = from + i
    BY <1>1, <2>1
  <2>4. run[i + 1] = Grow(acc, line, budget)
    BY <1>2, <2>1
  <2> HIDE DEF acc, line
  <2>5. Filled(Grow(acc, line, budget), i + 1, from)
    BY <1>1, <2>1, <2>2, <2>3, FilledStep
  <2> QED  BY <2>1, <2>4, <2>5
<1>5. \A i \in 0 .. n : i \in T
  <2> HIDE DEF T, n
  <2> QED  BY <1>1, <1>3, <1>4, Climb
<1> QED  BY <1>5 DEF from, lines

\* The lines of parts are in one of them.
LEMMA WholeNos ==
    ASSUME NEW parts \in Seq(Text), NEW no \in Nos(Whole(parts))
    PROVE  \E i \in 1 .. Len(parts) : no \in Nos(parts[i].lines)
<1> DEFINE lists == LinesOf(parts)
           s == FlattenSeq(lists)
<1>1. /\ lists \in Seq(Seq(Line)) /\ Len(lists) = Len(parts)
      /\ \A i \in 1 .. Len(parts) : lists[i] = parts[i].lines /\ parts[i].lines \in Seq(Line)
  BY LinesOfType
<1>2. Sequence(lists) /\ \A i \in DOMAIN lists : Sequence(lists[i])
  <2>1. Sequence(lists)
    BY <1>1, SequenceOf
  <2> HIDE DEF lists
  <2>2. \A i \in DOMAIN lists : lists[i] \in Seq(Line)
    BY <1>1
  <2> QED  BY <2>1, <2>2, SequenceOf
<1> HIDE DEF lists
<1>3. Sequence(s) /\ InOrderOf(s, lists, Len(lists))
  BY <1>2, FlattenSequence
<1>4. PICK k \in DOMAIN s : no = s[k].no
  BY DEF Nos, Whole, lists
<1> HIDE DEF s
<1>5. PICK b \in 1 .. Len(lists) : Follows(s, k, lists, b)
  BY <1>3 DEF InOrderOf
<1>6. PICK o \in DOMAIN lists[b] : s[k] = lists[b][o]
  BY <1>5 DEF Follows
<1>7. no \in Nos(lists[b])
  BY <1>4, <1>6 DEF Nos
<1> QED  BY <1>1, <1>5, <1>7

\* Cut by lines, a text leaves every line of it to some part, however it is numbered.
LEMMA GroupsKeep ==
    ASSUME NEW chunk \in Text, NEW budget \in Nat, NEW no \in Nos(chunk.lines)
    PROVE  \E i \in 1 .. Len(LineGroups(chunk, budget)) : no \in Nos(LineGroups(chunk, budget)[i].lines)
<1> DEFINE lines == chunk.lines
           n == Len(lines)
           groups == LineGroups(chunk, budget)
<1>1. lines \in Seq(Line)
  BY DEF Text
<1>2. n \in Nat /\ n \in 0 .. n /\ DOMAIN lines = 1 .. n /\ \A i \in 1 .. n : lines[i] \in Line
  BY <1>1
<1>3. PICK run : Grouped(run, chunk, budget)
  BY GroupsRun
<1>4. /\ \A i \in 0 .. n : run[i] \in Group
      /\ \A i \in 1 .. n : run[i] = Grow(run[i - 1], lines[i], budget)
      /\ groups = Closed(run[n])
  BY <1>3 DEF Grouped
<1>5. groups \in Seq(Text) /\ Whole(groups) = Spread(run[n])
  BY <1>2, <1>4, LineGroupsOf, SpreadOf
<1>6. PICK k \in 1 .. n : no = lines[k].no
  BY <1>2 DEF Nos
<1> HIDE DEF groups, lines, n
<1> DEFINE T == {i \in 0 .. n : k <= i => no \in Nos(Spread(run[i]))}
<1>7. 0 \in T
  BY <1>2
<1>8. ASSUME NEW i \in 0 .. n, i \in T, i < n PROVE i + 1 \in T
  <2>1. i + 1 \in 1 .. n /\ i + 1 \in 0 .. n /\ (i + 1) - 1 = i
    BY <1>2, <1>8
  <2> DEFINE acc == run[i]
             line == lines[i + 1]
  <2>2. acc \in Group /\ line \in Line /\ run[i + 1] = Grow(acc, line, budget)
    BY <1>2, <1>4, <2>1
  <2>3. k <= i => no \in Nos(Spread(acc))
    BY <1>8
  <2>4. k <= i + 1 => k <= i \/ no = line.no
    <3>1. k <= i + 1 => k <= i \/ k = i + 1
      BY <1>2
    <3> QED  BY <1>6, <3>1
  <2> HIDE DEF acc, line
  <2>5. Spread(Grow(acc, line, budget)) = Spread(acc) \o Bits(line, budget) /\ Spread(acc) \in Seq(Line)
    BY <2>2, SpreadGrows, SpreadOf
  <2>6. Bits(line, budget) \in Seq(Line) /\ Nos(Bits(line, budget)) = {line.no}
    <3>1. IsBits(Bits(line, budget), line)
      BY <2>2, BitsOf
    <3> QED  BY <2>2, <3>1, NosBits DEF IsBits
  <2>7. Nos(Spread(run[i + 1])) = Nos(Spread(acc)) \cup {line.no}
    BY <2>2, <2>5, <2>6, NosJoin
  <2> QED  BY <2>1, <2>3, <2>4, <2>7
<1>9. \A i \in 0 .. n : i \in T
  <2> HIDE DEF T
  <2> QED  BY <1>2, <1>7, <1>8, Climb
<1>10. no \in Nos(Whole(groups))
  BY <1>2, <1>5, <1>6, <1>9
<1> QED  BY <1>5, <1>10, WholeNos DEF groups

\* Of what is cut by lines, the parts say what they hold, the lines are in their
\* order and all there, and none costs more or less than it did.
LEMMA GroupsHold ==
    ASSUME NEW chunk, Numbered(chunk), NEW budget \in Nat
    PROVE  /\ \A i \in 1 .. Len(LineGroups(chunk, budget)) : Spans(LineGroups(chunk, budget)[i])
           /\ Ascending(Whole(LineGroups(chunk, budget)))
           /\ \A no \in Nos(chunk.lines) : \E i \in 1 .. Len(LineGroups(chunk, budget)) :
                 no \in Nos(LineGroups(chunk, budget)[i].lines)
           /\ \A no : Share(Whole(LineGroups(chunk, budget)), no) = Share(chunk.lines, no)
<1> DEFINE lines == chunk.lines
           n == Len(lines)
           from == chunk.from
           groups == LineGroups(chunk, budget)
<1>1. /\ chunk \in Text /\ lines \in Seq(Line) /\ from \in Int
      /\ \A i \in 1 .. n : lines[i].no = from + i - 1
  BY DEF Numbered, Text
<1>a. n \in Nat /\ n \in 0 .. n /\ DOMAIN lines = 1 .. n /\ \A i \in 1 .. n : lines[i] \in Line
  BY <1>1
<1>2. PICK run : Grouped(run, chunk, budget)
  BY <1>1, GroupsRun
<1>3. \A i \in 0 .. n : run[i] \in Group
  BY <1>2 DEF Grouped
<1>4. groups = Closed(run[n]) /\ groups \in Seq(Text)
  BY <1>1, <1>2, LineGroupsOf DEF Grouped
<1>5. Filled(run[n], n, from)
  BY <1>2, <1>a, FilledAlong
<1>6. Whole(groups) = Spread(run[n])
  BY <1>3, <1>4, <1>a, SpreadOf
<1>7. \A i \in 1 .. Len(groups) : Spans(groups[i])
  BY <1>3, <1>4, <1>5, <1>a, ClosedSpans
<1>8. Ascending(Whole(groups)) /\ Nos(Whole(groups)) = from .. from + n - 1
  BY <1>5, <1>6 DEF Filled
<1> HIDE DEF groups, from, lines
<1>9. ASSUME NEW no \in Nos(lines) PROVE \E i \in 1 .. Len(groups) : no \in Nos(groups[i].lines)
  <2>1. PICK i \in 1 .. n : no = lines[i].no
    BY <1>a DEF Nos
  <2>2. no \in from .. from + n - 1
    BY <1>1, <1>a, <2>1
  <2> QED  BY <1>4, <1>8, <2>2, WholeNos
<1>10. ASSUME NEW no PROVE Share(Whole(groups), no) = Share(lines, no)
  <2>1. PICK f : Shares(f, lines, no)
    BY <1>1, ShareRun
  <2>2. /\ f \in [0 .. n -> Nat] /\ f[0] = 0
        /\ \A i \in 1 .. n : f[i] = f[i - 1] + Part(lines[i], no)
        /\ Share(lines, no) = f[n]
    BY <2>1 DEF Shares
  <2> DEFINE T == {i \in 0 .. n : Share(Spread(run[i]), no) = f[i]}
  <2>3. 0 \in T
    <3>1. run[0].groups = <<>> /\ run[0].open = <<>>
      BY <1>2 DEF Grouped
    <3>2. <<>> \o <<>> = <<>>
      OBVIOUS
    <3>3. Spread(run[0]) = <<>>
      BY <3>1, <3>2, WholeNone DEF Spread
    <3> QED  BY <1>a, <2>2, <3>3, ShareNone
  <2>4. ASSUME NEW i \in 0 .. n, i \in T, i < n PROVE i + 1 \in T
    <3>1. i + 1 \in 1 .. n /\ i + 1 \in 0 .. n /\ (i + 1) - 1 = i
      BY <1>a, <2>4
    <3> DEFINE acc == run[i]
               line == lines[i + 1]
    <3>2. acc \in Group /\ line \in Line
      BY <1>3, <1>a, <3>1
    <3>3. run[i + 1] = Grow(acc, line, budget)
      BY <1>2, <3>1 DEF Grouped, lines
    <3>4. f[i + 1] = f[i] + Part(line, no) /\ Share(Spread(acc), no) = f[i]
      BY <2>2, <2>4, <3>1
    <3> HIDE DEF acc, line
    <3>5. Spread(run[i + 1]) = Spread(acc) \o Bits(line, budget) /\ Spread(acc) \in Seq(Line)
      BY <3>2, <3>3, SpreadGrows, SpreadOf
    <3>6. Bits(line, budget) \in Seq(Line) /\ Share(Bits(line, budget), no) = Part(line, no)
      BY <3>2, BitsOf DEF IsBits
    <3>7. Share(Spread(run[i + 1]), no) = f[i + 1]
      BY <3>4, <3>5, <3>6, ShareJoin
    <3> QED  BY <3>1, <3>7
  <2>5. \A i \in 0 .. n : i \in T
    <3> HIDE DEF T, n
    <3> QED  BY <1>a, <2>3, <2>4, Climb
  <2>6. n \in T
    BY <1>a, <2>5
  <2> QED  BY <1>6, <2>2, <2>6
<1> QED  BY <1>7, <1>8, <1>9, <1>10 DEF groups, lines

\* Cut by lines, a text with numbered lines keeps every character in its place, in
\* parts that fit, for every text and budget (_split_chunk_by_lines).
THEOREM SplittingIsSound ==
    ASSUME NEW chunk, Numbered(chunk), NEW budget \in Nat \ {0}
    PROVE  SplitSound(chunk, budget)
<1> DEFINE lines == chunk.lines
           parts == LineGroups(chunk, budget)
           text  == [i \in DOMAIN parts |-> parts[i].lines]
<1>1. chunk \in Text /\ lines \in Seq(Line) /\ budget \in Nat
  BY DEF Numbered, Text
<1>2. parts \in Seq(Text) /\ \A i \in 1 .. Len(parts) : Fitting(parts[i], budget)
  BY <1>1, LineGroupsOf, GroupsFit
<1>3. /\ \A i \in 1 .. Len(parts) : Spans(parts[i])
      /\ Ascending(Whole(parts))
      /\ \A no : Share(Whole(parts), no) = Share(lines, no)
  BY <1>1, GroupsHold
<1> HIDE DEF parts
<1>4. Whole(parts) = FlattenSeq(text)
  BY DEF Whole, LinesOf
<1>5. ASSUME NEW i \in DOMAIN parts
      PROVE  Cost(parts[i].lines) <= budget /\ Nos(parts[i].lines) = parts[i].from .. parts[i].to
  <2>1. i \in 1 .. Len(parts) /\ parts[i] \in Text
    BY <1>2
  <2>2. Fitting(parts[i], budget) /\ Spans(parts[i])
    BY <1>2, <1>3, <2>1
  <2> DEFINE held == parts[i].lines
  <2>3. held \in Seq(Line)
    BY <2>1 DEF Text
  <2>4. Cost(held) <= budget \/ (Len(held) = 1 /\ held[1].cost <= 1)
    BY <2>2 DEF Fitting
  <2> HIDE DEF held
  <2>5. Len(held) = 1 => Cost(held) = held[1].cost /\ held[1] \in Line
    BY <2>3, CostOfOne
  <2>6. Len(held) = 1 => held[1].cost \in Nat
    BY <2>5 DEF Line
  <2>7. Cost(held) <= budget
    BY <2>4, <2>5, <2>6
  <2> QED  BY <2>2, <2>7 DEF Spans, held
<1>6. \A a, b \in DOMAIN FlattenSeq(text) : a < b => FlattenSeq(text)[a].no <= FlattenSeq(text)[b].no
  BY <1>3, <1>4, Zenon DEF Ascending
<1>7. ASSUME NEW line \in ToSet(lines) PROVE Share(FlattenSeq(text), line.no) = line.cost
  <2> DEFINE n == Len(lines)
  <2>1. PICK k \in 1 .. n : line = lines[k]
    BY <1>1 DEF ToSet
  <2>2. ASSUME NEW i \in 1 .. n, NEW j \in 1 .. n, lines[i].no = lines[j].no PROVE i = j
    <3>1. lines[i].no = chunk.from + i - 1 /\ lines[j].no = chunk.from + j - 1 /\ chunk.from \in Int
      BY DEF Numbered, Text
    <3> DEFINE from == chunk.from
    <3> HIDE DEF lines, from
    <3>2. i \in Int /\ j \in Int /\ from \in Int
      BY <1>1, <3>1 DEF from
    <3>3. from + i - 1 = from + j - 1
      BY <2>2, <3>1 DEF from
    <3> QED  BY <3>2, <3>3
  <2> HIDE DEF lines
  <2>3. Share(lines, lines[k].no) = lines[k].cost
    BY <1>1, <2>2, ShareOwn
  <2> QED  BY <1>3, <1>4, <2>1, <2>3
<1> QED  BY <1>5, <1>6, <1>7, Zenon DEF SplitSound, parts

\* What lines hold that are numbered.
LEMMA NosNumbered ==
    ASSUME NEW chunk, Numbered(chunk)
    PROVE  /\ Len(chunk.lines) \in Nat /\ chunk.from \in Int
           /\ Nos(chunk.lines) = chunk.from .. chunk.from + Len(chunk.lines) - 1
<1> DEFINE lines == chunk.lines
           n == Len(lines)
           from == chunk.from
<1>1. lines \in Seq(Line) /\ from \in Int /\ \A i \in 1 .. n : lines[i].no = from + i - 1
  BY DEF Numbered, Text
<1> HIDE DEF lines, from
<1>2. n \in Nat /\ DOMAIN lines = 1 .. n
  BY <1>1
<1> HIDE DEF n
<1>3. ASSUME NEW no \in from .. from + n - 1 PROVE no \in Nos(lines)
  <2>1. no - from + 1 \in 1 .. n /\ from + (no - from + 1) - 1 = no
    BY <1>1, <1>2
  <2> QED  BY <1>1, <1>2, <2>1 DEF Nos
<1>4. ASSUME NEW no \in Nos(lines) PROVE no \in from .. from + n - 1
  <2>1. PICK i \in 1 .. n : no = lines[i].no
    BY <1>2 DEF Nos
  <2> QED  BY <1>1, <1>2, <2>1
<1> QED  BY <1>1, <1>2, <1>3, <1>4 DEF n, lines, from

\* A slice of numbered lines is numbered.
LEMMA SliceHolds ==
    ASSUME NEW chunk, Numbered(chunk), NEW a \in Nat, NEW b \in Nat, a <= b, b <= Len(chunk.lines)
    PROVE  /\ Numbered(Slice(chunk, a, b))
           /\ Nos(Slice(chunk, a, b).lines) = chunk.from + a .. chunk.from + b - 1
           /\ Len(Slice(chunk, a, b).lines) = b - a
           /\ \A i \in 1 .. b - a : Slice(chunk, a, b).lines[i] = chunk.lines[a + i]
<1> DEFINE lines == chunk.lines
           part == SubSeq(lines, a + 1, b)
           slice == Slice(chunk, a, b)
           from == chunk.from
<1>1. /\ chunk \in Text /\ lines \in Seq(Line) /\ from \in Int
      /\ \A i \in 1 .. Len(lines) : lines[i].no = from + i - 1
  BY DEF Numbered, Text
<1>2. slice \in Text /\ Len(slice.lines) = b - a
  BY <1>1, SliceOf
<1>3. slice.lines = part /\ slice.from = from + a
  BY DEF Slice, Chunk
<1> HIDE DEF slice, lines, from
<1>4. ASSUME NEW i \in 1 .. b - a PROVE part[i] = lines[a + i] /\ a + i \in 1 .. Len(lines)
  <2>1. \A j \in a + 1 .. b : j \in 1 .. Len(lines)
    BY DEF lines
  <2>2. \A j \in a + 1 .. b : lines[j] \in Line
    BY <1>1, <2>1
  <2>3. i \in 1 .. b - (a + 1) + 1 /\ (a + 1) + i - 1 = a + i
    OBVIOUS
  <2>4. part[i] = lines[(a + 1) + i - 1]
    BY <2>2, <2>3, SubSeqProperties
  <2> QED  BY <2>1, <2>3, <2>4
<1> HIDE DEF part
<1>5. ASSUME NEW i \in 1 .. Len(slice.lines) PROVE slice.lines[i].no = slice.from + i - 1
  <2>1. part[i] = lines[a + i] /\ lines[a + i].no = from + (a + i) - 1
    BY <1>1, <1>2, <1>4
  <2> QED  BY <1>1, <1>3, <2>1
<1>6. Numbered(slice)
  BY <1>2, <1>5 DEF Numbered
<1>7. Nos(slice.lines) = slice.from .. slice.from + Len(slice.lines) - 1
  BY <1>6, NosNumbered
<1>8. slice.from + Len(slice.lines) - 1 = from + b - 1
  BY <1>1, <1>2, <1>3
<1> QED  BY <1>2, <1>3, <1>4, <1>6, <1>7, <1>8 DEF slice, lines, from

\* Where the blocks end; one more is left after the last statement.
Mark(body, all, i) == IF i <= Len(body) THEN End(body, i) ELSE all

\* The marks go up, from the start of the text to its end.
LEMMA MarksOf ==
    ASSUME NEW all \in Nat, NEW body, Statements(body, all)
    PROVE  /\ Len(body) \in Nat /\ DOMAIN body = 1 .. Len(body)
           /\ Mark(body, all, 0) = 0 /\ Mark(body, all, Len(body) + 1) = all
           /\ \A i \in 0 .. Len(body) + 1 : Mark(body, all, i) \in 0 .. all
           /\ \A i, j \in 0 .. Len(body) + 1 : i <= j => Mark(body, all, i) <= Mark(body, all, j)
<1> DEFINE n == Len(body)
           m(i) == Mark(body, all, i)
<1>1. n \in Nat /\ DOMAIN body = 1 .. n
  BY DEF Statements
<1>2. \A i \in 1 .. n : body[i].last \in 0 .. all /\ End(body, i - 1) <= End(body, i)
  BY <1>1 DEF Statements
<1>3. m(0) = 0 /\ m(n + 1) = all
  BY <1>1 DEF Mark, End
<1>4. \A i \in 0 .. n : m(i) = End(body, i) /\ End(body, i) \in 0 .. all
  BY <1>1, <1>2 DEF Mark, End
<1> HIDE DEF m, n
<1>5. \A i \in 0 .. n + 1 : m(i) \in 0 .. all
  <2> TAKE i \in 0 .. n + 1
  <2>1. i \in 0 .. n \/ i = n + 1
    BY <1>1
  <2> QED  BY <1>3, <1>4, <2>1
<1>6. ASSUME NEW i \in 0 .. n + 1, i < n + 1 PROVE m(i) <= m(i + 1)
  <2>1. CASE i < n
    <3>1. i + 1 \in 1 .. n /\ (i + 1) - 1 = i /\ i \in 0 .. n /\ i + 1 \in 0 .. n
      BY <1>1, <2>1
    <3> QED  BY <1>2, <1>4, <3>1
  <2>2. CASE ~(i < n)
    <3>1. i = n /\ n \in 0 .. n + 1
      BY <1>1, <1>6, <2>2
    <3> QED  BY <1>3, <1>5, <3>1
  <2> QED  BY <2>1, <2>2
<1>7. ASSUME NEW i \in 0 .. n + 1, NEW j \in 0 .. n + 1, i <= j PROVE m(i) <= m(j)
  <2> DEFINE T == {k \in 0 .. n + 1 : i <= k => m(i) <= m(k)}
  <2>1. 0 \in T
    <3>1. i <= 0 => i = 0
      OBVIOUS
    <3> QED  BY <1>1, <1>5, <3>1
  <2>2. ASSUME NEW k \in 0 .. n + 1, k \in T, k < n + 1 PROVE k + 1 \in T
    <3>1. k + 1 \in 0 .. n + 1 /\ m(k) <= m(k + 1) /\ m(k) \in Nat /\ m(k + 1) \in Nat /\ m(i) \in Nat
      BY <1>1, <1>5, <1>6, <2>2
    <3>2. i <= k + 1 => i <= k \/ i = k + 1
      BY <1>1
    <3> QED  BY <2>2, <3>1, <3>2
  <2>3. \A k \in 0 .. n + 1 : k \in T
    <3>1. n + 1 \in Nat
      BY <1>1
    <3> HIDE DEF T
    <3> QED  BY <2>1, <2>2, <3>1, Climb
  <2> QED  BY <1>7, <2>3
<1> QED  BY <1>1, <1>3, <1>5, <1>7 DEF n, m

\* The blocks are the text between the marks, and every line is in one.
LEMMA BlocksAt ==
    ASSUME NEW chunk \in Text, NEW body, NEW all, all = Len(chunk.lines), Statements(body, all)
    PROVE  /\ \A i \in DOMAIN Blocks(chunk, body) :
                 /\ i \in 1 .. Len(body) + 1
                 /\ Blocks(chunk, body)[i].chunk = Slice(chunk, Mark(body, all, i - 1), Mark(body, all, i))
                 /\ Blocks(chunk, body)[i].stmt.def => i \in DOMAIN body
           /\ \A p \in 1 .. all : \E i \in DOMAIN Blocks(chunk, body) :
                 Mark(body, all, i - 1) < p /\ p <= Mark(body, all, i)
<1> DEFINE n == Len(body)
           m(i) == Mark(body, all, i)
           first == [i \in 1 .. n |-> [stmt |-> body[i], chunk |-> Slice(chunk, End(body, i - 1), End(body, i))]]
           left == [stmt |-> [def |-> FALSE], chunk |-> Slice(chunk, End(body, n), all)]
           rest == IF End(body, n) = all THEN <<>> ELSE <<left>>
           blocks == Blocks(chunk, body)
<1>1. all \in Nat
  <2>1. chunk.lines \in Seq(Line)
    BY DEF Text
  <2> QED  BY <2>1
<1>2. /\ n \in Nat /\ DOMAIN body = 1 .. n /\ m(0) = 0 /\ m(n + 1) = all
      /\ \A i \in 0 .. n + 1 : m(i) \in 0 .. all
  BY <1>1, MarksOf
<1>3. \A i \in 0 .. n : m(i) = End(body, i)
  BY <1>2 DEF Mark
<1>4. blocks = first \o rest
  BY <1>2 DEF Blocks
<1>5. DOMAIN first = 1 .. n /\ Len(first) = n
  BY <1>2
<1>6. \A i \in 1 .. n : first[i].chunk = Slice(chunk, End(body, i - 1), End(body, i))
  OBVIOUS
<1>7. left.stmt.def = FALSE /\ left.chunk = Slice(chunk, End(body, n), all)
  OBVIOUS
<1> HIDE DEF first, left, m, n
<1>8. rest = <<>> \/ (rest = <<left>> /\ End(body, n) # all)
  OBVIOUS
<1>9. End(body, n) # all => Len(rest) = 1 /\ rest[1] = left
  OBVIOUS
<1>10. End(body, n) = all => Len(rest) = 0
  OBVIOUS
<1> HIDE DEF rest
<1>11. /\ DOMAIN blocks = 1 .. n + Len(rest)
       /\ \A i \in 1 .. n : blocks[i] = first[i]
       /\ \A i \in 1 .. Len(rest) : blocks[n + i] = rest[i]
  <2>1. first = [i \in 1 .. n |-> first[i]]
    BY DEF first, n
  <2> DEFINE S == {first[i] : i \in 1 .. n} \cup {left}
  <2>2. \A i \in 1 .. n : first[i] \in S
    OBVIOUS
  <2>3. left \in S
    OBVIOUS
  <2> HIDE DEF S
  <2>4. first \in Seq(S)
    BY <1>2, <1>5, <2>1, <2>2
  <2>5. rest \in Seq(S)
    <3>1. <<>> \in Seq(S) /\ <<left>> \in Seq(S)
      BY <2>3
    <3> QED  BY <1>8, <3>1
  <2>6. /\ blocks \in Seq(S) /\ Len(blocks) = Len(first) + Len(rest)
        /\ \A i \in 1 .. Len(first) : blocks[i] = first[i]
        /\ \A i \in 1 .. Len(rest) : blocks[Len(first) + i] = rest[i]
    BY <1>4, <2>4, <2>5, JoinOf
  <2> HIDE DEF blocks
  <2>7. DOMAIN blocks = 1 .. Len(blocks)
    BY <2>6
  <2> QED  BY <1>5, <2>6, <2>7
<1> HIDE DEF blocks
<1>12. ASSUME NEW i \in DOMAIN blocks
       PROVE  /\ i \in 1 .. n + 1 /\ blocks[i].chunk = Slice(chunk, m(i - 1), m(i))
              /\ blocks[i].stmt.def => i \in DOMAIN body
  <2>1. CASE i <= n
    <3>1. i \in 1 .. n /\ i - 1 \in 0 .. n /\ i \in 0 .. n /\ i \in 1 .. n + 1
      BY <1>2, <1>11, <2>1
    <3>2. blocks[i].chunk = Slice(chunk, End(body, i - 1), End(body, i))
      BY <1>6, <1>11, <3>1
    <3> QED  BY <1>2, <1>3, <3>1, <3>2
  <2>2. CASE ~(i <= n)
    <3>1. Len(rest) = 1 /\ rest[1] = left /\ i = n + 1
      <4>1. Len(rest) = 0 \/ (Len(rest) = 1 /\ rest[1] = left)
        BY <1>9, <1>10
      <4> QED  BY <1>2, <1>11, <2>2, <4>1
    <3>2. blocks[i] = left
      <4>1. 1 \in 1 .. Len(rest)
        BY <3>1
      <4> QED  BY <1>11, <3>1, <4>1
    <3>3. m(i - 1) = End(body, n) /\ m(i) = all /\ i \in 1 .. n + 1
      BY <1>2, <1>3, <3>1
    <3> QED  BY <1>7, <3>2, <3>3
  <2> QED  BY <2>1, <2>2
<1>13. ASSUME NEW p \in 1 .. all PROVE \E i \in DOMAIN blocks : m(i - 1) < p /\ p <= m(i)
  <2> DEFINE T == {i \in 0 .. n + 1 : p <= m(i)}
  <2>1. n + 1 \in T /\ T \in SUBSET Nat /\ 0 \notin T
    BY <1>1, <1>2
  <2>2. PICK i \in T : \A j \in T : i <= j
    <3> HIDE DEF T
    <3> QED  BY <2>1, MinOf
  <2>3. i \in 1 .. n + 1 /\ p <= m(i) /\ i - 1 \in 0 .. n + 1 /\ i - 1 < i
    BY <1>2, <2>1, <2>2
  <2>4. i - 1 \notin T
    <3> HIDE DEF T
    <3> QED  BY <2>2, <2>3
  <2>5. m(i - 1) < p
    <3>1. m(i - 1) \in Nat /\ ~(p <= m(i - 1))
      BY <1>1, <1>2, <2>3, <2>4
    <3> QED  BY <3>1
  <2>6. i \in DOMAIN blocks
    <3>1. CASE i <= n
      <4>1. Len(rest) \in Nat
        BY <1>9, <1>10
      <4> QED  BY <1>2, <1>11, <2>3, <3>1, <4>1
    <3>2. CASE ~(i <= n)
      <4>1. i = n + 1 /\ i - 1 = n /\ n \in 0 .. n
        BY <1>2, <2>3, <3>2
      <4>2. End(body, n) # all
        <5>1. m(n) < p /\ m(n) = End(body, n)
          BY <1>3, <2>5, <4>1
        <5> QED  BY <1>1, <5>1
      <4>3. Len(rest) = 1
        BY <1>9, <4>2
      <4> QED  BY <1>2, <1>11, <4>1, <4>3
    <3> QED  BY <3>1, <3>2
  <2> QED  BY <2>3, <2>5, <2>6
<1> QED  BY <1>12, <1>13 DEF m, n, blocks

\* A class's text is numbered; of other units it does not matter.
Lettered(unit) == unit.body # <<>> => Numbered(unit.chunk)

\* A method is part of a class, and of its text.
LEMMA MethodsIn ==
    ASSUME NEW unit, UnitOf(unit), Lettered(unit),
           NEW block \in ToSet(Definitions(Blocks(unit.chunk, unit.body)))
    PROVE  /\ unit.body # <<>> /\ Numbered(block.chunk)
           /\ Nos(block.chunk.lines) \subseteq Nos(unit.chunk.lines)
<1> DEFINE chunk == unit.chunk
           body == unit.body
           all == Len(chunk.lines)
           blocks == Blocks(chunk, body)
           defs == Definitions(blocks)
<1>1. chunk \in Text /\ Statements(body, all)
  BY DEF UnitOf
<1>2. all \in Nat
  <2>1. chunk.lines \in Seq(Line)
    BY <1>1 DEF Text
  <2> QED  BY <2>1
<1>3. PICK k \in DOMAIN defs : block = defs[k]
  BY DEF ToSet
<1>4. Sequence(blocks)
  BY <1>1, BlocksOf
<1>5. PICK i \in DOMAIN blocks : blocks[i].stmt.def /\ block = blocks[i]
  <2> HIDE DEF blocks
  <2> QED  BY <1>3, <1>4, DefinitionsOf
<1> HIDE DEF defs
<1>6. /\ i \in 1 .. Len(body) + 1 /\ block.chunk = Slice(chunk, Mark(body, all, i - 1), Mark(body, all, i))
      /\ i \in DOMAIN body
  BY <1>1, <1>5, BlocksAt
<1>7. body # <<>>
  BY <1>6
<1>8. Numbered(chunk)
  BY <1>7 DEF Lettered
<1> DEFINE a == Mark(body, all, i - 1)
           b == Mark(body, all, i)
<1>9. a \in Nat /\ b \in Nat /\ a <= b /\ b <= all
  <2>1. /\ Len(body) \in Nat
        /\ \A j \in 0 .. Len(body) + 1 : Mark(body, all, j) \in 0 .. all
        /\ \A j, k2 \in 0 .. Len(body) + 1 : j <= k2 => Mark(body, all, j) <= Mark(body, all, k2)
    BY <1>1, <1>2, MarksOf
  <2>2. i - 1 \in 0 .. Len(body) + 1 /\ i \in 0 .. Len(body) + 1 /\ i - 1 <= i
    BY <1>6, <2>1
  <2> HIDE DEF all
  <2>3. a \in 0 .. all /\ b \in 0 .. all /\ a <= b
    BY <2>1, <2>2
  <2> QED  BY <1>2, <2>3
<1> HIDE DEF a, b, body, chunk, blocks
<1>10. Numbered(Slice(chunk, a, b)) /\ Nos(Slice(chunk, a, b).lines) = chunk.from + a .. chunk.from + b - 1
  BY <1>8, <1>9, SliceHolds
<1>11. Nos(chunk.lines) = chunk.from .. chunk.from + all - 1 /\ chunk.from \in Int
  BY <1>8, NosNumbered
<1>12. chunk.from + a .. chunk.from + b - 1 \subseteq chunk.from .. chunk.from + all - 1
  <2> HIDE DEF all
  <2> QED  BY <1>2, <1>9, <1>11
<1> QED  BY <1>6, <1>7, <1>10, <1>11, <1>12 DEF a, b, body, chunk

\* A line of a method is in one of the pieces that a class is cut into.
LEMMA PiecesHold ==
    ASSUME NEW unit, UnitOf(unit), Lettered(unit), NEW budget \in Nat,
           NEW block \in ToSet(Definitions(Blocks(unit.chunk, unit.body))),
           NEW no \in Nos(block.chunk.lines)
    PROVE  \E j \in DOMAIN SplitUnit(unit, budget) : no \in Nos(SplitUnit(unit, budget)[j].chunk.lines)
<1> DEFINE byLines == WrapAsUnits(unit, LineGroups(unit.chunk, budget))
           prefix  == SignatureOf(unit.chunk, unit.bodyLine) \o <<[no |-> 0, cost |-> unit.doc]>>
           Piece(b) ==
               [unit EXCEPT !.name = Append(@, b.stmt.name), !.body = <<>>, !.calls = b.stmt.calls,
                            !.chunk = [b.chunk EXCEPT !.lines = prefix \o @]]
           Pieces(b) ==
               IF Cost(Piece(b).chunk.lines) > budget
               THEN WrapAsUnits(Piece(b), LineGroups(b.chunk, budget))
               ELSE <<Piece(b)>>
           methods == Definitions(Blocks(unit.chunk, unit.body))
           lists   == [i \in DOMAIN methods |-> Pieces(methods[i])]
           pieces  == FlattenSeq(lists)
           Has(piece) == no \in Nos(piece.chunk.lines)
<1>1. SplitUnit(unit, budget) = IF unit.body # <<>> /\ pieces # <<>> THEN pieces ELSE byLines
  BY DEF SplitUnit
<1>2. unit.body # <<>>
  BY MethodsIn
<1> HIDE DEF byLines
<1>3. prefix \in Seq(Line)
  <2> DEFINE signature == SignatureOf(unit.chunk, unit.bodyLine)
             line == [no |-> 0, cost |-> unit.doc]
  <2>1. signature \in Seq(Line)
    BY SignatureOfLines DEF UnitOf
  <2>2. line \in Line
    BY DEF UnitOf, Line
  <2> HIDE DEF signature, line
  <2>3. signature \o <<line>> \in Seq(Line)
    BY <2>1, <2>2
  <2> QED  BY <2>3 DEF signature, line
<1> HIDE DEF prefix
<1>4. Sequence(methods) /\ \A b \in ToSet(methods) : Numbered(b.chunk)
  <2>1. Sequence(Blocks(unit.chunk, unit.body))
    BY BlocksOf DEF UnitOf
  <2>2. Sequence(methods)
    BY <2>1, DefinitionsOf
  <2> QED  BY <2>2, MethodsIn
<1>5. PICK k \in DOMAIN methods : block = methods[k]
  BY DEF ToSet
<1> HIDE DEF methods
<1>6. ASSUME NEW i \in DOMAIN methods PROVE Sequence(Pieces(methods[i]))
  <2> DEFINE piece == Piece(methods[i])
             groups == LineGroups(methods[i].chunk, budget)
             wrapped == WrapAsUnits(piece, groups)
  <2>1. groups \in Seq(Text)
    <3>1. methods[i].chunk \in Text
      BY <1>4 DEF Numbered, ToSet
    <3> QED  BY <3>1, LineGroupsOf
  <2> HIDE DEF groups
  <2>2. Len(groups) \in Nat /\ DOMAIN groups = 1 .. Len(groups)
    BY <2>1
  <2>3. DOMAIN wrapped = 1 .. Len(groups) /\ wrapped = [j \in 1 .. Len(groups) |-> wrapped[j]]
    BY <2>2 DEF WrapAsUnits
  <2>4. <<piece>> \in Seq({piece})
    OBVIOUS
  <2> HIDE DEF wrapped, piece
  <2>5. Sequence(wrapped) /\ Sequence(<<piece>>)
    BY <2>2, <2>3, <2>4, FunctionSequence, SequenceOf
  <2>6. Pieces(methods[i]) = wrapped \/ Pieces(methods[i]) = <<piece>>
    BY DEF wrapped, piece, groups
  <2> HIDE DEF Pieces
  <2> QED  BY <2>5, <2>6
<1>7. \E p \in DOMAIN Pieces(block) : Has(Pieces(block)[p])
  <2> DEFINE piece == Piece(block)
             lines == block.chunk.lines
             groups == LineGroups(block.chunk, budget)
             wrapped == WrapAsUnits(piece, groups)
  <2>1. Numbered(block.chunk)
    BY MethodsIn
  <2>2. lines \in Seq(Line) /\ block.chunk \in [from : Int, to : Int, lines : Seq(Line)]
    BY <2>1 DEF Numbered, Text
  <2>3. piece.chunk.lines = prefix \o lines /\ "chunk" \in DOMAIN piece /\ "body" \in DOMAIN piece
    BY <2>2 DEF UnitOf
  <2>4. groups \in Seq(Text) /\ \E i \in 1 .. Len(groups) : no \in Nos(groups[i].lines)
    <3>1. block.chunk \in Text
      BY <2>1 DEF Numbered
    <3> QED  BY <2>1, <3>1, GroupsHold, LineGroupsOf
  <2>5. Pieces(block) = IF Cost(piece.chunk.lines) > budget THEN wrapped ELSE <<piece>>
    OBVIOUS
  <2> HIDE DEF groups, piece, lines
  <2>6. CASE Cost(piece.chunk.lines) > budget
    <3>1. PICK i \in 1 .. Len(groups) : no \in Nos(groups[i].lines)
      BY <2>4
    <3>2. i \in DOMAIN groups
      BY <2>4
    <3>3. i \in DOMAIN wrapped /\ wrapped[i] = [piece EXCEPT !.name = Append(@, i), !.chunk = groups[i], !.body = <<>>]
      BY <3>2 DEF WrapAsUnits
    <3>4. wrapped[i].chunk = groups[i]
      BY <2>3, <3>3
    <3> HIDE DEF wrapped, Pieces
    <3> QED  BY <2>5, <2>6, <3>1, <3>3, <3>4
  <2>7. CASE ~(Cost(piece.chunk.lines) > budget)
    <3>1. Has(piece)
      <4>1. no \in Nos(lines)
        BY DEF lines
      <4> QED  BY <1>3, <2>2, <2>3, <4>1, NosJoin
    <3>2. 1 \in DOMAIN <<piece>> /\ <<piece>>[1] = piece
      OBVIOUS
    <3> HIDE DEF Pieces, wrapped, Has
    <3> QED  BY <2>5, <2>7, <3>1, <3>2
  <2> QED  BY <2>6, <2>7
<1> HIDE DEF Pieces, Piece
<1>8. Sequence(lists) /\ \A i \in DOMAIN lists : Sequence(lists[i])
  <2>1. Len(methods) \in Nat /\ DOMAIN methods = 1 .. Len(methods)
    BY <1>4, DomainSequence
  <2>2. DOMAIN lists = 1 .. Len(methods) /\ lists = [i \in 1 .. Len(methods) |-> lists[i]]
        /\ \A i \in DOMAIN lists : Sequence(lists[i])
    BY <1>6, <2>1
  <2> HIDE DEF lists
  <2> QED  BY <2>1, <2>2, FunctionSequence
<1>9. k \in DOMAIN lists /\ lists[k] = Pieces(block)
  BY <1>5
<1> HIDE DEF lists
<1>10. Sequence(pieces) /\ Holds(pieces, lists, Len(lists)) /\ DOMAIN lists = 1 .. Len(lists)
  BY <1>8, FlattenSequence, DomainSequence
<1> HIDE DEF pieces
<1>11. PICK p \in DOMAIN lists[k] : Has(lists[k][p])
  BY <1>7, <1>9
<1>12. PICK j \in DOMAIN pieces : pieces[j] = lists[k][p]
  BY <1>9, <1>10, <1>11 DEF Holds
<1>13. pieces # <<>>
  <2>1. DOMAIN pieces # {}
    BY <1>12
  <2> QED  BY <2>1
<1>14. SplitUnit(unit, budget) = pieces
  BY <1>1, <1>2, <1>13
<1> QED  BY <1>11, <1>12, <1>14

\* Cut by lines, a unit leaves every line of it to some piece.
LEMMA ByLinesHold ==
    ASSUME NEW unit, UnitOf(unit), NEW budget \in Nat, NEW no \in Nos(unit.chunk.lines),
           SplitUnit(unit, budget) = WrapAsUnits(unit, LineGroups(unit.chunk, budget))
    PROVE  \E j \in DOMAIN SplitUnit(unit, budget) : no \in Nos(SplitUnit(unit, budget)[j].chunk.lines)
<1> DEFINE groups == LineGroups(unit.chunk, budget)
           pieces == WrapAsUnits(unit, groups)
<1>1. groups \in Seq(Text) /\ \E i \in 1 .. Len(groups) : no \in Nos(groups[i].lines)
  <2>1. unit.chunk \in Text
    BY DEF UnitOf
  <2> QED  BY <2>1, GroupsKeep, LineGroupsOf
<1> HIDE DEF groups
<1>2. PICK i \in DOMAIN groups : no \in Nos(groups[i].lines)
  BY <1>1
<1>3. pieces[i] = [unit EXCEPT !.name = Append(@, i), !.chunk = groups[i], !.body = <<>>] /\ i \in DOMAIN pieces
  BY <1>2 DEF WrapAsUnits
<1>4. pieces[i].chunk = groups[i]
  BY <1>3 DEF UnitOf
<1> HIDE DEF pieces
<1> QED  BY <1>2, <1>3, <1>4 DEF pieces, groups

\* Of no lists, nothing is put together.
LEMMA FlattenNone == FlattenSeq(<<>>) = <<>>
<1>1. <<>> \in Seq(Seq(Line)) /\ Len(<<>>) = 0
  OBVIOUS
<1>2. PICK f \in [0 .. Len(<<>>) -> Seq(Line)] : f[0] = <<>> /\ FlattenSeq(<<>>) = f[Len(<<>>)]
  BY <1>1, FlattenSeqGrows
<1> QED  BY <1>1, <1>2

\* Without methods, a unit is cut by lines.
LEMMA NoMethods ==
    ASSUME NEW unit, NEW budget, Definitions(Blocks(unit.chunk, unit.body)) = <<>>
    PROVE  SplitUnit(unit, budget) = WrapAsUnits(unit, LineGroups(unit.chunk, budget))
<1> DEFINE byLines == WrapAsUnits(unit, LineGroups(unit.chunk, budget))
           prefix  == SignatureOf(unit.chunk, unit.bodyLine) \o <<[no |-> 0, cost |-> unit.doc]>>
           Piece(b) ==
               [unit EXCEPT !.name = Append(@, b.stmt.name), !.body = <<>>, !.calls = b.stmt.calls,
                            !.chunk = [b.chunk EXCEPT !.lines = prefix \o @]]
           Pieces(b) ==
               IF Cost(Piece(b).chunk.lines) > budget
               THEN WrapAsUnits(Piece(b), LineGroups(b.chunk, budget))
               ELSE <<Piece(b)>>
           methods == Definitions(Blocks(unit.chunk, unit.body))
           lists   == [i \in DOMAIN methods |-> Pieces(methods[i])]
           pieces  == FlattenSeq(lists)
<1>1. SplitUnit(unit, budget) = IF unit.body # <<>> /\ pieces # <<>> THEN pieces ELSE byLines
  BY DEF SplitUnit
<1> HIDE DEF Pieces, byLines
<1>2. lists = <<>>
  BY DEF lists
<1> HIDE DEF lists
<1>3. pieces = <<>>
  BY <1>2, FlattenNone
<1> QED  BY <1>1, <1>3 DEF byLines

\* The lines of a unit are in its leaves, but for those beside the methods of a class
\* that is over the budget.
LEMMA LeavesHold ==
    ASSUME NEW unit, UnitOf(unit), Lettered(unit), NEW header, NEW budget \in Nat,
           NEW no \in Nos(unit.chunk.lines) \ UNION {Nos(leaf.chunk.lines) : leaf \in ToSet(Leaves(unit, header, budget))}
    PROVE  /\ ~IsAtom(unit, header, budget) /\ Definitions(Blocks(unit.chunk, unit.body)) # <<>>
           /\ \A method \in ToSet(Definitions(Blocks(unit.chunk, unit.body))) : no \notin Nos(method.chunk.lines)
<1> DEFINE pieces == SplitUnit(unit, budget)
           leaves == Leaves(unit, header, budget)
           methods == Definitions(Blocks(unit.chunk, unit.body))
<1>1. leaves = IF IsAtom(unit, header, budget) \/ Len(pieces) <= 1 THEN <<unit>> ELSE pieces
  BY DEF Leaves
<1>2. \A leaf \in ToSet(leaves) : no \notin Nos(leaf.chunk.lines)
  <2> HIDE DEF leaves
  <2>1. no \notin UNION {Nos(leaf.chunk.lines) : leaf \in ToSet(leaves)}
    BY DEF leaves
  <2> QED  BY <2>1
<1>4. methods = <<>> => \E j \in DOMAIN pieces : no \in Nos(pieces[j].chunk.lines)
  BY NoMethods, ByLinesHold
<1>5. \A method \in ToSet(methods) : no \in Nos(method.chunk.lines) =>
         \E j \in DOMAIN pieces : no \in Nos(pieces[j].chunk.lines)
  BY PiecesHold
<1> HIDE DEF leaves, pieces, methods
<1>6. leaves # <<unit>>
  <2> SUFFICES ASSUME leaves = <<unit>> PROVE FALSE
    OBVIOUS
  <2>1. unit \in ToSet(leaves)
    BY DEF ToSet
  <2> QED  BY <1>2, <2>1
<1>7. leaves = pieces /\ ~IsAtom(unit, header, budget)
  BY <1>1, <1>6
<1>8. ~ \E j \in DOMAIN pieces : no \in Nos(pieces[j].chunk.lines)
  BY <1>2, <1>7 DEF ToSet
<1> QED  BY <1>4, <1>5, <1>7, <1>8 DEF methods

\* The blocks of a numbered text share no line, and hold every line of it.
LEMMA BlocksHold ==
    ASSUME NEW chunk, Numbered(chunk), NEW body, Statements(body, Len(chunk.lines))
    PROVE  /\ \A i \in DOMAIN Blocks(chunk, body) : Numbered(Blocks(chunk, body)[i].chunk)
           /\ \A i, j \in DOMAIN Blocks(chunk, body) : i # j =>
                 Nos(Blocks(chunk, body)[i].chunk.lines) \cap Nos(Blocks(chunk, body)[j].chunk.lines) = {}
           /\ \A p \in 1 .. Len(chunk.lines) : \E i \in DOMAIN Blocks(chunk, body) :
                 /\ chunk.lines[p].no \in Nos(Blocks(chunk, body)[i].chunk.lines)
                 /\ chunk.lines[p].cost > 0 => ~Blank(Blocks(chunk, body)[i].chunk.lines)
<1> DEFINE lines == chunk.lines
           all == Len(lines)
           n == Len(body)
           from == chunk.from
           blocks == Blocks(chunk, body)
           m(i) == Mark(body, all, i)
           At(i) == blocks[i].chunk
<1>1. chunk \in Text /\ lines \in Seq(Line) /\ from \in Int /\ all \in Nat
      /\ \A p \in 1 .. all : lines[p].no = from + p - 1
  <2>1. chunk \in Text /\ lines \in Seq(Line) /\ from \in Int
    BY DEF Numbered, Text
  <2> QED  BY <2>1 DEF Numbered
<1>2. /\ n \in Nat
      /\ \A i \in 0 .. n + 1 : m(i) \in 0 .. all
      /\ \A i, j \in 0 .. n + 1 : i <= j => m(i) <= m(j)
  BY <1>1, MarksOf
<1>3. /\ \A i \in DOMAIN blocks : i \in 1 .. n + 1 /\ At(i) = Slice(chunk, m(i - 1), m(i))
      /\ \A p \in 1 .. all : \E i \in DOMAIN blocks : m(i - 1) < p /\ p <= m(i)
  BY <1>1, BlocksAt
<1> HIDE DEF m, n, blocks
<1>4. ASSUME NEW i \in DOMAIN blocks
      PROVE  /\ i \in Int /\ i - 1 \in 0 .. n + 1 /\ i \in 0 .. n + 1
             /\ m(i - 1) \in Nat /\ m(i) \in Nat /\ m(i - 1) <= m(i) /\ m(i) <= all
             /\ At(i) = Slice(chunk, m(i - 1), m(i))
  <2>1. i \in 1 .. n + 1 /\ At(i) = Slice(chunk, m(i - 1), m(i))
    BY <1>3
  <2>2. i \in Int /\ i - 1 \in 0 .. n + 1 /\ i \in 0 .. n + 1 /\ i - 1 <= i
    BY <1>2, <2>1
  <2>3. m(i - 1) \in 0 .. all /\ m(i) \in 0 .. all /\ m(i - 1) <= m(i)
    BY <1>2, <2>2
  <2> HIDE DEF all, At
  <2> QED  BY <1>1, <2>1, <2>2, <2>3
<1>5. ASSUME NEW i \in DOMAIN blocks
      PROVE  /\ Numbered(At(i)) /\ Nos(At(i).lines) = from + m(i - 1) .. from + m(i) - 1
             /\ Len(At(i).lines) = m(i) - m(i - 1)
             /\ \A q \in 1 .. m(i) - m(i - 1) : At(i).lines[q] = lines[m(i - 1) + q]
  <2> DEFINE a == m(i - 1)
             b == m(i)
  <2>1. a \in Nat /\ b \in Nat /\ a <= b /\ b <= Len(chunk.lines) /\ At(i) = Slice(chunk, a, b)
    BY <1>4
  <2> HIDE DEF a, b, At
  <2>2. /\ Numbered(Slice(chunk, a, b)) /\ Nos(Slice(chunk, a, b).lines) = chunk.from + a .. chunk.from + b - 1
        /\ Len(Slice(chunk, a, b).lines) = b - a
        /\ \A q \in 1 .. b - a : Slice(chunk, a, b).lines[q] = chunk.lines[a + q]
    BY <2>1, SliceHolds
  <2> QED  BY <2>1, <2>2 DEF a, b
<1> HIDE DEF At
<1>6. ASSUME NEW i \in DOMAIN blocks, NEW j \in DOMAIN blocks, i < j
      PROVE  Nos(At(i).lines) \cap Nos(At(j).lines) = {}
  <2>1. i <= j - 1 /\ m(i) <= m(j - 1)
    <3>1. i \in 0 .. n + 1 /\ j - 1 \in 0 .. n + 1 /\ i <= j - 1
      BY <1>4, <1>6
    <3> QED  BY <1>2, <3>1
  <2>2. Nos(At(i).lines) = from + m(i - 1) .. from + m(i) - 1 /\ Nos(At(j).lines) = from + m(j - 1) .. from + m(j) - 1
    BY <1>5
  <2>3. m(i - 1) \in Nat /\ m(i) \in Nat /\ m(j - 1) \in Nat /\ m(j) \in Nat
    BY <1>4
  <2> QED  BY <1>1, <2>1, <2>2, <2>3
<1>7. ASSUME NEW i \in DOMAIN blocks, NEW j \in DOMAIN blocks, i # j
      PROVE  Nos(At(i).lines) \cap Nos(At(j).lines) = {}
  <2>1. i < j \/ j < i
    BY <1>4, <1>7
  <2> QED  BY <1>6, <2>1
<1>8. ASSUME NEW p \in 1 .. all
      PROVE  \E i \in DOMAIN blocks : /\ lines[p].no \in Nos(At(i).lines)
                                      /\ lines[p].cost > 0 => ~Blank(At(i).lines)
  <2>1. PICK i \in DOMAIN blocks : m(i - 1) < p /\ p <= m(i)
    BY <1>3
  <2>2. m(i - 1) \in Nat /\ m(i) \in Nat /\ p \in Nat /\ lines[p].no = from + p - 1
    BY <1>1, <1>4
  <2>3. lines[p].no \in Nos(At(i).lines)
    BY <1>1, <1>5, <2>1, <2>2
  <2> DEFINE q == p - m(i - 1)
             held == At(i).lines
  <2>4. q \in 1 .. m(i) - m(i - 1) /\ m(i - 1) + q = p
    BY <2>1, <2>2
  <2>5. held[q] = lines[p] /\ Len(held) = m(i) - m(i - 1) /\ held \in Seq(Line)
    BY <1>5, <2>4 DEF Numbered, Text
  <2> HIDE DEF q, held
  <2>6. q \in DOMAIN held
    BY <2>4, <2>5
  <2>7. lines[p].cost > 0 => ~Blank(held)
    BY <2>5, <2>6 DEF Blank
  <2> QED  BY <2>3, <2>7 DEF held
<1> QED  BY <1>5, <1>7, <1>8 DEF At, blocks

\* Of the units of a file: every line of text is background or in one, no two share a
\* line, and the classes among them are numbered.
LEMMA FileUnitsHold ==
    ASSUME NEW file, Source(file)
    PROVE  /\ \A p \in DOMAIN file.lines : file.lines[p].cost > 0 =>
                 \/ p \in Nos(FileUnits(file).header.lines)
                 \/ \E u \in ToSet(FileUnits(file).units) : p \in Nos(u.chunk.lines)
           /\ \A i, j \in DOMAIN FileUnits(file).units : i # j =>
                 Nos(FileUnits(file).units[i].chunk.lines) \cap Nos(FileUnits(file).units[j].chunk.lines) = {}
           /\ \A i \in DOMAIN FileUnits(file).units : Lettered(FileUnits(file).units[i])
<1> DEFINE lines  == file.lines
           whole  == Chunk(1, Len(lines), lines)
           blocks == IF file.parses THEN Blocks(whole, file.body) ELSE <<>>
           I      == {i \in DOMAIN blocks : ~blocks[i].stmt.def /\ ~Blank(blocks[i].chunk.lines)}
           D      == {i \in DOMAIN blocks : blocks[i].stmt.def}
           kept   == Picked(blocks, I)
           texts  == [i \in DOMAIN kept |-> kept[i].chunk.lines]
           header == IF kept = <<>> THEN NoChunk
                     ELSE Chunk(kept[1].chunk.from, kept[Len(kept)].chunk.to, FlattenSeq(texts))
           defs   == Definitions(blocks)
           text   == IF header # NoChunk THEN header ELSE whole
           some   == [i \in DOMAIN defs |-> MakeUnit(file.path, defs[i])]
           one    == [path |-> file.path, name |-> <<file.name>>, chunk |-> text, body |-> <<>>,
                      bodyLine |-> 0, calls |-> {}, signature |-> 0, doc |-> 0]
           cut    == FileUnits(file)
<1>1. cut = IF defs # <<>> THEN [header |-> header, units |-> some]
            ELSE IF Blank(text.lines) THEN [header |-> NoChunk, units |-> <<>>]
            ELSE [header |-> NoChunk, units |-> <<one>>]
  BY DEF FileUnits
<1>2. lines \in Seq(Line) /\ \A p \in DOMAIN lines : lines[p].no = p
  BY DEF Source
<1>3. Numbered(whole) /\ whole.lines = lines
  <2> DEFINE n == Len(lines)
  <2>1. n \in Nat /\ DOMAIN lines = 1 .. n
    BY <1>2
  <2> HIDE DEF n, lines
  <2>2. Chunk(1, n, lines) \in Text
    BY <1>2, <2>1 DEF Chunk, Text
  <2>3. \A p \in 1 .. n : lines[p].no = 1 + p - 1
    BY <1>2, <2>1
  <2> QED  BY <2>2, <2>3 DEF Numbered, Chunk, n
<1> HIDE DEF whole
<1>4. /\ Sequence(blocks) /\ \A i \in DOMAIN blocks : Numbered(blocks[i].chunk) /\ blocks[i].stmt.def \in BOOLEAN
      /\ \A i, j \in DOMAIN blocks : i # j => Nos(blocks[i].chunk.lines) \cap Nos(blocks[j].chunk.lines) = {}
      /\ file.parses => \A p \in DOMAIN lines : \E i \in DOMAIN blocks :
            /\ p \in Nos(blocks[i].chunk.lines)
            /\ lines[p].cost > 0 => ~Blank(blocks[i].chunk.lines)
  <2>1. CASE file.parses
    <3>1. Statements(file.body, Len(whole.lines))
      BY <1>3, <2>1 DEF Source
    <3>2. whole \in Text /\ DOMAIN lines = 1 .. Len(whole.lines)
      <4>1. whole \in Text
        BY <1>3 DEF Numbered
      <4>2. DOMAIN lines = 1 .. Len(lines)
        <5> HIDE DEF lines
        <5> QED  BY <1>2
      <4> QED  BY <1>3, <4>1, <4>2
    <3>3. blocks = Blocks(whole, file.body)
      BY <2>1
    <3> HIDE DEF blocks
    <3>4. Sequence(blocks) /\ \A i \in DOMAIN blocks : blocks[i].stmt.def \in BOOLEAN
      BY <3>1, <3>2, <3>3, BlocksOf DEF BlockOf
    <3>5. /\ \A i \in DOMAIN blocks : Numbered(blocks[i].chunk)
          /\ \A i, j \in DOMAIN blocks : i # j => Nos(blocks[i].chunk.lines) \cap Nos(blocks[j].chunk.lines) = {}
          /\ \A p \in 1 .. Len(whole.lines) : \E i \in DOMAIN blocks :
                /\ whole.lines[p].no \in Nos(blocks[i].chunk.lines)
                /\ whole.lines[p].cost > 0 => ~Blank(blocks[i].chunk.lines)
      BY <1>3, <3>1, <3>3, BlocksHold
    <3>6. \A p \in DOMAIN lines : \E i \in DOMAIN blocks :
             p \in Nos(blocks[i].chunk.lines) /\ (lines[p].cost > 0 => ~Blank(blocks[i].chunk.lines))
      <4> TAKE p \in DOMAIN lines
      <4>1. p \in 1 .. Len(whole.lines) /\ whole.lines[p] = lines[p] /\ lines[p].no = p
        BY <1>2, <1>3, <3>2
      <4> HIDE DEF lines
      <4>2. PICK i \in DOMAIN blocks : /\ whole.lines[p].no \in Nos(blocks[i].chunk.lines)
                                       /\ whole.lines[p].cost > 0 => ~Blank(blocks[i].chunk.lines)
        BY <3>5, <4>1
      <4> QED  BY <4>1, <4>2
    <3> QED  BY <3>4, <3>5, <3>6
  <2>2. CASE ~ file.parses
    <3>1. blocks = <<>>
      BY <2>2
    <3> HIDE DEF blocks
    <3> QED  BY <2>2, <3>1, EmptySequence
  <2>3. file.parses \in BOOLEAN
    BY DEF Source
  <2> HIDE DEF blocks
  <2> QED  BY <2>1, <2>2, <2>3
<1>5. ~file.parses => blocks = <<>>
  OBVIOUS
<1> HIDE DEF blocks
<1>6. /\ I \in SUBSET Nat /\ IsFiniteSet(I) /\ D \in SUBSET Nat /\ IsFiniteSet(D)
  <2>1. Len(blocks) \in Nat /\ DOMAIN blocks = 1 .. Len(blocks)
    BY <1>4, DomainSequence
  <2>2. IsFiniteSet(DOMAIN blocks) /\ DOMAIN blocks \in SUBSET Nat
    BY <2>1, FS_Interval
  <2>3. I \in SUBSET (DOMAIN blocks) /\ D \in SUBSET (DOMAIN blocks)
    OBVIOUS
  <2> HIDE DEF I, D
  <2> QED  BY <2>2, <2>3, FS_Subset
<1>7. defs = Picked(blocks, D)
  BY DEF Definitions
<1>8. \A i \in I : i \in DOMAIN blocks /\ ~blocks[i].stmt.def /\ ~Blank(blocks[i].chunk.lines)
  OBVIOUS
<1>9. \A i \in D : i \in DOMAIN blocks /\ blocks[i].stmt.def
  OBVIOUS
<1>10. \A i \in DOMAIN blocks : ~Blank(blocks[i].chunk.lines) => i \in I \/ i \in D
  BY <1>4
<1> HIDE DEF I, D
<1>11. /\ Cardinality(D) \in Nat
       /\ \E at \in [1 .. Cardinality(D) -> D] :
             /\ defs = [k \in 1 .. Cardinality(D) |-> blocks[at[k]]]
             /\ \A k, l \in 1 .. Cardinality(D) : at[k] = at[l] => k = l
             /\ \A i \in D : \E k \in 1 .. Cardinality(D) : at[k] = i
  BY <1>6, <1>7, PickedIndex
<1>12. PICK at \in [1 .. Cardinality(D) -> D] :
             /\ defs = [k \in 1 .. Cardinality(D) |-> blocks[at[k]]]
             /\ \A k, l \in 1 .. Cardinality(D) : at[k] = at[l] => k = l
             /\ \A i \in D : \E k \in 1 .. Cardinality(D) : at[k] = i
  BY <1>11
<1> HIDE DEF defs
<1>13. DOMAIN defs = 1 .. Cardinality(D) /\ \A k \in 1 .. Cardinality(D) : at[k] \in D /\ defs[k] = blocks[at[k]]
  BY <1>12
<1>14. /\ DOMAIN some = DOMAIN defs
       /\ \A k \in DOMAIN defs : some[k].chunk = blocks[at[k]].chunk
  <2>1. \A k \in DOMAIN defs : some[k].chunk = defs[k].chunk
    BY DEF MakeUnit
  <2> QED  BY <1>13, <2>1
<1> HIDE DEF some
<1>15. \A i \in D : \E u \in ToSet(some) : u.chunk = blocks[i].chunk
  <2> TAKE i \in D
  <2>1. PICK k \in DOMAIN defs : at[k] = i
    BY <1>12, <1>13
  <2>2. some[k] \in ToSet(some) /\ some[k].chunk = blocks[i].chunk
    BY <1>14, <2>1 DEF ToSet
  <2> QED  BY <2>2
<1>16. \A i \in I : kept # <<>> /\ Nos(blocks[i].chunk.lines) \subseteq Nos(FlattenSeq(texts))
                    /\ (~Blank(blocks[i].chunk.lines) => ~Blank(FlattenSeq(texts)))
  <2>a. kept = Picked(blocks, I)
    OBVIOUS
  <2> HIDE DEF kept
  <2>1. /\ Cardinality(I) \in Nat
        /\ \E by \in [1 .. Cardinality(I) -> I] :
             /\ kept = [k \in 1 .. Cardinality(I) |-> blocks[by[k]]]
             /\ \A k, l \in 1 .. Cardinality(I) : by[k] = by[l] => k = l
             /\ \A i \in I : \E k \in 1 .. Cardinality(I) : by[k] = i
    BY <1>6, <2>a, PickedIndex
  <2>2. PICK by \in [1 .. Cardinality(I) -> I] :
             /\ kept = [k \in 1 .. Cardinality(I) |-> blocks[by[k]]]
             /\ \A i \in I : \E k \in 1 .. Cardinality(I) : by[k] = i
    BY <2>1
  <2>3. DOMAIN kept = 1 .. Cardinality(I) /\ \A k \in DOMAIN kept : by[k] \in I /\ kept[k] = blocks[by[k]]
    BY <2>2
  <2>4. /\ Len(texts) = Cardinality(I) /\ DOMAIN texts = 1 .. Cardinality(I) /\ texts \in Seq(Seq(Line))
        /\ \A k \in DOMAIN kept : texts[k] = blocks[by[k]].chunk.lines
    <3>1. \A k \in DOMAIN kept : blocks[by[k]].chunk.lines \in Seq(Line)
      <4> TAKE k \in DOMAIN kept
      <4>1. Numbered(blocks[by[k]].chunk)
        BY <1>4, <1>8, <2>3
      <4> QED  BY <4>1 DEF Numbered, Text
    <3>2. texts = [k \in 1 .. Cardinality(I) |-> texts[k]] /\ DOMAIN texts = 1 .. Cardinality(I)
          /\ \A k \in DOMAIN kept : texts[k] = blocks[by[k]].chunk.lines
      BY <2>3
    <3> HIDE DEF texts
    <3>3. \A k \in 1 .. Cardinality(I) : texts[k] \in Seq(Line)
      BY <2>3, <3>1, <3>2
    <3> QED  BY <2>1, <3>2, <3>3, FunctionInto
  <2> HIDE DEF texts
  <2>5. Holds(FlattenSeq(texts), texts, Len(texts)) /\ FlattenSeq(texts) \in Seq(Line)
    BY <2>4, FlattenSeqOf
  <2> DEFINE flat == FlattenSeq(texts)
  <2> HIDE DEF flat
  <2> TAKE i \in I
  <2>6. PICK k \in 1 .. Cardinality(I) : by[k] = i
    BY <2>2
  <2>7. k \in DOMAIN kept /\ texts[k] = blocks[i].chunk.lines /\ k \in 1 .. Len(texts)
    BY <2>3, <2>4, <2>6
  <2>8. kept # <<>>
    BY <2>7
  <2>9. \A o \in DOMAIN texts[k] : \E q \in DOMAIN flat : flat[q] = texts[k][o]
    BY <2>5, <2>7 DEF Holds, flat
  <2>10. Nos(texts[k]) \subseteq Nos(flat)
    BY <2>9 DEF Nos
  <2>11. ~Blank(texts[k]) => ~Blank(flat)
    BY <2>9 DEF Blank
  <2> QED  BY <2>7, <2>8, <2>10, <2>11 DEF flat
<1>17. \A i \in I : /\ header # NoChunk /\ Nos(blocks[i].chunk.lines) \subseteq Nos(header.lines)
                    /\ ~Blank(header.lines)
  <2> TAKE i \in I
  <2> DEFINE flat == FlattenSeq(texts)
  <2>1. kept # <<>> /\ Nos(blocks[i].chunk.lines) \subseteq Nos(flat) /\ ~Blank(flat)
    BY <1>8, <1>16
  <2> HIDE DEF kept, flat
  <2>2. header.lines = flat
    BY <2>1 DEF Chunk, flat
  <2> HIDE DEF header
  <2>3. NoChunk.lines = <<>> /\ Blank(<<>>)
    BY DEF NoChunk, Chunk, Blank
  <2>4. header # NoChunk
    BY <2>1, <2>2, <2>3
  <2> QED  BY <2>1, <2>2, <2>4
<1>n. header = NoChunk \/ I # {}
  <2>1. I = {} => kept = <<>>
    <3> SUFFICES ASSUME I = {} PROVE kept = <<>>
      OBVIOUS
    <3>1. Cardinality(I) = 0
      BY FS_EmptySet
    <3> QED  BY <3>1 DEF Picked
  <2> QED  BY <2>1
<1> HIDE DEF kept, texts, header
<1>18. one.chunk = text /\ one.body = <<>>
  OBVIOUS
<1> HIDE DEF one
<1>19. 1 \in DOMAIN <<one>> /\ <<one>>[1] = one /\ ToSet(<<one>>) = {one} /\ DOMAIN <<one>> = {1}
  <2>1. DOMAIN <<one>> = {1} /\ <<one>>[1] = one
    OBVIOUS
  <2> QED  BY <2>1 DEF ToSet
<1> HIDE DEF text, cut
<1>20. ASSUME NEW p \in DOMAIN lines, lines[p].cost > 0
       PROVE  p \in Nos(cut.header.lines) \/ \E u \in ToSet(cut.units) : p \in Nos(u.chunk.lines)
  <2>1. CASE file.parses
    <3>1. PICK i \in DOMAIN blocks : p \in Nos(blocks[i].chunk.lines) /\ ~Blank(blocks[i].chunk.lines)
      BY <1>4, <1>20, <2>1
    <3>2. CASE i \in D
      <4>1. defs # <<>>
        <5>1. DOMAIN defs # {}
          BY <1>12, <1>13, <3>2
        <5> QED  BY <5>1
      <4>2. cut.units = some
        BY <1>1, <4>1
      <4> QED  BY <1>15, <3>1, <3>2, <4>2
    <3>3. CASE i \in I
      <4>1. p \in Nos(header.lines) /\ header # NoChunk /\ ~Blank(header.lines)
        BY <1>17, <3>1, <3>3
      <4>2. text = header
        BY <4>1 DEF text
      <4>3. CASE defs # <<>>
        <5>1. cut.header = header
          BY <1>1, <4>3
        <5> QED  BY <4>1, <5>1
      <4>4. CASE defs = <<>>
        <5>1. cut.units = <<one>>
          BY <1>1, <4>1, <4>2, <4>4
        <5> QED  BY <1>18, <1>19, <4>1, <4>2, <5>1
      <4> QED  BY <4>3, <4>4
    <3> QED  BY <1>10, <3>1, <3>2, <3>3
  <2>2. CASE ~file.parses
    <3>1. I = {} /\ D = {}
      <4>1. DOMAIN blocks = {}
        BY <1>5, <2>2, EmptySequence
      <4> QED  BY <1>8, <1>9, <4>1
    <3>2. text = whole
      BY <1>n, <3>1 DEF text
    <3>3. defs = <<>>
      <4>1. Cardinality(D) = 0
        BY <3>1, FS_EmptySet
      <4> QED  BY <1>12, <4>1
    <3>4. ~Blank(text.lines)
      BY <1>3, <1>20, <3>2 DEF Blank
    <3>5. cut.units = <<one>>
      BY <1>1, <3>3, <3>4
    <3>6. p \in Nos(lines)
      BY <1>2 DEF Nos
    <3> QED  BY <1>3, <1>18, <1>19, <3>2, <3>5, <3>6
  <2>3. file.parses \in BOOLEAN
    BY DEF Source
  <2> QED  BY <2>1, <2>2, <2>3
<1>21. cut.units = some \/ cut.units = <<>> \/ cut.units = <<one>>
  BY <1>1
<1>22. ASSUME NEW i \in DOMAIN cut.units, NEW j \in DOMAIN cut.units, i # j
       PROVE  Nos(cut.units[i].chunk.lines) \cap Nos(cut.units[j].chunk.lines) = {}
  <2>1. CASE cut.units = some
    <3>1. i \in DOMAIN defs /\ j \in DOMAIN defs
      BY <1>14, <2>1
    <3>2. at[i] # at[j] /\ at[i] \in DOMAIN blocks /\ at[j] \in DOMAIN blocks
      BY <1>9, <1>12, <1>13, <1>22, <3>1
    <3>3. cut.units[i].chunk = blocks[at[i]].chunk /\ cut.units[j].chunk = blocks[at[j]].chunk
      BY <1>14, <2>1, <3>1
    <3> QED  BY <1>4, <3>2, <3>3
  <2>2. CASE cut.units = <<>>
    BY <2>2
  <2>3. CASE cut.units = <<one>>
    BY <1>19, <1>22, <2>3
  <2> QED  BY <1>21, <2>1, <2>2, <2>3
<1>23. ASSUME NEW i \in DOMAIN cut.units PROVE Lettered(cut.units[i])
  <2>1. CASE cut.units = some
    <3>1. i \in DOMAIN defs /\ at[i] \in DOMAIN blocks
      BY <1>9, <1>13, <1>14, <2>1
    <3>2. Numbered(cut.units[i].chunk)
      BY <1>4, <1>14, <2>1, <3>1
    <3> QED  BY <3>2 DEF Lettered
  <2>2. CASE cut.units = <<>>
    BY <2>2
  <2>3. CASE cut.units = <<one>>
    BY <1>18, <1>19, <2>3 DEF Lettered
  <2> QED  BY <1>21, <2>1, <2>2, <2>3
<1> QED  BY <1>20, <1>22, <1>23 DEF cut, lines

\* Of every file that is source, a line with text is background or in exactly one unit;
\* of a unit, only lines beside the methods of an oversized class are in no leaf; and no
\* leaf over the budget can be cut again (_extract_file_units, _split_oversized_unit).
THEOREM CuttingIsSound ==
    ASSUME NEW file, Source(file)
    PROVE  CutOf(file)
<1> DEFINE cut == FileUnits(file)
<1>1. /\ cut.header \in Text /\ Sequence(cut.units)
      /\ \A i \in DOMAIN cut.units : UnitOf(cut.units[i])
  BY FileUnitsOf
<1>2. /\ \A p \in DOMAIN file.lines : file.lines[p].cost > 0 =>
            \/ p \in Nos(cut.header.lines)
            \/ \E u \in ToSet(cut.units) : p \in Nos(u.chunk.lines)
      /\ \A i, j \in DOMAIN cut.units : i # j =>
            Nos(cut.units[i].chunk.lines) \cap Nos(cut.units[j].chunk.lines) = {}
      /\ \A i \in DOMAIN cut.units : Lettered(cut.units[i])
  BY FileUnitsHold
<1> HIDE DEF cut
<1>3. \A unit \in ToSet(cut.units) : UnitOf(unit) /\ Lettered(unit)
  BY <1>1, <1>2 DEF ToSet
<1>4. ASSUME NEW unit \in ToSet(cut.units), NEW budget \in 1 .. LeafBudget,
             NEW leaf \in ToSet(Leaves(unit, cut.header, budget))
      PROVE  IsAtom(leaf, cut.header, budget) \/ Len(SplitUnit(leaf, budget)) <= 1
  <2>1. budget \in Nat
    BY ReviewAssumption
  <2>2. \A i \in DOMAIN Leaves(unit, cut.header, budget) :
           Settled(Leaves(unit, cut.header, budget)[i], cut.header, budget)
    BY <1>1, <1>3, <2>1, LeavesOf
  <2>3. Settled(leaf, cut.header, budget)
    BY <2>2 DEF ToSet
  <2> QED  BY <2>3 DEF Settled
<1> DEFINE held(unit, budget) == UNION {Nos(leaf.chunk.lines) : leaf \in ToSet(Leaves(unit, cut.header, budget))}
           methods(unit) == Definitions(Blocks(unit.chunk, unit.body))
<1>5. ASSUME NEW unit \in ToSet(cut.units), NEW budget \in 1 .. LeafBudget,
             NEW no \in Nos(unit.chunk.lines) \ held(unit, budget)
      PROVE  /\ ~IsAtom(unit, cut.header, budget) /\ methods(unit) # <<>>
             /\ \A method \in ToSet(methods(unit)) : no \notin Nos(method.chunk.lines)
  <2>1. budget \in Nat
    BY ReviewAssumption
  <2> QED  BY <1>3, <2>1, LeavesHold
<1> DEFINE Left(unit, budget) ==
       /\ \A leaf \in ToSet(Leaves(unit, cut.header, budget)) :
             IsAtom(leaf, cut.header, budget) \/ Len(SplitUnit(leaf, budget)) <= 1
       /\ \A no \in Nos(unit.chunk.lines) \ held(unit, budget) :
             /\ ~IsAtom(unit, cut.header, budget) /\ methods(unit) # <<>>
             /\ \A method \in ToSet(methods(unit)) : no \notin Nos(method.chunk.lines)
<1>6. \A unit \in ToSet(cut.units), budget \in 1 .. LeafBudget : Left(unit, budget)
  BY <1>4, <1>5
<1> QED  BY <1>2, <1>6, Zenon DEF CutOf, cut

\* Every text the run looks at is numbered.
LEMMA SplittingsAreSound == SplitsSound
<1> SUFFICES ASSUME NEW costs \in BoundedSeq(0 .. 5, 3), NEW budget \in 1 .. 4
             PROVE  SplitSound(Chunk(7, 6 + Len(costs),
                                     [i \in DOMAIN costs |-> [no |-> 6 + i, cost |-> costs[i]]]), budget)
  BY DEF SplitsSound
<1> DEFINE lines == [i \in DOMAIN costs |-> [no |-> 6 + i, cost |-> costs[i]]]
           chunk == Chunk(7, 6 + Len(costs), lines)
<1>1. PICK n \in 0 .. 3 : costs \in [1 .. n -> 0 .. 5]
  BY DEF BoundedSeq, SeqOf
<1>2. DOMAIN costs = 1 .. n /\ n \in Nat /\ Len(costs) = n
  BY <1>1
<1>3. \A i \in 1 .. n : [no |-> 6 + i, cost |-> costs[i]] \in Line
  BY <1>1 DEF Line
<1>4. lines \in Seq(Line) /\ Len(lines) = n /\ \A i \in 1 .. n : lines[i].no = 6 + i
  BY <1>2, <1>3
<1> HIDE DEF lines
<1>5. Numbered(chunk)
  <2>1. chunk \in Text
    BY <1>2, <1>4 DEF Chunk, Text
  <2>2. \A i \in 1 .. n : lines[i].no = 7 + i - 1
    BY <1>2, <1>4
  <2> QED  BY <1>4, <2>1, <2>2 DEF Numbered, Chunk
<1> HIDE DEF chunk
<1>6. budget \in Nat \ {0}
  OBVIOUS
<1>7. SplitSound(chunk, budget)
  BY <1>5, <1>6, SplittingIsSound
<1> QED  BY <1>7 DEF chunk, lines

-----------------------------------------------------------------------------
(* Clusters.                                                               *)

\* The files are parted into sets that are small enough.
Clustering(cs, files, max) ==
    /\ UNION cs = files
    /\ \A C, D \in cs : C = D \/ C \cap D = {}
    /\ \A C \in cs : C # {} /\ Cardinality(C) <= (IF max > 1 THEN max ELSE 1)

\* Two sets that become one hold together what they held.
LEMMA UnionMerged ==
    ASSUME NEW cs, NEW C \in cs, NEW D \in cs
    PROVE  UNION ((cs \ {C, D}) \cup {C \cup D}) = UNION cs
OBVIOUS

\* When two clusters are merged no file is lost, and none is in two clusters.
LEMMA MergeClosestOf ==
    ASSUME NEW files, IsFiniteSet(files), NEW weight, NEW max \in Nat,
           NEW cs \in SUBSET SUBSET files, Clustering(cs, files, max)
    PROVE  /\ MergeClosest(cs, weight, max) \in SUBSET SUBSET files
           /\ Clustering(MergeClosest(cs, weight, max), files, max)
<1> DEFINE close == {p \in cs \X cs : MayMerge(p[1], p[2], max) /\ Between(p, weight) > 0}
           best  == {p \in close : \A q \in close :
                        \/ Between(q, weight) < Between(p, weight)
                        \/ /\ Between(q, weight) = Between(p, weight)
                           /\ ~Precedes(q[1] \cup q[2], p[1] \cup p[2])}
           pair  == CHOOSE p \in best : TRUE
<1>1. MergeClosest(cs, weight, max) =
         IF best = {} THEN cs ELSE (cs \ {pair[1], pair[2]}) \cup {pair[1] \cup pair[2]}
  BY DEF MergeClosest
<1>2. \A p \in best : p \in cs \X cs /\ MayMerge(p[1], p[2], max)
  OBVIOUS
<1> HIDE DEF best
<1>3. CASE best = {}
  BY <1>1, <1>3
<1>4. CASE best # {}
  <2>1. pair \in best
    BY <1>4
  <2> HIDE DEF pair
  <2>2. PICK C \in cs, D \in cs : C = pair[1] /\ D = pair[2]
    BY <1>2, <2>1
  <2>3. C # D /\ Cardinality(C) + Cardinality(D) <= max
    BY <1>2, <2>1, <2>2 DEF MayMerge
  <2> DEFINE merged == (cs \ {C, D}) \cup {C \cup D}
  <2>4. MergeClosest(cs, weight, max) = merged
    BY <1>1, <1>4, <2>2
  <2>5. merged \in SUBSET SUBSET files /\ UNION merged = files
    <3>1. UNION merged = UNION cs
      BY UnionMerged
    <3>2. UNION cs = files
      BY DEF Clustering
    <3>3. C \cup D \in SUBSET files
      OBVIOUS
    <3>4. merged \in SUBSET SUBSET files
      BY <3>3
    <3> HIDE DEF merged
    <3> QED  BY <3>1, <3>2, <3>4
  <2>6. \A E, F \in merged : E = F \/ E \cap F = {}
    <3>1. \A E, F \in cs : E = F \/ E \cap F = {}
      BY DEF Clustering
    <3>2. \A E \in cs \ {C, D} : E \cap (C \cup D) = {}
      <4> TAKE E \in cs \ {C, D}
      <4>1. E \cap C = {} /\ E \cap D = {}
        BY <3>1
      <4> QED  BY <4>1
    <3> TAKE E, F \in merged
    <3>3. CASE E \in cs \ {C, D} /\ F \in cs \ {C, D}
      BY <3>1, <3>3
    <3>4. CASE E \in cs \ {C, D} /\ F = C \cup D
      BY <3>2, <3>4
    <3>5. CASE E = C \cup D /\ F \in cs \ {C, D}
      BY <3>2, <3>5
    <3>6. CASE E = C \cup D /\ F = C \cup D
      BY <3>6
    <3> QED  BY <3>3, <3>4, <3>5, <3>6
  <2>7. IsFiniteSet(C) /\ IsFiniteSet(D)
    BY FS_Subset
  <2>8. C \cap D = {}
    BY <2>3 DEF Clustering
  <2>9. Cardinality(C \cup D) = Cardinality(C) + Cardinality(D)
    <3>1. Cardinality(C \cap D) = 0
      BY <2>8, FS_EmptySet
    <3>2. Cardinality(C) \in Nat /\ Cardinality(D) \in Nat
      BY <2>7, FS_CardinalityType
    <3>3. Cardinality(C \cup D) = Cardinality(C) + Cardinality(D) - Cardinality(C \cap D)
      BY <2>7, FS_Union
    <3> QED  BY <3>1, <3>2, <3>3
  <2> DEFINE most == IF max > 1 THEN max ELSE 1
  <2>10. C \cup D # {} /\ Cardinality(C \cup D) <= most
    <3>1. Cardinality(C) \in Nat /\ Cardinality(D) \in Nat
      BY <2>7, FS_CardinalityType
    <3> QED  BY <2>3, <2>9, <3>1 DEF Clustering
  <2>11. \A E \in merged : E # {} /\ Cardinality(E) <= most
    BY <2>10 DEF Clustering
  <2> QED  BY <2>4, <2>5, <2>6, <2>11 DEF Clustering
<1> QED  BY <1>3, <1>4

\* The order of sequences of numbers.
Earlier(s, t) ==
    \E k \in DOMAIN t : /\ \A i \in 1 .. (k - 1) : i <= Len(s) /\ s[i] = t[i]
                        /\ k > Len(s) \/ s[k] < t[k]

\* The order of sequences is strict, and of different ones one is earlier.
LEMMA EarlierOrder ==
    ASSUME NEW s \in Seq(Nat), NEW t \in Seq(Nat), NEW u \in Seq(Nat)
    PROVE  /\ ~Earlier(s, s)
           /\ Earlier(s, t) /\ Earlier(t, u) => Earlier(s, u)
<1>0. /\ Len(s) \in Nat /\ Len(t) \in Nat /\ Len(u) \in Nat
      /\ DOMAIN s = 1 .. Len(s) /\ DOMAIN t = 1 .. Len(t) /\ DOMAIN u = 1 .. Len(u)
      /\ \A i \in 1 .. Len(s) : s[i] \in Nat
      /\ \A i \in 1 .. Len(t) : t[i] \in Nat
      /\ \A i \in 1 .. Len(u) : u[i] \in Nat
  OBVIOUS
<1>1. ~Earlier(s, s)
  BY <1>0 DEF Earlier
<1>2. ASSUME Earlier(s, t), Earlier(t, u) PROVE Earlier(s, u)
  <2>1. PICK k \in 1 .. Len(t) : /\ \A i \in 1 .. (k - 1) : i <= Len(s) /\ s[i] = t[i]
                                 /\ k > Len(s) \/ s[k] < t[k]
    BY <1>0, <1>2 DEF Earlier
  <2>2. PICK l \in 1 .. Len(u) : /\ \A i \in 1 .. (l - 1) : i <= Len(t) /\ t[i] = u[i]
                                 /\ l > Len(t) \/ t[l] < u[l]
    BY <1>0, <1>2 DEF Earlier
  <2> DEFINE m == IF k < l THEN k ELSE l
  <2>3. m \in 1 .. Len(u) /\ m <= k /\ m <= l
    BY <1>0
  <2>4. \A i \in 1 .. (m - 1) : i \in 1 .. (k - 1) /\ i \in 1 .. (l - 1)
    BY <1>0, <2>3
  <2>5. \A i \in 1 .. (m - 1) : i <= Len(s) /\ s[i] = u[i]
    BY <2>1, <2>2, <2>4
  <2>6. m > Len(s) \/ s[m] < u[m]
    <3>1. CASE k < l
      <4>1. k \in 1 .. (l - 1)
        BY <1>0, <3>1
      <4>2. t[k] = u[k]
        BY <2>2, <4>1
      <4> QED  BY <2>1, <3>1, <4>2
    <3>2. CASE k = l
      <4>1. t[k] < u[k]
        BY <1>0, <2>2, <3>2
      <4>2. k > Len(s) \/ (k \in 1 .. Len(s) /\ s[k] \in Nat /\ t[k] \in Nat /\ u[k] \in Nat)
        BY <1>0, <3>2
      <4> QED  BY <2>1, <3>2, <4>1, <4>2
    <3>3. CASE k > l
      <4>1. l \in 1 .. (k - 1) /\ l <= Len(t)
        BY <1>0, <3>3
      <4>2. s[l] = t[l] /\ t[l] < u[l]
        BY <1>0, <2>1, <2>2, <4>1
      <4> QED  BY <3>3, <4>2
    <3> QED  BY <1>0, <3>1, <3>2, <3>3
  <2> HIDE DEF m
  <2> QED  BY <1>0, <2>3, <2>5, <2>6 DEF Earlier
<1> QED  BY <1>1, <1>2

\* So is that of sets of files.
LEMMA PrecedesOrder ==
    ASSUME NEW S \in SUBSET Nat, IsFiniteSet(S), NEW T \in SUBSET Nat, IsFiniteSet(T),
           NEW U \in SUBSET Nat, IsFiniteSet(U)
    PROVE  /\ ~Precedes(S, S)
           /\ Precedes(S, T) /\ Precedes(T, U) => Precedes(S, U)
<1> DEFINE sorted(V) == Picked([f \in V |-> f], V)
<1>1. ASSUME NEW V \in SUBSET Nat, IsFiniteSet(V) PROVE sorted(V) \in Seq(Nat)
  <2> DEFINE id == [f \in V |-> f]
  <2>1. \A i \in V : id[i] \in Nat
    OBVIOUS
  <2> HIDE DEF id
  <2>2. Picked(id, V) \in Seq(Nat)
    BY <1>1, <2>1, PickedAt
  <2> QED  BY <2>2 DEF id
<1>2. \A V, W : Precedes(V, W) <=> Earlier(sorted(V), sorted(W))
  BY DEF Precedes, Earlier
<1>3. sorted(S) \in Seq(Nat) /\ sorted(T) \in Seq(Nat) /\ sorted(U) \in Seq(Nat)
  BY <1>1
<1> HIDE DEF sorted
<1> QED  BY <1>2, <1>3, EarlierOrder

\* The calls between two clusters: none when no file of the one calls one of the other.
LEMMA BetweenOf ==
    ASSUME NEW C, NEW D, IsFiniteSet(C), IsFiniteSet(D), NEW weight,
           \A a \in C, b \in D : weight[{a, b}] \in Nat
    PROVE  /\ Between(<<C, D>>, weight) \in Nat
           /\ Between(<<C, D>>, weight) > 0 <=> \E a \in C, b \in D : weight[{a, b}] > 0
           /\ \A a \in C, b \in D : weight[{a, b}] <= Between(<<C, D>>, weight)
<1> DEFINE U == C \X D
           w == [e \in U |-> weight[{e[1], e[2]}]]
<1>1. Between(<<C, D>>, weight) = SumFunctionOnSet(w, U)
  BY DEF Between, SumFunction
<1>2. IsFiniteSet(U)
  BY FS_Product
<1>3. \A x \in U : w[x] \in Nat
  OBVIOUS
<1>4. \A a \in C, b \in D : <<a, b>> \in U /\ w[<<a, b>>] = weight[{a, b}]
  OBVIOUS
<1>5. \A x \in U : \E a \in C, b \in D : x = <<a, b>>
  OBVIOUS
<1> HIDE DEF w, U
<1>6. /\ SumFunctionOnSet(w, U) \in Nat
      /\ SumFunctionOnSet(w, U) > 0 <=> \E x \in U : w[x] > 0
      /\ \A x \in U : w[x] <= SumFunctionOnSet(w, U)
  BY <1>2, <1>3, SumPositive
<1> DEFINE sum == Between(<<C, D>>, weight)
<1>7. sum \in Nat /\ (sum > 0 <=> \E x \in U : w[x] > 0) /\ \A x \in U : w[x] <= sum
  BY <1>1, <1>6
<1> HIDE DEF sum
<1>8. \A a \in C, b \in D : weight[{a, b}] <= sum
  BY <1>4, <1>7
<1>9. ASSUME NEW x \in U, w[x] > 0 PROVE \E a \in C, b \in D : weight[{a, b}] > 0
  <2>1. PICK a \in C, b \in D : x = <<a, b>>
    BY <1>5
  <2>2. w[x] = weight[{a, b}]
    BY <1>4, <2>1
  <2> QED  BY <1>9, <2>2
<1>10. ASSUME NEW a \in C, NEW b \in D, weight[{a, b}] > 0 PROVE \E x \in U : w[x] > 0
  BY <1>4, <1>10
<1> QED  BY <1>7, <1>8, <1>9, <1>10 DEF sum

\* Between two files alone they are the calls between them.
LEMMA BetweenFiles ==
    ASSUME NEW a, NEW b, NEW weight, weight[{a, b}] \in Nat
    PROVE  Between(<<{a}, {b}>>, weight) = weight[{a, b}]
<1> DEFINE x == <<a, b>>
           U == {x}
           w == [e \in U |-> weight[{e[1], e[2]}]]
<1>1. Between(<<{a}, {b}>>, weight) = SumFunctionOnSet(w, U)
  <2>1. {a} \X {b} = U
    OBVIOUS
  <2> QED  BY <2>1 DEF Between, SumFunction
<1>2. IsFiniteSet(U) /\ \A e \in U : w[e] \in Nat
  BY FS_Singleton
<1>3. w[x] = weight[{a, b}]
  OBVIOUS
<1> DEFINE T == [s \in SUBSET U |-> SumFunctionOnSet(w, s)]
<1> HIDE DEF w
<1>4. T[U] = SumFunctionOnSet(w, U)
  OBVIOUS
<1>5. U \in SUBSET U /\ x \in U /\ U \ {x} = {}
  OBVIOUS
<1> HIDE DEF x, U
<1>6. Totals(T, w, U)
  BY <1>2, SumOf
<1> HIDE DEF T
<1>7. T[U] = w[x] + T[{}] /\ T[{}] = 0
  BY <1>5, <1>6 DEF Totals
<1> QED  BY <1>1, <1>3, <1>4, <1>7

\* The pairs of clusters that may be merged.
Close(cs, weight, max) == {p \in cs \X cs : MayMerge(p[1], p[2], max) /\ Between(p, weight) > 0}

\* A file's calls to another are counted.
Counted(weight, files) == \A a, b \in files : a # b => weight[{a, b}] \in Nat

\* The clusters of files are finitely many, and each of finitely many.
LEMMA ClusterOf ==
    ASSUME NEW files, IsFiniteSet(files), NEW cs \in SUBSET SUBSET files
    PROVE  IsFiniteSet(cs) /\ \A C \in cs : IsFiniteSet(C) /\ Cardinality(C) \in Nat
BY FS_SUBSET, FS_Subset, FS_CardinalityType

\* The calls between two of them.
LEMMA ClusterCalls ==
    ASSUME NEW files, IsFiniteSet(files), NEW weight, Counted(weight, files), NEW max,
           NEW cs \in SUBSET SUBSET files, Clustering(cs, files, max),
           NEW C \in cs, NEW D \in cs, C # D
    PROVE  /\ Between(<<C, D>>, weight) \in Nat
           /\ Between(<<C, D>>, weight) > 0 <=> \E a \in C, b \in D : weight[{a, b}] > 0
<1>1. C \cap D = {}
  BY DEF Clustering
<1>2. \A a \in C, b \in D : weight[{a, b}] \in Nat
  BY <1>1 DEF Counted
<1>3. IsFiniteSet(C) /\ IsFiniteSet(D)
  BY ClusterOf
<1> QED  BY <1>2, <1>3, BetweenOf

\* Without such a pair nothing is merged.
LEMMA NoneMerged ==
    ASSUME NEW cs, NEW weight, NEW max, Close(cs, weight, max) = {}
    PROVE  MergeClosest(cs, weight, max) = cs
<1> DEFINE close == {p \in cs \X cs : MayMerge(p[1], p[2], max) /\ Between(p, weight) > 0}
           best  == {p \in close : \A q \in close :
                        \/ Between(q, weight) < Between(p, weight)
                        \/ /\ Between(q, weight) = Between(p, weight)
                           /\ ~Precedes(q[1] \cup q[2], p[1] \cup p[2])}
           pair  == CHOOSE p \in best : TRUE
<1>1. MergeClosest(cs, weight, max) =
         IF best = {} THEN cs ELSE (cs \ {pair[1], pair[2]}) \cup {pair[1] \cup pair[2]}
  BY DEF MergeClosest
<1>2. close = {}
  BY DEF Close
<1>3. best = {}
  BY <1>2
<1> HIDE DEF best
<1> QED  BY <1>1, <1>3

\* Two clusters become one, and no two call each other more than they do.
IsMerged(C, D, cs, weight, max) ==
    /\ <<C, D>> \in Close(cs, weight, max)
    /\ \A q \in Close(cs, weight, max) : Between(q, weight) <= Between(<<C, D>>, weight)
    /\ MergeClosest(cs, weight, max) = (cs \ {C, D}) \cup {C \cup D}

\* Otherwise it is one with the most calls between the two.
LEMMA MostCalled ==
    ASSUME NEW files \in SUBSET Nat, IsFiniteSet(files), NEW weight, Counted(weight, files), NEW max,
           NEW cs \in SUBSET SUBSET files, Clustering(cs, files, max), Close(cs, weight, max) # {}
    PROVE  \E C \in cs, D \in cs : IsMerged(C, D, cs, weight, max)
<1>0. ASSUME NEW C \in cs, NEW D \in cs, C # D PROVE Between(<<C, D>>, weight) \in Nat
  BY <1>0, ClusterCalls
<1> DEFINE close == {p \in cs \X cs : MayMerge(p[1], p[2], max) /\ Between(p, weight) > 0}
           best  == {p \in close : \A q \in close :
                        \/ Between(q, weight) < Between(p, weight)
                        \/ /\ Between(q, weight) = Between(p, weight)
                           /\ ~Precedes(q[1] \cup q[2], p[1] \cup p[2])}
           pair  == CHOOSE p \in best : TRUE
<1>1. MergeClosest(cs, weight, max) =
         IF best = {} THEN cs ELSE (cs \ {pair[1], pair[2]}) \cup {pair[1] \cup pair[2]}
  BY DEF MergeClosest
<1>2. close = Close(cs, weight, max)
  BY DEF Close
<1>3. IsFiniteSet(close)
  <2>1. IsFiniteSet(cs)
    BY ClusterOf
  <2>2. IsFiniteSet(cs \X cs)
    BY <2>1, FS_Product
  <2>3. close \in SUBSET (cs \X cs)
    OBVIOUS
  <2> HIDE DEF close
  <2> QED  BY <2>2, <2>3, FS_Subset
<1> DEFINE calls(p) == Between(p, weight)
           all(p) == p[1] \cup p[2]
           R == {e \in close \X close :
                   \/ calls(e[1]) > calls(e[2])
                   \/ calls(e[1]) = calls(e[2]) /\ Precedes(all(e[1]), all(e[2]))}
<1>4. \A p \in close : /\ calls(p) \in Nat /\ all(p) \in SUBSET Nat /\ IsFiniteSet(all(p))
                       /\ \E C, D \in cs : p = <<C, D>>
  <2> TAKE p \in close
  <2>1. PICK C \in cs, D \in cs : p = <<C, D>> /\ MayMerge(p[1], p[2], max)
    OBVIOUS
  <2>2. C # D
    BY <2>1 DEF MayMerge
  <2>3. calls(p) \in Nat
    <3>1. Between(<<C, D>>, weight) \in Nat
      BY <1>0, <2>2
    <3> QED  BY <2>1, <3>1
  <2>4. IsFiniteSet(C) /\ IsFiniteSet(D)
    BY ClusterOf
  <2>5. IsFiniteSet(C \cup D)
    BY <2>4, FS_Union
  <2>6. all(p) = C \cup D
    BY <2>1
  <2> QED  BY <2>1, <2>3, <2>5, <2>6
<1> HIDE DEF close, calls, all
<1>5. ASSUME NEW p \in close, NEW q \in close
      PROVE  <<p, q>> \in R <=> (\/ calls(p) > calls(q)
                                 \/ calls(p) = calls(q) /\ Precedes(all(p), all(q)))
  OBVIOUS
<1> HIDE DEF R
<1>6. \A p \in close : <<p, p>> \notin R
  BY <1>4, <1>5, PrecedesOrder
<1>7. \A p, q, r \in close : <<p, q>> \in R /\ <<q, r>> \in R => <<p, r>> \in R
  <2> TAKE p, q, r \in close
  <2>1. calls(p) \in Nat /\ calls(q) \in Nat /\ calls(r) \in Nat
    BY <1>4
  <2>2. Precedes(all(p), all(q)) /\ Precedes(all(q), all(r)) => Precedes(all(p), all(r))
    BY <1>4, PrecedesOrder
  <2>3. ~Precedes(all(p), all(p))
    BY <1>4, PrecedesOrder
  <2> QED  BY <1>5, <2>1, <2>2
<1>8. close # {}
  BY <1>2
<1>9. PICK m \in close : \A q \in close : <<q, m>> \notin R
  BY <1>3, <1>6, <1>7, <1>8, LeastOf
<1>10. m \in best
  <2>1. ASSUME NEW q \in close
        PROVE  \/ Between(q, weight) < Between(m, weight)
               \/ /\ Between(q, weight) = Between(m, weight)
                  /\ ~Precedes(q[1] \cup q[2], m[1] \cup m[2])
    <3>1. calls(q) \in Nat /\ calls(m) \in Nat
      BY <1>4
    <3>2. ~(calls(q) > calls(m)) /\ ~(calls(q) = calls(m) /\ Precedes(all(q), all(m)))
      BY <1>5, <1>9
    <3>3. calls(q) < calls(m) \/ (calls(q) = calls(m) /\ ~Precedes(all(q), all(m)))
      BY <3>1, <3>2
    <3> QED  BY <3>3 DEF calls, all
  <2> QED  BY <2>1
<1>11. \A p \in best : p \in close /\ \A q \in close : calls(q) <= calls(p)
  <2> TAKE p \in best
  <2>1. p \in close /\ \A q \in close : calls(q) < calls(p) \/ calls(q) = calls(p)
    BY DEF calls
  <2> QED  BY <1>4, <2>1
<1> HIDE DEF best
<1>12. pair \in best
  BY <1>10
<1> HIDE DEF pair
<1>13. PICK C \in cs, D \in cs : pair = <<C, D>>
  BY <1>4, <1>11, <1>12
<1>14. MergeClosest(cs, weight, max) = (cs \ {C, D}) \cup {C \cup D}
  BY <1>1, <1>10, <1>13
<1>15. <<C, D>> \in close /\ \A q \in close : Between(q, weight) <= Between(<<C, D>>, weight)
  BY <1>11, <1>12, <1>13 DEF calls
<1> QED  BY <1>2, <1>14, <1>15 DEF IsMerged

\* A merge leaves one cluster less, and every cluster within one.
LEMMA OneLess ==
    ASSUME NEW files \in SUBSET Nat, IsFiniteSet(files), NEW weight, Counted(weight, files), NEW max,
           NEW cs \in SUBSET SUBSET files, Clustering(cs, files, max)
    PROVE  /\ Cardinality(cs) \in Nat
           /\ \/ Close(cs, weight, max) = {} /\ MergeClosest(cs, weight, max) = cs
              \/ Cardinality(MergeClosest(cs, weight, max)) = Cardinality(cs) - 1
           /\ \A C \in cs : \E D \in MergeClosest(cs, weight, max) : C \subseteq D
<1>0. IsFiniteSet(cs) /\ Cardinality(cs) \in Nat
  BY ClusterOf, FS_CardinalityType
<1>1. CASE Close(cs, weight, max) = {}
  BY <1>0, <1>1, NoneMerged
<1>2. CASE Close(cs, weight, max) # {}
  <2>1. PICK C \in cs, D \in cs : IsMerged(C, D, cs, weight, max)
    BY <1>2, MostCalled
  <2>2. C # D /\ C # {}
    <3>1. MayMerge(C, D, max)
      BY <2>1 DEF IsMerged, Close
    <3>2. C # {}
      BY DEF Clustering
    <3> QED  BY <3>1, <3>2 DEF MayMerge
  <2>3. C \cup D \notin (cs \ {C}) \ {D}
    <3>1. \A E \in cs : E = C \/ E \cap C = {}
      BY DEF Clustering
    <3> QED  BY <2>2, <3>1
  <2>4. IsFiniteSet(cs \ {C}) /\ Cardinality(cs \ {C}) = Cardinality(cs) - 1
    BY <1>0, FS_RemoveElement
  <2>5. D \in cs \ {C}
    BY <2>2
  <2> DEFINE rest == (cs \ {C}) \ {D}
  <2>6. IsFiniteSet(rest) /\ Cardinality(rest) = Cardinality(cs) - 1 - 1
    BY <2>4, <2>5, FS_RemoveElement
  <2>7. Cardinality(rest \cup {C \cup D}) = Cardinality(rest) + 1
    <3>1. C \cup D \notin rest
      BY <2>3
    <3> HIDE DEF rest
    <3> QED  BY <2>6, <3>1, FS_AddElement
  <2>8. MergeClosest(cs, weight, max) = rest \cup {C \cup D}
    BY <2>1 DEF IsMerged
  <2>9. \A E \in cs : E \in rest \/ E = C \/ E = D
    OBVIOUS
  <2>10. \A E \in cs : \E F \in MergeClosest(cs, weight, max) : E \subseteq F
    <3>1. \A E \in rest : E \in MergeClosest(cs, weight, max)
      BY <2>8
    <3>2. C \cup D \in MergeClosest(cs, weight, max)
      BY <2>8
    <3> QED  BY <2>9, <3>1, <3>2
  <2> HIDE DEF rest
  <2> QED  BY <1>0, <2>6, <2>7, <2>8, <2>10
<1> QED  BY <1>1, <1>2

\* What cluster_files goes through: from a cluster for each file, a merge at a time.
Merges(X, files, weight, max) ==
    {after \in [0 .. Cardinality(files) -> X] :
        /\ after[0] = {{f} : f \in files}
        /\ \A i \in 1 .. Cardinality(files) : after[i] = MergeClosest(after[i - 1], weight, max)
        /\ Clusters(files, weight, max) = after[Cardinality(files)]}

\* It stays where every merge stays.
LEMMA ClustersRun ==
    ASSUME NEW files, IsFiniteSet(files), NEW weight, NEW max, NEW X,
           {{f} : f \in files} \in X, \A cs \in X : MergeClosest(cs, weight, max) \in X
    PROVE  Merges(X, files, weight, max) # {}
<1> DEFINE n == Cardinality(files)
           base == {{f} : f \in files}
           step == [i \in 1 .. n |-> [cs \in X |-> MergeClosest(cs, weight, max)]]
           Rec(g) == g = [i \in 0 .. n |-> IF i = 0 THEN base ELSE MergeClosest(g[i - 1], weight, max)]
           after == CHOOSE g : Rec(g)
<1>1. n \in Nat /\ base \in X
  BY FS_CardinalityType
<1>2. Clusters(files, weight, max) = after[n]
  BY DEF Clusters
<1>3. step \in Moves(n, X)
  BY DEF Moves
<1>4. \A i \in 1 .. n : \A x \in X : step[i][x] = MergeClosest(x, weight, max)
  OBVIOUS
<1> HIDE DEF n, step, base
<1>5. Runs(n, X, base, step) # {}
  BY <1>1, <1>3, Iterates
<1>6. PICK g \in [0 .. n -> X] : g[0] = base /\ \A i \in 1 .. n : g[i] = step[i][g[i - 1]]
  BY <1>5 DEF Runs
<1>7. Rec(g)
  <2>1. ASSUME NEW i \in 1 .. n PROVE g[i] = MergeClosest(g[i - 1], weight, max)
    <3>1. i - 1 \in 0 .. n
      BY <1>1
    <3> QED  BY <1>4, <1>6, <3>1
  <2> DEFINE next(i) == IF i = 0 THEN base ELSE MergeClosest(g[i - 1], weight, max)
  <2>2. \A i \in 0 .. n : i = 0 \/ i \in 1 .. n
    BY <1>1
  <2>3. \A i \in 0 .. n : g[i] = next(i)
    BY <1>6, <2>1, <2>2
  <2> HIDE DEF next
  <2>4. g = [i \in 0 .. n |-> next(i)]
    BY <2>3
  <2> QED  BY <2>4 DEF next
<1>8. Rec(after)
  <2> HIDE DEF Rec
  <2> QED  BY <1>7
<1> HIDE DEF after
<1>9. after[0] = base /\ \A i \in 1 .. n : after[i] = MergeClosest(after[i - 1], weight, max)
  BY <1>1, <1>8
<1>10. DOMAIN after = 0 .. n /\ after = [i \in 0 .. n |-> after[i]]
  BY <1>8
<1> HIDE DEF Rec
<1> DEFINE T == {i \in 0 .. n : after[i] \in X}
<1>11. 0 \in T
  BY <1>1, <1>9
<1>12. ASSUME NEW m \in 0 .. n, m \in T, m < n PROVE m + 1 \in T
  <2>1. m + 1 \in 1 .. n /\ m + 1 \in 0 .. n /\ (m + 1) - 1 = m
    BY <1>1, <1>12
  <2>2. after[m + 1] = MergeClosest(after[m], weight, max)
    BY <1>9, <2>1
  <2> QED  BY <1>12, <2>1, <2>2
<1>13. \A i \in 0 .. n : after[i] \in X
  <2>1. \A i \in 0 .. n : i \in T
    <3> HIDE DEF T
    <3> QED  BY <1>1, <1>11, <1>12, Climb
  <2> QED  BY <2>1
<1>14. after \in [0 .. n -> X]
  BY <1>10, <1>13
<1>15. after \in Merges(X, files, weight, max)
  BY <1>2, <1>9, <1>14 DEF Merges, n, base
<1> QED  BY <1>15

\* At first every file is a cluster of its own.
LEMMA FilesAlone ==
    ASSUME NEW files, NEW max \in Nat
    PROVE  /\ {{f} : f \in files} \in SUBSET SUBSET files
           /\ Clustering({{f} : f \in files}, files, max)
<1> DEFINE base == {{f} : f \in files}
<1>1. base \in SUBSET SUBSET files /\ UNION base = files
  OBVIOUS
<1>2. \A C, D \in base : C = D \/ C \cap D = {}
  OBVIOUS
<1>3. \A f \in files : Cardinality({f}) = 1
  BY FS_Singleton
<1>4. \A C \in base : C # {} /\ Cardinality(C) <= (IF max > 1 THEN max ELSE 1)
  BY <1>3
<1> QED  BY <1>1, <1>2, <1>4 DEF Clustering

\* However the files call each other, cluster_files puts each file into one cluster,
\* and no cluster is larger than network_max_cluster_size (a part of ClusteringSound).
LEMMA ClustersPartition ==
    ASSUME NEW files, IsFiniteSet(files), NEW weight, NEW max \in Nat
    PROVE  Clustering(Clusters(files, weight, max), files, max)
<1> DEFINE X == {cs \in SUBSET SUBSET files : Clustering(cs, files, max)}
           n == Cardinality(files)
<1>1. {{f} : f \in files} \in X
  BY FilesAlone
<1>2. ASSUME NEW cs \in X PROVE MergeClosest(cs, weight, max) \in X
  BY MergeClosestOf
<1> HIDE DEF X
<1>a. Merges(X, files, weight, max) # {}
  BY <1>1, <1>2, ClustersRun
<1>3. PICK after \in [0 .. n -> X] : Clusters(files, weight, max) = after[n]
  BY <1>a DEF Merges
<1>4. n \in Nat
  BY FS_CardinalityType
<1>5. Clusters(files, weight, max) \in X
  BY <1>3, <1>4
<1> QED  BY <1>5 DEF X

\* When the n-th merge is done, none can be done any more.
LEMMA NoneLeft ==
    ASSUME NEW files \in SUBSET Nat, IsFiniteSet(files), NEW weight, Counted(weight, files),
           NEW max \in Nat
    PROVE  /\ Clusters(files, weight, max) \in SUBSET SUBSET files
           /\ Close(Clusters(files, weight, max), weight, max) = {}
<1> DEFINE X == {cs \in SUBSET SUBSET files : Clustering(cs, files, max)}
           n == Cardinality(files)
           base == {{f} : f \in files}
<1>1. base \in X
  BY FilesAlone
<1>2. ASSUME NEW cs \in X PROVE MergeClosest(cs, weight, max) \in X
  BY MergeClosestOf
<1>3. n \in Nat
  BY FS_CardinalityType
<1>4. Cardinality(base) <= n
  <2> DEFINE f == [x \in files |-> {x}]
  <2>1. f \in Surjection(files, base)
    BY DEF Surjection
  <2> HIDE DEF f, base
  <2> QED  BY <2>1, FS_Surjection
<1>5. ASSUME NEW cs \in X
      PROVE  /\ Cardinality(cs) \in Nat
             /\ \/ Close(cs, weight, max) = {} /\ MergeClosest(cs, weight, max) = cs
                \/ Cardinality(MergeClosest(cs, weight, max)) = Cardinality(cs) - 1
  BY OneLess
<1>6. \A cs \in X : cs \in SUBSET SUBSET files
  OBVIOUS
<1> HIDE DEF X, n, base
<1>7. PICK after \in [0 .. n -> X] :
         /\ after[0] = base
         /\ \A i \in 1 .. n : after[i] = MergeClosest(after[i - 1], weight, max)
         /\ Clusters(files, weight, max) = after[n]
  <2>1. Merges(X, files, weight, max) # {}
    BY <1>1, <1>2, ClustersRun DEF base
  <2> QED  BY <2>1 DEF Merges, n, base
<1> DEFINE T == {i \in 0 .. n : Cardinality(after[i]) <= n - i \/ Close(after[i], weight, max) = {}}
<1>8. 0 \in T
  BY <1>3, <1>4, <1>7
<1>9. ASSUME NEW m \in 0 .. n, m \in T, m < n PROVE m + 1 \in T
  <2>1. m + 1 \in 1 .. n /\ m + 1 \in 0 .. n /\ (m + 1) - 1 = m
    BY <1>3, <1>9
  <2> DEFINE cs == after[m]
  <2>2. after[m + 1] = MergeClosest(cs, weight, max) /\ cs \in X
    BY <1>7, <2>1
  <2>3. Cardinality(cs) <= n - m \/ Close(cs, weight, max) = {}
    BY <1>9
  <2> HIDE DEF cs
  <2>4. Cardinality(after[m + 1]) <= n - (m + 1) \/ Close(after[m + 1], weight, max) = {}
    <3>1. CASE Close(cs, weight, max) = {}
      BY <2>2, <3>1, NoneMerged
    <3>2. CASE Close(cs, weight, max) # {}
      <4>1. Cardinality(after[m + 1]) = Cardinality(cs) - 1 /\ Cardinality(cs) \in Nat
        BY <1>5, <2>2, <3>2
      <4> QED  BY <1>3, <2>3, <3>2, <4>1
    <3> QED  BY <3>1, <3>2
  <2> QED  BY <2>1, <2>4
<1>10. n \in T
  <2> HIDE DEF T
  <2>1. \A i \in 0 .. n : i \in T
    BY <1>3, <1>8, <1>9, Climb
  <2> QED  BY <1>3, <2>1
<1> DEFINE cs == after[n]
<1>11. cs \in X /\ n - n = 0
  BY <1>3, <1>7
<1>12. Cardinality(cs) <= n - n \/ Close(cs, weight, max) = {}
  BY <1>10
<1> HIDE DEF cs
<1>13. Close(cs, weight, max) = {}
  <2>1. CASE Cardinality(cs) <= 0
    <3>1. Cardinality(cs) = 0
      BY <1>5, <1>11, <2>1
    <3>2. cs = {}
      BY <1>6, <1>11, <3>1, ClusterOf, FS_EmptySet
    <3> QED  BY <3>2 DEF Close
  <2> QED  BY <1>11, <1>12, <2>1
<1> QED  BY <1>6, <1>7, <1>11, <1>13 DEF cs

\* A set of two is one of two members.
LEMMA TwoMembers ==
    ASSUME NEW a, NEW b, a # b
    PROVE  Cardinality({a, b}) = 2
<1>1. IsFiniteSet({a}) /\ Cardinality({a}) = 1
  BY FS_Singleton
<1>2. Cardinality({a} \cup {b}) = 1 + 1
  BY <1>1, FS_AddElement
<1>3. {a, b} = {a} \cup {b}
  OBVIOUS
<1> QED  BY <1>2, <1>3

IsPair(files, p) == \E a, b \in files : a # b /\ p = {a, b}

\* A set of two files is such a pair.
LEMMA PairOf ==
    ASSUME NEW files, IsFiniteSet(files), NEW p \in SUBSET files, Cardinality(p) = 2
    PROVE  IsPair(files, p)
<1>1. IsFiniteSet(p) /\ p # {}
  BY FS_Subset, FS_EmptySet
<1>2. PICK a \in p : TRUE
  BY <1>1
<1>3. IsFiniteSet(p \ {a}) /\ Cardinality(p \ {a}) = 1
  BY <1>1, FS_RemoveElement
<1>4. PICK b : p \ {a} = {b}
  BY <1>3, FS_Singleton
<1>5. a # b /\ p = {a, b}
  BY <1>4
<1> QED  BY <1>5 DEF IsPair

\* Two files call each other, and no other two as much.
Heaviest(weight, files, a, b) ==
    /\ a # b /\ weight[{a, b}] > 0
    /\ \A x, y \in files : x # y /\ {x, y} # {a, b} => weight[{x, y}] < weight[{a, b}]

\* Of files that are all apart, the two with the most calls are merged.
LEMMA HeaviestFirst ==
    ASSUME NEW files \in SUBSET Nat, IsFiniteSet(files), NEW weight, Counted(weight, files),
           NEW max \in Nat, max > 1, NEW a \in files, NEW b \in files, Heaviest(weight, files, a, b)
    PROVE  {a, b} \in MergeClosest({{f} : f \in files}, weight, max)
<1> DEFINE base == {{f} : f \in files}
<1>1. base \in SUBSET SUBSET files /\ Clustering(base, files, max)
  BY FilesAlone
<1>2. \A x, y \in files : x # y => weight[{x, y}] \in Nat
  BY DEF Counted
<1>a. a # b /\ weight[{a, b}] > 0
  BY DEF Heaviest
<1>3. ASSUME NEW x \in files, NEW y \in files, x # y
      PROVE  Between(<<{x}, {y}>>, weight) = weight[{x, y}]
  BY <1>2, <1>3, BetweenFiles
<1>4. {a} \in base /\ {b} \in base
  OBVIOUS
<1>5. \A C \in base : \E x \in files : C = {x}
  OBVIOUS
<1> HIDE DEF base
<1> DEFINE pair == <<{a}, {b}>>
<1>6. pair \in Close(base, weight, max)
  <2>1. Cardinality({a}) + Cardinality({b}) <= max
    <3>1. Cardinality({a}) = 1 /\ Cardinality({b}) = 1
      BY FS_Singleton
    <3> QED  BY <3>1
  <2>2. MayMerge({a}, {b}, max)
    BY <1>a, <2>1 DEF MayMerge
  <2>3. Between(pair, weight) > 0
    BY <1>3, <1>a
  <2>4. pair \in base \X base /\ pair[1] = {a} /\ pair[2] = {b}
    BY <1>4
  <2> HIDE DEF pair
  <2> QED  BY <2>2, <2>3, <2>4 DEF Close
<1> HIDE DEF pair
<1>7. PICK C \in base, D \in base : IsMerged(C, D, base, weight, max)
  <2>1. Close(base, weight, max) # {}
    BY <1>6
  <2> QED  BY <1>1, <2>1, MostCalled
<1>8. PICK x \in files, y \in files : C = {x} /\ D = {y}
  BY <1>5
<1>9. x # y
  <2>1. MayMerge(C, D, max)
    BY <1>7 DEF IsMerged, Close
  <2> QED  BY <1>8, <2>1 DEF MayMerge
<1>10. weight[{a, b}] <= weight[{x, y}]
  <2>1. Between(pair, weight) <= Between(<<C, D>>, weight)
    BY <1>6, <1>7 DEF IsMerged
  <2> QED  BY <1>3, <1>a, <1>8, <1>9, <2>1 DEF pair
<1>11. {x, y} = {a, b}
  <2>1. weight[{a, b}] \in Nat /\ weight[{x, y}] \in Nat
    BY <1>2, <1>9, <1>a
  <2>2. ~(weight[{x, y}] < weight[{a, b}])
    BY <1>10, <2>1
  <2> QED  BY <1>9, <2>2 DEF Heaviest
<1>12. C \cup D = {a, b}
  BY <1>8, <1>11
<1> QED  BY <1>7, <1>12 DEF base, IsMerged

\* And stay in one cluster.
LEMMA HeaviestTogether ==
    ASSUME NEW files \in SUBSET Nat, IsFiniteSet(files), NEW weight, Counted(weight, files),
           NEW max \in Nat, max > 1, NEW a \in files, NEW b \in files, Heaviest(weight, files, a, b)
    PROVE  \E C \in Clusters(files, weight, max) : {a, b} \subseteq C
<1> DEFINE X == {cs \in SUBSET SUBSET files : Clustering(cs, files, max)}
           n == Cardinality(files)
           base == {{f} : f \in files}
<1>1. base \in X
  BY FilesAlone
<1>2. ASSUME NEW cs \in X PROVE MergeClosest(cs, weight, max) \in X
  BY MergeClosestOf
<1>3. n \in Nat /\ n # 0
  BY FS_CardinalityType, FS_EmptySet
<1>4. {a, b} \in MergeClosest(base, weight, max)
  BY HeaviestFirst
<1>5. ASSUME NEW cs \in X
      PROVE  \A C \in cs : \E D \in MergeClosest(cs, weight, max) : C \subseteq D
  BY OneLess
<1> HIDE DEF X, n, base
<1>6. PICK after \in [0 .. n -> X] :
         /\ after[0] = base
         /\ \A i \in 1 .. n : after[i] = MergeClosest(after[i - 1], weight, max)
         /\ Clusters(files, weight, max) = after[n]
  <2>1. Merges(X, files, weight, max) # {}
    BY <1>1, <1>2, ClustersRun DEF base
  <2> QED  BY <2>1 DEF Merges, n, base
<1> DEFINE Together(cs) == \E C \in cs : {a, b} \subseteq C
           T == {i \in 0 .. n : i = 0 \/ Together(after[i])}
<1>7. 0 \in T
  BY <1>3
<1>8. ASSUME NEW m \in 0 .. n, m \in T, m < n PROVE m + 1 \in T
  <2>1. m + 1 \in 1 .. n /\ m + 1 \in 0 .. n /\ (m + 1) - 1 = m
    BY <1>3, <1>8
  <2>2. after[m + 1] = MergeClosest(after[m], weight, max) /\ after[m] \in X
    BY <1>6, <2>1
  <2>3. CASE m = 0
    <3>1. {a, b} \in after[m + 1]
      BY <1>4, <1>6, <2>2, <2>3
    <3> QED  BY <2>1, <3>1
  <2>4. CASE Together(after[m])
    <3>1. PICK C \in after[m] : {a, b} \subseteq C
      BY <2>4
    <3>2. PICK D \in after[m + 1] : C \subseteq D
      BY <1>5, <2>2, <3>1
    <3>3. Together(after[m + 1])
      BY <3>1, <3>2
    <3> QED  BY <2>1, <3>3
  <2> QED  BY <1>8, <2>3, <2>4
<1>9. n \in T
  <2> HIDE DEF T
  <2>1. \A i \in 0 .. n : i \in T
    BY <1>3, <1>7, <1>8, Climb
  <2> QED  BY <1>3, <2>1
<1>10. Together(after[n])
  BY <1>3, <1>9
<1> QED  BY <1>6, <1>10

\* However the files call each other, cluster_files parts them into clusters of which
\* none is too large and no two that call each other could still be merged, and the
\* heaviest pair of files is in one of them: ClusteringSound, for any files, weights and maximum.
THEOREM ClusteringIsSound ==
    ASSUME NEW files \in SUBSET Nat, IsFiniteSet(files), NEW max \in Nat,
           NEW weight \in [{p \in SUBSET files : Cardinality(p) = 2} -> Nat]
    PROVE  ClusteringSound(files, weight, max)
<1> DEFINE cs    == Clusters(files, weight, max)
           pairs == {p \in SUBSET files : Cardinality(p) = 2}
           most  == IF max > 1 THEN max ELSE 1
<1>1. ASSUME NEW a \in files, NEW b \in files, a # b PROVE {a, b} \in pairs
  <2>1. {a, b} \in SUBSET files
    OBVIOUS
  <2> QED  BY <1>1, <2>1, TwoMembers
<1>2. ASSUME NEW p \in pairs PROVE \E a, b \in files : a # b /\ p = {a, b}
  <2>1. p \in SUBSET files /\ Cardinality(p) = 2
    OBVIOUS
  <2> HIDE DEF pairs
  <2>2. IsPair(files, p)
    BY <2>1, PairOf
  <2> QED  BY <2>2 DEF IsPair
<1>3. weight \in [pairs -> Nat]
  OBVIOUS
<1> HIDE DEF pairs
<1>4. Counted(weight, files)
  BY <1>1, <1>3 DEF Counted
<1>5. Clustering(cs, files, max) /\ cs \in SUBSET SUBSET files
  BY <1>4, ClustersPartition, NoneLeft
<1>6. Close(cs, weight, max) = {}
  BY <1>4, NoneLeft
<1> DEFINE PartedWell == UNION cs = files /\ \A C, D \in cs : C = D \/ C \cap D = {}
           SmallEnough == \A C \in cs : Cardinality(C) \in 1 .. most
           NoneToMerge == \A C, D \in cs : C # D =>
              Cardinality(C \cup D) > max \/ \A a \in C, b \in D : weight[{a, b}] = 0
           HeaviestIn == \A heavy \in pairs :
              /\ max > 1 /\ weight[heavy] > 0
              /\ \A p \in pairs \ {heavy} : weight[p] < weight[heavy]
              => \E C \in cs : heavy \subseteq C
<1> HIDE DEF cs
<1>7. PartedWell
  BY <1>5 DEF Clustering
<1>8. SmallEnough
  <2>1. ASSUME NEW C \in cs PROVE Cardinality(C) \in 1 .. most
    <3>1. C # {} /\ Cardinality(C) <= most
      BY <1>5 DEF Clustering
    <3>2. IsFiniteSet(C) /\ Cardinality(C) \in Nat
      BY <1>5, ClusterOf
    <3>3. Cardinality(C) # 0
      BY <3>1, <3>2, FS_EmptySet
    <3> QED  BY <3>1, <3>2, <3>3
  <2> QED  BY <2>1
<1>9. NoneToMerge
  <2>1. ASSUME NEW C \in cs, NEW D \in cs, C # D, ~(Cardinality(C \cup D) > max),
               NEW a \in C, NEW b \in D
        PROVE  weight[{a, b}] = 0
    <3>1. C \cap D = {}
      BY <1>5, <2>1 DEF Clustering
    <3>2. IsFiniteSet(C) /\ IsFiniteSet(D) /\ Cardinality(C) \in Nat /\ Cardinality(D) \in Nat
      BY <1>5, ClusterOf
    <3>3. Cardinality(C \cup D) = Cardinality(C) + Cardinality(D)
      <4>1. Cardinality(C \cap D) = 0
        BY <3>1, FS_EmptySet
      <4>2. Cardinality(C \cup D) = Cardinality(C) + Cardinality(D) - Cardinality(C \cap D)
        BY <3>2, FS_Union
      <4> QED  BY <3>2, <4>1, <4>2
    <3>4. MayMerge(C, D, max)
      BY <2>1, <3>2, <3>3 DEF MayMerge
    <3>5. ~(Between(<<C, D>>, weight) > 0)
      BY <1>6, <3>4 DEF Close
    <3>6. ~(weight[{a, b}] > 0)
      BY <1>4, <1>5, <2>1, <3>5, ClusterCalls
    <3>7. weight[{a, b}] \in Nat
      <4>1. a \in files /\ b \in files /\ a # b
        BY <1>5, <3>1
      <4> QED  BY <1>4, <4>1 DEF Counted
    <3> QED  BY <3>6, <3>7
  <2> QED  BY <2>1
<1>10. HeaviestIn
  <2>1. ASSUME NEW heavy \in pairs, max > 1, weight[heavy] > 0,
               \A p \in pairs \ {heavy} : weight[p] < weight[heavy]
        PROVE  \E C \in cs : heavy \subseteq C
    <3>1. PICK a \in files, b \in files : a # b /\ heavy = {a, b}
      BY <1>2
    <3>2. \A x, y \in files : x # y /\ {x, y} # {a, b} => weight[{x, y}] < weight[{a, b}]
      BY <1>1, <2>1, <3>1
    <3>3. Heaviest(weight, files, a, b)
      BY <2>1, <3>1, <3>2 DEF Heaviest
    <3>4. \E C \in Clusters(files, weight, max) : {a, b} \subseteq C
      BY <1>4, <2>1, <3>3, HeaviestTogether
    <3> QED  BY <3>1, <3>4 DEF cs
  <2> QED  BY <2>1
<1> QED  BY <1>7, <1>8, <1>9, <1>10 DEF ClusteringSound, cs, pairs

\* A cluster of a codebase is one of its files.
LEMMA FileClustersOf ==
    ASSUME NEW files, Sequence(files), NEW units
    PROVE  /\ Sequence(FileClusters(files, units))
           /\ \A c \in DOMAIN FileClusters(files, units) : FileClusters(files, units)[c] \in SUBSET DOMAIN files
<1> DEFINE n == Len(files)
           weight  == [pair \in {{a, b} : a, b \in DOMAIN files} |->
                          LET a == CHOOSE x \in pair : TRUE
                              b == CHOOSE x \in pair : pair = {a, x}
                          IN  EdgeWeight(units, a, b)]
           grouped == Clusters(DOMAIN files, weight, MaxCluster)
           home    == [f \in DOMAIN files |-> CHOOSE C \in grouped : f \in C]
           I == {f \in DOMAIN files : \A g \in home[f] : f <= g}
           S == SUBSET DOMAIN files
<1>1. n \in Nat /\ DOMAIN files = 1 .. n
  BY DomainSequence
<1>2. FileClusters(files, units) = Picked(home, I)
  BY DEF FileClusters
<1> HIDE DEF weight
<1>3. UNION grouped = DOMAIN files
  <2>1. IsFiniteSet(DOMAIN files)
    BY <1>1, FS_Interval
  <2>2. Clustering(Clusters(DOMAIN files, weight, MaxCluster), DOMAIN files, MaxCluster)
    BY <2>1, ClustersPartition, ReviewAssumption
  <2> QED  BY <2>2 DEF Clustering
<1> HIDE DEF grouped
<1>4. \A f \in DOMAIN files : home[f] \in S
  <2> TAKE f \in DOMAIN files
  <2>1. (CHOOSE C \in grouped : f \in C) \in grouped
    BY <1>3
  <2> QED  BY <1>3, <2>1
<1>5. home \in Seq(S) /\ Len(home) = n
  <2>1. DOMAIN home = 1 .. n /\ home = [f \in 1 .. n |-> home[f]]
    BY <1>1
  <2> HIDE DEF home
  <2> QED  BY <1>1, <1>4, <2>1
<1>6. I \in SUBSET (1 .. Len(home))
  BY <1>1, <1>5
<1> HIDE DEF home, I, S
<1>7. Picked(home, I) \in Seq(S)
  BY <1>5, <1>6, PickedOf
<1> HIDE DEF S
<1>8. Sequence(Picked(home, I)) /\ \A c \in DOMAIN Picked(home, I) : Picked(home, I)[c] \in S
  BY <1>7, SequenceOf
<1> QED  BY <1>2, <1>8 DEF S

-----------------------------------------------------------------------------
(* The tree of a review.                                                   *)

\* A path with one more step, and without it again.
LEMMA PathAppend ==
    ASSUME NEW s \in Seq(Nat), NEW k \in Nat
    PROVE  /\ Append(s, k) \in Seq(Nat) /\ Append(s, k) # <<>>
           /\ Len(Append(s, k)) = Len(s) + 1 /\ Len(s) \in Nat
           /\ Front(Append(s, k)) = s /\ Last(Append(s, k)) = k
<1>1. Append(s, k) \in Seq(Nat) /\ Len(Append(s, k)) = Len(s) + 1 /\ Len(s) \in Nat
  OBVIOUS
<1>2. Front(Append(s, k)) = s
  BY <1>1 DEF Front
<1>3. Last(Append(s, k)) = k
  BY <1>1 DEF Last
<1> QED  BY <1>1, <1>2, <1>3

\* The path of a file is its cluster's with one more step.
LEMMA FilePathFront ==
    ASSUME NEW c \in Nat, NEW f \in Nat
    PROVE  <<c, f>> \in Seq(Nat) /\ Len(<<c, f>>) = 2 /\ Front(<<c, f>>) = <<c>>
<1> DEFINE s == <<c, f>>
<1>1. s \in Seq(Nat) /\ Len(s) = 2 /\ s[1] = c
  OBVIOUS
<1> HIDE DEF s
<1> DEFINE t == SubSeq(s, 1, 1)
<1>2. t \in Seq(Nat) /\ Len(t) = 1 /\ t[1] = c
  BY <1>1
<1> HIDE DEF t
<1>3. t = <<c>>
  BY <1>2
<1>4. Len(s) - 1 = 1
  BY <1>1
<1>5. Front(s) = t
  BY <1>4 DEF Front, t
<1> QED  BY <1>1, <1>3, <1>5 DEF s

\* The path of a file is its cluster and its place in the codebase.
LEMMA FileIdsOf ==
    ASSUME NEW files, Sequence(files), NEW clusters, Sequence(clusters),
           \A c \in DOMAIN clusters : clusters[c] \in SUBSET DOMAIN files
    PROVE  /\ Sequence(FileIds(files, clusters))
           /\ \A b \in DOMAIN FileIds(files, clusters) :
                 \E c \in DOMAIN clusters, f \in DOMAIN files : FileIds(files, clusters)[b] = <<c, f>>
<1> DEFINE Place(c) == [f \in DOMAIN files |-> <<c, f>>]
           parts == [c \in DOMAIN clusters |-> Picked(Place(c), clusters[c])]
           ids == FlattenSeq(parts)
<1>1. FileIds(files, clusters) = ids
  BY DEF FileIds
<1>2. DOMAIN files = 1 .. Len(files) /\ Len(files) \in Nat /\ DOMAIN clusters = 1 .. Len(clusters) /\ Len(clusters) \in Nat
  BY DomainSequence
<1>3. ASSUME NEW c \in DOMAIN clusters
      PROVE  /\ Sequence(parts[c])
             /\ \A k \in DOMAIN parts[c] : \E f \in DOMAIN files : parts[c][k] = <<c, f>>
  <2> DEFINE s == Place(c)
             S == {<<c, f>> : f \in DOMAIN files}
  <2>1. s \in Seq(S) /\ Len(s) = Len(files)
    <3>1. DOMAIN s = 1 .. Len(files) /\ s = [f \in 1 .. Len(files) |-> s[f]] /\ \A f \in DOMAIN s : s[f] \in S
      BY <1>2
    <3> HIDE DEF s, S
    <3> QED  BY <1>2, <3>1
  <2>2. clusters[c] \in SUBSET (1 .. Len(s))
    BY <1>2, <2>1
  <2> HIDE DEF s, S
  <2>3. Picked(s, clusters[c]) \in Seq(S)
    BY <2>1, <2>2, PickedOf
  <2>4. Sequence(Picked(s, clusters[c])) /\ \A k \in DOMAIN Picked(s, clusters[c]) : Picked(s, clusters[c])[k] \in S
    BY <2>3, SequenceOf
  <2>5. parts[c] = Picked(s, clusters[c])
    BY DEF s
  <2> HIDE DEF parts
  <2> QED  BY <2>4, <2>5 DEF S
<1>4. Sequence(parts) /\ DOMAIN parts = DOMAIN clusters /\ Len(parts) = Len(clusters)
  <2>1. DOMAIN parts = 1 .. Len(clusters) /\ parts = [c \in 1 .. Len(clusters) |-> parts[c]]
    BY <1>2
  <2> HIDE DEF parts
  <2> QED  BY <1>2, <2>1, FunctionSequence
<1> HIDE DEF parts
<1>5. Sequence(ids) /\ InOrderOf(ids, parts, Len(parts))
  BY <1>3, <1>4, FlattenSequence
<1>6. ASSUME NEW b \in DOMAIN ids
      PROVE  \E c \in DOMAIN clusters, f \in DOMAIN files : ids[b] = <<c, f>>
  <2>1. PICK c \in 1 .. Len(parts) : Follows(ids, b, parts, c)
    BY <1>5 DEF InOrderOf
  <2>2. PICK o \in DOMAIN parts[c] : ids[b] = parts[c][o]
    BY <2>1 DEF Follows
  <2>3. c \in DOMAIN clusters
    BY <1>2, <1>4
  <2> QED  BY <1>3, <2>2, <2>3
<1> QED  BY <1>1, <1>5, <1>6

\* What units of a file become: each has the file's path with one more step.
NodesOf(units, id) ==
    /\ Sequence(units)
    /\ \A k \in DOMAIN units :
          /\ units[k].id = Append(id, k) /\ Sequence(units[k].leaves)
          /\ \A p \in DOMAIN units[k].leaves : Settled(units[k].leaves[p], units[k].header, LeafBudget)

\* The units of a file that is source are such nodes.
LEMMA UnitNodesOf ==
    ASSUME NEW file, Source(file), NEW id
    PROVE  NodesOf(UnitNodes(file, id), id)
<1> DEFINE cut   == FileUnits(file)
           lists == [l \in 1 .. Lenses |-> cut.units]
           items == FlattenSeq(lists)
           nodes == [k \in DOMAIN items |->
                       [id |-> Append(id, k), header |-> cut.header,
                        leaves |-> Leaves(items[k], cut.header, LeafBudget)]]
<1>1. UnitNodes(file, id) = nodes
  BY DEF UnitNodes
<1>2. cut.header \in Text /\ Sequence(cut.units) /\ \A i \in DOMAIN cut.units : UnitOf(cut.units[i])
  BY FileUnitsOf
<1> HIDE DEF cut
<1>3. Lenses \in Nat /\ LeafBudget \in Nat
  BY ReviewAssumption
<1>4. Sequence(lists) /\ Len(lists) = Lenses /\ \A l \in DOMAIN lists : lists[l] = cut.units
  <2>1. DOMAIN lists = 1 .. Lenses /\ lists = [l \in 1 .. Lenses |-> lists[l]] /\ \A l \in DOMAIN lists : lists[l] = cut.units
    OBVIOUS
  <2> HIDE DEF lists
  <2> QED  BY <1>3, <2>1, FunctionSequence
<1>5. DOMAIN lists = 1 .. Lenses
  OBVIOUS
<1> HIDE DEF lists
<1>6. Sequence(items) /\ InOrderOf(items, lists, Lenses)
  BY <1>2, <1>4, FlattenSequence
<1>7. ASSUME NEW k \in DOMAIN items PROVE UnitOf(items[k])
  <2>1. PICK l \in 1 .. Lenses : Follows(items, k, lists, l)
    BY <1>6 DEF InOrderOf
  <2>2. PICK o \in DOMAIN lists[l] : items[k] = lists[l][o]
    BY <2>1 DEF Follows
  <2> QED  BY <1>2, <1>4, <1>5, <2>2
<1>8. Len(items) \in Nat /\ DOMAIN items = 1 .. Len(items)
  BY <1>6, DomainSequence
<1> HIDE DEF items
<1>9. ASSUME NEW k \in DOMAIN nodes
      PROVE  /\ nodes[k].id = Append(id, k) /\ Sequence(nodes[k].leaves)
             /\ \A p \in DOMAIN nodes[k].leaves : Settled(nodes[k].leaves[p], nodes[k].header, LeafBudget)
  <2> DEFINE below == Leaves(items[k], cut.header, LeafBudget)
  <2>1. Sequence(below) /\ \A p \in DOMAIN below : Settled(below[p], cut.header, LeafBudget)
    BY <1>2, <1>3, <1>7, LeavesOf
  <2>2. nodes[k].id = Append(id, k) /\ nodes[k].leaves = below /\ nodes[k].header = cut.header
    OBVIOUS
  <2> HIDE DEF nodes, below
  <2> QED  BY <2>1, <2>2
<1>10. Sequence(nodes)
  <2>1. DOMAIN nodes = 1 .. Len(items) /\ nodes = [k \in 1 .. Len(items) |-> nodes[k]]
    BY <1>8
  <2> HIDE DEF nodes
  <2> QED  BY <1>8, <2>1, FunctionSequence
<1> QED  BY <1>1, <1>9, <1>10 DEF NodesOf

\* The path of a leaf is a unit's, or that of a piece of a unit that is cut.
LeafOf(units, id, path) ==
    \E k \in DOMAIN units :
        \/ Len(units[k].leaves) = 1 /\ path = Append(id, k)
        \/ Len(units[k].leaves) > 1 /\ \E p \in Nat : path = Append(Append(id, k), p)

\* A leaf that is queued: its path, and what is shown of the code.
LeafIn(leaf, units, id) == LeafOf(units, id, leaf.id) /\ Settled(leaf.unit, leaf.header, LeafBudget)

\* Every leaf below units is one of theirs.
LEMMA LeavesBelowOf ==
    ASSUME NEW units, NEW id, NodesOf(units, id)
    PROVE  /\ Sequence(LeavesBelow(units))
           /\ \A i \in DOMAIN LeavesBelow(units) : LeafIn(LeavesBelow(units)[i], units, id)
<1> DEFINE lists == [k \in DOMAIN units |-> UnitLeaves(units[k])]
           all == FlattenSeq(lists)
           n == Len(units)
<1>1. LeavesBelow(units) = all
  BY DEF LeavesBelow
<1>2. n \in Nat /\ DOMAIN units = 1 .. n
  BY DomainSequence DEF NodesOf
<1>3. ASSUME NEW k \in DOMAIN units
      PROVE  /\ Sequence(lists[k])
             /\ \A o \in DOMAIN lists[k] : LeafIn(lists[k][o], units, id)
  <2> DEFINE node == units[k]
             m == Len(node.leaves)
             single == [id |-> node.id, unit |-> node.leaves[1], header |-> node.header]
             several == [p \in DOMAIN node.leaves |->
                           [id |-> Append(node.id, p), unit |-> node.leaves[p], header |-> node.header]]
  <2>1. lists[k] = IF m = 1 THEN <<single>> ELSE several
    BY DEF UnitLeaves
  <2>2. node.id = Append(id, k) /\ m \in Nat /\ DOMAIN node.leaves = 1 .. m
    BY DomainSequence DEF NodesOf
  <2>3. single.id = node.id /\ single.unit = node.leaves[1] /\ single.header = node.header
    OBVIOUS
  <2>4. /\ DOMAIN several = 1 .. m /\ several = [p \in 1 .. m |-> several[p]]
        /\ \A p \in DOMAIN several : /\ several[p].id = Append(node.id, p)
                                      /\ several[p].unit = node.leaves[p] /\ several[p].header = node.header
    BY <2>2
  <2>a. \A p \in DOMAIN node.leaves : Settled(node.leaves[p], node.header, LeafBudget)
    BY DEF NodesOf
  <2> HIDE DEF single, several, m, lists
  <2>5. CASE m = 1
    <3>1. lists[k] = <<single>>
      BY <2>1, <2>5
    <3>2. <<single>> \in Seq({single}) /\ \A o \in DOMAIN <<single>> : <<single>>[o] = single
      OBVIOUS
    <3>3. Sequence(<<single>>)
      BY <3>2, SequenceOf
    <3>4. LeafIn(single, units, id)
      <4>1. LeafOf(units, id, single.id)
        BY <2>2, <2>3, <2>5 DEF LeafOf, m
      <4>2. 1 \in DOMAIN node.leaves
        BY <2>2, <2>5
      <4> QED  BY <2>3, <2>a, <4>1, <4>2 DEF LeafIn
    <3> QED  BY <3>1, <3>2, <3>3, <3>4
  <2>6. CASE m # 1
    <3>1. lists[k] = several /\ Sequence(several)
      BY <2>1, <2>2, <2>4, <2>6, FunctionSequence
    <3>2. ASSUME NEW p \in DOMAIN several PROVE LeafIn(several[p], units, id)
      <4>1. m > 1 /\ p \in Nat /\ p \in DOMAIN node.leaves
        BY <2>2, <2>4, <2>6
      <4>2. LeafOf(units, id, several[p].id)
        BY <2>2, <2>4, <4>1 DEF LeafOf, m
      <4> QED  BY <2>4, <2>a, <4>1, <4>2 DEF LeafIn
    <3> QED  BY <3>1, <3>2
  <2> QED  BY <2>5, <2>6
<1>4. Sequence(lists) /\ Len(lists) = n /\ DOMAIN lists = DOMAIN units
  <2>1. DOMAIN lists = 1 .. n /\ lists = [k \in 1 .. n |-> lists[k]]
    BY <1>2
  <2> HIDE DEF lists
  <2> QED  BY <1>2, <2>1, FunctionSequence
<1> HIDE DEF lists
<1>5. Sequence(all) /\ InOrderOf(all, lists, n)
  BY <1>3, <1>4, FlattenSequence
<1>6. ASSUME NEW i \in DOMAIN all PROVE LeafIn(all[i], units, id)
  <2>1. PICK k \in 1 .. n : Follows(all, i, lists, k)
    BY <1>5 DEF InOrderOf
  <2>2. PICK o \in DOMAIN lists[k] : all[i] = lists[k][o]
    BY <2>1 DEF Follows
  <2> QED  BY <1>2, <1>3, <2>2
<1> QED  BY <1>1, <1>5, <1>6

\* The units that are cut, and no others, are split.
LEMMA SplitUnitsOf ==
    ASSUME NEW units, NEW id, NodesOf(units, id)
    PROVE  /\ Sequence(SplitUnits(units))
           /\ \A o \in DOMAIN SplitUnits(units) : \E k \in DOMAIN units :
                 Len(units[k].leaves) > 1 /\ SplitUnits(units)[o] = Append(id, k)
           /\ \A k \in DOMAIN units : Len(units[k].leaves) > 1 =>
                 \E o \in DOMAIN SplitUnits(units) : SplitUnits(units)[o] = Append(id, k)
<1> DEFINE n == Len(units)
           s == [k \in DOMAIN units |-> units[k].id]
           I == {k \in DOMAIN units : Len(units[k].leaves) > 1}
<1>1. n \in Nat /\ DOMAIN units = 1 .. n
  BY DomainSequence DEF NodesOf
<1>2. SplitUnits(units) = Picked(s, I)
  BY DEF SplitUnits
<1>3. /\ DOMAIN s = 1 .. n /\ s = [k \in 1 .. n |-> s[k]]
      /\ \A k \in DOMAIN units : s[k] = Append(id, k)
  BY <1>1 DEF NodesOf
<1> HIDE DEF s
<1>4. Sequence(s) /\ Len(s) = n
  BY <1>1, <1>3, FunctionSequence
<1>5. s \in Seq(ToSet(s)) /\ I \in SUBSET (1 .. Len(s))
  BY <1>1, <1>4 DEF Sequence
<1>6. \A k \in I : k \in DOMAIN units /\ Len(units[k].leaves) > 1
  OBVIOUS
<1>7. \A k \in DOMAIN units : Len(units[k].leaves) > 1 => k \in I
  OBVIOUS
<1> HIDE DEF I
<1>8. /\ Picked(s, I) \in Seq(ToSet(s))
      /\ \A k \in 1 .. Len(Picked(s, I)) : \E i \in I : Picked(s, I)[k] = s[i]
      /\ \A i \in I : \E k \in 1 .. Len(Picked(s, I)) : Picked(s, I)[k] = s[i]
  BY <1>5, PickedOf
<1>9. Sequence(Picked(s, I)) /\ DOMAIN Picked(s, I) = 1 .. Len(Picked(s, I))
  BY <1>8, SequenceOf, DomainSequence
<1> DEFINE t == Picked(s, I)
<1>10. DOMAIN t = 1 .. Len(t) /\ Sequence(t) /\ SplitUnits(units) = t
  BY <1>2, <1>9
<1>11. ASSUME NEW o \in DOMAIN t
       PROVE  \E k \in DOMAIN units : Len(units[k].leaves) > 1 /\ t[o] = Append(id, k)
  <2>1. PICK k \in I : t[o] = s[k]
    BY <1>8, <1>10
  <2> QED  BY <1>3, <1>6, <2>1
<1>12. ASSUME NEW k \in DOMAIN units, Len(units[k].leaves) > 1
       PROVE  \E o \in DOMAIN t : t[o] = Append(id, k)
  <2>1. k \in I
    BY <1>7, <1>12
  <2>2. PICK o \in 1 .. Len(t) : t[o] = s[k]
    BY <1>8, <2>1
  <2> QED  BY <1>3, <1>10, <2>2
<1> HIDE DEF t
<1> QED  BY <1>10, <1>11, <1>12

\* The paths of files and what the files are cut into: a file is below its cluster,
\* its units below it, and a file that comes twice is cut the same way.
Laid(m, ids, cut) ==
    /\ m \in Nat /\ Sequence(ids)
    /\ \A b \in DOMAIN ids : /\ ids[b] \in Seq(Nat) /\ Len(ids[b]) = 2
                             /\ \E c \in 1 .. m : Front(ids[b]) = <<c>>
                             /\ NodesOf(cut[b], ids[b])
    /\ \A b, d \in DOMAIN ids : ids[b] = ids[d] => cut[b] = cut[d]

\* The paths of leaves, of units that are cut, and of files.
LeafPath(ids, cut, c) == \E b \in DOMAIN ids : LeafOf(cut[b], ids[b], c)
SplitPath(ids, cut, c) ==
    \E b \in DOMAIN ids : \E k \in DOMAIN cut[b] : Len(cut[b][k].leaves) > 1 /\ c = Append(ids[b], k)
FilePath(ids, c) == \E b \in DOMAIN ids : c = ids[b]

\* How long they are, and what is right above them.
LEMMA PathsOf ==
    ASSUME NEW m, NEW ids, NEW cut, Laid(m, ids, cut), NEW c
    PROVE  /\ FilePath(ids, c) => /\ c \in Seq(Nat) /\ Len(c) = 2
                                  /\ \E x \in 1 .. m : Front(c) = <<x>>
           /\ SplitPath(ids, cut, c) => c \in Seq(Nat) /\ Len(c) = 3 /\ FilePath(ids, Front(c))
           /\ LeafPath(ids, cut, c) => /\ c \in Seq(Nat) /\ Len(c) \in {3, 4}
                                       /\ FilePath(ids, Front(c)) \/ SplitPath(ids, cut, Front(c))
           /\ ~ (LeafPath(ids, cut, c) /\ (SplitPath(ids, cut, c) \/ FilePath(ids, c)))
<1>1. ASSUME FilePath(ids, c)
      PROVE  c \in Seq(Nat) /\ Len(c) = 2 /\ \E x \in 1 .. m : Front(c) = <<x>>
  BY <1>1 DEF FilePath, Laid
<1>2. ASSUME NEW b \in DOMAIN ids, NEW k \in DOMAIN cut[b]
      PROVE  /\ k \in Nat /\ ids[b] \in Seq(Nat) /\ Len(ids[b]) = 2
             /\ Append(ids[b], k) \in Seq(Nat) /\ Len(Append(ids[b], k)) = 3
             /\ Front(Append(ids[b], k)) = ids[b] /\ Last(Append(ids[b], k)) = k
  <2>1. ids[b] \in Seq(Nat) /\ Len(ids[b]) = 2 /\ NodesOf(cut[b], ids[b])
    BY DEF Laid
  <2>2. k \in Nat
    BY <2>1, DomainSequence DEF NodesOf
  <2> DEFINE s == ids[b]
  <2>3. s \in Seq(Nat) /\ Len(s) = 2
    BY <2>1
  <2> HIDE DEF s
  <2>4. /\ Append(s, k) \in Seq(Nat) /\ Len(Append(s, k)) = Len(s) + 1
        /\ Front(Append(s, k)) = s /\ Last(Append(s, k)) = k
    BY <2>2, <2>3, PathAppend
  <2>5. Len(Append(s, k)) = 3
    BY <2>3, <2>4
  <2> QED  BY <2>2, <2>3, <2>4, <2>5 DEF s
<1>3. ASSUME SplitPath(ids, cut, c)
      PROVE  c \in Seq(Nat) /\ Len(c) = 3 /\ FilePath(ids, Front(c))
  BY <1>2, <1>3 DEF SplitPath, FilePath
<1>4. ASSUME NEW b \in DOMAIN ids, NEW k \in DOMAIN cut[b], NEW p \in Nat,
             Len(cut[b][k].leaves) > 1, c = Append(Append(ids[b], k), p)
      PROVE  c \in Seq(Nat) /\ Len(c) = 4 /\ SplitPath(ids, cut, Front(c))
  <2> DEFINE s == Append(ids[b], k)
  <2>1. s \in Seq(Nat) /\ Len(s) = 3
    BY <1>2
  <2>2. SplitPath(ids, cut, s)
    BY <1>4 DEF SplitPath
  <2>3. c = Append(s, p)
    BY <1>4
  <2> HIDE DEF s
  <2>4. Append(s, p) \in Seq(Nat) /\ Len(Append(s, p)) = Len(s) + 1 /\ Front(Append(s, p)) = s
    BY <2>1, PathAppend
  <2>5. Len(c) = 4
    BY <2>1, <2>3, <2>4
  <2> QED  BY <2>2, <2>3, <2>4, <2>5
<1>5. ASSUME LeafPath(ids, cut, c)
      PROVE  /\ c \in Seq(Nat) /\ Len(c) \in {3, 4}
             /\ FilePath(ids, Front(c)) \/ SplitPath(ids, cut, Front(c))
             /\ ~ SplitPath(ids, cut, c) /\ ~ FilePath(ids, c)
  <2>0. PICK b \in DOMAIN ids : LeafOf(cut[b], ids[b], c)
    BY <1>5 DEF LeafPath
  <2>1. PICK k \in DOMAIN cut[b] :
            \/ Len(cut[b][k].leaves) = 1 /\ c = Append(ids[b], k)
            \/ Len(cut[b][k].leaves) > 1 /\ \E p \in Nat : c = Append(Append(ids[b], k), p)
    BY <2>0 DEF LeafOf
  <2>2. CASE Len(cut[b][k].leaves) = 1 /\ c = Append(ids[b], k)
    <3>1. ~ SplitPath(ids, cut, c)
      <4> SUFFICES ASSUME NEW d \in DOMAIN ids, NEW l \in DOMAIN cut[d], Len(cut[d][l].leaves) > 1,
                          c = Append(ids[d], l)
                   PROVE  FALSE
        BY DEF SplitPath
      <4>1. ids[b] = ids[d] /\ k = l
        BY <1>2, <2>2
      <4>2. cut[b] = cut[d]
        BY <4>1 DEF Laid
      <4>3. Len(cut[d][l].leaves) = 1
        BY <2>2, <4>1, <4>2
      <4> QED  BY <4>3
    <3>2. c \in Seq(Nat) /\ Len(c) = 3 /\ Front(c) = ids[b]
      BY <1>2, <2>2
    <3>3. FilePath(ids, Front(c))
      BY <3>2 DEF FilePath
    <3>4. ~ FilePath(ids, c)
      BY <1>1, <3>2
    <3> QED  BY <3>1, <3>2, <3>3, <3>4
  <2>3. CASE Len(cut[b][k].leaves) > 1 /\ \E p \in Nat : c = Append(Append(ids[b], k), p)
    <3>1. c \in Seq(Nat) /\ Len(c) = 4 /\ SplitPath(ids, cut, Front(c))
      BY <1>4, <2>3
    <3>2. ~ SplitPath(ids, cut, c)
      BY <1>3, <3>1
    <3>3. ~ FilePath(ids, c)
      BY <1>1, <3>1
    <3> QED  BY <3>1, <3>2, <3>3
  <2> QED  BY <2>1, <2>2, <2>3
<1> QED  BY <1>1, <1>3, <1>5

\* The units that are cut, and the files, each unit before its file.
Lower(ids, cut) == FlattenSeq([b \in DOMAIN ids |-> Append(SplitUnits(cut[b]), ids[b])])

\* They are all there, and a unit that is cut is before its file.
LEMMA LowerOf ==
    ASSUME NEW m, NEW ids, NEW cut, Laid(m, ids, cut)
    PROVE  LET head == Lower(ids, cut) IN
           /\ Sequence(head)
           /\ \A i \in DOMAIN head : SplitPath(ids, cut, head[i]) \/ FilePath(ids, head[i])
           /\ \A c : SplitPath(ids, cut, c) \/ FilePath(ids, c) => \E i \in DOMAIN head : head[i] = c
           /\ \A i \in DOMAIN head : \A c :
                 FilePath(ids, head[i]) /\ SplitPath(ids, cut, c) /\ Front(c) = head[i] =>
                    \E j \in 1 .. i - 1 : head[j] = c
<1> DEFINE n == Len(ids)
           Block(b) == Append(SplitUnits(cut[b]), ids[b])
           blocks == [b \in DOMAIN ids |-> Block(b)]
           size(b) == Len(SplitUnits(cut[b]))
           head == FlattenSeq(blocks)
<1>1. n \in Nat /\ DOMAIN ids = 1 .. n
  BY DomainSequence DEF Laid
<1>2. ASSUME NEW b \in DOMAIN ids
      PROVE  /\ Sequence(blocks[b]) /\ size(b) \in Nat /\ DOMAIN blocks[b] = 1 .. size(b) + 1
             /\ blocks[b][size(b) + 1] = ids[b]
             /\ \A o \in 1 .. size(b) : \E k \in DOMAIN cut[b] :
                   Len(cut[b][k].leaves) > 1 /\ blocks[b][o] = Append(ids[b], k)
             /\ \A k \in DOMAIN cut[b] : Len(cut[b][k].leaves) > 1 =>
                   \E o \in 1 .. size(b) : blocks[b][o] = Append(ids[b], k)
  <2> DEFINE split == SplitUnits(cut[b])
  <2>1. NodesOf(cut[b], ids[b])
    BY DEF Laid
  <2>2. /\ Sequence(split)
        /\ \A o \in DOMAIN split : \E k \in DOMAIN cut[b] :
              Len(cut[b][k].leaves) > 1 /\ split[o] = Append(ids[b], k)
        /\ \A k \in DOMAIN cut[b] : Len(cut[b][k].leaves) > 1 =>
              \E o \in DOMAIN split : split[o] = Append(ids[b], k)
    BY <2>1, SplitUnitsOf
  <2>3. blocks[b] = Append(split, ids[b]) /\ size(b) = Len(split)
    OBVIOUS
  <2> HIDE DEF split, blocks, size
  <2>4. DOMAIN split = 1 .. Len(split) /\ Len(split) \in Nat
    BY <2>2, DomainSequence
  <2>5. /\ Sequence(blocks[b]) /\ Len(blocks[b]) = Len(split) + 1
        /\ \A o \in 1 .. Len(split) : blocks[b][o] = split[o]
        /\ blocks[b][Len(split) + 1] = ids[b]
    BY <2>2, <2>3, AppendSequence
  <2>6. DOMAIN blocks[b] = 1 .. Len(split) + 1
    BY <2>5, DomainSequence
  <2>7. ASSUME NEW o \in 1 .. Len(split)
        PROVE  \E k \in DOMAIN cut[b] : Len(cut[b][k].leaves) > 1 /\ blocks[b][o] = Append(ids[b], k)
    BY <2>2, <2>4, <2>5
  <2>8. ASSUME NEW k \in DOMAIN cut[b], Len(cut[b][k].leaves) > 1
        PROVE  \E o \in 1 .. Len(split) : blocks[b][o] = Append(ids[b], k)
    BY <2>2, <2>4, <2>5, <2>8
  <2> QED  BY <2>3, <2>4, <2>5, <2>6, <2>7, <2>8
<1>3. Sequence(blocks) /\ Len(blocks) = n /\ DOMAIN blocks = DOMAIN ids
  <2>1. DOMAIN blocks = 1 .. n /\ blocks = [b \in 1 .. n |-> blocks[b]]
    BY <1>1
  <2> HIDE DEF blocks
  <2> QED  BY <1>1, <2>1, FunctionSequence
<1> HIDE DEF blocks, size
<1>4. Sequence(head) /\ Holds(head, blocks, n) /\ InOrderOf(head, blocks, n)
  BY <1>2, <1>3, FlattenSequence
<1>5. Lower(ids, cut) = head
  BY DEF Lower, blocks
<1> HIDE DEF head
<1>6. ASSUME NEW b \in DOMAIN ids, NEW o \in DOMAIN blocks[b]
      PROVE  \/ o = size(b) + 1 /\ blocks[b][o] = ids[b] /\ size(b) \in Nat
             \/ o \in 1 .. size(b) /\ SplitPath(ids, cut, blocks[b][o])
  <2>1. CASE o \in 1 .. size(b)
    <3>1. PICK k \in DOMAIN cut[b] : Len(cut[b][k].leaves) > 1 /\ blocks[b][o] = Append(ids[b], k)
      BY <1>2, <2>1
    <3>2. SplitPath(ids, cut, blocks[b][o])
      BY <3>1 DEF SplitPath
    <3> QED  BY <2>1, <3>2
  <2>2. CASE o = size(b) + 1
    BY <1>2, <2>2
  <2>3. size(b) \in Nat /\ o \in 1 .. size(b) + 1
    BY <1>2
  <2> QED  BY <2>1, <2>2, <2>3
<1>7. ASSUME NEW i \in DOMAIN head PROVE SplitPath(ids, cut, head[i]) \/ FilePath(ids, head[i])
  <2>1. PICK b \in 1 .. n : Follows(head, i, blocks, b)
    BY <1>4 DEF InOrderOf
  <2>2. PICK o \in DOMAIN blocks[b] : head[i] = blocks[b][o]
    BY <2>1 DEF Follows
  <2>3. b \in DOMAIN ids
    BY <1>1
  <2>4. blocks[b][o] = ids[b] \/ SplitPath(ids, cut, blocks[b][o])
    BY <1>6, <2>3
  <2> QED  BY <2>2, <2>3, <2>4 DEF FilePath
<1>8. ASSUME NEW c, SplitPath(ids, cut, c) \/ FilePath(ids, c)
      PROVE  \E i \in DOMAIN head : head[i] = c
  <2>1. CASE FilePath(ids, c)
    <3>1. PICK b \in DOMAIN ids : c = ids[b]
      BY <2>1 DEF FilePath
    <3>2. size(b) + 1 \in DOMAIN blocks[b] /\ blocks[b][size(b) + 1] = c
      BY <1>2, <3>1
    <3> QED  BY <1>1, <1>4, <3>2 DEF Holds
  <2>2. CASE SplitPath(ids, cut, c)
    <3>1. PICK b \in DOMAIN ids : \E k \in DOMAIN cut[b] : Len(cut[b][k].leaves) > 1 /\ c = Append(ids[b], k)
      BY <2>2 DEF SplitPath
    <3>2. PICK k \in DOMAIN cut[b] : Len(cut[b][k].leaves) > 1 /\ c = Append(ids[b], k)
      BY <3>1
    <3>3. PICK o \in 1 .. size(b) : blocks[b][o] = c
      BY <1>2, <3>2
    <3>4. o \in DOMAIN blocks[b]
      BY <1>2
    <3> QED  BY <1>1, <1>4, <3>3, <3>4 DEF Holds
  <2> QED  BY <1>8, <2>1, <2>2
<1>9. ASSUME NEW i \in DOMAIN head, NEW c,
             FilePath(ids, head[i]), SplitPath(ids, cut, c), Front(c) = head[i]
      PROVE  \E j \in 1 .. i - 1 : head[j] = c
  <2>1. PICK b \in 1 .. n : Follows(head, i, blocks, b)
    BY <1>4 DEF InOrderOf
  <2>2. PICK o \in DOMAIN blocks[b] :
            /\ head[i] = blocks[b][o]
            /\ \A p \in 1 .. o - 1 : \E j \in 1 .. i - 1 : head[j] = blocks[b][p]
    BY <2>1 DEF Follows
  <2>3. Len(head[i]) = 2
    BY <1>9, PathsOf
  <2>4. b \in DOMAIN ids
    BY <1>1
  <2>5. ~ SplitPath(ids, cut, blocks[b][o])
    <3>1. SplitPath(ids, cut, head[i]) => Len(head[i]) = 3
      BY PathsOf
    <3> QED  BY <2>2, <2>3, <3>1
  <2>6. head[i] = ids[b] /\ size(b) \in Nat /\ o = size(b) + 1
    BY <1>6, <2>2, <2>5, <2>4
  <2>7. PICK d \in DOMAIN ids : \E k \in DOMAIN cut[d] : Len(cut[d][k].leaves) > 1 /\ c = Append(ids[d], k)
    BY <1>9 DEF SplitPath
  <2>8. PICK k \in DOMAIN cut[d] : Len(cut[d][k].leaves) > 1 /\ c = Append(ids[d], k)
    BY <2>7
  <2>9. Front(c) = ids[d]
    <3>1. ids[d] \in Seq(Nat) /\ NodesOf(cut[d], ids[d])
      BY DEF Laid
    <3>2. k \in Nat
      BY <3>1, DomainSequence DEF NodesOf
    <3> QED  BY <2>8, <3>1, <3>2, PathAppend
  <2>10. ids[d] = ids[b] /\ cut[d] = cut[b]
    BY <1>9, <2>6, <2>9, <2>4 DEF Laid
  <2>11. PICK p \in 1 .. size(b) : blocks[b][p] = c
    <3>1. k \in DOMAIN cut[b] /\ Len(cut[b][k].leaves) > 1 /\ c = Append(ids[b], k)
      BY <2>8, <2>10
    <3>2. \A l \in DOMAIN cut[b] : Len(cut[b][l].leaves) > 1 =>
             \E q \in 1 .. size(b) : blocks[b][q] = Append(ids[b], l)
      BY <1>2, <2>4
    <3> QED  BY <3>1, <3>2
  <2>12. p \in 1 .. o - 1
    BY <2>6
  <2> QED  BY <2>2, <2>11, <2>12
<1> QED  BY <1>4, <1>5, <1>7, <1>8, <1>9

\* The nodes with something below, in the order they are resolved: the ones above, the
\* clusters, the root.
Ordered(head, m) == head \o [x \in 1 .. m |-> <<x>>] \o << <<>> >>

\* Where each of them is.
LEMMA OrderedOf ==
    ASSUME NEW m \in Nat, NEW head, Sequence(head), \A i \in DOMAIN head : head[i] \in Seq(Nat)
    PROVE  LET h == Len(head)
               order == Ordered(head, m) IN
           /\ h \in Nat /\ DOMAIN head = 1 .. h
           /\ order \in Seq(Seq(Nat)) /\ Len(order) = h + m + 1
           /\ \A i \in 1 .. h : order[i] = head[i]
           /\ \A x \in 1 .. m : order[h + x] = <<x>>
           /\ order[h + m + 1] = <<>>
<1> DEFINE h == Len(head)
           tops == [x \in 1 .. m |-> <<x>>]
           root == << <<>> >>
           P == Seq(Nat)
<1>1. h \in Nat /\ DOMAIN head = 1 .. h
  BY DomainSequence
<1>2. \A x \in 1 .. m : <<x>> \in P
  OBVIOUS
<1>3. <<>> \in P
  OBVIOUS
<1>4. \A i \in DOMAIN head : head[i] \in P
  OBVIOUS
<1> HIDE DEF P
<1>5. head \in Seq(P)
  BY <1>1, <1>4 DEF Sequence
<1>6. tops \in Seq(P) /\ Len(tops) = m /\ \A x \in 1 .. m : tops[x] = <<x>>
  <2>1. DOMAIN tops = 1 .. m /\ tops = [x \in 1 .. m |-> tops[x]] /\ \A x \in 1 .. m : tops[x] = <<x>>
    OBVIOUS
  <2> HIDE DEF tops
  <2>2. \A x \in 1 .. m : tops[x] \in P
    BY <1>2, <2>1
  <2> QED  BY <2>1, <2>2, FunctionInto
<1>7. root \in Seq(P) /\ Len(root) = 1 /\ root[1] = <<>>
  BY <1>3
<1>8. Ordered(head, m) = head \o tops \o root
  BY DEF Ordered
<1> HIDE DEF tops, root, h
<1> DEFINE first == head \o tops
<1>9. first = head \o tops
  OBVIOUS
<1> HIDE DEF first
<1> DEFINE order == first \o root
<1>10. order = first \o root /\ order = Ordered(head, m)
  BY <1>8, <1>9
<1> HIDE DEF order
<1>11. /\ first \in Seq(P) /\ Len(first) = h + m
       /\ \A i \in 1 .. h : first[i] = head[i]
       /\ \A x \in 1 .. m : first[h + x] = tops[x]
  <2>1. head \in Seq(P) /\ tops \in Seq(P) /\ first = head \o tops
    BY <1>5, <1>6, <1>9
  <2>2. first \in Seq(P) /\ Joins(first, head, tops)
    BY <2>1, Joined
  <2> QED  BY <1>6, <2>2 DEF h, Joins
<1>12. /\ order \in Seq(P) /\ Len(order) = h + m + 1
       /\ \A i \in 1 .. h + m : order[i] = first[i]
       /\ order[h + m + 1] = root[1]
  <2>1. first \in Seq(P) /\ root \in Seq(P) /\ order = first \o root
    BY <1>7, <1>10, <1>11
  <2>2. order \in Seq(P) /\ Joins(order, first, root)
    BY <2>1, Joined
  <2>3. /\ order \in Seq(P) /\ Len(order) = Len(first) + Len(root)
        /\ \A i \in 1 .. Len(first) : order[i] = first[i]
        /\ \A x \in 1 .. Len(root) : order[Len(first) + x] = root[x]
    BY <2>2 DEF Joins
  <2>4. order[h + m + 1] = root[1]
    <3>1. 1 \in 1 .. Len(root)
      BY <1>7
    <3> QED  BY <1>11, <2>3, <3>1
  <2> QED  BY <1>7, <1>11, <2>3, <2>4
<1>13. \A i \in 1 .. h : i \in 1 .. h + m
  BY <1>1
<1>14. \A x \in 1 .. m : h + x \in 1 .. h + m
  BY <1>1
<1>15. \A i \in 1 .. h : order[i] = head[i]
  BY <1>11, <1>12, <1>13
<1>16. \A x \in 1 .. m : order[h + x] = <<x>>
  BY <1>6, <1>11, <1>12, <1>14
<1> QED  BY <1>1, <1>7, <1>10, <1>12, <1>15, <1>16 DEF h, P

\* A tree of files so laid, with its clusters and its root, is grown.
LEMMA LaidGrown ==
    ASSUME NEW m, NEW ids, NEW cut, Laid(m, ids, cut), NEW t, Sequence(t.leaves),
           \A i \in DOMAIN t.leaves : LeafPath(ids, cut, t.leaves[i].id),
           t.order = Ordered(Lower(ids, cut), m),
           t.nodes = [i \in DOMAIN t.leaves |-> t.leaves[i].id] \o t.order
    PROVE  Grown(t)
<1> DEFINE head == Lower(ids, cut)
           h == Len(head)
           leaves == {t.leaves[i].id : i \in DOMAIN t.leaves}
           orders == ToSet(t.order)
           paths == [i \in DOMAIN t.leaves |-> t.leaves[i].id]
           Top(c) == \E x \in 1 .. m : c = <<x>>
           Node(c) == SplitPath(ids, cut, c) \/ FilePath(ids, c)
<1>1. m \in Nat
  BY DEF Laid
<1>2. /\ Sequence(head)
      /\ \A i \in DOMAIN head : Node(head[i])
      /\ \A c : Node(c) => \E i \in DOMAIN head : head[i] = c
      /\ \A i \in DOMAIN head : \A c :
            FilePath(ids, head[i]) /\ SplitPath(ids, cut, c) /\ Front(c) = head[i] =>
               \E j \in 1 .. i - 1 : head[j] = c
  BY LowerOf
<1> HIDE DEF head, h
<1>3. ASSUME NEW c, SplitPath(ids, cut, c)
      PROVE  c \in Seq(Nat) /\ Len(c) = 3 /\ FilePath(ids, Front(c))
  BY <1>3, PathsOf
<1>4. ASSUME NEW c, FilePath(ids, c)
      PROVE  c \in Seq(Nat) /\ Len(c) = 2 /\ Top(Front(c))
  BY <1>4, PathsOf
<1>5. ASSUME NEW c, LeafPath(ids, cut, c)
      PROVE  c \in Seq(Nat) /\ Len(c) \in {3, 4} /\ Node(Front(c)) /\ ~ Node(c)
  BY <1>5, PathsOf
<1>6. ASSUME NEW c, Top(c)
      PROVE  c \in Seq(Nat) /\ Len(c) = 1 /\ Front(c) = <<>>
  <2>1. PICK x \in 1 .. m : c = <<x>>
    BY <1>6
  <2>2. x \in Nat
    BY <1>1
  <2>3. c \in Seq(Nat) /\ Len(c) = 1
    BY <2>1, <2>2
  <2> QED  BY <2>1, <2>3 DEF Front
<1> HIDE DEF Top, Node
<1>7. \A c : Node(c) => c \in Seq(Nat) /\ (Len(c) = 2 \/ Len(c) = 3)
  BY <1>3, <1>4 DEF Node
<1>8. Len(<<>>) = 0
  OBVIOUS
<1>9. ASSUME NEW c, Top(c)
      PROVE  Len(c) = 1 /\ Len(c) # 2 /\ Len(c) # 3 /\ Len(c) # 4 /\ c # <<>> /\ ~ Node(c)
  <2>1. c \in Seq(Nat) /\ Len(c) = 1
    BY <1>6, <1>9
  <2>2. Len(c) # 0 /\ Len(c) # 2 /\ Len(c) # 3 /\ Len(c) # 4
    BY <2>1
  <2> QED  BY <1>7, <1>8, <2>1, <2>2
<1>10. ASSUME NEW c, Node(c)
       PROVE  c # <<>> /\ ~ Top(c)
  <2>1. c \in Seq(Nat) /\ (Len(c) = 2 \/ Len(c) = 3)
    BY <1>7, <1>10
  <2>2. CASE Len(c) = 2
    <3>1. Len(c) # 0
      BY <2>1, <2>2
    <3> QED  BY <1>8, <1>9, <1>10, <3>1
  <2>3. CASE Len(c) = 3
    <3>1. Len(c) # 0
      BY <2>1, <2>3
    <3> QED  BY <1>8, <1>9, <1>10, <3>1
  <2> QED  BY <2>1, <2>2, <2>3
<1>11. \A i \in DOMAIN head : head[i] \in Seq(Nat)
  BY <1>2, <1>7
<1>12. /\ h \in Nat /\ DOMAIN head = 1 .. h
       /\ t.order \in Seq(Seq(Nat)) /\ Len(t.order) = h + m + 1
       /\ \A i \in 1 .. h : t.order[i] = head[i]
       /\ \A x \in 1 .. m : t.order[h + x] = <<x>>
       /\ t.order[h + m + 1] = <<>>
  <2> DEFINE order == Ordered(head, m)
  <2>1. t.order = order
    BY DEF head
  <2>2. /\ Len(head) \in Nat /\ DOMAIN head = 1 .. Len(head)
        /\ order \in Seq(Seq(Nat)) /\ Len(order) = Len(head) + m + 1
        /\ \A i \in 1 .. Len(head) : order[i] = head[i]
        /\ \A x \in 1 .. m : order[Len(head) + x] = <<x>>
        /\ order[Len(head) + m + 1] = <<>>
    BY <1>1, <1>2, <1>11, OrderedOf
  <2> HIDE DEF order
  <2> QED  BY <2>1, <2>2 DEF h
<1>13. ASSUME NEW i \in 1 .. Len(t.order)
       PROVE  \/ i \in 1 .. h /\ Node(t.order[i])
              \/ i \in h + 1 .. h + m /\ Top(t.order[i])
              \/ i = h + m + 1 /\ t.order[i] = <<>>
  <2>1. i \in 1 .. h \/ i \in h + 1 .. h + m \/ i = h + m + 1
    BY <1>1, <1>12
  <2>2. ASSUME i \in h + 1 .. h + m PROVE Top(t.order[i])
    <3>1. i - h \in 1 .. m /\ h + (i - h) = i
      BY <1>1, <1>12, <2>2
    <3>2. t.order[i] = <<i - h>>
      BY <1>12, <3>1
    <3> QED  BY <3>1, <3>2 DEF Top
  <2> QED  BY <1>2, <1>12, <2>1, <2>2
<1>14. DOMAIN t.order = 1 .. Len(t.order)
  BY <1>12
<1>15. /\ \A c : Node(c) => c \in orders
       /\ \A c : Top(c) => c \in orders
       /\ <<>> \in orders
  <2>1. \A i \in 1 .. Len(t.order) : t.order[i] \in orders
    BY <1>14 DEF ToSet
  <2>2. \A i \in 1 .. h : i \in 1 .. Len(t.order)
    BY <1>1, <1>12
  <2>3. \A x \in 1 .. m : h + x \in 1 .. Len(t.order)
    BY <1>1, <1>12
  <2>4. h + m + 1 \in 1 .. Len(t.order)
    BY <1>1, <1>12
  <2> HIDE DEF orders
  <2>5. ASSUME NEW c, Node(c) PROVE c \in orders
    <3>1. PICK i \in 1 .. h : head[i] = c
      BY <1>2, <1>12, <2>5
    <3> QED  BY <1>12, <2>1, <2>2, <3>1
  <2>6. ASSUME NEW c, Top(c) PROVE c \in orders
    <3>1. PICK x \in 1 .. m : c = <<x>>
      BY <2>6 DEF Top
    <3> QED  BY <1>12, <2>1, <2>3, <3>1
  <2>7. <<>> \in orders
    BY <1>12, <2>1, <2>4
  <2> QED  BY <2>5, <2>6, <2>7
<1>16. ASSUME NEW c \in orders PROVE Node(c) \/ Top(c) \/ c = <<>>
  <2>1. PICK i \in 1 .. Len(t.order) : c = t.order[i]
    BY <1>14 DEF ToSet
  <2> QED  BY <1>13, <2>1
<1>17. Len(t.leaves) \in Nat /\ DOMAIN t.leaves = 1 .. Len(t.leaves)
  BY DomainSequence
<1>18. \A c \in leaves : LeafPath(ids, cut, c)
  OBVIOUS
<1>19. paths \in Seq(Seq(Nat)) /\ ToSet(paths) = leaves
  <2>1. \A i \in 1 .. Len(t.leaves) : paths[i] \in Seq(Nat)
    BY <1>5, <1>17
  <2>2. DOMAIN paths = 1 .. Len(t.leaves) /\ paths = [i \in 1 .. Len(t.leaves) |-> paths[i]]
    BY <1>17
  <2>3. ToSet(paths) = leaves
    BY DEF ToSet
  <2> HIDE DEF paths, leaves
  <2>4. paths \in Seq(Seq(Nat))
    BY <1>17, <2>1, <2>2, FunctionInto
  <2> QED  BY <2>3, <2>4
<1>20. t.nodes \in Seq(Seq(Nat)) /\ ToSet(t.nodes) = leaves \cup orders
  <2>1. t.nodes = paths \o t.order
    OBVIOUS
  <2> HIDE DEF paths, leaves
  <2>2. paths \in Seq(Seq(Nat)) /\ t.order \in Seq(Seq(Nat))
    BY <1>12, <1>19
  <2>3. t.nodes \in Seq(Seq(Nat)) /\ Joins(t.nodes, paths, t.order)
    BY <2>1, <2>2, Joined
  <2> QED  BY <1>19, <2>3 DEF Joins
<1> HIDE DEF leaves, paths, orders
<1>21. leaves \cap orders = {}
  <2> SUFFICES ASSUME NEW c \in leaves, c \in orders PROVE FALSE
    OBVIOUS
  <2>1. Len(c) \in {3, 4} /\ ~ Node(c)
    BY <1>5, <1>18
  <2>2. ~ Top(c)
    BY <1>9, <2>1
  <2>3. c = <<>>
    BY <1>16, <2>1, <2>2
  <2> QED  BY <1>8, <2>1, <2>3
<1>22. ASSUME NEW i \in 1 .. Len(t.order) PROVE t.order[i] = <<>> <=> i = Len(t.order)
  <2>1. Node(t.order[i]) \/ Top(t.order[i]) => t.order[i] # <<>>
    BY <1>9, <1>10
  <2>2. i \in 1 .. h \/ i \in h + 1 .. h + m => i # h + m + 1
    BY <1>1, <1>12
  <2> QED  BY <1>12, <1>13, <2>1, <2>2
<1>23. t.order # <<>>
  BY <1>1, <1>12
<1>24. \A c \in ToSet(t.nodes) : LeafPath(ids, cut, c) \/ Node(c) \/ Top(c) \/ c = <<>>
  BY <1>16, <1>18, <1>20
<1>25. ASSUME NEW c \in ToSet(t.nodes), c # <<>> PROVE Front(c) \in orders
  <2>1. CASE LeafPath(ids, cut, c)
    BY <1>5, <1>15, <2>1
  <2>2. CASE Node(c)
    <3>1. Node(Front(c)) \/ Top(Front(c))
      BY <1>3, <1>4, <2>2 DEF Node
    <3> QED  BY <1>15, <3>1
  <2>3. CASE Top(c)
    BY <1>6, <1>15, <2>3
  <2> QED  BY <1>24, <1>25, <2>1, <2>2, <2>3
<1>26. ASSUME NEW i \in 1 .. Len(t.order), NEW c \in ToSet(t.nodes), c # <<>>, Front(c) = t.order[i],
              c \notin leaves
       PROVE  \E j \in 1 .. i - 1 : t.order[j] = c
  <2>1. c \in orders
    BY <1>20, <1>26
  <2>2. CASE SplitPath(ids, cut, c)
    <3>1. FilePath(ids, t.order[i]) /\ Len(t.order[i]) = 2
      BY <1>3, <1>4, <1>26, <2>2
    <3>2. i \in 1 .. h
      <4>1. ~ Top(t.order[i])
        BY <1>9, <3>1
      <4>2. t.order[i] # <<>>
        <5>1. Len(t.order[i]) # 0
          BY <3>1
        <5> QED  BY <1>8, <5>1
      <4> QED  BY <1>13, <4>1, <4>2
    <3>3. i \in DOMAIN head /\ FilePath(ids, head[i]) /\ Front(c) = head[i]
      BY <1>12, <1>26, <3>1, <3>2
    <3>4. PICK j \in 1 .. i - 1 : head[j] = c
      BY <1>2, <2>2, <3>3
    <3>5. j \in 1 .. h
      BY <1>12, <3>2
    <3> QED  BY <1>12, <3>4, <3>5
  <2>3. CASE FilePath(ids, c)
    <3>1. Top(t.order[i])
      BY <1>4, <1>26, <2>3
    <3>2. i \notin 1 .. h
      <4>1. ~ Node(t.order[i])
        BY <1>9, <3>1
      <4> QED  BY <1>2, <1>12, <4>1
    <3>3. PICK j \in 1 .. h : head[j] = c
      BY <1>2, <1>12, <2>3 DEF Node
    <3>4. j \in 1 .. i - 1
      BY <1>1, <1>12, <3>2
    <3> QED  BY <1>12, <3>3, <3>4
  <2>4. CASE Top(c)
    <3>1. t.order[i] = <<>>
      BY <1>6, <1>26, <2>4
    <3>2. i = h + m + 1
      BY <1>12, <1>22, <3>1
    <3>3. PICK x \in 1 .. m : c = <<x>>
      BY <2>4 DEF Top
    <3>4. h + x \in 1 .. i - 1
      BY <1>1, <1>12, <3>2
    <3> QED  BY <1>12, <3>3, <3>4
  <2> QED  BY <1>16, <1>26, <2>1, <2>2, <2>3, <2>4 DEF Node
<1> QED  BY <1>12, <1>17, <1>20, <1>21, <1>22, <1>23, <1>25, <1>26 DEF Grown, leaves, orders

\* The leaves of a tree fit, or cannot be cut any further.
Leafed(t) == \A i \in DOMAIN t.leaves : Settled(t.leaves[i].unit, t.leaves[i].header, LeafBudget)

\* The tree of every codebase is grown: what Init starts from.
LEMMA SkeletonGrown ==
    ASSUME NEW files \in Codebases
    PROVE  /\ Grown(Skeleton(files, FileClusters(files, AllUnits(files))))
           /\ Leafed(Skeleton(files, FileClusters(files, AllUnits(files))))
<1> DEFINE units    == AllUnits(files)
           clusters == FileClusters(files, units)
           m        == Len(clusters)
           ids      == FileIds(files, clusters)
           cut      == [b \in DOMAIN ids |-> UnitNodes(files[ids[b][2]], ids[b])]
           lists    == [b \in DOMAIN ids |-> LeavesBelow(cut[b])]
           leaves   == FlattenSeq(lists)
           order    == Ordered(Lower(ids, cut), m)
           nodes    == [i \in DOMAIN leaves |-> leaves[i].id] \o order
           t        == [units |-> units, clusters |-> clusters, leaves |-> leaves, order |-> order, nodes |-> nodes]
<1>1. files \in Seq(ToSet(files)) /\ \A file \in ToSet(files) : Source(file)
  BY ReviewAssumption
<1>2. Sequence(files) /\ \A f \in DOMAIN files : Source(files[f])
  BY <1>1 DEF Sequence, ToSet
<1> HIDE DEF units
<1>3. Sequence(clusters) /\ \A c \in DOMAIN clusters : clusters[c] \in SUBSET DOMAIN files
  BY <1>2, FileClustersOf
<1> HIDE DEF clusters
<1>4. m \in Nat /\ DOMAIN clusters = 1 .. m
  BY <1>3, DomainSequence
<1>5. Skeleton(files, clusters) = t
  <2>1. Lower(ids, cut) = FlattenSeq([i \in DOMAIN ids |-> Append(SplitUnits(cut[i]), ids[i])])
    BY DEF Lower
  <2>2. order = Lower(ids, cut) \o [c \in DOMAIN clusters |-> <<c>>] \o << <<>> >>
    BY <1>4 DEF Ordered
  <2> QED  BY <2>1, <2>2 DEF Skeleton, units
<1>6. Sequence(ids) /\ \A b \in DOMAIN ids : \E c \in DOMAIN clusters, f \in DOMAIN files : ids[b] = <<c, f>>
  BY <1>2, <1>3, FileIdsOf
<1> HIDE DEF ids, m
<1>7. ASSUME NEW b \in DOMAIN ids
      PROVE  /\ ids[b] \in Seq(Nat) /\ Len(ids[b]) = 2
             /\ \E c \in 1 .. m : Front(ids[b]) = <<c>>
             /\ NodesOf(cut[b], ids[b])
  <2>1. PICK c \in DOMAIN clusters, f \in DOMAIN files : ids[b] = <<c, f>>
    BY <1>6
  <2>2. c \in 1 .. m /\ c \in Nat /\ f \in Nat
    BY <1>2, <1>4, <2>1, DomainSequence
  <2>3. <<c, f>> \in Seq(Nat) /\ Len(<<c, f>>) = 2 /\ Front(<<c, f>>) = <<c>>
    BY <2>2, FilePathFront
  <2>4. Source(files[ids[b][2]])
    BY <1>2, <2>1
  <2>5. NodesOf(cut[b], ids[b])
    BY <2>4, UnitNodesOf
  <2> QED  BY <2>1, <2>2, <2>3, <2>5
<1>8. \A b, d \in DOMAIN ids : ids[b] = ids[d] => cut[b] = cut[d]
  OBVIOUS
<1>9. DOMAIN cut = DOMAIN ids
  OBVIOUS
<1> HIDE DEF cut
<1>10. Laid(m, ids, cut)
  BY <1>4, <1>6, <1>7, <1>8 DEF Laid
<1>11. ASSUME NEW b \in DOMAIN ids
       PROVE  /\ Sequence(lists[b])
              /\ \A i \in DOMAIN lists[b] : LeafIn(lists[b][i], cut[b], ids[b])
  <2>1. lists[b] = LeavesBelow(cut[b]) /\ NodesOf(cut[b], ids[b])
    BY <1>7
  <2> QED  BY <2>1, LeavesBelowOf
<1>12. Sequence(lists) /\ DOMAIN lists = DOMAIN ids /\ DOMAIN lists = 1 .. Len(lists)
  <2>1. Len(ids) \in Nat /\ DOMAIN ids = 1 .. Len(ids)
    BY <1>6, DomainSequence
  <2>2. DOMAIN lists = 1 .. Len(ids) /\ lists = [b \in 1 .. Len(ids) |-> lists[b]]
    BY <2>1
  <2> HIDE DEF lists
  <2> QED  BY <2>1, <2>2, FunctionSequence
<1> HIDE DEF lists
<1>13. Sequence(leaves) /\ InOrderOf(leaves, lists, Len(lists))
  BY <1>11, <1>12, FlattenSequence
<1> HIDE DEF leaves
<1>14. ASSUME NEW i \in DOMAIN leaves
       PROVE  LeafPath(ids, cut, leaves[i].id) /\ Settled(leaves[i].unit, leaves[i].header, LeafBudget)
  <2>1. PICK b \in 1 .. Len(lists) : Follows(leaves, i, lists, b)
    BY <1>13 DEF InOrderOf
  <2>2. PICK o \in DOMAIN lists[b] : leaves[i] = lists[b][o]
    BY <2>1 DEF Follows
  <2>3. b \in DOMAIN ids
    BY <1>12
  <2>4. LeafIn(leaves[i], cut[b], ids[b])
    BY <1>11, <2>2, <2>3
  <2> QED  BY <2>3, <2>4 DEF LeafPath, LeafIn
<1> HIDE DEF order
<1>15. /\ t.leaves = leaves /\ t.order = order
       /\ t.nodes = [i \in DOMAIN leaves |-> leaves[i].id] \o order
  OBVIOUS
<1> HIDE DEF t, nodes
<1>16. Grown(t)
  BY <1>10, <1>13, <1>14, <1>15, LaidGrown DEF order
<1>17. Leafed(t)
  BY <1>14, <1>15 DEF Leafed
<1> QED  BY <1>5, <1>16, <1>17 DEF clusters, units

-----------------------------------------------------------------------------
(* Related signatures.                                                     *)

\* A related unit, by its place among the units.
Refs(units) == [unit : DOMAIN units, relation : {"callee", "caller"}]

\* Candidates are such references.
LEMMA CandidatesOf ==
    ASSUME NEW unit, NEW units, Sequence(units)
    PROVE  Candidates(unit, units) \in Seq(Refs(units))
<1> DEFINE callees == {i \in DOMAIN units : /\ units[i].name[1] \in unit.calls
                                            /\ UnitKey(units[i]) # UnitKey(unit)}
           callers == {i \in DOMAIN units : /\ Len(unit.name) = 1
                                            /\ unit.name[1] \in units[i].calls
                                            /\ UnitKey(units[i]) # UnitKey(unit)}
           First(S) == {i \in S : \A j \in S : j < i => UnitKey(units[j]) # UnitKey(units[i])}
           new == {i \in callers : \A j \in callees : UnitKey(units[j]) # UnitKey(units[i])}
           Listed(S, relation) == Picked([i \in S |-> [unit |-> i, relation |-> relation]], S)
           n == Len(units)
<1>1. n \in Nat /\ DOMAIN units = 1 .. n
  BY DomainSequence
<1>2. First(callees) \in SUBSET DOMAIN units /\ First(new) \in SUBSET DOMAIN units
  OBVIOUS
<1>3. Candidates(unit, units) = Listed(First(callees), "callee") \o Listed(First(new), "caller")
  BY DEF Candidates
<1>4. ASSUME NEW S \in SUBSET DOMAIN units, NEW relation \in {"callee", "caller"}
      PROVE  Listed(S, relation) \in Seq(Refs(units))
  <2> DEFINE s == [i \in S |-> [unit |-> i, relation |-> relation]]
  <2>1. S \in SUBSET Nat /\ IsFiniteSet(S)
    <3>1. S \in SUBSET (1 .. n) /\ IsFiniteSet(1 .. n)
      BY <1>1, FS_Interval
    <3> QED  BY <1>1, <3>1, FS_Subset
  <2>2. \A i \in S : s[i] \in Refs(units)
    BY DEF Refs
  <2> HIDE DEF s
  <2>3. Picked(s, S) \in Seq(Refs(units))
    BY <2>1, <2>2, PickedAt
  <2> QED  BY <2>3 DEF s
<1> HIDE DEF callees, callers, new, First, Listed
<1>5. Listed(First(callees), "callee") \in Seq(Refs(units)) /\ Listed(First(new), "caller") \in Seq(Refs(units))
  BY <1>2, <1>4
<1> QED  BY <1>3, <1>5

\* What has been taken so far, and a candidate more.
Taken(units) == [refs : Seq(Refs(units)), used : Nat, omitted : Nat]

Consider(acc, ref, units, budget) ==
    LET cost == units[ref.unit].signature IN
    IF acc.used + cost > budget THEN [acc EXCEPT !.omitted = @ + 1]
    ELSE [acc EXCEPT !.refs = Append(@, ref), !.used = @ + cost]

\* The signatures of the first references add up to f.
Tally(f, refs, units) ==
    /\ f \in [0 .. Len(refs) -> Nat] /\ f[0] = 0
    /\ \A i \in 1 .. Len(refs) : f[i] = f[i - 1] + units[refs[i].unit].signature

\* What was taken is within the budget.
Within(acc, units, budget) ==
    /\ acc \in Taken(units) /\ acc.used <= budget
    /\ \E f : Tally(f, acc.refs, units) /\ f[Len(acc.refs)] = acc.used

Signed(units) == Sequence(units) /\ \A i \in DOMAIN units : units[i].signature \in Nat

\* One more signature keeps within the budget.
LEMMA ConsiderWithin ==
    ASSUME NEW units, Signed(units), NEW budget \in Nat, NEW acc, Within(acc, units, budget),
           NEW ref \in Refs(units)
    PROVE  Within(Consider(acc, ref, units, budget), units, budget)
<1> DEFINE cost == units[ref.unit].signature
           refs == acc.refs
           n == Len(refs)
           more == Append(refs, ref)
<1>1. /\ refs \in Seq(Refs(units)) /\ acc.used \in Nat /\ acc.omitted \in Nat /\ acc.used <= budget
      /\ acc \in [refs : Seq(Refs(units)), used : Nat, omitted : Nat]
  BY DEF Within, Taken
<1>2. cost \in Nat
  BY DEF Signed, Refs
<1>3. PICK f : Tally(f, refs, units) /\ f[n] = acc.used
  BY DEF Within
<1> HIDE DEF cost, refs, more
<1>4. CASE acc.used + cost > budget
  <2> DEFINE next == [acc EXCEPT !.omitted = acc.omitted + 1]
  <2>1. Consider(acc, ref, units, budget) = next
    BY <1>4 DEF Consider, cost
  <2>2. next \in Taken(units) /\ next.refs = refs /\ next.used = acc.used
    <3>1. acc.omitted + 1 \in Nat
      BY <1>1
    <3> QED  BY <1>1, <3>1 DEF Taken, refs
  <2> HIDE DEF next
  <2>3. Within(next, units, budget)
    BY <1>1, <1>3, <2>2 DEF Within
  <2> QED  BY <2>1, <2>3
<1>5. CASE ~(acc.used + cost > budget)
  <2> DEFINE used == acc.used + cost
             next == [acc EXCEPT !.refs = more, !.used = used]
  <2>1. Consider(acc, ref, units, budget) = next
    BY <1>5 DEF Consider, cost, more, refs
  <2>2. used \in Nat /\ used <= budget
    BY <1>1, <1>2, <1>5
  <2>3. /\ more \in Seq(Refs(units)) /\ n \in Nat /\ Len(more) = n + 1 /\ more[n + 1] = ref
        /\ \A i \in 1 .. n : more[i] = refs[i]
    BY <1>1 DEF more
  <2> HIDE DEF used
  <2>4. next \in Taken(units) /\ next.refs = more /\ next.used = used
    BY <1>1, <2>2, <2>3 DEF Taken
  <2> DEFINE g == [i \in 0 .. n + 1 |-> IF i = n + 1 THEN used ELSE f[i]]
  <2>5. Tally(g, more, units) /\ g[n + 1] = used
    <3>0. f \in [0 .. n -> Nat] /\ f[0] = 0 /\ \A i \in 1 .. n : f[i] = f[i - 1] + units[refs[i].unit].signature
      BY <1>3 DEF Tally
    <3>1. g \in [0 .. n + 1 -> Nat] /\ g[0] = 0 /\ g[n + 1] = used
      <4>1. \A i \in 0 .. n + 1 : i = n + 1 \/ i \in 0 .. n
        BY <2>3
      <4>2. 0 \in 0 .. n /\ 0 # n + 1 /\ 0 \in 0 .. n + 1
        BY <2>3
      <4> QED  BY <2>2, <2>3, <3>0, <4>1, <4>2
    <3>2. ASSUME NEW i \in 1 .. n + 1 PROVE g[i] = g[i - 1] + units[more[i].unit].signature
      <4>1. CASE i = n + 1
        <5>1. i - 1 = n /\ g[n] = f[n]
          BY <2>3, <4>1
        <5> QED  BY <1>3, <2>3, <3>1, <4>1, <5>1 DEF used, cost
      <4>2. CASE i # n + 1
        <5>1. i \in 1 .. n /\ g[i] = f[i] /\ g[i - 1] = f[i - 1]
          BY <2>3, <4>2
        <5> QED  BY <2>3, <3>0, <5>1
      <4> QED  BY <4>1, <4>2
    <3> HIDE DEF g
    <3> QED  BY <2>3, <3>1, <3>2 DEF Tally
  <2> HIDE DEF next, g
  <2>6. Within(next, units, budget)
    BY <2>2, <2>3, <2>4, <2>5 DEF Within
  <2> QED  BY <2>1, <2>6
<1> QED  BY <1>4, <1>5

\* As many signatures as fit are within the budget.
LEMMA ContextOf ==
    ASSUME NEW unit, NEW units, Signed(units), NEW budget \in Nat
    PROVE  Within(ConnectedContext(unit, units, budget), units, budget)
<1> DEFINE list == Candidates(unit, units)
           n == Len(list)
           X == {acc \in Taken(units) : Within(acc, units, budget)}
           Add(acc, ref) ==
               LET cost == units[ref.unit].signature IN
               IF acc.used + cost > budget THEN [acc EXCEPT !.omitted = @ + 1]
               ELSE [acc EXCEPT !.refs = Append(@, ref), !.used = @ + cost]
           base == [refs |-> <<>>, used |-> 0, omitted |-> 0]
           step == [i \in 1 .. n |-> [acc \in X |-> Add(acc, list[i])]]
           Rec(g) == g = [i \in 0 .. n |-> IF i = 0 THEN base
                                           ELSE LET acc == g[i - 1] IN Add(acc, list[i])]
           upTo == CHOOSE g : Rec(g)
<1>1. list \in Seq(Refs(units))
  BY CandidatesOf DEF Signed
<1>2. ConnectedContext(unit, units, budget) = upTo[n]
  BY DEF ConnectedContext, Scan
<1> HIDE DEF list
<1>3. n \in Nat /\ \A i \in 1 .. n : list[i] \in Refs(units)
  BY <1>1
<1>4. \A acc, ref : Add(acc, ref) = Consider(acc, ref, units, budget)
  BY DEF Consider
<1> HIDE DEF Add
<1>5. base \in X
  <2> DEFINE f == [i \in 0 .. 0 |-> 0]
  <2>1. f \in [0 .. 0 -> Nat] /\ f[0] = 0 /\ 1 .. 0 = {}
    OBVIOUS
  <2>2. base.refs = <<>> /\ base.used = 0 /\ Len(<<>>) = 0
    OBVIOUS
  <2>3. base \in Taken(units)
    <3>1. <<>> \in Seq(Refs(units))
      OBVIOUS
    <3> QED  BY <3>1 DEF Taken
  <2> HIDE DEF base, f
  <2>4. Tally(f, <<>>, units)
    BY <2>1, <2>2 DEF Tally
  <2>5. Within(base, units, budget)
    BY <2>1, <2>2, <2>3, <2>4 DEF Within
  <2> QED  BY <2>3, <2>5
<1>6. ASSUME NEW acc \in X, NEW ref \in Refs(units) PROVE Add(acc, ref) \in X
  <2>1. Within(Consider(acc, ref, units, budget), units, budget)
    BY <1>6, ConsiderWithin
  <2>2. Within(Add(acc, ref), units, budget)
    BY <1>4, <2>1
  <2> QED  BY <2>2 DEF Within
<1> HIDE DEF X
<1>7. step \in Moves(n, X)
  BY <1>3, <1>6 DEF Moves
<1>8. \A i \in 1 .. n : \A x \in X : step[i][x] = Add(x, list[i])
  OBVIOUS
<1> HIDE DEF n, step, base
<1>9. Runs(n, X, base, step) # {}
  BY <1>3, <1>5, <1>7, Iterates
<1>10. PICK g \in [0 .. n -> X] : g[0] = base /\ \A i \in 1 .. n : g[i] = step[i][g[i - 1]]
  BY <1>9 DEF Runs
<1>11. Rec(g)
  <2>1. ASSUME NEW i \in 1 .. n PROVE g[i] = Add(g[i - 1], list[i])
    <3>1. i - 1 \in 0 .. n
      BY <1>3
    <3> QED  BY <1>8, <1>10, <3>1
  <2> QED  BY <1>3, <1>10, <2>1
<1>12. Rec(upTo)
  <2> HIDE DEF Rec
  <2> QED  BY <1>11
<1> HIDE DEF upTo
<1>13. /\ upTo[0] = base /\ \A i \in 1 .. n : upTo[i] = Add(upTo[i - 1], list[i])
  BY <1>3, <1>12
<1> HIDE DEF Rec
<1> DEFINE S == {i \in 0 .. n : upTo[i] \in X}
<1>14. 0 \in S
  BY <1>3, <1>5, <1>13
<1>15. ASSUME NEW m \in 0 .. n, m \in S, m < n PROVE m + 1 \in S
  <2>1. m + 1 \in 1 .. n /\ m + 1 \in 0 .. n /\ (m + 1) - 1 = m
    BY <1>3, <1>15
  <2>2. upTo[m + 1] = Add(upTo[m], list[m + 1])
    BY <1>13, <2>1
  <2>3. upTo[m + 1] \in X
    BY <1>3, <1>6, <1>15, <2>1, <2>2
  <2> QED  BY <2>1, <2>3
<1>16. upTo[n] \in X
  <2>1. \A i \in 0 .. n : i \in S
    <3> HIDE DEF S
    <3> QED  BY <1>3, <1>14, <1>15, Climb
  <2> QED  BY <1>3, <2>1
<1> QED  BY <1>2, <1>16 DEF X

\* A reference that is shown with a file takes its signature off what is left.
Contracts(units) == [refs : SUBSET Refs(units), left : Int]

Show(acc, ref, path, units) ==
    IF units[ref.unit].path = path \/ ref \in acc.refs THEN acc
    ELSE [refs |-> acc.refs \cup {ref}, left |-> acc.left - units[ref.unit].signature]

Showing(acc, list, path, units) ==
    Scan(LAMBDA a, ref :
                IF units[ref.unit].path = path \/ ref \in a.refs THEN a
                ELSE [refs |-> a.refs \cup {ref}, left |-> a.left - units[ref.unit].signature],
             acc, list)

\* What is shown and what is left are the budget together.
Balanced(acc, units, budget, T) ==
    acc \in Contracts(units) /\ T[acc.refs] + acc.left = budget

Weighed(T, units) == Totals(T, [r \in Refs(units) |-> units[r.unit].signature], Refs(units))

\* One more signature shown keeps the balance.
LEMMA ShowBalanced ==
    ASSUME NEW units, Signed(units), NEW budget \in Nat, NEW T, Weighed(T, units), NEW path,
           NEW acc, Balanced(acc, units, budget, T), NEW ref \in Refs(units)
    PROVE  /\ Balanced(Show(acc, ref, path, units), units, budget, T)
           /\ Show(acc, ref, path, units).left >= acc.left - units[ref.unit].signature
<1> DEFINE cost == units[ref.unit].signature
           more == acc.refs \cup {ref}
           next == [refs |-> more, left |-> acc.left - cost]
           U == Refs(units)
           w == [r \in U |-> units[r.unit].signature]
<1>1. acc.refs \in SUBSET U /\ acc.left \in Int /\ T[acc.refs] + acc.left = budget
  BY DEF Balanced, Contracts
<1>2. cost \in Nat
  BY DEF Signed, Refs
<1>3. T \in [SUBSET U -> Nat] /\ \A s \in SUBSET U : \A x \in s : T[s] = w[x] + T[s \ {x}]
  BY DEF Weighed, Totals
<1>4. w[ref] = cost
  OBVIOUS
<1> HIDE DEF w, cost, U
<1>5. CASE units[ref.unit].path = path \/ ref \in acc.refs
  <2>1. Show(acc, ref, path, units) = acc
    BY <1>5 DEF Show
  <2>2. acc.left >= acc.left - cost
    BY <1>1, <1>2
  <2> QED  BY <2>1, <2>2 DEF cost
<1>6. CASE ~(units[ref.unit].path = path \/ ref \in acc.refs)
  <2>1. Show(acc, ref, path, units) = next
    BY <1>6 DEF Show, cost
  <2>2. more \in SUBSET U /\ ref \in more /\ more \ {ref} = acc.refs
    BY <1>1, <1>6 DEF U
  <2>3. T[more] = cost + T[acc.refs] /\ T[acc.refs] \in Nat
    BY <1>1, <1>3, <1>4, <2>2
  <2> HIDE DEF more
  <2>4. next.left = acc.left - cost /\ next.refs = more /\ next.left \in Int
    BY <1>1, <1>2
  <2>5. next \in Contracts(units)
    BY <1>1, <1>2, <2>2 DEF Contracts, U
  <2> HIDE DEF next
  <2>6. T[next.refs] + next.left = budget
    BY <1>1, <1>2, <2>3, <2>4
  <2>7. next.left >= acc.left - cost
    BY <1>1, <1>2, <2>4
  <2> QED  BY <2>1, <2>5, <2>6, <2>7 DEF Balanced, cost
<1> QED  BY <1>5, <1>6

\* References that add up to no more than what is left can all be shown.
LEMMA ShowingOf ==
    ASSUME NEW units, Signed(units), NEW budget \in Nat, NEW T, Weighed(T, units), NEW path,
           NEW acc, Balanced(acc, units, budget, T),
           NEW list \in Seq(Refs(units)), NEW f, Tally(f, list, units), f[Len(list)] <= acc.left
    PROVE  /\ Balanced(Showing(acc, list, path, units), units, budget, T)
           /\ Showing(acc, list, path, units).left >= 0
<1> DEFINE n == Len(list)
           X == {a \in Contracts(units) : Balanced(a, units, budget, T)}
           Add(a, ref) ==
                IF units[ref.unit].path = path \/ ref \in a.refs THEN a
                ELSE [refs |-> a.refs \cup {ref}, left |-> a.left - units[ref.unit].signature]
           step == [i \in 1 .. n |-> [a \in X |-> Add(a, list[i])]]
           Rec(g) == g = [i \in 0 .. n |-> IF i = 0 THEN acc
                                           ELSE LET a == g[i - 1] IN Add(a, list[i])]
           upTo == CHOOSE g : Rec(g)
<1>1. n \in Nat /\ \A i \in 1 .. n : list[i] \in Refs(units)
  OBVIOUS
<1>2. Showing(acc, list, path, units) = upTo[n]
  BY DEF Showing, Scan
<1>3. \A a, ref : Add(a, ref) = Show(a, ref, path, units)
  BY DEF Show
<1> HIDE DEF Add
<1>4. acc \in X
  BY DEF Balanced
<1>5. ASSUME NEW a \in X, NEW ref \in Refs(units)
      PROVE  Add(a, ref) \in X /\ Add(a, ref).left >= a.left - units[ref.unit].signature
  <2>1. /\ Balanced(Show(a, ref, path, units), units, budget, T)
        /\ Show(a, ref, path, units).left >= a.left - units[ref.unit].signature
    BY <1>5, ShowBalanced
  <2> QED  BY <1>3, <2>1 DEF Balanced
<1>6. \A a \in X : a.left \in Int /\ Balanced(a, units, budget, T)
  BY DEF Balanced, Contracts
<1> HIDE DEF X
<1>7. step \in Moves(n, X)
  BY <1>1, <1>5 DEF Moves
<1>8. \A i \in 1 .. n : \A x \in X : step[i][x] = Add(x, list[i])
  OBVIOUS
<1>a. f \in [0 .. n -> Nat] /\ f[0] = 0 /\ \A i \in 1 .. n : f[i] = f[i - 1] + units[list[i].unit].signature
  BY DEF Tally
<1>b. f[n] <= acc.left
  OBVIOUS
<1>c. \A i \in 1 .. n : units[list[i].unit].signature \in Nat
  BY <1>1 DEF Refs, Signed
<1> HIDE DEF n, step
<1>9. Runs(n, X, acc, step) # {}
  BY <1>1, <1>4, <1>7, Iterates
<1>10. PICK g \in [0 .. n -> X] : g[0] = acc /\ \A i \in 1 .. n : g[i] = step[i][g[i - 1]]
  BY <1>9 DEF Runs
<1>11. Rec(g)
  <2>1. ASSUME NEW i \in 1 .. n PROVE g[i] = Add(g[i - 1], list[i])
    <3>1. i - 1 \in 0 .. n
      BY <1>1
    <3> QED  BY <1>8, <1>10, <3>1
  <2> QED  BY <1>1, <1>10, <2>1
<1>12. Rec(upTo)
  <2> HIDE DEF Rec
  <2> QED  BY <1>11
<1> HIDE DEF upTo
<1>13. upTo[0] = acc /\ \A i \in 1 .. n : upTo[i] = Add(upTo[i - 1], list[i])
  BY <1>1, <1>12
<1> HIDE DEF Rec
<1> DEFINE S == {i \in 0 .. n : upTo[i] \in X /\ upTo[i].left >= acc.left - f[i]}
<1>14. 0 \in S
  <2>1. acc.left \in Int /\ acc.left >= acc.left - 0
    BY <1>4, <1>6
  <2> QED  BY <1>1, <1>4, <1>13, <1>a, <2>1
<1>15. ASSUME NEW m \in 0 .. n, m \in S, m < n PROVE m + 1 \in S
  <2>1. m + 1 \in 1 .. n /\ m + 1 \in 0 .. n /\ (m + 1) - 1 = m
    BY <1>1, <1>15
  <2> DEFINE cost == units[list[m + 1].unit].signature
  <2>2. upTo[m + 1] = Add(upTo[m], list[m + 1])
    BY <1>13, <2>1
  <2>3. upTo[m] \in X /\ upTo[m].left >= acc.left - f[m]
    BY <1>15
  <2>4. upTo[m + 1] \in X /\ upTo[m + 1].left >= upTo[m].left - cost
    BY <1>1, <1>5, <2>1, <2>2, <2>3
  <2>5. f[m + 1] = f[m] + cost /\ f[m] \in Nat /\ cost \in Nat
    BY <1>a, <1>c, <2>1
  <2>6. upTo[m + 1].left \in Int /\ upTo[m].left \in Int /\ acc.left \in Int
    BY <1>4, <1>6, <2>3, <2>4
  <2> HIDE DEF cost
  <2>7. upTo[m + 1].left >= acc.left - f[m + 1]
    BY <2>3, <2>4, <2>5, <2>6
  <2> QED  BY <2>1, <2>4, <2>7
<1>16. upTo[n] \in X /\ upTo[n].left >= acc.left - f[n]
  <2>1. \A i \in 0 .. n : i \in S
    <3> HIDE DEF S
    <3> QED  BY <1>1, <1>14, <1>15, Climb
  <2>2. n \in 0 .. n
    BY <1>1
  <2> QED  BY <2>1, <2>2
<1>17. upTo[n].left >= 0
  <2>1. upTo[n].left \in Int /\ acc.left \in Int /\ f[n] \in Nat
    BY <1>1, <1>4, <1>6, <1>16, <1>a
  <2> QED  BY <1>16, <1>b, <2>1
<1> QED  BY <1>2, <1>6, <1>16, <1>17

\* The contracts shown with a file are within the budget.
LEMMA FileContextOf ==
    ASSUME NEW units, Signed(units), NEW budget \in Nat, NEW T, Weighed(T, units), NEW path
    PROVE  /\ Balanced(FileContext(path, units, budget), units, budget, T)
           /\ FileContext(path, units, budget).left >= 0
<1> DEFINE mine == Picked(units, {i \in DOMAIN units : units[i].path = path})
           n == Len(mine)
           X == {a \in Contracts(units) : Balanced(a, units, budget, T) /\ a.left >= 0}
           Left(acc) == IF acc.left > 0 THEN acc.left ELSE 0
           Take(acc, unit) ==
               Scan(LAMBDA a, ref :
                        IF units[ref.unit].path = path \/ ref \in a.refs THEN a
                        ELSE [refs |-> a.refs \cup {ref}, left |-> a.left - units[ref.unit].signature],
                     acc, ConnectedContext(unit, units, IF acc.left > 0 THEN acc.left ELSE 0).refs)
           base == [refs |-> {}, left |-> budget]
           step == [i \in 1 .. n |-> [a \in X |-> Take(a, mine[i])]]
           Rec(g) == g = [i \in 0 .. n |-> IF i = 0 THEN base
                                           ELSE LET a == g[i - 1] IN Take(a, mine[i])]
           upTo == CHOOSE g : Rec(g)
<1>1. n \in Nat
  <2> DEFINE I == {i \in DOMAIN units : units[i].path = path}
  <2>1. I \in SUBSET Nat /\ IsFiniteSet(I)
    <3>1. DOMAIN units = 1 .. Len(units) /\ Len(units) \in Nat
      BY DomainSequence DEF Signed
    <3>2. I \in SUBSET (1 .. Len(units)) /\ IsFiniteSet(1 .. Len(units))
      BY <3>1, FS_Interval
    <3> QED  BY <3>1, <3>2, FS_Subset
  <2> HIDE DEF I
  <2>2. \A i \in I : units[i] \in {units[j] : j \in I}
    OBVIOUS
  <2>3. Len(Picked(units, I)) \in Nat
    BY <2>1, <2>2, PickedAt
  <2> QED  BY <2>3 DEF I
<1>2. FileContext(path, units, budget) = upTo[n]
  BY DEF FileContext, Scan
<1>3. \A acc, unit : Take(acc, unit) = Showing(acc, ConnectedContext(unit, units, Left(acc)).refs, path, units)
  BY DEF Showing, Scan
<1> HIDE DEF Take, mine
<1>4. base \in X
  <2>1. base.refs = {} /\ base.left = budget /\ base \in Contracts(units)
    BY DEF Contracts
  <2>2. T[{}] = 0
    BY DEF Weighed, Totals
  <2> HIDE DEF base
  <2>3. Balanced(base, units, budget, T)
    BY <2>1, <2>2 DEF Balanced
  <2> QED  BY <2>1, <2>3
<1>5. ASSUME NEW a \in X, NEW unit PROVE Take(a, unit) \in X
  <2> DEFINE context == ConnectedContext(unit, units, Left(a))
             refs == context.refs
  <2>1. a.left \in Int /\ a.left >= 0 /\ Balanced(a, units, budget, T)
    BY <1>5 DEF Contracts
  <2>2. Left(a) = a.left /\ Left(a) \in Nat
    BY <2>1
  <2> HIDE DEF Left
  <2>3. Within(context, units, Left(a))
    BY <2>2, ContextOf
  <2> HIDE DEF context
  <2>4. PICK f : Tally(f, refs, units) /\ f[Len(refs)] = context.used
    BY <2>3 DEF Within
  <2>5. refs \in Seq(Refs(units)) /\ f[Len(refs)] <= a.left
    BY <2>2, <2>3, <2>4 DEF Within, Taken
  <2>6. Take(a, unit) = Showing(a, refs, path, units)
    BY <1>3 DEF context
  <2> HIDE DEF refs
  <2>7. /\ Balanced(Showing(a, refs, path, units), units, budget, T)
        /\ Showing(a, refs, path, units).left >= 0
    BY <2>1, <2>4, <2>5, ShowingOf
  <2> QED  BY <2>6, <2>7 DEF Balanced
<1>6. \A a \in X : a.left >= 0 /\ Balanced(a, units, budget, T)
  OBVIOUS
<1> HIDE DEF X
<1>7. step \in Moves(n, X)
  BY <1>1, <1>5 DEF Moves
<1>8. \A i \in 1 .. n : \A x \in X : step[i][x] = Take(x, mine[i])
  OBVIOUS
<1> HIDE DEF n, step, base
<1>9. Runs(n, X, base, step) # {}
  BY <1>1, <1>4, <1>7, Iterates
<1>10. PICK g \in [0 .. n -> X] : g[0] = base /\ \A i \in 1 .. n : g[i] = step[i][g[i - 1]]
  BY <1>9 DEF Runs
<1>11. Rec(g)
  <2>1. ASSUME NEW i \in 1 .. n PROVE g[i] = Take(g[i - 1], mine[i])
    <3>1. i - 1 \in 0 .. n
      BY <1>1
    <3> QED  BY <1>8, <1>10, <3>1
  <2> QED  BY <1>1, <1>10, <2>1
<1>12. Rec(upTo)
  <2> HIDE DEF Rec
  <2> QED  BY <1>11
<1> HIDE DEF upTo
<1>13. upTo[0] = base /\ \A i \in 1 .. n : upTo[i] = Take(upTo[i - 1], mine[i])
  BY <1>1, <1>12
<1> HIDE DEF Rec
<1> DEFINE S == {i \in 0 .. n : upTo[i] \in X}
<1>14. 0 \in S
  BY <1>1, <1>4, <1>13
<1>15. ASSUME NEW m \in 0 .. n, m \in S, m < n PROVE m + 1 \in S
  <2>1. m + 1 \in 1 .. n /\ m + 1 \in 0 .. n /\ (m + 1) - 1 = m
    BY <1>1, <1>15
  <2>2. upTo[m + 1] = Take(upTo[m], mine[m + 1])
    BY <1>13, <2>1
  <2>3. upTo[m + 1] \in X
    BY <1>5, <1>15, <2>2
  <2> QED  BY <2>1, <2>3
<1>16. upTo[n] \in X
  <2>1. \A i \in 0 .. n : i \in S
    <3> HIDE DEF S
    <3> QED  BY <1>1, <1>14, <1>15, Climb
  <2> QED  BY <1>1, <2>1
<1> QED  BY <1>2, <1>6, <1>16

\* The units of all files have signatures that cost something.
LEMMA AllUnitsOf ==
    ASSUME NEW files \in Codebases
    PROVE  Signed(AllUnits(files))
<1> DEFINE lists == [i \in DOMAIN files |-> FileUnits(files[i]).units]
           all == FlattenSeq(lists)
<1>1. files \in Seq(ToSet(files)) /\ \A file \in ToSet(files) : Source(file)
  BY ReviewAssumption
<1>2. Sequence(files) /\ \A f \in DOMAIN files : Source(files[f])
  BY <1>1 DEF Sequence, ToSet
<1>3. Len(files) \in Nat /\ DOMAIN files = 1 .. Len(files)
  BY <1>2, DomainSequence
<1>4. Sequence(lists) /\ \A i \in DOMAIN lists : /\ Sequence(lists[i])
                                                /\ \A o \in DOMAIN lists[i] : UnitOf(lists[i][o])
  <2>1. DOMAIN lists = 1 .. Len(files) /\ lists = [i \in 1 .. Len(files) |-> lists[i]]
    BY <1>3
  <2>2. \A i \in DOMAIN lists : /\ Sequence(lists[i])
                                /\ \A o \in DOMAIN lists[i] : UnitOf(lists[i][o])
    BY <1>2, FileUnitsOf
  <2> HIDE DEF lists
  <2> QED  BY <1>3, <2>1, <2>2, FunctionSequence
<1>5. AllUnits(files) = all
  BY DEF AllUnits
<1> HIDE DEF lists
<1>6. Sequence(all) /\ InOrderOf(all, lists, Len(lists))
  BY <1>4, FlattenSequence
<1>7. DOMAIN lists = 1 .. Len(lists)
  BY <1>4, DomainSequence
<1>8. ASSUME NEW i \in DOMAIN all PROVE all[i].signature \in Nat
  <2>1. PICK b \in 1 .. Len(lists) : Follows(all, i, lists, b)
    BY <1>6 DEF InOrderOf
  <2>2. PICK o \in DOMAIN lists[b] : all[i] = lists[b][o]
    BY <2>1 DEF Follows
  <2> QED  BY <1>4, <1>7, <2>2 DEF UnitOf
<1> QED  BY <1>5, <1>6, <1>8 DEF Signed

\* A leaf with what is shown around it keeps to the budget.
LEMMA LeafFits ==
    ASSUME NEW unit, NEW header, Settled(unit, header, LeafBudget), NEW units, Signed(units)
    PROVE  LET used == LeafContext(unit, header, units, LeafBudget).used
           IN  IF IsAtom(unit, header, LeafBudget)
               THEN Cost(unit.chunk.lines) + Cost(header.lines) + used <= LeafBudget
               ELSE used = 0 /\ Len(SplitUnit(unit, LeafBudget)) <= 1
<1> DEFINE text == Cost(unit.chunk.lines)
           back == Cost(header.lines)
           left == LeafBudget - text - back
           budget == IF left > 0 THEN left ELSE 0
           context == ConnectedContext(unit, units, budget)
<1>1. text \in Nat /\ back \in Nat
  <2>1. unit.chunk.lines \in Seq(Line) /\ header.lines \in Seq(Line)
    <3>1. unit.chunk \in Text /\ header \in Text
      BY DEF Settled, UnitOf
    <3> QED  BY <3>1 DEF Text
  <2> QED  BY <2>1, CostType
<1>2. LeafBudget \in Nat
  BY ReviewAssumption
<1>3. LeafContext(unit, header, units, LeafBudget) = context
  BY DEF LeafContext
<1>4. IsAtom(unit, header, LeafBudget) <=> text + back <= LeafBudget
  BY DEF IsAtom
<1>5. IsAtom(unit, header, LeafBudget) \/ Len(SplitUnit(unit, LeafBudget)) <= 1
  BY DEF Settled
<1> HIDE DEF text, back
<1>6. left \in Int /\ budget \in Nat
  BY <1>1, <1>2
<1>a. budget = (IF left > 0 THEN left ELSE 0) /\ left = LeafBudget - text - back
  OBVIOUS
<1> HIDE DEF budget, left
<1>7. Within(context, units, budget)
  BY <1>6, ContextOf
<1>8. context.used \in Nat /\ context.used <= budget
  BY <1>7 DEF Within, Taken
<1> HIDE DEF context
<1>9. CASE text + back <= LeafBudget
  <2>1. budget = LeafBudget - text - back
    BY <1>1, <1>2, <1>a, <1>9
  <2>2. text + back + context.used <= LeafBudget
    BY <1>1, <1>2, <1>8, <2>1
  <2> QED  BY <1>3, <1>4, <1>9, <2>2 DEF text, back
<1>10. CASE ~(text + back <= LeafBudget)
  <2>1. context.used = 0
    BY <1>1, <1>2, <1>8, <1>a, <1>10
  <2> QED  BY <1>3, <1>4, <1>5, <1>10, <2>1
<1> QED  BY <1>9, <1>10

\* So does a file with its contracts.
LEMMA FileFits ==
    ASSUME NEW units, Signed(units), NEW path, NEW budget \in Nat
    PROVE  SumFunction([r \in FileContext(path, units, budget).refs |-> units[r.unit].signature]) <= budget
<1> DEFINE U == Refs(units)
           w == [r \in U |-> units[r.unit].signature]
           context == FileContext(path, units, budget)
           refs == context.refs
           v == [r \in refs |-> units[r.unit].signature]
<1>1. IsFiniteSet(U)
  <2>1. IsFiniteSet(DOMAIN units)
    <3>1. DOMAIN units = 1 .. Len(units) /\ Len(units) \in Nat
      BY DomainSequence DEF Signed
    <3> QED  BY <3>1, FS_Interval
  <2>2. IsFiniteSet({"callee", "caller"})
    <3>1. {"callee", "caller"} = {"callee"} \cup {"caller"}
      OBVIOUS
    <3>2. IsFiniteSet({"callee"}) /\ IsFiniteSet({"caller"})
      BY FS_Singleton
    <3>3. IsFiniteSet({"callee"} \cup {"caller"})
      BY <3>2, FS_Union
    <3> QED  BY <3>1, <3>3
  <2> DEFINE P == (DOMAIN units) \X {"callee", "caller"}
             image == {[unit |-> p[1], relation |-> p[2]] : p \in P}
             h == [p \in P |-> [unit |-> p[1], relation |-> p[2]]]
  <2>3. IsFiniteSet(P)
    BY <2>1, <2>2, FS_Product
  <2>4. IsFiniteSet({h[p] : p \in P})
    <3>1. DOMAIN h = P
      OBVIOUS
    <3> HIDE DEF h, P
    <3> QED  BY <2>3, <3>1, FiniteImage
  <2>5. U \subseteq {h[p] : p \in P}
    <3> SUFFICES ASSUME NEW r \in U PROVE \E p \in P : h[p] = r
      OBVIOUS
    <3>1. r.unit \in DOMAIN units /\ r.relation \in {"callee", "caller"} /\ r = [unit |-> r.unit, relation |-> r.relation]
      BY DEF Refs
    <3>2. <<r.unit, r.relation>> \in P
      BY <3>1
    <3>3. h[<<r.unit, r.relation>>] = r
      BY <3>1, <3>2
    <3> QED  BY <3>2, <3>3
  <2> HIDE DEF U, h, P
  <2> QED  BY <2>4, <2>5, FS_Subset
<1>2. \A r \in U : w[r] \in Nat
  BY DEF Signed, Refs
<1>3. PICK T : Totals(T, w, U)
  <2> HIDE DEF U, w
  <2> QED  BY <1>1, <1>2, TotalsExist
<1>4. Weighed(T, units)
  BY <1>3 DEF Weighed
<1>5. Balanced(context, units, budget, T) /\ context.left >= 0
  BY <1>4, FileContextOf
<1> HIDE DEF context
<1>6. refs \in SUBSET U /\ T[refs] + context.left = budget /\ context.left \in Int
  BY <1>5 DEF Balanced, Contracts
<1>7. \A r \in refs : v[r] = w[r]
  BY <1>6
<1>8. DOMAIN v = refs /\ IsFiniteSet(refs)
  BY <1>1, <1>6, FS_Subset
<1>9. SumFunctionOnSet(v, refs) = T[refs]
  <2> HIDE DEF v, w, U, refs
  <2>1. Adds(T, v, refs)
    <3> SUFFICES ASSUME NEW s \in SUBSET refs
                 PROVE  T[s] = IF s = {} THEN 0 ELSE LET x == CHOOSE x \in s : TRUE IN v[x] + T[s \ {x}]
      BY DEF Adds
    <3>1. CASE s = {}
      BY <1>3, <3>1 DEF Totals
    <3>2. CASE s # {}
      <4> DEFINE x == CHOOSE x \in s : TRUE
      <4>1. x \in s /\ s \in SUBSET U /\ x \in refs
        BY <1>6, <3>2
      <4> HIDE DEF x
      <4>2. T[s] = w[x] + T[s \ {x}]
        BY <1>3, <4>1 DEF Totals
      <4>3. v[x] = w[x]
        BY <1>7, <4>1
      <4> QED  BY <3>2, <4>2, <4>3 DEF x
    <3> QED  BY <3>1, <3>2
  <2> QED  BY <1>8, <2>1, SumIs
<1>10. SumFunction(v) = T[refs]
  BY <1>8, <1>9 DEF SumFunction
<1>11. T[refs] \in Nat
  <2> HIDE DEF refs, U, w
  <2> QED  BY <1>3, <1>6 DEF Totals
<1>12. T[refs] <= budget
  <2> HIDE DEF refs
  <2> QED  BY <1>5, <1>6, <1>11
<1> HIDE DEF v
<1>13. SumFunction(v) <= budget
  BY <1>10, <1>12
<1> QED  BY <1>13 DEF v, refs, context

\* The tree is the one that the files are cut into.
Laidout == code \in Codebases /\ tree = Skeleton(code, FileClusters(code, AllUnits(code)))

\* No step changes it.
LEMMA LaidoutStep ==
    ASSUME Laidout, [Next]_vars
    PROVE  Laidout'
<1>1. UNCHANGED <<code, tree>>
  BY DEF Next, Step, Done, Prepare, ReadFails, StartLeaf, LeafAnswered, Synthesize, SkipFile, ValidateFile,
         NetworkAsks, NetworkReads, NetworkAnswers, CallRaises, VerifyFinding, WriteReport, Resolve, vars
<1> QED  BY <1>1 DEF Laidout

\* So that its prompts fit.
LEMMA LaidoutFits ==
    ASSUME Laidout
    PROVE  PromptsFit
<1> DEFINE clusters == FileClusters(code, AllUnits(code))
<1>1. code \in Codebases /\ tree = Skeleton(code, clusters)
  BY DEF Laidout
<1>2. Leafed(tree)
  BY <1>1, SkeletonGrown
<1>3. tree.units = AllUnits(code)
  BY <1>1 DEF Skeleton
<1>4. Signed(tree.units)
  BY <1>1, <1>3, AllUnitsOf
<1>5. ASSUME NEW i \in DOMAIN tree.leaves
      PROVE  LET leaf == tree.leaves[i]
                 used == LeafContext(leaf.unit, leaf.header, tree.units, LeafBudget).used
             IN  IF IsAtom(leaf.unit, leaf.header, LeafBudget)
                 THEN Cost(leaf.unit.chunk.lines) + Cost(leaf.header.lines) + used <= LeafBudget
                 ELSE used = 0 /\ Len(SplitUnit(leaf.unit, LeafBudget)) <= 1
  BY <1>2, <1>4, LeafFits DEF Leafed
<1>6. ASSUME NEW f \in DOMAIN code, FileBudget - Cost(code[f].lines) >= 0
      PROVE  SumFunction([r \in FileContext(f, tree.units, FileBudget - Cost(code[f].lines)).refs
                            |-> tree.units[r.unit].signature]) <= FileBudget - Cost(code[f].lines)
  <2> DEFINE left == FileBudget - Cost(code[f].lines)
  <2>1. left \in Nat
    <3>1. Source(code[f])
      <4>1. \A file \in ToSet(code) : Source(file)
        BY <1>1, ReviewAssumption
      <4> QED  BY <4>1 DEF ToSet
    <3>2. Cost(code[f].lines) \in Nat
      BY <3>1, CostType DEF Source
    <3>3. FileBudget \in Nat
      BY ReviewAssumption
    <3> QED  BY <1>6, <3>2, <3>3
  <2> HIDE DEF left
  <2>2. SumFunction([r \in FileContext(f, tree.units, left).refs |-> tree.units[r.unit].signature]) <= left
    BY <1>4, <2>1, FileFits
  <2> QED  BY <2>2 DEF left
<1> QED  BY <1>5, <1>6 DEF PromptsFit

-----------------------------------------------------------------------------
(* The theorems.                                                           *)

\* The beginning.
LEMMA ReviewInit ==
    ASSUME Init
    PROVE  ReviewInv
<1>1. /\ code \in Codebases /\ tree = Skeleton(code, FileClusters(code, AllUnits(code))) /\ phase = "start" /\ started = 0
      /\ result = <<>> /\ loop = NoLoop /\ verdicts = <<>>
  BY DEF Init
<1>2. Grown(tree)
  BY <1>1, SkeletonGrown
<1>3. DOMAIN result = {} /\ InFlight = {}
  BY <1>1 DEF InFlight
<1>4. ReviewTypeOK
  <2>1. Cardinality(InFlight) <= Concurrency
    BY <1>3, FS_EmptySet, ReviewAssumption
  <2>2. started \in 0 .. Len(tree.leaves)
    BY <1>1, <1>2 DEF Grown
  <2>3. loop.turn \in 0 .. MaxTurns /\ loop.calls \in 0 .. MaxCalls /\ loop.used \in 0 .. NetworkBudget
    BY <1>1, ReviewAssumption DEF NoLoop
  <2> QED  BY <1>1, <1>3, <2>1, <2>2, <2>3 DEF ReviewTypeOK
<1>5. Kept /\ Complete /\ Judged
  BY <1>1, <1>3 DEF Kept, Complete, Judged
<1> QED  BY <1>2, <1>4, <1>5 DEF ReviewInv

\* Every variable of a review keeps its type, no more leaves are with the model than
\* are admitted, and no cluster is read beyond the budgets (ReviewTypeOK), for every
\* codebase, all answers and all budgets.
THEOREM ReviewTypeCorrect == Spec => []ReviewTypeOK
<1>1. Spec => []ReviewInv
  BY ReviewInit, ReviewStep, PTL DEF Spec
<1>2. ReviewInv => ReviewTypeOK
  BY DEF ReviewInv
<1> QED  BY <1>1, <1>2, PTL

\* What a leaf found is reported, refuted, or said to be dropped on the way
\* (NothingLost): _merge_child_findings loses nothing, in a tree of any size.
THEOREM NothingGetsLost == Spec => []NothingLost
<1>1. Spec => []ReviewInv
  BY ReviewInit, ReviewStep, PTL DEF Spec
<1> QED  BY <1>1, InvNothingLost, PTL

\* No prompt exceeds its budget (PromptsFit), for every codebase and all budgets: what
\* _split_oversized_unit leaves over the budget cannot be cut any further.
THEOREM PromptsKeepToBudgets == Spec => []PromptsFit
<1>1. Init => Laidout
  BY DEF Init, Laidout
<1>2. Laidout /\ [Next]_vars => Laidout'
  BY LaidoutStep
<1>3. Laidout => PromptsFit
  BY LaidoutFits
<1> QED  BY <1>1, <1>2, <1>3, PTL DEF Spec

\* The files of every review are cut as CutSound says, for every codebase and all
\* budgets: each line with text is background or in one unit, and in a leaf of it unless
\* it is a class-level line of an oversized class, beside its methods.
THEOREM CutsAreSound == Spec => []CutSound
<1>1. Init => Laidout
  BY DEF Init, Laidout
<1>2. Laidout /\ [Next]_vars => Laidout'
  BY LaidoutStep
<1>3. Laidout => CutSound
  <2> SUFFICES ASSUME Laidout, NEW i \in DOMAIN code PROVE CutOf(code[i])
    BY SplittingsAreSound DEF CutSound
  <2>1. \A file \in ToSet(code) : Source(file)
    BY ReviewAssumption DEF Laidout
  <2>2. Source(code[i])
    BY <2>1 DEF ToSet
  <2> QED  BY <2>2, CuttingIsSound
<1> QED  BY <1>1, <1>2, <1>3, PTL DEF Spec
=============================================================================
