------------------------------ MODULE ReviewTree ------------------------------
(***************************************************************************)
(* A review of review_tree.py: the files are cut and clustered, every leaf *)
(* is reviewed by the model, several at a time, and the answers are merged *)
(* upwards: pieces of a unit, file, cluster (with a tool that reads code), *)
(* root.  Then the findings are verified one by one, on demand, and the    *)
(* report is written.                                                      *)
(*                                                                         *)
(* A node is its path from the root <<>>: cluster, file, unit under a      *)
(* lens, piece.  What the model answers is an open choice.                 *)
(***************************************************************************)
EXTENDS ReviewChunks

CONSTANTS Codebases,         \* what is under the target directory: sequences of files
          Lenses,            \* how many analysis lenses there are
          Findings, KeyOf,   \* findings, and their (file, line, category in lower case)
          LeafAnswers, SynthesisAnswers,  \* what the model may answer
          LeafBudget, FileBudget, NetworkBudget, MaxCluster,
          MaxTurns, MaxReadLines, Concurrency,
          MaxCalls           \* the most tool calls of one response; a bound of the model

ASSUME ReviewAssumption ==
    /\ Lenses \in Nat \ {0} /\ Concurrency \in Nat \ {0} /\ MaxCalls \in Nat
    /\ {LeafBudget, FileBudget, NetworkBudget, MaxCluster, MaxTurns, MaxReadLines} \subseteq Nat
    /\ DOMAIN KeyOf = Findings
    /\ \A files \in Codebases : files \in Seq(ToSet(files)) /\ \A file \in ToSet(files) : Source(file)
    /\ \A answer \in LeafAnswers \cup SynthesisAnswers :
          answer.findings \in Seq(ToSet(answer.findings)) /\ answer.truncated \in BOOLEAN

VARIABLES code,       \* the files
          phase,
          tree,       \* of the code: nodes, leaves as queued, the others as resolved
          started,    \* how many leaves were sent to the model
          result,     \* of the nodes resolved so far
          loop,       \* of the cluster being resolved: turns taken, tool calls of the
                      \* last response still to be dispatched, and tokens read
          verdicts    \* on the root's findings, in their order

vars == <<code, phase, tree, started, result, loop, verdicts>>

Keys == {KeyOf[f] : f \in Findings}

NodeResult == [findings : Seq(Findings), dropped : SUBSET Keys, truncated : BOOLEAN,
               skipped : BOOLEAN, recovered : Nat]

NoLoop == [turn |-> 0, calls |-> 0, used |-> 0]

-----------------------------------------------------------------------------
(* The tree.                                                               *)

\* The units of a file under each lens, as leaves or as nodes above pieces.
UnitNodes(file, id) ==
    LET cut   == FileUnits(file)
        items == FlattenSeq([l \in 1..Lenses |-> cut.units])
    IN  [k \in DOMAIN items |->
            [id |-> Append(id, k), header |-> cut.header,
             leaves |-> Leaves(items[k], cut.header, LeafBudget)]]

UnitLeaves(node) ==
    IF Len(node.leaves) = 1
    THEN <<[id |-> node.id, unit |-> node.leaves[1], header |-> node.header]>>
    ELSE [p \in DOMAIN node.leaves |->
            [id |-> Append(node.id, p), unit |-> node.leaves[p], header |-> node.header]]

\* The leaves of a file's units, and the units above pieces.
LeavesBelow(units) == FlattenSeq([k \in DOMAIN units |-> UnitLeaves(units[k])])

SplitUnits(units) ==
    Picked([k \in DOMAIN units |-> units[k].id], {k \in DOMAIN units : Len(units[k].leaves) > 1})

\* Clusters are in the order of their first files.
FileClusters(files, units) ==
    LET weight  == [pair \in {{a, b} : a, b \in DOMAIN files} |->
                       LET a == CHOOSE x \in pair : TRUE
                           b == CHOOSE x \in pair : pair = {a, x}
                       IN  EdgeWeight(units, a, b)]
        grouped == Clusters(DOMAIN files, weight, MaxCluster)
        home    == [f \in DOMAIN files |-> CHOOSE C \in grouped : f \in C]
    IN  Picked(home, {f \in DOMAIN files : \A g \in home[f] : f <= g})

\* The files of a cluster are in theirs.
FileIds(files, clusters) ==
    FlattenSeq([c \in DOMAIN clusters |-> Picked([f \in DOMAIN files |-> <<c, f>>], clusters[c])])

\* The units of all files, as the clusters and the related signatures see them.
AllUnits(files) == FlattenSeq([i \in DOMAIN files |-> FileUnits(files[i]).units])

\* The tree over the files once they are clustered.
Skeleton(files, clusters) ==
    LET ids      == FileIds(files, clusters)
        cut      == [i \in DOMAIN ids |-> UnitNodes(files[ids[i][2]], ids[i])]
        leaves   == FlattenSeq([i \in DOMAIN ids |-> LeavesBelow(cut[i])])
        order    == FlattenSeq([i \in DOMAIN ids |-> Append(SplitUnits(cut[i]), ids[i])])
                    \o [c \in DOMAIN clusters |-> <<c>>] \o << <<>> >>
    IN  [units |-> AllUnits(files), clusters |-> clusters, leaves |-> leaves, order |-> order,
         nodes |-> [i \in DOMAIN leaves |-> leaves[i].id] \o order]

\* The nodes right below n, in their order.
Children(n) ==
    LET places == {Last(c) : c \in {c \in ToSet(tree.nodes) : c # <<>> /\ Front(c) = n}}
    IN  Picked([k \in places |-> Append(n, k)], places)

Above(n) == {SubSeq(n, 1, k) : k \in 0..(Len(n) - 1)}

LeafIds == {tree.leaves[i].id : i \in DOMAIN tree.leaves}

Resolved(n) == n \in DOMAIN result

-----------------------------------------------------------------------------
(* Merging.                                                                *)

KeysOf(findings) == {KeyOf[findings[i]] : i \in DOMAIN findings}

\* The findings of the children, in their order.
FromChildren(n) ==
    LET below == Children(n)
    IN  FlattenSeq([i \in DOMAIN below |-> result[below[i]].findings])

\* Slip: an answer that lists something is taken for complete.
RecoverWhenEmpty(listed, dropped, below) ==
    IF listed # <<>> THEN listed ELSE SelectSeq(below, LAMBDA f : KeyOf[f] \notin dropped)

\* The children's findings that the answer neither lists nor drops are added
\* to it, one for each key.
Recover(listed, dropped, below) ==
    LET Add(acc, f) == IF KeyOf[f] \in acc.seen THEN acc
                       ELSE [seen |-> acc.seen \cup {KeyOf[f]}, all |-> Append(acc.all, f)]
    IN  Scan(Add, [seen |-> KeysOf(listed) \cup dropped, all |-> listed], below).all

\* Of an answer, what is well-formed: an entry without a file and a text is
\* passed over, and text that holds no object is an empty answer.
Parsed(answer) ==
    [findings |-> Picked(answer.findings, {i \in DOMAIN answer.findings : answer.findings[i] \in Findings}),
     dropped |-> answer.dropped \cap Keys]

Plain(answer) == [findings |-> Parsed(answer).findings, dropped |-> Parsed(answer).dropped,
                  truncated |-> answer.truncated, skipped |-> FALSE, recovered |-> 0]

Merged(answer, n) ==
    LET own == Plain(answer)
        all == Recover(own.findings, own.dropped, FromChildren(n))
    IN  [own EXCEPT !.findings = all, !.recovered = Len(all) - Len(own.findings)]

\* A file that does not fit is not sent to the model: its leaves' findings are
\* passed on as they are.
Skipped(n) ==
    LET all == Recover(<<>>, {}, FromChildren(n))
    IN  [findings |-> all, dropped |-> {}, truncated |-> FALSE, skipped |-> TRUE,
         recovered |-> Len(all)]

-----------------------------------------------------------------------------
(* Actions.                                                                *)

\* Phases 0 and 1: nothing here waits for the model.
Init ==
    /\ code \in Codebases
    /\ \E clusters \in {FileClusters(code, AllUnits(code))} : tree = Skeleton(code, clusters)
    /\ phase = "start" /\ started = 0 /\ result = <<>>
    /\ loop = NoLoop /\ verdicts = <<>>

\* The files are read and cut; nothing of it waits for the model.
Prepare ==
    /\ phase = "start"
    /\ phase' = "review"
    /\ UNCHANGED <<code, tree, started, result, loop, verdicts>>

\* A file that is no UTF-8 or cannot be read ends the review before it began.
ReadFails ==
    /\ phase = "start"
    /\ phase' = "raised"
    /\ UNCHANGED <<code, tree, started, result, loop, verdicts>>

InFlight == {tree.leaves[i].id : i \in 1..started} \ DOMAIN result

\* Slip: without the semaphore.
StartAllLeaves ==
    /\ phase = "review" /\ started < Len(tree.leaves)
    /\ started' = started + 1
    /\ UNCHANGED <<code, phase, tree, result, loop, verdicts>>

\* The semaphore admits the leaves in the order they were queued.
StartLeaf ==
    /\ phase = "review" /\ started < Len(tree.leaves)
    /\ Cardinality(InFlight) < Concurrency
    /\ started' = started + 1
    /\ UNCHANGED <<code, phase, tree, result, loop, verdicts>>

\* The results with the one of n.
With(n, r) == [m \in DOMAIN result \cup {n} |-> IF m = n THEN r ELSE result[m]]

\* Slip: a truncated answer is asked for again.
LeafRetried(n) ==
    /\ phase = "review" /\ n \in InFlight
    /\ \E answer \in LeafAnswers :
         IF answer.truncated THEN started' = started - 1 /\ UNCHANGED result
         ELSE result' = With(n, Plain(answer)) /\ UNCHANGED started
    /\ UNCHANGED <<code, phase, tree, loop, verdicts>>

\* The answers may come in any order.
LeafAnswered(n) ==
    /\ phase = "review" /\ n \in InFlight
    /\ \E answer \in LeafAnswers : result' = With(n, Plain(answer))
    /\ UNCHANGED <<code, phase, tree, started, loop, verdicts>>

\* A node above the leaves is resolved when all leaves are, and all nodes that
\* come before it.
Due(n) ==
    /\ phase = "review" /\ LeafIds \subseteq DOMAIN result
    /\ \E i \in DOMAIN tree.order : /\ tree.order[i] = n /\ ~Resolved(n)
                                    /\ \A j \in 1..(i - 1) : Resolved(tree.order[j])

Resolve(n, r) ==
    /\ result' = With(n, r)
    /\ phase' = IF n = <<>> THEN "verify" ELSE phase
    /\ UNCHANGED <<code, tree, started, verdicts>>

\* Pieces of a unit, and the root: the sub-reviews are all the model sees.
Synthesize(n) ==
    /\ Due(n) /\ Len(n) \in {0, 3}
    /\ \E answer \in SynthesisAnswers : Resolve(n, Merged(answer, n))
    /\ UNCHANGED loop

SourceCost(n) == Cost(code[n[2]].lines)

SkipFile(n) ==
    /\ Due(n) /\ Len(n) = 2 /\ SourceCost(n) > FileBudget
    /\ Resolve(n, Skipped(n))
    /\ UNCHANGED loop

ValidateFile(n) ==
    /\ Due(n) /\ Len(n) = 2 /\ SourceCost(n) <= FileBudget
    /\ \E answer \in SynthesisAnswers : Resolve(n, Merged(answer, n))
    /\ UNCHANGED loop

\* The model asks for tools instead of answering, in as many calls as it likes.
NetworkAsks(n) ==
    /\ Due(n) /\ Len(n) = 1 /\ loop.calls = 0 /\ loop.turn < MaxTurns
    /\ \E calls \in 1..MaxCalls :
          loop' = [turn |-> loop.turn + 1, calls |-> calls, used |-> loop.used]
    /\ UNCHANGED <<code, phase, tree, started, result, verdicts>>

\* What a call costs: nothing when the tool is unknown, the file is not of the
\* cluster, the lines are no lines, or the budget is spent.  A request names a file
\* by its path, or by the last part of it, which several files may share: the first
\* is read.
ReadCost(cluster, meant, used, from, to) ==
    LET last == IF to < from + MaxReadLines - 1 THEN to ELSE from + MaxReadLines - 1
        fits == meant \cap cluster
        file == CHOOSE f \in fits : \A g \in fits : f <= g
        cost == Cost(SubSeq(code[file].lines, from,
                            IF last < Len(code[file].lines) THEN last ELSE Len(code[file].lines)))
    IN  IF fits = {} \/ from < 1 \/ to < from \/ used + cost > NetworkBudget THEN 0 ELSE cost

\* The calls of a response are dispatched one after the other; each sees what the
\* ones before it have used.
NetworkReads(n) ==
    /\ Due(n) /\ Len(n) = 1 /\ loop.calls > 0
    /\ \E f \in DOMAIN code, from \in 0..2, to \in 1..3 :
         \E meant \in {{f}, {g \in DOMAIN code : code[g].name = code[f].name}} :
            loop' = [turn |-> loop.turn, calls |-> loop.calls - 1,
                     used |-> loop.used + ReadCost(tree.clusters[n[1]], meant, loop.used, from, to)]
    /\ UNCHANGED <<code, phase, tree, started, result, verdicts>>

\* The model answers, at the latest when it is asked without tools.
NetworkAnswers(n) ==
    /\ Due(n) /\ Len(n) = 1 /\ loop.calls = 0
    /\ \E answer \in SynthesisAnswers : Resolve(n, Merged(answer, n))
    /\ loop' = NoLoop

\* A call of the model that raises ends the review: nothing is written, and
\* what the leaves have found is lost.
CallRaises ==
    /\ \/ phase = "review" /\ InFlight # {}
       \/ phase = "review" /\ loop.calls = 0 /\ \E i \in DOMAIN tree.order : Due(tree.order[i])
       \/ phase = "verify" /\ Len(verdicts) < Len(result[<<>>].findings)
    /\ phase' = "raised"
    /\ UNCHANGED <<code, tree, started, result, loop, verdicts>>

\* A finding is judged on the output of a script the model wrote, or without
\* one; anything but the three words counts as uncertain.  Whether there is a
\* verification at all is an option of the command line.
VerifyFinding ==
    /\ phase = "verify" /\ Len(verdicts) < Len(result[<<>>].findings)
    /\ \E verdict \in {"confirmed", "refuted", "uncertain"} : verdicts' = Append(verdicts, verdict)
    /\ UNCHANGED <<code, phase, tree, started, result, loop>>

\* Without verification, or with all findings judged.
WriteReport ==
    /\ phase = "verify" /\ Len(verdicts) \in {0, Len(result[<<>>].findings)}
    /\ phase' = "reported"
    /\ UNCHANGED <<code, tree, started, result, loop, verdicts>>

\* The report: the root's findings that were not refuted, those that were, and
\* the nodes that dropped one, with their reasons.
Refuted == {KeyOf[result[<<>>].findings[i]] : i \in {j \in DOMAIN verdicts : verdicts[j] = "refuted"}}

Reported ==
    LET all == result[<<>>].findings
    IN  {KeyOf[all[i]] : i \in {j \in DOMAIN all : verdicts = <<>> \/ verdicts[j] # "refuted"}}

Pruning(k) == {n \in DOMAIN result : k \in result[n].dropped}

Done == phase \in {"reported", "raised"} /\ UNCHANGED vars

Step ==
    \/ Prepare \/ ReadFails \/ StartLeaf
    \/ \E n \in LeafIds : LeafAnswered(n)
    \/ \E n \in ToSet(tree.order) : \/ Synthesize(n) \/ SkipFile(n) \/ ValidateFile(n)
                                    \/ NetworkAsks(n) \/ NetworkReads(n) \/ NetworkAnswers(n)
    \/ CallRaises \/ VerifyFinding \/ WriteReport

Next == Step \/ Done

\* Every call of the model returns or raises.
Spec == Init /\ [][Next]_vars /\ WF_vars(Step)

-----------------------------------------------------------------------------
(* Properties of the review.                                               *)

\* Every variable keeps its type, no more leaves than admitted are with the
\* model at once, and a cluster reads no more than its budgets allow.
ReviewTypeOK ==
    /\ code \in Codebases
    /\ phase \in {"start", "review", "verify", "reported", "raised"}
    /\ DOMAIN result \subseteq ToSet(tree.nodes)
    /\ \A n \in DOMAIN result : result[n] \in NodeResult
    /\ started \in 0..Len(tree.leaves) /\ Cardinality(InFlight) <= Concurrency
    /\ loop.turn \in 0..MaxTurns /\ loop.calls \in 0..MaxCalls /\ loop.used \in 0..NetworkBudget
    /\ \A i \in DOMAIN verdicts : verdicts[i] \in {"confirmed", "refuted", "uncertain"}

\* What a leaf found is in the report, or was refuted there, or a node above the
\* leaf said that it drops it: no omission anywhere on the way loses it,
\* whatever was truncated, skipped or listed in part (_merge_child_findings).
NothingLost ==
    phase = "reported" =>
        \A leaf \in LeafIds : \A k \in KeysOf(result[leaf].findings) :
            k \in Reported \cup Refuted \/ Above(leaf) \cap Pruning(k) # {}

\* A review comes to its end, whatever the model answers: with a report, or
\* with the exception of a call.
ReviewEnds == <>(phase \in {"reported", "raised"})

-----------------------------------------------------------------------------
(* Properties of the cutting, over every codebase and small inputs.        *)

Nos(lines) == {lines[i].no : i \in DOMAIN lines}

\* What the lines with a number cost together.
Share(lines, no) == Scan(LAMBDA sum, line : IF line.no = no THEN sum + line.cost ELSE sum, 0, lines)

\* Cut by lines, a text keeps every character in its place, every part fits the
\* budget, and the line numbers of a part are the ones it holds
\* (_split_chunk_by_lines, _split_oversized_line).
SplitSound(chunk, budget) ==
    LET parts == LineGroups(chunk, budget)
        text  == FlattenSeq([i \in DOMAIN parts |-> parts[i].lines])
    IN  /\ \A i \in DOMAIN parts : /\ Cost(parts[i].lines) <= budget
                                   /\ Nos(parts[i].lines) = parts[i].from..parts[i].to
        /\ \A i, j \in DOMAIN text : i < j => text[i].no <= text[j].no
        /\ \A line \in ToSet(chunk.lines) : Share(text, line.no) = line.cost

SplitsSound ==
    \A costs \in BoundedSeq(0..5, 3), budget \in 1..4 :
        SplitSound(Chunk(7, 6 + Len(costs), [i \in DOMAIN costs |-> [no |-> 6 + i, cost |-> costs[i]]]),
                   budget)

\* Every line of text of a file is background or in exactly one unit.  The lines of a
\* unit are in its leaves, but for what an oversized class holds beside its methods,
\* which _split_oversized_unit drops; and no leaf over the budget can be cut again.
CutOf(file) ==
    LET cut == FileUnits(file) IN
    /\ \A i \in DOMAIN file.lines : file.lines[i].cost > 0 =>
          i \in Nos(cut.header.lines) \/ \E u \in ToSet(cut.units) : i \in Nos(u.chunk.lines)
    /\ \A i, j \in DOMAIN cut.units : i # j =>
          Nos(cut.units[i].chunk.lines) \cap Nos(cut.units[j].chunk.lines) = {}
    /\ \A unit \in ToSet(cut.units), budget \in 1..LeafBudget :
          LET leaves  == Leaves(unit, cut.header, budget)
              held    == UNION {Nos(leaf.chunk.lines) : leaf \in ToSet(leaves)}
              methods == Definitions(Blocks(unit.chunk, unit.body))
          IN
          /\ \A leaf \in ToSet(leaves) :
                IsAtom(leaf, cut.header, budget) \/ Len(SplitUnit(leaf, budget)) <= 1
          /\ \A no \in Nos(unit.chunk.lines) \ held :
                /\ ~IsAtom(unit, cut.header, budget) /\ methods # <<>>
                /\ \A method \in ToSet(methods) : no \notin Nos(method.chunk.lines)

\* The files under review are cut as CutOf says, and small texts by lines as SplitSound
\* says: the one kind of text that reaches no leaf is the class-level statements beside
\* the methods of an oversized class (_extract_file_units, _split_oversized_unit and its
\* line 1045, _split_chunk_by_lines).
CutSound == phase = "start" => SplitsSound /\ \A i \in DOMAIN code : CutOf(code[i])

\* A prompt keeps to its budget: a leaf with its background and signatures,
\* unless it could not be cut any further, and a file with its contracts
\* (_assemble_connected_context, _execute_file_node).
PromptsFit ==
    phase = "start" =>
        /\ \A i \in DOMAIN tree.leaves :
             LET leaf == tree.leaves[i]
                 used == LeafContext(leaf.unit, leaf.header, tree.units, LeafBudget).used
             IN  IF IsAtom(leaf.unit, leaf.header, LeafBudget)
                 THEN Cost(leaf.unit.chunk.lines) + Cost(leaf.header.lines) + used <= LeafBudget
                 ELSE used = 0 /\ Len(SplitUnit(leaf.unit, LeafBudget)) <= 1
        /\ \A f \in DOMAIN code :
             LET left == FileBudget - Cost(code[f].lines)
                 refs == FileContext(f, tree.units, left).refs
             IN  left >= 0 => SumFunction([r \in refs |-> tree.units[r.unit].signature]) <= left

\* The clusters are a partition of the files into sets that are small enough,
\* and no two of them that call each other could still be merged; the heaviest
\* pair of files is in one cluster (cluster_files).  A theorem, of any files and weights.
ClusteringSound(files, weight, max) ==
    LET cs    == Clusters(files, weight, max)
        pairs == {p \in SUBSET files : Cardinality(p) = 2}
    IN  /\ UNION cs = files /\ \A C, D \in cs : C = D \/ C \cap D = {}
        /\ \A C \in cs : Cardinality(C) \in 1..(IF max > 1 THEN max ELSE 1)
        /\ \A C, D \in cs : C # D =>
              Cardinality(C \cup D) > max \/ \A a \in C, b \in D : weight[{a, b}] = 0
        /\ \A heavy \in pairs :
              /\ max > 1 /\ weight[heavy] > 0
              /\ \A p \in pairs \ {heavy} : weight[p] < weight[heavy]
              => \E C \in cs : heavy \subseteq C
=============================================================================
