----------------------------- MODULE ReviewChunks -----------------------------
(***************************************************************************)
(* How review_tree.py and review_network.py cut the files under review:    *)
(* into units (functions and classes), oversized units into pieces, and    *)
(* the files into clusters; and which related signatures fit a prompt.     *)
(*                                                                         *)
(* A line is its number and its cost in tokens; a line of cost 0 is blank. *)
(* Costs add up.  A file is a sequence of lines and, when it parses, the   *)
(* statements at its top level: where each ends and, of a definition, its  *)
(* name, the calls in it and, of a class, its body.  Line numbers in a     *)
(* body count from the first line of the chunk it was parsed from.         *)
(***************************************************************************)
EXTENDS Integers, Sequences, FiniteSets, Positions, SequencesExt

\* A line, by its number in the file.
Line == [no : Nat, cost : Nat]

\* The lines from..to of a file.  The text may hold more than those lines: the
\* pieces of a class carry its header in front.
Chunk(from, to, lines) == [from |-> from, to |-> to, lines |-> lines]

Cost(lines) == Scan(LAMBDA sum, line : sum + line.cost, 0, lines)

Blank(lines) == \A i \in DOMAIN lines : lines[i].cost = 0

-----------------------------------------------------------------------------
(* Splitting text.                                                         *)

\* A line over the budget is halved until every part fits or is one character
\* long.  One character is one token here.
HalvedLine(line, budget) ==
    LET parts[n \in 0..line.cost] ==
            IF n <= budget \/ n \div 2 = 0 THEN <<n>>
            ELSE parts[n \div 2] \o parts[n - n \div 2]
    IN  [i \in DOMAIN parts[line.cost] |-> <<[line EXCEPT !.cost = parts[line.cost][i]]>>]

\* Lines are collected while they fit; a line that fits nowhere is halved.
LineGroups(chunk, budget) ==
    LET Close(acc) == IF acc.open = <<>> THEN acc.groups
                      ELSE Append(acc.groups, Chunk(acc.start, acc.at - 1, acc.open))
        Halves(acc, line) == LET parts == HalvedLine(line, budget)
                             IN  [i \in DOMAIN parts |-> Chunk(acc.at, acc.at, parts[i])]
        Add(acc, line) ==
            IF line.cost > budget
            THEN [groups |-> Close(acc) \o Halves(acc, line), open |-> <<>>,
                  start |-> acc.at + 1, at |-> acc.at + 1]
            ELSE IF acc.open # <<>> /\ Cost(acc.open) + line.cost > budget
            THEN [groups |-> Close(acc), open |-> <<line>>, start |-> acc.at, at |-> acc.at + 1]
            ELSE [acc EXCEPT !.open = Append(@, line), !.at = @ + 1]
    IN  Close(Scan(Add, [groups |-> <<>>, open |-> <<>>, start |-> chunk.from, at |-> chunk.from],
                       chunk.lines))

\* Where the i-th statement ends; nothing is before the first.
End(body, i) == IF i = 0 THEN 0 ELSE body[i].last

\* Statements of a text of so many lines, in their order.  Two of them may share a line.
Statements(body, lines) ==
    /\ body \in Seq(ToSet(body))
    /\ \A i \in DOMAIN body : /\ body[i].def \in BOOLEAN /\ body[i].last \in 0..lines
                             /\ End(body, i - 1) <= End(body, i)

\* What a file may be: its lines are numbered, its statements are in its text, and
\* those of a class in the part of it that is the class.
Source(file) ==
    /\ file.lines \in Seq(Line) /\ \A i \in DOMAIN file.lines : file.lines[i].no = i
    /\ file.parses \in BOOLEAN
    /\ file.parses =>
          /\ Statements(file.body, Len(file.lines))
          /\ \A i \in DOMAIN file.body : file.body[i].def =>
                /\ file.body[i].bodyLine \in Nat /\ file.body[i].doc \in Nat
                /\ Statements(file.body[i].body, End(file.body, i) - End(file.body, i - 1))

Slice(chunk, a, b) == Chunk(chunk.from + a, chunk.from + b - 1, SubSeq(chunk.lines, a + 1, b))

\* Slip: what follows the last statement is left out.
BlocksOfStatements(chunk, body) ==
    [i \in DOMAIN body |->
        [stmt |-> body[i], chunk |-> Slice(chunk, End(body, i - 1), End(body, i))]]

\* One block for each statement, from the end of the one before, and one for
\* what is left after the last.
Blocks(chunk, body) ==
    LET last == End(body, Len(body))
        all  == Len(chunk.lines)
    IN  [i \in DOMAIN body |->
            [stmt |-> body[i], chunk |-> Slice(chunk, End(body, i - 1), End(body, i))]]
        \o IF last = all THEN <<>>
           ELSE <<[stmt |-> [def |-> FALSE], chunk |-> Slice(chunk, last, all)]>>

Definitions(blocks) == Picked(blocks, {i \in DOMAIN blocks : blocks[i].stmt.def})

\* The lines in front of the body, whose first line is bodyLine; at least one.
SignatureOf(chunk, bodyLine) ==
    LET end == IF bodyLine - chunk.from > 1 THEN bodyLine - chunk.from ELSE 1
    IN  IF end <= Len(chunk.lines) THEN SubSeq(chunk.lines, 1, end) ELSE chunk.lines

-----------------------------------------------------------------------------
(* Units.                                                                  *)

NoChunk == Chunk(0, 0, <<>>)

\* A unit of a definition.  The body's line was parsed from the whole file, as
\* was the chunk's: both count from the top of the file.
MakeUnit(path, block) ==
    LET stmt == block.stmt IN
    [path |-> path, name |-> <<stmt.name>>, chunk |-> block.chunk, body |-> stmt.body,
     bodyLine |-> stmt.bodyLine, calls |-> stmt.calls,
     signature |-> Cost(SignatureOf(block.chunk, block.chunk.from + stmt.bodyLine - 1)) + stmt.doc,
     doc |-> stmt.doc]

\* The module-level code is background, each definition a unit; a file without
\* any is one unit, and one without text has none.
FileUnits(file) ==
    LET whole  == Chunk(1, Len(file.lines), file.lines)
        blocks == IF file.parses THEN Blocks(whole, file.body) ELSE <<>>
        kept   == Picked(blocks, {i \in DOMAIN blocks :
                                    ~blocks[i].stmt.def /\ ~Blank(blocks[i].chunk.lines)})
        header == IF kept = <<>> THEN NoChunk
                  ELSE Chunk(kept[1].chunk.from, kept[Len(kept)].chunk.to,
                             FlattenSeq([i \in DOMAIN kept |-> kept[i].chunk.lines]))
        defs   == Definitions(blocks)
        text   == IF header # NoChunk THEN header ELSE whole
    IN  IF defs # <<>>
        THEN [header |-> header, units |-> [i \in DOMAIN defs |-> MakeUnit(file.path, defs[i])]]
        ELSE IF Blank(text.lines) THEN [header |-> NoChunk, units |-> <<>>]
        ELSE [header |-> NoChunk,
              units |-> <<[path |-> file.path, name |-> <<file.name>>, chunk |-> text, body |-> <<>>,
                           bodyLine |-> 0, calls |-> {}, signature |-> 0, doc |-> 0]>>]

IsAtom(unit, header, budget) == Cost(unit.chunk.lines) + Cost(header.lines) <= budget

WrapAsUnits(parent, chunks) ==
    [i \in DOMAIN chunks |-> [parent EXCEPT !.name = Append(@, i), !.chunk = chunks[i], !.body = <<>>]]

\* A class becomes one piece for each method, with the class's header and
\* docstring in front; anything else, and a method that is still too large, is
\* cut by lines.  Here the body was parsed from the class's own text, so that
\* its lines count from the chunk's top and not from the file's.
SplitUnit(unit, budget) ==
    LET byLines == WrapAsUnits(unit, LineGroups(unit.chunk, budget))
        prefix  == SignatureOf(unit.chunk, unit.bodyLine) \o <<[no |-> 0, cost |-> unit.doc]>>
        Piece(block) ==
            [unit EXCEPT !.name = Append(@, block.stmt.name), !.body = <<>>, !.calls = block.stmt.calls,
                         !.chunk = [block.chunk EXCEPT !.lines = prefix \o @]]
        Pieces(block) ==
            IF Cost(Piece(block).chunk.lines) > budget
            THEN WrapAsUnits(Piece(block), LineGroups(block.chunk, budget))
            ELSE <<Piece(block)>>
        methods == Definitions(Blocks(unit.chunk, unit.body))
        pieces  == FlattenSeq([i \in DOMAIN methods |-> Pieces(methods[i])])
    IN  IF unit.body # <<>> /\ pieces # <<>> THEN pieces ELSE byLines

\* The leaves below a unit: itself, or its pieces.  The pieces are asked again
\* in the code; SplitOnce says that none of them is split a second time.
Leaves(unit, header, budget) ==
    LET pieces == SplitUnit(unit, budget)
    IN  IF IsAtom(unit, header, budget) \/ Len(pieces) <= 1 THEN <<unit>> ELSE pieces

-----------------------------------------------------------------------------
(* Related signatures.  Units are listed by path and name.                 *)

UnitKey(unit) == <<unit.path, unit.name>>

\* Those the unit calls, then those that call it: each once, and never itself.
Candidates(unit, units) ==
    LET callees == {i \in DOMAIN units : /\ units[i].name[1] \in unit.calls
                                         /\ UnitKey(units[i]) # UnitKey(unit)}
        callers == {i \in DOMAIN units : /\ Len(unit.name) = 1
                                         /\ unit.name[1] \in units[i].calls
                                         /\ UnitKey(units[i]) # UnitKey(unit)}
        First(S) == {i \in S : \A j \in S : j < i => UnitKey(units[j]) # UnitKey(units[i])}
        new == {i \in callers : \A j \in callees : UnitKey(units[j]) # UnitKey(units[i])}
        Listed(S, relation) == Picked([i \in S |-> [unit |-> i, relation |-> relation]], S)
    IN  Listed(First(callees), "callee") \o Listed(First(new), "caller")

\* As many as fit; one that does not fit does not keep a later one out.
ConnectedContext(unit, units, budget) ==
    Scan(LAMBDA acc, ref :
                LET cost == units[ref.unit].signature IN
                IF acc.used + cost > budget THEN [acc EXCEPT !.omitted = @ + 1]
                ELSE [acc EXCEPT !.refs = Append(@, ref), !.used = @ + cost],
             [refs |-> <<>>, used |-> 0, omitted |-> 0], Candidates(unit, units))

\* Slip: the background is not counted.
LeafContextUncounted(unit, header, units, budget) ==
    LET left == budget - Cost(unit.chunk.lines)
    IN  ConnectedContext(unit, units, IF left > 0 THEN left ELSE 0)

\* What is left of the leaf's budget for signatures.
LeafContext(unit, header, units, budget) ==
    LET left == budget - Cost(unit.chunk.lines) - Cost(header.lines)
    IN  ConnectedContext(unit, units, IF left > 0 THEN left ELSE 0)

\* The contracts shown with a whole file: those of its units that lie outside.
\* References within the file take part in the choice and are then left out.
FileContext(path, units, budget) ==
    LET Take(acc, unit) ==
            Scan(LAMBDA a, ref :
                        IF units[ref.unit].path = path \/ ref \in a.refs THEN a
                        ELSE [refs |-> a.refs \cup {ref}, left |-> a.left - units[ref.unit].signature],
                     acc, ConnectedContext(unit, units, IF acc.left > 0 THEN acc.left ELSE 0).refs)
    IN  Scan(Take, [refs |-> {}, left |-> budget],
                 Picked(units, {i \in DOMAIN units : units[i].path = path}))

-----------------------------------------------------------------------------
(* Clusters.  Files are 1..n in the order of their paths.                  *)

\* How often units of the one file call what the other defines.
EdgeWeight(units, a, b) ==
    LET Calls(p, q) == {e \in (DOMAIN units) \X (DOMAIN units) :
                            /\ units[e[1]].path = p /\ units[e[2]].path = q
                            /\ units[e[2]].name[1] \in units[e[1]].calls}
    IN  Cardinality(Calls(a, b)) + Cardinality(Calls(b, a))

\* The lexicographic order of the sorted members of two sets of files.
Precedes(S, T) ==
    LET s == Picked([f \in S |-> f], S)
        t == Picked([f \in T |-> f], T)
    IN  \E k \in DOMAIN t : /\ \A i \in 1..(k - 1) : i <= Len(s) /\ s[i] = t[i]
                            /\ k > Len(s) \/ s[k] < t[k]

MayMerge(C, D, max) == C # D /\ Cardinality(C) + Cardinality(D) <= max

Between(p, weight) == SumFunction([e \in p[1] \X p[2] |-> weight[{e[1], e[2]}]])

\* The two clusters with the most calls between them are merged if the result is small
\* enough; of equals, those whose files come first.
MergeClosest(cs, weight, max) ==
    LET close == {p \in cs \X cs : MayMerge(p[1], p[2], max) /\ Between(p, weight) > 0}
        best  == {p \in close : \A q \in close :
                     \/ Between(q, weight) < Between(p, weight)
                     \/ /\ Between(q, weight) = Between(p, weight)
                        /\ ~Precedes(q[1] \cup q[2], p[1] \cup p[2])}
        pair  == CHOOSE p \in best : TRUE
    IN  IF best = {} THEN cs ELSE (cs \ {pair[1], pair[2]}) \cup {pair[1] \cup pair[2]}

\* As long as there is a pair to merge: every merge leaves one cluster less.
Clusters(files, weight, max) ==
    LET after[n \in 0..Cardinality(files)] ==
            IF n = 0 THEN {{f} : f \in files} ELSE MergeClosest(after[n - 1], weight, max)
    IN  after[Cardinality(files)]
=============================================================================
