---------------------------- MODULE MCReviewTree ----------------------------
(***************************************************************************)
(* Small codebases and answers for ReviewTree.                             *)
(***************************************************************************)
EXTENDS ReviewTree

Lines(costs) == [i \in DOMAIN costs |-> [no |-> i, cost |-> costs[i]]]

Code(last) == [def |-> FALSE, last |-> last]
Def(name, last, bodyLine, calls) ==
    [def |-> TRUE, last |-> last, name |-> name, bodyLine |-> bodyLine, body |-> <<>>,
     calls |-> calls, doc |-> 0]
Class(name, last, bodyLine, body) == [Def(name, last, bodyLine, {}) EXCEPT !.body = body, !.doc = 1]

File(path, name, costs, body) ==
    [path |-> path, name |-> name, parses |-> TRUE, lines |-> Lines(costs), body |-> body]

\* An import and a function that calls g; the function g between two constants.
Caller(path) == File(path, "x.py", <<1, 0, 1, 1>>, <<Code(1), Def("f", 4, 3, {"g"})>>)
Callee(path) ==
    File(path, "x.py", <<1, 1, 1, 1>>, <<Code(1), [Def("g", 3, 2, {}) EXCEPT !.doc = 4]>>)
Alone(path) == File(path, "y.py", <<1, 2>>, <<Def("h", 2, 2, {"h"})>>)

\* A class over the leaf's budget below an import: two methods and a constant.
Oversized(path) ==
    File(path, "c.py", <<1, 0, 1, 2, 2, 1, 2, 2>>,
         <<Code(1), Class("C", 8, 3, <<Def("m", 4, 4, {}), Code(5), Def("n", 7, 6, {"C"})>>)>>)

\* A class whose only method is over the budget, at the top of a long file.
OneMethod(path) ==
    File(path, "c.py", <<1, 4, 4, 1>>, <<Class("C", 3, 2, <<Def("m", 3, 3, {})>>)>>)

Broken(path) == [File(path, "z.py", <<3, 7, 1>>, <<>>) EXCEPT !.parses = FALSE]
Empty(path) == File(path, "e.py", <<0>>, <<>>)
Constants(path) == File(path, "k.py", <<1, 0, 1>>, <<Code(1), Code(3)>>)

MCCodebases ==
    {<<Caller(1), Callee(2)>>, <<Caller(1), Alone(2)>>, <<Oversized(1)>>, <<OneMethod(1)>>,
     <<Broken(1)>>, <<Empty(1)>>, <<Constants(1)>>}

Answer(findings, dropped) == [findings |-> findings, dropped |-> dropped, truncated |-> FALSE]
Truncated == [Answer(<<>>, {}) EXCEPT !.truncated = TRUE]

MCFindings == {"a", "A", "b"}
MCKeyOf == [f \in MCFindings |-> IF f = "b" THEN "b" ELSE "a"]
MCLeafAnswers == {Answer(<<"a">>, {}), Answer(<<"A", "junk", "b">>, {}), Truncated}
MCSynthesisAnswers == {Answer(<<>>, {}), Answer(<<"A">>, {}), Answer(<<"b">>, {"a", "junk"}), Truncated}
=============================================================================
