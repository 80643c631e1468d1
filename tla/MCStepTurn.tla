----------------------------- MODULE MCStepTurn -----------------------------
(***************************************************************************)
(* Wordings of steps for TLC: f is Python, g is a document that is named   *)
(* with its directory.                                                     *)
(***************************************************************************)
EXTENDS StepTurn

CONSTANTS f, g

Step(sounds, named) == [sounds |-> sounds, named |-> named]

MCSteps ==
    {Step({}, {f}),
     Step({"investigation"}, {}), Step({"investigation"}, {f}), Step({"investigation"}, {f, g}),
     Step({"investigation", "read"}, {f, g}), Step({"investigation", "execution"}, {}),
     Step({"investigation", "change"}, {f}), Step({"investigation", "change", "creation"}, {g}),
     Step({"change"}, {f}), Step({"change", "creation"}, {}), Step({"change", "creation"}, {f}),
     Step({"change", "creation"}, {g}), Step({"change", "execution"}, {f}),
     Step({"execution"}, {}), Step({"execution"}, {f})}
=============================================================================
