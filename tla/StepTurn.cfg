SPECIFICATION StepSpec
CONSTANTS
    f = f
    g = g
    Files = {f, g}
    Python = {f}
    Deep = {g}
    Steps <- MCSteps
    MaxCalls = 2
INVARIANTS
    StepTypeOK
    NoStepImpossible
PROPERTIES
    ReasoningIsNoWork
CHECK_DEADLOCK FALSE
