SPECIFICATION StepSpec
CONSTANTS
    f = f
    g = g
    Files = {f, g}
    Python = {f}
    Deep = {g}
    Steps <- MCSteps
    MaxCalls = 1
PROPERTIES
    TakenBackIsNotDone
CHECK_DEADLOCK FALSE
