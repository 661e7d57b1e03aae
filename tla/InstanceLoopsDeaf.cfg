SPECIFICATION Spec
CONSTANTS
    Caller = {c1}
    Kind = {"route", "beat"}
    Dynamic = FALSE
    Overlap = FALSE
    MaxLoops = 6
    MaxShutdowns = 2
INVARIANT RestartRuns
CHECK_DEADLOCK FALSE
