SPECIFICATION Spec
CONSTANTS
    MaxOff = 3
    Unwanted = {}
    PullBatch = 3
    ConsumeBatch = 2
    Threshold = 3
    MaxChurn = 1
    Fault = {"back"}
INVARIANTS NoSkip
