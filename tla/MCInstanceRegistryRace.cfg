SPECIFICATION Spec
CONSTANTS
    Facade = {1, 2, 3}
    Kind <- Senders
    MaxInst = 3
    Waits = TRUE
    Overlap = {"others"}
CHECK_DEADLOCK FALSE
INVARIANTS
    InUse
