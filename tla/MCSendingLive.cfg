SPECIFICATION LiveSpec
CONSTANTS
    Parts = {"semaphore", "async_one", "retry_routes", "request_reply", "tx_single",
             "trace_restart"}
    Waiter = {1, 2}
    Need <- GreedyNeed
    Capacity = {2, 3}
PROPERTIES
    Served
    CallsEnd
    Resolved
    
CHECK_DEADLOCK FALSE
