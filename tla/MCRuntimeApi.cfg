CONSTANTS
    r1 = r1
    r2 = r2
    r3 = r3
    c1 = c1
    c2 = c2
    NoOne = NoOne
    Requests = {r1, r2}
    Closers = {c1, c2}
    EarlyCallers = TRUE
SPECIFICATION Spec
INVARIANTS RuntimeTypeOK ClosedMeansTornDown CloseQueuedOnce
CHECK_DEADLOCK FALSE
