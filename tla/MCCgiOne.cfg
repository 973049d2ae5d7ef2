CONSTANTS
    CgiCon = {c1}
    Fd = {f1, f2, f3}
    Pid = {p1, p2}
    CgiNil = CgiNil
    max_keep_alive_requests = 1
    MaxBody = 2
    High = 0
    Low = 1
    Streaming = TRUE
    BufMin = TRUE
    StdinHup = FALSE
    Printed = {"part", "rest", "local"}
SPECIFICATION Spec
SYMMETRY Symmetry
INVARIANTS CgiInv CgiNoLostWakeup IdleOwesNothing
CHECK_DEADLOCK FALSE
