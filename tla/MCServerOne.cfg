CONSTANTS
    Con = {c1}
    Block = 1
    HTTP_LINGER_TIMEOUT = 0
    max_read_idle = 0
    max_write_idle = 0
    max_keep_alive_idle = 1
    max_keep_alive_requests = 1
    stream_request_body = TRUE
    stream_response_body = TRUE
    reconnects = 1
    error_handler = "all"
    TempfileFails = TRUE
    Requests = {"bad", "plain", "body"}
    Pipelined = {"none", "part", "full"}
    ReadResults = {"again", "intr", "error", "eof", "short", "full"}
    WriteResults = {"done", "partial", "limit", "error"}
    Handling = {"file", "status", "404", "error", "backend"}
    max_conns = 1
    max_fds = 10
    ReservedFds = 5
    AcceptLoops = 1
    Hangups = {"HUP", "ERR"}
    AcceptFails = FALSE
    MaxFdWait = 1
    Signals = {"IDLE"}
SPECIFICATION Spec
INVARIANTS ServerInv NoTransientAsleep NoLostWakeup
PROPERTIES ClosedIsFinal ImplementsExchange
CHECK_DEADLOCK FALSE
