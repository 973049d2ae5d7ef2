CONSTANTS
    Con = {c1, c2}
    Block = 1
    HTTP_LINGER_TIMEOUT = 0
    max_read_idle = 0
    max_write_idle = 0
    max_keep_alive_idle = 0
    max_keep_alive_requests = 0
    stream_request_body = FALSE
    stream_response_body = FALSE
    reconnects = 0
    error_handler = "none"
    TempfileFails = FALSE
    Requests = {"plain"}
    Pipelined = {"none"}
    ReadResults = {"short"}
    WriteResults = {"done"}
    Handling = {"file", "backend"}
    max_conns = 2
    max_fds = 4
    ReservedFds = 1
    AcceptLoops = 2
    Hangups = {"HUP"}
    AcceptFails = TRUE
    MaxFdWait = 2
    Signals = {"TERM"}
SPECIFICATION Spec
INVARIANTS ServerInv NoLostWakeup
CHECK_DEADLOCK FALSE
SYMMETRY Symmetry
