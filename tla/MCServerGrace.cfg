CONSTANTS
    Con = {c1}
    Block = 1
    HTTP_LINGER_TIMEOUT = 0
    max_read_idle = 0
    max_write_idle = 0
    max_keep_alive_idle = 1
    max_keep_alive_requests = 0
    stream_request_body = TRUE
    stream_response_body = TRUE
    reconnects = 1
    error_handler = "none"
    TempfileFails = FALSE
    Requests = {"plain"}
    Pipelined = {"none"}
    ReadResults = {"short"}
    WriteResults = {"done", "partial"}
    Handling = {"file"}
    max_conns = 1
    max_fds = 10
    ReservedFds = 5
    AcceptLoops = 1
    Hangups = {}
    AcceptFails = FALSE
    MaxFdWait = 1
    Signals = {"INT"}
SPECIFICATION Spec
PROPERTIES GracefulClosesSockets
CHECK_DEADLOCK FALSE
