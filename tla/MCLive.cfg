CONSTANTS
    CgiCon = {c1}
    Fd = {f1, f2}
    Pid = {p1, p2}
    CgiNil = CgiNil
    max_keep_alive_requests = 0
    MaxBody = 1
    High = 0
    Low = 1
    Streaming = TRUE
    BufMin = TRUE
    StdinHup = TRUE
    Printed = {"rest"}
    Con = {c1, c2}
    Nil = Nil
    disable_time = 1
    MaxReconnects = 1
    SizeT = 3
    ProxyHosts = 3
    Pause = 2
    Balances = {"fair", "round-robin", "hash"}
SPECIFICATION LiveSpec
INVARIANT ProxyInv
PROPERTIES HostsServe ScriptsEnd
CHECK_DEADLOCK FALSE
