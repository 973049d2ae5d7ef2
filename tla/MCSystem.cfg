SPECIFICATION SystemSpec
CONSTANTS
    Peer = {p1, p2}
    Inst = {p1, p2}
    Nobody = Nobody
    SocketKinds = {"tcp", "unix"}
    Slot = {s1, s2, s3}
    max_worker = 2
    MaxHups = 1
    MaxHelpers = 1
    Child = {k1, k2, k3}
    NoPid = NoPid
    MaxSignals = 2
    LWorker = {p1, p2}
    Logs = {1, 2}
    LogKinds = {"file", "pipe", "syslog"}
    MaxEntries = 3
    MaxRotations = 1
    FlushAt = 2
    Con = {c1, c2, c3, c4, c5, c6}
    Block = 2
    DavClient = {p1, p2}
    DavUris <- Uris
    DavStarts <- Starts
    CWorker = {p1, p2}
    MaxVersion = 3
    CRequests <- CompressRequests
    CConfigs <- CompressConfigs
SYMMETRY Symmetry
INVARIANTS DaemonInv WatcherInv OneCurrent LogInv TableInv CompressInv
PROPERTIES ImplementsConnSet DavComplete LockHonoured
CHECK_DEADLOCK FALSE
