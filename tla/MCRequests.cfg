SPECIFICATION RequestsSpec
CONSTANTS
    Contexts = 3
    Comp = {"ip", "url"}
    MaxRewrites = 1
    MaxLoops = 1
    Configs <- PrepareConfigs
    MaxFields = 3
    MaxRequests = 2
    PathLen = 6
    HostLen = 4
    ListLen = 6
    UrlLen = 4
    SsiBuf = 4
    PageLen = 6
    IntBits = 10
    Requires <- AuthRequire
    Accounts <- UserFile
    AuthUsers = {"u", "v", "x"}
    AuthRealms = {"r", "s"}
    AuthPaths <- GuardedPaths
    AuthBackends = {"htdigest", "plain", "htpasswd", "unset"}
    NonceAge = 1
    MaxPasses = 2
    MaxClock = 2
    MaxSize = 2
    MaxPos = 3
    MaxRanges = 2
    SsiVars = {"v"}
    CgiVars = {}
    SsiTimes = {1, 2}
    MaxLeak = 1
    PipeSize = 2
    ExecSizes = {0, 2}
    SsiConfigs <- SsiConfs
    SFile = {"f", "g"}
    SKey = {1, 2}
    MaxFamEvents = 1
    MaxDirVersion = 2
    Engines = {"none", "simple", "fam"}
    ContentLength = 3
    MaxEntered = 4
    TempSize = 2
    BufLimit = 3
    TempDirs = 2
    MaxWrite = 3
    WriteBackends = {"write", "writev"}
    ChunkDirs = {"upload", "response"}
    BUFFER_PIECE_SIZE = 4
    BUFFER_MAX_REUSE_SIZE = 8
    MaxLen = 12
    Keys = {1, 2, 3}
    Types = {"string", "count"}
    GrowBy = 2
    MaxElems = 3
    SplayKeys = {1, 2, 3, 4, 5, 6}
    MaxFd = 2
    Backends = {"select", "poll", "epoll", "kqueue", "devpoll", "port", "libev"}
INVARIANTS
    PreparationSound RequestInv TextCorrect AuthInv SendFileInv SsiInv
    StatInv ChunkInv BufferInv StructuresSound FdeventInv
PROPERTY PreparationSteps
CONSTRAINTS StatBound SsiBound
CHECK_DEADLOCK FALSE
