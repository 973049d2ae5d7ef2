CONSTANTS
    Con = {c1, c2}
    Nil = Nil
    NumHosts = 2
    Local = {1}
    max_procs = 1
    disable_time = 1
    MaxReconnects = 1
    SizeT = 3
    Spawned = {"started", "failed"}
    MaxActive = 1
    ScgiHosts = 1
    ScgiLocals = {{1}, {}}
    ScgiProcs = 2
    MaxHostLoad = 1
    ScgiSpawned = {"started", "failed"}
    ScgiMaxActive = 2
SPECIFICATION BackendsSpec
SYMMETRY Symmetry
CONSTRAINT NotOverdrawn
INVARIANTS FcgiInv ScgiInv
PROPERTY ProcessesSpared
