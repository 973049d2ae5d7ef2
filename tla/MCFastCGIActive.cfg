CONSTANTS
    Con = {c1, c2}
    Nil = Nil
    NumHosts = 1
    Local = {1}
    max_procs = 1
    disable_time = 1
    MaxReconnects = 1
    SizeT = 3
    Spawned = {"started", "listening", "no fork", "failed"}
    MaxActive = 1
SPECIFICATION Spec
INVARIANT ReallyRunning
