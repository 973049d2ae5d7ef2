CONSTANTS
    Worker = {w1, w2}
    Token = {t}
    Quota = 1
    MaxPerSecond = 1
    MaxRequests = 3
    Limits = {FALSE, TRUE}
    MaxInFlight = 2
    MaxRestarts = 1
SPECIFICATION MCLunaSpec
SYMMETRY LunaSymmetry
CONSTRAINT LunaBound
INVARIANT LunaInv
