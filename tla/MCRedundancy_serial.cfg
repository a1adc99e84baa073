SPECIFICATION Spec
CONSTANTS
    t1 = t1
    t2 = t2
    N = 3
    K = 2
    Rows = 2
    RaidTypes = {1, 4, 5}
    MaxWrites = 2
    MaxBroken = 1
    Threads = {t1}
    Serial = TRUE
    Env = {"break", "command", "crash", "recover"}
INVARIANTS
    TypeOK
    OneFailureTolerated
    ReadsBack
CHECK_DEADLOCK TRUE
