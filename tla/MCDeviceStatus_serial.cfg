CONSTANTS
    N = 4
    K = 2
    RaidTypes = {0, 1, 4, 5, 6, 13, 100, 130, 1000}
    Several = {6, 1000}
    MaxFailed <- MCMaxFailed
    Threads = {t1, t2}
    Serial = TRUE
SPECIFICATION Spec
INVARIANTS TypeOK WritesOnlyWhenHealthy DegradedIsReadable IncapableOnlyBeyondCode
