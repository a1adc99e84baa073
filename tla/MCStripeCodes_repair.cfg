SPECIFICATION Spec
CONSTANTS
    K = 3
    N = 5
    RaidTypes = {61, 63, 64}
    Strips = 2
    Both = {63, 64}
    Methods <- MCMethods
    MaxWrites = 2
    Env = {}
INVARIANTS
    TypeOK
    AcknowledgedSurvives
    ImageRestoredButRdpQ
    DegradedReadsBack
CHECK_DEADLOCK TRUE
