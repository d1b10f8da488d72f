CONSTANTS
    rsaPem = rsaPem
    edKey  = edKey
    junk   = junk
    None   = None
    KeyStrings <- MC_KeyStrings
    Holds      <- MC_Holds
    MaxCalls   <- MC_MaxCalls

SPECIFICATION Spec
INVARIANT AlgorithmTagMatchesKey
CHECK_DEADLOCK FALSE
