CONSTANTS
    Alphabet <- MC_Alphabet
    MaxLen   <- MC_MaxLen

SPECIFICATION Spec

INVARIANT NoEarlyEnd
INVARIANT UnstuffingRestoresContent
