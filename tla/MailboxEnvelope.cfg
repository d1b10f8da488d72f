CONSTANTS
    NameChars <- MC_NameChars
    MaxName <- MC_MaxName
    Addrs <- MC_Addrs
    MaxBoxes <- MC_MaxBoxes
SPECIFICATION Spec
INVARIANT TypeOK
INVARIANT ReadBackMatchesEnvelope
