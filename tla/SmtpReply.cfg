CONSTANTS
    LineCodes <- MC_LineCodes
    Texts     <- MC_Texts
    MaxLines  <- MC_MaxLines

SPECIFICATION Spec

INVARIANT TypeOK
INVARIANT NomMatchesReference
INVARIANT OldNeverReadsPastReply
