CONSTANTS
    Codes    <- MC_Codes
    Texts    <- MC_Texts
    MaxCmds  <- MC_MaxCmds
    MaxConns <- MC_MaxConns
    MaxDrops <- MC_MaxDrops

SPECIFICATION Spec

INVARIANT TypeOK
INVARIANT InSyncUntilFault
PROPERTY OperationsReturn
