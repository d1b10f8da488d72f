CONSTANTS
    MaxSends      <- MC_MaxSends
    MaxRcpts      <- MC_MaxRcpts
    MaxChallenges <- MC_MaxChallenges
    MechSteps     <- MC_MechSteps
    MaxFaults     <- MC_MaxFaults

SPECIFICATION Spec

INVARIANT TypeOK
INVARIANT OkMeansAccepted
INVARIANT BodyOnlyInDataMode
 
INVARIANT SessionInSync
INVARIANT UnreportedDeliveryBreaks

PROPERTY OperationsReturn
PROPERTY RefinesLifeCycle
