CONSTANTS
    MaxSends      <- MC_MaxSends
    MaxRcpts      <- MC_MaxRcpts
    MaxChallenges <- MC_MaxChallenges
    MechSteps     <- MC_MechSteps
    MaxFaults     <- MC_MaxFaults

SPECIFICATION Spec

PROPERTY NegativeReplyKeepsSession
