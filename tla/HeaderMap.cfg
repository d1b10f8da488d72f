CONSTANTS
    Spellings  <- MC_Spellings
    Key        <- MC_Key
    TypedNames <- MC_TypedNames
    Values     = {a, b, bad}
    Parses     = {a, b}
    None       = None
    MaxHeaders <- MC_MaxHeaders

SPECIFICATION Spec

INVARIANT TypeOK
PROPERTY RefinesHeaderMap
