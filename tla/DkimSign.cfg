CONSTANTS
    BodyChars  <- H_BodyChars
    MaxBody    <- H_MaxBody
    ValueChars <- H_ValueChars
    MaxValue   <- H_MaxValue
    Names      <- MC_Names
    MaxHeaders <- H_MaxHeaders
    MaxSigned  <- H_MaxSigned
    Init       <- MC_Init

SPECIFICATION Spec
INVARIANT HeadersVerify
INVARIANT CrlfBodyMatchesSpec
