CONSTANTS
    Keywords  <- MC_Keywords
    LowerCase <- MC_LowerCase
    MaxLines  <- MC_MaxLines
    MaxWords  <- MC_MaxWords

SPECIFICATION Spec

INVARIANT TypeOK
INVARIANT UpperCaseRepliesMatchSpec
