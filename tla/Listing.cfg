SPECIFICATION Spec
CONSTANTS
    MaxAlternatives = 3
    Keys <- MCKeys
    Patterns <- MCPatterns
    Matches <- MCMatches
    WholeKb <- MCWholeKb
    LiteralFirst <- MCLiteralFirst
    None <- MCNone
    FirstSegment <- MCFirstSegment
    Internal <- MCInternal
    Rank <- MCRank
    Reserved <- MCReserved
    Policies <- MCPolicies
    Principals <- MCPrincipals
    Folders <- MCFolders
    Limits <- MCLimits
    Objects <- MCObjects
    ScanPage = 2
    MaxCalls = 2
    BrowseMax = 3
    DavMaxEntries = 3
    DavMaxScanned = 4
    MaxChanges = 1
INVARIANTS ListingsAreHonest ShortcutsAreSound
CHECK_DEADLOCK FALSE
