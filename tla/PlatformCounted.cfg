CONSTANTS
    Clients = {c1, c2}
    Keys <- MCKeys
    folded <- MCfolded
    Fields <- MCFields
    Values <- MCValues
    nested <- MCnested
    dataName = "g"
    pulled <- MCpulled
    Requests <- MCRequests
    MaxCalls = 0
    NF <- MCNF
    Path <- MCPath
    Groups <- MCGroups
    Scheme <- MCScheme
    Load <- MCLoad
    MaxEvents = 2
SPECIFICATION PlatformSpec
INVARIANTS EveryRequestCounted
CHECK_DEADLOCK FALSE
