CONSTANTS
    Clients = {c1, c2}
    Keys <- MCKeys
    folded <- MCfolded
    Fields <- MCFields
    Values <- MCValues
    nested <- MCnested
    dataName = "g"
    pulled <- MCpulled
    Requests <- MCRequests
    MaxCalls = 3
    NF <- MCNF
    Path <- MCPath
    Groups <- MCGroups
    Scheme <- MCScheme
    Load <- MCLoad
    MaxEvents = 3
SPECIFICATION PlatformSpec
INVARIANTS OneDocument EveryRequestAccounted CountedIsRegistered WaitMeansEnded
PROPERTIES PutIsStored PatchChangesWhatItNames Stops
CHECK_DEADLOCK FALSE
