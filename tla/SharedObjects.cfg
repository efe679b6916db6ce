CONSTANTS
    minValue = 2
    maxValue = 4
    Callers = {c1, c2}
    NoCaller = NoCaller
    size = 1
    Senders = {s1, s2, s3}
    Closers = {k1, k2}
    Receiver = r
    MaxSends = 1
    None = None
    States <- MCStates
    Events <- MCEvents
    Configs <- MCConfigs
    initState = "A"
    Goroutines = {g1, g2, g3}
    NoOne = NoOne
    Serialised = TRUE
    ReentryAt = {"entry"}
    MaxDepth = 3
SPECIFICATION SharedSpec
INVARIANTS UniqueIDs UsedIsHeld NoPanic AllReceived Paired
PROPERTIES FailsOnlyWhenFull ReusedOnlyAfterWrap CallsReturn CloseReturns SendReturns FollowsTransitions
