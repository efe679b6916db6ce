CONSTANTS
    States <- MCStates
    Events <- MCEvents
    Configs <- MCConfigs
    initState = "A"
    Goroutines = {g1, g2}
    NoOne = NoOne
    Serialised = FALSE
    ReentryAt = {}
    MaxDepth = 1
SPECIFICATION SpecFSM
PROPERTIES FollowsTransitions
