CONSTANTS
    UEs = {"u1", "u2"}
    Locs <- MCLocs
    site_group <- MCsite_group
    Types <- MCTypes
    Bodies <- MCBodies
    MaxBodies = 2
    MaxStarts = 2
    MaxRemovals = 2
SPECIFICATION Spec
INVARIANTS RawFirst TrailIsMoves NoStaleSubscription HandledInOrder OnlyTornLinesLost
PROPERTIES FollowsTheName
CHECK_DEADLOCK FALSE
