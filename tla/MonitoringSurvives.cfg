CONSTANTS
    UEs = {"u1", "u2"}
    Locs <- MCLocs
    site_group <- MCsite_group
    Types <- MCTypes
    Bodies <- MCBodies
    MaxBodies = 0
    MaxStarts = 2
    MaxRemovals = 2
SPECIFICATION Spec
INVARIANTS Survives
CHECK_DEADLOCK FALSE
