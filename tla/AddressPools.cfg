CONSTANTS
    first = 1
    last = 5
    Ranges <- MCRanges
    Dynamic = dyn
    Static = static
    Pools = {dyn, static}
    Sessions = {s1, s2, s3}
    CIDRs <- MCCIDRs
SPECIFICATION AddressPoolsSpec
SYMMETRY Symmetry
INVARIANTS SegmentsDisjoint NoSharedAddress NothingLost
PROPERTIES ImplementsFreeSet LazyReuse
CHECK_DEADLOCK FALSE
