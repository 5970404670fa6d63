\* Every spec of four fields, valid or not, with every set of picks.
SPECIFICATION Spec
CONSTANTS
    N = 4
    MaxDeps = 1
    MaxHops = 4
    Outcomes <- Answered
    Asking <- Extractors
INVARIANTS
    ParentsFirst
    ExtractorsSeePicks
    NothingLeftOut
    NothingDerivableLeft
    GateAcceptsRanked
PROPERTIES
    RunEnds
CHECK_DEADLOCK FALSE
