\* Three fields that need no pick: a derivation listed before its parent.
SPECIFICATION Spec
CONSTANTS
    N = 3
    MaxDeps = 1
    MaxHops = 3
    Outcomes <- Answered
    Asking <- Extractors
INVARIANTS
    ChainsResolved
CHECK_DEADLOCK FALSE
