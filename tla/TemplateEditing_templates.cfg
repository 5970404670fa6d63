\* Any number of requests and jobs, two at a time, on two variables.
SPECIFICATION Spec
CONSTANTS
    Vars = {a, b}
    Parents = {a}
    Suggested <- Automatic
    Virtuals <- ParentOnly
    Requests = {r1, r2}
    Api <- Everything
    NoVar = NoVar
    Absent = Absent
    NoSpec = NoSpec
INVARIANTS
    PublishedIsValid
    DocumentMatchesFields
    
PROPERTIES
    WorkIsSacred
    DeletedIsFrozen
SYMMETRY Symmetry
CHECK_DEADLOCK FALSE
