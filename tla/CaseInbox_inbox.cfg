\* Two cycles over two notices, two members over their rows.
SPECIFICATION Spec
CONSTANTS
    d1 = d1
    d2 = d2
    m1 = m1
    m2 = m2
    n1 = n1
    n2 = n2
    c1 = c1
    Docs = {d1, d2}
    Uploads = {d1}
    Messages = {m1, m2}
    LinksOf <- TwoNotices
    ClientOf <- OneClient
    Reads <- ReadOrMissed
    Numbers = {n1, n2}
    Clients = {c1}
    NoNumber = NoNumber
    NoClient = NoClient
    NoDoc = NoDoc
    NoMessage = NoMessage
    Cycles = {w1, w2}
    Members = {u1, u2}
    MaxRows = 2
    MaxCases = 2
    Budgets <- Runs
INVARIANTS
    OneRowPerPetition
    NoLimbo
    SummonableHasPetition
    FiledHasPetition
PROPERTIES
    SettledIsFinal
    FiledIsFinal
SYMMETRY Symmetry
CHECK_DEADLOCK FALSE
