SPECIFICATION Spec
CONSTANTS
    o = o
    a = a
    b = b
    r1 = r1
    r2 = r2
    Users <- OwnerAndTwo
    Owner = o
    Requests <- TwoRequests
    Operators = TRUE
    MaxRequests = 3
CHECK_DEADLOCK FALSE
SYMMETRY Interchangeable
INVARIANTS
    TypeOK
    OwnerKeepsAdmin
    OnePendingInvitation
PROPERTIES
    OnlyRacesTakeTheLastAdmin
    OnlyRacesUndoAcceptance
