SPECIFICATION Spec
CONSTANTS
    s1 = s1
    s2 = s2
    s3 = s3
    p1 = p1
    p2 = p2
    Files = {f1, f2}
    Notes = {n1}
    Clients <- Sessions
    Places = {"US"}
    CommitsFail = TRUE
    MaxCaseRequests = 3
    Records = {r1, r2}
    Controls = {c1}
    Rows = {o1, o2}
    Editors = {e1, e2}
    GivenScores = {50}
    MaxRegisterEdits = 4
    MaxIncidents = 4
    MaxRecords = 3
    MaxUsers = 6
    People <- Two
    Nobody = nobody
    SeedAdmin = p1
    MaxChanges = 3
CHECK_DEADLOCK FALSE
SYMMETRY Interchangeable
INVARIANTS
    TypeOK
    NothingOutlivesTheCase
    AnswersAreOnRecord
    BoardNeverOvercounts
    PagesAgree
    HistoryHolds
PROPERTIES
    ControlsStayAsTheyAre
    OnlyStaleEditsSplitRows
