SPECIFICATION Spec
CONSTANTS
    allTime = allTime
    day1 = day1
    day2 = day2
    alice = alice
    bob = bob
    r1 = r1
    r2 = r2
    r3 = r3
    Boards <- ThreeBoards
    Fanouts <- TwoDays
    Users = {alice}
    Scores = {1, 2}
    Names = {"Ayo"}
    Requests = {r1, r2, r3}
    IndexConfigured = TRUE
SYMMETRY RequestSymmetry
CHECK_DEADLOCK FALSE
INVARIANTS
    TypeOK
    CommittedIsDurable
    OneRowPerImprovement
    OutboxTellsStandings
    NoUserWithoutScore
    DatedByItsScore
PROPERTIES
    BestScoreSpec
    ReportsCurrentStanding
    NameNeverErased
