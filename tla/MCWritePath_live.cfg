SPECIFICATION FairSpec
CONSTANTS
    allTime = allTime
    day1 = day1
    day2 = day2
    alice = alice
    bob = bob
    r1 = r1
    r2 = r2
    r3 = r3
    Boards <- TwoBoards
    Fanouts <- OneDay
    Users = {alice, bob}
    Scores = {1, 2}
    Names = {}
    Requests = {r1, r2}
    IndexConfigured = TRUE
CHECK_DEADLOCK FALSE
PROPERTIES
    EveryRequestAnswered
    RetirementHolds
