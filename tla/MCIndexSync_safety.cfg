SPECIFICATION FairSpec
CONSTANTS
    allTime = allTime
    day1 = day1
    day2 = day2
    alice = alice
    bob = bob
    s1 = s1
    w1 = w1
    w2 = w2
    Boards <- ThreeBoards
    Fanouts <- TwoDays
    Windowed <- Days
    Users = {alice}
    Scores = {1, 2}
    Submitters = {s1}
    Sweepers = {w1, w2}
    BatchSize = 2
    MaxFaults = 1
CHECK_DEADLOCK FALSE
INVARIANTS
    TypeOK
    IndexNeverAhead
    NoStandingForgotten
    ClaimsHold
    KeysExpireUnlessFaulted
PROPERTIES
    DeliveredMeansShown
    IndexNeverRegresses
    ServedBoardSpec
    Converges
