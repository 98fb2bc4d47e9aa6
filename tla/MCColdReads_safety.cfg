SPECIFICATION FairSpec
CONSTANTS
    alice = alice
    bob = bob
    q1 = q1
    i1 = i1
    admin = admin
    Users = {alice, bob}
    Instances = {i1}
    Home <- AllOnOne
    Scores = {1, 2}
    Submissions <- AliceImproves
    Readers = {q1}
    Admins = {admin}
    MaxLosses = 1
    MaxErrors = 1
INVARIANTS
    EmptyOnlyIfLost
    SettledIsServed
    RebuildCovers
PROPERTIES
    IndexNeverRegresses
    GuardReleased
