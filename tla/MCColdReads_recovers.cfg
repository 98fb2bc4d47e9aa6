SPECIFICATION FairSpec
CONSTANTS
    alice = alice
    bob = bob
    q1 = q1
    i1 = i1
    admin = admin
    Users = {alice, bob}
    Instances = {i1}
    Home <- AllOnOne
    Scores = {1}
    Submissions <- EveryoneOnce
    Readers = {q1}
    Admins = {}
    MaxLosses = 1
    MaxErrors = 0
PROPERTIES
    IndexRecovers
