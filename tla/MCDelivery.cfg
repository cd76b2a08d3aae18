\* A run of two cases, two sockets of its user and one of a leaderboard.
CONSTANTS
    r1 = r1
    alice = alice  bob = bob
    k1 = k1  k2 = k2  k3 = k3
    c1 = c1  c2 = c2
    Runs = {r1}
    TestOnly = {}
    Cases = {c1, c2}
    Visible = {}
    Users = {alice, bob}
    NoUser = NoUser
    Sockets = {k1, k2, k3}
    UserOf <- MCUserOf
    NoSocket = NoSocket
    Submitter <- MCSubmitter
SPECIFICATION Spec
INVARIANTS
    TypeOK RightUser TableIsCurrent ToldInOrder ResultsAccounted ClosingIsTrue
CHECK_DEADLOCK FALSE
