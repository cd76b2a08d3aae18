\* A run of one case and two sockets of its user.
CONSTANTS
    r1 = r1
    alice = alice  bob = bob
    k1 = k1  k2 = k2  k3 = k3
    c1 = c1  c2 = c2
    Runs = {r1}
    TestOnly = {}
    Cases = {c1}
    Visible = {}
    Users = {alice, bob}
    NoUser = NoUser
    Sockets = {k1, k2}
    UserOf <- MCUserOf
    NoSocket = NoSocket
    Submitter <- MCSubmitter
SPECIFICATION LiveSpec
PROPERTIES SenderEnds UnlistedSocketEnds ConnectedUserHears
CHECK_DEADLOCK FALSE
