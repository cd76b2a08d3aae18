\* A task that waits for a user, who connects.
CONSTANTS
    alice = alice  bob = bob
    k1 = k1  k2 = k2
    w1 = w1
    Users = {alice, bob}
    NoUser = NoUser
    Sockets = {k1, k2}
    UserOf <- MCUserOf
    Waiters = {w1}
    WaitsFor <- MCWaitsFor
    NoSocket = NoSocket
SPECIFICATION Spec
PROPERTY TimeoutMeansAbsent
