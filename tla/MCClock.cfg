SPECIFICATION Spec
CONSTANTS
    q1 = q1  q2 = q2  q3 = q3  u1 = u1  u2 = u2
    Requests = {q1, q2, q3}
    Limit = 1
    EventHandlers = 1
    Webhooks = {u1}
    MaxTime = 3
    MaxRestarts = 1
SYMMETRY Symmetry
INVARIANTS TimeIsPlayed EventsAlternate AiredMatchesEvents EventsAccounted PostedInOrder
CHECK_DEADLOCK FALSE
