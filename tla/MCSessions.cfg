SPECIFICATION Spec
CONSTANTS
    h = h  a = a  b = b  c = c  sh = sh  sa = sa  q1 = q1  q2 = q2  q3 = q3
    Users = {h, a, b, c}
    Hosts = {h}
    Configured = {h, a}
    Fields = {"name", "password"}
    Values = {0, 1}
    DefaultValue = 0
    Patches <- MCPatches
    Requests = {q1, q2, q3}
    Earlier = {sh, sa}
    OwnerOf <- MCOwnerOf
    Nobody = Nobody
    NoSession = NoSession
    MaxRestarts = 1
SYMMETRY Symmetry
INVARIANTS TypeOK CheckInHeard CreatedTeamsAreKnown AddedTogether LogoutHolds PatchesKept
CHECK_DEADLOCK FALSE
