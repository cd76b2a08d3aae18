\* One test request, a DELETE and a restart.
CONSTANTS
    s1 = s1  t1 = t1
    alice = alice  bob = bob  host = host
    c1 = c1  c2 = c2  c3 = c3
    d1 = d1  d2 = d2
    Runs = {t1}
    TestOnly = {t1}
    Cases = {c1, c2, c3}
    Visible = {c1, c2}
    Users = {alice, bob, host}
    Hosts = {host}
    Submitter <- MCSubmitter
    Requests = {d1}
    NoRun = NoRun
    MaxRestarts = 1
SPECIFICATION LiveSpec
PROPERTIES RunEnds RequestAnswered AbortEndsRun
