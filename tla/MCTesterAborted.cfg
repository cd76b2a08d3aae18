\* One submission, one DELETE.
CONSTANTS
    s1 = s1  t1 = t1
    alice = alice  bob = bob  host = host
    c1 = c1  c2 = c2  c3 = c3
    d1 = d1  d2 = d2
    Runs = {s1}
    TestOnly = {}
    Cases = {c1, c2}
    Visible = {c1}
    Users = {alice, bob, host}
    Hosts = {host}
    Submitter <- MCSubmitter
    Requests = {d1}
    NoRun = NoRun
    MaxRestarts = 0
SPECIFICATION Spec
INVARIANT AbortedMeansAborted
