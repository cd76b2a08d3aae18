SPECIFICATION Spec
CONSTANTS
    s1 = s1  s2 = s2  t1 = t1  o1 = o1  a = a  b = b  x = x
    Runs = {s1, s2, t1, o1}
    TestOnly = {t1}
    Earlier = {t1, o1}
    Teams = {a, b}
    Questions = {x}
    Submitter <- MCSubmitter
    Question <- MCQuestion
    Results <- MCResults
    MaxTime = 2
SYMMETRY Symmetry
INVARIANTS TypeOK PictureIsOfLast RightPictureWasTold
CHECK_DEADLOCK FALSE
