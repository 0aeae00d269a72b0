\* Two overlapping promotions or demotions.
CONSTANTS
    b1 = b1  b2 = b2  n1 = n1  n2 = n2  l1 = l1  l2 = l2
    t1 = t1  t2 = t2  s1 = s1  s2 = s2  r1 = r1  r2 = r2
    Beacons = {b1, b2}
    Names = {n1, n2}
    APs = {a1}
    Labels = {l1, l2}
    Tunables = {t1, t2}
    Settings = {s1, s2}
    Requests = {r1, r2}
    MaxRequests = 2
    None = None
    Blank = Blank
SYMMETRY Symmetry
SPECIFICATION Spec
INVARIANT TakesEffect
CHECK_DEADLOCK FALSE
