SPECIFICATION Spec
CONSTANTS
    origin = origin
    hsts = hsts
    csp = csp
    none = none
    fresh = fresh
    noted = noted
    v1 = v1
    v2 = v2
    v3 = v3
    v4 = v4
    e = e
    t = t
    i1 = i1
    i2 = i2
    Instances = {i1, i2}
    Findings = {1, 2}
    Verifications = {v1, v2, v3, v4}
    Observed <- MCObserved
    NoIdentity = none
    MaxOccurrences = 3
    Released <- MCReleased
    MaxFaults = 1
    MaxCrashes = 1
CONSTRAINT OneCalmInstance
INVARIANTS StampIsTrue NothingAuditedIsLost
