\* Up to three commands under three configurations, one lost or edited artifact.
CONSTANTS
    c1 = c1  c2 = c2
    k1 = k1  k2 = k2  k3 = k3
    Candidates = {c1, c2}
    Configs = {k1, k2, k3}
    Found <- MCFound
    Extraction <- MCExtraction
    Presentation <- MCPresentation
    MaxRuns = 3
    MaxMishaps = 1
    MaxCost = 1
    Absent = Absent
SPECIFICATION Spec
INVARIANTS TypeOK ClipsAreOfTheRun ServedPageIsCurrent
CHECK_DEADLOCK FALSE
