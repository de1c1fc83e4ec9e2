\* Three processes of one host.
CONSTANTS
    p1 = p1  p2 = p2  p3 = p3
    here = here  there = there
    Procs = {p1, p2, p3}
    HostOf <- OneHost
    NoFile = NoFile  Nobody = Nobody
SPECIFICATION Spec
INVARIANTS MutualExclusion
