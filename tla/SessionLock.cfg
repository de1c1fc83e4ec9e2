\* Two processes of one host and one of another share the session directory.
CONSTANTS
    p1 = p1  p2 = p2  p3 = p3
    here = here  there = there
    Procs = {p1, p2, p3}
    HostOf <- TwoHosts
    NoFile = NoFile  Nobody = Nobody
SPECIFICATION FairSpec
INVARIANTS TypeOK ExclusiveUnlessStolen HolderOwnsFile
PROPERTIES StaleLockRecovered
