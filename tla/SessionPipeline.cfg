\* Up to three runs, of two processes, with two configurations.
CONSTANTS
    c1 = c1  c2 = c2
    w1 = w1  w2 = w2
    x1 = x1
    Workers = {w1, w2}
    Configs = {c1, c2}
    Setting <- MCSetting
    Forces = {NoForce, "ingest", "scout"}
    Paths = {x1}
    StopAfter = "extract"
    MaxRuns = 3
    NoOne = NoOne  Absent = Absent  NoForce = NoForce
SPECIFICATION Spec
SYMMETRY Symmetry
INVARIANTS TypeOK  LiveAttemptsStand CompletedFilesStand ForcedStagesRemade
CHECK_DEADLOCK FALSE
