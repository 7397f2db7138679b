CONSTANTS
    p1 = p1  p2 = p2  r1 = r1
    Pipelines = {p1, p2, p3}
    Runs = {r1, r2}
    PipelineOf <- TwoPipelines
    Nightly = {p2, p3}
    Versioned = {p2}
    Schedulers = {w1}
    Jobs = {j1, j2}
    MaxFaults = 1
    MaxCrashes = 0
SPECIFICATION FairSpec
INVARIANTS FaithfulResult JobsWatched DeletedPipelineClean
PROPERTIES RunEnds ImplementsRunContract
CHECK_DEADLOCK FALSE
