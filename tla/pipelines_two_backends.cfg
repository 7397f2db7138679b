CONSTANTS
    p1 = p1  p2 = p2  r1 = r1
    Pipelines = {p1}
    Runs = {r1}
    PipelineOf <- OnePipeline
    Nightly = {}
    Versioned = {p1}
    Schedulers = {w1, w2}
    Jobs = {j1, j2, j3}
    MaxFaults = 0
    MaxCrashes = 1
SYMMETRY JobSymmetry
SPECIFICATION Spec
INVARIANTS OneJobPerScheduler OwnOutcome
CHECK_DEADLOCK FALSE
