SPECIFICATION Spec
CONSTANTS
    Nil = Nil
    p1 = p1
    p2 = p2
    Pods = {p1, p2}
    PodKinds <- UpKinds
    Usages = {1, 3, 5}
    Metrics <- PodsMetrics
    Counts = {1, 2}
    ScaleTolerance = 10
    Garbage <- MCGarbage
SYMMETRY Symmetric
INVARIANTS OverloadAsksForMore
