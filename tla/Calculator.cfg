SPECIFICATION Spec
CONSTANTS
    Nil = Nil
    p1 = p1
    p2 = p2
    p3 = p3
    Pods = {p1, p2, p3}
    PodKinds <- MCKinds
    Usages = {0, 1, 3, 5}
    Metrics <- MCMetrics
    Counts = {0, 1, 3}
    ScaleTolerance = 10
    Garbage <- MCGarbage
SYMMETRY Symmetric
INVARIANTS TypeOK PanicsOnlyForNil QuietNeverGrows NeverAgainstUsage AverageMet Covered
