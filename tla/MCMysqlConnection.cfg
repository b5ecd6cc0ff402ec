CONSTANT MaxMore = 2
SPECIFICATION Spec
INVARIANTS
    OkMeansApplied
    AppliedOnce
    ResultsFreedOnce
    NeverOutOfSync
    DanglingNotUsed
