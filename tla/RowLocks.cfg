SPECIFICATION Spec
CONSTANTS
    Tasks <- MCTasks
    Approvals = {a1}
    Requests = {r1, r2}
    Nobody = nobody
    Kinds <- LockKinds
    Targets <- LockTargets
    DependsOn <- BackwardDependsOn
    Verdicts = {"pending"}
    RequireApproval = FALSE
    RequireReview = FALSE
    BlockPending = TRUE
SYMMETRY RequestSymmetry
INVARIANTS LockOrderKept
CHECK_DEADLOCK FALSE
