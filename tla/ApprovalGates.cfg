SPECIFICATION Spec
CONSTANTS
    Tasks <- MCTasks
    Approvals = {a1, a2}
    Requests = {r1, r2}
    Nobody = nobody
    Kinds <- GateKinds
    Targets <- GateTargets
    DependsOn <- MCDependsOn
    Verdicts = {"pending", "approved"}
    RequireApproval = TRUE
    RequireReview = TRUE
    BlockPending = TRUE
SYMMETRY Symmetry
INVARIANTS TypeOK OnePendingPerTask DoneWasApproved
PROPERTIES AskedStatusFrozenWhilePending
CHECK_DEADLOCK FALSE
