SPECIFICATION Spec
CONSTANTS
    Tasks <- MCTasks
    Approvals = {a1}
    Requests = {r1, r2}
    Nobody = nobody
    Kinds = {"agent"}
    Targets <- ReviewTargets
    DependsOn <- MCDependsOn
    Verdicts = {"pending"}
    RequireApproval = FALSE
    RequireReview = TRUE
    BlockPending = FALSE
SYMMETRY RequestSymmetry
PROPERTIES DoneOnlyFromReview
CHECK_DEADLOCK FALSE
