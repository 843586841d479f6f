SPECIFICATION PartsFairSpec
CONSTANTS
    t1 = t1
    t2 = t2
    a1 = a1
    a2 = a2
    p1 = p1
    p2 = p2
    p3 = p3
    PanelTask = {t1, t2}
    NoTask = NoTask
    UrlTask = {t1, t2}
    NoUrlTask = NoUrlTask
    MaxMessages = 3
    Agent = {a1, a2}
    MaxBeats = 3
    Reported = {"online"}
    MaxAgentDrops = 1
    Approval = {a1, a2}
    ApprovalTask = {t1, t2}
    NoApproval = NoApproval
    TasksOf <- TheTasks
    FeedApproval = {ap1}
    FeedTaskOf <- TwoTaskEvents
    MaxFeedItems = 2
    MaxFeedEvents = 2
    MaxPolls = 2
    MaxMemories = 2
    MaxRefetches = 1
    MaxOnboardingEvents = 1
    MaxUrlEvents = 4
    MaxApprovalEvents = 3
    MaxGroupToggles = 2
    Parts = {"chat", "agents", "approvals", "onboarding", "group", "graph"}
    Person = {p1, p2, p3}
    NoPerson = NoPerson
    Me = p1
    FirstRoles <- TwoOwners
    MaxMembershipEvents = 3
    CardTask = {t1, t2}
    CardStart = {t1}
    Tasks = {t1, t2, t3}
    Requests = {r1, r2}
    Editors = {r1}
    MaxCardEvents = 2
    MaxPanelEvents = 1
    MessageKinds = {"say"}
    MaxChatToggles = 2
    Item = {i1}
    w1 = w1
    w2 = w2
    w3 = w3
    c2 = c2
    WorkTask = {w1, w2, w3}
    Claimant = {c1, c2}
    NoClaimant = NoClaimant
    MayDependOn <- ChainOfThree
    PatchId = {1, 2}
    MaxPatches = 3
INVARIANTS
    PartsTypeOK
    StreamsKeepUp
    OfferedQuestionIsOpen
    CycleCheckExact
    NoCycle
PROPERTIES
    ChatsCatchUp
    AgentsPageFollows
    ApprovalsPageConverges
    OnboardingWaitEnds
CHECK_DEADLOCK FALSE
