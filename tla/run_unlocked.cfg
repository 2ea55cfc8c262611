SPECIFICATION PartsSpec
CONSTANTS
    Parts = {"plan"}
    d1 = d1  d2 = d2
    Subtasks = {1, 2}
    DependsOn <- MCDependsOn
    OwnedPaths <- MCOwnedPaths
    Paths = {"p1", "p2"}
    Unlisted = {"p2"}
    Drivers = {d1, d2}
    Candidates = 2
    MaxConcurrency = 2
    Allowance = 3
    MaxFaults = 2
    MaxEvents = 3
    Stages = {"plan", "decide", "build", "review", "sub", "ok", "hold"}
    KindOf <- MCKindOf
    Routes <- MCRoutes
    Entry = "plan"
    MaxSteps = 7
    MaxGrant = 2
    FlowDrivers = {d1, d2}
    Depth = 0
    KidActions = 3
    KidSteps = 1
    KidOutcomes = {"succeeded", "aborted", "failed", "budget", "plan"}
    FlowCrashes = 2
    Callers = {"c1", "c2", "c3"}
    MaxRetries = 1
    MaxAsks = 3
    Proposals <- MCProposals
    Ceilings <- MCCeilings
    Contents = {"empty", "a", "b"}
    Commands = {"a", "b"}
    FanoutGraphs = {"b"}
    Edits = 1
    Plans = 2
    Delegates = {d1, d2}
    Targets = {"small-change", "bug-fix"}
    ChildActs = 2
    Verdicts = 1
    Deaths = 2
    Invocations = {1, 2}
    WorkerRequests <- MCRequests
    CheckPlans <- MCCheckPlans
    MaxEdits = 2
    Sessions = {"s1", "s2"}
    Outputs <- MCOutputs
    ShellCommands <- MCShellCommands
    Policies <- MCPolicies
    MaxReviews = 3
    MaxLosses = 1
    Workflows <- MCWorkflows
    Seeded = {{}, {1, 2}}
    Adapters = {"claude", "codex", "cursor", "antigravity", "opencode"}
    Binaries = {"b1"}
    UserTexts <- MCTexts
    FileEdits = 1
    MaxCommands = 3
    ParentOf <- MCParentOf
    Deleters = {d1, d2}
    Deletions = 2
    Intrusions = 1
    MaxHalts = 1
    Environ <- MCEnviron
    Cases <- MCCases
    LayerEdits <- MCLayerEdits
    Editors = {d1, d2}
SYMMETRY DriverSymmetry
VIEW PartsView
INVARIANTS
    ApprovalLocks
CHECK_DEADLOCK FALSE
