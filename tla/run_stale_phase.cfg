SPECIFICATION Spec
CONSTANTS
    a1 = a1  a2 = a2  a3 = a3  a4 = a4
    b1 = b1  b2 = b2  b3 = b3  r1 = r1  r2 = r2
    None = None
    Agents = {a1, a2, a3, a4}
    Bindings = {b1, b2, b3}
    BindingOf <- MCBindingOf
    RuntimeOf <- MCRuntimeOf
    RolesOf <- MCPlainRolesOf
    Invocations = {1, 2, 3, 4}
    Plans = {p1}
    Candidates = {c1, c2}
    ArgvPlans = {p1}
    Quorum = 2
    MaxConcurrent = 2
    MaxHandoffs = 2
    MaxNoProgress = 2
    RequirePlanApproval = TRUE
    Seeds = {"task"}
    Replies = {"planned", "changed", "approved", "changes-required", "failed"}
    Events = {"failure", "budget"}
INVARIANTS
    RepliesFit
CHECK_DEADLOCK FALSE
