--------------------------- MODULE AdaptiveState ---------------------------
(***************************************************************************)
(* The pure next-action state machine of internal/sdlc/adaptive: what a    *)
(* run records (adaptive.State and the approvals that ledger.Run keeps     *)
(* beside it), who may be assigned, and what a worker's result does to it. *)
(* Operators take the saved state s and return the state the code saves;   *)
(* the processes that call them are in AdaptiveRun.                        *)
(*                                                                         *)
(* Revisions (content digests) are model values.  Pause reasons are        *)
(* grouped by what a resume can do with them: see Outcomes.                *)
(***************************************************************************)
EXTENDS Naturals, FiniteSets

CONSTANTS
    Agents,             \* enrolled agents
    Bindings,           \* runtime:model:... identities; several agents may share one
    BindingOf,          \* [Agents -> Bindings]
    RuntimeOf,          \* [Bindings -> anything]: the CLI behind a binding
    RolesOf,            \* [Agents -> SUBSET Roles]: policy-eligible roles
    Invocations,        \* invocation identifiers
    Plans, Candidates,  \* digests of plan.md and of patch.diff
    ArgvPlans,          \* the plans whose checks.json holds commands
    None,               \* an empty field
    Quorum,             \* State.Quorum
    MaxConcurrent,      \* State.MaxConcurrent
    MaxHandoffs,        \* 2 in the code
    MaxNoProgress,      \* 2 in the code
    RequirePlanApproval \* Run.RequirePlanApproval (false under --auto)

Planner     == "planner"
Implementer == "implementer"
Assessor    == "assessor"
PlanExperts == {"research"}
DiffExperts == {"qa", "security", "code-review"}
Experts     == PlanExperts \cup DiffExperts
Roles       == {Planner, Implementer, Assessor} \cup Experts

ASSUME StateConstants ==
    /\ BindingOf \in [Agents -> Bindings]
    /\ RolesOf \in [Agents -> SUBSET Roles]
    /\ IsFiniteSet(Agents) /\ IsFiniteSet(Bindings) /\ IsFiniteSet(Invocations)
    /\ Quorum \in Nat \ {0} /\ MaxConcurrent \in Nat \ {0}
    /\ MaxHandoffs \in Nat /\ MaxNoProgress \in Nat \ {0}
    /\ RequirePlanApproval \in BOOLEAN
    /\ ArgvPlans \subseteq Plans
    /\ None \notin Bindings \cup Plans \cup Candidates

Working == {"planning", "implementing", "verifying", "assessing", "specializing"}
Stages  == Working \cup {"done", "paused", "draining", ""}

(* "budget-exhausted" stands for every reason BudgetPause accepts.           *)
(* "<role>-failed" stands for <role>-failed, no-eligible-<role> and          *)
(* <role>-invocations-exhausted, which failedPauseRole does not tell apart;  *)
(* "expert-failed" for those of the four optional roles.                     *)
Outcomes ==
    {"", "approved", "answer",
     "planner-failed", "implementer-failed", "assessor-failed", "expert-failed",
     "driver-failed", "budget-exhausted", "handoff-budget-exhausted",
     "invocation-timeout", "session-recovery-required",
     "injection-review-required", "assessment-quorum-unavailable",
     "unsafe-review-artifact", "verification-environment-failed",
     "review-workspace-drift", "review-recovery-invalid", "plan-required",
     "plan-approval-required", "command-authorization-required",
     "specialist-decision-unavailable"}

FailedOutcome(role) ==
    CASE role = Planner     -> "planner-failed"
      [] role = Implementer -> "implementer-failed"
      [] role = Assessor    -> "assessor-failed"
      [] OTHER              -> "expert-failed"

Reviewers == {Assessor} \cup DiffExperts  \* who reads the candidate
Makers    == {Planner, Implementer} \cup PlanExperts

Assignment ==
    [id : Invocations, role : Reviewers, agent : Agents, revision : Candidates \cup {None}]
    \cup
    [id : Invocations, role : Makers, agent : Agents, revision : Plans \cup {None}]
Assessment == [id : Invocations, agent : Agents,
               revision : Plans \cup Candidates \cup {None}, approved : BOOLEAN]
Review     == [role : Experts, agent : Agents, approved : BOOLEAN]
Recovery   == [assignment : [id : Invocations, role : {Assessor}, agent : Agents,
                             revision : Candidates \cup {None}],
               outcome : {"approved", "changes-required"}]

RunState ==
    [stage : Stages, outcome : Outcomes,
     plan : Plans \cup {None}, diff : Candidates \cup {None},
     pending : SUBSET Assignment,            \* Assignments
     assessments : SUBSET Assessment,
     receipts : {"none", "passed", "failed"},\* CheckReceipts
     receiptsFor : Candidates \cup {None},   \* their CandidateFingerprint
     excluded : SUBSET Bindings,             \* Excluded, ExcludedBindings, ExcludedRuntimes
     deferred : SUBSET Bindings,             \* HandoffExcluded
     handoffs : Nat,
     lastHandoff : Bindings \cup {None},     \* LastHandoffBinding, set with PendingFocus
     fallbackUsed : BOOLEAN,
     implementer : Bindings \cup {None},     \* LastImplementerBinding
     noProgress : Nat,
     repair : Candidates \cup {None},        \* RepairFeedback.Revision
     queue : SUBSET Experts,                 \* SpecialistQueue
     reviews : SUBSET Review,                \* SpecialistReviews
     after : {"", "implementing", "verifying"},  \* AfterSpecialists
     pendingDecision : {"", "plan", "diff"},
     pendingPhase : Stages, budgetPhase : Stages, retryPhase : Stages,
     approvedPlan : Plans \cup {None},       \* Run.Approved*Revision
     authorized : Plans \cup {None},         \* Run.AuthorizedChecksRevision
     recovery : Recovery \cup {None}]        \* Run.ReviewRecovery not yet Applied

\* adaptive.New
Fresh ==
    [stage |-> "planning", outcome |-> "", plan |-> None, diff |-> None,
     pending |-> {}, assessments |-> {}, receipts |-> "none", receiptsFor |-> None,
     excluded |-> {}, deferred |-> {}, handoffs |-> 0, lastHandoff |-> None,
     fallbackUsed |-> FALSE, implementer |-> None, noProgress |-> 0, repair |-> None,
     queue |-> {}, reviews |-> {}, after |-> "", pendingDecision |-> "",
     pendingPhase |-> "", budgetPhase |-> "", retryPhase |-> "",
     approvedPlan |-> None, authorized |-> None, recovery |-> None]
-----------------------------------------------------------------------------
(***************************************************************************)
(* Who may be assigned                                                     *)
(***************************************************************************)

\* State.Role: the roles the stage may assign next (at most one, except for
\* the optional experts, whose queue order does not matter here).
RolesWanted(s) ==
    CASE s.stage = "planning"     -> {Planner}
      [] s.stage = "implementing" -> {Implementer}
      [] s.stage = "assessing"    -> {Assessor}
      [] s.stage = "specializing" -> s.queue \ {a.role : a \in s.pending}
      [] OTHER                    -> {}

\* Mutant of ParallelReviews: a drain admits no launch.
UndrainedReviews(s) == s.stage \in {"assessing", "specializing"}

ParallelReviews(s) ==
    \/ s.stage \in {"assessing", "specializing"}
    \/ s.stage = "draining" /\ s.budgetPhase \in {"assessing", "specializing"}

\* ReviewSlotsNeeded, never negative.
SlotsNeeded(s) ==
    LET taken == Cardinality(s.assessments) + Cardinality(s.pending)
    IN CASE s.stage = "assessing"    -> IF taken >= Quorum THEN 0 ELSE Quorum - taken
         [] s.stage = "specializing" -> Cardinality(RolesWanted(s))
         [] OTHER                    -> 0

\* Mutant of TargetRevision: reviewers get the plan.
PlanTarget(s, role) == IF role = Planner THEN None ELSE s.plan

\* The revision an assignment of this role targets.
TargetRevision(s, role) ==
    CASE role \in Reviewers    -> s.diff
      [] role \in {Implementer} \cup PlanExperts -> s.plan
      [] OTHER                                   -> None

\* Mutant of Reviewing: pending reviewers are forgotten.
Counted(s) == {BindingOf[x.agent] : x \in {y \in s.assessments : y.revision = s.diff}}

\* Bindings that already review this candidate.
Reviewing(s) ==
    {BindingOf[x.agent] : x \in {y \in s.assessments : y.revision = s.diff}}
    \cup {BindingOf[a.agent] : a \in s.pending}

\* enrollment.Eligible: what the policy lets through (role, permissions, reach,
\* scopes) is a constant of the instance.
Eligible(role) == {g \in Agents : role \in RolesOf[g]}

\* Mutant of Candidate: a reviewer may review again.
AnyReviewer(s, role) ==
    {g \in Eligible(role) :
        /\ BindingOf[g] \notin s.excluded \cup s.deferred
        /\ role \in Reviewers => BindingOf[g] # s.implementer}

\* adaptiveCandidates: eligible agents, minus failed and deferred bindings and,
\* for reviews of the candidate, its implementer and its other reviewers.
Candidate(s, role) ==
    {g \in Eligible(role) :
        /\ BindingOf[g] \notin s.excluded \cup s.deferred
        /\ role \in Reviewers =>
              BindingOf[g] \notin Reviewing(s) \cup {s.implementer}}

DistinctBindings(agents) == Cardinality({BindingOf[g] : g \in agents})

\* A stage admits one invocation, or MaxConcurrent reviews side by side.
HasSlot(s) ==
    /\ Cardinality(s.pending) < MaxConcurrent
    /\ s.pending = {} \/ ParallelReviews(s)
    /\ s.stage \in {"assessing", "specializing"} => SlotsNeeded(s) > 0

\* When everybody left has been deferred by handoffs, the last one to hand off
\* may continue, once.
WithFallback(s, role) ==
    IF Candidate(s, role) = {} /\ s.lastHandoff # None /\ ~s.fallbackUsed
    THEN [s EXCEPT !.deferred = @ \ {s.lastHandoff}, !.fallbackUsed = TRUE]
    ELSE s

QuorumReachable(s) ==
    DistinctBindings(Candidate(s, Assessor)) >= SlotsNeeded(s)
-----------------------------------------------------------------------------
(***************************************************************************)
(* Pausing and the candidate's review record                               *)
(***************************************************************************)

\* Mutant of Pause: a drain with nothing to wait for.
PauseDraining(s, reason) ==
    IF reason = "budget-exhausted"
    THEN [s EXCEPT
            !.budgetPhase = IF s.stage \in {"paused", "draining"} THEN @ ELSE s.stage,
            !.stage = "draining", !.outcome = reason]
    ELSE [s EXCEPT !.stage = "paused", !.outcome = reason, !.pending = {}]

\* State.Pause.  A budget pause lets admitted work finish (draining) and
\* remembers the phase; every other pause drops the pending assignments.
Pause(s, reason) ==
    IF reason = "budget-exhausted"
    THEN [s EXCEPT
            !.budgetPhase = IF s.stage \in {"paused", "draining"} THEN @ ELSE s.stage,
            !.stage = IF s.pending = {} THEN "paused" ELSE "draining",
            !.outcome = reason]
    ELSE [s EXCEPT
            !.retryPhase = IF reason \in {"invocation-timeout", "session-recovery-required"}
                           THEN s.stage ELSE @,
            !.stage = "paused", !.outcome = reason, !.pending = {}]

\* ChecksAllowCompletion: no receipts at all allow completion.
ChecksAllowCompletion(s) ==
    s.receipts = "none" \/ (s.receipts = "passed" /\ s.receiptsFor = s.diff)

\* Mutant of Invalidate: the votes on the last candidate are kept.
InvalidateChecks(s) ==
    [s EXCEPT !.repair = None, !.noProgress = 0, !.reviews = {}, !.queue = {},
              !.receipts = "none", !.receiptsFor = None, !.after = "", !.pending = {}]

\* InvalidateOnCandidateChange
Invalidate(s) ==
    [s EXCEPT !.repair = None, !.noProgress = 0, !.assessments = {}, !.reviews = {},
              !.queue = {}, !.receipts = "none", !.receiptsFor = None,
              !.after = "", !.pending = {}]

\* ApplyVerificationResult.  "invalidated": the checks themselves changed the
\* candidate; "environment": they could not run here.
Verified(s, verdict) ==
    CASE verdict = "skipped"     -> [s EXCEPT !.stage = "assessing", !.outcome = "",
                                              !.receipts = "none", !.receiptsFor = None]
      [] verdict = "passed"      -> [s EXCEPT !.stage = "assessing", !.outcome = "",
                                              !.receipts = "passed", !.receiptsFor = s.diff]
      [] verdict = "failed"      -> [s EXCEPT !.stage = "implementing", !.outcome = "",
                                              !.pending = {}, !.receipts = "failed",
                                              !.receiptsFor = s.diff]
      [] verdict = "invalidated" -> [Invalidate(s) EXCEPT !.stage = "implementing",
                                              !.outcome = "", !.receipts = "failed",
                                              !.receiptsFor = s.diff]
      [] verdict = "environment" -> Pause([s EXCEPT !.receipts = "failed",
                                                    !.receiptsFor = s.diff],
                                          "verification-environment-failed")

Verdicts(s) ==
    IF s.plan \in ArgvPlans THEN {"passed", "failed", "invalidated", "environment"}
                            ELSE {"skipped"}
-----------------------------------------------------------------------------
(***************************************************************************)
(* State.Apply: a worker's result for the pending assignment a.            *)
(* revision is the digest of the artifact a "planned" or "changed" result  *)
(* brings, and the assignment's own revision otherwise.                    *)
(***************************************************************************)

\* Every result ends a drain and removes the assignment.
Taken(s, a) ==
    LET phase == IF s.budgetPhase = "" THEN s.stage ELSE s.budgetPhase
    IN [s EXCEPT !.stage = phase, !.budgetPhase = "", !.pending = @ \ {a},
                 !.outcome = IF s.budgetPhase = "" THEN @ ELSE ""]

\* Every result but a handoff ends a chain of handoffs.
Settled(s) ==
    [s EXCEPT !.handoffs = 0, !.lastHandoff = None, !.fallbackUsed = FALSE,
              !.deferred = {}]

AfterHandoff(s, a) ==
    IF s.handoffs >= MaxHandoffs
    THEN Pause([s EXCEPT !.pendingPhase = s.stage], "handoff-budget-exhausted")
    ELSE [s EXCEPT !.handoffs = @ + 1, !.lastHandoff = BindingOf[a.agent],
                   !.deferred = @ \cup {BindingOf[a.agent]}]

\* A failed invocation excludes its binding, failed authentication the
\* bindings of the whole runtime.
AfterExclusion(s, a, outcome) ==
    LET b == BindingOf[a.agent]
        bad == IF outcome = "auth-failed"
               THEN {c \in Bindings : RuntimeOf[c] = RuntimeOf[b]} ELSE {b}
    IN [s EXCEPT !.excluded = @ \cup bad]

\* implementationMadeNoProgress
NoProgress(s) ==
    LET t == [s EXCEPT !.noProgress = @ + 1]
    IN IF t.noProgress >= MaxNoProgress THEN Pause(t, "implementer-failed") ELSE t

AfterPlanning(s, outcome, revision) ==
    CASE outcome = "answer"  -> [s EXCEPT !.stage = "done", !.outcome = "answer"]
      [] outcome = "planned" -> [s EXCEPT !.stage = "implementing", !.plan = revision]
      [] outcome = "failed"  -> [s EXCEPT !.stage = "paused", !.outcome = "planner-failed"]

AfterImplementing(s, a, outcome, revision) ==
    CASE outcome = "answer" ->
           IF s.diff = None THEN [s EXCEPT !.stage = "done", !.outcome = "answer"]
                            ELSE NoProgress(s)
      [] outcome = "changed" ->
           IF revision = s.diff THEN NoProgress(s)
           ELSE [Invalidate(s) EXCEPT !.diff = revision, !.stage = "verifying",
                                      !.implementer = BindingOf[a.agent]]
      [] outcome = "failed" ->
           [s EXCEPT !.stage = "paused", !.outcome = "implementer-failed"]

\* Mutant of AfterSpecializing: experts not assigned yet are not waited for.
AfterFirstExperts(s, a, outcome) ==
    LET heard == [s EXCEPT !.queue = @ \ {a.role},
                           !.reviews = @ \cup {[role |-> a.role, agent |-> a.agent,
                                                approved |-> outcome = "approved"]}]
    IN CASE outcome = "failed"           -> Pause(s, "expert-failed")
         [] outcome = "changes-required" -> [heard EXCEPT !.repair = a.revision,
                                               !.queue = {}, !.pending = {},
                                               !.stage = "implementing"]
         [] outcome = "approved"         ->
              IF heard.pending = {} THEN [heard EXCEPT !.stage = s.after, !.queue = {},
                                                       !.after = ""] ELSE heard

\* One rejection is decisive: the other reviewers are cancelled.
AfterSpecializing(s, a, outcome) ==
    LET heard == [s EXCEPT !.queue = @ \ {a.role},
                           !.reviews = @ \cup {[role |-> a.role, agent |-> a.agent,
                                                approved |-> outcome = "approved"]}]
    IN CASE outcome = "failed"           -> Pause(s, "expert-failed")
         [] outcome = "changes-required" -> [heard EXCEPT !.repair = a.revision,
                                               !.queue = {}, !.pending = {},
                                               !.stage = "implementing"]
         [] outcome = "approved"         ->
              IF heard.queue = {} /\ heard.pending = {}
              THEN [heard EXCEPT !.stage = s.after, !.after = ""] ELSE heard

\* Mutant of QuorumMet: one review too few.
QuorumNearlyMet(s) == Cardinality(s.assessments) + 1 >= Quorum

QuorumMet(s) == Cardinality(s.assessments) >= Quorum

AfterAssessing(s, a, outcome) ==
    LET counted == [s EXCEPT !.assessments = @ \cup
                        {[id |-> a.id, agent |-> a.agent, revision |-> a.revision,
                          approved |-> outcome = "approved"]}]
    IN CASE outcome = "failed"           -> s   \* a replacement can be routed
         [] outcome = "changes-required" -> [counted EXCEPT !.repair = a.revision,
                                               !.stage = "implementing", !.pending = {}]
         [] outcome = "approved"         ->
              IF ~QuorumMet(counted) THEN counted
              ELSE IF \E x \in counted.assessments : ~x.approved \/ x.revision # s.diff
              THEN [counted EXCEPT !.stage = "implementing", !.pending = {}]
              ELSE IF ChecksAllowCompletion(s)
              THEN [counted EXCEPT !.stage = "done", !.outcome = "approved", !.pending = {}]
              ELSE [s EXCEPT !.stage = "verifying", !.outcome = "",
                             !.assessments = {}, !.pending = {}]

\* The outcomes a worker of each role may reply with.
WorkerOutcomes(role) ==
    {"handoff", "timed-out", "run-time-exhausted", "invocation-failed", "auth-failed",
     "failed"}
    \cup (CASE role = Planner       -> {"answer", "planned"}
            [] role = Implementer   -> {"answer", "changed"}
            [] role \in PlanExperts -> {"approved"}
            [] OTHER                -> {"approved", "changes-required"})

\* Apply answers a pending result that does not fit the stage with an error,
\* and leaves the state alone.
Accepts(s, a, outcome) ==
    LET stage == Taken(s, a).stage
    IN /\ a \in s.pending
       /\ \/ outcome \in {"handoff", "timed-out", "run-time-exhausted",
                          "invocation-failed", "auth-failed"}
          \/ stage = "planning"     /\ outcome \in {"answer", "planned", "failed"}
          \/ stage = "implementing" /\ outcome \in {"answer", "changed", "failed"}
          \/ stage = "assessing"    /\ outcome \in {"approved", "changes-required", "failed"}
          \/ stage = "specializing" /\ outcome \in {"approved", "changes-required"}
                                   /\ a.role \in s.queue
          \/ stage = "specializing" /\ outcome = "failed"

Apply(s, a, outcome, revision) ==
    LET t == Taken(s, a)
        u == Settled(t)
    IN CASE outcome = "handoff"            -> AfterHandoff(t, a)
         [] outcome = "timed-out"          -> Pause(u, "invocation-timeout")
         [] outcome = "run-time-exhausted" -> Pause(u, "budget-exhausted")
         [] outcome \in {"invocation-failed", "auth-failed"} -> AfterExclusion(u, a, outcome)
         [] OTHER ->
              CASE u.stage = "planning"     -> AfterPlanning(u, outcome, revision)
                [] u.stage = "implementing" -> AfterImplementing(u, a, outcome, revision)
                [] u.stage = "specializing" -> AfterSpecializing(u, a, outcome)
                [] u.stage = "assessing"    -> AfterAssessing(u, a, outcome)
                [] OTHER                    -> s
=============================================================================
