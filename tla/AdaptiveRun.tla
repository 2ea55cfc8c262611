---------------------------- MODULE AdaptiveRun ----------------------------
(***************************************************************************)
(* One SDLC run as its processes drive it (cmd/jevkit/sdlc).  The saved    *)
(* state (run.json) is read, changed and written back under the run lock:  *)
(* each such section is one action here.  Between two sections other       *)
(* goroutines and processes act, workers run, and a process may die.       *)
(*                                                                         *)
(* Whether some budget is exhausted is left open at every gate: time, cost *)
(* and the other runs of the tree decide it.                               *)
(***************************************************************************)
EXTENDS AdaptiveState

CONSTANTS
    Seeds,   \* what a run may start from, see AllSeeds
    Replies, \* the worker outcomes of this instance
    Events   \* the events of this instance, see AllEvents

\* Files given to the run, in the order given: the last one sets the stage.
AllSeeds == {"task", "plan", "patch", "plan+patch", "patch+plan"}

AllEvents ==
    {"crash",       \* a driver dies, or is interrupted, between two sections
     "other",       \* a second driver, a host, or an operator acts while workers run
     "budget",      \* budgets run out
     "failure",     \* an invocation fails outside its worker
     "error",       \* the driver fails between assignments
     "session",     \* a worker's saved conversation is lost
     "injection",   \* a worker's tool output awaits a security review
     "drift",       \* the workspace changes while an assessor reads it
     "unavailable"} \* a decision on optional experts cannot be had

ASSUME RunConstants ==
    /\ Seeds \subseteq AllSeeds
    /\ Events \subseteq AllEvents

VARIABLES
    run,     \* run.json
    patch,   \* the digest of artifacts/patch.diff
    running, \* invocations somebody executes and will report on
    replies, \* assessor replies with drift, held by their driver until recorded
    hist     \* history: what happened to the current candidate

vars == <<run, patch, running, replies, hist>>

Unseen == [verified |-> FALSE, \* the supervisor's checks passed, or there are none
           demanded |-> {},    \* optional experts the router asked for
           drifted  |-> FALSE] \* the workspace changed since it was verified

RunTypeOK ==
    /\ run \in RunState
    /\ patch \in Candidates \cup {None}
    /\ running \subseteq Assignment
    /\ replies \subseteq Recovery
    /\ hist \in [verified : BOOLEAN, demanded : SUBSET Experts, drifted : BOOLEAN]

\* sdlcStart: files given to the run become its artifacts.
Seeded(seed, p, c) ==
    CASE seed = "task"       -> Fresh
      [] seed = "plan"       -> [Fresh EXCEPT !.plan = p, !.stage = "implementing"]
      [] seed = "patch"      -> [Fresh EXCEPT !.diff = c, !.stage = "verifying"]
      [] seed = "plan+patch" -> [Fresh EXCEPT !.plan = p, !.diff = c, !.stage = "verifying"]
      [] seed = "patch+plan" -> [Fresh EXCEPT !.plan = p, !.diff = c, !.stage = "implementing"]

Init ==
    /\ \E seed \in Seeds, p \in Plans, c \in Candidates : run = Seeded(seed, p, c)
    /\ patch = run.diff
    /\ running = {}
    /\ replies = {}
    /\ hist = Unseen

-----------------------------------------------------------------------------
(***************************************************************************)
(* Helpers                                                                 *)
(***************************************************************************)

\* A driver waits for the workers it started before its next step.
DriverFree == running = {} \/ "other" \in Events

\* An identifier nobody holds any more (newRunID).
FreshIds(s) ==
    Invocations \ ({a.id : a \in s.pending \cup running}
                   \cup {x.id : x \in s.assessments}
                   \cup (IF s.recovery = None THEN {} ELSE {s.recovery.assignment.id}))

\* Mutant of Restarted: every restart forgets the votes.
RestartedAfresh(s, stage) == [s EXCEPT !.stage = stage, !.outcome = "", !.assessments = {}]

Restarted(s, stage) == [s EXCEPT !.stage = stage, !.outcome = ""]

\* budgetGate at the end of a section: nothing is blocked, or the run pauses.
Gated(s) ==
    {s} \cup (IF "budget" \in Events /\ s.stage \notin {"done", "paused"}
              THEN {Pause(s, "budget-exhausted")} ELSE {})

Enrolled == UNION {RolesOf[g] : g \in Agents}
ExpertsFor(kind) == IF kind = "plan" THEN PlanExperts ELSE DiffExperts
NextPhaseUnverified(kind) == \* Mutant of NextPhase
    IF kind = "plan" THEN "implementing" ELSE "assessing"
NextPhase(kind)  == IF kind = "plan" THEN "implementing" ELSE "verifying"

\* scheduleSpecialists, once the router has said which experts are needed.
Scheduled(s, kind, needed) ==
    LET t == [s EXCEPT !.pendingDecision = "", !.pendingPhase = ""]
    IN IF needed = {} THEN t
       ELSE [t EXCEPT !.queue = needed, !.after = NextPhase(kind), !.stage = "specializing"]

\* scheduleSpecialists, when it cannot decide: a budget is exhausted, or the
\* router or a required expert is unavailable.
Undecided(s, kind) ==
    (IF "budget" \in Events
     THEN {[Pause(s, "budget-exhausted") EXCEPT !.pendingDecision = kind]} ELSE {})
    \cup
    (IF "unavailable" \in Events
     THEN {[Pause(s, "specialist-decision-unavailable") EXCEPT
              !.pendingDecision = kind, !.pendingPhase = NextPhase(kind)]} ELSE {})

\* One decision of scheduleSpecialists; h is the history it adds to.
Decide(s, kind, h) ==
    \/ \E needed \in SUBSET (ExpertsFor(kind) \cap Enrolled) :
          /\ run' = Scheduled(s, kind, needed)
          /\ hist' = IF kind = "diff" THEN [h EXCEPT !.demanded = needed] ELSE h
    \/ run' \in Undecided(s, kind) /\ hist' = h

\* A decision left open is taken up again, unless the time is spent.
DecideAgain(s) ==
    \/ Decide(Restarted(s, s.pendingPhase), s.pendingDecision, hist)
    \/ "budget" \in Events /\ run' = Pause(s, "budget-exhausted") /\ UNCHANGED hist

-----------------------------------------------------------------------------
(***************************************************************************)
(* Driving: gates, assignments, verification                               *)
(***************************************************************************)

\* Mutant of GateOpen: only commands need an operator.
GateOpenForCommands(s) ==
    s.stage = "implementing" => (s.plan \in ArgvPlans => s.authorized = s.plan)

\* sdlcPlanApprovalGateLocked and sdlcCommandAuthorizationGateLocked
GateOpen(s) ==
    s.stage = "implementing" =>
        IF RequirePlanApproval THEN s.plan # None /\ s.approvedPlan = s.plan
                               ELSE s.plan \in ArgvPlans => s.authorized = s.plan

PlanApprovalGate ==
    /\ DriverFree /\ ~GateOpen(run) /\ run.pending = {}
    /\ LET reason == IF ~RequirePlanApproval THEN "command-authorization-required"
                     ELSE IF run.plan = None THEN "plan-required"
                     ELSE "plan-approval-required"
       IN run' = [Pause(run, reason) EXCEPT !.pendingPhase = "implementing"]
    /\ UNCHANGED <<patch, running, replies, hist>>

\* A drive makes up its mind about the optional experts before it assigns; a
\* host that asks for the next assignment does not.
Decided == run.pendingDecision = "" \/ "other" \in Events

\* The section may assign: before the budget gate of sdlcAssignNextLocked.
MayAssign ==
    /\ DriverFree /\ Decided /\ GateOpen(run)
    /\ RolesWanted(run) # {}

\* sdlcAssignNextLocked.  A driver executes a planner or an implementer at
\* once; it reserves all the reviewers it may before it launches them.
\* reviewAdmitCap keeps a driver that finds no eligible assessor from asking.
AssignNext ==
    /\ MayAssign /\ HasSlot(run)
    /\ \E role \in RolesWanted(run) :
         LET s == WithFallback(run, role)
         IN /\ role = Assessor => /\ Candidate(run, role) # {} \/ "other" \in Events
                                  /\ QuorumReachable(s)
            /\ \E g \in Candidate(s, role) :
                 LET i == CHOOSE x \in FreshIds(s) : TRUE
                     a == [id |-> i, role |-> role, agent |-> g,
                           revision |-> TargetRevision(s, role)]
                 IN /\ FreshIds(s) # {}
                    /\ run' = [s EXCEPT !.pending = @ \cup {a}]
                    /\ running' = IF ParallelReviews(s) THEN running
                                  ELSE running \cup {a}
    /\ UNCHANGED <<patch, replies, hist>>

\* Nobody is eligible, or too few bindings to reach the quorum.
NobodyEligible ==
    /\ MayAssign /\ HasSlot(run)
    /\ \E role \in RolesWanted(run) :
         LET s == WithFallback(run, role)
         IN \/ /\ Candidate(s, role) = {}
               /\ run' = Pause(s, FailedOutcome(role))
            \/ /\ Candidate(s, role) # {}
               /\ role = Assessor /\ ~QuorumReachable(s)
               /\ run' = Pause(s, "assessment-quorum-unavailable")
    /\ UNCHANGED <<patch, running, replies, hist>>

\* budgetGate refuses the assignment, or the verification.
BudgetStops ==
    /\ "budget" \in Events
    /\ DriverFree /\ Decided /\ GateOpen(run)
    /\ RolesWanted(run) # {} \/ run.stage = "verifying"
    /\ run' = Pause(run, "budget-exhausted")
    /\ UNCHANGED <<patch, running, replies, hist>>

\* reviewAdmitCap admits no further review: enough are reserved, no slot is
\* free, nobody is eligible, or a budget ends the admission early.
AdmissionOver(s) ==
    \/ SlotsNeeded(s) = 0 \/ ~HasSlot(s) \/ "budget" \in Events
    \/ s.stage = "assessing" /\ Candidate(s, Assessor) = {}

\* sdlcDriveParallelReviews stops admitting and launches what is pending.
LaunchReviews ==
    /\ DriverFree /\ Decided
    /\ ParallelReviews(run) /\ run.pending # {}
    /\ AdmissionOver(run)
    /\ ~(run.pending \subseteq running)
    /\ running' = running \cup run.pending
    /\ UNCHANGED <<run, patch, replies, hist>>

\* sdlcEnsureVerification: the checks run, unless nobody authorized them.
Verify ==
    /\ DriverFree /\ Decided
    /\ run.stage = "verifying"
    /\ \/ /\ run.plan \in ArgvPlans /\ run.authorized # run.plan
          /\ run' = Pause(run, "command-authorization-required")
          /\ UNCHANGED hist
       \/ /\ run.plan \in ArgvPlans => run.authorized = run.plan
          /\ \E verdict \in Verdicts(run) :
               /\ run' = Verified(run, verdict)
               /\ hist' = IF verdict \in {"passed", "skipped"}
                          THEN [hist EXCEPT !.verified = TRUE, !.drifted = FALSE]
                          ELSE hist
    /\ UNCHANGED <<patch, running, replies>>

\* retryActiveSpecialistDecision: a drive finds a decision left open.
RetrySpecialistDecision ==
    /\ DriverFree
    /\ run.stage # "paused" /\ run.pendingDecision # ""
    /\ DecideAgain(run)
    /\ UNCHANGED <<patch, running, replies>>

\* pauseDriveError
DriveFailed(s) ==
    IF s.stage \notin Working THEN {s}
    ELSE IF RolesWanted(s) = {} THEN {Pause(s, "driver-failed")}
    ELSE {Pause(s, FailedOutcome(role)) : role \in RolesWanted(s)}

\* The driver failed between two assignments, among others
\* because an assignment it did not start is pending.
DriverError ==
    /\ DriverFree
    /\ \/ "error" \in Events
       \/ ~ParallelReviews(run) /\ run.pending # {}
       \/ /\ run.stage = "assessing" /\ run.pending = {}
          /\ SlotsNeeded(run) = 0 \/ Candidate(run, Assessor) = {}
    /\ run.stage \in Working
    /\ run' \in DriveFailed(run)
    /\ UNCHANGED <<patch, running, replies, hist>>
-----------------------------------------------------------------------------
(***************************************************************************)
(* The workers' results                                                    *)
(***************************************************************************)

\* Invocations whose worker has not replied yet.
Executing == running \ {r.assignment : r \in replies}

\* The digests a result may bring.
ResultRevisions(a, outcome) ==
    CASE outcome = "planned" -> Plans
      [] outcome = "changed" -> Candidates
      [] OTHER               -> {a.revision}

\* sdlcRecordResultLocked pauses the run when a failed invocation leaves too
\* few bindings for the role.
Rerouted(s) ==
    {IF DistinctBindings(Candidate(s, role)) <
            (IF role = Assessor THEN SlotsNeeded(s) ELSE 1)
     THEN Pause(s, FailedOutcome(role)) ELSE s : role \in RolesWanted(s)}
    \cup (IF RolesWanted(s) = {} THEN {s} ELSE {})

\* sdlcRecordResultLocked for a pending assignment.  The artifact is written
\* before run.json; a plan or a new candidate is saved with its decision open
\* before the router is asked about experts.
Accepted(a, outcome, revision) ==
    LET applied == Apply(run, a, outcome, revision)
        s == IF outcome = "planned"
             THEN [applied EXCEPT !.approvedPlan = None, !.authorized = None] ELSE applied
        newCandidate == outcome = "changed" /\ s.diff # run.diff
        h == IF newCandidate THEN Unseen ELSE hist
        kind == IF outcome = "planned" THEN "plan" ELSE "diff"
        open == [s EXCEPT !.pendingDecision = kind, !.pendingPhase = s.stage]
    IN \/ /\ newCandidate \/ outcome = "planned"
          /\ \/ Decide(open, kind, h)
             \/ "crash" \in Events /\ run' = open /\ hist' = h
             \/ "crash" \in Events /\ UNCHANGED <<run, hist>>
          /\ patch' = IF newCandidate THEN revision ELSE patch
       \/ /\ ~newCandidate /\ outcome # "planned"
          /\ run' \in UNION {Gated(t) : t \in
                IF outcome \in {"invocation-failed", "auth-failed"} THEN Rerouted(s) ELSE {s}}
          /\ UNCHANGED <<patch, hist>>

\* sdlcRecordResultLocked when the assignment is not pending any more: a
\* result for a stage that does not review, or for another candidate, and a
\* duplicate are ignored.  A driver turns any other into a failure.
Superseded(a) ==
    \/ ~ParallelReviews(run)
    \/ a.revision \notin {None, run.diff, run.plan}
    \/ \E x \in run.assessments : x.id = a.id
    \/ \E x \in run.reviews : x.agent = a.agent /\ TargetRevision(run, x.role) = a.revision

\* Mutant of Ignored: the artifact is written before the result is known to be late.
WrittenThenIgnored(a, outcome, revision) ==
    /\ a \notin run.pending /\ Superseded(a)
    /\ patch' = IF outcome = "changed" THEN revision ELSE patch
    /\ UNCHANGED <<run, hist>>

\* sdlcRecordResultLocked, and sdlcIgnoreStaleReview, for a result nobody waits for.
Ignored(a, outcome, revision) ==
    /\ a \notin run.pending /\ Superseded(a)
    /\ UNCHANGED <<run, patch, hist>>

Report ==
    \E a \in Executing :
      /\ \E outcome \in WorkerOutcomes(a.role) \cap Replies :
           \E revision \in ResultRevisions(a, outcome) :
             \/ Accepts(run, a, outcome) /\ Accepted(a, outcome, revision)
             \/ Ignored(a, outcome, revision)
             \/ /\ ~Accepts(run, a, outcome)
                /\ a \notin run.pending => ~Superseded(a)
                /\ run' = Pause(run, FailedOutcome(a.role))
                /\ UNCHANGED <<patch, hist>>
      /\ running' = running \ {a}
      /\ UNCHANGED replies

\* sdlcFailAssignment: whatever the run does meanwhile, it pauses.
FailAssignment ==
    /\ "failure" \in Events
    /\ \E a \in running :
         /\ run' = Pause(run, FailedOutcome(a.role))
         /\ running' = running \ {a}
         /\ replies' = {r \in replies : r.assignment # a}
    /\ UNCHANGED <<patch, hist>>

\* chooseSession finds that the conversation it should continue is gone, stale
\* or another invocation's: pauseSessionRecovery.
LoseSession ==
    /\ "session" \in Events
    /\ \E a \in Executing :
         /\ run' = Pause(run, "session-recovery-required")
         /\ running' = running \ {a}
    /\ UNCHANGED <<patch, replies, hist>>

\* sdlcPauseInjectionReview
InjectionReview ==
    /\ "injection" \in Events
    /\ \E a \in Executing :
         /\ run' = Pause([run EXCEPT !.pendingPhase = IF run.stage = "paused"
                                                      THEN @ ELSE run.stage],
                         "injection-review-required")
         /\ running' = running \ {a}
    /\ UNCHANGED <<patch, replies, hist>>

\* sdlcPauseUnsafeReview: the saved diff cannot be reviewed.
UnsafeReview ==
    /\ "error" \in Events
    /\ \E a \in Executing :
         /\ a.role \in Reviewers
         /\ run' = Pause(run, "unsafe-review-artifact")
         /\ running' = running \ {a}
    /\ UNCHANGED <<patch, replies, hist>>

\* sdlcNoteCancelledReview: a sibling's decision cancelled this review.
CancelReview ==
    /\ ~ParallelReviews(run)
    /\ \E a \in Executing :
         /\ a.role \in {Assessor} \cup Experts
         /\ run' = [run EXCEPT !.pending = @ \ {a}]
         /\ running' = running \ {a}
    /\ UNCHANGED <<patch, replies, hist>>

\* A driver process ends: its workers' results are lost, what is pending stays.
Crash ==
    /\ "crash" \in Events /\ running # {}
    /\ running' = {} /\ replies' = {}
    /\ UNCHANGED <<run, patch, hist>>
-----------------------------------------------------------------------------
(***************************************************************************)
(* Assessments of a workspace that changed under the assessor              *)
(***************************************************************************)

\* saveReviewRecovery: one slot, which a second such review overwrites.
SaveReview ==
    /\ "drift" \in Events
    /\ \E a \in Executing, outcome \in {"approved", "changes-required"} :
         LET r == [assignment |-> a, outcome |-> outcome]
         IN /\ a.role = Assessor
            /\ run' = [run EXCEPT !.recovery = r]
            /\ replies' = replies \cup {r}
    /\ hist' = [hist EXCEPT !.drifted = TRUE]
    /\ UNCHANGED <<patch, running>>

\* The review r is done with: Applied, if it still holds the slot.
Applied(s, r) == IF s.recovery # None /\ s.recovery.assignment.id = r.assignment.id
                 THEN [s EXCEPT !.recovery = None] ELSE s

\* Mutant of Finished: an approval is recorded like any other result.
FinishedLikeAny(r) ==
    LET a == r.assignment
    IN IF Accepts(run, a, r.outcome) THEN Gated(Apply(run, a, r.outcome, a.revision))
       ELSE {Pause(run, "review-workspace-drift")}

\* finishReviewRecovery: an approval pauses the run, whatever it does
\* meanwhile; a rejection is recorded like any other, and then marked applied.
Finished(r) ==
    LET a == r.assignment
        recorded == IF Accepts(run, a, r.outcome)
                    THEN Gated(Apply(run, a, r.outcome, a.revision)) ELSE {run}
    IN IF r.outcome = "approved" THEN {Pause(run, "review-workspace-drift")}
       ELSE IF Accepts(run, a, r.outcome) \/ Superseded(a)
       THEN {Applied(s, r) : s \in recorded} \cup (IF "crash" \in Events THEN recorded ELSE {})
       ELSE DriveFailed(run)

FinishReview ==
    /\ \E r \in replies :
         /\ run' \in Finished(r)
         /\ replies' = replies \ {r}
         /\ running' = running \ {r.assignment}
    /\ UNCHANGED <<patch, hist>>

\* recoverReview away from assessment: a review that was counted is applied.
MarkCounted(s) ==
    IF /\ s.stage # "assessing" /\ s.recovery # None
       /\ \E x \in s.assessments : x.id = s.recovery.assignment.id
    THEN [s EXCEPT !.recovery = None] ELSE s

\* recoverReview in assessment: the saved review is checked against the
\* candidate, becomes pending again (without the checks of Assign) and is
\* finished like the original.
Recovered(s) ==
    LET r == s.recovery
        a == r.assignment
        again == [s EXCEPT !.pending = @ \cup {a}]
    IN IF s.stage # "assessing" \/ r = None THEN {s}
       ELSE IF \/ a.revision # patch \/ a.revision # s.diff
               \/ \E x \in s.assessments : x.id = a.id
       THEN {Pause(s, "review-recovery-invalid")}
       ELSE (IF r.outcome = "approved" THEN {Pause(again, "review-workspace-drift")}
             ELSE IF ~Accepts(again, a, r.outcome) THEN {again}
             ELSE Gated([Apply(again, a, r.outcome, a.revision) EXCEPT !.recovery = None]))
            \cup (IF "crash" \in Events THEN {again} ELSE {})

-----------------------------------------------------------------------------
(***************************************************************************)
(* sdlc resume: what the operator may do about a pause                     *)
(***************************************************************************)

\* Every resume looks for a saved review before it drives on.
ResumeTo(s) == run' \in Recovered(MarkCounted(s))

ResumeInjection ==
    /\ DriverFree
    /\ run.stage = "paused" /\ run.outcome = "injection-review-required"
    /\ run.pendingPhase # ""
    /\ ResumeTo([Restarted(run, run.pendingPhase) EXCEPT !.pendingPhase = ""])
    /\ UNCHANGED <<patch, running, replies, hist>>

\* continueBudgetTree, after the operator extended the budgets: pending
\* assignments are kept, paused or draining.
ContinueBudget ==
    LET phase == IF run.budgetPhase # "" THEN run.budgetPhase ELSE run.pendingPhase
    IN /\ DriverFree
       /\ run.outcome = "budget-exhausted" /\ phase # ""
       /\ ResumeTo([Restarted(run, phase) EXCEPT !.budgetPhase = ""])
       /\ UNCHANGED <<patch, running, replies, hist>>

\* invocation-timeout with --retry-failed, session-recovery-required with
\* --session-strategy fresh.
ResumeInvocation ==
    /\ DriverFree
    /\ run.stage = "paused"
    /\ run.outcome \in {"invocation-timeout", "session-recovery-required"}
    /\ run.retryPhase # ""
    /\ ResumeTo([Restarted(run, run.retryPhase) EXCEPT !.retryPhase = ""])
    /\ UNCHANGED <<patch, running, replies, hist>>

\* --retry-failed clears exclusions and counts, keeps the assessments, and
\* returns to the stage of the role that failed.
RetryStage(s) ==
    CASE s.outcome = "planner-failed"           -> "planning"
      [] s.outcome = "implementer-failed"       -> "implementing"
      [] s.outcome \in {"assessor-failed", "review-workspace-drift",
                        "review-recovery-invalid"} -> "assessing"
      [] s.outcome = "handoff-budget-exhausted" -> s.pendingPhase
      [] OTHER                                  -> ""

Retried(s) ==
    LET t == [Restarted(s, RetryStage(s)) EXCEPT
                !.pendingPhase = IF s.outcome = "handoff-budget-exhausted" THEN "" ELSE @,
                !.excluded = {}, !.deferred = {}, !.handoffs = 0,
                !.fallbackUsed = FALSE, !.lastHandoff = None, !.noProgress = 0,
                !.recovery = IF s.outcome \in {"review-workspace-drift",
                                               "review-recovery-invalid"} THEN None ELSE @]
    IN IF s.outcome = "review-recovery-invalid"
       THEN [t EXCEPT !.diff = patch, !.assessments = {}] ELSE t

RetryFailed ==
    /\ DriverFree
    /\ run.stage = "paused" /\ RetryStage(run) # ""
    /\ run' \in Recovered(Retried(MarkCounted(run)))
    /\ hist' = IF run'.diff = run.diff THEN hist ELSE Unseen
    /\ UNCHANGED <<patch, running, replies>>

RetryVerification ==
    /\ DriverFree
    /\ run.stage = "paused" /\ run.outcome = "verification-environment-failed"
    /\ run' = MarkCounted(Restarted(run, "verifying"))
    /\ UNCHANGED <<patch, running, replies, hist>>

\* A plain resume of any other pause takes up a decision left open.
ResumeDecision ==
    /\ DriverFree
    /\ run.stage = "paused" /\ run.pendingDecision # ""
    /\ run.outcome \notin
          {"budget-exhausted", "invocation-timeout", "session-recovery-required",
           "injection-review-required", "plan-approval-required",
           "command-authorization-required"}
    /\ DecideAgain(MarkCounted(run))
    /\ UNCHANGED <<patch, running, replies>>

\* sdlcResume on a run that is being assessed: only the saved review matters.
ResumeReview ==
    /\ DriverFree /\ run.stage = "assessing" /\ run.recovery # None
    /\ run' \in Recovered(run)
    /\ UNCHANGED <<patch, running, replies, hist>>

\* sdlcApprovePlan locks the plan and authorizes its checks.
ApprovePlan ==
    /\ DriverFree
    /\ RequirePlanApproval /\ run.plan # None /\ run.approvedPlan # run.plan
    /\ run.stage # "done"
    /\ run.stage = "paused" => run.outcome = "plan-approval-required"
    /\ LET s == [run EXCEPT !.approvedPlan = run.plan, !.authorized = run.plan]
       IN run' = IF run.stage = "paused"
                 THEN [Restarted(s, s.pendingPhase) EXCEPT !.pendingPhase = ""] ELSE s
    /\ UNCHANGED <<patch, running, replies, hist>>

\* sdlcAuthorizeChecks
AuthorizeChecks ==
    /\ DriverFree
    /\ run.plan \in ArgvPlans /\ run.authorized # run.plan
    /\ run.stage = "paused" => run.outcome \in {"command-authorization-required",
                                                "plan-approval-required"}
    /\ LET s == [run EXCEPT !.authorized = run.plan]
       IN run' = IF run.stage = "paused" /\ run.outcome = "command-authorization-required"
                 THEN [Restarted(s, s.pendingPhase) EXCEPT !.pendingPhase = ""] ELSE s
    /\ UNCHANGED <<patch, running, replies, hist>>

\* sdlcRequestPlanChanges
RequestPlanChanges ==
    /\ DriverFree
    /\ run.stage = "paused" /\ run.outcome = "plan-approval-required"
    /\ run.pending = {}
    /\ run' = [Restarted(run, "planning") EXCEPT
                 !.approvedPlan = None, !.authorized = None, !.pendingDecision = "",
                 !.pendingPhase = "", !.queue = {}, !.reviews = {}, !.after = ""]
    /\ UNCHANGED <<patch, running, replies, hist>>

-----------------------------------------------------------------------------
Drive == \/ PlanApprovalGate \/ AssignNext \/ NobodyEligible \/ BudgetStops
         \/ LaunchReviews \/ Verify \/ RetrySpecialistDecision \/ DriverError

Invocation == \/ Report \/ FailAssignment \/ LoseSession \/ InjectionReview
              \/ UnsafeReview \/ CancelReview \/ SaveReview \/ FinishReview
              \/ Crash

Resume == \/ ResumeInjection \/ ContinueBudget \/ ResumeInvocation
          \/ RetryFailed \/ RetryVerification \/ ResumeDecision
          \/ ResumeReview \/ ApprovePlan \/ AuthorizeChecks
          \/ RequestPlanChanges

Next == Drive \/ Invocation \/ Resume

Spec == Init /\ [][Next]_vars
-----------------------------------------------------------------------------
(***************************************************************************)
(* Safety                                                                  *)
(***************************************************************************)

ApprovedRun == run.stage = "done" /\ run.outcome = "approved"

Votes == {[by |-> BindingOf[x.agent], approves |-> x.approved] : x \in run.assessments}

\* The assessments implement CandidateApproval: independence from the author
\* and from each other, a decision by a quorum that agrees, nothing counted for
\* another candidate, and a final decision (Assign, and apply in Assessing).
Approval == INSTANCE CandidateApproval WITH
    candidate <- run.diff, author <- run.implementer, votes <- Votes,
    approved <- ApprovedRun

RefinesApproval == Approval!ApprovalSpec

\* Every assessment that approves a run is of exactly its candidate, enough of
\* them are of different bindings, none is the implementer's, and no check
\* receipt stands against the candidate.
ApprovedByQuorum ==
    ApprovedRun =>
        /\ Cardinality({v.by : v \in Votes}) >= Quorum
        /\ \A v \in Votes : v.approves /\ v.by # run.implementer
        /\ \A x \in run.assessments : x.revision = run.diff
        /\ ChecksAllowCompletion(run)

\* Failures, retries and restarts between a rejection and the approval never
\* let a candidate through that an assessor or an expert rejected: the repair
\* feedback is about another candidate (AcceptedRejection).
ApprovedIsUnrejected == ApprovedRun => run.repair # run.diff

\* Only a candidate is approved, and the supervisor's checks passed for it or
\* there were none to run, whatever was retried in between
\* (sdlcEnsureVerification before the first assessment).
ApprovedWasVerified == ApprovedRun => run.diff # None /\ hist.verified

\* Every expert the router demanded for the approved candidate approved it;
\* no pause, retry or budget stop drops one from the queue
\* (scheduleSpecialists, SpecialistQueue).
ExpertsHeard ==
    ApprovedRun => hist.demanded \subseteq {r.role : r \in {q \in run.reviews : q.approved}}

\* A pending reviewer reads from disk the candidate it was assigned: no patch
\* is written under it (sdlcRecordResultLocked writes patch.diff first).
ReviewersReadCandidate ==
    \A a \in run.pending :
        a.role \in Reviewers => a.revision = run.diff /\ patch = run.diff

\* A candidate made by an implementer of this run is approved only under the
\* plan that was approved and whose commands were authorized, also after that
\* plan was sent back and replaced (sdlcPlanApprovalGateLocked).
ApprovedPlanOnly ==
    ApprovedRun /\ run.implementer # None =>
        /\ RequirePlanApproval => run.approvedPlan = run.plan
        /\ run.plan \in ArgvPlans => run.authorized = run.plan

\* The review stage never waits for nobody: a reviewer is pending, or one more
\* may be assigned ("unfinished review stage with no pending work").
ReviewStageHasWork ==
    run.stage = "assessing" => run.pending # {} \/ SlotsNeeded(run) > 0

\* What an assessor at work may say fits the stage its result is applied in:
\* no phase left over from a budget pause turns a review into an error
\* (State.apply restores BudgetPhase before it looks at the stage).
RepliesFit ==
    \A a \in run.pending \cap running :
        a.role = Assessor /\ run.stage = "assessing" => Accepts(run, a, "approved")

\* An approval given while the workspace changed is not counted; the
\* candidate is assessed again (finishReviewRecovery).
DriftedApprovalNotCounted ==
    run.recovery # None /\ run.recovery.outcome = "approved" =>
        \A x \in run.assessments : x.id # run.recovery.assignment.id

\* The decision is final: no late result, failure or resume reopens it.
DoneIsFinal == [][ApprovedRun => UNCHANGED <<run, patch>>]_vars

\* Once a rejection of the candidate is recorded, the candidate is not
\* assessed any further; it is repaired (AcceptedRejection).
RejectionStands ==
    [][run.repair # None /\ run.repair = run.diff /\ run'.diff = run.diff
         => ~(run.stage # "assessing" /\ run'.stage = "assessing")]_vars

\* No resume leaves a run in no stage, or paused for no reason (every resume
\* restores a saved phase: PendingPhase, BudgetPhase, RetryPhase).
PhaseRestored == run.stage # "" /\ (run.stage = "paused" => run.outcome # "")

-----------------------------------------------------------------------------
(***************************************************************************)
(* Liveness.  sdlcDriveUntilDone drives on until the run pauses or is done, *)
(* and every worker is stopped by its timeout at the latest, so it replies *)
(* or fails.  Nothing is promised while a driver may die over and over, or  *)
(* an operator is waited for.                                              *)
(***************************************************************************)
FairSpec ==
    /\ Spec
    /\ WF_vars(Drive) /\ WF_vars(LaunchReviews)
    /\ WF_vars(Report)
    /\ WF_vars(CancelReview)
    /\ WF_vars(FinishReview)

\* Every invocation that was reserved is launched and its result recorded, or
\* it is dropped by a pause, also when budgets run out between the two
\* (sdlcDriveParallelReviews).
ReservedIsResolved ==
    \A i \in Invocations :
        (\E a \in run.pending : a.id = i) ~> (\A a \in run.pending : a.id # i)

\* A drain ends: what was admitted finishes, and the run pauses or goes on.
DrainEnds == run.stage = "draining" ~> run.stage # "draining"
=============================================================================
