------------------------- MODULE AdaptiveRunProofs -------------------------
(***************************************************************************)
(* Theorems about AdaptiveRun, for every enrollment, quorum, concurrency,  *)
(* number of plans and candidates, and every subset of the events.         *)
(***************************************************************************)
EXTENDS AdaptiveRun, FiniteSetTheorems, TLAPS

History == [verified : BOOLEAN, demanded : SUBSET Experts, drifted : BOOLEAN]

-----------------------------------------------------------------------------
(***************************************************************************)
(* The operators of AdaptiveState return saved states                      *)
(***************************************************************************)

\* Setting one field of a saved state to a value of its type leaves it a state.
LEMMA Update ==
  ASSUME NEW s \in RunState
  PROVE
    /\ \A x \in Stages : [s EXCEPT !.stage = x] \in RunState
    /\ \A x \in Outcomes : [s EXCEPT !.outcome = x] \in RunState
    /\ \A x \in Plans \cup {None} : [s EXCEPT !.plan = x] \in RunState
    /\ \A x \in Candidates \cup {None} : [s EXCEPT !.diff = x] \in RunState
    /\ \A x \in SUBSET Assignment : [s EXCEPT !.pending = x] \in RunState
    /\ \A x \in SUBSET Assessment : [s EXCEPT !.assessments = x] \in RunState
    /\ \A x \in {"none", "passed", "failed"} : [s EXCEPT !.receipts = x] \in RunState
    /\ \A x \in Candidates \cup {None} : [s EXCEPT !.receiptsFor = x] \in RunState
    /\ \A x \in SUBSET Bindings : [s EXCEPT !.excluded = x] \in RunState
    /\ \A x \in SUBSET Bindings : [s EXCEPT !.deferred = x] \in RunState
    /\ \A x \in Nat : [s EXCEPT !.handoffs = x] \in RunState
    /\ \A x \in Bindings \cup {None} : [s EXCEPT !.lastHandoff = x] \in RunState
    /\ \A x \in BOOLEAN : [s EXCEPT !.fallbackUsed = x] \in RunState
    /\ \A x \in Bindings \cup {None} : [s EXCEPT !.implementer = x] \in RunState
    /\ \A x \in Nat : [s EXCEPT !.noProgress = x] \in RunState
    /\ \A x \in Candidates \cup {None} : [s EXCEPT !.repair = x] \in RunState
    /\ \A x \in SUBSET Experts : [s EXCEPT !.queue = x] \in RunState
    /\ \A x \in SUBSET Review : [s EXCEPT !.reviews = x] \in RunState
    /\ \A x \in {"", "implementing", "verifying"} : [s EXCEPT !.after = x] \in RunState
    /\ \A x \in {"", "plan", "diff"} : [s EXCEPT !.pendingDecision = x] \in RunState
    /\ \A x \in Stages : [s EXCEPT !.pendingPhase = x] \in RunState
    /\ \A x \in Stages : [s EXCEPT !.budgetPhase = x] \in RunState
    /\ \A x \in Stages : [s EXCEPT !.retryPhase = x] \in RunState
    /\ \A x \in Plans \cup {None} : [s EXCEPT !.approvedPlan = x] \in RunState
    /\ \A x \in Plans \cup {None} : [s EXCEPT !.authorized = x] \in RunState
    /\ \A x \in Recovery \cup {None} : [s EXCEPT !.recovery = x] \in RunState
<1>1. \A x \in Stages : [s EXCEPT !.stage = x] \in RunState
  BY DEF RunState
<1>2. \A x \in Outcomes : [s EXCEPT !.outcome = x] \in RunState
  BY DEF RunState
<1>3. \A x \in Plans \cup {None} : [s EXCEPT !.plan = x] \in RunState
  BY DEF RunState
<1>4. \A x \in Candidates \cup {None} : [s EXCEPT !.diff = x] \in RunState
  BY DEF RunState
<1>5. \A x \in SUBSET Assignment : [s EXCEPT !.pending = x] \in RunState
  BY DEF RunState
<1>6. \A x \in SUBSET Assessment : [s EXCEPT !.assessments = x] \in RunState
  BY DEF RunState
<1>7. \A x \in {"none", "passed", "failed"} : [s EXCEPT !.receipts = x] \in RunState
  BY DEF RunState
<1>8. \A x \in Candidates \cup {None} : [s EXCEPT !.receiptsFor = x] \in RunState
  BY DEF RunState
<1>9. \A x \in SUBSET Bindings : [s EXCEPT !.excluded = x] \in RunState
  BY DEF RunState
<1>10. \A x \in SUBSET Bindings : [s EXCEPT !.deferred = x] \in RunState
  BY DEF RunState
<1>11. \A x \in Nat : [s EXCEPT !.handoffs = x] \in RunState
  BY DEF RunState
<1>12. \A x \in Bindings \cup {None} : [s EXCEPT !.lastHandoff = x] \in RunState
  BY DEF RunState
<1>13. \A x \in BOOLEAN : [s EXCEPT !.fallbackUsed = x] \in RunState
  BY DEF RunState
<1>14. \A x \in Bindings \cup {None} : [s EXCEPT !.implementer = x] \in RunState
  BY DEF RunState
<1>15. \A x \in Nat : [s EXCEPT !.noProgress = x] \in RunState
  BY DEF RunState
<1>16. \A x \in Candidates \cup {None} : [s EXCEPT !.repair = x] \in RunState
  BY DEF RunState
<1>17. \A x \in SUBSET Experts : [s EXCEPT !.queue = x] \in RunState
  BY DEF RunState
<1>18. \A x \in SUBSET Review : [s EXCEPT !.reviews = x] \in RunState
  BY DEF RunState
<1>19. \A x \in {"", "implementing", "verifying"} : [s EXCEPT !.after = x] \in RunState
  BY DEF RunState
<1>20. \A x \in {"", "plan", "diff"} : [s EXCEPT !.pendingDecision = x] \in RunState
  BY DEF RunState
<1>21. \A x \in Stages : [s EXCEPT !.pendingPhase = x] \in RunState
  BY DEF RunState
<1>22. \A x \in Stages : [s EXCEPT !.budgetPhase = x] \in RunState
  BY DEF RunState
<1>23. \A x \in Stages : [s EXCEPT !.retryPhase = x] \in RunState
  BY DEF RunState
<1>24. \A x \in Plans \cup {None} : [s EXCEPT !.approvedPlan = x] \in RunState
  BY DEF RunState
<1>25. \A x \in Plans \cup {None} : [s EXCEPT !.authorized = x] \in RunState
  BY DEF RunState
<1>26. \A x \in Recovery \cup {None} : [s EXCEPT !.recovery = x] \in RunState
  BY DEF RunState
<1>q. QED BY <1>1, <1>2, <1>3, <1>4, <1>5, <1>6, <1>7, <1>8, <1>9, <1>10, <1>11, <1>12, <1>13, <1>14, <1>15, <1>16, <1>17, <1>18, <1>19, <1>20, <1>21, <1>22, <1>23, <1>24, <1>25, <1>26

\* The fields of a saved state have their types.
LEMMA Fields ==
  ASSUME NEW s \in RunState
  PROVE
    /\ s.stage \in Stages
    /\ s.outcome \in Outcomes
    /\ s.plan \in Plans \cup {None}
    /\ s.diff \in Candidates \cup {None}
    /\ s.pending \in SUBSET Assignment
    /\ s.assessments \in SUBSET Assessment
    /\ s.receipts \in {"none", "passed", "failed"}
    /\ s.receiptsFor \in Candidates \cup {None}
    /\ s.excluded \in SUBSET Bindings
    /\ s.deferred \in SUBSET Bindings
    /\ s.handoffs \in Nat
    /\ s.lastHandoff \in Bindings \cup {None}
    /\ s.fallbackUsed \in BOOLEAN
    /\ s.implementer \in Bindings \cup {None}
    /\ s.noProgress \in Nat
    /\ s.repair \in Candidates \cup {None}
    /\ s.queue \in SUBSET Experts
    /\ s.reviews \in SUBSET Review
    /\ s.after \in {"", "implementing", "verifying"}
    /\ s.pendingDecision \in {"", "plan", "diff"}
    /\ s.pendingPhase \in Stages
    /\ s.budgetPhase \in Stages
    /\ s.retryPhase \in Stages
    /\ s.approvedPlan \in Plans \cup {None}
    /\ s.authorized \in Plans \cup {None}
    /\ s.recovery \in Recovery \cup {None}
BY DEF RunState

\* Only a reviewer of the candidate asks for changes.
LEMMA ReviewerRevision ==
  ASSUME NEW a \in Assignment, "changes-required" \in WorkerOutcomes(a.role)
  PROVE  a.revision \in Candidates \cup {None}
<1>1. a.role \notin Makers
  BY DEF WorkerOutcomes, Makers, PlanExperts, Planner, Implementer, Assessor
<1>q. QED BY <1>1 DEF Assignment

\* State.Pause, for a known reason, saves a state of its type.
LEMMA PauseType ==
  ASSUME NEW s \in RunState, NEW reason \in Outcomes
  PROVE  Pause(s, reason) \in RunState
<1>1. "paused" \in Stages /\ "draining" \in Stages /\ s.stage \in Stages
      /\ s.budgetPhase \in Stages /\ s.retryPhase \in Stages /\ {} \in SUBSET Assignment
  BY Fields DEF Stages
<1>2. CASE reason = "budget-exhausted"
  BY <1>1, <1>2, Update DEF Pause
<1>3. CASE reason # "budget-exhausted"
  BY <1>1, <1>3, Update DEF Pause
<1>q. QED BY <1>2, <1>3

\* A changed candidate (InvalidateOnCandidateChange) leaves a state of its type.
LEMMA InvalidateType ==
  ASSUME NEW s \in RunState
  PROVE  Invalidate(s) \in RunState
BY Update DEF Invalidate

\* Restoring a saved phase and clearing the outcome leaves a state of its type.
LEMMA RestartType ==
  ASSUME NEW s \in RunState, NEW stage \in Stages
  PROVE  [s EXCEPT !.stage = stage, !.outcome = ""] \in RunState
<1>1. "" \in Outcomes
  BY DEF Outcomes
<1>q. QED BY <1>1, Update

\* Whatever the checks say, ApplyVerificationResult saves a state of its type.
LEMMA VerifiedType ==
  ASSUME NEW s \in RunState,
         NEW verdict \in {"skipped", "passed", "failed", "invalidated", "environment"}
  PROVE  Verified(s, verdict) \in RunState
<1>1. "assessing" \in Stages /\ "implementing" \in Stages /\ "" \in Outcomes
      /\ "verification-environment-failed" \in Outcomes
      /\ s.diff \in Candidates \cup {None} /\ {} \in SUBSET Assignment
  BY Fields DEF Stages, Working, Outcomes
<1>2. CASE verdict = "skipped"
  BY <1>1, <1>2, Update DEF Verified
<1>3. CASE verdict = "passed"
  BY <1>1, <1>3, Update DEF Verified
<1>4. CASE verdict = "failed"
  BY <1>1, <1>4, Update DEF Verified
<1>5. CASE verdict = "invalidated"
  BY <1>1, <1>5, InvalidateType, Update DEF Verified
<1>6. CASE verdict = "environment"
  <2>1. [s EXCEPT !.receipts = "failed", !.receiptsFor = s.diff] \in RunState
    BY <1>1, Update
  <2>q. QED BY <2>1, <1>1, <1>6, PauseType DEF Verified
<1>q. QED BY <1>2, <1>3, <1>4, <1>5, <1>6

\* Readmitting the last binding that handed off leaves a state of its type.
LEMMA WithFallbackType ==
  ASSUME NEW s \in RunState, NEW role
  PROVE  WithFallback(s, role) \in RunState
<1>1. s.deferred \ {s.lastHandoff} \in SUBSET Bindings
  BY Fields
<1>q. QED BY <1>1, Update DEF WithFallback

\* Taking a result off the pending assignments, and ending a drain, keeps the type.
LEMMA TakenType ==
  ASSUME NEW s \in RunState, NEW a
  PROVE  Taken(s, a) \in RunState
<1>1. s.stage \in Stages /\ s.budgetPhase \in Stages /\ "" \in Stages /\ "" \in Outcomes
      /\ s.outcome \in Outcomes /\ s.pending \ {a} \in SUBSET Assignment
  BY Fields DEF Stages, Outcomes
<1>2. CASE s.budgetPhase = ""
  BY <1>1, <1>2, Update DEF Taken
<1>3. CASE s.budgetPhase # ""
  BY <1>1, <1>3, Update DEF Taken
<1>q. QED BY <1>2, <1>3

\* Ending a chain of handoffs keeps the type.
LEMMA SettledType ==
  ASSUME NEW s \in RunState
  PROVE  Settled(s) \in RunState
BY Update DEF Settled

\* A handoff, counted or one too many, saves a state of its type.
LEMMA AfterHandoffType ==
  ASSUME NEW s \in RunState, NEW a \in Assignment
  PROVE  AfterHandoff(s, a) \in RunState
<1>1. BindingOf[a.agent] \in Bindings
  BY StateConstants DEF Assignment
<1>2. CASE s.handoffs >= MaxHandoffs
  <2>1. [s EXCEPT !.pendingPhase = s.stage] \in RunState
    BY Fields, Update
  <2>2. "handoff-budget-exhausted" \in Outcomes
    BY DEF Outcomes
  <2>q. QED BY <2>1, <2>2, <1>2, PauseType DEF AfterHandoff
<1>3. CASE ~(s.handoffs >= MaxHandoffs)
  <2>0. s.handoffs \in Nat
    BY Fields
  <2>1. s.handoffs + 1 \in Nat
    BY <2>0
  <2>3. s.deferred \cup {BindingOf[a.agent]} \in SUBSET Bindings
    BY <1>1, Fields
  <2>2. BindingOf[a.agent] \in Bindings \cup {None}
    BY <1>1
  <2>q. QED BY <2>1, <2>2, <2>3, <1>3, Update DEF AfterHandoff
<1>q. QED BY <1>2, <1>3

\* A failed invocation or authentication excludes bindings only.
LEMMA AfterExclusionType ==
  ASSUME NEW s \in RunState, NEW a \in Assignment, NEW outcome
  PROVE  AfterExclusion(s, a, outcome) \in RunState
<1> DEFINE b == BindingOf[a.agent]
           bad == IF outcome = "auth-failed"
                  THEN {c \in Bindings : RuntimeOf[c] = RuntimeOf[b]} ELSE {b}
<1>1. b \in Bindings
  BY StateConstants DEF Assignment
<1>2. s.excluded \cup bad \in SUBSET Bindings
  BY <1>1, Fields
<1> HIDE DEF bad
<1>3. [s EXCEPT !.excluded = s.excluded \cup bad] \in RunState
  BY <1>2, Update
<1>q. QED BY <1>3 DEF AfterExclusion, bad

\* An implementation without progress, counted or one too many, keeps the type.
LEMMA NoProgressType ==
  ASSUME NEW s \in RunState
  PROVE  NoProgress(s) \in RunState
<1>0. s.noProgress \in Nat /\ "implementer-failed" \in Outcomes
  BY Fields DEF Outcomes
<1>1. s.noProgress + 1 \in Nat
  BY <1>0
<1>2. [s EXCEPT !.noProgress = s.noProgress + 1] \in RunState
  BY <1>1, Update
<1>q. QED BY <1>0, <1>2, PauseType DEF NoProgress

\* A planner's result saves a state of its type.
LEMMA AfterPlanningType ==
  ASSUME NEW s \in RunState, NEW outcome \in {"answer", "planned", "failed"}, NEW revision,
         outcome = "planned" => revision \in Plans
  PROVE  AfterPlanning(s, outcome, revision) \in RunState
<1>1. {"done", "implementing", "paused"} \subseteq Stages
      /\ {"answer", "planner-failed"} \subseteq Outcomes
  BY DEF Stages, Working, Outcomes
<1>q. QED BY <1>1, Update DEF AfterPlanning

\* An implementer's result saves a state of its type.
LEMMA AfterImplementingType ==
  ASSUME NEW s \in RunState, NEW a \in Assignment,
         NEW outcome \in {"answer", "changed", "failed"}, NEW revision,
         outcome = "changed" => revision \in Candidates
  PROVE  AfterImplementing(s, a, outcome, revision) \in RunState
<1>1. {"done", "verifying", "paused"} \subseteq Stages
      /\ {"answer", "implementer-failed"} \subseteq Outcomes
      /\ BindingOf[a.agent] \in Bindings \cup {None}
  BY StateConstants DEF Stages, Working, Outcomes, Assignment
<1>2. CASE outcome = "answer"
  BY <1>1, <1>2, Update, NoProgressType DEF AfterImplementing
<1>3. CASE outcome = "changed"
  <2>1. Invalidate(s) \in RunState /\ NoProgress(s) \in RunState
    BY InvalidateType, NoProgressType
  <2> HIDE DEF Invalidate, NoProgress
  <2>2. [Invalidate(s) EXCEPT !.diff = revision, !.stage = "verifying",
                              !.implementer = BindingOf[a.agent]] \in RunState
    BY <1>1, <1>3, <2>1, Update
  <2>q. QED BY <1>3, <2>1, <2>2 DEF AfterImplementing
<1>4. CASE outcome = "failed"
  BY <1>1, <1>4, Update DEF AfterImplementing
<1>q. QED BY <1>2, <1>3, <1>4

\* An expert's result for a queued role saves a state of its type.
LEMMA AfterSpecializingType ==
  ASSUME NEW s \in RunState, NEW a \in Assignment,
         NEW outcome \in {"approved", "changes-required", "failed"},
         outcome \in WorkerOutcomes(a.role),
         outcome # "failed" => a.role \in s.queue
  PROVE  AfterSpecializing(s, a, outcome) \in RunState
<1>1. CASE outcome = "failed"
  <2>1. "expert-failed" \in Outcomes
    BY DEF Outcomes
  <2>q. QED BY <1>1, <2>1, PauseType DEF AfterSpecializing
<1>2. CASE outcome # "failed"
  <2> DEFINE heard == [s EXCEPT !.queue = s.queue \ {a.role},
                         !.reviews = s.reviews \cup {[role |-> a.role, agent |-> a.agent,
                                                      approved |-> outcome = "approved"]}]
  <2>1. a.role \in Experts /\ a.agent \in Agents
    BY <1>2, Fields DEF Assignment
  <2>2. [role |-> a.role, agent |-> a.agent, approved |-> outcome = "approved"] \in Review
    BY <2>1 DEF Review
  <2>3. /\ s.queue \ {a.role} \in SUBSET Experts
        /\ s.reviews \cup {[role |-> a.role, agent |-> a.agent,
                            approved |-> outcome = "approved"]} \in SUBSET Review
    BY <2>2, Fields
  <2>4. heard \in RunState
    BY <2>3, Update
  <2> HIDE DEF heard
  <2>5. CASE outcome = "changes-required"
    <3>1. a.revision \in Candidates \cup {None}
      BY <2>5, ReviewerRevision
    <3>2. "implementing" \in Stages
      BY DEF Stages, Working
    <3>3. [heard EXCEPT !.repair = a.revision, !.queue = {}, !.pending = {},
                        !.stage = "implementing"] \in RunState
      BY <2>4, <3>1, <3>2, Update
    <3>q. QED BY <3>3, <2>5 DEF AfterSpecializing, heard
  <2>6. CASE outcome = "approved"
    <3>1. s.after \in Stages
      BY Fields DEF Stages, Working
    <3>2. [heard EXCEPT !.stage = s.after, !.after = ""] \in RunState
      BY <2>4, <3>1, Update
    <3>q. QED BY <2>4, <3>2, <2>6 DEF AfterSpecializing, heard
  <2>q. QED BY <1>2, <2>5, <2>6
<1>q. QED BY <1>1, <1>2

\* An assessor's result saves a state of its type.
LEMMA AfterAssessingType ==
  ASSUME NEW s \in RunState, NEW a \in Assignment,
         NEW outcome \in {"approved", "changes-required", "failed"},
         outcome = "changes-required" => a.revision \in Candidates \cup {None}
  PROVE  AfterAssessing(s, a, outcome) \in RunState
<1>1. CASE outcome = "failed"
  BY <1>1 DEF AfterAssessing
<1>2. CASE outcome # "failed"
  <2> DEFINE x == [id |-> a.id, agent |-> a.agent, revision |-> a.revision,
                   approved |-> outcome = "approved"]
             counted == [s EXCEPT !.assessments = s.assessments \cup {x}]
  <2>1. x \in Assessment
    BY DEF Assignment, Assessment
  <2> HIDE DEF x
  <2>2. counted \in RunState
    <3>1. s.assessments \cup {x} \in SUBSET Assessment
      BY <2>1, Fields
    <3>q. QED BY <3>1, Update
  <2> HIDE DEF counted
  <2>3. {"implementing", "done", "verifying"} \subseteq Stages /\ {"approved", ""} \subseteq Outcomes
        /\ {} \in SUBSET Assignment /\ {} \in SUBSET Assessment
    BY DEF Stages, Working, Outcomes
  <2>4. ASSUME a.revision \in Candidates \cup {None}
        PROVE  [counted EXCEPT !.repair = a.revision, !.stage = "implementing", !.pending = {}]
                 \in RunState
    BY <2>4, <2>2, <2>3, Update
  <2>5. [counted EXCEPT !.stage = "implementing", !.pending = {}] \in RunState
    BY <2>2, <2>3, Update
  <2>6. [counted EXCEPT !.stage = "done", !.outcome = "approved", !.pending = {}] \in RunState
    BY <2>2, <2>3, Update
  <2>7. [s EXCEPT !.stage = "verifying", !.outcome = "", !.assessments = {}, !.pending = {}]
          \in RunState
    BY <2>3, Update
  <2>8. CASE outcome = "changes-required"
    BY <2>4, <2>8 DEF AfterAssessing, counted, x
  <2>9. CASE outcome = "approved"
    BY <2>2, <2>5, <2>6, <2>7, <2>9 DEF AfterAssessing, counted, x
  <2>q. QED BY <1>2, <2>8, <2>9
<1>q. QED BY <1>1, <1>2

\* A result that State.apply accepts leads to a state.
LEMMA ApplyType ==
  ASSUME NEW s \in RunState, NEW a \in Assignment,
         NEW outcome \in WorkerOutcomes(a.role), NEW revision,
         Accepts(s, a, outcome),
         outcome = "planned" => revision \in Plans,
         outcome = "changed" => revision \in Candidates
  PROVE  Apply(s, a, outcome, revision) \in RunState
<1> DEFINE t == Taken(s, a)
           u == Settled(t)
<1>1. t \in RunState /\ u \in RunState
  BY TakenType, SettledType
<1>2. {"invocation-timeout", "budget-exhausted"} \subseteq Outcomes
  BY DEF Outcomes
<1>a. t.queue = s.queue
  BY DEF Taken, RunState
<1> HIDE DEF t
<1>3. u.stage = t.stage /\ u.queue = t.queue
  BY <1>1 DEF Settled, RunState
<1> HIDE DEF u
<1>4. AfterHandoff(t, a) \in RunState /\ AfterExclusion(u, a, outcome) \in RunState
      /\ Pause(u, "invocation-timeout") \in RunState /\ Pause(u, "budget-exhausted") \in RunState
  BY <1>1, <1>2, AfterHandoffType, AfterExclusionType, PauseType
<1>5. CASE outcome \in {"handoff", "timed-out", "run-time-exhausted", "invocation-failed",
                       "auth-failed"}
  BY <1>4, <1>5 DEF Apply, t, u
<1>6. CASE outcome \notin {"handoff", "timed-out", "run-time-exhausted", "invocation-failed",
                          "auth-failed"}
  <2>1. \/ u.stage = "planning"     /\ outcome \in {"answer", "planned", "failed"}
        \/ u.stage = "implementing" /\ outcome \in {"answer", "changed", "failed"}
        \/ u.stage = "assessing"    /\ outcome \in {"approved", "changes-required", "failed"}
        \/ u.stage = "specializing" /\ outcome \in {"approved", "changes-required", "failed"}
           /\ (outcome # "failed" => a.role \in u.queue)
    BY <1>a, <1>3, <1>6 DEF Accepts, t
  <2>2. CASE u.stage = "planning" /\ outcome \in {"answer", "planned", "failed"}
    <3>1. AfterPlanning(u, outcome, revision) \in RunState
      BY <1>1, <2>2, AfterPlanningType
    <3>q. QED BY <3>1, <2>2, <1>6 DEF Apply, t, u
  <2>3. CASE u.stage = "implementing" /\ outcome \in {"answer", "changed", "failed"}
    <3>1. AfterImplementing(u, a, outcome, revision) \in RunState
      BY <1>1, <2>3, AfterImplementingType
    <3>q. QED BY <3>1, <2>3, <1>6 DEF Apply, t, u
  <2>4. CASE u.stage = "assessing" /\ outcome \in {"approved", "changes-required", "failed"}
    <3>1. outcome = "changes-required" => a.revision \in Candidates \cup {None}
      BY ReviewerRevision
    <3>2. AfterAssessing(u, a, outcome) \in RunState
      BY <1>1, <2>4, <3>1, AfterAssessingType
    <3>q. QED BY <3>2, <2>4, <1>6 DEF Apply, t, u
  <2>5. CASE u.stage = "specializing" /\ outcome \in {"approved", "changes-required", "failed"}
             /\ (outcome # "failed" => a.role \in u.queue)
    <3>1. AfterSpecializing(u, a, outcome) \in RunState
      BY <1>1, <2>5, AfterSpecializingType
    <3>q. QED BY <3>1, <2>5, <1>6 DEF Apply, t, u
  <2>q. QED BY <2>1, <2>2, <2>3, <2>4, <2>5
<1>q. QED BY <1>5, <1>6
-----------------------------------------------------------------------------
(***************************************************************************)
(* The helpers of AdaptiveRun return saved states                          *)
(***************************************************************************)

\* adaptive.New returns a state of its type.
LEMMA FreshType == Fresh \in RunState
BY DEF Fresh, RunState, Stages, Working, Outcomes

\* A run started from given files starts in a state of its type (sdlcStart).
LEMMA SeededType ==
  ASSUME NEW seed \in AllSeeds,
         NEW p \in Plans, NEW c \in Candidates
  PROVE  Seeded(seed, p, c) \in RunState
<1>1. {"implementing", "verifying"} \subseteq Stages
  BY DEF Stages, Working
<1> HIDE DEF Fresh
<1>q. QED BY <1>1, FreshType, Update DEF Seeded, AllSeeds

\* budgetGate, open or closed, saves a state of its type.
LEMMA GatedType ==
  ASSUME NEW s \in RunState
  PROVE  Gated(s) \subseteq RunState
<1>1. "budget-exhausted" \in Outcomes
  BY DEF Outcomes
<1>q. QED BY <1>1, PauseType DEF Gated

\* Every resume to a known phase saves a state of its type.
LEMMA RestartedType ==
  ASSUME NEW s \in RunState, NEW stage \in Stages
  PROVE  Restarted(s, stage) \in RunState
BY RestartType DEF Restarted

\* A decision about a plan or a diff concerns known experts and a known next phase.
LEMMA KindType ==
  ASSUME NEW kind \in {"plan", "diff"}
  PROVE  /\ ExpertsFor(kind) \subseteq Experts
         /\ NextPhase(kind) \in Stages
         /\ NextPhase(kind) \in {"", "implementing", "verifying"}
BY DEF ExpertsFor, NextPhase, Experts, Stages, Working

\* Queueing the demanded experts saves a state of its type (scheduleSpecialists).
LEMMA ScheduledType ==
  ASSUME NEW s \in RunState, NEW kind \in {"plan", "diff"}, NEW needed \in SUBSET Experts
  PROVE  Scheduled(s, kind, needed) \in RunState
<1> DEFINE t == [s EXCEPT !.pendingDecision = "", !.pendingPhase = ""]
<1>1. "" \in Stages /\ "specializing" \in Stages
  BY DEF Stages, Working
<1>2. t \in RunState
  BY <1>1, Update
<1> HIDE DEF t
<1>3. [t EXCEPT !.queue = needed, !.after = NextPhase(kind), !.stage = "specializing"]
        \in RunState
  BY <1>1, <1>2, KindType, Update
<1>q. QED BY <1>2, <1>3 DEF Scheduled, t

\* A decision that cannot be had pauses in a state of its type.
LEMMA UndecidedType ==
  ASSUME NEW s \in RunState, NEW kind \in {"plan", "diff"}
  PROVE  Undecided(s, kind) \subseteq RunState
<1>1. {"budget-exhausted", "specialist-decision-unavailable"} \subseteq Outcomes
  BY DEF Outcomes
<1>2. /\ Pause(s, "budget-exhausted") \in RunState
      /\ Pause(s, "specialist-decision-unavailable") \in RunState
  BY <1>1, PauseType
<1>3. /\ [Pause(s, "budget-exhausted") EXCEPT !.pendingDecision = kind] \in RunState
      /\ [Pause(s, "specialist-decision-unavailable") EXCEPT
             !.pendingDecision = kind, !.pendingPhase = NextPhase(kind)] \in RunState
  BY <1>2, KindType, Update
<1>q. QED BY <1>3 DEF Undecided

\* Every decision about experts keeps the types of the run and of its history.
LEMMA DecideType ==
  ASSUME NEW s \in RunState, NEW kind \in {"plan", "diff"}, NEW h \in History,
         Decide(s, kind, h)
  PROVE  run' \in RunState /\ hist' \in History
<1>1. CASE \E needed \in SUBSET (ExpertsFor(kind) \cap Enrolled) :
             /\ run' = Scheduled(s, kind, needed)
             /\ hist' = IF kind = "diff" THEN [h EXCEPT !.demanded = needed] ELSE h
  <2>1. PICK needed \in SUBSET (ExpertsFor(kind) \cap Enrolled) :
             /\ run' = Scheduled(s, kind, needed)
             /\ hist' = IF kind = "diff" THEN [h EXCEPT !.demanded = needed] ELSE h
    BY <1>1
  <2>2. needed \in SUBSET Experts
    BY KindType
  <2>3. [h EXCEPT !.demanded = needed] \in History
    BY <2>2 DEF History
  <2>q. QED BY <2>1, <2>2, <2>3, ScheduledType
<1>2. CASE run' \in Undecided(s, kind) /\ hist' = h
  BY <1>2, UndecidedType
<1>q. QED BY <1>1, <1>2 DEF Decide

\* Taking up a decision left open keeps the types (retryActiveSpecialistDecision).
LEMMA DecideAgainType ==
  ASSUME NEW s \in RunState, s.pendingDecision # "", hist \in History, DecideAgain(s)
  PROVE  run' \in RunState /\ hist' \in History
<1>1. s.pendingDecision \in {"plan", "diff"} /\ s.pendingPhase \in Stages
  BY Fields
<1>2. CASE Decide(Restarted(s, s.pendingPhase), s.pendingDecision, hist)
  BY <1>1, <1>2, RestartedType, DecideType
<1>3. CASE "budget" \in Events /\ run' = Pause(s, "budget-exhausted") /\ UNCHANGED hist
  <2>1. "budget-exhausted" \in Outcomes
    BY DEF Outcomes
  <2>q. QED BY <1>3, <2>1, PauseType
<1>q. QED BY <1>2, <1>3 DEF DecideAgain

\* The reason a failed role pauses for is a known one.
LEMMA FailedOutcomeType == \A role : FailedOutcome(role) \in Outcomes
BY DEF FailedOutcome, Outcomes

\* pauseDriveError saves a state of its type.
LEMMA DriveFailedType ==
  ASSUME NEW s \in RunState
  PROVE  DriveFailed(s) \subseteq RunState
<1>1. "driver-failed" \in Outcomes
  BY DEF Outcomes
<1>q. QED BY <1>1, FailedOutcomeType, PauseType DEF DriveFailed

\* Pausing for want of another binding saves a state of its type.
LEMMA ReroutedType ==
  ASSUME NEW s \in RunState
  PROVE  Rerouted(s) \subseteq RunState
<1>1. \A role : Pause(s, FailedOutcome(role)) \in RunState
  BY FailedOutcomeType, PauseType
<1>q. QED BY <1>1 DEF Rerouted

\* Marking a counted review as applied keeps the type.
LEMMA MarkCountedType ==
  ASSUME NEW s \in RunState
  PROVE  MarkCounted(s) \in RunState
BY Update DEF MarkCounted

\* recoverReview saves a state of its type, whatever it finds.
LEMMA RecoveredType ==
  ASSUME NEW s \in RunState
  PROVE  Recovered(s) \subseteq RunState
<1> DEFINE r == s.recovery
           a == r.assignment
           again == [s EXCEPT !.pending = s.pending \cup {a}]
<1>1. CASE s.stage # "assessing" \/ r = None
  BY <1>1 DEF Recovered
<1>2. CASE ~(s.stage # "assessing" \/ r = None)
  <2>1. r \in Recovery
    BY <1>2, Fields
  <2>2. a \in Assignment /\ r.outcome \in WorkerOutcomes(a.role)
    BY <2>1 DEF Recovery, Assignment, Reviewers, WorkerOutcomes, Assessor, Planner,
                Implementer, PlanExperts
  <2>3. again \in RunState
    <3>1. s.pending \cup {a} \in SUBSET Assignment
      BY <2>2, Fields
    <3>q. QED BY <3>1, Update
  <2> HIDE DEF r
  <2>4. {"review-recovery-invalid", "review-workspace-drift"} \subseteq Outcomes
    BY DEF Outcomes
  <2> HIDE DEF a, again
  <2>5. Pause(s, "review-recovery-invalid") \in RunState
        /\ Pause(again, "review-workspace-drift") \in RunState
    BY <2>3, <2>4, PauseType
  <2>6. ASSUME Accepts(again, a, r.outcome)
        PROVE  Gated([Apply(again, a, r.outcome, a.revision) EXCEPT !.recovery = None])
                 \subseteq RunState
    <3>1. r.outcome # "planned" /\ r.outcome # "changed"
      BY <2>1 DEF Recovery
    <3>3. Apply(again, a, r.outcome, a.revision) \in RunState
      BY <2>2, <2>3, <2>6, <3>1, ApplyType
    <3>2. [Apply(again, a, r.outcome, a.revision) EXCEPT !.recovery = None] \in RunState
      BY <3>3, Update
    <3>q. QED BY <3>2, GatedType
  <2>q. QED BY <1>2, <2>2, <2>3, <2>5, <2>6 DEF Recovered, r, a, again
<1>q. QED BY <1>1, <1>2

\* Marking a recorded review as applied keeps the type.
LEMMA AppliedType ==
  ASSUME NEW s \in RunState, NEW r
  PROVE  Applied(s, r) \in RunState
BY Update DEF Applied

\* A review finished after its workspace changed saves a state of its type.
LEMMA FinishedType ==
  ASSUME run \in RunState, NEW r \in Recovery
  PROVE  Finished(r) \subseteq RunState
<1> DEFINE a == r.assignment
           recorded == IF Accepts(run, a, r.outcome)
                       THEN Gated(Apply(run, a, r.outcome, a.revision)) ELSE {run}
<1>1. a \in Assignment /\ r.outcome \in WorkerOutcomes(a.role)
      /\ r.outcome # "planned" /\ r.outcome # "changed"
  BY DEF Recovery, Assignment, Reviewers, WorkerOutcomes, Assessor, Planner, Implementer,
         PlanExperts
<1> HIDE DEF a
<1>2. recorded \subseteq RunState
  BY <1>1, ApplyType, GatedType
<1>3. "review-workspace-drift" \in Outcomes
  BY DEF Outcomes
<1> HIDE DEF recorded
<1>4. /\ {Applied(s, r) : s \in recorded} \subseteq RunState
      /\ {Pause(run, "review-workspace-drift")} \subseteq RunState
      /\ DriveFailed(run) \subseteq RunState
  BY <1>2, <1>3, AppliedType, PauseType, DriveFailedType
<1>q. QED BY <1>2, <1>4 DEF Finished, recorded, a

\* --retry-failed returns to a known phase, or nowhere.
LEMMA RetryStageType ==
  ASSUME NEW s \in RunState
  PROVE  RetryStage(s) \in Stages
<1>1. s.pendingPhase \in Stages
  BY Fields
<1>q. QED BY <1>1 DEF RetryStage, Stages, Working

\* --retry-failed saves a state of its type.
LEMMA RetriedType ==
  ASSUME NEW s \in RunState, patch \in Candidates \cup {None}
  PROVE  Retried(s) \in RunState
<1> DEFINE t0 == Restarted(s, RetryStage(s))
           p == IF s.outcome = "handoff-budget-exhausted" THEN "" ELSE t0.pendingPhase
           v == IF s.outcome \in {"review-workspace-drift", "review-recovery-invalid"}
                THEN None ELSE t0.recovery
           t == [t0 EXCEPT !.pendingPhase = p,
                  !.excluded = {}, !.deferred = {}, !.handoffs = 0,
                  !.fallbackUsed = FALSE, !.lastHandoff = None, !.noProgress = 0,
                  !.recovery = v]
<1>1. t0 \in RunState
  BY RetryStageType, RestartedType
<1> HIDE DEF t0
<1>2. p \in Stages /\ v \in Recovery \cup {None} /\ {} \in SUBSET Bindings
  BY <1>1, Fields DEF Stages
<1> HIDE DEF p, v
<1>3. t \in RunState
  BY ZenonT(60), <1>1, <1>2, Update
<1>4. [t EXCEPT !.diff = patch, !.assessments = {}] \in RunState
  BY <1>3, Update
<1>q. QED BY <1>3, <1>4 DEF Retried, t, p, v, t0

\* What an assignment of a wanted role may be.
LEMMA AssignmentType ==
  ASSUME NEW s \in RunState, NEW role \in RolesWanted(run), run \in RunState,
         NEW i \in Invocations, NEW g \in Agents
  PROVE  [id |-> i, role |-> role, agent |-> g, revision |-> TargetRevision(s, role)]
           \in Assignment
<1>1. role \in Reviewers \cup Makers
  <2>1. run.queue \subseteq Experts
    BY Fields
  <2>q. QED BY <2>1 DEF RolesWanted, Reviewers, Makers, Experts, Planner, Implementer,
                        Assessor, PlanExperts, DiffExperts
<1>2. s.diff \in Candidates \cup {None} /\ s.plan \in Plans \cup {None}
  BY Fields
<1>3. CASE role \in Reviewers
  <2>1. TargetRevision(s, role) = s.diff
    BY <1>3 DEF TargetRevision, Reviewers, Planner, Implementer, Assessor, PlanExperts,
                DiffExperts
  <2>2. TargetRevision(s, role) \in Candidates \cup {None}
    BY <1>2, <2>1
  <2>q. QED BY <2>2, <1>3 DEF Assignment
<1>4. CASE role \in Makers
  <2>1. TargetRevision(s, role) \in Plans \cup {None}
    BY <1>2, <1>4 DEF TargetRevision, Makers, Reviewers, Planner, Implementer, Assessor,
                      PlanExperts, DiffExperts
  <2>q. QED BY <2>1, <1>4 DEF Assignment
<1>q. QED BY <1>1, <1>3, <1>4

\* The state sdlcRecordResultLocked saves for a pending result.
LEMMA AcceptedType ==
  ASSUME RunTypeOK, NEW a \in Assignment, NEW outcome \in WorkerOutcomes(a.role),
         NEW revision \in ResultRevisions(a, outcome),
         Accepts(run, a, outcome), Accepted(a, outcome, revision)
  PROVE  run' \in RunState /\ hist' \in History /\ patch' \in Candidates \cup {None}
<1> DEFINE applied == Apply(run, a, outcome, revision)
           s == IF outcome = "planned"
                THEN [applied EXCEPT !.approvedPlan = None, !.authorized = None] ELSE applied
           newCandidate == outcome = "changed" /\ s.diff # run.diff
           h == IF newCandidate THEN Unseen ELSE hist
           kind == IF outcome = "planned" THEN "plan" ELSE "diff"
           open == [s EXCEPT !.pendingDecision = kind, !.pendingPhase = s.stage]
<1>1. run \in RunState /\ hist \in History /\ patch \in Candidates \cup {None}
  BY DEF RunTypeOK, History
<1>2. /\ outcome = "planned" => revision \in Plans
      /\ outcome = "changed" => revision \in Candidates
  BY DEF ResultRevisions
<1>3. applied \in RunState
  BY <1>1, <1>2, ApplyType
<1> HIDE DEF applied
<1>4. s \in RunState
  BY <1>3, Update
<1> HIDE DEF s
<1>5. kind \in {"plan", "diff"} /\ s.stage \in Stages
  BY <1>4, Fields
<1> HIDE DEF kind
<1>6. open \in RunState
  BY <1>4, <1>5, Update
<1> HIDE DEF open
<1>7. h \in History
  BY <1>1 DEF Unseen, History
<1>8. newCandidate => revision \in Candidates
  BY <1>2
<1> HIDE DEF h, newCandidate
<1>9. CASE /\ newCandidate \/ outcome = "planned"
           /\ \/ Decide(open, kind, h)
              \/ "crash" \in Events /\ run' = open /\ hist' = h
              \/ "crash" \in Events /\ UNCHANGED <<run, hist>>
           /\ patch' = IF newCandidate THEN revision ELSE patch
  <2>1. patch' \in Candidates \cup {None}
    BY <1>1, <1>8, <1>9
  <2>2. CASE Decide(open, kind, h)
    BY <2>1, <2>2, <1>5, <1>6, <1>7, DecideType
  <2>3. CASE run' = open /\ hist' = h
    BY <2>1, <2>3, <1>6, <1>7
  <2>4. CASE UNCHANGED <<run, hist>>
    BY <2>1, <2>4, <1>1
  <2>q. QED BY <1>9, <2>2, <2>3, <2>4
<1>10. CASE /\ ~newCandidate /\ outcome # "planned"
            /\ run' \in UNION {Gated(t) : t \in
                  IF outcome \in {"invocation-failed", "auth-failed"} THEN Rerouted(s) ELSE {s}}
            /\ UNCHANGED <<patch, hist>>
  <2>1. (IF outcome \in {"invocation-failed", "auth-failed"} THEN Rerouted(s) ELSE {s})
          \subseteq RunState
    BY <1>4, ReroutedType
  <2>2. run' \in RunState
    BY <2>1, <1>10, GatedType
  <2>q. QED BY <2>2, <1>1, <1>10
<1>q. QED BY <1>9, <1>10 DEF Accepted, applied, s, newCandidate, h, kind, open

-----------------------------------------------------------------------------
(***************************************************************************)
(* Type correctness                                                        *)
(***************************************************************************)

\* The reasons the drivers pause for are known ones.
LEMMA Reasons ==
  {"plan-required", "plan-approval-required", "command-authorization-required",
   "budget-exhausted", "session-recovery-required", "injection-review-required",
   "unsafe-review-artifact", "review-workspace-drift", "driver-failed",
   "assessment-quorum-unavailable"} \subseteq Outcomes
BY DEF Outcomes

\* The phases by name.
LEMMA StageNames == Working \cup {"done", "paused", "draining", ""} \subseteq Stages
BY DEF Stages

\* Every run starts with its type.
LEMMA InitType == Init => RunTypeOK
<1> SUFFICES ASSUME Init PROVE RunTypeOK
  OBVIOUS
<1>1. PICK seed \in Seeds, p \in Plans, c \in Candidates : run = Seeded(seed, p, c)
  BY DEF Init
<1>2. run \in RunState
  BY <1>1, SeededType, RunConstants
<1>3. run.diff \in Candidates \cup {None}
  BY <1>2, Fields
<1>q. QED BY <1>2, <1>3 DEF Init, RunTypeOK, Unseen

\* Each section of a drive keeps the type.
LEMMA DriveKeepsType ==
  ASSUME RunTypeOK, Drive
  PROVE  RunTypeOK'
<1>1. run \in RunState /\ hist \in History /\ running \subseteq Assignment
  BY DEF RunTypeOK, History
<1>2. CASE PlanApprovalGate
  <2> DEFINE reason == IF ~RequirePlanApproval THEN "command-authorization-required"
                       ELSE IF run.plan = None THEN "plan-required"
                       ELSE "plan-approval-required"
  <2>1. Pause(run, reason) \in RunState
    BY <1>1, Reasons, PauseType
  <2> HIDE DEF reason
  <2>2. [Pause(run, reason) EXCEPT !.pendingPhase = "implementing"] \in RunState
    BY <2>1, Update, StageNames DEF Working
  <2>q. QED BY <1>2, <2>2 DEF PlanApprovalGate, RunTypeOK, reason
<1>3. CASE AssignNext
  <2>1. PICK role \in RolesWanted(run) :
         LET s == WithFallback(run, role)
         IN \E g \in Candidate(s, role) :
                 LET i == CHOOSE x \in FreshIds(s) : TRUE
                     a == [id |-> i, role |-> role, agent |-> g,
                           revision |-> TargetRevision(s, role)]
                 IN /\ FreshIds(s) # {}
                    /\ run' = [s EXCEPT !.pending = @ \cup {a}]
                    /\ running' = IF ParallelReviews(s) THEN running
                                  ELSE running \cup {a}
    BY <1>3 DEF AssignNext
  <2> DEFINE s == WithFallback(run, role)
             i == CHOOSE x \in FreshIds(s) : TRUE
  <2>2. s \in RunState
    BY <1>1, WithFallbackType
  <2> HIDE DEF s
  <2>3. PICK g \in Candidate(s, role) :
          LET a == [id |-> i, role |-> role, agent |-> g,
                    revision |-> TargetRevision(s, role)]
          IN /\ FreshIds(s) # {}
             /\ run' = [s EXCEPT !.pending = @ \cup {a}]
             /\ running' = IF ParallelReviews(s) THEN running ELSE running \cup {a}
    BY <2>1 DEF s
  <2> DEFINE a == [id |-> i, role |-> role, agent |-> g,
                   revision |-> TargetRevision(s, role)]
  <2>4. i \in Invocations /\ g \in Agents
    BY <2>3 DEF FreshIds, Candidate, Eligible
  <2> HIDE DEF i
  <2>5. a \in Assignment
    BY <1>1, <2>2, <2>4, AssignmentType
  <2>6. /\ run' = [s EXCEPT !.pending = s.pending \cup {a}]
        /\ running' = running \/ running' = running \cup {a}
    BY <2>3
  <2> HIDE DEF a
  <2>7. s.pending \cup {a} \in SUBSET Assignment
    BY <2>2, <2>5, Fields
  <2>8. run' \in RunState
    BY <2>2, <2>6, <2>7, Update
  <2>9. running' \subseteq Assignment
    BY <1>1, <2>5, <2>6
  <2>q. QED BY <1>3, <2>8, <2>9 DEF AssignNext, RunTypeOK
<1>4. CASE NobodyEligible
  <2>1. PICK role \in RolesWanted(run) :
          \/ run' = Pause(WithFallback(run, role), FailedOutcome(role))
          \/ run' = Pause(WithFallback(run, role), "assessment-quorum-unavailable")
    BY <1>4 DEF NobodyEligible
  <2>2. run' \in RunState
    BY <1>1, <2>1, WithFallbackType, FailedOutcomeType, Reasons, PauseType
  <2>q. QED BY <1>4, <2>2 DEF NobodyEligible, RunTypeOK
<1>5. CASE BudgetStops
  <2>1. run' \in RunState
    BY <1>1, <1>5, Reasons, PauseType DEF BudgetStops
  <2>q. QED BY <1>5, <2>1 DEF BudgetStops, RunTypeOK
<1>6. CASE LaunchReviews
  <2>1. run.pending \subseteq Assignment
    BY <1>1, Fields
  <2>q. QED BY <1>1, <1>6, <2>1 DEF LaunchReviews, RunTypeOK
<1>7. CASE Verify
  <2>1. Verdicts(run) \subseteq {"skipped", "passed", "failed", "invalidated", "environment"}
    BY DEF Verdicts
  <2>2. \A verdict \in Verdicts(run) : Verified(run, verdict) \in RunState
    BY <1>1, <2>1, VerifiedType
  <2>3. run' \in RunState
    BY <1>1, <1>7, <2>2, Reasons, PauseType DEF Verify
  <2>4. hist' \in History
    BY <1>1, <1>7 DEF Verify, History
  <2>q. QED BY <1>7, <2>3, <2>4 DEF Verify, RunTypeOK, History
<1>8. CASE RetrySpecialistDecision
  <2>1. run' \in RunState /\ hist' \in History
    BY <1>1, <1>8, DecideAgainType DEF RetrySpecialistDecision
  <2>q. QED BY <1>8, <2>1 DEF RetrySpecialistDecision, RunTypeOK, History
<1>9. CASE DriverError
  <2>1. run' \in RunState
    BY <1>1, <1>9, DriveFailedType DEF DriverError
  <2>q. QED BY <1>9, <2>1 DEF DriverError, RunTypeOK
<1>q. QED BY <1>2, <1>3, <1>4, <1>5, <1>6, <1>7, <1>8, <1>9 DEF Drive

\* Each section about a worker's result, and a crash, keeps the type.
LEMMA InvocationKeepsType ==
  ASSUME RunTypeOK, Invocation
  PROVE  RunTypeOK'
<1>1. /\ run \in RunState /\ hist \in History /\ running \subseteq Assignment
      /\ patch \in Candidates \cup {None} /\ replies \subseteq Recovery
  BY DEF RunTypeOK, History
<1>2. \A a : running \ {a} \subseteq Assignment
  BY <1>1
<1>3. CASE Report
  <2>1. PICK a \in Executing :
          /\ \E outcome \in WorkerOutcomes(a.role) \cap Replies :
               \E revision \in ResultRevisions(a, outcome) :
                 \/ Accepts(run, a, outcome) /\ Accepted(a, outcome, revision)
                 \/ UNCHANGED <<run, patch, hist>>
                 \/ /\ run' = Pause(run, FailedOutcome(a.role))
                    /\ UNCHANGED <<patch, hist>>
          /\ running' = running \ {a}
          /\ UNCHANGED replies
    BY <1>3 DEF Report, Ignored
  <2>2. a \in Assignment
    BY <1>1 DEF Executing
  <2>3. PICK outcome \in WorkerOutcomes(a.role) :
          \E revision \in ResultRevisions(a, outcome) :
             \/ Accepts(run, a, outcome) /\ Accepted(a, outcome, revision)
             \/ UNCHANGED <<run, patch, hist>>
             \/ /\ run' = Pause(run, FailedOutcome(a.role))
                /\ UNCHANGED <<patch, hist>>
    BY <2>1
  <2>5. PICK revision \in ResultRevisions(a, outcome) :
             \/ Accepts(run, a, outcome) /\ Accepted(a, outcome, revision)
             \/ UNCHANGED <<run, patch, hist>>
             \/ /\ run' = Pause(run, FailedOutcome(a.role))
                /\ UNCHANGED <<patch, hist>>
    BY <2>3
  <2>4. run' \in RunState /\ hist' \in History /\ patch' \in Candidates \cup {None}
    <3>1. CASE Accepts(run, a, outcome) /\ Accepted(a, outcome, revision)
      BY <2>2, <3>1, AcceptedType
    <3>2. CASE UNCHANGED <<run, patch, hist>>
      BY <1>1, <3>2
    <3>3. CASE run' = Pause(run, FailedOutcome(a.role)) /\ UNCHANGED <<patch, hist>>
      BY <1>1, <3>3, FailedOutcomeType, PauseType
    <3>q. QED BY <2>5, <3>1, <3>2, <3>3
  <2>q. QED BY <1>1, <1>2, <2>1, <2>4 DEF RunTypeOK, History
<1>4. CASE FailAssignment
  <2>1. PICK a \in running :
         /\ run' = Pause(run, FailedOutcome(a.role))
         /\ running' = running \ {a}
         /\ replies' = {r \in replies : r.assignment # a}
    BY <1>4 DEF FailAssignment
  <2>2. run' \in RunState
    BY <1>1, <2>1, FailedOutcomeType, PauseType
  <2>3. replies' \subseteq Recovery
    BY <1>1, <2>1
  <2>q. QED BY <1>2, <1>4, <2>1, <2>2, <2>3 DEF FailAssignment, RunTypeOK
<1>5. CASE LoseSession
  <2>1. run' \in RunState /\ running' \subseteq Assignment
    BY <1>1, <1>2, <1>5, Reasons, PauseType DEF LoseSession
  <2>q. QED BY <1>5, <2>1 DEF LoseSession, RunTypeOK
<1>6. CASE InjectionReview
  <2> DEFINE p == IF run.stage = "paused" THEN run.pendingPhase ELSE run.stage
             s == [run EXCEPT !.pendingPhase = p]
  <2>1. p \in Stages
    BY <1>1, Fields
  <2>2. run' = Pause(s, "injection-review-required")
    BY <1>6 DEF InjectionReview
  <2> HIDE DEF p
  <2>3. s \in RunState
    BY <1>1, <2>1, Update
  <2> HIDE DEF s
  <2>4. run' \in RunState
    BY <2>2, <2>3, Reasons, PauseType
  <2>5. running' \subseteq Assignment
    BY <1>2, <1>6 DEF InjectionReview
  <2>q. QED BY <1>6, <2>4, <2>5 DEF InjectionReview, RunTypeOK
<1>7. CASE UnsafeReview
  <2>1. run' \in RunState /\ running' \subseteq Assignment
    BY <1>1, <1>2, <1>7, Reasons, PauseType DEF UnsafeReview
  <2>q. QED BY <1>7, <2>1 DEF UnsafeReview, RunTypeOK
<1>8. CASE CancelReview
  <2>1. PICK a : /\ run' = [run EXCEPT !.pending = run.pending \ {a}]
                 /\ running' = running \ {a}
    BY <1>8 DEF CancelReview
  <2>2. run.pending \ {a} \in SUBSET Assignment
    BY <1>1, Fields
  <2>3. run' \in RunState
    BY <1>1, <2>1, <2>2, Update
  <2>q. QED BY <1>2, <1>8, <2>1, <2>3 DEF CancelReview, RunTypeOK
<1>9. CASE SaveReview
  <2>1. PICK a \in Executing, outcome \in {"approved", "changes-required"} :
         LET r == [assignment |-> a, outcome |-> outcome]
         IN /\ a.role = Assessor
            /\ run' = [run EXCEPT !.recovery = r]
            /\ replies' = replies \cup {r}
    BY <1>9 DEF SaveReview
  <2> DEFINE r == [assignment |-> a, outcome |-> outcome]
  <2>2. a \in Assignment /\ a.role = Assessor
    BY <1>1, <2>1 DEF Executing
  <2>3. a \in [id : Invocations, role : {Assessor}, agent : Agents,
               revision : Candidates \cup {None}]
    BY <2>2 DEF Assignment, Makers, PlanExperts, Planner, Implementer, Assessor
  <2>4. r \in Recovery
    BY <2>3 DEF Recovery
  <2>5. run' = [run EXCEPT !.recovery = r] /\ replies' = replies \cup {r}
    BY <2>1
  <2> HIDE DEF r
  <2>6. run' \in RunState
    BY <1>1, <2>4, <2>5, Update
  <2>7. replies' \subseteq Recovery
    BY <1>1, <2>4, <2>5
  <2>8. hist' \in History
    BY <1>1, <1>9 DEF SaveReview, History
  <2>q. QED BY <1>9, <2>6, <2>7, <2>8 DEF SaveReview, RunTypeOK, History
<1>10. CASE FinishReview
  <2>1. PICK r \in replies : /\ run' \in Finished(r)
                              /\ replies' = replies \ {r}
                              /\ running' = running \ {r.assignment}
    BY <1>10 DEF FinishReview
  <2>2. r \in Recovery
    BY <1>1
  <2>3. run' \in RunState
    BY <1>1, <2>1, <2>2, FinishedType
  <2>4. running' \subseteq Assignment /\ replies' \subseteq Recovery
    BY <1>1, <2>1
  <2>q. QED BY <1>10, <2>3, <2>4 DEF FinishReview, RunTypeOK
<1>11. CASE Crash
  BY <1>11 DEF Crash, RunTypeOK
<1>q. QED BY <1>3, <1>4, <1>5, <1>6, <1>7, <1>8, <1>9, <1>10, <1>11 DEF Invocation

\* Each resume, approval and authorization keeps the type.
LEMMA ResumeKeepsType ==
  ASSUME RunTypeOK, Resume
  PROVE  RunTypeOK'
<1>1. /\ run \in RunState /\ hist \in History /\ patch \in Candidates \cup {None}
      /\ run.pendingPhase \in Stages /\ run.budgetPhase \in Stages
      /\ run.retryPhase \in Stages /\ "" \in Stages
  BY Fields, StageNames DEF RunTypeOK, History
<1>2. \A s \in RunState : ResumeTo(s) => run' \in RunState
  BY MarkCountedType, RecoveredType DEF ResumeTo
<1>3. \A stage \in Stages : Restarted(run, stage) \in RunState
  BY <1>1, RestartedType
<1>4. CASE ResumeInjection
  <2>1. [Restarted(run, run.pendingPhase) EXCEPT !.pendingPhase = ""] \in RunState
    BY <1>1, <1>3, Update
  <2>2. run' \in RunState
    BY <1>2, <1>4, <2>1 DEF ResumeInjection
  <2>q. QED BY <1>4, <2>2 DEF ResumeInjection, RunTypeOK
<1>5. CASE ContinueBudget
  <2> DEFINE phase == IF run.budgetPhase # "" THEN run.budgetPhase ELSE run.pendingPhase
  <2>1. phase \in Stages
    BY <1>1
  <2>2. ResumeTo([Restarted(run, phase) EXCEPT !.budgetPhase = ""])
    BY <1>5 DEF ContinueBudget
  <2> HIDE DEF phase
  <2>3. [Restarted(run, phase) EXCEPT !.budgetPhase = ""] \in RunState
    BY <1>1, <1>3, <2>1, Update
  <2>4. run' \in RunState
    BY <1>2, <2>2, <2>3
  <2>q. QED BY <1>5, <2>4 DEF ContinueBudget, RunTypeOK
<1>6. CASE ResumeInvocation
  <2>1. [Restarted(run, run.retryPhase) EXCEPT !.retryPhase = ""] \in RunState
    BY <1>1, <1>3, Update
  <2>2. run' \in RunState
    BY <1>2, <1>6, <2>1 DEF ResumeInvocation
  <2>q. QED BY <1>6, <2>2 DEF ResumeInvocation, RunTypeOK
<1>7. CASE RetryFailed
  <2>1. Retried(MarkCounted(run)) \in RunState
    BY <1>1, MarkCountedType, RetriedType
  <2>2. run' \in RunState
    BY <1>7, <2>1, RecoveredType DEF RetryFailed
  <2>3. hist' \in History
    BY <1>1, <1>7 DEF RetryFailed, History, Unseen
  <2>q. QED BY <1>7, <2>2, <2>3 DEF RetryFailed, RunTypeOK, History
<1>8. CASE RetryVerification
  <2>1. Restarted(run, "verifying") \in RunState
    BY <1>3, StageNames DEF Working
  <2>2. run' \in RunState
    BY <1>8, <2>1, MarkCountedType DEF RetryVerification
  <2>q. QED BY <1>8, <2>2 DEF RetryVerification, RunTypeOK
<1>9. CASE ResumeDecision
  <2>1. MarkCounted(run).pendingDecision = run.pendingDecision
    BY <1>1 DEF MarkCounted, RunState
  <2>2. run' \in RunState /\ hist' \in History
    BY <1>1, <1>9, <2>1, MarkCountedType, DecideAgainType DEF ResumeDecision
  <2>q. QED BY <1>9, <2>2 DEF ResumeDecision, RunTypeOK, History
<1>10. CASE ResumeReview
  <2>1. run' \in RunState
    BY <1>1, <1>10, RecoveredType DEF ResumeReview
  <2>q. QED BY <1>10, <2>1 DEF ResumeReview, RunTypeOK
<1>11. CASE ApprovePlan
  <2> DEFINE s == [run EXCEPT !.approvedPlan = run.plan, !.authorized = run.plan]
  <2>1. s \in RunState
    BY <1>1, Fields, Update
  <2>2. run' = s \/ run' = [Restarted(s, s.pendingPhase) EXCEPT !.pendingPhase = ""]
    BY <1>11 DEF ApprovePlan
  <2> HIDE DEF s
  <2>3. s.pendingPhase \in Stages
    BY <2>1, Fields
  <2>4. [Restarted(s, s.pendingPhase) EXCEPT !.pendingPhase = ""] \in RunState
    BY <1>1, <2>1, <2>3, RestartedType, Update
  <2>5. run' \in RunState
    BY <2>1, <2>2, <2>4
  <2>q. QED BY <1>11, <2>5 DEF ApprovePlan, RunTypeOK
<1>12. CASE AuthorizeChecks
  <2> DEFINE s == [run EXCEPT !.authorized = run.plan]
  <2>1. s \in RunState
    BY <1>1, Fields, Update
  <2>2. run' = s \/ run' = [Restarted(s, s.pendingPhase) EXCEPT !.pendingPhase = ""]
    BY <1>12 DEF AuthorizeChecks
  <2> HIDE DEF s
  <2>3. s.pendingPhase \in Stages
    BY <2>1, Fields
  <2>4. [Restarted(s, s.pendingPhase) EXCEPT !.pendingPhase = ""] \in RunState
    BY <1>1, <2>1, <2>3, RestartedType, Update
  <2>5. run' \in RunState
    BY <2>1, <2>2, <2>4
  <2>q. QED BY <1>12, <2>5 DEF AuthorizeChecks, RunTypeOK
<1>13. CASE RequestPlanChanges
  <2>1. Restarted(run, "planning") \in RunState
    BY <1>3, StageNames DEF Working
  <2>2. run' \in RunState
    BY <1>1, <1>13, <2>1, Update DEF RequestPlanChanges
  <2>q. QED BY <1>13, <2>2 DEF RequestPlanChanges, RunTypeOK
<1>q. QED BY <1>4, <1>5, <1>6, <1>7, <1>8, <1>9, <1>10, <1>11, <1>12, <1>13 DEF Resume

\* The saved run, the artifacts' digests, the invocations at work and the held
\* reviews keep their types, whatever the events (ledger.Run, adaptive.State).
THEOREM TypeCorrect == Spec => []RunTypeOK
<1>1. Init => RunTypeOK
  BY InitType
<1>2. RunTypeOK /\ [Next]_vars => RunTypeOK'
  <2> SUFFICES ASSUME RunTypeOK, [Next]_vars PROVE RunTypeOK'
    OBVIOUS
  <2>1. CASE Next
    BY <2>1, DriveKeepsType, InvocationKeepsType, ResumeKeepsType DEF Next
  <2>2. CASE UNCHANGED vars
    BY <2>2 DEF vars, RunTypeOK
  <2>q. QED BY <2>1, <2>2
<1>q. QED BY <1>1, <1>2, PTL DEF Spec

-----------------------------------------------------------------------------
(***************************************************************************)
(* Approvals are independent, for every enrollment, quorum and             *)
(* concurrency, with any number of drivers, hosts, operators, crashes and  *)
(* failures at once.  Only the drift of a workspace under its assessors is *)
(* left out: a review recovered after it is pending again unchecked.       *)
(***************************************************************************)

\* The binding that reviews, or reviewed.
By(x) == BindingOf[x.agent]

\* The assessment x is of the candidate; a is to review it.
Counts(s, x) == x \in s.assessments /\ x.revision = s.diff
Reviews(s, a) == a \in s.pending /\ a.role \in Reviewers

\* Whoever reviews a candidate, or has, is not its author and does so once.
Independent(s) ==
    /\ IsFiniteSet(s.assessments)
    /\ \A x : Counts(s, x) => By(x) # s.implementer
    /\ \A x, y : Counts(s, x) /\ Counts(s, y) /\ By(x) = By(y) => x = y
    /\ \A a : Reviews(s, a) => By(a) # s.implementer
    /\ \A a, b : Reviews(s, a) /\ Reviews(s, b) /\ By(a) = By(b) => a = b
    /\ \A a, x : Reviews(s, a) /\ Counts(s, x) => By(a) # By(x)

\* Research is of a plan, so what it says is no vote on a candidate.
ResearchesPlan(s) ==
    /\ s.pendingDecision = "plan" \/ "research" \in s.queue => s.plan # None
    /\ \A a \in s.pending : a.role = "research" => a.revision # None

Done(s) == s.stage = "done" /\ s.outcome = "approved"

ApprovedSoundly(s) ==
    Done(s) =>
        /\ Cardinality(s.assessments) >= Quorum
        /\ \A x \in s.assessments : x.approved /\ x.revision = s.diff
        /\ ChecksAllowCompletion(s)

Sound(s) ==
    /\ s \in RunState
    /\ s.recovery = None
    /\ Independent(s) /\ ResearchesPlan(s) /\ ApprovedSoundly(s)

\* What t holds of the review, s holds too.
Keeps(t, s) ==
    /\ t.recovery = s.recovery /\ t.assessments = s.assessments
    /\ t.diff = s.diff /\ t.implementer = s.implementer /\ t.plan = s.plan
    /\ t.pending \subseteq s.pending /\ t.queue \subseteq s.queue
    /\ t.pendingDecision = "plan" => s.pendingDecision = "plan"
    /\ Done(t) => Done(s) /\ t.receipts = s.receipts /\ t.receiptsFor = s.receiptsFor

\* A step that leaves the votes and the candidate alone, and at most drops
\* reviewers and experts, keeps the review sound.
LEMMA KeepsSound ==
  ASSUME NEW s, NEW t \in RunState, Sound(s), Keeps(t, s)
  PROVE  Sound(t)
<1>1. Independent(t)
  BY DEF Sound, Keeps, Independent, Counts, Reviews
<1>2. ResearchesPlan(t)
  BY DEF Sound, Keeps, ResearchesPlan
<1>3. ApprovedSoundly(t)
  BY DEF Sound, Keeps, ApprovedSoundly, ChecksAllowCompletion
<1>q. QED BY <1>1, <1>2, <1>3 DEF Sound, Keeps

-----------------------------------------------------------------------------
(***************************************************************************)
(* The operators on saved states                                           *)
(***************************************************************************)

\* No pause, for a budget or another reason, spoils the review (State.Pause).
LEMMA PauseSound ==
  ASSUME NEW s, Sound(s), NEW reason \in Outcomes \ {"approved"}
  PROVE  Sound(Pause(s, reason))
<1>1. Pause(s, reason) \in RunState
  BY PauseType DEF Sound
<1>2. Keeps(Pause(s, reason), s)
  BY ZenonT(60) DEF Keeps, Pause, Sound, RunState, Done
<1>q. QED BY <1>1, <1>2, KeepsSound

\* Returning to a saved phase keeps the votes and the reviewers as they are.
LEMMA RestartedSound ==
  ASSUME NEW s, Sound(s), NEW stage \in Stages
  PROVE  Sound(Restarted(s, stage))
<1>1. Restarted(s, stage) \in RunState
  BY RestartedType DEF Sound
<1>2. Keeps(Restarted(s, stage), s)
  BY ZenonT(60) DEF Keeps, Restarted, Sound, RunState, Done
<1>q. QED BY <1>1, <1>2, KeepsSound

\* Readmitting the last binding that handed off changes no review.
LEMMA WithFallbackSound ==
  ASSUME NEW s, Sound(s), NEW role
  PROVE  Sound(WithFallback(s, role))
<1>1. WithFallback(s, role) \in RunState
  BY WithFallbackType DEF Sound
<1>2. Keeps(s, s) /\ Keeps([s EXCEPT !.deferred = s.deferred \ {s.lastHandoff}, !.fallbackUsed = TRUE], s)
  BY ZenonT(60) DEF Keeps, Sound, RunState, Done
<1>3. Keeps(WithFallback(s, role), s)
  BY <1>2 DEF WithFallback
<1>q. QED BY <1>1, <1>3, KeepsSound

\* Taking a result off the pending assignments leaves the other reviewers as
\* independent as they were.
LEMMA TakenSound ==
  ASSUME NEW s, Sound(s), NEW a
  PROVE  Sound(Taken(s, a))
<1>1. Taken(s, a) \in RunState
  BY TakenType DEF Sound
<1>2. Keeps(Taken(s, a), s)
  BY ZenonT(60) DEF Keeps, Taken, Sound, RunState, Done
<1>q. QED BY <1>1, <1>2, KeepsSound

\* Ending a chain of handoffs changes no review.
LEMMA SettledSound ==
  ASSUME NEW s, Sound(s)
  PROVE  Sound(Settled(s)) /\ Settled(s).pending = s.pending
<1>1. Settled(s) \in RunState
  BY SettledType DEF Sound
<1>2. Keeps(Settled(s), s) /\ Settled(s).pending = s.pending
  BY ZenonT(60) DEF Keeps, Settled, Sound, RunState, Done
<1>q. QED BY <1>1, <1>2, KeepsSound

\* No pause reason is the outcome of an approval.
LEMMA NotApproved ==
  /\ Outcomes \ {"approved"} \subseteq Outcomes
  /\ \A role : FailedOutcome(role) \in Outcomes \ {"approved"}
  /\ {"plan-required", "plan-approval-required", "command-authorization-required",
      "budget-exhausted", "session-recovery-required", "injection-review-required",
      "unsafe-review-artifact", "driver-failed", "assessment-quorum-unavailable",
      "invocation-timeout", "handoff-budget-exhausted", "implementer-failed", "expert-failed",
      "verification-environment-failed", "specialist-decision-unavailable"}
       \subseteq Outcomes \ {"approved"}
BY DEF FailedOutcome, Outcomes

\* budgetGate, open or closed, keeps the review sound.
LEMMA GatedSound ==
  ASSUME NEW s, Sound(s), NEW t \in Gated(s)
  PROVE  Sound(t)
BY PauseSound, NotApproved DEF Gated

\* Pausing for want of another binding keeps the review sound.
LEMMA ReroutedSound ==
  ASSUME NEW s, Sound(s), NEW t \in Rerouted(s)
  PROVE  Sound(t)
<1>1. \A role : Sound(Pause(s, FailedOutcome(role)))
  BY PauseSound, NotApproved
<1>q. QED BY <1>1 DEF Rerouted

\* pauseDriveError keeps the review sound.
LEMMA DriveFailedSound ==
  ASSUME NEW s, Sound(s), NEW t \in DriveFailed(s)
  PROVE  Sound(t)
<1>1. Sound(Pause(s, "driver-failed")) /\ \A role : Sound(Pause(s, FailedOutcome(role)))
  BY PauseSound, NotApproved
<1>q. QED BY <1>1 DEF DriveFailed

\* Without votes and reviewers nobody can be counted twice.
LEMMA ClearedSound ==
  ASSUME NEW s, Sound(s), NEW t \in RunState, t.recovery = s.recovery,
         t.assessments = {}, t.pending = {}, t.plan = s.plan, t.queue \subseteq s.queue,
         t.pendingDecision = s.pendingDecision, ~Done(t)
  PROVE  Sound(t)
<1>1. Independent(t)
  BY FS_EmptySet DEF Independent, Counts, Reviews
<1>2. ResearchesPlan(t) /\ ApprovedSoundly(t)
  BY DEF Sound, ResearchesPlan, ApprovedSoundly
<1>q. QED BY <1>1, <1>2 DEF Sound

\* Whatever the checks say, the review stays sound (ApplyVerificationResult).
LEMMA VerifiedSound ==
  ASSUME NEW s, Sound(s),
         NEW verdict \in {"skipped", "passed", "failed", "invalidated", "environment"}
  PROVE  Sound(Verified(s, verdict))
<1>1. Verified(s, verdict) \in RunState
  BY VerifiedType DEF Sound
<1>2. CASE verdict = "skipped"
  <2>1. Keeps(Verified(s, verdict), s)
    BY ZenonT(60), <1>2 DEF Keeps, Verified, Sound, RunState, Done
  <2>q. QED BY <1>1, <2>1, KeepsSound
<1>6. CASE verdict = "passed"
  <2>1. Keeps(Verified(s, verdict), s)
    BY ZenonT(60), <1>6 DEF Keeps, Verified, Sound, RunState, Done
  <2>q. QED BY <1>1, <2>1, KeepsSound
<1>3. CASE verdict = "failed"
  <2>1. Keeps(Verified(s, verdict), s)
    BY ZenonT(60), <1>3 DEF Keeps, Verified, Sound, RunState, Done
  <2>q. QED BY <1>1, <2>1, KeepsSound
<1>4. CASE verdict = "invalidated"
  <2> DEFINE t == Verified(s, verdict)
  <2>1. /\ t.recovery = s.recovery /\ t.assessments = {} /\ t.pending = {} /\ t.plan = s.plan
        /\ t.queue = {} /\ t.pendingDecision = s.pendingDecision /\ t.stage = "implementing"
    BY ZenonT(60), <1>4 DEF Verified, Invalidate, Sound, RunState
  <2>q. QED BY <1>1, <2>1, ClearedSound DEF Done
<1>5. CASE verdict = "environment"
  <2>1. Keeps(Verified(s, verdict), s)
    BY ZenonT(60), <1>5 DEF Keeps, Verified, Pause, Sound, RunState, Done
  <2>q. QED BY <1>1, <2>1, KeepsSound
<1>q. QED BY <1>2, <1>3, <1>4, <1>5, <1>6

\* The votes, the reviewers and what they are of are the same.
SameReview(t, s) ==
    /\ t.recovery = s.recovery /\ t.assessments = s.assessments /\ t.pending = s.pending
    /\ t.diff = s.diff /\ t.implementer = s.implementer /\ t.plan = s.plan
    /\ t.receipts = s.receipts /\ t.receiptsFor = s.receiptsFor

\* A step that changes only which experts are wanted keeps the review sound if
\* it asks for research of a plan that is there.
LEMMA SameReviewSound ==
  ASSUME NEW s, Sound(s), NEW t \in RunState, SameReview(t, s), ResearchesPlan(t),
         Done(t) => Done(s)
  PROVE  Sound(t)
<1>1. Independent(t)
  BY DEF Sound, SameReview, Independent, Counts, Reviews
<1>2. ApprovedSoundly(t)
  BY DEF Sound, SameReview, ApprovedSoundly, ChecksAllowCompletion
<1>q. QED BY <1>1, <1>2 DEF Sound, SameReview

\* Leaving a decision open keeps the review sound: research is decided about a
\* run that has a plan.
LEMMA OpenSound ==
  ASSUME NEW s, Sound(s), NEW kind \in {"plan", "diff"}, kind = "plan" => s.plan # None,
         NEW phase \in Stages
  PROVE  /\ Sound([s EXCEPT !.pendingDecision = kind])
         /\ Sound([s EXCEPT !.pendingDecision = kind, !.pendingPhase = phase])
<1> DEFINE o == [s EXCEPT !.pendingDecision = kind]
           t == [o EXCEPT !.pendingPhase = phase]
<1>1. o \in RunState
  BY Update DEF Sound
<1>2. SameReview(o, s) /\ o.pendingDecision = kind /\ o.queue = s.queue
      /\ o.stage = s.stage /\ o.outcome = s.outcome
  BY ZenonT(60) DEF SameReview, Sound, RunState
<1> HIDE DEF o
<1>3. Sound(o)
  <2>1. ResearchesPlan(o) /\ Done(o) = Done(s)
    BY <1>2 DEF SameReview, ResearchesPlan, Sound, Done
  <2>q. QED BY <1>1, <1>2, <2>1, SameReviewSound
<1>4. t \in RunState
  BY <1>1, Update
<1>5. Keeps(t, o)
  BY <1>1 DEF Keeps, RunState, Done
<1>6. Sound(t)
  BY <1>3, <1>4, <1>5, KeepsSound
<1>q. QED BY <1>3, <1>6 DEF o

\* The experts that scheduleSpecialists queues find the artifact they are for.
LEMMA ScheduledSound ==
  ASSUME NEW s, Sound(s), NEW kind \in {"plan", "diff"}, kind = "plan" => s.plan # None,
         NEW needed \in SUBSET ExpertsFor(kind)
  PROVE  Sound(Scheduled(s, kind, needed))
<1> DEFINE t == [s EXCEPT !.pendingDecision = "", !.pendingPhase = ""]
           q == [t EXCEPT !.queue = needed, !.after = NextPhase(kind), !.stage = "specializing"]
<1>1. t \in RunState
  BY StageNames, Update DEF Sound
<1>2. Keeps(t, s)
  BY ZenonT(60) DEF Keeps, Sound, RunState, Done
<1>a. t.plan = s.plan
  BY <1>2 DEF Keeps
<1>b. Sound(t)
  BY <1>1, <1>2, KeepsSound
<1>3. Sound(t) /\ t.plan = s.plan
  BY <1>a, <1>b
<1> HIDE DEF t
<1>4. q \in RunState
  <2>1. needed \in SUBSET Experts /\ "specializing" \in Stages
    BY KindType DEF Stages, Working
  <2>q. QED BY <1>1, <2>1, KindType, Update
<1>5. "research" \in needed => t.plan # None
  BY <1>3 DEF ExpertsFor, DiffExperts
<1>6. SameReview(q, t) /\ q.pendingDecision = t.pendingDecision /\ q.queue = needed
      /\ q.stage = "specializing"
  BY <1>1 DEF SameReview, RunState
<1> HIDE DEF q
<1>7. Sound(q)
  <2>1. ResearchesPlan(q) /\ ~Done(q)
    BY <1>3, <1>5, <1>6 DEF SameReview, ResearchesPlan, Sound, Done
  <2>q. QED BY <1>3, <1>4, <1>6, <2>1, SameReviewSound
<1>q. QED BY <1>3, <1>7 DEF Scheduled, t, q

\* Whatever the router answers, or if it cannot, the review stays sound.
LEMMA DecideSound ==
  ASSUME NEW s, Sound(s), NEW kind \in {"plan", "diff"}, kind = "plan" => s.plan # None,
         NEW h, Decide(s, kind, h)
  PROVE  Sound(run')
<1>1. CASE \E needed \in SUBSET (ExpertsFor(kind) \cap Enrolled) : run' = Scheduled(s, kind, needed)
  BY <1>1, ScheduledSound
<1>2. CASE run' \in Undecided(s, kind)
  <2>1. ASSUME NEW reason \in {"budget-exhausted", "specialist-decision-unavailable"}
        PROVE  /\ Sound([Pause(s, reason) EXCEPT !.pendingDecision = kind])
               /\ Sound([Pause(s, reason) EXCEPT !.pendingDecision = kind,
                                                  !.pendingPhase = NextPhase(kind)])
    <3>1. Sound(Pause(s, reason))
      BY PauseSound, NotApproved
    <3>2. Pause(s, reason).plan = s.plan
      BY DEF Pause, Sound, RunState
    <3> HIDE DEF Pause
    <3>q. QED BY <3>1, <3>2, KindType, OpenSound
  <2>q. QED BY <1>2, <2>1 DEF Undecided
<1>q. QED BY <1>1, <1>2 DEF Decide

\* So it does when the router is asked once more (retryActiveSpecialistDecision).
LEMMA DecideAgainSound ==
  ASSUME NEW s, Sound(s), s.pendingDecision # "", DecideAgain(s)
  PROVE  Sound(run')
<1>1. /\ s.pendingDecision \in {"plan", "diff"} /\ s.pendingPhase \in Stages
      /\ s.pendingDecision = "plan" => s.plan # None
  BY Fields DEF Sound, ResearchesPlan
<1>2. Sound(Restarted(s, s.pendingPhase)) /\ Restarted(s, s.pendingPhase).plan = s.plan
  <2>1. Restarted(s, s.pendingPhase).plan = s.plan
    BY DEF Restarted, Sound, RunState
  <2>q. QED BY <1>1, <2>1, RestartedSound
<1>3. CASE Decide(Restarted(s, s.pendingPhase), s.pendingDecision, hist)
  BY <1>1, <1>2, <1>3, DecideSound
<1>4. CASE run' = Pause(s, "budget-exhausted")
  BY <1>4, PauseSound, NotApproved
<1>q. QED BY <1>3, <1>4 DEF DecideAgain

-----------------------------------------------------------------------------
(***************************************************************************)
(* A worker's result                                                       *)
(***************************************************************************)

\* An implementation without progress keeps the review sound.
LEMMA NoProgressSound ==
  ASSUME NEW s, Sound(s)
  PROVE  Sound(NoProgress(s))
<1> DEFINE t == [s EXCEPT !.noProgress = s.noProgress + 1]
<1>1. t \in RunState
  <2>1. s.noProgress \in Nat
    BY Fields DEF Sound
  <2>2. s.noProgress + 1 \in Nat
    BY <2>1
  <2>q. QED BY <2>2, Update DEF Sound
<1>2. Keeps(t, s)
  BY ZenonT(60) DEF Keeps, Sound, RunState, Done
<1> HIDE DEF t
<1>3. Sound(t)
  BY <1>1, <1>2, KeepsSound
<1>4. Sound(Pause(t, "implementer-failed"))
  BY <1>3, NotApproved, PauseSound
<1>q. QED BY <1>3, <1>4 DEF NoProgress, t

\* A handoff, counted or one too many, keeps the review sound.
LEMMA AfterHandoffSound ==
  ASSUME NEW s, Sound(s), NEW a \in Assignment
  PROVE  Sound(AfterHandoff(s, a))
<1>1. CASE s.handoffs >= MaxHandoffs
  <2> DEFINE t == [s EXCEPT !.pendingPhase = s.stage]
  <2>1. t \in RunState
    BY Fields, Update DEF Sound
  <2>2. Keeps(t, s)
    BY ZenonT(60) DEF Keeps, Sound, RunState, Done
  <2> HIDE DEF t
  <2>3. Sound(Pause(t, "handoff-budget-exhausted"))
    BY <2>1, <2>2, KeepsSound, NotApproved, PauseSound
  <2>q. QED BY <1>1, <2>3 DEF AfterHandoff, t
<1>2. CASE ~(s.handoffs >= MaxHandoffs)
  <2>1. AfterHandoff(s, a) \in RunState
    BY AfterHandoffType DEF Sound
  <2>2. Keeps(AfterHandoff(s, a), s)
    BY ZenonT(60), <1>2 DEF AfterHandoff, Keeps, Sound, RunState, Done
  <2>q. QED BY <2>1, <2>2, KeepsSound
<1>q. QED BY <1>1, <1>2

\* Excluding the bindings of a failed invocation keeps the review sound.
LEMMA AfterExclusionSound ==
  ASSUME NEW s, Sound(s), NEW a \in Assignment, NEW outcome
  PROVE  Sound(AfterExclusion(s, a, outcome))
<1>1. AfterExclusion(s, a, outcome) \in RunState
  BY AfterExclusionType DEF Sound
<1>2. Keeps(AfterExclusion(s, a, outcome), s)
  BY ZenonT(60) DEF AfterExclusion, Keeps, Sound, RunState, Done
<1>q. QED BY <1>1, <1>2, KeepsSound

\* A planner's result keeps the review sound, and a plan is a plan.
LEMMA AfterPlanningSound ==
  ASSUME NEW s, Sound(s), NEW outcome \in {"answer", "planned", "failed"}, NEW revision,
         outcome = "planned" => revision \in Plans
  PROVE  /\ Sound(AfterPlanning(s, outcome, revision))
         /\ outcome = "planned" => AfterPlanning(s, outcome, revision).plan # None
<1> DEFINE t == AfterPlanning(s, outcome, revision)
<1>1. t \in RunState
  BY AfterPlanningType DEF Sound
<1>2. CASE outcome = "planned"
  <2>1. t = [s EXCEPT !.stage = "implementing", !.plan = revision]
    BY <1>2 DEF AfterPlanning
  <2>2. /\ t.recovery = s.recovery /\ t.assessments = s.assessments /\ t.pending = s.pending
        /\ t.diff = s.diff /\ t.implementer = s.implementer /\ t.plan = revision
        /\ t.stage = "implementing"
    BY ZenonT(60), <2>1 DEF Sound, RunState
  <2>3. revision # None
    BY <1>2, StateConstants
  <2> HIDE DEF t
  <2>4. Independent(t)
    BY <2>2 DEF Sound, Independent, Counts, Reviews
  <2>5. ResearchesPlan(t)
    BY <2>2, <2>3 DEF Sound, ResearchesPlan
  <2>6. ApprovedSoundly(t)
    BY <2>2 DEF ApprovedSoundly, Done
  <2>q. QED BY <1>1, <2>2, <2>3, <2>4, <2>5, <2>6 DEF Sound, t
<1>3. CASE outcome = "answer"
  <2>1. Keeps(t, s)
    BY ZenonT(60), <1>3 DEF AfterPlanning, Keeps, Sound, RunState, Done
  <2>q. QED BY <1>1, <1>3, <2>1, KeepsSound
<1>4. CASE outcome = "failed"
  <2>1. Keeps(t, s)
    BY ZenonT(60), <1>4 DEF AfterPlanning, Keeps, Sound, RunState, Done
  <2>q. QED BY <1>1, <1>4, <2>1, KeepsSound
<1>q. QED BY <1>2, <1>3, <1>4

\* A new candidate has another author and no votes yet; every other result of
\* an implementer keeps the review sound.
LEMMA AfterImplementingSound ==
  ASSUME NEW s, Sound(s), NEW a \in Assignment,
         NEW outcome \in {"answer", "changed", "failed"}, NEW revision,
         outcome = "changed" => revision \in Candidates
  PROVE  Sound(AfterImplementing(s, a, outcome, revision))
<1> DEFINE t == AfterImplementing(s, a, outcome, revision)
<1>1. t \in RunState /\ Sound(NoProgress(s))
  BY AfterImplementingType, NoProgressSound DEF Sound
<1>2. CASE outcome = "changed" /\ revision # s.diff
  <2>1. t = [Invalidate(s) EXCEPT !.diff = revision, !.stage = "verifying",
                                  !.implementer = BindingOf[a.agent]]
    BY <1>2 DEF AfterImplementing
  <2> DEFINE i == Invalidate(s)
  <2> HIDE DEF t
  <2>3. i \in RunState
    BY InvalidateType DEF Sound
  <2>4. /\ i.recovery = s.recovery /\ i.assessments = {} /\ i.pending = {} /\ i.plan = s.plan
        /\ i.queue = {} /\ i.pendingDecision = s.pendingDecision
    BY ZenonT(60) DEF Invalidate, Sound, RunState
  <2> HIDE DEF i
  <2>5. t = [i EXCEPT !.diff = revision, !.stage = "verifying",
                      !.implementer = BindingOf[a.agent]]
    BY <2>1 DEF i
  <2>2. /\ t.recovery = s.recovery /\ t.assessments = {} /\ t.pending = {} /\ t.plan = s.plan
        /\ t.queue = {} /\ t.pendingDecision = s.pendingDecision /\ t.stage = "verifying"
    BY <2>3, <2>4, <2>5 DEF RunState
  <2>q. QED BY <1>1, <2>2, ClearedSound DEF Done, t
<1>3. CASE outcome = "changed" /\ revision = s.diff
  BY <1>1, <1>3 DEF AfterImplementing
<1>4. CASE outcome = "answer" /\ s.diff = None
  <2>1. Keeps(t, s)
    BY <1>4 DEF AfterImplementing, Keeps, Sound, RunState, Done
  <2>q. QED BY <1>1, <2>1, KeepsSound
<1>5. CASE outcome = "answer" /\ s.diff # None
  BY <1>1, <1>5 DEF AfterImplementing
<1>6. CASE outcome = "failed"
  <2>1. Keeps(t, s)
    BY ZenonT(60), <1>6 DEF AfterImplementing, Keeps, Sound, RunState, Done
  <2>q. QED BY <1>1, <2>1, KeepsSound
<1>q. QED BY <1>2, <1>3, <1>4, <1>5, <1>6

\* An expert's result is no vote, and keeps the review sound.
LEMMA AfterSpecializingSound ==
  ASSUME NEW s, Sound(s), NEW a \in Assignment,
         NEW outcome \in {"approved", "changes-required", "failed"},
         outcome \in WorkerOutcomes(a.role),
         outcome # "failed" => a.role \in s.queue
  PROVE  Sound(AfterSpecializing(s, a, outcome))
<1> DEFINE t == AfterSpecializing(s, a, outcome)
<1>1. t \in RunState
  BY AfterSpecializingType DEF Sound
<1>2. CASE outcome = "failed"
  <2>1. Sound(Pause(s, "expert-failed"))
    BY PauseSound, NotApproved
  <2>q. QED BY <1>2, <2>1 DEF AfterSpecializing
<1>3. CASE outcome = "changes-required"
  <2>1. Keeps(t, s)
    BY ZenonT(60), <1>3 DEF AfterSpecializing, Keeps, Sound, RunState, Done
  <2>q. QED BY <1>1, <2>1, KeepsSound
<1>4. CASE outcome = "approved"
  <2> DEFINE h == [s EXCEPT !.queue = s.queue \ {a.role},
                     !.reviews = s.reviews \cup {[role |-> a.role, agent |-> a.agent,
                                                  approved |-> outcome = "approved"]}]
  <2>1. /\ Keeps(h, s) /\ s.after # "done"
        /\ h.stage = s.stage /\ h.outcome = s.outcome
    BY ZenonT(60) DEF Keeps, Sound, RunState, Done
  <2> DEFINE g == [h EXCEPT !.stage = s.after, !.after = ""]
  <2>2. Keeps(g, s)
    <3>1. s.after # "done"
      BY <2>1
    <3>2. /\ g.recovery = s.recovery /\ g.assessments = s.assessments /\ g.diff = s.diff
          /\ g.implementer = s.implementer /\ g.plan = s.plan /\ g.pending = s.pending
          /\ g.queue \subseteq s.queue /\ g.pendingDecision = s.pendingDecision
          /\ g.stage = s.after
      BY ZenonT(60) DEF Sound, RunState
    <3> HIDE DEF g
    <3>q. QED BY <3>1, <3>2 DEF Keeps, Done
  <2>3. t = h \/ t = [h EXCEPT !.stage = s.after, !.after = ""]
    BY <1>4 DEF AfterSpecializing
  <2>q. QED BY <1>1, <2>1, <2>2, <2>3, KeepsSound
<1>q. QED BY <1>2, <1>3, <1>4

\* If what a says is of the candidate, it may be counted.
Countable(s, a) ==
    a.revision = s.diff =>
        /\ By(a) # s.implementer
        /\ \A b : Reviews(s, b) => By(b) # By(a)
        /\ \A x : Counts(s, x) => By(x) # By(a)

\* Counting what a says keeps the reviewers independent, if it is countable.
LEMMA CountedSound ==
  ASSUME NEW s, Sound(s), s.stage = "assessing", NEW a \in Assignment, Countable(s, a),
         NEW says \in BOOLEAN
  PROVE  Sound([s EXCEPT !.assessments = s.assessments \cup
                   {[id |-> a.id, agent |-> a.agent, revision |-> a.revision,
                     approved |-> says]}])
<1> DEFINE x == [id |-> a.id, agent |-> a.agent, revision |-> a.revision, approved |-> says]
           t == [s EXCEPT !.assessments = s.assessments \cup {x}]
<1>1. x \in Assessment /\ By(x) = By(a) /\ x.revision = a.revision
  BY DEF Assignment, Assessment, By
<1> HIDE DEF x
<1>2. t \in RunState
  <2>1. s.assessments \cup {x} \in SUBSET Assessment
    BY <1>1, Fields DEF Sound
  <2>q. QED BY <2>1, Update DEF Sound
<1>3. /\ t.recovery = s.recovery /\ t.assessments = s.assessments \cup {x}
      /\ t.pending = s.pending /\ t.diff = s.diff /\ t.implementer = s.implementer
      /\ t.plan = s.plan /\ t.queue = s.queue /\ t.pendingDecision = s.pendingDecision
      /\ t.stage = "assessing"
  BY ZenonT(60) DEF Sound, RunState
<1> HIDE DEF t
<1>4. \A y : Counts(t, y) => Counts(s, y) \/ (y = x /\ a.revision = s.diff)
  BY <1>1, <1>3 DEF Counts
<1>5. \A y : Reviews(t, y) <=> Reviews(s, y)
  BY <1>3 DEF Reviews
<1>6. Independent(t)
  <2>1. IsFiniteSet(t.assessments)
    BY <1>3, FS_AddElement DEF Sound, Independent
  <2>2. \A y : Counts(t, y) => By(y) # t.implementer
    BY <1>1, <1>3, <1>4 DEF Sound, Independent, Countable
  <2>3. \A y, z : Counts(t, y) /\ Counts(t, z) /\ By(y) = By(z) => y = z
    BY <1>1, <1>4 DEF Sound, Independent, Countable
  <2>4. \A b, y : Reviews(t, b) /\ Counts(t, y) => By(b) # By(y)
    BY <1>1, <1>4, <1>5 DEF Sound, Independent, Countable
  <2>5. /\ \A b : Reviews(t, b) => By(b) # t.implementer
        /\ \A b, c : Reviews(t, b) /\ Reviews(t, c) /\ By(b) = By(c) => b = c
    BY <1>3, <1>5 DEF Sound, Independent
  <2>q. QED BY <2>1, <2>2, <2>3, <2>4, <2>5 DEF Independent
<1>7. ResearchesPlan(t)
  BY <1>3 DEF Sound, ResearchesPlan
<1>8. ApprovedSoundly(t)
  BY <1>3 DEF ApprovedSoundly, Done
<1>q. QED BY <1>2, <1>3, <1>6, <1>7, <1>8 DEF Sound, t, x

\* An assessor's result approves a run only by enough agreeing votes on exactly
\* its candidate, and keeps the review sound otherwise (State.apply).
LEMMA AfterAssessingSound ==
  ASSUME NEW s, Sound(s), s.stage = "assessing", NEW a \in Assignment,
         NEW outcome \in {"approved", "changes-required", "failed"},
         outcome = "changes-required" => a.revision \in Candidates \cup {None},
         outcome # "failed" => Countable(s, a)
  PROVE  Sound(AfterAssessing(s, a, outcome))
<1> DEFINE t == AfterAssessing(s, a, outcome)
           x == [id |-> a.id, agent |-> a.agent, revision |-> a.revision,
                 approved |-> outcome = "approved"]
           counted == [s EXCEPT !.assessments = s.assessments \cup {x}]
<1>1. t \in RunState
  BY AfterAssessingType DEF Sound
<1> HIDE DEF t
<1>2. CASE outcome = "failed"
  BY <1>2 DEF AfterAssessing
<1>3. CASE outcome # "failed"
  <2>1. Sound(counted)
    BY <1>3, CountedSound
  <2>2. counted.stage = "assessing" /\ counted.receipts = s.receipts
        /\ counted.receiptsFor = s.receiptsFor /\ counted.diff = s.diff
    BY DEF Sound, RunState
  <2> HIDE DEF counted
  <2>3. /\ Keeps([counted EXCEPT !.repair = a.revision, !.stage = "implementing",
                                 !.pending = {}], counted)
        /\ Keeps([counted EXCEPT !.stage = "implementing", !.pending = {}], counted)
    BY <2>1 DEF Keeps, Sound, RunState, Done
  <2>4. CASE t = [s EXCEPT !.stage = "verifying", !.outcome = "", !.assessments = {},
                           !.pending = {}]
    <3>1. /\ t.recovery = s.recovery /\ t.assessments = {} /\ t.pending = {}
          /\ t.plan = s.plan /\ t.queue = s.queue /\ t.pendingDecision = s.pendingDecision
          /\ t.stage = "verifying"
      BY ZenonT(60), <2>4 DEF Sound, RunState
    <3>q. QED BY <1>1, <3>1, ClearedSound DEF Done, t
  <2>5. CASE /\ t = [counted EXCEPT !.stage = "done", !.outcome = "approved", !.pending = {}]
             /\ QuorumMet(counted) /\ ChecksAllowCompletion(s)
             /\ ~\E y \in counted.assessments : ~y.approved \/ y.revision # s.diff
    <3>1. /\ t.recovery = counted.recovery /\ t.assessments = counted.assessments
          /\ t.pending = {} /\ t.plan = counted.plan /\ t.queue = counted.queue
          /\ t.pendingDecision = counted.pendingDecision
          /\ t.diff = s.diff /\ t.implementer = counted.implementer
          /\ t.receipts = s.receipts /\ t.receiptsFor = s.receiptsFor
      BY <2>1, <2>2, <2>5 DEF Sound, RunState
    <3>2. Independent(t)
      BY <2>1, <2>2, <3>1 DEF Sound, Independent, Counts, Reviews
    <3>3. ResearchesPlan(t)
      BY <2>1, <3>1 DEF Sound, ResearchesPlan
    <3>4. Cardinality(t.assessments) >= Quorum
      BY <2>5, <3>1 DEF QuorumMet
    <3>5. \A y \in t.assessments : y.approved /\ y.revision = t.diff
      BY <2>5, <3>1
    <3>6. ChecksAllowCompletion(t)
      BY <2>5, <3>1 DEF ChecksAllowCompletion
    <3>q. QED BY <1>1, <2>1, <3>1, <3>2, <3>3, <3>4, <3>5, <3>6 DEF Sound, ApprovedSoundly, t
  <2>6. CASE t \in {counted,
                    [counted EXCEPT !.repair = a.revision, !.stage = "implementing",
                                    !.pending = {}],
                    [counted EXCEPT !.stage = "implementing", !.pending = {}]}
    BY <1>1, <2>1, <2>3, <2>6, KeepsSound DEF t
  <2>7. CASE outcome = "changes-required"
    BY <2>6, <2>7 DEF t, AfterAssessing, counted
  <2>8. CASE outcome = "approved"
    <3>1. CASE ~QuorumMet(counted)
      BY <2>6, <2>8, <3>1 DEF t, AfterAssessing, counted
    <3>2. CASE /\ QuorumMet(counted)
               /\ \E y \in counted.assessments : ~y.approved \/ y.revision # s.diff
      BY <2>6, <2>8, <3>2 DEF t, AfterAssessing, counted
    <3>3. CASE /\ QuorumMet(counted) /\ ChecksAllowCompletion(s)
               /\ ~\E y \in counted.assessments : ~y.approved \/ y.revision # s.diff
      BY <2>5, <2>8, <3>3 DEF t, AfterAssessing, counted
    <3>4. CASE /\ QuorumMet(counted) /\ ~ChecksAllowCompletion(s)
               /\ ~\E y \in counted.assessments : ~y.approved \/ y.revision # s.diff
      BY <2>4, <2>8, <3>4 DEF t, AfterAssessing, counted
    <3>q. QED BY <3>1, <3>2, <3>3, <3>4
  <2>q. QED BY <1>3, <2>7, <2>8
<1>q. QED BY <1>2, <1>3

\* A pending reviewer is neither the author nor counted already, and research is
\* of a plan, never of the candidate: what either says may be counted.
LEMMA TakenCountable ==
  ASSUME Plans \cap Candidates = {},
         NEW s, Sound(s), NEW a \in s.pending,
         NEW outcome \in {"approved", "changes-required"}, outcome \in WorkerOutcomes(a.role)
  PROVE  Countable(Settled(Taken(s, a)), a)
<1> DEFINE u == Settled(Taken(s, a))
<1>1. /\ u.assessments = s.assessments /\ u.pending = s.pending \ {a}
      /\ u.diff = s.diff /\ u.implementer = s.implementer
  BY DEF Taken, Settled, Sound, RunState
<1> HIDE DEF u
<1>2. a \in Assignment /\ s.diff \in Candidates \cup {None}
  BY Fields DEF Sound
<1>3. CASE a.role \in Reviewers
  <2>1. Reviews(s, a)
    BY <1>3 DEF Reviews
  <2>2. \A b : Reviews(u, b) => Reviews(s, b) /\ b # a
    BY <1>1 DEF Reviews
  <2>3. \A x : Counts(u, x) => Counts(s, x)
    BY <1>1 DEF Counts
  <2>q. QED BY <1>1, <2>1, <2>2, <2>3 DEF Sound, Independent, Countable, u
<1>4. CASE a.role \notin Reviewers
  <2>1. a.role = "research"
    <3>1. a.role \in Makers
      BY <1>2, <1>4 DEF Assignment
    <3>5. Planner \notin {Implementer} \cup PlanExperts
      BY DEF Implementer, Planner, PlanExperts
    <3>2. a.role # Planner
      BY <3>5 DEF WorkerOutcomes
    <3>3. Implementer \notin {Planner} \cup PlanExperts
      BY DEF Implementer, Planner, PlanExperts
    <3>4. a.role # Implementer
      BY <3>3 DEF WorkerOutcomes
    <3>q. QED BY <3>1, <3>2, <3>4 DEF Makers, PlanExperts
  <2>2. a.revision \in Plans
    <3>1. a.revision # None
      BY <2>1 DEF Sound, ResearchesPlan
    <3>2. a.revision \in Plans \cup {None}
      BY <1>2, <1>4 DEF Assignment
    <3>q. QED BY <3>1, <3>2
  <2>3. a.revision # u.diff
    BY <1>1, <1>2, <2>2, StateConstants
  <2>q. QED BY <2>3 DEF Countable, u
<1>q. QED BY <1>3, <1>4

\* Every result State.apply accepts keeps the review sound.
LEMMA ApplySound ==
  ASSUME Plans \cap Candidates = {},
         NEW s, Sound(s), NEW a \in Assignment,
         NEW outcome \in WorkerOutcomes(a.role), NEW revision,
         Accepts(s, a, outcome),
         outcome = "planned" => revision \in Plans,
         outcome = "changed" => revision \in Candidates
  PROVE  /\ Sound(Apply(s, a, outcome, revision))
         /\ outcome = "planned" => Apply(s, a, outcome, revision).plan # None
<1> DEFINE t == Taken(s, a)
           u == Settled(t)
<1>1. Sound(t) /\ Sound(u)
  BY TakenSound, SettledSound
<1>a. t.queue = s.queue
  BY DEF Taken, Sound, RunState
<1>b. a \in s.pending
  BY DEF Accepts
<1>c. outcome \in {"approved", "changes-required"} => Countable(u, a)
  BY <1>b, TakenCountable
<1> HIDE DEF t
<1>3. u.stage = t.stage /\ u.queue = t.queue
  BY <1>1 DEF Settled, Sound, RunState
<1> HIDE DEF u
<1>4. Sound(AfterHandoff(t, a)) /\ Sound(AfterExclusion(u, a, outcome))
  BY <1>1, AfterHandoffSound, AfterExclusionSound
<1>d. Sound(Pause(u, "invocation-timeout")) /\ Sound(Pause(u, "budget-exhausted"))
  BY <1>1, NotApproved, PauseSound
<1>5. CASE outcome \in {"handoff", "timed-out", "run-time-exhausted", "invocation-failed",
                       "auth-failed"}
  BY <1>4, <1>d, <1>5 DEF Apply, t, u
<1>6. CASE outcome \notin {"handoff", "timed-out", "run-time-exhausted", "invocation-failed",
                          "auth-failed"}
  <2>1. \/ u.stage = "planning"     /\ outcome \in {"answer", "planned", "failed"}
        \/ u.stage = "implementing" /\ outcome \in {"answer", "changed", "failed"}
        \/ u.stage = "assessing"    /\ outcome \in {"approved", "changes-required", "failed"}
        \/ u.stage = "specializing" /\ outcome \in {"approved", "changes-required", "failed"}
           /\ (outcome # "failed" => a.role \in u.queue)
    BY <1>a, <1>3, <1>6 DEF Accepts, t
  <2>2. CASE u.stage = "planning" /\ outcome \in {"answer", "planned", "failed"}
    <3>1. /\ Sound(AfterPlanning(u, outcome, revision))
          /\ outcome = "planned" => AfterPlanning(u, outcome, revision).plan # None
      BY <1>1, <2>2, AfterPlanningSound
    <3>q. QED BY <3>1, <2>2, <1>6 DEF Apply, t, u
  <2>3. CASE u.stage = "implementing" /\ outcome \in {"answer", "changed", "failed"}
    <3>1. Sound(AfterImplementing(u, a, outcome, revision))
      BY <1>1, <2>3, AfterImplementingSound
    <3>q. QED BY <3>1, <2>3, <1>6 DEF Apply, t, u
  <2>4. CASE u.stage = "assessing" /\ outcome \in {"approved", "changes-required", "failed"}
    <3>1. outcome = "changes-required" => a.revision \in Candidates \cup {None}
      BY ReviewerRevision
    <3>2. Sound(AfterAssessing(u, a, outcome))
      BY <1>1, <1>c, <2>4, <3>1, AfterAssessingSound
    <3>q. QED BY <3>2, <2>4, <1>6 DEF Apply, t, u
  <2>5. CASE u.stage = "specializing" /\ outcome \in {"approved", "changes-required", "failed"}
             /\ (outcome # "failed" => a.role \in u.queue)
    <3>1. Sound(AfterSpecializing(u, a, outcome))
      BY <1>1, <2>5, AfterSpecializingSound
    <3>q. QED BY <3>1, <2>5, <1>6 DEF Apply, t, u
  <2>q. QED BY <2>1, <2>2, <2>3, <2>4, <2>5
<1>q. QED BY <1>5, <1>6

\* So does the state sdlcRecordResultLocked saves for it, whatever the router
\* and the budgets say then, and if the driver dies in between.
LEMMA AcceptedSound ==
  ASSUME Plans \cap Candidates = {}, Sound(run), NEW a \in Assignment,
         NEW outcome \in WorkerOutcomes(a.role),
         NEW revision \in ResultRevisions(a, outcome),
         Accepts(run, a, outcome), Accepted(a, outcome, revision)
  PROVE  Sound(run')
<1> DEFINE applied == Apply(run, a, outcome, revision)
           s == IF outcome = "planned"
                THEN [applied EXCEPT !.approvedPlan = None, !.authorized = None] ELSE applied
           newCandidate == outcome = "changed" /\ s.diff # run.diff
           h == IF newCandidate THEN Unseen ELSE hist
           kind == IF outcome = "planned" THEN "plan" ELSE "diff"
           open == [s EXCEPT !.pendingDecision = kind, !.pendingPhase = s.stage]
<1>1. /\ outcome = "planned" => revision \in Plans
      /\ outcome = "changed" => revision \in Candidates
  BY DEF ResultRevisions
<1>2. Sound(applied) /\ (outcome = "planned" => applied.plan # None)
  BY <1>1, ApplySound
<1> HIDE DEF applied
<1>3. Sound(s) /\ (outcome = "planned" => s.plan # None)
  <2> DEFINE t == [applied EXCEPT !.approvedPlan = None, !.authorized = None]
  <2>1. t \in RunState
    BY <1>2, Update DEF Sound
  <2>2. Keeps(t, applied)
    BY <1>2 DEF Keeps, Sound, RunState, Done
  <2> HIDE DEF t
  <2>3. Sound(t) /\ t.plan = applied.plan
    BY <1>2, <2>1, <2>2, KeepsSound DEF Keeps
  <2>q. QED BY <1>2, <2>3 DEF t
<1> HIDE DEF s
<1>4. kind \in {"plan", "diff"} /\ (kind = "plan" => s.plan # None) /\ s.stage \in Stages
  BY <1>3, Fields DEF Sound
<1> HIDE DEF kind
<1>5. Sound(open) /\ open.plan = s.plan
  <2>1. Sound(open)
    BY <1>3, <1>4, OpenSound
  <2>2. open.plan = s.plan
    BY <1>3 DEF Sound, RunState
  <2>q. QED BY <2>1, <2>2
<1> HIDE DEF open, h, newCandidate
<1>6. CASE Decide(open, kind, h)
  BY <1>4, <1>5, <1>6, DecideSound
<1>7. CASE run' = open \/ UNCHANGED run
  BY <1>5, <1>7
<1>8. CASE run' \in UNION {Gated(t) : t \in
                IF outcome \in {"invocation-failed", "auth-failed"} THEN Rerouted(s) ELSE {s}}
  <2>1. \A t \in IF outcome \in {"invocation-failed", "auth-failed"} THEN Rerouted(s) ELSE {s} :
           Sound(t)
    BY <1>3, ReroutedSound
  <2>q. QED BY <1>8, <2>1, GatedSound
<1>q. QED
  BY <1>6, <1>7, <1>8 DEF Accepted, applied, s, newCandidate, h, kind, open

\* --retry-failed keeps the review sound, also with the patch on disk as the
\* candidate.
LEMMA RetriedSound ==
  ASSUME NEW s, Sound(s), patch \in Candidates \cup {None}
  PROVE  Sound(Retried(s))
<1> DEFINE t0 == Restarted(s, RetryStage(s))
           p == IF s.outcome = "handoff-budget-exhausted" THEN "" ELSE t0.pendingPhase
           v == IF s.outcome \in {"review-workspace-drift", "review-recovery-invalid"}
                THEN None ELSE t0.recovery
           t == [t0 EXCEPT !.pendingPhase = p,
                  !.excluded = {}, !.deferred = {}, !.handoffs = 0,
                  !.fallbackUsed = FALSE, !.lastHandoff = None, !.noProgress = 0,
                  !.recovery = v]
           w == [t EXCEPT !.diff = patch, !.assessments = {}]
<1>1. Sound(t0) /\ t0.outcome = ""
  <2>1. Sound(t0)
    BY RetryStageType, RestartedSound DEF Sound
  <2>2. t0.outcome = ""
    BY DEF Restarted, Sound, RunState
  <2>q. QED BY <2>1, <2>2
<1> HIDE DEF t0
<1>2. p \in Stages /\ v = None
  BY <1>1, Fields DEF Stages, Sound
<1> HIDE DEF p, v
<1>3. t \in RunState
  BY ZenonT(60), <1>1, <1>2, Update DEF Sound
<1>4. Keeps(t, t0) /\ t.outcome = ""
  BY <1>1, <1>2 DEF Keeps, Sound, RunState, Done
<1> HIDE DEF t
<1>5. Sound(t)
  BY <1>1, <1>3, <1>4, KeepsSound
<1>6. w \in RunState
  BY <1>3, Update
<1>7. /\ w.recovery = t.recovery /\ w.assessments = {} /\ w.pending = t.pending
      /\ w.implementer = t.implementer /\ w.plan = t.plan /\ w.queue = t.queue
      /\ w.pendingDecision = t.pendingDecision /\ w.outcome = ""
  BY <1>3, <1>4 DEF RunState
<1> HIDE DEF w
<1>8. Sound(w)
  <2>1. Independent(w)
    BY <1>5, <1>7, FS_EmptySet DEF Sound, Independent, Counts, Reviews
  <2>2. ResearchesPlan(w) /\ ApprovedSoundly(w)
    BY <1>5, <1>7 DEF Sound, ResearchesPlan, ApprovedSoundly, Done
  <2>q. QED BY <1>5, <1>6, <1>7, <2>1, <2>2 DEF Sound
<1>q. QED BY <1>5, <1>8 DEF Retried, w, t, p, v, t0

\* While no review of a drifted workspace is saved, a resume recovers none.
LEMMA NothingSaved ==
  ASSUME NEW s, Sound(s)
  PROVE  MarkCounted(s) = s /\ Recovered(s) = {s}
BY DEF Sound, MarkCounted, Recovered

-----------------------------------------------------------------------------
(***************************************************************************)
(* The steps                                                               *)
(***************************************************************************)

\* Every run starts with a sound review (sdlcStart).
LEMMA InitSound == Init => Sound(run)
<1> SUFFICES ASSUME Init PROVE Sound(run)
  OBVIOUS
<1>1. PICK seed \in Seeds, p \in Plans, c \in Candidates : run = Seeded(seed, p, c)
  BY DEF Init
<1>2. seed \in AllSeeds
  BY RunConstants
<1>3. run \in RunState
  BY <1>1, <1>2, SeededType
<1>4. /\ run.recovery = None /\ run.assessments = {} /\ run.pending = {} /\ run.queue = {}
      /\ run.pendingDecision = "" /\ run.outcome = ""
  BY <1>1, <1>2 DEF Seeded, Fresh, AllSeeds
<1>5. Independent(run)
  BY <1>4, FS_EmptySet DEF Independent, Counts, Reviews
<1>6. ResearchesPlan(run) /\ ApprovedSoundly(run)
  BY <1>4 DEF ResearchesPlan, ApprovedSoundly, Done
<1>q. QED BY <1>3, <1>4, <1>5, <1>6 DEF Sound

\* The reviewer that sdlcAssignNextLocked adds is not the author, reviews nothing
\* of this candidate yet and is not counted for it; research gets the plan.
LEMMA AssignSound ==
  ASSUME Sound(run), AssignNext
  PROVE  Sound(run')
<1>1. PICK role \in RolesWanted(run) :
         LET s == WithFallback(run, role)
         IN \E g \in Candidate(s, role) :
                 LET i == CHOOSE x \in FreshIds(s) : TRUE
                     a == [id |-> i, role |-> role, agent |-> g,
                           revision |-> TargetRevision(s, role)]
                 IN /\ FreshIds(s) # {}
                    /\ run' = [s EXCEPT !.pending = @ \cup {a}]
  BY DEF AssignNext
<1> DEFINE s == WithFallback(run, role)
           i == CHOOSE x \in FreshIds(s) : TRUE
<1>2. Sound(s)
  BY WithFallbackSound
<1>3. s.plan = run.plan
  BY DEF WithFallback, Sound, RunState
<1> HIDE DEF s
<1>4. PICK g \in Candidate(s, role) :
        LET a == [id |-> i, role |-> role, agent |-> g, revision |-> TargetRevision(s, role)]
        IN FreshIds(s) # {} /\ run' = [s EXCEPT !.pending = @ \cup {a}]
  BY <1>1 DEF s
<1> DEFINE a == [id |-> i, role |-> role, agent |-> g, revision |-> TargetRevision(s, role)]
<1>5. i \in Invocations /\ g \in Agents
  BY <1>4 DEF FreshIds, Candidate, Eligible
<1> HIDE DEF i
<1>6. a \in Assignment
  BY <1>2, <1>5, AssignmentType DEF Sound
<1>7. run' = [s EXCEPT !.pending = s.pending \cup {a}]
  BY <1>4
<1>8. a.role \in Reviewers => By(a) \notin Reviewing(s) \cup {s.implementer}
  BY <1>4 DEF Candidate, Eligible, By
<1>9. a.role = "research" => a.revision # None
  <2>1. SUFFICES ASSUME role = "research" PROVE TargetRevision(s, role) # None
    OBVIOUS
  <2>2. "research" \in run.queue
    BY <2>1 DEF RolesWanted, Planner, Implementer, Assessor
  <2>3. run.plan # None
    BY <2>2 DEF Sound, ResearchesPlan
  <2>4. TargetRevision(s, role) = s.plan
    BY <2>1 DEF TargetRevision, Reviewers, DiffExperts, Assessor, PlanExperts
  <2>q. QED BY <1>3, <2>3, <2>4
<1> HIDE DEF a
<1>10. run' \in RunState
  <2>1. s.pending \cup {a} \in SUBSET Assignment
    BY <1>2, <1>6, Fields DEF Sound
  <2>q. QED BY <1>2, <1>7, <2>1, Update DEF Sound
<1> DEFINE t == run'
<1>11. /\ t.recovery = s.recovery /\ t.assessments = s.assessments
       /\ t.pending = s.pending \cup {a} /\ t.diff = s.diff /\ t.implementer = s.implementer
       /\ t.plan = s.plan /\ t.queue = s.queue /\ t.pendingDecision = s.pendingDecision
       /\ t.receipts = s.receipts /\ t.receiptsFor = s.receiptsFor
       /\ t.stage = s.stage /\ t.outcome = s.outcome
  BY <1>2, <1>7 DEF Sound, RunState
<1> HIDE DEF t
<1>12. \A b : Reviews(s, b) => By(b) \in Reviewing(s)
  BY DEF Reviews, Reviewing, By
<1>13. \A x : Counts(s, x) => By(x) \in Reviewing(s)
  BY DEF Counts, Reviewing, By
<1>14. \A b : Reviews(t, b) => Reviews(s, b) \/ (b = a /\ a.role \in Reviewers)
  BY <1>11 DEF Reviews
<1>15. \A x : Counts(t, x) => Counts(s, x)
  BY <1>11 DEF Counts
<1>16. Independent(t)
  <2>1. \A b : Reviews(t, b) => By(b) # t.implementer
    BY <1>2, <1>8, <1>11, <1>14 DEF Sound, Independent
  <2>2. \A b, c : Reviews(t, b) /\ Reviews(t, c) /\ By(b) = By(c) => b = c
    BY <1>2, <1>8, <1>12, <1>14 DEF Sound, Independent
  <2>3. \A b, x : Reviews(t, b) /\ Counts(t, x) => By(b) # By(x)
    BY <1>2, <1>8, <1>13, <1>14, <1>15 DEF Sound, Independent
  <2>4. /\ IsFiniteSet(t.assessments)
        /\ \A x : Counts(t, x) => By(x) # t.implementer
        /\ \A x, y : Counts(t, x) /\ Counts(t, y) /\ By(x) = By(y) => x = y
    BY <1>2, <1>11, <1>15 DEF Sound, Independent
  <2>q. QED BY <2>1, <2>2, <2>3, <2>4 DEF Independent
<1>17. ResearchesPlan(t)
  BY <1>2, <1>9, <1>11 DEF Sound, ResearchesPlan
<1>18. ApprovedSoundly(t)
  BY <1>2, <1>11 DEF Sound, ApprovedSoundly, Done, ChecksAllowCompletion
<1>q. QED BY <1>2, <1>10, <1>11, <1>16, <1>17, <1>18 DEF Sound, t

\* Each section of a drive keeps the review sound.
LEMMA DriveSoundly ==
  ASSUME Sound(run), Drive
  PROVE  Sound(run')
<1>1. CASE PlanApprovalGate
  <2> DEFINE reason == IF ~RequirePlanApproval THEN "command-authorization-required"
                       ELSE IF run.plan = None THEN "plan-required"
                       ELSE "plan-approval-required"
             t == Pause(run, reason)
  <2>1. Sound(t)
    BY NotApproved, PauseSound
  <2>2. run' = [t EXCEPT !.pendingPhase = "implementing"]
    BY <1>1 DEF PlanApprovalGate
  <2> HIDE DEF t
  <2>3. run' \in RunState
    BY <2>1, <2>2, Update, StageNames DEF Working, Sound
  <2>4. Keeps(run', t)
    BY <2>1, <2>2 DEF Keeps, Sound, RunState, Done
  <2>q. QED BY <2>1, <2>3, <2>4, KeepsSound
<1>2. CASE AssignNext
  BY <1>2, AssignSound
<1>3. CASE NobodyEligible
  <2>1. PICK role \in RolesWanted(run) :
          \/ run' = Pause(WithFallback(run, role), FailedOutcome(role))
          \/ run' = Pause(WithFallback(run, role), "assessment-quorum-unavailable")
    BY <1>3 DEF NobodyEligible
  <2>q. QED BY <2>1, WithFallbackSound, NotApproved, PauseSound
<1>4. CASE BudgetStops
  BY <1>4, NotApproved, PauseSound DEF BudgetStops
<1>5. CASE LaunchReviews
  BY <1>5 DEF LaunchReviews
<1>6. CASE Verify
  <2>1. Verdicts(run) \subseteq {"skipped", "passed", "failed", "invalidated", "environment"}
    BY DEF Verdicts
  <2>2. \A verdict \in Verdicts(run) : Sound(Verified(run, verdict))
    BY <2>1, VerifiedSound
  <2>3. Sound(Pause(run, "command-authorization-required"))
    BY NotApproved, PauseSound
  <2>q. QED BY <1>6, <2>2, <2>3 DEF Verify
<1>7. CASE RetrySpecialistDecision
  BY <1>7, DecideAgainSound DEF RetrySpecialistDecision
<1>8. CASE DriverError
  BY <1>8, DriveFailedSound DEF DriverError
<1>q. QED BY <1>1, <1>2, <1>3, <1>4, <1>5, <1>6, <1>7, <1>8 DEF Drive

\* Each section about a worker's result, and a crash, keeps the review sound.
LEMMA InvocationSoundly ==
  ASSUME Plans \cap Candidates = {}, "drift" \notin Events,
         RunTypeOK, replies = {}, Sound(run), Invocation
  PROVE  Sound(run') /\ replies' = {}
<1>1. CASE Report
  <2>1. PICK a \in Executing :
          /\ \E outcome \in WorkerOutcomes(a.role) \cap Replies :
               \E revision \in ResultRevisions(a, outcome) :
                 \/ Accepts(run, a, outcome) /\ Accepted(a, outcome, revision)
                 \/ UNCHANGED run
                 \/ run' = Pause(run, FailedOutcome(a.role))
          /\ UNCHANGED replies
    BY <1>1 DEF Report, Ignored
  <2>2. a \in Assignment
    BY DEF Executing, RunTypeOK
  <2>3. PICK outcome \in WorkerOutcomes(a.role) :
          \E revision \in ResultRevisions(a, outcome) :
             \/ Accepts(run, a, outcome) /\ Accepted(a, outcome, revision)
             \/ UNCHANGED run
             \/ run' = Pause(run, FailedOutcome(a.role))
    BY <2>1
  <2>4. CASE \E revision \in ResultRevisions(a, outcome) :
                Accepts(run, a, outcome) /\ Accepted(a, outcome, revision)
    BY <2>1, <2>2, <2>4, AcceptedSound
  <2>5. CASE UNCHANGED run
    BY <2>1, <2>5
  <2>6. CASE run' = Pause(run, FailedOutcome(a.role))
    BY <2>1, <2>6, NotApproved, PauseSound
  <2>q. QED BY <2>3, <2>4, <2>5, <2>6
<1>2. CASE FailAssignment
  <2>1. PICK a \in running : run' = Pause(run, FailedOutcome(a.role))
    BY <1>2 DEF FailAssignment
  <2>q. QED BY <1>2, <2>1, NotApproved, PauseSound DEF FailAssignment
<1>3. CASE LoseSession
  BY <1>3, NotApproved, PauseSound DEF LoseSession
<1>4. CASE InjectionReview
  <2> DEFINE p == IF run.stage = "paused" THEN run.pendingPhase ELSE run.stage
             s == [run EXCEPT !.pendingPhase = p]
  <2>1. p \in Stages
    BY Fields DEF Sound
  <2>2. run' = Pause(s, "injection-review-required")
    BY <1>4 DEF InjectionReview
  <2> HIDE DEF p
  <2>3. s \in RunState
    BY <2>1, Update DEF Sound
  <2>4. Keeps(s, run)
    BY ZenonT(60) DEF Keeps, Sound, RunState, Done
  <2> HIDE DEF s
  <2>q. QED BY <1>4, <2>2, <2>3, <2>4, KeepsSound, NotApproved, PauseSound DEF InjectionReview
<1>5. CASE UnsafeReview
  BY <1>5, NotApproved, PauseSound DEF UnsafeReview
<1>6. CASE CancelReview
  <2>1. PICK a : run' = [run EXCEPT !.pending = run.pending \ {a}]
    BY <1>6 DEF CancelReview
  <2>2. run.pending \ {a} \in SUBSET Assignment
    BY Fields DEF Sound
  <2>3. run' \in RunState
    BY <2>1, <2>2, Update DEF Sound
  <2>4. Keeps(run', run)
    BY ZenonT(60), <2>1 DEF Keeps, Sound, RunState, Done
  <2>q. QED BY <1>6, <2>3, <2>4, KeepsSound DEF CancelReview
<1>7. CASE SaveReview
  BY <1>7 DEF SaveReview
<1>8. CASE FinishReview
  BY <1>8 DEF FinishReview
<1>9. CASE Crash
  BY <1>9 DEF Crash
<1>q. QED BY <1>1, <1>2, <1>3, <1>4, <1>5, <1>6, <1>7, <1>8, <1>9 DEF Invocation

\* A resume that restores a saved phase keeps the review sound.
LEMMA ResumedSound ==
  ASSUME NEW s, Sound(s), NEW stage \in Stages
  PROVE  /\ Sound([Restarted(s, stage) EXCEPT !.pendingPhase = ""])
         /\ Sound([Restarted(s, stage) EXCEPT !.budgetPhase = ""])
         /\ Sound([Restarted(s, stage) EXCEPT !.retryPhase = ""])
<1> DEFINE r == Restarted(s, stage)
           p == [r EXCEPT !.pendingPhase = ""]
           b == [r EXCEPT !.budgetPhase = ""]
           q == [r EXCEPT !.retryPhase = ""]
<1>1. Sound(r)
  BY RestartedSound
<1> HIDE DEF r
<1>2. p \in RunState /\ b \in RunState /\ q \in RunState
  BY <1>1, Update, StageNames DEF Sound
<1>3. Keeps(p, r) /\ Keeps(b, r) /\ Keeps(q, r)
  BY <1>1 DEF Keeps, Sound, RunState, Done
<1> HIDE DEF p, b, q
<1>4. Sound(p) /\ Sound(b) /\ Sound(q)
  BY <1>1, <1>2, <1>3, KeepsSound
<1>q. QED BY <1>4 DEF p, b, q, r

\* Each resume, approval and authorization keeps the review sound.
LEMMA ResumeSoundly ==
  ASSUME RunTypeOK, Sound(run), Resume
  PROVE  Sound(run')
<1>1. /\ run.pendingPhase \in Stages /\ run.budgetPhase \in Stages
      /\ run.retryPhase \in Stages /\ patch \in Candidates \cup {None}
  BY Fields DEF RunTypeOK, Sound
<1>2. \A s : Sound(s) /\ ResumeTo(s) => Sound(run')
  BY NothingSaved DEF ResumeTo
<1>3. MarkCounted(run) = run
  BY NothingSaved
<1>4. CASE ResumeInjection
  BY <1>1, <1>2, <1>4, ResumedSound DEF ResumeInjection
<1>5. CASE ContinueBudget
  <2>1. PICK phase \in Stages : ResumeTo([Restarted(run, phase) EXCEPT !.budgetPhase = ""])
    BY <1>1, <1>5 DEF ContinueBudget
  <2>q. QED BY <1>2, <2>1, ResumedSound
<1>6. CASE ResumeInvocation
  BY <1>1, <1>2, <1>6, ResumedSound DEF ResumeInvocation
<1>7. CASE RetryFailed
  <2>1. Sound(Retried(run))
    BY <1>1, RetriedSound
  <2>q. QED BY <1>3, <1>7, <2>1, NothingSaved DEF RetryFailed
<1>8. CASE RetryVerification
  <2>1. Sound(Restarted(run, "verifying"))
    BY RestartedSound, StageNames DEF Working
  <2>q. QED BY <1>8, <2>1, NothingSaved DEF RetryVerification
<1>9. CASE ResumeDecision
  BY <1>3, <1>9, DecideAgainSound DEF ResumeDecision
<1>10. CASE ResumeReview
  BY <1>10 DEF ResumeReview, Sound
<1>11. CASE ApprovePlan
  <2> DEFINE s == [run EXCEPT !.approvedPlan = run.plan, !.authorized = run.plan]
  <2>1. s \in RunState
    BY Fields, Update DEF Sound
  <2>2. Keeps(s, run)
    BY ZenonT(60) DEF Keeps, Sound, RunState, Done
  <2>3. run' = s \/ run' = [Restarted(s, s.pendingPhase) EXCEPT !.pendingPhase = ""]
    BY <1>11 DEF ApprovePlan
  <2> HIDE DEF s
  <2>4. Sound(s) /\ s.pendingPhase \in Stages
    BY <2>1, <2>2, KeepsSound, Fields
  <2>5. Sound([Restarted(s, s.pendingPhase) EXCEPT !.pendingPhase = ""])
    BY <2>4, ResumedSound
  <2>q. QED BY <2>3, <2>4, <2>5
<1>12. CASE AuthorizeChecks
  <2> DEFINE s == [run EXCEPT !.authorized = run.plan]
  <2>1. s \in RunState
    BY Fields, Update DEF Sound
  <2>2. Keeps(s, run)
    BY ZenonT(60) DEF Keeps, Sound, RunState, Done
  <2>3. run' = s \/ run' = [Restarted(s, s.pendingPhase) EXCEPT !.pendingPhase = ""]
    BY <1>12 DEF AuthorizeChecks
  <2> HIDE DEF s
  <2>4. Sound(s) /\ s.pendingPhase \in Stages
    BY <2>1, <2>2, KeepsSound, Fields
  <2>5. Sound([Restarted(s, s.pendingPhase) EXCEPT !.pendingPhase = ""])
    BY <2>4, ResumedSound
  <2>q. QED BY <2>3, <2>4, <2>5
<1>13. CASE RequestPlanChanges
  <2> DEFINE r == Restarted(run, "planning")
  <2>1. Sound(r)
    BY RestartedSound, StageNames DEF Working
  <2>2. run' = [r EXCEPT !.approvedPlan = None, !.authorized = None, !.pendingDecision = "",
                         !.pendingPhase = "", !.queue = {}, !.reviews = {}, !.after = ""]
    BY <1>13 DEF RequestPlanChanges
  <2> HIDE DEF r
  <2>3. run' \in RunState
    BY <2>1, <2>2, Update, StageNames DEF Sound
  <2>4. Keeps(run', r)
    BY <2>1, <2>2 DEF Keeps, Sound, RunState, Done
  <2>q. QED BY <2>1, <2>3, <2>4, KeepsSound
<1>q. QED BY <1>4, <1>5, <1>6, <1>7, <1>8, <1>9, <1>10, <1>11, <1>12, <1>13 DEF Resume

-----------------------------------------------------------------------------

\* Every step keeps the type (TypeCorrect proves it of all behaviours).
LEMMA TypeStep ==
  ASSUME RunTypeOK, [Next]_vars
  PROVE  RunTypeOK'
<1>1. CASE Next
  BY <1>1, DriveKeepsType, InvocationKeepsType, ResumeKeepsType DEF Next
<1>2. CASE UNCHANGED vars
  BY <1>2 DEF vars, RunTypeOK
<1>q. QED BY <1>1, <1>2

\* In a sound review as many bindings approved as there are assessments: those
\* of an approved candidate are pairwise of different bindings.
LEMMA SoundIsQuorum == Sound(run) => ApprovedByQuorum
<1> SUFFICES ASSUME Sound(run), ApprovedRun PROVE ApprovedByQuorum
  BY DEF ApprovedByQuorum
<1> DEFINE xs == run.assessments
           bys == {v.by : v \in Votes}
           f == [x \in xs |-> By(x)]
<1>1. /\ Cardinality(xs) >= Quorum /\ ChecksAllowCompletion(run)
      /\ \A x \in xs : x.approved /\ Counts(run, x)
  BY DEF Sound, ApprovedSoundly, Done, ApprovedRun, Counts
<1>2. \A v \in Votes : \E x \in xs : v.by = By(x) /\ v.approves = x.approved
  BY DEF Votes, By
<1>3. \A x \in xs : By(x) \in bys
  <2>1. SUFFICES ASSUME NEW x \in xs PROVE By(x) \in bys
    OBVIOUS
  <2> DEFINE v == [by |-> By(x), approves |-> x.approved]
  <2>2. v \in Votes
    BY DEF Votes, By
  <2>3. v.by = By(x)
    OBVIOUS
  <2> HIDE DEF v
  <2>q. QED BY <2>2, <2>3
<1>4. \A b \in bys : \E x \in xs : b = By(x)
  BY <1>2
<1>5. \A x, y \in xs : By(x) = By(y) => x = y
  BY <1>1 DEF Sound, Independent
<1> HIDE DEF bys
<1>6. f \in Surjection(xs, bys)
  BY <1>3, <1>4 DEF Surjection
<1>7. f \in Injection(xs, bys)
  BY <1>3, <1>5 DEF Injection, IsInjective
<1>8. Cardinality(bys) = Cardinality(xs)
  BY <1>6, <1>7, FS_Surjection DEF Sound, Independent
<1>9. \A v \in Votes : v.approves /\ v.by # run.implementer
  BY <1>1, <1>2 DEF Sound, Independent
<1>10. Cardinality({v.by : v \in Votes}) >= Quorum
  BY <1>1, <1>8 DEF bys
<1>q. QED BY <1>1, <1>9, <1>10 DEF ApprovedByQuorum, Counts

\* What is proved of every state without drift (sdlcRecordResultLocked).
SoundRun == RunTypeOK /\ replies = {} /\ Sound(run)

\* Every step keeps the review sound, whoever takes it.
LEMMA SoundStep ==
  ASSUME "drift" \notin Events, Plans \cap Candidates = {}, SoundRun, [Next]_vars
  PROVE  SoundRun'
<1> USE DEF SoundRun
<1>1. RunTypeOK'
  BY TypeStep
<1>2. CASE Drive
  <2>1. UNCHANGED replies
    BY <1>2 DEF Drive, PlanApprovalGate, AssignNext, NobodyEligible, BudgetStops,
                LaunchReviews, Verify, RetrySpecialistDecision, DriverError
  <2>q. QED BY <1>1, <1>2, <2>1, DriveSoundly
<1>3. CASE Invocation
  BY <1>1, <1>3, InvocationSoundly
<1>4. CASE Resume
  <2>1. UNCHANGED replies
    BY <1>4 DEF Resume, ResumeInjection, ContinueBudget, ResumeInvocation, RetryFailed,
                RetryVerification, ResumeDecision, ResumeReview, ApprovePlan,
                AuthorizeChecks, RequestPlanChanges
  <2>q. QED BY <1>1, <1>4, <2>1, ResumeSoundly
<1>5. CASE UNCHANGED vars
  BY <1>1, <1>5 DEF vars
<1>q. QED BY <1>2, <1>3, <1>4, <1>5 DEF Next

\* However drivers, hosts and operators interleave, whatever fails, times out,
\* hands off, pauses or is retried, a run is approved only by a quorum of
\* distinct bindings that all approved exactly its candidate, its author not
\* among them, with no failed check against it (adaptiveCandidates, State.apply).
THEOREM ApprovalIsIndependent ==
  ASSUME "drift" \notin Events, Plans \cap Candidates = {}
  PROVE  Spec => []ApprovedByQuorum
<1>1. Init => SoundRun
  BY InitType, InitSound DEF Init, SoundRun
<1>2. SoundRun /\ [Next]_vars => SoundRun'
  BY SoundStep
<1>3. SoundRun => ApprovedByQuorum
  BY SoundIsQuorum DEF SoundRun
<1>q. QED BY <1>1, <1>2, <1>3, PTL DEF Spec
=============================================================================
