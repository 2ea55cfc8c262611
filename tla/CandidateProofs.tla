-------------------------- MODULE CandidateProofs --------------------------
(***************************************************************************)
(* What an approval says about its candidate: it was verified, every       *)
(* expert that was demanded approved it, nobody rejected it, it was made   *)
(* under the approved plan, and the decision is final; and that the run    *)
(* implements CandidateApproval.  For every enrollment, quorum and         *)
(* concurrency, one driver at a time that may die, fail, run out of        *)
(* budget, lose conversations and be resumed, and no drift of the          *)
(* workspace under its assessors.                                          *)
(***************************************************************************)
EXTENDS AdaptiveRunProofs

\* The phases a run is in, returns to when a result ends a drain, or may be
\* resumed to from its pause.
Headed(s, phase) ==
    \/ phase \in {s.stage, s.budgetPhase}
    \/ s.outcome = "planner-failed" /\ phase = "planning"
    \/ s.outcome = "implementer-failed" /\ phase = "implementing"
    \/ /\ s.outcome \in {"assessor-failed", "review-workspace-drift",
                         "review-recovery-invalid"}
       /\ phase = "assessing"
    \/ s.outcome = "verification-environment-failed" /\ phase = "verifying"
    \/ /\ s.outcome \in {"invocation-timeout", "session-recovery-required"}
       /\ phase = s.retryPhase
    \/ /\ \/ s.pendingDecision # ""
          \/ s.outcome \in {"injection-review-required", "plan-approval-required",
                            "command-authorization-required", "handoff-budget-exhausted"}
          \/ s.outcome = "budget-exhausted" /\ s.budgetPhase = ""
       /\ phase = s.pendingPhase

\* Reserved or executed; w are the invocations that run.
Active(s, w) == s.pending \cup w
Judges(s, w) == {a \in Active(s, w) : a.role = Assessor}
Maker(a)     == a.role \in {Planner, Implementer}

Heard(s)    == {r.role : r \in {q \in s.reviews : q.approved}}
Locked(s)   == RequirePlanApproval => s.approvedPlan = s.plan
Rejected(s) == \E x \in s.assessments : ~x.approved

\* The candidate may be approved: it is the verified one, and what preceded its
\* assessment is in order, unless an assessor already rejected it.
Fit(s, h, q) ==
    /\ s.diff # None /\ q = s.diff /\ h.verified
    /\ ChecksAllowCompletion(s)
    /\ s.pendingDecision = "" /\ s.queue = {}
    /\ \/ Rejected(s)
       \/ /\ h.demanded \subseteq Heard(s)
          /\ s.implementer # None => Locked(s)
          /\ s.plan \in ArgvPlans => s.authorized = s.plan
          /\ s.repair # s.diff

Judging(s, w) == Headed(s, "assessing") \/ Judges(s, w) # {}

\* The candidate is to be verified, once its experts are heard.
Unjudged(s, h, q) ==
    /\ s.diff # None /\ q = s.diff /\ s.assessments = {} /\ s.repair # s.diff
    /\ ~h.verified
    /\ \A phase \in {"planning", "implementing", "assessing"} :
          ~Headed(s, phase) /\ s.pendingPhase # phase
    /\ s.implementer # None => Locked(s)
    /\ s.pendingDecision = "" => h.demanded \subseteq Heard(s) \cup s.queue
    /\ Headed(s, "verifying") => s.budgetPhase \in {"", "verifying"}

Unverified(s) == Headed(s, "verifying") \/ (s.queue # {} /\ s.after = "verifying")

\* Experts are asked, or to be asked, before anybody assesses.
Asking(s, w) ==
    \/ \E a \in Active(s, w) : a.role \in Experts
    \/ s.queue # {} \/ s.pendingDecision = "plan"

\* Where a drain returns to, or else the stage.
Phase(s) == IF s.budgetPhase = "" THEN s.stage ELSE s.budgetPhase

\* A planner or an implementer may be at work.
AtWork(s) ==
    \/ s.stage \in {"planning", "implementing"}
    \/ s.stage = "draining" /\ s.budgetPhase \in {"planning", "implementing"}

FitToJudge(s, w, h, q)   == Judging(s, w) => Fit(s, h, q)
ReadyToVerify(s, h, q)   == Unverified(s) => Unjudged(s, h, q)
ApprovedFinally(s, w, h, q) ==
    s.outcome = "approved" => s.stage = "done" /\ Active(s, w) = {} /\ Fit(s, h, q)
ExpertsFirst(s, w) ==
    Asking(s, w) =>
        /\ Judges(s, w) = {}
        /\ \A phase \in {"assessing", "verifying", "planning"} :
              ~Headed(s, phase) /\ s.pendingPhase # phase
OneMaker(s, w) ==
    \A a \in Active(s, w) : Maker(a) =>
        /\ s.pending = {a} /\ w \subseteq {a}
        /\ ~Unverified(s)
        /\ a.role = Implementer => Locked(s)
        /\ a.role = Planner => s.queue = {}
        /\ AtWork(s)
OpenDecision(s, w, h) ==
    /\ s.pendingDecision = "diff" =>
        /\ h.demanded = {} /\ s.stage \in {"verifying", "paused"}
        /\ s.pendingPhase = "verifying"
        /\ s.outcome \in {"", "budget-exhausted", "specialist-decision-unavailable",
                          "driver-failed"}
    /\ s.pendingPhase = "verifying" => s.pendingDecision = "diff"
    /\ s.pendingDecision # "" => Active(s, w) = {} /\ s.queue = {}
VotesLeft(s, w) ==
    /\ IsFiniteSet(s.assessments) /\ IsFiniteSet(s.pending) /\ IsFiniteSet(w)
    /\ \A x \in s.assessments : x.revision = s.diff
    /\ \A a \in Judges(s, w) : a.revision = s.diff
    /\ Judging(s, w) => Cardinality(s.assessments) + Cardinality(Judges(s, w)) <= Quorum
    /\ Headed(s, "assessing") => Cardinality(s.assessments) < Quorum
Outside(s, w) ==
    /\ s.outcome \notin {"review-workspace-drift", "review-recovery-invalid"}
    /\ w \subseteq s.pending \/ s.pending = {}
    /\ s.outcome # "" => \/ s.stage \in {"paused", "done"}
                         \/ s.stage = "draining" /\ s.outcome = "budget-exhausted"
    /\ s.budgetPhase \notin {"paused", "draining"}
    /\ s.budgetPhase = "verifying" => s.stage = "paused" /\ s.outcome = "budget-exhausted"
    /\ s.outcome = "plan-approval-required" => s.pendingPhase = "implementing"
RejectedBefore(s, w) ==
    /\ Judging(s, w)
    /\ \/ \E a \in Active(s, w) : Maker(a)
       \/ \E phase \in {"planning", "implementing"} :
             Headed(s, phase) \/ s.pendingPhase = phase
    => Rejected(s)

\* The inductive invariant of this module.
Orderly(s, w, h, q) ==
    /\ FitToJudge(s, w, h, q) /\ ReadyToVerify(s, h, q) /\ ApprovedFinally(s, w, h, q)
    /\ ExpertsFirst(s, w) /\ OneMaker(s, w) /\ OpenDecision(s, w, h)
    /\ VotesLeft(s, w) /\ Outside(s, w) /\ RejectedBefore(s, w)

-----------------------------------------------------------------------------
(***************************************************************************)
(* Steps between phases                                                    *)
(***************************************************************************)

SameData(t, s) ==
    /\ t.diff = s.diff /\ t.implementer = s.implementer /\ t.plan = s.plan
    /\ t.assessments = s.assessments
    /\ t.receipts = s.receipts /\ t.receiptsFor = s.receiptsFor
    /\ t.repair = s.repair /\ t.queue = s.queue /\ t.reviews = s.reviews
    /\ t.after = s.after /\ t.pendingDecision = s.pendingDecision
    /\ t.approvedPlan = s.approvedPlan /\ t.authorized = s.authorized

\* A retry returns to the phase of the role that failed.
Restores(a, phase) ==
    \/ a.role = Planner /\ phase = "planning"
    \/ a.role = Implementer /\ phase = "implementing"
    \/ a.role = Assessor /\ phase = "assessing"

\* A step that moves the run between phases it was headed for, and at most
\* drops assignments.
Moves(t, v, s, w) ==
    /\ SameData(t, s)
    /\ t.pending \subseteq s.pending /\ v \subseteq w
    /\ v \subseteq t.pending \/ t.pending = {}
    /\ \A phase \in {"planning", "implementing", "assessing", "verifying"} :
          Headed(t, phase) =>
             \/ Headed(s, phase)
             \/ phase \in {"planning", "implementing"} /\ s.pendingPhase = phase
             \/ \E a \in Active(s, w) : Restores(a, phase)
    /\ t.pendingPhase \in {"planning", "implementing", "assessing", "verifying"} =>
          \/ t.pendingPhase = s.pendingPhase
          \/ Headed(s, t.pendingPhase) /\ t.pendingPhase # "verifying"
    /\ t.pendingDecision = "diff" =>
          /\ t.stage \in {"verifying", "paused"} /\ t.pendingPhase = "verifying"
          /\ t.outcome \in {"", "budget-exhausted", "specialist-decision-unavailable",
                            "driver-failed"}
    /\ t.budgetPhase \notin {"paused", "draining"}
    /\ t.budgetPhase = "verifying" => t.stage = "paused" /\ t.outcome = "budget-exhausted"
    /\ Headed(t, "verifying") => t.budgetPhase \in {"", "verifying"}
    /\ \A a \in Active(t, v) : Maker(a) =>
          /\ t.pending = s.pending
          /\ AtWork(t)
    /\ t.outcome # "" => \/ t.stage \in {"paused", "done"}
                         \/ t.stage = "draining" /\ t.outcome = "budget-exhausted"
    /\ t.outcome \notin {"approved", "review-workspace-drift", "review-recovery-invalid"}
    /\ t.outcome = "plan-approval-required" => t.pendingPhase = "implementing"

\* Such a step keeps the order: nothing gets to be assessed or verified that
\* was not about to be.
LEMMA MovesOrderly ==
  ASSUME NEW s, NEW w, NEW h, NEW q, NEW t, NEW v,
         Orderly(s, w, h, q), Moves(t, v, s, w)
  PROVE  Orderly(t, v, h, q)
<1> USE DEF Orderly
<1>1. SameData(t, s) /\ Active(t, v) \subseteq Active(s, w) /\ Judges(t, v) \subseteq Judges(s, w)
  BY DEF Moves, Active, Judges
<1>2. Judging(t, v) => Judging(s, w)
  <2>1. Headed(t, "assessing") => Headed(s, "assessing") \/ Judges(s, w) # {}
    BY DEF Moves, Restores, Judges, Planner, Implementer
  <2>q. QED BY <1>1, <2>1 DEF Judging
<1>3. Fit(s, h, q) <=> Fit(t, h, q)
  BY <1>1 DEF SameData, Fit, ChecksAllowCompletion, Rejected, Heard, Locked
<1>4. FitToJudge(t, v, h, q)
  BY <1>2, <1>3 DEF FitToJudge
<1>5. ApprovedFinally(t, v, h, q)
  BY DEF ApprovedFinally, Moves
<1>6. Headed(t, "verifying") => Headed(s, "verifying")
  BY DEF Moves, Restores
<1>7. Unverified(t) => Unverified(s)
  BY <1>1, <1>6 DEF Unverified, SameData
<1>8. ReadyToVerify(t, h, q)
  <2> SUFFICES ASSUME Unverified(t) PROVE Unjudged(t, h, q)
    BY DEF ReadyToVerify
  <2>1. Unverified(s) /\ Unjudged(s, h, q)
    BY <1>7 DEF ReadyToVerify
  <2>2. ~Judging(s, w)
    BY <2>1 DEF FitToJudge, Fit, Unjudged
  <2>3. \A a \in Active(s, w) : ~Maker(a) /\ a.role # Assessor
    BY <2>1, <2>2 DEF OneMaker, Judging, Judges
  <2>4. \A phase \in {"planning", "implementing", "assessing"} :
           ~Headed(t, phase) /\ t.pendingPhase # phase
    <3>1. \A phase \in {"planning", "implementing", "assessing"} :
             ~Headed(s, phase) /\ s.pendingPhase # phase
      BY <2>1 DEF Unjudged
    <3>q. QED BY <2>3, <3>1 DEF Moves, Restores, Maker
  <2>5. Headed(t, "verifying") => t.budgetPhase \in {"", "verifying"}
    BY DEF Moves
  <2>q. QED BY <1>1, <2>1, <2>4, <2>5 DEF Unjudged, SameData, Heard, Locked
<1>9. ExpertsFirst(t, v)
  <2> SUFFICES ASSUME Asking(t, v)
               PROVE  /\ Judges(t, v) = {}
                      /\ \A phase \in {"assessing", "verifying", "planning"} :
                            ~Headed(t, phase) /\ t.pendingPhase # phase
    BY DEF ExpertsFirst
  <2>1. Asking(s, w)
    BY <1>1 DEF Asking, SameData
  <2>2. /\ Judges(s, w) = {}
        /\ \A phase \in {"assessing", "verifying", "planning"} :
              ~Headed(s, phase) /\ s.pendingPhase # phase
    BY <2>1 DEF ExpertsFirst
  <2>3. \A a \in Active(s, w) : a.role # Assessor /\ a.role # Planner
    <3>1. SUFFICES ASSUME NEW a \in Active(s, w), a.role = Planner PROVE FALSE
      BY <2>2 DEF Judges
    <3>2. s.pending = {a} /\ w \subseteq {a} /\ s.queue = {}
      BY <3>1 DEF OneMaker, Maker
    <3>3. s.pendingDecision = ""
      BY <3>1 DEF OpenDecision
    <3>4. PICK e \in Active(s, w) : e.role \in Experts
      BY <2>1, <3>2, <3>3 DEF Asking
    <3>q. QED BY <3>1, <3>2, <3>4 DEF Active, Experts, PlanExperts, DiffExperts, Planner
  <2>4. \A phase \in {"assessing", "verifying", "planning"} : ~Headed(t, phase)
    BY <2>2, <2>3 DEF Moves, Restores
  <2>5. t.pendingPhase \notin {"assessing", "verifying", "planning"}
    BY <2>2 DEF Moves
  <2>q. QED BY <1>1, <2>2, <2>4, <2>5
<1>10. OneMaker(t, v)
  <2> SUFFICES ASSUME NEW a \in Active(t, v), Maker(a)
               PROVE  /\ t.pending = {a} /\ v \subseteq {a}
                      /\ ~Unverified(t)
                      /\ a.role = Implementer => Locked(t)
                      /\ a.role = Planner => t.queue = {}
                      /\ AtWork(t)
    BY DEF OneMaker
  <2>1. /\ s.pending = {a} /\ w \subseteq {a} /\ ~Unverified(s)
        /\ a.role = Implementer => Locked(s)
        /\ a.role = Planner => s.queue = {}
    BY <1>1 DEF OneMaker
  <2>2. /\ t.pending = s.pending /\ v \subseteq w
        /\ AtWork(t)
    BY DEF Moves
  <2>q. QED BY <1>1, <1>7, <2>1, <2>2 DEF SameData, Locked
<1>11. OpenDecision(t, v, h)
  BY <1>1 DEF OpenDecision, Moves, SameData
<1>12. VotesLeft(t, v)
  <2>1. /\ IsFiniteSet(t.assessments) /\ IsFiniteSet(t.pending) /\ IsFiniteSet(v)
        /\ IsFiniteSet(Judges(s, w)) /\ IsFiniteSet(Judges(t, v))
    <3>1. IsFiniteSet(Active(s, w))
      BY FS_Union DEF VotesLeft, Active
    <3>2. IsFiniteSet(Judges(s, w))
      BY <3>1, FS_Subset DEF Judges
    <3>q. QED BY <1>1, <3>2, FS_Subset DEF VotesLeft, Moves, SameData
  <2>2. /\ Cardinality(Judges(t, v)) <= Cardinality(Judges(s, w))
        /\ Cardinality(Judges(t, v)) \in Nat /\ Cardinality(Judges(s, w)) \in Nat
        /\ Cardinality(s.assessments) \in Nat /\ Quorum \in Nat
    BY <1>1, <2>1, FS_Subset, FS_CardinalityType, StateConstants DEF SameData
  <2>3. Judging(t, v) => Cardinality(t.assessments) + Cardinality(Judges(t, v)) <= Quorum
    BY <1>1, <1>2, <2>2 DEF VotesLeft, SameData
  <2>4. Headed(t, "assessing") => Cardinality(t.assessments) < Quorum
    <3>1. Judges(s, w) # {} => Cardinality(Judges(s, w)) > 0
      BY <2>1, <2>2, FS_EmptySet
    <3>2. Headed(t, "assessing") => Headed(s, "assessing") \/ Judges(s, w) # {}
      BY <1>2 DEF Judging
    <3>q. QED BY <1>1, <2>2, <3>1, <3>2 DEF VotesLeft, SameData, Judging
  <2>q. QED BY <1>1, <2>1, <2>3, <2>4 DEF VotesLeft, SameData
<1>13. Outside(t, v)
  BY DEF Outside, Moves
<1>14. RejectedBefore(t, v)
  <2> SUFFICES ASSUME Judging(t, v),
                      \/ \E a \in Active(t, v) : Maker(a)
                      \/ \E phase \in {"planning", "implementing"} :
                            Headed(t, phase) \/ t.pendingPhase = phase
               PROVE  Rejected(t)
    BY DEF RejectedBefore
  <2>1. \/ \E a \in Active(s, w) : Maker(a)
        \/ \E phase \in {"planning", "implementing"} :
              Headed(s, phase) \/ s.pendingPhase = phase
    <3>1. \A a : \A phase \in {"planning", "implementing"} :
             Restores(a, phase) => Maker(a)
      BY DEF Restores, Maker
    <3>q. QED BY <1>1, <3>1 DEF Moves
  <2>2. Rejected(s)
    BY <1>2, <2>1 DEF RejectedBefore
  <2>q. QED BY <1>1, <2>2 DEF Rejected, SameData
<1>q. QED BY <1>4, <1>5, <1>8, <1>9, <1>10, <1>11, <1>12, <1>13, <1>14

-----------------------------------------------------------------------------
(***************************************************************************)
(* Pauses and restarts                                                     *)
(***************************************************************************)

\* Nobody is at work on a run that is about to be verified.
LEMMA VerifyingAlone ==
  ASSUME NEW s \in RunState, NEW w \in SUBSET Assignment, NEW h, NEW q,
         Orderly(s, w, h, q), Headed(s, "verifying")
  PROVE  Active(s, w) = {} /\ ~Asking(s, w) /\ Unjudged(s, h, q) /\ ~Judging(s, w)
<1> USE DEF Orderly
<1>1. Unverified(s) /\ Unjudged(s, h, q)
  BY DEF Unverified, ReadyToVerify
<1>2. ~Judging(s, w)
  BY <1>1 DEF FitToJudge, Fit, Unjudged
<1>3. ~Asking(s, w)
  BY DEF ExpertsFirst
<1>4. \A a \in Active(s, w) : ~Maker(a)
  BY <1>1 DEF OneMaker
<1>5. \A a \in Active(s, w) : a.role \in Reviewers \cup Makers
  BY Fields DEF Active, Assignment
<1>6. Active(s, w) = {}
  BY <1>2, <1>3, <1>4, <1>5
     DEF Judging, Judges, Asking, Maker, Reviewers, Makers, Experts
<1>q. QED BY <1>1, <1>2, <1>3, <1>6

\* What a pause for another reason than a budget writes (State.Pause).
LEMMA PauseFields ==
  ASSUME NEW s \in RunState, NEW reason \in Outcomes, reason # "budget-exhausted"
  PROVE  LET t == Pause(s, reason)
         IN /\ SameData(t, s)
            /\ t.stage = "paused" /\ t.outcome = reason /\ t.pending = {}
            /\ t.budgetPhase = s.budgetPhase /\ t.pendingPhase = s.pendingPhase
            /\ t.retryPhase = IF reason \in {"invocation-timeout", "session-recovery-required"}
                              THEN s.stage ELSE s.retryPhase
BY DEF Pause, RunState, SameData

\* What a budget pause writes.
LEMMA BudgetPauseFields ==
  ASSUME NEW s \in RunState
  PROVE  LET t == Pause(s, "budget-exhausted")
         IN /\ SameData(t, s)
            /\ t.stage = IF s.pending = {} THEN "paused" ELSE "draining"
            /\ t.outcome = "budget-exhausted" /\ t.pending = s.pending
            /\ t.budgetPhase = IF s.stage \in {"paused", "draining"} THEN s.budgetPhase
                               ELSE s.stage
            /\ t.pendingPhase = s.pendingPhase /\ t.retryPhase = s.retryPhase
BY DEF Pause, RunState, SameData

\* Reasons that resume where the pause found the run, or where it names.
Elsewhere == {"injection-review-required", "plan-approval-required",
              "command-authorization-required", "handoff-budget-exhausted"}

\* The phase a retry after this reason returns to is one the run was headed for,
\* or that of the assignment that failed.
Grounded(s, w, reason) ==
    /\ reason = "planner-failed" =>
          Headed(s, "planning") \/ \E a \in Active(s, w) : a.role = Planner
    /\ reason = "implementer-failed" =>
          Headed(s, "implementing") \/ \E a \in Active(s, w) : a.role = Implementer
    /\ reason = "assessor-failed" =>
          Headed(s, "assessing") \/ \E a \in Active(s, w) : a.role = Assessor
    /\ reason = "verification-environment-failed" => Headed(s, "verifying")

\* A pause for such a reason keeps the order.
LEMMA PauseOrderly ==
  ASSUME NEW s \in RunState, NEW w, NEW h, NEW q, NEW v \in SUBSET w,
         Orderly(s, w, h, q), s.budgetPhase # "verifying", \A a \in v : ~Maker(a),
         NEW reason \in Outcomes \ (Elsewhere \cup
            {"", "approved", "budget-exhausted", "review-workspace-drift",
             "review-recovery-invalid"}),
         Grounded(s, w, reason),
         s.pendingDecision = "diff" =>
            reason \in {"specialist-decision-unavailable", "driver-failed"}
  PROVE  Orderly(Pause(s, reason), v, h, q)
<1> DEFINE t == Pause(s, reason)
<1>1. /\ SameData(t, s)
      /\ t.stage = "paused" /\ t.outcome = reason /\ t.pending = {}
      /\ t.budgetPhase = s.budgetPhase /\ t.pendingPhase = s.pendingPhase
      /\ t.retryPhase = IF reason \in {"invocation-timeout", "session-recovery-required"}
                        THEN s.stage ELSE s.retryPhase
  BY PauseFields
<1> HIDE DEF t
<1>2. \A phase \in {"planning", "implementing", "assessing", "verifying"} :
         Headed(t, phase) => Headed(s, phase) \/ \E a \in Active(s, w) : Restores(a, phase)
  BY <1>1 DEF Headed, Grounded, Restores, Elsewhere, SameData
<1>3. t.pendingDecision = "diff" => t.pendingPhase = "verifying"
  BY <1>1 DEF Orderly, OpenDecision, SameData
<1>4. Headed(t, "verifying") => t.budgetPhase \in {"", "verifying"}
  <2>1. Headed(t, "verifying") => Headed(s, "verifying")
    BY <1>2 DEF Restores
  <2>2. Headed(s, "verifying") => Unjudged(s, h, q)
    BY DEF Orderly, ReadyToVerify, Unverified
  <2>q. QED BY <1>1, <2>1, <2>2 DEF Unjudged
<1>5. \A a \in Active(t, v) : Maker(a) => t.pending = s.pending /\ AtWork(t)
  BY <1>1 DEF Active
<1>6. t.budgetPhase \notin {"paused", "draining"} /\ t.pending \subseteq s.pending
  BY <1>1 DEF Orderly, Outside
<1>7. Moves(t, v, s, w)
  BY <1>1, <1>2, <1>3, <1>4, <1>5, <1>6 DEF Moves, SameData, Elsewhere
<1>q. QED BY <1>7, MovesOrderly DEF t

\* A state that differs from s in nothing the order is about.
Alike(t, s) ==
    /\ SameData(t, s) /\ t.pending = s.pending
    /\ t.stage = s.stage /\ t.outcome = s.outcome
    /\ t.pendingPhase = s.pendingPhase /\ t.budgetPhase = s.budgetPhase
    /\ t.retryPhase = s.retryPhase

\* It is headed for the same phases.
LEMMA AlikeHeads ==
  ASSUME NEW s, NEW t, Alike(t, s)
  PROVE  \A phase : Headed(t, phase) <=> Headed(s, phase)
BY DEF Alike, SameData, Headed

\* It may take the place of the outcome of a move.
LEMMA AlikeMoves ==
  ASSUME NEW s, NEW w, NEW t, NEW v, NEW u, Moves(t, v, s, w), Alike(u, t)
  PROVE  Moves(u, v, s, w)
<1>1. \A phase : Headed(u, phase) <=> Headed(t, phase)
  BY AlikeHeads
<1>2. SameData(u, s) /\ AtWork(u) = AtWork(t) /\ Active(u, v) = Active(t, v)
  BY DEF Moves, Alike, SameData, AtWork, Active
<1>q. QED BY ZenonT(60), <1>1, <1>2 DEF Moves, Alike, SameData

\* Losing invocations, or assignments nobody makes anything for, moves nothing.
LEMMA StayMoves ==
  ASSUME NEW s \in RunState, NEW w \in SUBSET Assignment, NEW h, NEW q,
         Orderly(s, w, h, q), s.outcome # "approved",
         NEW t, NEW v \in SUBSET w, t.pending \subseteq s.pending,
         Alike(t, [s EXCEPT !.pending = t.pending]),
         v \subseteq t.pending \/ t.pending = {},
         t.pending = s.pending \/ \A a \in Active(t, v) : ~Maker(a)
  PROVE  Moves(t, v, s, w)
<1>1. /\ SameData(t, s) /\ t.stage = s.stage /\ t.outcome = s.outcome
      /\ t.pendingPhase = s.pendingPhase /\ t.budgetPhase = s.budgetPhase
      /\ t.retryPhase = s.retryPhase
  BY DEF Alike, SameData, RunState
<1>2. \A phase : Headed(t, phase) <=> Headed(s, phase)
  BY <1>1 DEF SameData, Headed
<1>3. Headed(s, "verifying") => s.budgetPhase \in {"", "verifying"}
  BY VerifyingAlone DEF Unjudged
<1>4. \A a \in Active(t, v) : Maker(a) => t.pending = s.pending /\ AtWork(t)
  <2>1. SUFFICES ASSUME NEW a \in Active(t, v), Maker(a), t.pending = s.pending
                 PROVE  AtWork(t)
    OBVIOUS
  <2>2. a \in Active(s, w)
    BY <2>1 DEF Active
  <2>q. QED BY <1>1, <2>1, <2>2 DEF Orderly, OneMaker, AtWork
<1>5. t.outcome \notin {"approved", "review-workspace-drift", "review-recovery-invalid"}
  BY <1>1 DEF Orderly, Outside
<1>6. t.pendingDecision = "diff" =>
          /\ t.stage \in {"verifying", "paused"} /\ t.pendingPhase = "verifying"
          /\ t.outcome \in {"", "budget-exhausted", "specialist-decision-unavailable",
                            "driver-failed"}
  BY <1>1 DEF Orderly, OpenDecision, SameData
<1>7. /\ t.budgetPhase \notin {"paused", "draining"}
      /\ t.budgetPhase = "verifying" => t.stage = "paused" /\ t.outcome = "budget-exhausted"
      /\ t.outcome # "" => \/ t.stage \in {"paused", "done"}
                           \/ t.stage = "draining" /\ t.outcome = "budget-exhausted"
      /\ t.outcome = "plan-approval-required" => t.pendingPhase = "implementing"
  BY <1>1 DEF Orderly, Outside
<1>q. QED BY <1>1, <1>2, <1>3, <1>4, <1>5, <1>6, <1>7 DEF Moves

\* A budget pause of t leaves no phase to return to but the one saved earlier.
Unphased(t) ==
    t.stage = "" \/ (t.stage \in {"paused", "draining"} /\ t.budgetPhase = "")

\* Even then it opens no way into an assessment that was not there.
Backed(t, s, w) ==
    Unphased(t) /\ t.pendingPhase = "assessing"
    => Headed(s, "assessing") \/ Judges(s, w) # {}

\* A budget pause after such a step is such a step.
LEMMA BudgetMoves ==
  ASSUME NEW s \in RunState, NEW w \in SUBSET Assignment, NEW h, NEW q,
         Orderly(s, w, h, q), NEW t \in RunState, NEW v, Moves(t, v, s, w),
         Backed(t, s, w), t.stage = "done" => ~Headed(s, "verifying")
  PROVE  Moves(Pause(t, "budget-exhausted"), v, s, w)
<1> DEFINE p == Pause(t, "budget-exhausted")
<1>1. /\ SameData(p, t)
      /\ p.stage = IF t.pending = {} THEN "paused" ELSE "draining"
      /\ p.outcome = "budget-exhausted" /\ p.pending = t.pending
      /\ p.budgetPhase = IF t.stage \in {"paused", "draining"} THEN t.budgetPhase ELSE t.stage
      /\ p.pendingPhase = t.pendingPhase /\ p.retryPhase = t.retryPhase
  BY BudgetPauseFields
<1> HIDE DEF p
<1>2. \A phase : Headed(p, phase) =>
         \/ Headed(t, phase) \/ phase \in {"paused", "draining"}
         \/ phase = t.pendingPhase /\ p.budgetPhase = "" /\ Unphased(t)
  <2>1. \A phase : Headed(p, phase) =>
           \/ phase \in {p.stage, p.budgetPhase}
           \/ p.pendingDecision # "" /\ phase = p.pendingPhase
           \/ p.budgetPhase = "" /\ phase = p.pendingPhase
    BY <1>1 DEF Headed
  <2>2. p.stage \in {"paused", "draining"} /\ Headed(t, p.budgetPhase)
    BY <1>1 DEF Headed
  <2>3. p.pendingDecision # "" => Headed(t, p.pendingPhase)
    BY <1>1 DEF Headed, SameData
  <2>4. p.budgetPhase = "" => Unphased(t)
    BY <1>1 DEF Unphased
  <2>q. QED BY <1>1, <2>1, <2>2, <2>3, <2>4
<1>3. Headed(t, "verifying") => Headed(s, "verifying") /\ t.pending = {}
  <2>1. Headed(t, "verifying") => Headed(s, "verifying")
    BY DEF Moves, Restores
  <2>q. QED BY <2>1, VerifyingAlone DEF Moves, Active
<1>4. t.pendingPhase = "verifying" => s.pendingPhase = "verifying" /\ s.pendingDecision = "diff"
  BY DEF Moves, Orderly, OpenDecision
<1>5. t.pendingPhase = "verifying" => Headed(s, "verifying")
  BY <1>4 DEF Headed
<1>6. \A phase \in {"planning", "implementing", "assessing", "verifying"} :
         Headed(p, phase) =>
            \/ Headed(s, phase)
            \/ phase \in {"planning", "implementing"} /\ s.pendingPhase = phase
            \/ \E a \in Active(s, w) : Restores(a, phase)
  <2>1. SUFFICES ASSUME NEW phase \in {"planning", "implementing", "assessing", "verifying"},
                        Headed(p, phase), ~Headed(t, phase)
                 PROVE  \/ Headed(s, phase)
                        \/ phase \in {"planning", "implementing"} /\ s.pendingPhase = phase
                        \/ \E a \in Active(s, w) : Restores(a, phase)
    BY DEF Moves
  <2>2. phase = t.pendingPhase /\ Unphased(t)
    BY <1>2, <2>1
  <2>3. CASE phase = "verifying"
    BY <1>5, <2>2, <2>3
  <2>4. CASE phase = "assessing"
    BY <2>2, <2>4 DEF Backed, Judges, Restores
  <2>5. CASE phase \in {"planning", "implementing"}
    BY <2>2, <2>5 DEF Moves
  <2>q. QED BY <2>3, <2>4, <2>5
<1>7. p.pendingDecision = "diff" =>
         /\ p.stage \in {"verifying", "paused"} /\ p.pendingPhase = "verifying"
         /\ p.outcome \in {"", "budget-exhausted", "specialist-decision-unavailable",
                           "driver-failed"}
  <2>1. SUFFICES ASSUME p.pendingDecision = "diff"
                 PROVE  t.pending = {} /\ t.pendingPhase = "verifying"
    BY <1>1
  <2>2. t.pendingDecision = "diff" /\ s.pendingDecision = "diff"
    BY <1>1, <2>1 DEF Moves, SameData
  <2>q. QED BY <2>2 DEF Moves, Orderly, OpenDecision, Active
<1>8. /\ p.budgetPhase \notin {"paused", "draining"}
      /\ p.budgetPhase = "verifying" => p.stage = "paused" /\ p.outcome = "budget-exhausted"
  <2>1. p.budgetPhase = "verifying" => Headed(t, "verifying")
    BY <1>1 DEF Headed
  <2>q. QED BY <1>1, <1>3, <2>1 DEF Moves
<1>9. Headed(p, "verifying") => p.budgetPhase \in {"", "verifying"}
  <2>1. SUFFICES ASSUME Headed(t, "verifying") PROVE p.budgetPhase \in {"", "verifying"}
    BY <1>2
  <2>2. t.budgetPhase \in {"", "verifying"} /\ t.stage # "done"
    BY <1>3, <2>1 DEF Moves
  <2>3. CASE t.stage \in {"paused", "draining"}
    BY <1>1, <2>2, <2>3
  <2>4. CASE t.stage \notin {"paused", "draining"}
    <3>1. t.outcome = "" /\ t.budgetPhase # "verifying"
      BY <2>2, <2>4 DEF Moves
    <3>2. t.stage = "verifying" \/ (t.pendingDecision # "" /\ t.pendingPhase = "verifying")
      BY <2>1, <2>2, <3>1 DEF Headed
    <3>3. t.pendingPhase = "verifying" => t.pendingDecision = "diff"
      BY <1>4 DEF Moves, SameData
    <3>q. QED BY <1>1, <2>4, <3>2, <3>3 DEF Moves
  <2>q. QED BY <2>3, <2>4
<1>10. \A a \in Active(p, v) : Maker(a) => p.pending = s.pending /\ AtWork(p)
  <2>1. SUFFICES ASSUME NEW a \in Active(p, v), Maker(a) PROVE p.pending = s.pending /\ AtWork(p)
    OBVIOUS
  <2>2. a \in Active(t, v) /\ t.pending = s.pending /\ AtWork(t)
    BY <1>1, <2>1 DEF Active, Moves
  <2>3. s.pending = {a}
    BY <2>1, <2>2 DEF Moves, Active, Orderly, OneMaker
  <2>q. QED BY <1>1, <2>2, <2>3 DEF AtWork
<1>11. t.pendingPhase \in {"planning", "implementing", "assessing", "verifying"} =>
          \/ t.pendingPhase = s.pendingPhase
          \/ Headed(s, t.pendingPhase) /\ t.pendingPhase # "verifying"
  BY DEF Moves
<1>12. SameData(p, s) /\ p.pending \subseteq s.pending /\ v \subseteq w
       /\ (v \subseteq p.pending \/ p.pending = {})
  BY <1>1 DEF Moves, SameData
<1>q. QED BY <1>1, <1>6, <1>7, <1>8, <1>9, <1>10, <1>11, <1>12 DEF Moves, p

\* So does budgetGate at the end of a section.
LEMMA GatedOrderly ==
  ASSUME NEW s \in RunState, NEW w \in SUBSET Assignment, NEW h, NEW q,
         Orderly(s, w, h, q), NEW t \in RunState, NEW v, Moves(t, v, s, w),
         Backed(t, s, w), NEW x \in Gated(t)
  PROVE  Orderly(x, v, h, q)
BY BudgetMoves, MovesOrderly DEF Gated

\* Of a run that paused, budgetGate asks nothing.
LEMMA GatedPause ==
  ASSUME NEW t, t.stage \in {"paused", "done"}, NEW x \in Gated(t)
  PROVE  x = t
BY DEF Gated

\* Restarting in a phase the run was headed for.
LEMMA RestartMoves ==
  ASSUME NEW s \in RunState, NEW w \in SUBSET Assignment, NEW h, NEW q,
         Orderly(s, w, h, q), NEW stage, Headed(s, stage),
         NEW t, SameData(t, s), t.pending = s.pending, t.stage = stage, t.outcome = "",
         t.pendingPhase = s.pendingPhase
            \/ (t.pendingPhase = "" /\ s.pendingDecision # "diff"),
         t.budgetPhase = s.budgetPhase \/ t.budgetPhase = "",
         s.budgetPhase = "verifying" => t.budgetPhase = "",
         s.pendingDecision = "diff" => stage = "verifying",
         \A a \in Active(s, w) : Maker(a) => stage \in {"planning", "implementing"}
  PROVE  Moves(t, w, s, w)
<1>1. \A phase : Headed(t, phase) => Headed(s, phase) \/ phase = ""
  BY DEF Headed, SameData
<1>2. t.pendingDecision = "diff" => t.stage = "verifying" /\ t.pendingPhase = "verifying"
  BY DEF Orderly, OpenDecision, SameData
<1>3. Headed(t, "verifying") => t.budgetPhase \in {"", "verifying"}
  BY <1>1, VerifyingAlone DEF Unjudged
<1>4. \A a \in Active(t, w) : Maker(a) => AtWork(t)
  BY DEF Active, AtWork
<1>5. t.budgetPhase \notin {"paused", "draining", "verifying"}
  BY DEF Orderly, Outside
<1>6. w \subseteq s.pending \/ s.pending = {}
  BY DEF Orderly, Outside
<1>q. QED BY <1>1, <1>2, <1>3, <1>4, <1>5, <1>6 DEF Moves

-----------------------------------------------------------------------------
(***************************************************************************)
(* Runs that are neither assessed nor verified                             *)
(***************************************************************************)

\* The rest of Outside, for a state that is set up anew.
InBounds(t) ==
    /\ t.outcome \notin {"approved", "review-workspace-drift", "review-recovery-invalid"}
    /\ t.outcome # "" => \/ t.stage \in {"paused", "done"}
                         \/ t.stage = "draining" /\ t.outcome = "budget-exhausted"
    /\ t.budgetPhase \notin {"paused", "draining", "verifying"}
    /\ t.outcome = "plan-approval-required" => t.pendingPhase = "implementing"

\* Experts may still be at work on it, or a decision about research be open.
LEMMA QuietOrderly ==
  ASSUME NEW t, NEW v, NEW h, NEW q,
         ~Headed(t, "assessing"), ~Headed(t, "verifying"),
         t.queue # {} => t.after # "verifying",
         \A a \in Active(t, v) : ~Maker(a) /\ a.role # Assessor,
         Asking(t, v) => ~Headed(t, "planning")
                         /\ t.pendingPhase \notin {"assessing", "verifying", "planning"},
         t.pendingDecision # "diff", t.pendingPhase # "verifying",
         t.pendingDecision # "" => Active(t, v) = {} /\ t.queue = {},
         IsFiniteSet(t.assessments), IsFiniteSet(t.pending), IsFiniteSet(v),
         \A x \in t.assessments : x.revision = t.diff,
         v \subseteq t.pending \/ t.pending = {},
         InBounds(t)
  PROVE  Orderly(t, v, h, q)
<1>1. ~Judging(t, v) /\ ~Unverified(t) /\ Judges(t, v) = {}
  BY DEF Judging, Unverified, Judges
<1>2. ExpertsFirst(t, v) /\ OneMaker(t, v)
  BY <1>1 DEF ExpertsFirst, OneMaker
<1>3. OpenDecision(t, v, h) /\ VotesLeft(t, v)
  BY <1>1 DEF OpenDecision, VotesLeft
<1>4. Outside(t, v) /\ ApprovedFinally(t, v, h, q)
  BY DEF Outside, ApprovedFinally, InBounds
<1>q. QED BY <1>1, <1>2, <1>3, <1>4 DEF Orderly, FitToJudge, ReadyToVerify, RejectedBefore

\* What is finite stays so.
LEMMA Finite ==
  ASSUME NEW s, NEW w, NEW h, NEW q, Orderly(s, w, h, q)
  PROVE  /\ IsFiniteSet(s.assessments) /\ IsFiniteSet(s.pending) /\ IsFiniteSet(w)
         /\ \A v : v \subseteq w => IsFiniteSet(v)
         /\ \A x : IsFiniteSet(s.pending \cup {x}) /\ IsFiniteSet(s.pending \ {x})
                   /\ IsFiniteSet(w \cup {x}) /\ IsFiniteSet(s.assessments \cup {x})
         /\ IsFiniteSet(Judges(s, w)) /\ IsFiniteSet({})
<1>1. IsFiniteSet(s.assessments) /\ IsFiniteSet(s.pending) /\ IsFiniteSet(w)
  BY DEF Orderly, VotesLeft
<1>2. IsFiniteSet(Active(s, w))
  BY <1>1, FS_Union DEF Active
<1>3. IsFiniteSet(Judges(s, w))
  BY <1>2, FS_Subset DEF Judges
<1>q. QED BY <1>1, <1>3, FS_Subset, FS_AddElement, FS_EmptySet

-----------------------------------------------------------------------------
(***************************************************************************)
(* An invocation that reports                                              *)
(***************************************************************************)

\* While an invocation is reserved or runs, no decision is open, nothing is to be
\* verified, no approval given, and no other maker at work.
LEMMA AtWorkFacts ==
  ASSUME NEW s \in RunState, NEW w \in SUBSET Assignment, NEW h, NEW q,
         Orderly(s, w, h, q), NEW a \in Active(s, w)
  PROVE  /\ s.pendingDecision = "" /\ s.pendingPhase # "verifying"
         /\ ~Headed(s, "verifying") /\ s.budgetPhase # "verifying"
         /\ s.outcome # "approved"
         /\ \A b \in Active(s, w) \ {a} : ~Maker(b)
         /\ Maker(a) => s.pending = {a} /\ w \subseteq {a} /\ AtWork(s) /\ ~Unverified(s)
         /\ ~Maker(a) => a.role = Assessor \/ a.role \in Experts
         /\ a.role = Assessor => ~Asking(s, w) /\ ~Maker(a)
         /\ a.role \in Experts => /\ Judges(s, w) = {} /\ ~Maker(a)
                                  /\ \A phase \in {"assessing", "verifying", "planning"} :
                                        ~Headed(s, phase) /\ s.pendingPhase # phase
<1> USE DEF Orderly
<1>1. s.pendingDecision = "" /\ s.pendingPhase # "verifying"
  BY DEF OpenDecision
<1>2. ~Headed(s, "verifying")
  BY VerifyingAlone
<1>3. s.outcome # "approved"
  BY DEF ApprovedFinally
<1>4. \A b \in Active(s, w) : Maker(b) =>
         s.pending = {b} /\ w \subseteq {b} /\ AtWork(s) /\ ~Unverified(s)
  BY DEF OneMaker
<1>5. \A b \in Active(s, w) \ {a} : ~Maker(b)
  BY <1>4 DEF Active
<1>6. a.role \in Reviewers \cup Makers
  BY Fields DEF Active, Assignment
<1>7. ~Maker(a) => a.role = Assessor \/ a.role \in Experts
  BY <1>6 DEF Maker, Reviewers, Makers, Experts
<1>8. a.role = Assessor => ~Asking(s, w) /\ ~Maker(a)
  BY DEF ExpertsFirst, Judges, Maker, Assessor, Planner, Implementer
<1>9. a.role \in Experts => /\ Judges(s, w) = {} /\ ~Maker(a)
                            /\ \A phase \in {"assessing", "verifying", "planning"} :
                                  ~Headed(s, phase) /\ s.pendingPhase # phase
  BY DEF ExpertsFirst, Asking, Maker, Experts, PlanExperts, DiffExperts, Planner, Implementer
<1>q. QED BY <1>1, <1>2, <1>3, <1>4, <1>5, <1>7, <1>8, <1>9 DEF Headed

\* What Taken and Settled write.
LEMMA TakenFields ==
  ASSUME NEW s \in RunState, NEW a
  PROVE  LET t == Taken(s, a)
             u == Settled(t)
         IN /\ t \in RunState /\ u \in RunState
            /\ SameData(t, s) /\ Alike(u, t)
            /\ t.pending = s.pending \ {a}
            /\ t.stage = Phase(s) /\ t.budgetPhase = ""
            /\ t.outcome = IF s.budgetPhase = "" THEN s.outcome ELSE ""
            /\ t.pendingPhase = s.pendingPhase /\ t.retryPhase = s.retryPhase
<1> DEFINE t == Taken(s, a)
<1>1. t \in RunState /\ Settled(t) \in RunState
  BY TakenType, SettledType
<1>2. /\ SameData(t, s) /\ t.pending = s.pending \ {a}
      /\ t.stage = Phase(s) /\ t.budgetPhase = ""
      /\ t.outcome = IF s.budgetPhase = "" THEN s.outcome ELSE ""
      /\ t.pendingPhase = s.pendingPhase /\ t.retryPhase = s.retryPhase
  BY DEF Taken, RunState, SameData, Phase
<1> HIDE DEF t
<1>3. Alike(Settled(t), t)
  BY <1>1 DEF Settled, RunState, SameData, Alike
<1>q. QED BY <1>1, <1>2, <1>3 DEF t

\* A drain that ends leaves the run in the phase it was headed for.
LEMMA TakenMoves ==
  ASSUME NEW s \in RunState, NEW w \in SUBSET Assignment, NEW h, NEW q,
         Orderly(s, w, h, q), NEW a \in s.pending \cap w
  PROVE  LET t == Taken(s, a)
             u == Settled(t)
             v == w \ {a}
         IN /\ Moves(t, v, s, w) /\ Moves(u, v, s, w)
            /\ Headed(s, Phase(s))
            /\ \A b \in Active(t, v) : ~Maker(b)
            /\ t.stage \notin {"paused", "done", "draining"} => t.outcome = ""
<1> DEFINE t == Taken(s, a)
           u == Settled(t)
           v == w \ {a}
<1>1. /\ SameData(t, s) /\ Alike(u, t)
      /\ t.pending = s.pending \ {a}
      /\ t.stage = Phase(s) /\ t.budgetPhase = ""
      /\ t.outcome = IF s.budgetPhase = "" THEN s.outcome ELSE ""
      /\ t.pendingPhase = s.pendingPhase /\ t.retryPhase = s.retryPhase
  BY TakenFields
<1> HIDE DEF t, u
<1>2. a \in Active(s, w)
  BY DEF Active
<1>3. \A b \in Active(t, v) : ~Maker(b)
  <2>1. Active(t, v) \subseteq Active(s, w) \ {a}
    BY <1>1 DEF Active
  <2>q. QED BY <1>2, <2>1, AtWorkFacts
<1>4. Headed(s, Phase(s))
  BY DEF Headed, Phase
<1>5. \A phase : Headed(t, phase) => Headed(s, phase) \/ phase = ""
  BY <1>1, <1>4 DEF Headed, SameData
<1>6. w \subseteq s.pending
  BY DEF Orderly, Outside
<1>7. s.pendingDecision = "" /\ ~Headed(s, "verifying") /\ s.outcome # "approved"
  BY <1>2, AtWorkFacts
<1>8. /\ s.outcome \notin {"review-workspace-drift", "review-recovery-invalid"}
      /\ s.outcome # "" => \/ s.stage \in {"paused", "done"}
                           \/ s.stage = "draining" /\ s.outcome = "budget-exhausted"
      /\ s.outcome = "plan-approval-required" => s.pendingPhase = "implementing"
  BY DEF Orderly, Outside
<1>9. t.outcome # "" => s.budgetPhase = "" /\ t.stage = s.stage /\ t.outcome = s.outcome
  BY <1>1 DEF Phase
<1>10. /\ t.outcome # "" => \/ t.stage \in {"paused", "done"}
                            \/ t.stage = "draining" /\ t.outcome = "budget-exhausted"
       /\ t.outcome \notin {"approved", "review-workspace-drift", "review-recovery-invalid"}
       /\ t.outcome = "plan-approval-required" => t.pendingPhase = "implementing"
  BY <1>1, <1>7, <1>8, <1>9
<1>11. Moves(t, v, s, w)
  BY <1>1, <1>3, <1>5, <1>6, <1>7, <1>10 DEF Moves, SameData
<1>12. Moves(u, v, s, w)
  BY <1>1, <1>11, AlikeMoves
<1>q. QED BY <1>3, <1>4, <1>10, <1>11, <1>12 DEF t, u

\* Such a state is backed, whatever phase was saved before.
LEMMA TakenBacked ==
  ASSUME NEW s \in RunState, NEW w \in SUBSET Assignment, NEW h, NEW q,
         Orderly(s, w, h, q), NEW a \in Active(s, w),
         NEW t, t.stage = Phase(s), t.pendingPhase = s.pendingPhase
  PROVE  Backed(t, s, w)
<1> SUFFICES ASSUME t.stage \in {"", "paused", "draining"}, s.pendingPhase = "assessing"
             PROVE  Judges(s, w) # {}
  BY DEF Backed, Unphased
<1>1. a.role \notin Experts
  BY AtWorkFacts
<1>2. ~Maker(a)
  <2>1. s.budgetPhase \notin {"paused", "draining"}
    BY DEF Orderly, Outside
  <2>2. ~AtWork(s)
    BY <2>1 DEF AtWork, Phase
  <2>q. QED BY <2>2, AtWorkFacts
<1>3. a.role = Assessor
  BY <1>1, <1>2, AtWorkFacts
<1>q. QED BY <1>3 DEF Judges

\* A budget pause is backed by what it pauses.
LEMMA PausedBacked ==
  ASSUME NEW s, NEW w, NEW t \in RunState, Backed(t, s, w)
  PROVE  Backed(Pause(t, "budget-exhausted"), s, w)
         /\ Pause(t, "budget-exhausted").stage \in {"paused", "draining"}
<1> DEFINE p == Pause(t, "budget-exhausted")
<1>1. /\ p.stage \in {"paused", "draining"}
      /\ p.budgetPhase = IF t.stage \in {"paused", "draining"} THEN t.budgetPhase ELSE t.stage
      /\ p.pendingPhase = t.pendingPhase
  BY BudgetPauseFields
<1> HIDE DEF p
<1>2. Unphased(p) => Unphased(t)
  BY <1>1 DEF Unphased
<1>q. QED BY <1>1, <1>2 DEF Backed, p

\* The reasons a result gives to pause.
PlainReasons == Outcomes \ (Elsewhere \cup
    {"", "approved", "budget-exhausted", "review-workspace-drift", "review-recovery-invalid"})

\* The reasons a worker's or the driver's failure pauses for are plain.
LEMMA PlainNames ==
  /\ \A role : FailedOutcome(role) \in PlainReasons
  /\ {"invocation-timeout", "session-recovery-required", "unsafe-review-artifact",
      "driver-failed", "assessment-quorum-unavailable", "implementer-failed",
      "expert-failed", "verification-environment-failed",
      "specialist-decision-unavailable"} \subseteq PlainReasons
BY DEF FailedOutcome, PlainReasons, Outcomes, Elsewhere

\* A failure is retried in the phase of its role.
LEMMA FailureGrounded ==
  ASSUME NEW s, NEW w, NEW role,
         role = Planner => Headed(s, "planning") \/ \E a \in Active(s, w) : a.role = Planner,
         role = Implementer =>
            Headed(s, "implementing") \/ \E a \in Active(s, w) : a.role = Implementer,
         role = Assessor => Headed(s, "assessing") \/ \E a \in Active(s, w) : a.role = Assessor
  PROVE  Grounded(s, w, FailedOutcome(role))
<1>1. /\ FailedOutcome(role) = "planner-failed" => role = Planner
      /\ FailedOutcome(role) = "implementer-failed" => role = Implementer
      /\ FailedOutcome(role) = "assessor-failed" => role = Assessor
      /\ FailedOutcome(role) # "verification-environment-failed"
  BY DEF FailedOutcome, Planner, Implementer, Assessor
<1>q. QED BY <1>1 DEF Grounded

\* An invocation that fails pauses a run in order (sdlcFailAssignment), for
\* whatever reason, while others still run.
LEMMA StrayOrderly ==
  ASSUME NEW s \in RunState, NEW w \in SUBSET Assignment, NEW h, NEW q,
         Orderly(s, w, h, q), NEW a \in w,
         NEW reason \in PlainReasons, Grounded(s, w, reason)
  PROVE  Orderly(Pause(s, reason), w \ {a}, h, q)
<1>1. a \in Active(s, w) /\ w \ {a} \subseteq Active(s, w) \ {a}
  BY DEF Active
<1>2. s.pendingDecision = "" /\ s.budgetPhase # "verifying" /\ \A b \in w \ {a} : ~Maker(b)
  BY <1>1, AtWorkFacts
<1>3. w \ {a} \in SUBSET w
  OBVIOUS
<1>q. QED BY <1>2, <1>3, PauseOrderly DEF PlainReasons

\* What interrupts a worker keeps the order: a handoff, a timeout, a spent
\* budget, and a failure that excludes its binding (State.apply).
LEMMA CutShortOrderly ==
  ASSUME NEW s \in RunState, NEW w \in SUBSET Assignment, NEW h, NEW q,
         Orderly(s, w, h, q), NEW a \in s.pending \cap w, NEW outcome
  PROVE  LET t == Taken(s, a)
             u == Settled(t)
             v == w \ {a}
         IN /\ \A x \in Gated(AfterHandoff(t, a)) : Orderly(x, v, h, q)
            /\ \A x \in Gated(Pause(u, "invocation-timeout")) : Orderly(x, v, h, q)
            /\ \A x \in Gated(Pause(u, "budget-exhausted")) : Orderly(x, v, h, q)
            /\ \A y \in Rerouted(AfterExclusion(u, a, outcome)) :
                  \A x \in Gated(y) : Orderly(x, v, h, q)
<1> DEFINE t == Taken(s, a)
           u == Settled(t)
           v == w \ {a}
<1>1. /\ t \in RunState /\ u \in RunState /\ SameData(t, s) /\ Alike(u, t)
      /\ t.pending = s.pending \ {a}
      /\ t.stage = Phase(s) /\ t.budgetPhase = ""
      /\ t.pendingPhase = s.pendingPhase /\ t.retryPhase = s.retryPhase
  BY TakenFields
<1>2. /\ Moves(t, v, s, w) /\ Moves(u, v, s, w) /\ Headed(s, Phase(s))
      /\ \A b \in Active(t, v) : ~Maker(b)
  BY TakenMoves
<1> HIDE DEF t, u
<1>3. a \in Active(s, w) /\ a \in Assignment /\ v \in SUBSET Assignment
  BY Fields DEF Active
<1>4. Backed(t, s, w) /\ Backed(u, s, w)
  BY <1>1, <1>3, TakenBacked DEF Alike
<1>5. ~Headed(s, "verifying") /\ s.pendingDecision = ""
  BY <1>3, AtWorkFacts
<1>6. Orderly(u, v, h, q) /\ u.budgetPhase = "" /\ u.pendingDecision = ""
      /\ \A b \in Active(u, v) : ~Maker(b)
  BY <1>1, <1>2, <1>5, MovesOrderly DEF Alike, SameData, Active
<1>7. ASSUME NEW x \in Gated(AfterHandoff(t, a)) PROVE Orderly(x, v, h, q)
  <2> DEFINE y == AfterHandoff(t, a)
  <2>1. y \in RunState
    BY <1>1, <1>3, AfterHandoffType
  <2>2. CASE t.handoffs >= MaxHandoffs
    <3> DEFINE p == [t EXCEPT !.pendingPhase = t.stage]
    <3>1. p \in RunState
      BY <1>1, Fields, Update
    <3>2. SameData(p, t) /\ p.pendingPhase = Phase(s) /\ p.budgetPhase = ""
      BY <1>1 DEF RunState, SameData
    <3> HIDE DEF p
    <3>3. y = Pause(p, "handoff-budget-exhausted")
      BY <2>2 DEF AfterHandoff, p
    <3> HIDE DEF y
    <3>a. LET z == Pause(p, "handoff-budget-exhausted")
          IN /\ SameData(z, p) /\ z.stage = "paused" /\ z.outcome = "handoff-budget-exhausted"
             /\ z.pending = {} /\ z.budgetPhase = "" /\ z.pendingPhase = Phase(s)
      <4>1. "handoff-budget-exhausted" \in Outcomes
        BY NotApproved
      <4>q. QED BY ZenonT(60), <3>1, <3>2, <4>1, PauseFields
    <3>4. /\ SameData(y, p) /\ y.stage = "paused" /\ y.outcome = "handoff-budget-exhausted"
          /\ y.pending = {} /\ y.budgetPhase = "" /\ y.pendingPhase = Phase(s)
      BY <3>3, <3>a
    <3>5. SameData(y, s)
      BY <1>1, <3>2, <3>4 DEF SameData
    <3>6. \A phase : Headed(y, phase) => phase \in {"paused", "", Phase(s)}
      BY <1>5, <3>4, <3>5 DEF Headed, SameData
    <3>7. \A b \in Active(y, v) : ~Maker(b)
      BY <1>2, <3>4 DEF Active
    <3>8. Moves(y, v, s, w)
      BY ZenonT(60), <1>2, <1>5, <3>4, <3>5, <3>6, <3>7 DEF Moves, SameData
    <3>b. x \in Gated(y) /\ y.stage = "paused"
      BY <3>4 DEF y
    <3>9. x = y
      BY <3>b, GatedPause
    <3>q. QED BY <3>8, <3>9, MovesOrderly
  <2>3. CASE ~(t.handoffs >= MaxHandoffs)
    <3>1. Alike(y, t)
      BY <1>1, <2>3 DEF AfterHandoff, RunState, Alike, SameData
    <3> HIDE DEF y
    <3>2. Moves(y, v, s, w) /\ Backed(y, s, w)
      BY <1>1, <1>2, <1>3, <3>1, AlikeMoves, TakenBacked DEF Alike
    <3>q. QED BY <2>1, <3>2, GatedOrderly DEF y
  <2>q. QED BY <2>2, <2>3
<1>8. ASSUME NEW x \in Gated(Pause(u, "invocation-timeout")) PROVE Orderly(x, v, h, q)
  <2> DEFINE y == Pause(u, "invocation-timeout")
  <2>1. y.stage = "paused"
    BY <1>1, NotApproved, PauseFields
  <2>2. "invocation-timeout" \in PlainReasons /\ Grounded(u, v, "invocation-timeout")
        /\ v \in SUBSET v
    BY PlainNames DEF Grounded
  <2>3. Orderly(y, v, h, q)
    BY <1>1, <1>6, <2>2, PauseOrderly DEF Active, PlainReasons
  <2> HIDE DEF y
  <2>4. x = y
    BY <2>1, GatedPause DEF y
  <2>q. QED BY <2>3, <2>4
<1>9. ASSUME NEW x \in Gated(Pause(u, "budget-exhausted")) PROVE Orderly(x, v, h, q)
  <2> DEFINE y == Pause(u, "budget-exhausted")
  <2>1. y \in RunState
    BY <1>1, PauseType, Reasons
  <2>2. Moves(y, v, s, w) /\ Backed(y, s, w)
    BY <1>1, <1>2, <1>4, <1>5, BudgetMoves, PausedBacked
  <2> HIDE DEF y
  <2>q. QED BY <2>1, <2>2, GatedOrderly DEF y
<1>10. ASSUME NEW y \in Rerouted(AfterExclusion(u, a, outcome)), NEW x \in Gated(y)
       PROVE  Orderly(x, v, h, q)
  <2> DEFINE e == AfterExclusion(u, a, outcome)
  <2>1. e \in RunState
    BY <1>1, <1>3, AfterExclusionType
  <2>2. Alike(e, u)
    BY <1>1 DEF AfterExclusion, RunState, Alike, SameData
  <2> HIDE DEF e
  <2>3. Moves(e, v, s, w) /\ Backed(e, s, w)
    BY <1>1, <1>2, <1>3, <2>2, AlikeMoves, TakenBacked DEF Alike
  <2>4. CASE y = e
    BY <2>1, <2>3, <2>4, GatedOrderly
  <2>5. ASSUME NEW role \in RolesWanted(e), y = Pause(e, FailedOutcome(role))
        PROVE  Orderly(x, v, h, q)
    <3>1. Orderly(e, v, h, q)
      BY <2>3, MovesOrderly
    <3>2. Grounded(e, v, FailedOutcome(role))
      <4>1. e.queue \subseteq Experts
        BY <2>1, Fields
      <4>2. /\ role = Planner => e.stage = "planning"
            /\ role = Implementer => e.stage = "implementing"
            /\ role = Assessor => e.stage = "assessing"
        BY <2>5, <4>1 DEF RolesWanted, Experts, PlanExperts, DiffExperts,
                          Planner, Implementer, Assessor
      <4>q. QED BY <4>2, FailureGrounded DEF Headed
    <3>3. FailedOutcome(role) \in PlainReasons /\ v \in SUBSET v
      BY PlainNames
    <3>4. e.budgetPhase = "" /\ e.pendingDecision = "" /\ \A b \in v : ~Maker(b)
      BY <1>6, <2>2 DEF Alike, SameData, Active
    <3>5. Orderly(y, v, h, q)
      BY <2>1, <2>5, <3>1, <3>2, <3>3, <3>4, PauseOrderly DEF PlainReasons
    <3>a. FailedOutcome(role) # "budget-exhausted" /\ FailedOutcome(role) \in Outcomes
      BY <3>3 DEF PlainReasons
    <3>b. Pause(e, FailedOutcome(role)).stage = "paused"
      BY <2>1, <3>a, PauseFields
    <3>6. y.stage = "paused"
      BY <2>5, <3>b
    <3>q. QED BY <3>5, <3>6, GatedPause
  <2>q. QED BY <2>4, <2>5 DEF Rerouted, e
<1>q. QED BY <1>7, <1>8, <1>9, <1>10 DEF t, u

-----------------------------------------------------------------------------
(***************************************************************************)
(* Decisions about optional experts                                        *)
(***************************************************************************)

\* What scheduleSpecialists writes.
LEMMA ScheduledFields ==
  ASSUME NEW s \in RunState, NEW kind \in {"plan", "diff"}, NEW needed \in SUBSET Experts
  PROVE  LET t == Scheduled(s, kind, needed)
         IN /\ t.diff = s.diff /\ t.implementer = s.implementer /\ t.plan = s.plan
            /\ t.assessments = s.assessments /\ t.pending = s.pending
            /\ t.repair = s.repair /\ t.reviews = s.reviews
            /\ t.approvedPlan = s.approvedPlan
            /\ t.outcome = s.outcome /\ t.budgetPhase = s.budgetPhase
            /\ t.pendingDecision = "" /\ t.pendingPhase = ""
            /\ needed = {} => t.queue = s.queue /\ t.stage = s.stage
            /\ needed # {} => /\ t.queue = needed /\ t.stage = "specializing"
                              /\ t.after = NextPhase(kind)
<1> DEFINE t == [s EXCEPT !.pendingDecision = "", !.pendingPhase = ""]
           u == [t EXCEPT !.queue = needed, !.after = NextPhase(kind), !.stage = "specializing"]
<1>1. t \in RunState
  BY Update, StageNames
<1>2. /\ t.diff = s.diff /\ t.implementer = s.implementer /\ t.plan = s.plan
      /\ t.assessments = s.assessments /\ t.pending = s.pending
      /\ t.repair = s.repair /\ t.reviews = s.reviews
      /\ t.approvedPlan = s.approvedPlan
      /\ t.outcome = s.outcome /\ t.budgetPhase = s.budgetPhase
      /\ t.pendingDecision = "" /\ t.pendingPhase = ""
      /\ t.queue = s.queue /\ t.stage = s.stage
  BY DEF RunState
<1> HIDE DEF t
<1>3. /\ u.diff = t.diff /\ u.implementer = t.implementer /\ u.plan = t.plan
      /\ u.assessments = t.assessments /\ u.pending = t.pending
      /\ u.repair = t.repair /\ u.reviews = t.reviews
      /\ u.approvedPlan = t.approvedPlan
      /\ u.outcome = t.outcome /\ u.budgetPhase = t.budgetPhase
      /\ u.pendingDecision = t.pendingDecision /\ u.pendingPhase = t.pendingPhase
      /\ u.queue = needed /\ u.stage = "specializing" /\ u.after = NextPhase(kind)
  BY <1>1 DEF RunState
<1> HIDE DEF u
<1>4. Scheduled(s, kind, needed) = IF needed = {} THEN t ELSE u
  BY DEF Scheduled, t, u
<1>q. QED BY <1>2, <1>3, <1>4

\* What it is about to decide about.
Deciding(o, h, q) ==
    /\ o \in RunState /\ o.pendingDecision # ""
    /\ o.pending = {} /\ o.outcome = "" /\ o.stage = o.pendingPhase
    /\ h \in History /\ Orderly(o, {}, h, q)

\* The experts that are queued are those that are demanded; without any the
\* candidate may be verified.
LEMMA ScheduledOrderly ==
  ASSUME NEW o, NEW h, NEW q, Deciding(o, h, q),
         NEW needed \in SUBSET ExpertsFor(o.pendingDecision)
  PROVE  Orderly(Scheduled(o, o.pendingDecision, needed), {},
                 IF o.pendingDecision = "diff" THEN [h EXCEPT !.demanded = needed] ELSE h, q)
<1> DEFINE kind == o.pendingDecision
           t == Scheduled(o, kind, needed)
           g == IF kind = "diff" THEN [h EXCEPT !.demanded = needed] ELSE h
<1>a. /\ o \in RunState /\ o.pendingDecision # "" /\ h \in History
      /\ o.pending = {} /\ o.outcome = "" /\ o.stage = o.pendingPhase
      /\ Orderly(o, {}, h, q)
  BY DEF Deciding
<1>b. kind \in {"plan", "diff"} /\ needed \in SUBSET Experts
  <2>1. kind \in {"plan", "diff"}
    BY <1>a, Fields
  <2>q. QED BY <2>1, KindType
<1>1. /\ t.diff = o.diff /\ t.implementer = o.implementer /\ t.plan = o.plan
      /\ t.assessments = o.assessments /\ t.pending = {}
      /\ t.repair = o.repair /\ t.reviews = o.reviews
      /\ t.approvedPlan = o.approvedPlan
      /\ t.outcome = "" /\ t.budgetPhase = o.budgetPhase
      /\ t.pendingDecision = "" /\ t.pendingPhase = ""
      /\ needed = {} => t.queue = o.queue /\ t.stage = o.stage
      /\ needed # {} => /\ t.queue = needed /\ t.stage = "specializing"
                        /\ t.after = NextPhase(kind)
  <2>1. LET z == Scheduled(o, kind, needed)
        IN /\ z.diff = o.diff /\ z.implementer = o.implementer /\ z.plan = o.plan
           /\ z.assessments = o.assessments /\ z.pending = o.pending
           /\ z.repair = o.repair /\ z.reviews = o.reviews
           /\ z.approvedPlan = o.approvedPlan
           /\ z.outcome = o.outcome /\ z.budgetPhase = o.budgetPhase
           /\ z.pendingDecision = "" /\ z.pendingPhase = ""
           /\ needed = {} => z.queue = o.queue /\ z.stage = o.stage
           /\ needed # {} => /\ z.queue = needed /\ z.stage = "specializing"
                             /\ z.after = NextPhase(kind)
    <3> HIDE DEF kind
    <3>q. QED BY ZenonT(60), <1>a, <1>b, ScheduledFields
  <2>q. QED BY <1>a, <2>1
<1>2. kind \in {"plan", "diff"} /\ o.queue = {}
  BY <1>a, Fields DEF Orderly, OpenDecision
<1>3. Active(t, {}) = {} /\ Active(o, {}) = {}
  BY <1>1, <1>a DEF Active
<1>4. \A phase : Headed(o, phase) <=> phase \in {o.stage, o.budgetPhase}
  BY <1>a DEF Headed
<1> HIDE DEF t
<1>5. \A phase : Headed(t, phase) <=> phase \in {t.stage, t.budgetPhase}
  BY <1>1 DEF Headed
<1>6. IsFiniteSet(t.assessments) /\ IsFiniteSet(t.pending) /\ IsFiniteSet({})
      /\ \A x \in t.assessments : x.revision = t.diff
  BY <1>1, <1>a, Finite DEF Orderly, VotesLeft
<1>7. CASE kind = "plan"
  <2>1. Asking(o, {})
    BY <1>7, <1>a DEF Asking
  <2>2. \A phase \in {"assessing", "verifying", "planning"} : ~Headed(o, phase)
    BY <1>a, <2>1 DEF Orderly, ExpertsFirst
  <2>3. \A phase \in {"assessing", "verifying", "planning"} : ~Headed(t, phase)
    BY <1>1, <1>4, <1>5, <2>2
  <2>4. InBounds(t)
    BY <1>1, <1>a, <2>2, <1>4 DEF InBounds, Orderly, Outside
  <2>5. t.queue # {} => t.after # "verifying"
    BY <1>1, <1>2, <1>7 DEF NextPhase
  <2>6. Orderly(t, {}, h, q)
    BY <1>1, <1>3, <1>6, <2>3, <2>4, <2>5, QuietOrderly
  <2>q. QED BY <1>7, <2>6 DEF t
<1>8. CASE kind = "diff"
  <2>1. o.stage = "verifying" /\ Headed(o, "verifying")
    BY <1>4, <1>8, <1>a DEF Orderly, OpenDecision
  <2>2. Unjudged(o, h, q) /\ o.budgetPhase \in {""}
    BY <2>1, <1>4, <1>3, <1>a, VerifyingAlone DEF Unjudged, Orderly, Outside, Unverified, ReadyToVerify
  <2>3. g.demanded = needed /\ g.verified = h.verified
    BY <1>8, <1>a DEF History
  <2> HIDE DEF g
  <2>4. \A phase \in {"planning", "implementing", "assessing"} : ~Headed(t, phase)
    BY <1>1, <1>5, <2>1, <2>2
  <2>5. Unjudged(t, g, q)
    BY <1>1, <2>2, <2>3, <2>4 DEF Unjudged, Locked
  <2>a. Judges(t, {}) = {}
    BY <1>3 DEF Judges
  <2>b. ~Headed(t, "assessing") /\ ~Headed(t, "planning")
    BY <2>4
  <2>6. Judges(t, {}) = {} /\ ~Judging(t, {})
    BY <2>a, <2>b DEF Judging
  <2>7. Asking(t, {}) => ~Headed(t, "verifying")
    <3>1. Asking(t, {}) => t.queue # {}
      BY <1>1, <1>3 DEF Asking
    <3>2. t.queue # {} => t.stage = "specializing"
      BY <1>1, <1>2
    <3>3. t.stage = "specializing" => ~Headed(t, "verifying")
      <4>1. t.budgetPhase # "verifying"
        BY <1>1, <2>2
      <4>q. QED BY <1>5, <4>1
    <3>q. QED BY <3>1, <3>2, <3>3
  <2>8. ExpertsFirst(t, {})
    BY <1>1, <2>b, <2>6, <2>7 DEF ExpertsFirst
  <2>9. Outside(t, {}) /\ VotesLeft(t, {}) /\ OpenDecision(t, {}, g) /\ OneMaker(t, {})
    <3>1. Outside(t, {})
      BY <1>1, <2>2 DEF Outside
    <3>2. VotesLeft(t, {})
      BY <1>6, <2>a, <2>b, <2>6 DEF VotesLeft
    <3>q. QED BY <1>1, <1>3, <3>1, <3>2 DEF OpenDecision, OneMaker
  <2>q. QED BY <1>1, <2>5, <2>6, <2>8, <2>9 DEF Orderly, FitToJudge, ReadyToVerify,
               ApprovedFinally, RejectedBefore, t, g
<1>q. QED BY <1>2, <1>7, <1>8

\* A decision that cannot be had pauses the run in order.
LEMMA UndecidedOrderly ==
  ASSUME NEW o, NEW h, NEW q, Deciding(o, h, q), NEW t \in Undecided(o, o.pendingDecision)
  PROVE  Orderly(t, {}, h, q)
<1> DEFINE kind == o.pendingDecision
           b == Pause(o, "budget-exhausted")
           n == Pause(o, "specialist-decision-unavailable")
<1>a. /\ o \in RunState /\ o.pendingDecision # "" /\ h \in History
      /\ o.pending = {} /\ o.outcome = "" /\ o.stage = o.pendingPhase
      /\ Orderly(o, {}, h, q)
  BY DEF Deciding
<1>1. \/ t = [b EXCEPT !.pendingDecision = kind]
      \/ t = [n EXCEPT !.pendingDecision = kind, !.pendingPhase = NextPhase(kind)]
  BY <1>a DEF Undecided
<1>2. kind \in {"plan", "diff"} /\ o.queue = {}
  BY <1>a, Fields DEF Orderly, OpenDecision
<1>3. b \in RunState /\ n \in RunState
  BY <1>a, PauseType, NotApproved
<1>4. kind = "diff" => o.stage = "verifying"
  BY <1>a DEF Orderly, OpenDecision
<1>5. o.stage = "done" => ~Headed(o, "verifying")
  <2>1. o.stage = "done" => kind = "plan"
    BY <1>2, <1>4
  <2>q. QED BY <1>a, <2>1 DEF Orderly, ExpertsFirst, Asking
<1>6. CASE t = [b EXCEPT !.pendingDecision = kind]
  <2>1. b.pendingDecision = kind
    BY <1>a, BudgetPauseFields DEF SameData
  <2>2. t = b
    BY <1>a, <1>3, <1>6, <2>1 DEF RunState
  <2>3. Moves(o, {}, o, {})
    <3>1. Alike(o, [o EXCEPT !.pending = o.pending])
      BY <1>a DEF Alike, SameData, RunState
    <3>q. QED BY <1>a, <3>1, StayMoves
  <2>4. Backed(o, o, {})
    BY <1>a DEF Backed, Unphased
  <2>5. Moves(b, {}, o, {})
    BY <1>a, <1>5, <2>3, <2>4, BudgetMoves
  <2>q. QED BY <1>a, <2>2, <2>5, MovesOrderly
<1>7. CASE t = [n EXCEPT !.pendingDecision = kind, !.pendingPhase = NextPhase(kind)]
  <2>a. "specialist-decision-unavailable" \in Outcomes
    BY NotApproved
  <2>1. /\ SameData(n, o) /\ n.stage = "paused" /\ n.pending = {}
        /\ n.outcome = "specialist-decision-unavailable"
        /\ n.budgetPhase = o.budgetPhase
    BY ZenonT(60), <1>a, <2>a, PauseFields
  <2> HIDE DEF n
  <2>2. /\ SameData(t, o) /\ t.stage = "paused" /\ t.pending = {}
        /\ t.outcome = "specialist-decision-unavailable"
        /\ t.budgetPhase = o.budgetPhase /\ t.pendingPhase = NextPhase(kind)
        /\ t.pendingDecision = kind
    BY <1>a, <1>3, <1>7, <2>1 DEF RunState, SameData
  <2>3. \A phase : Headed(t, phase) => phase \in {"paused", o.budgetPhase, NextPhase(kind)}
    BY <1>a, <2>2 DEF Headed
  <2>4. Headed(o, o.budgetPhase) /\ Headed(o, o.stage)
    BY <1>a DEF Headed
  <2>5. Active(t, {}) = {}
    BY <2>2 DEF Active
  <2>6. CASE kind = "diff"
    <3>1. o.stage = "verifying" /\ NextPhase(kind) = "verifying"
      BY <1>4, <2>6 DEF NextPhase
    <3>2. Unjudged(o, h, q) /\ o.budgetPhase # "verifying"
      BY <1>a, <2>4, <3>1 DEF Orderly, ReadyToVerify, Unverified, Outside
    <3>3. o.budgetPhase = ""
      BY <1>a, <2>4, <3>1, <3>2 DEF Unjudged
    <3>4. \A phase : Headed(t, phase) => phase \in {"paused", "", "verifying"}
      BY <2>3, <3>1, <3>3
    <3>5. Moves(t, {}, o, {})
      BY <1>a, <2>2, <2>4, <2>5, <2>6, <3>1, <3>3, <3>4 DEF Moves
    <3>q. QED BY <1>a, <3>5, MovesOrderly
  <2>7. CASE kind = "plan"
    <3>1. \A phase \in {"assessing", "verifying", "planning"} : ~Headed(o, phase)
      BY <1>a, <2>7 DEF Orderly, ExpertsFirst, Asking
    <3>2. NextPhase(kind) = "implementing"
      BY <2>7 DEF NextPhase
    <3>3. \A phase \in {"assessing", "verifying", "planning"} : ~Headed(t, phase)
      BY <2>3, <2>4, <3>1, <3>2
    <3>4. IsFiniteSet(t.assessments) /\ IsFiniteSet({})
          /\ \A x \in t.assessments : x.revision = t.diff
      BY <1>a, <2>2, Finite DEF Orderly, VotesLeft, SameData
    <3>5. InBounds(t) /\ t.queue = {}
      BY <1>a, <1>2, <2>2, <2>4, <3>1 DEF InBounds, Orderly, Outside, SameData
    <3>q. QED BY <1>a, <2>2, <2>5, <2>7, <3>2, <3>3, <3>4, <3>5, QuietOrderly
  <2>q. QED BY <1>2, <2>6, <2>7
<1>q. QED BY <1>1, <1>6, <1>7

\* A decision on the experts, taken or not, leaves the run in order.
LEMMA DecideOrderly ==
  ASSUME NEW o, NEW h, NEW q, Deciding(o, h, q), Decide(o, o.pendingDecision, h)
  PROVE  Orderly(run', {}, hist', q)
<1>1. CASE run' \in Undecided(o, o.pendingDecision) /\ hist' = h
  BY <1>1, UndecidedOrderly
<1>2. ASSUME NEW needed \in SUBSET (ExpertsFor(o.pendingDecision) \cap Enrolled),
             run' = Scheduled(o, o.pendingDecision, needed),
             hist' = IF o.pendingDecision = "diff" THEN [h EXCEPT !.demanded = needed] ELSE h
      PROVE  Orderly(run', {}, hist', q)
  BY <1>2, ScheduledOrderly
<1>q. QED BY <1>1, <1>2 DEF Decide

\* Taking up a decision that was left open, at the phase it was left at.
LEMMA DecideAgainOrderly ==
  ASSUME NEW s \in RunState, hist \in History, NEW q,
         Orderly(s, {}, hist, q), s.pendingDecision # "",
         s.budgetPhase # "verifying", DecideAgain(s)
  PROVE  Orderly(run', {}, hist', q)
<1> DEFINE o == Restarted(s, s.pendingPhase)
<1>1. s.pendingPhase \in Stages /\ s.pendingDecision \in {"plan", "diff"}
  BY Fields
<1>2. o \in RunState
  BY <1>1, RestartedType
<1>3. /\ SameData(o, s) /\ o.pending = s.pending /\ o.stage = s.pendingPhase /\ o.outcome = ""
      /\ o.pendingPhase = s.pendingPhase /\ o.budgetPhase = s.budgetPhase
      /\ o.pendingDecision = s.pendingDecision
  BY DEF Restarted, RunState, SameData
<1>4. Active(s, {}) = {} /\ s.pending = {}
  BY DEF Orderly, OpenDecision, Active
<1>5. /\ s.pendingDecision = "diff" => s.pendingPhase = "verifying"
      /\ s.pendingPhase = "verifying" => s.pendingDecision = "diff"
      /\ s.pendingDecision = "plan" => ~Headed(s, "verifying") /\ s.pendingPhase # "assessing"
  BY DEF Orderly, OpenDecision, ExpertsFirst, Asking
<1>6. s.outcome # "approved"
  BY DEF Orderly, ApprovedFinally, Fit
<1>7. CASE Decide(Restarted(s, s.pendingPhase), s.pendingDecision, hist)
  <2> HIDE DEF o
  <2>1. Headed(s, s.pendingPhase)
    BY DEF Headed
  <2>2. Moves(o, {}, s, {})
    BY <1>3, <1>4, <1>5, <2>1, RestartMoves
  <2>3. Orderly(o, {}, hist, q)
    BY <2>2, MovesOrderly
  <2>4. Deciding(o, hist, q)
    BY <1>2, <1>3, <1>4, <2>3 DEF Deciding
  <2>q. QED BY <1>3, <1>7, <2>4, DecideOrderly DEF o
<1>8. CASE run' = Pause(s, "budget-exhausted") /\ UNCHANGED hist
  <2>1. Moves(s, {}, s, {})
    <3>1. Alike(s, [s EXCEPT !.pending = s.pending])
      BY DEF Alike, SameData, RunState
    <3>q. QED BY <1>6, <3>1, StayMoves
  <2>2. Backed(s, s, {})
    BY <1>1, <1>5 DEF Backed
  <2>3. s.stage = "done" => ~Headed(s, "verifying")
    BY <1>1, <1>5 DEF Orderly, OpenDecision
  <2>4. Moves(run', {}, s, {})
    BY <1>8, <2>1, <2>2, <2>3, BudgetMoves
  <2>q. QED BY <1>8, <2>4, MovesOrderly
<1>q. QED BY <1>7, <1>8 DEF DecideAgain

-----------------------------------------------------------------------------
(***************************************************************************)
(* Results by the phase they are for                                       *)
(***************************************************************************)

\* A result for the assignment a is applied to u, the run without it.
Applying(s, w, h, q, a, u) ==
    /\ s \in RunState /\ w \in SUBSET Assignment /\ h \in History
    /\ Orderly(s, w, h, q) /\ a \in s.pending \cap w /\ w \subseteq s.pending
    /\ a \in Assignment /\ a \in Active(s, w)
    /\ u \in RunState /\ SameData(u, s) /\ u.pending = s.pending \ {a}
    /\ u.budgetPhase = "" /\ u.pendingPhase = s.pendingPhase
    /\ u.pendingPhase # "verifying" /\ u.pendingDecision = ""
    /\ u.stage = Phase(s) /\ Headed(s, u.stage)
    /\ u.stage \in Working => u.outcome = ""
    /\ Moves(u, w \ {a}, s, w) /\ Orderly(u, w \ {a}, h, q) /\ Backed(u, s, w)
    /\ \A b \in Active(u, w \ {a}) : ~Maker(b)

\* That is so of every result of a pending assignment.
LEMMA ApplyingFacts ==
  ASSUME NEW s \in RunState, NEW w \in SUBSET Assignment, NEW h \in History, NEW q,
         Orderly(s, w, h, q), NEW a \in s.pending \cap w
  PROVE  Applying(s, w, h, q, a, Settled(Taken(s, a)))
<1> DEFINE t == Taken(s, a)
           u == Settled(t)
<1>1. /\ u \in RunState /\ SameData(t, s) /\ Alike(u, t) /\ t.pending = s.pending \ {a}
      /\ t.stage = Phase(s) /\ t.budgetPhase = "" /\ t.pendingPhase = s.pendingPhase
  BY TakenFields
<1>2. /\ Moves(u, w \ {a}, s, w) /\ Headed(s, Phase(s))
      /\ \A b \in Active(t, w \ {a}) : ~Maker(b)
      /\ t.stage \notin {"paused", "done", "draining"} => t.outcome = ""
  BY TakenMoves
<1> HIDE DEF t, u
<1>a. u.pending = s.pending \ {a}
  BY <1>1 DEF Alike
<1>3. a \in Active(s, w) /\ a \in Assignment
  BY Fields DEF Active
<1>4. s.pendingDecision = "" /\ s.pendingPhase # "verifying"
  BY <1>3, AtWorkFacts
<1>5. w \subseteq s.pending
  BY DEF Orderly, Outside
<1>6. SameData(u, s) /\ u.pending = t.pending /\ u.stage = t.stage /\ u.outcome = t.outcome
      /\ u.budgetPhase = t.budgetPhase /\ u.pendingPhase = t.pendingPhase
  BY <1>1 DEF Alike, SameData
<1>7. u.stage \in Working => u.outcome = ""
  BY <1>2, <1>6 DEF Working
<1>8. Backed(u, s, w)
  BY <1>1, <1>3, <1>6, TakenBacked
<1>9. Orderly(u, w \ {a}, h, q)
  BY <1>2, MovesOrderly
<1>10. \A b \in Active(u, w \ {a}) : ~Maker(b)
  BY <1>2, <1>6 DEF Active
<1>11. u.pendingDecision = ""
  BY <1>4, <1>6 DEF SameData
<1>q. QED BY <1>a, <1>1, <1>2, <1>3, <1>4, <1>5, <1>6, <1>7, <1>8, <1>9, <1>10, <1>11
     DEF Applying, t, u

\* A run that ends with an answer, or pauses with what is pending kept, as a
\* failed planner or implementer leaves it.
LEMMA StoppedOrderly ==
  ASSUME NEW s, NEW w, NEW h, NEW q, NEW a, NEW u, Applying(s, w, h, q, a, u),
         u.stage \in Working,
         NEW stage, NEW outcome,
         \/ stage = "done" /\ outcome = "answer"
         \/ stage = "paused" /\ outcome = "planner-failed" /\ u.stage = "planning"
         \/ stage = "paused" /\ outcome = "implementer-failed" /\ u.stage = "implementing",
         NEW x \in Gated([u EXCEPT !.stage = stage, !.outcome = outcome])
  PROVE  Orderly(x, w \ {a}, h, q)
<1> DEFINE v == w \ {a}
           y == [u EXCEPT !.stage = stage, !.outcome = outcome]
<1> HIDE DEF y
<1>1. /\ u \in RunState /\ SameData(u, s) /\ u.budgetPhase = "" /\ u.pendingDecision = ""
      /\ u.pendingPhase = s.pendingPhase /\ u.pendingPhase # "verifying"
      /\ Headed(s, u.stage) /\ Moves(u, v, s, w) /\ \A b \in Active(u, v) : ~Maker(b)
  BY DEF Applying
<1>2. /\ SameData(y, u) /\ y.pending = u.pending /\ y.budgetPhase = "" /\ y.stage = stage
      /\ y.outcome = outcome /\ y.pendingPhase = u.pendingPhase
      /\ y.retryPhase = u.retryPhase
  BY <1>1 DEF RunState, SameData, y
<1>3. \A phase \in {"planning", "implementing", "assessing", "verifying"} :
         Headed(y, phase) => Headed(s, phase)
  BY <1>1, <1>2 DEF Headed, SameData
<1>4. ~Headed(y, "verifying")
  BY <1>1, <1>2 DEF Headed, SameData
<1>5. Active(y, v) = Active(u, v) /\ SameData(y, s)
  BY <1>1, <1>2 DEF Active, SameData
<1>6. Moves(y, v, s, w)
  BY <1>1, <1>2, <1>3, <1>4, <1>5 DEF Moves, SameData
<1>7. Orderly(y, v, h, q)
  BY <1>6, MovesOrderly DEF Applying
<1>8. x \in Gated(y) /\ y.stage \in {"paused", "done"}
  BY <1>2 DEF y
<1>9. x = y
  BY <1>8, GatedPause
<1>q. QED BY <1>7, <1>9

\* An implementation without progress keeps the order, also the last one it may
\* make.
LEMMA NoProgressOrderly ==
  ASSUME NEW s, NEW w, NEW h, NEW q, NEW a, NEW u, Applying(s, w, h, q, a, u),
         u.stage = "implementing", NEW x \in Gated(NoProgress(u))
  PROVE  Orderly(x, w \ {a}, h, q)
<1> DEFINE v == w \ {a}
           t == [u EXCEPT !.noProgress = u.noProgress + 1]
<1> HIDE DEF t
<1>1. /\ u \in RunState /\ u.budgetPhase = "" /\ u.pendingDecision = ""
      /\ Moves(u, v, s, w) /\ \A b \in Active(u, v) : ~Maker(b)
  BY DEF Applying
<1>2. s \in RunState /\ w \in SUBSET Assignment /\ Orderly(s, w, h, q)
  BY DEF Applying
<1>3. t \in RunState
  <2>a. u.noProgress \in Nat
    BY <1>1, Fields
  <2>1. u.noProgress + 1 \in Nat
    BY <2>a
  <2>q. QED BY <1>1, <2>1, Update DEF t
<1>4. Alike(t, u)
  BY <1>1 DEF RunState, Alike, SameData, t
<1>5. NoProgress(u) = t \/ NoProgress(u) = Pause(t, "implementer-failed")
  BY DEF NoProgress, t
<1>6. t.stage = "implementing" /\ t.budgetPhase = "" /\ t.pendingDecision = ""
      /\ t.pending = u.pending
  BY <1>1, <1>4 DEF Alike, SameData
<1>7. Moves(t, v, s, w) /\ Backed(t, s, w)
  BY <1>1, <1>4, <1>6, AlikeMoves DEF Backed, Unphased
<1>8. CASE x \in Gated(t)
  BY <1>2, <1>3, <1>7, <1>8, GatedOrderly
<1>9. CASE x \in Gated(Pause(t, "implementer-failed"))
  <2>1. Orderly(t, v, h, q)
    BY <1>2, <1>7, MovesOrderly
  <2>2. "implementer-failed" \in PlainReasons /\ Grounded(t, v, "implementer-failed")
    BY <1>6, PlainNames DEF Grounded, Headed
  <2>3. \A b \in v : ~Maker(b)
    BY <1>1 DEF Active
  <2>a. v \in SUBSET v
    OBVIOUS
  <2>4. Orderly(Pause(t, "implementer-failed"), v, h, q)
    BY <1>3, <1>6, <2>1, <2>2, <2>3, <2>a, PauseOrderly DEF PlainReasons
  <2>5. Pause(t, "implementer-failed").stage = "paused"
    BY <1>3, NotApproved, PauseFields
  <2>q. QED BY <1>9, <2>4, <2>5, GatedPause
<1>q. QED BY <1>5, <1>8, <1>9

\* A decision that a result leaves open (the section that records it).
Opened(s, kind) == [s EXCEPT !.pendingDecision = kind, !.pendingPhase = s.stage]

\* What a decision left open changes.
LEMMA OpenedFields ==
  ASSUME NEW s \in RunState, NEW kind \in {"plan", "diff"}
  PROVE  LET o == Opened(s, kind)
         IN /\ o \in RunState
            /\ o.diff = s.diff /\ o.implementer = s.implementer /\ o.plan = s.plan
            /\ o.assessments = s.assessments /\ o.pending = s.pending
            /\ o.receipts = s.receipts /\ o.receiptsFor = s.receiptsFor
            /\ o.repair = s.repair /\ o.queue = s.queue /\ o.reviews = s.reviews
            /\ o.approvedPlan = s.approvedPlan /\ o.authorized = s.authorized
            /\ o.stage = s.stage /\ o.outcome = s.outcome /\ o.budgetPhase = s.budgetPhase
            /\ o.pendingDecision = kind /\ o.pendingPhase = s.stage
<1>1. s.stage \in Stages
  BY Fields
<1>2. kind \in {"", "plan", "diff"}
  OBVIOUS
<1>3. Opened(s, kind) \in RunState
  <2>1. [s EXCEPT !.pendingDecision = kind] \in RunState
    BY <1>2, Update
  <2>2. [[s EXCEPT !.pendingDecision = kind] EXCEPT !.pendingPhase = s.stage] \in RunState
    BY <1>1, <2>1, Update
  <2>q. QED BY <2>2 DEF Opened
<1>q. QED BY <1>3 DEF Opened, RunState

\* A maker is alone.
LEMMA MakerAlone ==
  ASSUME NEW s, NEW w, NEW h, NEW q, NEW a, NEW u, Applying(s, w, h, q, a, u), Maker(a)
  PROVE  /\ s.pending = {a} /\ w \subseteq {a} /\ w \ {a} = {} /\ u.pending = {}
         /\ AtWork(s) /\ ~Unverified(s)
         /\ a.role = Implementer => Locked(s)
         /\ a.role = Planner => s.queue = {}
<1>1. /\ a \in Active(s, w) /\ OneMaker(s, w) /\ u.pending = s.pending \ {a}
  BY DEF Applying, Orderly
<1>q. QED BY <1>1 DEF OneMaker

\* A new plan is saved with the decision about its research open.
Planned(u, revision) ==
    [AfterPlanning(u, "planned", revision) EXCEPT !.approvedPlan = None, !.authorized = None]

\* A new plan may be decided on.
LEMMA PlannedDeciding ==
  ASSUME NEW s, NEW w, NEW h, NEW q, NEW a, NEW u, Applying(s, w, h, q, a, u),
         u.stage = "planning", a.role = Planner, NEW revision \in Plans
  PROVE  Deciding(Opened(Planned(u, revision), "plan"), h, q)
<1> DEFINE p == [u EXCEPT !.stage = "implementing", !.plan = revision]
           r == [p EXCEPT !.approvedPlan = None, !.authorized = None]
           o == Opened(r, "plan")
<1> HIDE DEF p, r, o
<1>1. /\ u \in RunState /\ SameData(u, s) /\ u.budgetPhase = "" /\ u.outcome = ""
      /\ h \in History /\ s.queue = {} /\ u.pending = {}
  BY ZenonT(60), MakerAlone DEF Applying, Working, Maker
<1>2. p \in RunState
  <2>1. [u EXCEPT !.stage = "implementing"] \in RunState
    BY <1>1, StageNames, Update DEF Working
  <2>2. [[u EXCEPT !.stage = "implementing"] EXCEPT !.plan = revision] \in RunState
    BY <2>1, Update
  <2>q. QED BY <2>2 DEF p
<1>3. r \in RunState
  <2>1. [p EXCEPT !.approvedPlan = None] \in RunState
    BY <1>2, Update
  <2>2. [[p EXCEPT !.approvedPlan = None] EXCEPT !.authorized = None] \in RunState
    BY <2>1, Update
  <2>q. QED BY <2>2 DEF r
<1>4. /\ p.stage = "implementing" /\ p.outcome = "" /\ p.pending = {} /\ p.queue = {}
      /\ p.budgetPhase = "" /\ p.diff = u.diff /\ p.assessments = u.assessments
  BY <1>1 DEF RunState, SameData, p
<1>5. /\ r.stage = "implementing" /\ r.outcome = "" /\ r.pending = {} /\ r.queue = {}
      /\ r.budgetPhase = "" /\ r.diff = u.diff /\ r.assessments = u.assessments
  BY <1>2, <1>4 DEF RunState, r
<1>6. /\ o \in RunState /\ o.stage = "implementing" /\ o.outcome = "" /\ o.pending = {}
      /\ o.queue = {} /\ o.budgetPhase = "" /\ o.diff = u.diff
      /\ o.assessments = u.assessments
      /\ o.pendingDecision = "plan" /\ o.pendingPhase = "implementing"
  BY <1>3, <1>5, OpenedFields DEF o
<1>8. ~Headed(o, "assessing") /\ ~Headed(o, "verifying") /\ ~Headed(o, "planning")
  BY <1>6 DEF Headed
<1>9. Active(o, {}) = {}
  BY <1>6 DEF Active
<1>10. /\ IsFiniteSet(o.assessments) /\ IsFiniteSet(o.pending) /\ IsFiniteSet({})
       /\ \A x \in o.assessments : x.revision = o.diff
  <2>1. Orderly(u, w \ {a}, h, q)
    BY DEF Applying
  <2>2. IsFiniteSet(u.assessments) /\ \A x \in u.assessments : x.revision = u.diff
    BY <2>1 DEF Orderly, VotesLeft
  <2>q. QED BY <1>6, <2>2, FS_EmptySet
<1>11. InBounds(o)
  BY <1>6 DEF InBounds
<1>12. Orderly(o, {}, h, q)
  BY <1>6, <1>8, <1>9, <1>10, <1>11, QuietOrderly
<1>13. Opened(Planned(u, revision), "plan") = o
  BY DEF o, r, p, Planned, AfterPlanning
<1>q. QED BY <1>1, <1>6, <1>12, <1>13 DEF Deciding

\* A new candidate is saved with the decision about its experts open.
Changed(u, a, revision) ==
    [Invalidate(u) EXCEPT !.diff = revision, !.stage = "verifying",
                          !.implementer = BindingOf[a.agent]]

\* A new candidate may be decided on, with nothing seen of it.
LEMMA ChangedDeciding ==
  ASSUME NEW s, NEW w, NEW h, NEW q, NEW a, NEW u, Applying(s, w, h, q, a, u),
         u.stage = "implementing", a.role = Implementer, NEW revision \in Candidates
  PROVE  Deciding(Opened(Changed(u, a, revision), "diff"), Unseen, revision)
<1> DEFINE p == Invalidate(u)
           r == [p EXCEPT !.diff = revision, !.stage = "verifying",
                          !.implementer = BindingOf[a.agent]]
           o == Opened(r, "diff")
<1> HIDE DEF p, r, o
<1>1. /\ u \in RunState /\ SameData(u, s) /\ u.budgetPhase = "" /\ u.outcome = ""
      /\ Locked(s) /\ a \in Assignment
  BY MakerAlone DEF Applying, Working, Maker
<1>2. p \in RunState
  BY <1>1, InvalidateType DEF p
<1>3. /\ p.repair = None /\ p.assessments = {} /\ p.queue = {} /\ p.pending = {}
      /\ p.outcome = "" /\ p.budgetPhase = "" /\ p.plan = u.plan
      /\ p.approvedPlan = u.approvedPlan
  BY <1>1 DEF Invalidate, RunState, p
<1>4. r \in RunState
  <2>a. BindingOf[a.agent] \in Bindings \cup {None}
    BY <1>1, StateConstants DEF Assignment
  <2>1. [p EXCEPT !.diff = revision] \in RunState
    BY <1>2, Update
  <2>2. [[p EXCEPT !.diff = revision] EXCEPT !.stage = "verifying"] \in RunState
    BY <2>1, StageNames, Update DEF Working
  <2>3. [[[p EXCEPT !.diff = revision] EXCEPT !.stage = "verifying"]
            EXCEPT !.implementer = BindingOf[a.agent]] \in RunState
    BY <2>a, <2>2, Update
  <2>q. QED BY <2>3 DEF r
<1>5. /\ r.diff = revision /\ r.stage = "verifying"
      /\ r.repair = None /\ r.assessments = {} /\ r.queue = {} /\ r.pending = {}
      /\ r.outcome = "" /\ r.budgetPhase = "" /\ r.plan = u.plan
      /\ r.approvedPlan = u.approvedPlan
  BY ZenonT(60), <1>2, <1>3 DEF RunState, r
<1>6. /\ o \in RunState /\ o.diff = revision /\ o.stage = "verifying"
      /\ o.repair = None /\ o.assessments = {} /\ o.queue = {} /\ o.pending = {}
      /\ o.outcome = "" /\ o.budgetPhase = "" /\ o.plan = u.plan
      /\ o.approvedPlan = u.approvedPlan
      /\ o.pendingDecision = "diff" /\ o.pendingPhase = "verifying"
  BY <1>4, <1>5, OpenedFields DEF o
<1>8. ~Headed(o, "assessing") /\ ~Headed(o, "implementing") /\ ~Headed(o, "planning")
  BY <1>6 DEF Headed
<1>9. Active(o, {}) = {} /\ Judges(o, {}) = {} /\ ~Judging(o, {}) /\ ~Asking(o, {})
  <2>1. Active(o, {}) = {}
    BY <1>6 DEF Active
  <2>2. Judges(o, {}) = {}
    BY <2>1 DEF Judges
  <2>q. QED BY <1>6, <1>8, <2>1, <2>2 DEF Judging, Asking
<1>10. Locked(o)
  BY <1>1, <1>6 DEF Locked, SameData
<1>11. Unjudged(o, Unseen, revision)
  <2>1. revision # None
    BY StateConstants
  <2>2. ~Unseen.verified
    BY DEF Unseen
  <2>3. \A phase \in {"planning", "implementing", "assessing"} :
           ~Headed(o, phase) /\ o.pendingPhase # phase
    BY <1>6, <1>8
  <2>q. QED BY <1>6, <1>10, <2>1, <2>2, <2>3 DEF Unjudged
<1>12. OpenDecision(o, {}, Unseen)
  <2>1. Unseen.demanded = {}
    BY DEF Unseen
  <2>q. QED BY <1>6, <1>9, <2>1 DEF OpenDecision
<1>13. VotesLeft(o, {})
  BY <1>6, <1>8, <1>9, FS_EmptySet DEF VotesLeft
<1>14. Outside(o, {}) /\ OneMaker(o, {})
  BY <1>6, <1>9 DEF Outside, OneMaker
<1>15. Orderly(o, {}, Unseen, revision)
  BY <1>6, <1>9, <1>11, <1>12, <1>13, <1>14
     DEF Orderly, FitToJudge, ReadyToVerify, ApprovedFinally, ExpertsFirst, RejectedBefore
<1>16. Opened(Changed(u, a, revision), "diff") = o
  BY DEF o, r, p, Changed
<1>17. Unseen \in History
  BY DEF Unseen, History
<1>q. QED BY <1>6, <1>15, <1>16, <1>17 DEF Deciding

\* The driver dies before it saves the new candidate: patch.diff is ahead of
\* run.json, while the implementer's assignment is still pending.
LEMMA AheadOrderly ==
  ASSUME NEW s, NEW w, NEW h, NEW q, NEW a, NEW u, Applying(s, w, h, q, a, u), Maker(a),
         NEW p, p = q \/ (u.stage = "implementing" /\ a.role = Implementer)
  PROVE  Orderly(s, {}, h, p)
<1>1. /\ s.pending = {a} /\ w \subseteq {a} /\ AtWork(s) /\ ~Unverified(s)
  BY MakerAlone
<1>2. /\ s \in RunState /\ w \in SUBSET Assignment /\ Orderly(s, w, h, q)
      /\ a \in Active(s, w) /\ u.stage = Phase(s)
  BY DEF Applying
<1>3. s.outcome # "approved"
  BY <1>2, AtWorkFacts
<1>4. Orderly(s, {}, h, q)
  <2>1. Alike(s, [s EXCEPT !.pending = s.pending])
    BY <1>2 DEF Alike, SameData, RunState
  <2>2. {} \in SUBSET w
    OBVIOUS
  <2>3. Moves(s, {}, s, w)
    BY <1>2, <1>3, <2>1, <2>2, StayMoves
  <2>q. QED BY <1>2, <2>3, MovesOrderly
<1>5. CASE u.stage = "implementing" /\ a.role = Implementer
  <2>1. s.pendingDecision = ""
    BY <1>2, AtWorkFacts
  <2>a. Outside(s, w)
    BY <1>2 DEF Orderly
  <2>2. s.outcome # "" => \/ s.stage \in {"paused", "done"}
                          \/ s.stage = "draining" /\ s.outcome = "budget-exhausted"
    BY <2>a DEF Outside
  <2>3. \A phase : Headed(s, phase) => phase \in {s.stage, s.budgetPhase}
                                       \/ (s.budgetPhase = "" /\ s.stage = "draining")
    BY <1>1, <2>1, <2>2 DEF Headed, AtWork
  <2>4. ~Headed(s, "assessing")
    BY <1>1, <1>2, <1>5, <2>3 DEF AtWork, Phase
  <2>5. Judges(s, {}) = {}
    BY <1>1, <1>5 DEF Judges, Active, Assessor, Implementer
  <2>6. ~Judging(s, {})
    BY <2>4, <2>5 DEF Judging
  <2>q. QED BY <1>1, <1>3, <1>4, <2>6
           DEF Orderly, FitToJudge, ReadyToVerify, ApprovedFinally
<1>q. QED BY <1>4, <1>5

\* budgetGate at the end of a section that left the run in order.
LEMMA GatedStay ==
  ASSUME NEW t \in RunState, NEW v \in SUBSET Assignment, NEW h, NEW q,
         Orderly(t, v, h, q), t.outcome # "approved", t.stage # "done",
         t.pendingPhase # "assessing" \/ t.stage \in Working,
         NEW x \in Gated(t)
  PROVE  Orderly(x, v, h, q)
<1>1. Alike(t, [t EXCEPT !.pending = t.pending])
  BY DEF Alike, SameData, RunState
<1>2. v \subseteq t.pending \/ t.pending = {}
  BY DEF Orderly, Outside
<1>a. v \in SUBSET v
  OBVIOUS
<1>3. Moves(t, v, t, v)
  BY <1>1, <1>2, <1>a, StayMoves
<1>4. Backed(t, t, v)
  BY DEF Backed, Unphased, Working
<1>q. QED BY <1>3, <1>4, GatedOrderly

\* A result that pauses the run leaves it in order.
LEMMA PausedOrderly ==
  ASSUME NEW s, NEW w, NEW h, NEW q, NEW a, NEW u, Applying(s, w, h, q, a, u),
         NEW reason \in PlainReasons, Grounded(u, w \ {a}, reason),
         NEW x \in Gated(Pause(u, reason))
  PROVE  Orderly(x, w \ {a}, h, q)
<1> DEFINE v == w \ {a}
<1>1. /\ u \in RunState /\ u.budgetPhase = "" /\ u.pendingDecision = ""
      /\ Orderly(u, v, h, q) /\ v \in SUBSET v
      /\ \A b \in Active(u, v) : ~Maker(b)
  BY DEF Applying
<1>2. \A b \in v : ~Maker(b)
  BY <1>1 DEF Active
<1>3. Orderly(Pause(u, reason), v, h, q)
  BY <1>1, <1>2, PauseOrderly DEF PlainReasons
<1>4. Pause(u, reason).stage = "paused"
  <2>1. reason \in Outcomes /\ reason # "budget-exhausted"
    BY DEF PlainReasons
  <2>q. QED BY <1>1, <2>1, PauseFields
<1>q. QED BY <1>3, <1>4, GatedPause

\* The review of an expert.
ExpertSaid(s, a, ok) ==
    [s EXCEPT !.queue = s.queue \ {a.role},
              !.reviews = s.reviews \cup {[role |-> a.role, agent |-> a.agent,
                                           approved |-> ok]}]

\* What recording it writes.
LEMMA ExpertSaidFields ==
  ASSUME NEW s \in RunState, NEW a \in Assignment, a.role \in Experts, NEW ok \in BOOLEAN
  PROVE  LET t == ExpertSaid(s, a, ok)
         IN /\ t \in RunState
            /\ t.diff = s.diff /\ t.implementer = s.implementer /\ t.plan = s.plan
            /\ t.assessments = s.assessments
            /\ t.repair = s.repair /\ t.after = s.after
            /\ t.pendingDecision = s.pendingDecision
            /\ t.approvedPlan = s.approvedPlan
            /\ t.pending = s.pending /\ t.stage = s.stage /\ t.outcome = s.outcome
            /\ t.pendingPhase = s.pendingPhase /\ t.budgetPhase = s.budgetPhase
            /\ t.queue = s.queue \ {a.role}
            /\ Heard(s) \subseteq Heard(t)
            /\ ok => a.role \in Heard(t)
<1> DEFINE r == [role |-> a.role, agent |-> a.agent, approved |-> ok]
           t == ExpertSaid(s, a, ok)
<1>1. r \in Review /\ r.role = a.role /\ r.approved = ok
  BY DEF Review, Assignment
<1> HIDE DEF r
<1>2. s.queue \ {a.role} \in SUBSET Experts /\ s.reviews \cup {r} \in SUBSET Review
  BY <1>1, Fields
<1>3. t \in RunState
  <2>1. [s EXCEPT !.queue = s.queue \ {a.role}] \in RunState
    BY <1>2, Update
  <2>2. [[s EXCEPT !.queue = s.queue \ {a.role}] EXCEPT !.reviews = s.reviews \cup {r}]
           \in RunState
    BY <1>2, <2>1, Update
  <2>q. QED BY <2>2 DEF ExpertSaid, r
<1>4. /\ t.diff = s.diff /\ t.implementer = s.implementer /\ t.plan = s.plan
      /\ t.assessments = s.assessments
      /\ t.repair = s.repair /\ t.after = s.after
      /\ t.pendingDecision = s.pendingDecision
      /\ t.approvedPlan = s.approvedPlan
      /\ t.pending = s.pending /\ t.stage = s.stage /\ t.outcome = s.outcome
      /\ t.pendingPhase = s.pendingPhase /\ t.budgetPhase = s.budgetPhase
      /\ t.queue = s.queue \ {a.role}
      /\ t.reviews = s.reviews \cup {r}
  BY DEF ExpertSaid, RunState, r
<1> HIDE DEF t
<1>5. Heard(s) \subseteq Heard(t)
  BY <1>4 DEF Heard
<1>6. ok => a.role \in Heard(t)
  <2>1. ok => r \in {z \in t.reviews : z.approved}
    BY <1>1, <1>4
  <2>q. QED BY <1>1, <2>1 DEF Heard
<1>q. QED BY <1>3, <1>4, <1>5, <1>6 DEF t

\* What is known while an expert reports.
ExpertReports(s, w, h, q, a, u) ==
    /\ Applying(s, w, h, q, a, u) /\ u.stage = "specializing" /\ a.role \in u.queue

\* What is so when an expert reports.
LEMMA ExpertReportsFacts ==
  ASSUME NEW s, NEW w, NEW h, NEW q, NEW a, NEW u, ExpertReports(s, w, h, q, a, u)
  PROVE  /\ a.role \in Experts
         /\ Judges(u, w \ {a}) = {} /\ Judges(s, w) = {}
         /\ \A phase \in {"assessing", "verifying", "planning"} :
               ~Headed(u, phase) /\ u.pendingPhase # phase
<1>1. /\ s \in RunState /\ w \in SUBSET Assignment /\ h \in History /\ Orderly(s, w, h, q)
      /\ a \in Active(s, w) /\ u \in RunState /\ u.pendingPhase = s.pendingPhase
      /\ u.pendingDecision = ""
      /\ u.outcome = "" /\ u.budgetPhase = "" /\ u.stage = "specializing"
      /\ a.role \in u.queue
      /\ u.pending = s.pending \ {a}
  BY DEF ExpertReports, Applying, Working
<1>2. a.role \in Experts
  BY <1>1, Fields
<1>3. /\ Judges(s, w) = {}
      /\ \A phase \in {"assessing", "verifying", "planning"} :
            ~Headed(s, phase) /\ s.pendingPhase # phase
  BY <1>1, <1>2, AtWorkFacts
<1>4. Judges(u, w \ {a}) = {}
  BY <1>1, <1>3 DEF Judges, Active
<1>5. \A phase \in {"assessing", "verifying", "planning"} : ~Headed(u, phase)
  BY <1>1 DEF Headed
<1>q. QED BY <1>1, <1>2, <1>3, <1>4, <1>5

\* A rejection sends the candidate, or the plan, back.
LEMMA ExpertRejects ==
  ASSUME NEW s, NEW w, NEW h, NEW q, NEW a, NEW u, ExpertReports(s, w, h, q, a, u),
         NEW x \in Gated(AfterSpecializing(u, a, "changes-required")),
         "changes-required" \in WorkerOutcomes(a.role)
  PROVE  Orderly(x, w \ {a}, h, q)
<1> DEFINE v == w \ {a}
           p == ExpertSaid(u, a, FALSE)
           t == [p EXCEPT !.repair = a.revision, !.queue = {}, !.pending = {},
                          !.stage = "implementing"]
<1> HIDE DEF p, t
<1>1. /\ a \in Assignment /\ u \in RunState /\ v \in SUBSET Assignment
      /\ u.pendingDecision = "" /\ u.outcome = "" /\ u.budgetPhase = ""
      /\ Orderly(u, v, h, q) /\ \A b \in Active(u, v) : ~Maker(b)
      /\ a.role \in u.queue
  BY DEF ExpertReports, Applying, Working
<1>2. /\ a.role \in Experts /\ Judges(u, v) = {}
      /\ u.pendingPhase \notin {"assessing", "verifying", "planning"}
  BY ExpertReportsFacts
<1>3. /\ p \in RunState
      /\ p.diff = u.diff /\ p.assessments = u.assessments
      /\ p.pendingDecision = "" /\ p.outcome = "" /\ p.budgetPhase = ""
      /\ p.pendingPhase = u.pendingPhase
  BY <1>1, <1>2, ExpertSaidFields DEF p
<1>4. AfterSpecializing(u, a, "changes-required") = t
  BY DEF AfterSpecializing, ExpertSaid, p, t
<1>5. t \in RunState
  BY <1>1, <1>4, AfterSpecializingType
<1>6. /\ t.diff = u.diff /\ t.assessments = u.assessments /\ t.stage = "implementing"
      /\ t.pendingDecision = "" /\ t.outcome = "" /\ t.budgetPhase = ""
      /\ t.pendingPhase = u.pendingPhase /\ t.queue = {} /\ t.pending = {}
  BY <1>3 DEF RunState, t
<1>7. ~Headed(t, "assessing") /\ ~Headed(t, "verifying") /\ ~Headed(t, "planning")
  BY <1>6 DEF Headed
<1>8. \A b \in Active(t, v) : ~Maker(b) /\ b.role # Assessor
  BY <1>1, <1>2, <1>6 DEF Active, Judges
<1>9. /\ IsFiniteSet(t.assessments) /\ IsFiniteSet(t.pending) /\ IsFiniteSet(v)
      /\ \A y \in t.assessments : y.revision = t.diff
  BY <1>1, <1>6, FS_EmptySet DEF Orderly, VotesLeft
<1>10. InBounds(t)
  BY <1>6 DEF InBounds
<1>11. Orderly(t, v, h, q)
  BY <1>2, <1>6, <1>7, <1>8, <1>9, <1>10, QuietOrderly
<1>q. QED BY <1>1, <1>4, <1>5, <1>6, <1>11, GatedStay DEF Working

\* An approval that others, or nobody, still follow: the last one sends the run
\* on to the phase its experts were asked before.
LEMMA ExpertApproves ==
  ASSUME NEW s, NEW w, NEW h, NEW q, NEW a, NEW u, ExpertReports(s, w, h, q, a, u),
         NEW x \in Gated(AfterSpecializing(u, a, "approved")),
         "approved" \in WorkerOutcomes(a.role)
  PROVE  Orderly(x, w \ {a}, h, q)
<1> DEFINE v == w \ {a}
           p == ExpertSaid(u, a, TRUE)
           t == [p EXCEPT !.stage = u.after, !.after = ""]
<1> HIDE DEF p, t
<1>1. /\ a \in Assignment /\ u \in RunState /\ v \in SUBSET Assignment
      /\ u.pendingDecision = "" /\ u.outcome = "" /\ u.budgetPhase = ""
      /\ u.stage = "specializing"
      /\ Orderly(u, v, h, q) /\ \A b \in Active(u, v) : ~Maker(b)
      /\ a.role \in u.queue /\ v \subseteq u.pending
  BY DEF ExpertReports, Applying, Working
<1>2. /\ a.role \in Experts /\ Judges(u, v) = {}
      /\ u.pendingPhase \notin {"assessing", "verifying", "planning"}
      /\ ~Headed(u, "assessing") /\ ~Headed(u, "verifying") /\ ~Headed(u, "planning")
  BY ExpertReportsFacts
<1>3. /\ p \in RunState
      /\ p.diff = u.diff /\ p.assessments = u.assessments /\ p.implementer = u.implementer
      /\ p.plan = u.plan /\ p.approvedPlan = u.approvedPlan /\ p.repair = u.repair
      /\ p.after = u.after /\ p.pending = u.pending /\ p.stage = "specializing"
      /\ p.pendingDecision = "" /\ p.outcome = "" /\ p.budgetPhase = ""
      /\ p.pendingPhase = u.pendingPhase /\ p.queue = u.queue \ {a.role}
      /\ Heard(u) \subseteq Heard(p) /\ a.role \in Heard(p)
  BY ZenonT(60), <1>1, <1>2, ExpertSaidFields DEF p
<1>4. /\ u.queue # {} /\ u.after \in {"", "implementing", "verifying"}
      /\ u.after = "verifying" => Unjudged(u, h, q)
  BY <1>1, Fields DEF Orderly, ReadyToVerify, Unverified
<1>5. /\ IsFiniteSet(u.assessments) /\ IsFiniteSet(u.pending) /\ IsFiniteSet(v)
      /\ \A y \in u.assessments : y.revision = u.diff
  BY <1>1 DEF Orderly, VotesLeft
<1>6. AfterSpecializing(u, a, "approved")
        = IF p.queue = {} /\ p.pending = {} THEN t ELSE p
  BY DEF AfterSpecializing, ExpertSaid, p, t
<1>7. CASE ~(p.queue = {} /\ p.pending = {})
  <2>1. ~Headed(p, "assessing") /\ ~Headed(p, "verifying") /\ ~Headed(p, "planning")
    BY <1>3 DEF Headed
  <2>2. Judges(p, v) = {} /\ ~Judging(p, v)
    BY <1>2, <1>3, <2>1 DEF Judges, Active, Judging
  <2>3. \A b \in Active(p, v) : ~Maker(b)
    BY <1>1, <1>3 DEF Active
  <2>4. Unverified(p) => Unjudged(p, h, q)
    <3>1. SUFFICES ASSUME Unverified(p) PROVE Unjudged(p, h, q)
      OBVIOUS
    <3>2. Unjudged(u, h, q)
      BY <1>3, <1>4, <2>1, <3>1 DEF Unverified
    <3>3. Heard(u) \cup u.queue \subseteq Heard(p) \cup p.queue
      BY <1>3
    <3>4. \A phase \in {"planning", "implementing", "assessing"} : ~Headed(p, phase)
      BY <1>3 DEF Headed
    <3>q. QED BY <1>1, <1>3, <3>2, <3>3, <3>4, <2>1 DEF Unjudged, Locked
  <2>5. VotesLeft(p, v)
    BY <1>3, <1>5, <2>1, <2>2 DEF VotesLeft
  <2>6. Outside(p, v) /\ OneMaker(p, v) /\ OpenDecision(p, v, h)
    BY <1>1, <1>2, <1>3, <2>3 DEF Outside, OneMaker, OpenDecision
  <2>7. ExpertsFirst(p, v)
    BY <1>2, <1>3, <2>1, <2>2 DEF ExpertsFirst
  <2>8. Orderly(p, v, h, q)
    BY <1>3, <2>2, <2>4, <2>5, <2>6, <2>7
       DEF Orderly, FitToJudge, ReadyToVerify, ApprovedFinally, RejectedBefore
  <2>9. x \in Gated(p)
    BY <1>6, <1>7
  <2>q. QED BY <1>1, <1>3, <2>8, <2>9, GatedStay DEF Working
<1>8. CASE p.queue = {} /\ p.pending = {}
  <2>1. t \in RunState
    BY <1>1, <1>6, <1>8, AfterSpecializingType
  <2>2. /\ t.diff = u.diff /\ t.assessments = u.assessments /\ t.implementer = u.implementer
        /\ t.plan = u.plan /\ t.approvedPlan = u.approvedPlan /\ t.repair = u.repair
        /\ t.after = "" /\ t.pending = {} /\ t.stage = u.after
        /\ t.pendingDecision = "" /\ t.outcome = "" /\ t.budgetPhase = ""
        /\ t.pendingPhase = u.pendingPhase /\ t.queue = {} /\ t.reviews = p.reviews
    BY <1>3, <1>8 DEF RunState, t
  <2>3. v = {} /\ Active(t, v) = {} /\ Judges(t, v) = {} /\ ~Asking(t, v)
    <3>1. v = {}
      BY <1>1, <1>3, <1>8
    <3>2. Active(t, v) = {}
      BY <2>2, <3>1 DEF Active
    <3>q. QED BY <2>2, <3>1, <3>2 DEF Judges, Asking
  <2>4. ~Headed(t, "assessing") /\ ~Headed(t, "planning")
        /\ (Headed(t, "verifying") => u.after = "verifying")
        /\ (Headed(t, "implementing") => u.after = "implementing")
    BY <1>4, <2>2 DEF Headed
  <2>5. Orderly(t, v, h, q)
    <3>1. CASE u.after = "verifying"
      <4>1. Unjudged(u, h, q)
        BY <1>4, <3>1
      <4>2. Heard(u) \cup u.queue \subseteq Heard(t)
        BY <1>3, <1>8, <2>2 DEF Heard
      <4>3. Unjudged(t, h, q)
        BY <1>1, <2>2, <2>4, <3>1, <4>1, <4>2 DEF Unjudged, Locked
      <4>4. ~Judging(t, v)
        BY <2>3, <2>4 DEF Judging
      <4>5. VotesLeft(t, v) /\ Outside(t, v) /\ OneMaker(t, v) /\ OpenDecision(t, v, h)
        <5>1. VotesLeft(t, v)
          BY <1>5, <2>2, <2>3, <2>4, <4>4, FS_EmptySet DEF VotesLeft
        <5>2. Outside(t, v) /\ OneMaker(t, v) /\ OpenDecision(t, v, h)
          BY <1>2, <2>2, <2>3 DEF Outside, OneMaker, OpenDecision
        <5>q. QED BY <5>1, <5>2
      <4>q. QED BY <2>2, <2>3, <4>3, <4>4, <4>5
               DEF Orderly, FitToJudge, ReadyToVerify, ApprovedFinally, ExpertsFirst,
                   RejectedBefore
    <3>2. CASE u.after # "verifying"
      <4>1. InBounds(t)
        BY <2>2 DEF InBounds
      <4>2. IsFiniteSet(t.assessments) /\ IsFiniteSet(t.pending) /\ IsFiniteSet(v)
            /\ \A y \in t.assessments : y.revision = t.diff
        BY <1>5, <2>2, FS_EmptySet
      <4>q. QED BY <1>2, <2>2, <2>3, <2>4, <3>2, <4>1, <4>2, QuietOrderly
    <3>q. QED BY <3>1, <3>2
  <2>6. x \in Gated(t)
    BY <1>6, <1>8
  <2>7. t.stage # "done" /\ t.pendingPhase # "assessing" /\ t.outcome # "approved"
    BY <1>2, <1>4, <2>2
  <2>q. QED BY <1>1, <2>1, <2>5, <2>6, <2>7, GatedStay
<1>q. QED BY <1>7, <1>8

\* The vote of an assessor.
Voted(s, a, ok) ==
    [s EXCEPT !.assessments = s.assessments \cup
        {[id |-> a.id, agent |-> a.agent, revision |-> a.revision, approved |-> ok]}]

\* What recording it writes.
LEMMA VotedFields ==
  ASSUME NEW s \in RunState, NEW a \in Assignment, NEW ok \in BOOLEAN,
         IsFiniteSet(s.assessments)
  PROVE  LET t == Voted(s, a, ok)
         IN /\ t \in RunState
            /\ t.diff = s.diff /\ t.implementer = s.implementer /\ t.plan = s.plan
            /\ t.receipts = s.receipts /\ t.receiptsFor = s.receiptsFor
            /\ t.repair = s.repair /\ t.queue = s.queue /\ t.reviews = s.reviews
            /\ t.after = s.after /\ t.pendingDecision = s.pendingDecision
            /\ t.approvedPlan = s.approvedPlan /\ t.authorized = s.authorized
            /\ t.pending = s.pending /\ t.stage = s.stage /\ t.outcome = s.outcome
            /\ t.pendingPhase = s.pendingPhase /\ t.budgetPhase = s.budgetPhase
            /\ s.assessments \subseteq t.assessments
            /\ \A x \in t.assessments :
                  x \in s.assessments \/ (x.revision = a.revision /\ x.approved = ok)
            /\ \E x \in t.assessments : x.approved = ok
            /\ IsFiniteSet(t.assessments)
            /\ Cardinality(t.assessments) \in Nat
            /\ Cardinality(t.assessments) <= Cardinality(s.assessments) + 1
<1> DEFINE x == [id |-> a.id, agent |-> a.agent, revision |-> a.revision, approved |-> ok]
           t == Voted(s, a, ok)
<1>1. x \in Assessment /\ x.revision = a.revision /\ x.approved = ok
  BY DEF Assessment, Assignment
<1> HIDE DEF x
<1>2. s.assessments \cup {x} \in SUBSET Assessment
  BY <1>1, Fields
<1>3. t \in RunState
  BY <1>2, Update DEF Voted, x
<1>4. /\ t.diff = s.diff /\ t.implementer = s.implementer /\ t.plan = s.plan
      /\ t.receipts = s.receipts /\ t.receiptsFor = s.receiptsFor
      /\ t.repair = s.repair /\ t.queue = s.queue /\ t.reviews = s.reviews
      /\ t.after = s.after /\ t.pendingDecision = s.pendingDecision
      /\ t.approvedPlan = s.approvedPlan /\ t.authorized = s.authorized
      /\ t.pending = s.pending /\ t.stage = s.stage /\ t.outcome = s.outcome
      /\ t.pendingPhase = s.pendingPhase /\ t.budgetPhase = s.budgetPhase
      /\ t.assessments = s.assessments \cup {x}
  BY DEF Voted, RunState, x
<1> HIDE DEF t
<1>5. /\ IsFiniteSet(s.assessments \cup {x})
      /\ Cardinality(s.assessments) \in Nat
      /\ Cardinality(s.assessments \cup {x}) \in Nat
      /\ Cardinality(s.assessments \cup {x}) <= Cardinality(s.assessments) + 1
  <2>1. /\ IsFiniteSet(s.assessments \cup {x}) /\ Cardinality(s.assessments) \in Nat
        /\ \/ Cardinality(s.assessments \cup {x}) = Cardinality(s.assessments)
           \/ Cardinality(s.assessments \cup {x}) = Cardinality(s.assessments) + 1
    BY FS_AddElement, FS_CardinalityType
  <2>q. QED BY <2>1
<1>6. \A y \in t.assessments :
         y \in s.assessments \/ (y.revision = a.revision /\ y.approved = ok)
  BY <1>1, <1>4
<1>7. \E y \in t.assessments : y.approved = ok
  BY <1>1, <1>4
<1>q. QED BY <1>3, <1>4, <1>5, <1>6, <1>7 DEF t

\* Whoever votes stood between the votes counted and the quorum.
LEMMA VotesAdd ==
  ASSUME NEW before \in Nat, NEW now \in Nat, NEW judges \in Nat,
         now <= before + 1, before + 1 + judges <= Quorum
  PROVE  /\ now + judges <= Quorum
         /\ now >= Quorum => judges = 0
         /\ ~(now >= Quorum) => now < Quorum
BY StateConstants

\* What is known while an assessor reports.
AssessorReports(s, w, h, q, a, u) ==
    /\ Applying(s, w, h, q, a, u) /\ u.stage = "assessing" /\ a.role = Assessor

\* What such an assessor finds: the candidate is fit, and v, the others at work
\* on it, all assess it too.
Assessed(u, v, h, q, a) ==
    /\ Fit(u, h, q) /\ ~Asking(u, v) /\ a.revision = u.diff
    /\ Headed(u, "assessing")
    /\ IsFiniteSet(Judges(u, v)) /\ Cardinality(Judges(u, v)) \in Nat
    /\ IsFiniteSet(u.assessments) /\ Cardinality(u.assessments) \in Nat
    /\ Cardinality(u.assessments) + 1 + Cardinality(Judges(u, v)) <= Quorum
    /\ Active(u, v) = Judges(u, v)

\* What is so when an assessor reports.
LEMMA AssessorReportsFacts ==
  ASSUME NEW s, NEW w, NEW h, NEW q, NEW a, NEW u, AssessorReports(s, w, h, q, a, u)
  PROVE  Assessed(u, w \ {a}, h, q, a)
<1> DEFINE v == w \ {a}
<1>1. /\ s \in RunState /\ w \in SUBSET Assignment /\ h \in History /\ Orderly(s, w, h, q)
      /\ a \in Active(s, w) /\ u \in RunState /\ SameData(u, s) /\ a.role = Assessor
      /\ Orderly(u, v, h, q) /\ u.stage = "assessing" /\ Headed(s, "assessing")
      /\ u.pending = s.pending \ {a} /\ v \in SUBSET Assignment
      /\ \A b \in Active(u, v) : ~Maker(b)
  BY DEF AssessorReports, Applying
<1>2. Headed(u, "assessing") /\ Judging(u, v) /\ Judging(s, w)
  BY <1>1 DEF Headed, Judging
<1>3. Fit(u, h, q)
  BY <1>1, <1>2 DEF Orderly, FitToJudge
<1>4. ~Asking(u, v)
  BY <1>1, <1>2 DEF Orderly, ExpertsFirst
<1>5. a \in Judges(s, w)
  BY <1>1 DEF Judges
<1>6. a.revision = u.diff
  <2>1. VotesLeft(s, w)
    BY <1>1 DEF Orderly
  <2>2. a.revision = s.diff
    BY <1>5, <2>1 DEF VotesLeft
  <2>q. QED BY <1>1, <2>2 DEF SameData
<1>7. Active(u, v) = Judges(u, v)
  <2>1. \A b \in Active(u, v) : b.role \in Reviewers \cup Makers
    <3>1. Active(u, v) \subseteq Assignment
      BY <1>1, Fields DEF Active
    <3>q. QED BY <3>1 DEF Assignment
  <2>2. \A b \in Active(u, v) : b.role = Assessor
    BY <1>1, <1>4, <2>1 DEF Asking, Reviewers, Makers, Experts, Maker
  <2>q. QED BY <2>2 DEF Judges
<1>8. Judges(u, v) = Judges(s, w) \ {a}
  BY <1>1 DEF Judges, Active
<1>9. /\ IsFiniteSet(u.assessments) /\ IsFiniteSet(Judges(s, w))
      /\ Cardinality(u.assessments) + Cardinality(Judges(s, w)) <= Quorum
  <2>1. u.assessments = s.assessments /\ VotesLeft(s, w)
    BY <1>1 DEF SameData, Orderly
  <2>2. IsFiniteSet(Judges(s, w))
    BY <1>1, Finite
  <2>q. QED BY <1>2, <2>1, <2>2 DEF VotesLeft
<1>10. /\ IsFiniteSet(Judges(u, v)) /\ Cardinality(Judges(u, v)) \in Nat
       /\ Cardinality(u.assessments) \in Nat /\ Cardinality(Judges(s, w)) \in Nat
       /\ Cardinality(Judges(u, v)) = Cardinality(Judges(s, w)) - 1
  BY ZenonT(60), <1>5, <1>8, <1>9, FS_RemoveElement, FS_CardinalityType
<1>11. Quorum \in Nat
  BY StateConstants
<1>12. Cardinality(u.assessments) + 1 + Cardinality(Judges(u, v)) <= Quorum
  BY <1>9, <1>10, <1>11
<1>q. QED BY <1>2, <1>3, <1>4, <1>6, <1>7, <1>9, <1>10, <1>12 DEF Assessed

\* A vote that sends the candidate back; other assessors may still read it.
LEMMA SentBackOrderly ==
  ASSUME NEW s, NEW w, NEW h, NEW q, NEW a, NEW u, AssessorReports(s, w, h, q, a, u),
         NEW ok \in BOOLEAN, Rejected(Voted(u, a, ok)),
         NEW t \in RunState, t.stage = "implementing", t.pending = {},
         t.diff = u.diff, t.assessments = Voted(u, a, ok).assessments,
         t.receipts = u.receipts, t.receiptsFor = u.receiptsFor,
         t.queue = u.queue, t.pendingDecision = u.pendingDecision,
         t.outcome = u.outcome, t.budgetPhase = u.budgetPhase,
         t.pendingPhase = u.pendingPhase,
         NEW x \in Gated(t)
  PROVE  Orderly(x, w \ {a}, h, q)
<1> DEFINE v == w \ {a}
           c == Voted(u, a, ok)
<1>1. /\ a \in Assignment /\ u \in RunState /\ v \in SUBSET Assignment
      /\ u.pendingDecision = "" /\ u.outcome = "" /\ u.budgetPhase = ""
      /\ u.pendingPhase # "verifying" /\ v \subseteq u.pending
      /\ Orderly(u, v, h, q) /\ \A b \in Active(u, v) : ~Maker(b)
  BY DEF AssessorReports, Applying, Working
<1>2. /\ Fit(u, h, q) /\ ~Asking(u, v) /\ a.revision = u.diff
      /\ Headed(u, "assessing")
      /\ IsFiniteSet(Judges(u, v)) /\ Cardinality(Judges(u, v)) \in Nat
      /\ IsFiniteSet(u.assessments) /\ Cardinality(u.assessments) \in Nat
      /\ Cardinality(u.assessments) + 1 + Cardinality(Judges(u, v)) <= Quorum
      /\ Active(u, v) = Judges(u, v)
  <2>1. Assessed(u, v, h, q, a)
    BY AssessorReportsFacts
  <2>q. QED BY <2>1 DEF Assessed
<1>3. /\ IsFiniteSet(t.assessments) /\ Cardinality(t.assessments) \in Nat
      /\ Cardinality(t.assessments) <= Cardinality(u.assessments) + 1
      /\ \A y \in t.assessments : y \in u.assessments \/ y.revision = a.revision
  <2>1. /\ IsFiniteSet(c.assessments) /\ Cardinality(c.assessments) \in Nat
        /\ Cardinality(c.assessments) <= Cardinality(u.assessments) + 1
        /\ \A y \in c.assessments : y \in u.assessments \/ y.revision = a.revision
    BY ZenonT(60), <1>1, <1>2, VotedFields
  <2>q. QED BY <2>1
<1>4. Rejected(t)
  BY DEF Rejected
<1>5. Fit(t, h, q)
  BY <1>1, <1>2, <1>4 DEF Fit, ChecksAllowCompletion
<1>6. ~Headed(t, "assessing") /\ ~Headed(t, "verifying")
  BY <1>1 DEF Headed
<1>7. Active(t, v) \subseteq Active(u, v) /\ Judges(t, v) \subseteq Judges(u, v)
  BY DEF Active, Judges
<1>8. ~Asking(t, v) /\ t.queue = {}
  BY <1>1, <1>2, <1>7 DEF Asking
<1>9. VotesLeft(t, v)
  <2>1. IsFiniteSet(Judges(t, v)) /\ Cardinality(Judges(t, v)) \in Nat
        /\ Cardinality(Judges(t, v)) <= Cardinality(Judges(u, v))
    BY <1>2, <1>7, FS_Subset, FS_CardinalityType
  <2>2. Cardinality(t.assessments) + Cardinality(Judges(t, v)) <= Quorum
    <3>1. Quorum \in Nat
      BY StateConstants
    <3>q. QED BY <1>2, <1>3, <2>1, <3>1
  <2>3. \A y \in t.assessments : y.revision = t.diff
    BY <1>1, <1>2, <1>3 DEF Orderly, VotesLeft
  <2>4. \A b \in Judges(t, v) : b.revision = t.diff
    BY <1>1, <1>7 DEF Orderly, VotesLeft
  <2>5. IsFiniteSet(v) /\ IsFiniteSet(t.pending)
    BY <1>1, FS_EmptySet DEF Orderly, VotesLeft
  <2>q. QED BY <1>3, <1>6, <2>2, <2>3, <2>4, <2>5 DEF VotesLeft
<1>10. OneMaker(t, v) /\ OpenDecision(t, v, h) /\ Outside(t, v)
  BY <1>1, <1>7 DEF OneMaker, OpenDecision, Outside
<1>11. Orderly(t, v, h, q)
  BY <1>1, <1>4, <1>5, <1>6, <1>8, <1>9, <1>10
     DEF Orderly, FitToJudge, ReadyToVerify, Unverified, ApprovedFinally, ExpertsFirst,
         RejectedBefore
<1>q. QED BY <1>1, <1>11, GatedStay DEF Working

\* An approval that is not the last one needed.
LEMMA CountedOrderly ==
  ASSUME NEW s, NEW w, NEW h, NEW q, NEW a, NEW u, AssessorReports(s, w, h, q, a, u),
         ~QuorumMet(Voted(u, a, TRUE)), NEW x \in Gated(Voted(u, a, TRUE))
  PROVE  Orderly(x, w \ {a}, h, q)
<1> DEFINE v == w \ {a}
           t == Voted(u, a, TRUE)
<1>1. /\ a \in Assignment /\ u \in RunState /\ v \in SUBSET Assignment
      /\ u.pendingDecision = "" /\ u.outcome = "" /\ u.budgetPhase = ""
      /\ u.stage = "assessing"
      /\ u.pendingPhase # "verifying" /\ v \subseteq u.pending
      /\ Orderly(u, v, h, q) /\ \A b \in Active(u, v) : ~Maker(b)
  BY DEF AssessorReports, Applying, Working
<1>2. /\ Fit(u, h, q) /\ ~Asking(u, v) /\ a.revision = u.diff /\ Headed(u, "assessing")
      /\ IsFiniteSet(Judges(u, v)) /\ Cardinality(Judges(u, v)) \in Nat
      /\ IsFiniteSet(u.assessments) /\ Cardinality(u.assessments) \in Nat
      /\ Cardinality(u.assessments) + 1 + Cardinality(Judges(u, v)) <= Quorum
  <2>1. Assessed(u, v, h, q, a)
    BY AssessorReportsFacts
  <2>q. QED BY <2>1 DEF Assessed
<1>3. /\ t \in RunState
      /\ t.diff = u.diff /\ t.implementer = u.implementer /\ t.plan = u.plan
      /\ t.receipts = u.receipts /\ t.receiptsFor = u.receiptsFor
      /\ t.repair = u.repair /\ t.queue = u.queue /\ t.reviews = u.reviews
      /\ t.after = u.after /\ t.pendingDecision = ""
      /\ t.approvedPlan = u.approvedPlan /\ t.authorized = u.authorized
      /\ t.pending = u.pending /\ t.stage = "assessing" /\ t.outcome = ""
      /\ t.pendingPhase = u.pendingPhase /\ t.budgetPhase = ""
      /\ u.assessments \subseteq t.assessments
      /\ \A y \in t.assessments : y \in u.assessments \/ y.revision = a.revision
      /\ IsFiniteSet(t.assessments) /\ Cardinality(t.assessments) \in Nat
      /\ Cardinality(t.assessments) <= Cardinality(u.assessments) + 1
  <2>a. u \in RunState /\ a \in Assignment /\ IsFiniteSet(u.assessments) /\ TRUE \in BOOLEAN
    BY <1>1, <1>2
  <2>1. /\ t \in RunState
        /\ t.diff = u.diff /\ t.implementer = u.implementer /\ t.plan = u.plan
        /\ t.receipts = u.receipts /\ t.receiptsFor = u.receiptsFor
        /\ t.repair = u.repair /\ t.queue = u.queue /\ t.reviews = u.reviews
        /\ t.pendingDecision = u.pendingDecision
        /\ t.approvedPlan = u.approvedPlan /\ t.authorized = u.authorized
        /\ t.pendingPhase = u.pendingPhase /\ t.budgetPhase = u.budgetPhase
        /\ u.assessments \subseteq t.assessments
        /\ \A y \in t.assessments : y \in u.assessments \/ y.revision = a.revision
        /\ IsFiniteSet(t.assessments) /\ Cardinality(t.assessments) \in Nat
        /\ Cardinality(t.assessments) <= Cardinality(u.assessments) + 1
    BY ZenonT(60), <2>a, VotedFields
  <2>2. t.after = u.after /\ t.pending = u.pending /\ t.stage = u.stage /\ t.outcome = u.outcome
    BY <2>a, VotedFields
  <2>q. QED BY <1>1, <2>1, <2>2
<1>4. Cardinality(t.assessments) < Quorum
  <2>1. ~(Cardinality(t.assessments) >= Quorum)
    BY DEF QuorumMet
  <2>q. QED BY <1>2, <1>3, <2>1, VotesAdd
<1> HIDE DEF t
<1>5. Rejected(u) => Rejected(t)
  BY <1>3 DEF Rejected
<1>6. Fit(t, h, q)
  BY <1>2, <1>3, <1>5 DEF Fit, ChecksAllowCompletion, Heard, Locked
<1>7. \A phase \in {"planning", "implementing", "verifying"} : ~Headed(t, phase)
  BY <1>3 DEF Headed
<1>8. Active(t, v) = Active(u, v) /\ Judges(t, v) = Judges(u, v)
  BY <1>3 DEF Active, Judges
<1>9. ~Asking(t, v) /\ t.queue = {}
  BY <1>2, <1>3, <1>8 DEF Asking
<1>10. VotesLeft(t, v)
  <2>2. Cardinality(t.assessments) + Cardinality(Judges(t, v)) <= Quorum
    BY <1>2, <1>3, <1>8, VotesAdd
  <2>3. \A y \in t.assessments : y.revision = t.diff
    BY <1>1, <1>2, <1>3 DEF Orderly, VotesLeft
  <2>4. \A b \in Judges(t, v) : b.revision = t.diff
    BY <1>1, <1>3, <1>8 DEF Orderly, VotesLeft
  <2>5. IsFiniteSet(v) /\ IsFiniteSet(t.pending)
    BY <1>1, <1>3 DEF Orderly, VotesLeft
  <2>q. QED BY <1>3, <1>4, <2>2, <2>3, <2>4, <2>5 DEF VotesLeft
<1>11. OneMaker(t, v) /\ OpenDecision(t, v, h) /\ Outside(t, v)
  BY <1>1, <1>3, <1>8 DEF OneMaker, OpenDecision, Outside
<1>12. RejectedBefore(t, v)
  <2>1. RejectedBefore(u, v) /\ Judging(u, v)
    BY <1>1, <1>2 DEF Orderly, Judging
  <2>q. QED BY <1>1, <1>3, <1>5, <1>7, <1>8, <2>1 DEF RejectedBefore
<1>13. Orderly(t, v, h, q)
  BY <1>3, <1>6, <1>7, <1>9, <1>10, <1>11, <1>12
     DEF Orderly, FitToJudge, ReadyToVerify, Unverified, ApprovedFinally, ExpertsFirst
<1>q. QED BY <1>1, <1>3, <1>13, GatedStay DEF Working, t

\* The last approval: nobody else is at work on the candidate, which is fit.
LEMMA ApprovalOrderly ==
  ASSUME NEW s, NEW w, NEW h, NEW q, NEW a, NEW u, AssessorReports(s, w, h, q, a, u),
         QuorumMet(Voted(u, a, TRUE)), ~Rejected(Voted(u, a, TRUE)),
         NEW x \in Gated([Voted(u, a, TRUE) EXCEPT !.stage = "done", !.outcome = "approved",
                                                   !.pending = {}])
  PROVE  Orderly(x, w \ {a}, h, q)
<1> DEFINE v == w \ {a}
           c == Voted(u, a, TRUE)
           t == [c EXCEPT !.stage = "done", !.outcome = "approved", !.pending = {}]
<1> HIDE DEF t
<1>1. /\ a \in Assignment /\ u \in RunState /\ v \in SUBSET Assignment
      /\ u.pendingDecision = "" /\ u.outcome = "" /\ u.budgetPhase = ""
      /\ u.pendingPhase # "verifying" /\ v \subseteq u.pending
      /\ Orderly(u, v, h, q)
  BY DEF AssessorReports, Applying, Working
<1>2. /\ Fit(u, h, q) /\ ~Asking(u, v) /\ a.revision = u.diff
      /\ IsFiniteSet(Judges(u, v)) /\ Cardinality(Judges(u, v)) \in Nat
      /\ IsFiniteSet(u.assessments) /\ Cardinality(u.assessments) \in Nat
      /\ Cardinality(u.assessments) + 1 + Cardinality(Judges(u, v)) <= Quorum
      /\ Active(u, v) = Judges(u, v)
  <2>1. Assessed(u, v, h, q, a)
    BY AssessorReportsFacts
  <2>q. QED BY <2>1 DEF Assessed
<1>3. /\ c \in RunState
      /\ c.diff = u.diff /\ c.implementer = u.implementer /\ c.plan = u.plan
      /\ c.receipts = u.receipts /\ c.receiptsFor = u.receiptsFor
      /\ c.repair = u.repair /\ c.queue = u.queue /\ c.reviews = u.reviews
      /\ c.pendingDecision = ""
      /\ c.approvedPlan = u.approvedPlan /\ c.authorized = u.authorized
      /\ c.pendingPhase = u.pendingPhase /\ c.budgetPhase = ""
      /\ u.assessments \subseteq c.assessments
      /\ \A y \in c.assessments : y \in u.assessments \/ y.revision = a.revision
      /\ IsFiniteSet(c.assessments) /\ Cardinality(c.assessments) \in Nat
      /\ Cardinality(c.assessments) <= Cardinality(u.assessments) + 1
  <2>1. u \in RunState /\ a \in Assignment /\ TRUE \in BOOLEAN /\ IsFiniteSet(u.assessments)
    BY <1>1, <1>2
  <2>2. /\ c \in RunState
        /\ c.diff = u.diff /\ c.implementer = u.implementer /\ c.plan = u.plan
        /\ c.receipts = u.receipts /\ c.receiptsFor = u.receiptsFor
        /\ c.repair = u.repair /\ c.queue = u.queue /\ c.reviews = u.reviews
    BY ZenonT(60), <2>1, VotedFields
  <2>3. /\ c.pendingDecision = u.pendingDecision
        /\ c.approvedPlan = u.approvedPlan /\ c.authorized = u.authorized
        /\ c.pendingPhase = u.pendingPhase /\ c.budgetPhase = u.budgetPhase
    BY <2>1, VotedFields
  <2>4. /\ u.assessments \subseteq c.assessments
        /\ \A y \in c.assessments : y \in u.assessments \/ y.revision = a.revision
        /\ IsFiniteSet(c.assessments) /\ Cardinality(c.assessments) \in Nat
        /\ Cardinality(c.assessments) <= Cardinality(u.assessments) + 1
    BY <2>1, VotedFields
  <2> HIDE DEF c
  <2>q. QED BY <1>1, <2>2, <2>3, <2>4
<1>4. Active(u, v) = {}
  <2>1. Cardinality(c.assessments) >= Quorum
    BY DEF QuorumMet
  <2>3. Cardinality(Judges(u, v)) = 0
    BY <1>2, <1>3, <2>1, VotesAdd
  <2>q. QED BY <1>2, <2>3, FS_EmptySet
<1>5. ~Rejected(c) /\ ~Rejected(u)
  BY <1>3 DEF Rejected
<1> HIDE DEF c
<1>6. /\ t.diff = u.diff /\ t.implementer = u.implementer /\ t.plan = u.plan
      /\ t.receipts = u.receipts /\ t.receiptsFor = u.receiptsFor
      /\ t.repair = u.repair /\ t.queue = u.queue /\ t.reviews = u.reviews
      /\ t.pendingDecision = ""
      /\ t.approvedPlan = u.approvedPlan /\ t.authorized = u.authorized
      /\ t.pendingPhase = u.pendingPhase /\ t.budgetPhase = ""
      /\ t.stage = "done" /\ t.outcome = "approved" /\ t.pending = {}
      /\ t.assessments = c.assessments
  BY <1>3 DEF RunState, t
<1>7. Fit(t, h, q)
  BY <1>2, <1>5, <1>6 DEF Fit, ChecksAllowCompletion, Heard, Locked
<1>8. \A phase \in {"planning", "implementing", "verifying", "assessing"} : ~Headed(t, phase)
  BY <1>6 DEF Headed
<1>9. /\ v = {} /\ Active(t, v) = {} /\ Judges(t, v) = {} /\ ~Judging(t, v)
      /\ ~Asking(t, v) /\ t.queue = {}
  <2>1. v = {} /\ Active(t, v) = {}
    BY <1>4, <1>6 DEF Active
  <2>2. Judges(t, v) = {}
    BY <2>1 DEF Judges
  <2>q. QED BY <1>2, <1>6, <1>8, <2>1, <2>2 DEF Judging, Asking
<1>10. VotesLeft(t, v)
  <2>1. \A y \in t.assessments : y.revision = t.diff
    BY <1>1, <1>2, <1>3, <1>6 DEF Orderly, VotesLeft
  <2>q. QED BY <1>3, <1>6, <1>8, <1>9, <2>1, FS_EmptySet DEF VotesLeft
<1>11. OneMaker(t, v) /\ OpenDecision(t, v, h) /\ Outside(t, v)
  BY <1>1, <1>6, <1>9 DEF OneMaker, OpenDecision, Outside
<1>12. Orderly(t, v, h, q)
  BY <1>6, <1>7, <1>8, <1>9, <1>10, <1>11
     DEF Orderly, FitToJudge, ReadyToVerify, Unverified, ApprovedFinally, ExpertsFirst,
         RejectedBefore
<1>13. x \in Gated(t) /\ t.stage \in {"paused", "done"}
  BY <1>6 DEF t, c
<1>14. x = t
  BY <1>13, GatedPause
<1>q. QED BY <1>12, <1>14

\* An assessment keeps the order, whatever it says.
LEMMA AssessedOrderly ==
  ASSUME NEW s, NEW w, NEW h, NEW q, NEW a, NEW u, AssessorReports(s, w, h, q, a, u),
         NEW outcome \in {"approved", "changes-required"},
         outcome = "changes-required" => a.revision \in Candidates \cup {None},
         NEW x \in Gated(AfterAssessing(u, a, outcome))
  PROVE  Orderly(x, w \ {a}, h, q)
<1> DEFINE c == Voted(u, a, TRUE)
           d == Voted(u, a, FALSE)
           t == AfterAssessing(u, a, outcome)
<1>1. a \in Assignment /\ u \in RunState /\ Orderly(u, w \ {a}, h, q)
  BY DEF AssessorReports, Applying
<1>2. Fit(u, h, q) /\ IsFiniteSet(u.assessments) /\ a.revision = u.diff
  <2>1. Assessed(u, w \ {a}, h, q, a)
    BY AssessorReportsFacts
  <2>q. QED BY <2>1 DEF Assessed
<1>3. t \in RunState
  BY <1>1, AfterAssessingType
<1>4. CASE outcome = "changes-required"
  <2>1. t = [d EXCEPT !.repair = a.revision, !.stage = "implementing", !.pending = {}]
    BY <1>4 DEF AfterAssessing, Voted
  <2>2. /\ d \in RunState /\ d.diff = u.diff
        /\ d.receipts = u.receipts /\ d.receiptsFor = u.receiptsFor
        /\ d.queue = u.queue /\ d.pendingDecision = u.pendingDecision
        /\ d.outcome = u.outcome /\ d.budgetPhase = u.budgetPhase
        /\ d.pendingPhase = u.pendingPhase
    BY ZenonT(60), <1>1, <1>2, VotedFields
  <2>a. \E y \in d.assessments : y.approved = FALSE
    BY <1>1, <1>2, VotedFields
  <2>3. Rejected(d)
    BY <2>a DEF Rejected
  <2> HIDE DEF d, t
  <2>4. /\ t.stage = "implementing" /\ t.pending = {}
        /\ t.diff = u.diff /\ t.assessments = d.assessments
        /\ t.receipts = u.receipts /\ t.receiptsFor = u.receiptsFor
        /\ t.queue = u.queue /\ t.pendingDecision = u.pendingDecision
        /\ t.outcome = u.outcome /\ t.budgetPhase = u.budgetPhase
        /\ t.pendingPhase = u.pendingPhase
    BY <2>1, <2>2 DEF RunState
  <2>5. x \in Gated(t)
    BY DEF t
  <2>q. QED BY <1>3, <2>3, <2>4, <2>5, SentBackOrderly DEF d
<1>5. CASE outcome = "approved"
  <2>1. ChecksAllowCompletion(u)
    BY <1>2 DEF Fit
  <2>2. t = IF ~QuorumMet(c) THEN c
            ELSE IF \E y \in c.assessments : ~y.approved \/ y.revision # u.diff
                 THEN [c EXCEPT !.stage = "implementing", !.pending = {}]
                 ELSE [c EXCEPT !.stage = "done", !.outcome = "approved", !.pending = {}]
    BY <1>5, <2>1 DEF AfterAssessing, Voted
  <2>3. /\ c \in RunState /\ c.diff = u.diff
        /\ c.receipts = u.receipts /\ c.receiptsFor = u.receiptsFor
        /\ c.queue = u.queue /\ c.pendingDecision = u.pendingDecision
        /\ c.outcome = u.outcome /\ c.budgetPhase = u.budgetPhase
        /\ c.pendingPhase = u.pendingPhase
    BY ZenonT(60), <1>1, <1>2, VotedFields
  <2>a. \A y \in c.assessments : y \in u.assessments \/ y.revision = a.revision
    BY <1>1, <1>2, VotedFields
  <2>4. (\E y \in c.assessments : ~y.approved \/ y.revision # u.diff) <=> Rejected(c)
    BY <1>1, <1>2, <2>a DEF Rejected, Orderly, VotesLeft
  <2>5. x \in Gated(t)
    OBVIOUS
  <2> HIDE DEF c, t
  <2>6. CASE ~QuorumMet(c)
    <3>1. x \in Gated(c)
      BY <2>2, <2>5, <2>6
    <3>q. QED BY <2>6, <3>1, CountedOrderly DEF c
  <2>7. CASE QuorumMet(c) /\ Rejected(c)
    <3>1. t = [c EXCEPT !.stage = "implementing", !.pending = {}]
      BY <2>2, <2>4, <2>7
    <3>2. /\ t.stage = "implementing" /\ t.pending = {}
          /\ t.diff = u.diff /\ t.assessments = c.assessments
          /\ t.receipts = u.receipts /\ t.receiptsFor = u.receiptsFor
          /\ t.queue = u.queue /\ t.pendingDecision = u.pendingDecision
          /\ t.outcome = u.outcome /\ t.budgetPhase = u.budgetPhase
          /\ t.pendingPhase = u.pendingPhase
      BY <2>3, <3>1 DEF RunState
    <3>q. QED BY <1>3, <2>5, <2>7, <3>2, SentBackOrderly DEF c
  <2>8. CASE QuorumMet(c) /\ ~Rejected(c)
    <3>1. t = [c EXCEPT !.stage = "done", !.outcome = "approved", !.pending = {}]
      BY <2>2, <2>4, <2>8
    <3>q. QED BY <2>5, <2>8, <3>1, ApprovalOrderly DEF c
  <2>q. QED BY <2>6, <2>7, <2>8
<1>q. QED BY <1>4, <1>5

\* The result State.apply computes, by outcome and phase.
LEMMA ApplyForms ==
  ASSUME NEW s \in RunState, NEW a \in Assignment, NEW outcome, NEW revision,
         Accepts(s, a, outcome)
  PROVE  LET t == Taken(s, a)
             u == Settled(t)
             x == Apply(s, a, outcome, revision)
         IN \/ outcome = "handoff" /\ x = AfterHandoff(t, a)
            \/ outcome = "timed-out" /\ x = Pause(u, "invocation-timeout")
            \/ outcome = "run-time-exhausted" /\ x = Pause(u, "budget-exhausted")
            \/ /\ outcome \in {"invocation-failed", "auth-failed"}
               /\ x = AfterExclusion(u, a, outcome)
            \/ /\ u.stage = "planning" /\ outcome \in {"answer", "planned", "failed"}
               /\ x = AfterPlanning(u, outcome, revision)
            \/ /\ u.stage = "implementing" /\ outcome \in {"answer", "changed", "failed"}
               /\ x = AfterImplementing(u, a, outcome, revision)
            \/ /\ u.stage = "assessing"
               /\ outcome \in {"approved", "changes-required", "failed"}
               /\ x = AfterAssessing(u, a, outcome)
            \/ /\ u.stage = "specializing"
               /\ outcome \in {"approved", "changes-required", "failed"}
               /\ outcome # "failed" => a.role \in u.queue
               /\ x = AfterSpecializing(u, a, outcome)
<1> DEFINE t == Taken(s, a)
           u == Settled(t)
<1>0. t \in RunState
  BY TakenType
<1>1. t.queue = s.queue
  BY DEF Taken, RunState
<1> HIDE DEF t
<1>2. u.stage = t.stage /\ u.queue = t.queue
  BY <1>0 DEF Settled, RunState
<1> HIDE DEF u
<1>3. CASE outcome \in {"handoff", "timed-out", "run-time-exhausted", "invocation-failed",
                       "auth-failed"}
  BY <1>3 DEF Apply, t, u
<1>4. CASE outcome \notin {"handoff", "timed-out", "run-time-exhausted", "invocation-failed",
                          "auth-failed"}
  <2>1. \/ u.stage = "planning"     /\ outcome \in {"answer", "planned", "failed"}
        \/ u.stage = "implementing" /\ outcome \in {"answer", "changed", "failed"}
        \/ u.stage = "assessing"    /\ outcome \in {"approved", "changes-required", "failed"}
        \/ u.stage = "specializing" /\ outcome \in {"approved", "changes-required", "failed"}
           /\ (outcome # "failed" => a.role \in u.queue)
    BY <1>1, <1>2, <1>4 DEF Accepts, t
  <2>q. QED BY <1>4, <2>1 DEF Apply, t, u
<1>q. QED BY <1>3, <1>4

\* Who may say what (the worker contract of each role).
LEMMA SaidBy ==
  ASSUME NEW a \in Assignment
  PROVE  /\ "planned" \in WorkerOutcomes(a.role) => a.role = Planner
         /\ "changed" \in WorkerOutcomes(a.role) => a.role = Implementer
         /\ {"approved", "changes-required"} \cap WorkerOutcomes(a.role) # {} => ~Maker(a)
BY DEF WorkerOutcomes, PlanExperts, Planner, Implementer, Assessor, Maker

\* A result that brings neither a plan nor a candidate leaves the run in order.
LEMMA PlainResultOrderly ==
  ASSUME NEW s \in RunState, NEW w \in SUBSET Assignment, NEW h \in History, NEW q,
         Orderly(s, w, h, q), NEW a \in s.pending \cap w,
         NEW outcome \in WorkerOutcomes(a.role), NEW revision,
         Accepts(s, a, outcome), outcome # "planned",
         outcome = "changed" => revision = s.diff,
         NEW y \in IF outcome \in {"invocation-failed", "auth-failed"}
                   THEN Rerouted(Apply(s, a, outcome, revision))
                   ELSE {Apply(s, a, outcome, revision)},
         NEW x \in Gated(y)
  PROVE  Orderly(x, w \ {a}, h, q)
<1> DEFINE t == Taken(s, a)
           u == Settled(t)
           z == Apply(s, a, outcome, revision)
           v == w \ {a}
<1>1. Applying(s, w, h, q, a, u)
  BY ApplyingFacts
<1>2. /\ a \in Assignment /\ a \in Active(s, w) /\ u \in RunState
      /\ u.stage \in Working => u.outcome = ""
      /\ Moves(u, v, s, w) /\ Backed(u, s, w) /\ Headed(s, u.stage) /\ u.diff = s.diff
  BY <1>1 DEF Applying, SameData
<1>3. \/ outcome = "handoff" /\ z = AfterHandoff(t, a)
      \/ outcome = "timed-out" /\ z = Pause(u, "invocation-timeout")
      \/ outcome = "run-time-exhausted" /\ z = Pause(u, "budget-exhausted")
      \/ /\ outcome \in {"invocation-failed", "auth-failed"}
         /\ z = AfterExclusion(u, a, outcome)
      \/ /\ u.stage = "planning" /\ outcome \in {"answer", "planned", "failed"}
         /\ z = AfterPlanning(u, outcome, revision)
      \/ /\ u.stage = "implementing" /\ outcome \in {"answer", "changed", "failed"}
         /\ z = AfterImplementing(u, a, outcome, revision)
      \/ /\ u.stage = "assessing"
         /\ outcome \in {"approved", "changes-required", "failed"}
         /\ z = AfterAssessing(u, a, outcome)
      \/ /\ u.stage = "specializing"
         /\ outcome \in {"approved", "changes-required", "failed"}
         /\ outcome # "failed" => a.role \in u.queue
         /\ z = AfterSpecializing(u, a, outcome)
  BY ZenonT(60), <1>2, ApplyForms
<1>4. /\ \A e \in Gated(AfterHandoff(t, a)) : Orderly(e, v, h, q)
      /\ \A e \in Gated(Pause(u, "invocation-timeout")) : Orderly(e, v, h, q)
      /\ \A e \in Gated(Pause(u, "budget-exhausted")) : Orderly(e, v, h, q)
      /\ \A f \in Rerouted(AfterExclusion(u, a, outcome)) :
            \A e \in Gated(f) : Orderly(e, v, h, q)
  BY CutShortOrderly
<1> HIDE DEF t, u, z
<1>5. outcome \notin {"invocation-failed", "auth-failed"} => y = z
  BY DEF z
<1>6. CASE outcome \in {"handoff", "timed-out", "run-time-exhausted"}
  <2>1. \/ z = AfterHandoff(t, a)
        \/ z = Pause(u, "invocation-timeout")
        \/ z = Pause(u, "budget-exhausted")
    BY <1>3, <1>6
  <2>q. QED BY <1>4, <1>5, <1>6, <2>1
<1>7. CASE outcome \in {"invocation-failed", "auth-failed"}
  <2>1. z = AfterExclusion(u, a, outcome)
    BY <1>3, <1>7
  <2>2. y \in Rerouted(z)
    BY <1>7 DEF z
  <2>q. QED BY <1>4, <2>1, <2>2
<1>8. CASE u.stage = "planning" /\ outcome \in {"answer", "failed"}
           /\ z = AfterPlanning(u, outcome, revision)
  <2>1. u.stage \in Working
    BY <1>8 DEF Working
  <2>2. CASE outcome = "answer"
    <3>1. x \in Gated([u EXCEPT !.stage = "done", !.outcome = "answer"])
      BY <1>5, <1>8, <2>2 DEF AfterPlanning
    <3>q. QED BY <1>1, <2>1, <3>1, StoppedOrderly
  <2>3. CASE outcome = "failed"
    <3>1. x \in Gated([u EXCEPT !.stage = "paused", !.outcome = "planner-failed"])
      BY <1>5, <1>8, <2>3 DEF AfterPlanning
    <3>q. QED BY <1>1, <1>8, <2>1, <3>1, StoppedOrderly
  <2>q. QED BY <1>8, <2>2, <2>3
<1>9. CASE u.stage = "implementing" /\ outcome \in {"answer", "changed", "failed"}
           /\ z = AfterImplementing(u, a, outcome, revision)
  <2>1. u.stage \in Working
    BY <1>9 DEF Working
  <2>2. CASE outcome = "answer" /\ u.diff = None
    <3>1. x \in Gated([u EXCEPT !.stage = "done", !.outcome = "answer"])
      BY <1>5, <1>9, <2>2 DEF AfterImplementing
    <3>q. QED BY <1>1, <2>1, <3>1, StoppedOrderly
  <2>3. CASE outcome = "failed"
    <3>1. x \in Gated([u EXCEPT !.stage = "paused", !.outcome = "implementer-failed"])
      BY <1>5, <1>9, <2>3 DEF AfterImplementing
    <3>q. QED BY <1>1, <1>9, <2>1, <3>1, StoppedOrderly
  <2>4. CASE (outcome = "answer" /\ u.diff # None) \/ outcome = "changed"
    <3>1. z = NoProgress(u)
      BY <1>2, <1>9, <2>4 DEF AfterImplementing
    <3>2. x \in Gated(NoProgress(u))
      BY <1>5, <2>4, <3>1
    <3>q. QED BY <1>1, <1>9, <3>2, NoProgressOrderly
  <2>q. QED BY <1>9, <2>2, <2>3, <2>4
<1>10. CASE u.stage = "assessing" /\ outcome \in {"approved", "changes-required", "failed"}
            /\ z = AfterAssessing(u, a, outcome)
  <2>1. x \in Gated(z)
    BY <1>5, <1>10
  <2>2. CASE outcome = "failed"
    <3>1. z = u
      BY <1>10, <2>2 DEF AfterAssessing
    <3>q. QED BY <1>2, <2>1, <3>1, GatedOrderly
  <2>3. CASE outcome \in {"approved", "changes-required"}
    <3>1. ~Maker(a)
      BY <1>2, <2>3, SaidBy
    <3>2. Headed(s, "assessing")
      BY <1>2, <1>10
    <3>3. a.role = Assessor
      BY <1>2, <3>1, <3>2, AtWorkFacts
    <3>4. AssessorReports(s, w, h, q, a, u)
      BY <1>1, <1>10, <3>3 DEF AssessorReports
    <3>5. outcome = "changes-required" => a.revision \in Candidates \cup {None}
      BY <1>2, ReviewerRevision
    <3>6. x \in Gated(AfterAssessing(u, a, outcome))
      BY <1>10, <2>1
    <3>q. QED BY <2>3, <3>4, <3>5, <3>6, AssessedOrderly
  <2>q. QED BY <1>10, <2>2, <2>3
<1>11. CASE u.stage = "specializing" /\ outcome \in {"approved", "changes-required", "failed"}
            /\ (outcome # "failed" => a.role \in u.queue)
            /\ z = AfterSpecializing(u, a, outcome)
  <2>1. x \in Gated(z)
    BY <1>5, <1>11
  <2>2. CASE outcome = "failed"
    <3>1. z = Pause(u, "expert-failed")
      BY <1>11, <2>2 DEF AfterSpecializing
    <3>2. "expert-failed" \in PlainReasons /\ Grounded(u, v, "expert-failed")
      BY PlainNames DEF Grounded
    <3>3. x \in Gated(Pause(u, "expert-failed"))
      BY <2>1, <3>1
    <3>q. QED BY <1>1, <3>2, <3>3, PausedOrderly
  <2>3. CASE outcome = "changes-required"
    <3>1. ExpertReports(s, w, h, q, a, u)
      BY <1>1, <1>11, <2>3 DEF ExpertReports
    <3>2. x \in Gated(AfterSpecializing(u, a, "changes-required"))
      BY <1>11, <2>1, <2>3
    <3>q. QED BY <2>3, <3>1, <3>2, ExpertRejects
  <2>4. CASE outcome = "approved"
    <3>1. ExpertReports(s, w, h, q, a, u)
      BY <1>1, <1>11, <2>4 DEF ExpertReports
    <3>2. x \in Gated(AfterSpecializing(u, a, "approved"))
      BY <1>11, <2>1, <2>4
    <3>q. QED BY <2>4, <3>1, <3>2, ExpertApproves
  <2>q. QED BY <1>11, <2>2, <2>3, <2>4
<1>q. QED BY <1>3, <1>6, <1>7, <1>8, <1>9, <1>10, <1>11

\* A result that is recorded leaves the run in order, also when the driver dies
\* while it records it (sdlcRecordResultLocked).
LEMMA AcceptedOrderly ==
  ASSUME run \in RunState, running \in SUBSET Assignment, hist \in History,
         Orderly(run, running, hist, patch),
         NEW a \in running, NEW outcome \in WorkerOutcomes(a.role),
         NEW revision \in ResultRevisions(a, outcome),
         Accepts(run, a, outcome), Accepted(a, outcome, revision)
  PROVE  Orderly(run', running \ {a}, hist', patch')
<1> DEFINE t == Taken(run, a)
           u == Settled(t)
           applied == Apply(run, a, outcome, revision)
           v == running \ {a}
<1>1. a \in run.pending \cap running /\ a \in Assignment
  BY DEF Accepts
<1>2. Applying(run, running, hist, patch, a, u)
  BY <1>1, ApplyingFacts
<1>3. u.diff = run.diff /\ u \in RunState
  BY <1>2 DEF Applying, SameData
<1> HIDE DEF t, u
<1>4. CASE outcome = "planned"
  <2>1. a.role = Planner /\ Maker(a)
    BY <1>1, <1>4, SaidBy DEF Maker
  <2>2. u.stage = "planning" /\ applied = AfterPlanning(u, "planned", revision)
    BY <1>1, <1>4, ApplyForms DEF t, u
  <2>3. revision \in Plans
    BY <1>4 DEF ResultRevisions
  <2>4. v = {}
    BY <1>2, <2>1, MakerAlone
  <2> DEFINE o == Opened(Planned(u, revision), "plan")
  <2>5. Deciding(o, hist, patch)
    BY <1>2, <2>1, <2>2, <2>3, PlannedDeciding
  <2>6. patch' = patch /\ \/ Decide(o, "plan", hist)
                          \/ run' = o /\ hist' = hist
                          \/ UNCHANGED <<run, hist>>
    <3>1. o = [[applied EXCEPT !.approvedPlan = None, !.authorized = None]
                 EXCEPT !.pendingDecision = "plan",
                        !.pendingPhase = [applied EXCEPT !.approvedPlan = None,
                                                         !.authorized = None].stage]
      BY <2>2 DEF Opened, Planned
    <3> HIDE DEF o
    <3>q. QED BY <1>4, <3>1 DEF Accepted
  <2>7. o.pendingDecision = "plan"
    <3>1. Planned(u, revision) \in RunState
      <4>1. AfterPlanning(u, "planned", revision) \in RunState
        BY <1>3, <2>3, AfterPlanningType
      <4>q. QED BY <4>1, Update DEF Planned
    <3>q. QED BY <3>1, OpenedFields
  <2> HIDE DEF o
  <2>8. CASE Decide(o, "plan", hist)
    BY <2>4, <2>5, <2>6, <2>7, <2>8, DecideOrderly
  <2>9. CASE run' = o /\ hist' = hist
    BY <2>4, <2>5, <2>6, <2>9 DEF Deciding
  <2>10. CASE UNCHANGED <<run, hist>>
    <3>1. Orderly(run, {}, hist, patch)
      BY <1>2, <2>1, AheadOrderly
    <3>q. QED BY <2>4, <2>6, <2>10, <3>1
  <2>q. QED BY <2>6, <2>8, <2>9, <2>10
<1>5. CASE outcome = "changed" /\ revision # run.diff
  <2>1. a.role = Implementer /\ Maker(a)
    BY <1>1, <1>5, SaidBy DEF Maker
  <2>2. u.stage = "implementing"
        /\ applied = AfterImplementing(u, a, "changed", revision)
    BY SMTT(30), <1>1, <1>5, ApplyForms DEF t, u
  <2>3. revision \in Candidates
    BY <1>5 DEF ResultRevisions
  <2>4. v = {}
    BY <1>2, <2>1, MakerAlone
  <2> DEFINE o == Opened(Changed(u, a, revision), "diff")
  <2>5. Deciding(o, Unseen, revision)
    BY <1>2, <2>1, <2>2, <2>3, ChangedDeciding
  <2>6. applied = Changed(u, a, revision)
    BY <1>3, <1>5, <2>2 DEF AfterImplementing, Changed
  <2>a. applied \in RunState
    BY <1>1, <1>3, <2>2, <2>3, AfterImplementingType
  <2>b. applied.diff = revision
    <3>1. Invalidate(u) \in RunState
      BY <1>3, InvalidateType
    <3> HIDE DEF applied
    <3>q. QED BY <2>6, <3>1 DEF Changed, RunState
  <2>7. patch' = revision /\ \/ Decide(o, "diff", Unseen)
                             \/ run' = o /\ hist' = Unseen
                             \/ UNCHANGED <<run, hist>>
    <3>1. o = [applied EXCEPT !.pendingDecision = "diff", !.pendingPhase = applied.stage]
      BY <2>6 DEF Opened
    <3> HIDE DEF o
    <3>q. QED BY <1>5, <2>b, <3>1 DEF Accepted
  <2>8. o.pendingDecision = "diff"
    BY <2>6, <2>a, OpenedFields
  <2> HIDE DEF o
  <2>9. CASE Decide(o, "diff", Unseen)
    BY <2>4, <2>5, <2>7, <2>8, <2>9, DecideOrderly
  <2>10. CASE run' = o /\ hist' = Unseen
    BY <2>4, <2>5, <2>7, <2>10 DEF Deciding
  <2>11. CASE UNCHANGED <<run, hist>>
    <3>1. Orderly(run, {}, hist, revision)
      BY <1>2, <2>1, <2>2, AheadOrderly
    <3>q. QED BY <2>4, <2>7, <2>11, <3>1
  <2>q. QED BY <2>7, <2>9, <2>10, <2>11
<1>6. CASE outcome # "planned" /\ (outcome = "changed" => revision = run.diff)
  <2>1. outcome = "changed" => applied.diff = run.diff
    <3>1. SUFFICES ASSUME outcome = "changed" PROVE applied.diff = run.diff
      OBVIOUS
    <3>2. applied = AfterImplementing(u, a, "changed", revision)
      BY <1>1, <3>1, ApplyForms DEF t, u
    <3>3. applied = NoProgress(u)
      BY <1>3, <1>6, <3>1, <3>2 DEF AfterImplementing
    <3>4. NoProgress(u).diff = u.diff
      BY <1>3 DEF NoProgress, Pause, RunState
    <3>q. QED BY <1>3, <3>3, <3>4
  <2>2. PICK y \in IF outcome \in {"invocation-failed", "auth-failed"}
                   THEN Rerouted(applied) ELSE {applied} :
          run' \in Gated(y) /\ UNCHANGED <<patch, hist>>
    <3> HIDE DEF applied
    <3>q. QED BY <1>6, <2>1 DEF Accepted, applied
  <2>q. QED BY <1>1, <1>6, <2>2, PlainResultOrderly
<1>q. QED BY <1>4, <1>5, <1>6

-----------------------------------------------------------------------------
(***************************************************************************)
(* The steps of invocations                                                *)
(***************************************************************************)

\* Invocations that are lost, or whose result is ignored, leave the run in order.
LEMMA LostOrderly ==
  ASSUME NEW s \in RunState, NEW w \in SUBSET Assignment, NEW h, NEW q,
         Orderly(s, w, h, q), NEW v \in SUBSET w
  PROVE  Orderly(s, v, h, q)
<1>1. CASE s.outcome = "approved"
  <2>1. w = {} /\ v = {}
    BY <1>1 DEF Orderly, ApprovedFinally, Active
  <2>q. QED BY <2>1
<1>2. CASE s.outcome # "approved"
  <2>1. Alike(s, [s EXCEPT !.pending = s.pending])
    BY DEF Alike, SameData, RunState
  <2>2. v \subseteq s.pending \/ s.pending = {}
    BY DEF Orderly, Outside
  <2>3. Moves(s, v, s, w)
    BY <1>2, <2>1, <2>2, StayMoves
  <2>q. QED BY <2>3, MovesOrderly
<1>q. QED BY <1>1, <1>2

\* The pause on a failed invocation keeps the order (sdlcFailAssignment).
LEMMA FailedOrderly ==
  ASSUME NEW s \in RunState, NEW w \in SUBSET Assignment, NEW h, NEW q,
         Orderly(s, w, h, q), NEW a \in w
  PROVE  Orderly(Pause(s, FailedOutcome(a.role)), w \ {a}, h, q)
<1>1. a \in Active(s, w)
  BY DEF Active
<1>2. Grounded(s, w, FailedOutcome(a.role))
  BY <1>1, FailureGrounded
<1>3. FailedOutcome(a.role) \in PlainReasons
  BY PlainNames
<1>q. QED BY <1>2, <1>3, StrayOrderly

\* A security review of a worker's tool output keeps the order
\* (sdlcPauseInjectionReview).
LEMMA InjectionOrderly ==
  ASSUME NEW s \in RunState, NEW w \in SUBSET Assignment, NEW h, NEW q,
         Orderly(s, w, h, q), NEW a \in w,
         NEW p \in Stages, p = IF s.stage = "paused" THEN s.pendingPhase ELSE s.stage
  PROVE  Orderly(Pause([s EXCEPT !.pendingPhase = p], "injection-review-required"),
                 w \ {a}, h, q)
<1> DEFINE o == [s EXCEPT !.pendingPhase = p]
           t == Pause(o, "injection-review-required")
<1>1. o \in RunState
  BY Update
<1>2. /\ SameData(o, s) /\ o.budgetPhase = s.budgetPhase /\ o.pendingPhase = p
      /\ o.retryPhase = s.retryPhase
  BY DEF RunState, SameData
<1>3. /\ "injection-review-required" \in Outcomes
      /\ "injection-review-required" # "budget-exhausted"
  BY DEF Outcomes
<1> HIDE DEF o
<1>4. /\ SameData(t, s) /\ t.stage = "paused" /\ t.outcome = "injection-review-required"
      /\ t.pending = {} /\ t.budgetPhase = s.budgetPhase /\ t.pendingPhase = p
  BY <1>1, <1>2, <1>3, PauseFields DEF SameData
<1> HIDE DEF t
<1>5. a \in Active(s, w) /\ w \ {a} \subseteq Active(s, w) \ {a}
  BY DEF Active
<1>6. /\ s.pendingDecision = "" /\ s.pendingPhase # "verifying"
      /\ ~Headed(s, "verifying") /\ s.budgetPhase # "verifying"
      /\ \A b \in w \ {a} : ~Maker(b)
  BY <1>5, AtWorkFacts
<1>7. s.stage = "paused" /\ s.pendingPhase = "assessing" => a.role = Assessor
  <2>1. Maker(a) => AtWork(s)
    BY <1>5, AtWorkFacts
  <2>2. a.role \in Experts => s.pendingPhase # "assessing"
    BY <1>5, AtWorkFacts
  <2>3. ~Maker(a) => a.role = Assessor \/ a.role \in Experts
    BY <1>5, AtWorkFacts
  <2>q. QED BY <2>1, <2>2, <2>3 DEF AtWork
<1>8. \A phase \in {"planning", "implementing", "assessing", "verifying"} :
         Headed(t, phase) => Headed(s, phase) \/ phase = p
  BY <1>4, <1>6 DEF Headed, SameData
<1>9. \/ Headed(s, p) /\ p # "verifying"
      \/ s.stage = "paused" /\ p = s.pendingPhase /\ p # "verifying"
  BY <1>6 DEF Headed
<1>10. \A phase \in {"planning", "implementing", "assessing", "verifying"} :
          Headed(t, phase) =>
             \/ Headed(s, phase)
             \/ phase \in {"planning", "implementing"} /\ s.pendingPhase = phase
             \/ \E b \in Active(s, w) : Restores(b, phase)
  BY <1>5, <1>7, <1>8, <1>9 DEF Restores
<1>11. ~Headed(t, "verifying")
  BY <1>6, <1>8, <1>9
<1>12. t.budgetPhase \notin {"paused", "draining", "verifying"}
  BY <1>4, <1>6 DEF Orderly, Outside
<1>13. Active(t, w \ {a}) = w \ {a}
  BY <1>4 DEF Active
<1>14. Moves(t, w \ {a}, s, w)
  BY <1>4, <1>6, <1>9, <1>10, <1>11, <1>12, <1>13 DEF Moves, SameData
<1>q. QED BY <1>14, MovesOrderly DEF t, o

\* A review that is cancelled leaves the run in order (sdlcNoteCancelledReview).
LEMMA CancelOrderly ==
  ASSUME NEW s \in RunState, NEW w \in SUBSET Assignment, NEW h, NEW q,
         Orderly(s, w, h, q), NEW a \in w
  PROVE  Orderly([s EXCEPT !.pending = s.pending \ {a}], w \ {a}, h, q)
<1> DEFINE t == [s EXCEPT !.pending = s.pending \ {a}]
<1>1. t.pending = s.pending \ {a} /\ Alike(t, [s EXCEPT !.pending = t.pending])
  BY DEF Alike, SameData, RunState
<1> HIDE DEF t
<1>2. a \in Active(s, w) /\ Active(t, w \ {a}) \subseteq Active(s, w) \ {a}
  BY <1>1 DEF Active
<1>3. s.outcome # "approved" /\ \A b \in Active(t, w \ {a}) : ~Maker(b)
  BY <1>2, AtWorkFacts
<1>4. w \ {a} \subseteq t.pending \/ t.pending = {}
  BY <1>1 DEF Orderly, Outside
<1>5. Moves(t, w \ {a}, s, w)
  BY <1>1, <1>3, <1>4, StayMoves
<1>q. QED BY <1>5, MovesOrderly DEF t

\* Whatever becomes of an invocation, the run stays in order.
LEMMA InvocationOrderly ==
  ASSUME "drift" \notin Events, SoundRun, Orderly(run, running, hist, patch), Invocation
  PROVE  Orderly(run', running', hist', patch')
<1>1. /\ run \in RunState /\ running \in SUBSET Assignment /\ hist \in History
      /\ Executing = running
  BY DEF SoundRun, RunTypeOK, History, Executing
<1>2. CASE Report
  <2>1. PICK a \in running :
          /\ \E outcome \in WorkerOutcomes(a.role) \cap Replies :
               \E revision \in ResultRevisions(a, outcome) :
                 \/ Accepts(run, a, outcome) /\ Accepted(a, outcome, revision)
                 \/ UNCHANGED <<run, patch, hist>>
                 \/ run' = Pause(run, FailedOutcome(a.role)) /\ UNCHANGED <<patch, hist>>
          /\ running' = running \ {a}
    BY <1>1, <1>2 DEF Report, Ignored
  <2>2. PICK outcome \in WorkerOutcomes(a.role) :
          \E revision \in ResultRevisions(a, outcome) :
             \/ Accepts(run, a, outcome) /\ Accepted(a, outcome, revision)
             \/ UNCHANGED <<run, patch, hist>>
             \/ run' = Pause(run, FailedOutcome(a.role)) /\ UNCHANGED <<patch, hist>>
    BY <2>1
  <2>3. CASE \E revision \in ResultRevisions(a, outcome) :
                Accepts(run, a, outcome) /\ Accepted(a, outcome, revision)
    BY <1>1, <2>1, <2>3, AcceptedOrderly
  <2>4. CASE UNCHANGED <<run, patch, hist>>
    BY <1>1, <2>1, <2>4, LostOrderly
  <2>5. CASE run' = Pause(run, FailedOutcome(a.role)) /\ UNCHANGED <<patch, hist>>
    BY <1>1, <2>1, <2>5, FailedOrderly
  <2>q. QED BY <2>2, <2>3, <2>4, <2>5
<1>3. CASE FailAssignment
  BY <1>1, <1>3, FailedOrderly DEF FailAssignment
<1>4. CASE LoseSession
  <2>1. PICK a \in running : /\ run' = Pause(run, "session-recovery-required")
                             /\ running' = running \ {a} /\ UNCHANGED <<patch, hist>>
    BY <1>1, <1>4 DEF LoseSession
  <2>2. /\ "session-recovery-required" \in PlainReasons
        /\ Grounded(run, running, "session-recovery-required")
    BY PlainNames DEF Grounded
  <2>q. QED BY <1>1, <2>1, <2>2, StrayOrderly
<1>5. CASE InjectionReview
  <2> DEFINE p == IF run.stage = "paused" THEN run.pendingPhase ELSE run.stage
  <2>1. PICK a \in running :
          /\ run' = Pause([run EXCEPT !.pendingPhase = p], "injection-review-required")
          /\ running' = running \ {a} /\ UNCHANGED <<patch, hist>>
    BY <1>1, <1>5 DEF InjectionReview
  <2>2. p \in Stages
    BY <1>1, Fields
  <2>3. Orderly(Pause([run EXCEPT !.pendingPhase = p], "injection-review-required"),
                running \ {a}, hist, patch)
    BY <1>1, <2>2, InjectionOrderly
  <2> HIDE DEF p
  <2>q. QED BY <2>1, <2>3
<1>6. CASE UnsafeReview
  <2>1. PICK a \in running : /\ run' = Pause(run, "unsafe-review-artifact")
                             /\ running' = running \ {a} /\ UNCHANGED <<patch, hist>>
    BY <1>1, <1>6 DEF UnsafeReview
  <2>2. /\ "unsafe-review-artifact" \in PlainReasons
        /\ Grounded(run, running, "unsafe-review-artifact")
    BY PlainNames DEF Grounded
  <2>q. QED BY <1>1, <2>1, <2>2, StrayOrderly
<1>7. CASE CancelReview
  <2>1. PICK a \in running : /\ run' = [run EXCEPT !.pending = run.pending \ {a}]
                             /\ running' = running \ {a} /\ UNCHANGED <<patch, hist>>
    BY <1>1, <1>7 DEF CancelReview
  <2>q. QED BY <1>1, <2>1, CancelOrderly
<1>8. CASE SaveReview
  BY <1>8 DEF SaveReview
<1>9. CASE FinishReview
  BY <1>9 DEF FinishReview, SoundRun
<1>10. CASE Crash
  <2>1. running' = {} /\ UNCHANGED <<run, patch, hist>>
    BY <1>10 DEF Crash
  <2>q. QED BY <1>1, <2>1, LostOrderly
<1>q. QED BY <1>2, <1>3, <1>4, <1>5, <1>6, <1>7, <1>8, <1>9, <1>10 DEF Invocation

-----------------------------------------------------------------------------
(***************************************************************************)
(* The steps of a driver                                                   *)
(***************************************************************************)

\* A change of routing data only leaves the run in order.
LEMMA AlikeOrderly ==
  ASSUME NEW s \in RunState, NEW h, NEW q, Orderly(s, {}, h, q), s.outcome # "approved",
         NEW t \in RunState, Alike(t, s)
  PROVE  Orderly(t, {}, h, q)
<1>1. t.pending = s.pending /\ Alike(t, [s EXCEPT !.pending = t.pending])
  BY DEF Alike, SameData, RunState
<1>2. Moves(t, {}, s, {})
  BY <1>1, StayMoves
<1>q. QED BY <1>2, MovesOrderly

\* A stage that assigns has no outcome and no decision open, and is headed for
\* nothing but itself and a phase saved by a budget pause.
LEMMA WantedFacts ==
  ASSUME NEW s \in RunState, NEW w, NEW h, NEW q, Orderly(s, w, h, q),
         NEW role \in RolesWanted(s)
  PROVE  /\ s.stage \in {"planning", "implementing", "assessing", "specializing"}
         /\ s.outcome = "" /\ s.budgetPhase # "verifying"
         /\ role = Planner => s.stage = "planning"
         /\ role = Implementer => s.stage = "implementing"
         /\ role = Assessor => s.stage = "assessing"
         /\ role \in Experts => s.stage = "specializing" /\ s.queue # {}
         /\ s.pendingDecision # "diff"
<1>1. s.queue \subseteq Experts
  BY Fields
<1>2. /\ s.stage \in {"planning", "implementing", "assessing", "specializing"}
      /\ role = Planner => s.stage = "planning"
      /\ role = Implementer => s.stage = "implementing"
      /\ role = Assessor => s.stage = "assessing"
      /\ role \in Experts => s.stage = "specializing" /\ s.queue # {}
  BY <1>1 DEF RolesWanted, Planner, Implementer, Assessor, Experts, PlanExperts, DiffExperts
<1>3. s.outcome = "" /\ s.budgetPhase # "verifying"
  BY <1>2 DEF Orderly, Outside
<1>4. s.pendingDecision # "diff"
  BY <1>2 DEF Orderly, OpenDecision
<1>q. QED BY <1>2, <1>3, <1>4

\* A free slot leaves room for one more vote.
LEMMA SlotTaken ==
  ASSUME NEW votes \in Nat, NEW reserved \in Nat, NEW now \in Nat, NEW judges \in Nat,
         (IF votes + reserved >= Quorum THEN 0 ELSE Quorum - (votes + reserved)) > 0,
         now = reserved \/ now = reserved + 1, judges <= now
  PROVE  votes + judges <= Quorum /\ votes < Quorum
<1>1. Quorum \in Nat
  BY StateConstants
<1>q. QED BY <1>1

\* Reserving one more assignment, started at once or not, keeps the order
\* (sdlcAssignNextLocked).
LEMMA ReservedOrderly ==
  ASSUME NEW s \in RunState, NEW h, NEW q, Orderly(s, {}, h, q), s.pendingDecision = "",
         GateOpen(s), HasSlot(s), NEW role \in RolesWanted(s),
         NEW a \in Assignment, a.role = role, a.revision = TargetRevision(s, role),
         NEW t, Alike([t EXCEPT !.pending = s.pending], s), t \in RunState,
         t.pending = s.pending \cup {a},
         NEW v \in SUBSET {a}
  PROVE  Orderly(t, v, h, q)
<1> USE DEF Orderly
<1>1. /\ s.stage \in {"planning", "implementing", "assessing", "specializing"}
      /\ s.outcome = "" /\ s.budgetPhase # "verifying"
      /\ role = Planner => s.stage = "planning"
      /\ role = Implementer => s.stage = "implementing"
      /\ role = Assessor => s.stage = "assessing"
      /\ role \in Experts => s.stage = "specializing" /\ s.queue # {}
  BY WantedFacts
<1>2. /\ SameData(t, s) /\ t.stage = s.stage /\ t.outcome = s.outcome
      /\ t.pendingPhase = s.pendingPhase /\ t.budgetPhase = s.budgetPhase
      /\ t.retryPhase = s.retryPhase
  BY DEF Alike, SameData, RunState
<1>3. \A phase : Headed(t, phase) <=> Headed(s, phase)
  BY ZenonT(60), <1>2 DEF SameData, Headed
<1>4. Active(t, v) = s.pending \cup {a} /\ Active(s, {}) = s.pending
  BY DEF Active
<1>5. Headed(s, s.stage)
  BY DEF Headed
<1>6. /\ Judges(s, {}) \subseteq Judges(t, v) /\ Judges(t, v) \subseteq Judges(s, {}) \cup {a}
      /\ role # Assessor => Judges(t, v) = Judges(s, {})
  BY <1>4 DEF Judges
<1>7. Judging(t, v) <=> Judging(s, {})
  BY <1>1, <1>3, <1>5, <1>6 DEF Judging
<1>8. Fit(s, h, q) <=> Fit(t, h, q)
  BY ZenonT(60), <1>2 DEF SameData, Fit, ChecksAllowCompletion, Rejected, Heard, Locked
<1>9. FitToJudge(t, v, h, q)
  BY <1>7, <1>8 DEF FitToJudge
<1>10. Unverified(t) <=> Unverified(s)
  BY <1>2, <1>3 DEF Unverified, SameData
<1>11. ReadyToVerify(t, h, q)
  <2>1. Unjudged(s, h, q) => Unjudged(t, h, q)
    BY <1>2, <1>3 DEF SameData, Unjudged, Locked, Heard
  <2>q. QED BY <1>10, <2>1 DEF ReadyToVerify
<1>12. ApprovedFinally(t, v, h, q)
  BY <1>1, <1>2 DEF ApprovedFinally
<1>13. Asking(t, v) => Asking(s, {})
  <2>1. role \in Experts => Asking(s, {})
    BY <1>1 DEF Asking
  <2>q. QED BY <1>2, <1>4, <2>1 DEF Asking, SameData
<1>14. ExpertsFirst(t, v)
  <2> SUFFICES ASSUME Asking(t, v)
               PROVE  /\ Judges(t, v) = {}
                      /\ \A phase \in {"assessing", "verifying", "planning"} :
                            ~Headed(t, phase) /\ t.pendingPhase # phase
    BY DEF ExpertsFirst
  <2>1. /\ Judges(s, {}) = {}
        /\ \A phase \in {"assessing", "verifying", "planning"} :
              ~Headed(s, phase) /\ s.pendingPhase # phase
    BY <1>13 DEF ExpertsFirst
  <2>2. role # Assessor
    BY <1>1, <1>5, <2>1
  <2>q. QED BY <1>2, <1>3, <1>6, <2>1, <2>2
<1>15. s.stage \in {"planning", "implementing"} => s.pending = {}
  BY DEF HasSlot, ParallelReviews
<1>16. \A b \in s.pending : ~Maker(b)
  <2>1. SUFFICES ASSUME NEW b \in s.pending, Maker(b) PROVE FALSE
    OBVIOUS
  <2>2. AtWork(s)
    BY <1>4, <2>1 DEF OneMaker
  <2>q. QED BY <1>1, <1>15, <2>1, <2>2 DEF AtWork
<1>17. OneMaker(t, v)
  <2> SUFFICES ASSUME Maker(a)
               PROVE  /\ t.pending = {a} /\ v \subseteq {a}
                      /\ ~Unverified(t)
                      /\ a.role = Implementer => Locked(t)
                      /\ a.role = Planner => t.queue = {}
                      /\ AtWork(t)
    BY <1>4, <1>16 DEF OneMaker
  <2>1. \/ (role = Planner /\ s.stage = "planning")
        \/ (role = Implementer /\ s.stage = "implementing")
    BY <1>1 DEF Maker
  <2>2. t.pending = {a} /\ AtWork(t)
    BY <1>2, <1>15, <2>1 DEF AtWork
  <2>3. ~Unverified(s)
    BY <1>5, <2>1 DEF ReadyToVerify, Unjudged
  <2>4. a.role = Implementer => Locked(t)
    <3>1. s.stage = "implementing" => Locked(s)
      BY DEF GateOpen, Locked
    <3>q. QED BY <1>2, <2>1, <3>1 DEF Locked, SameData, Planner, Implementer
  <2>5. a.role = Planner => t.queue = {}
    <3>1. role = Planner => ~Asking(s, {})
      BY <1>5, <2>1 DEF ExpertsFirst, Planner, Implementer
    <3>q. QED BY <1>2, <3>1 DEF Asking, SameData
  <2>q. QED BY <1>10, <2>2, <2>3, <2>4, <2>5
<1>18. OpenDecision(t, v, h)
  BY <1>2 DEF OpenDecision, SameData
<1>19. VotesLeft(t, v)
  <2>1. /\ IsFiniteSet(t.assessments) /\ IsFiniteSet(s.pending) /\ IsFiniteSet(t.pending)
        /\ IsFiniteSet(v)
    BY <1>2, FS_EmptySet, FS_AddElement, FS_Subset DEF VotesLeft, SameData
  <2>2. /\ \A x \in t.assessments : x.revision = t.diff
        /\ \A b \in Judges(t, v) : b.revision = t.diff
    <3>1. role = Assessor => a.revision = s.diff
      BY DEF TargetRevision, Reviewers, Assessor, Implementer, PlanExperts
    <3>q. QED BY <1>2, <1>6, <3>1 DEF VotesLeft, SameData, Judges
  <2>3. CASE role = Assessor
    <3> DEFINE votes == Cardinality(s.assessments)
               reserved == Cardinality(s.pending)
               now == Cardinality(t.pending)
               judges == Cardinality(Judges(t, v))
    <3>1. votes \in Nat /\ reserved \in Nat /\ now \in Nat
      BY <1>2, <2>1, FS_CardinalityType DEF SameData
    <3>2. (IF votes + reserved >= Quorum THEN 0 ELSE Quorum - (votes + reserved)) > 0
      <4>1. SlotsNeeded(s) > 0 /\ s.stage = "assessing"
        BY <1>1, <2>3 DEF HasSlot
      <4>2. SlotsNeeded(s) = IF votes + reserved >= Quorum THEN 0
                             ELSE Quorum - (votes + reserved)
        BY <4>1 DEF SlotsNeeded
      <4>q. QED BY <4>1, <4>2
    <3>3. now = reserved \/ now = reserved + 1
      BY <2>1, FS_AddElement
    <3>4. IsFiniteSet(Judges(t, v)) /\ judges <= now
      <4>1. Judges(t, v) \subseteq t.pending
        BY <1>4 DEF Judges
      <4>q. QED BY <2>1, <4>1, FS_Subset
    <3>5. judges \in Nat
      BY <3>4, FS_CardinalityType
    <3>6. votes + judges <= Quorum /\ votes < Quorum
      BY <3>1, <3>2, <3>3, <3>4, <3>5, SlotTaken
    <3>7. t.assessments = s.assessments
      BY <1>2 DEF SameData
    <3>q. QED BY <2>1, <2>2, <3>6, <3>7 DEF VotesLeft
  <2>4. CASE role # Assessor
    BY <1>2, <1>3, <1>6, <1>7, <2>1, <2>2, <2>4 DEF VotesLeft, SameData
  <2>q. QED BY <2>3, <2>4
<1>20. Outside(t, v)
  BY <1>2 DEF Outside
<1>21. RejectedBefore(t, v)
  <2> SUFFICES ASSUME Judging(t, v),
                      \/ \E b \in Active(t, v) : Maker(b)
                      \/ \E phase \in {"planning", "implementing"} :
                            Headed(t, phase) \/ t.pendingPhase = phase
               PROVE  Rejected(t)
    BY DEF RejectedBefore
  <2>1. \E phase \in {"planning", "implementing"} : Headed(s, phase) \/ s.pendingPhase = phase
    <3>1. Maker(a) => s.stage \in {"planning", "implementing"}
      BY <1>1 DEF Maker
    <3>q. QED BY <1>2, <1>3, <1>4, <1>5, <1>16, <3>1
  <2>2. Rejected(s)
    BY <1>7, <2>1 DEF RejectedBefore
  <2>q. QED BY <1>2, <2>2 DEF Rejected, SameData
<1>q. QED BY <1>9, <1>11, <1>12, <1>14, <1>17, <1>18, <1>19, <1>20, <1>21

\* Giving a deferred binding another chance changes routing data only.
LEMMA WithFallbackAlike ==
  ASSUME NEW s \in RunState, NEW role
  PROVE  /\ WithFallback(s, role) \in RunState
         /\ Alike(WithFallback(s, role), s)
         /\ RolesWanted(WithFallback(s, role)) = RolesWanted(s)
         /\ HasSlot(s) => HasSlot(WithFallback(s, role))
         /\ GateOpen(s) => GateOpen(WithFallback(s, role))
<1> DEFINE t == WithFallback(s, role)
<1>1. t \in RunState
  BY WithFallbackType
<1>2. /\ Alike(t, s) /\ t.pending = s.pending /\ t.assessments = s.assessments
      /\ t.stage = s.stage /\ t.budgetPhase = s.budgetPhase /\ t.queue = s.queue
      /\ t.plan = s.plan /\ t.approvedPlan = s.approvedPlan /\ t.authorized = s.authorized
  BY DEF WithFallback, Alike, SameData, RunState
<1> HIDE DEF t
<1>3. RolesWanted(t) = RolesWanted(s)
  BY <1>2 DEF RolesWanted
<1>4. SlotsNeeded(t) = SlotsNeeded(s) /\ (ParallelReviews(t) <=> ParallelReviews(s))
  BY <1>2, <1>3 DEF SlotsNeeded, ParallelReviews
<1>5. HasSlot(s) => HasSlot(t)
  BY <1>2, <1>4 DEF HasSlot
<1>6. GateOpen(s) => GateOpen(t)
  BY <1>2 DEF GateOpen
<1>q. QED BY <1>1, <1>2, <1>3, <1>5, <1>6 DEF t

\* A driver that assigns, or finds that it cannot, acts on a run of this kind.
Driven(s, h, q) ==
    /\ s \in RunState /\ h \in History /\ Orderly(s, {}, h, q)
    /\ s.pendingDecision = "" /\ RolesWanted(s) # {}

\* The next assignment keeps the order (sdlcAssignNextLocked).
LEMMA AssignOrderly ==
  ASSUME Driven(run, hist, patch), running = {}, AssignNext
  PROVE  Orderly(run', running', hist', patch')
<1>1. PICK role \in RolesWanted(run) :
         LET s == WithFallback(run, role)
         IN \E g \in Candidate(s, role) :
                 LET i == CHOOSE x \in FreshIds(s) : TRUE
                     a == [id |-> i, role |-> role, agent |-> g,
                           revision |-> TargetRevision(s, role)]
                 IN /\ FreshIds(s) # {}
                    /\ run' = [s EXCEPT !.pending = @ \cup {a}]
                    /\ running' = IF ParallelReviews(s) THEN running
                                  ELSE running \cup {a}
  BY DEF AssignNext
<1> DEFINE s == WithFallback(run, role)
           i == CHOOSE x \in FreshIds(s) : TRUE
<1>2. /\ run \in RunState /\ Orderly(run, {}, hist, patch) /\ run.pendingDecision = ""
      /\ GateOpen(run) /\ HasSlot(run)
  BY DEF AssignNext, MayAssign, Driven
<1>3. s \in RunState /\ Alike(s, run) /\ RolesWanted(s) = RolesWanted(run)
  BY <1>2, WithFallbackAlike
<1>4. HasSlot(s) /\ GateOpen(s)
  BY <1>2, WithFallbackAlike
<1> HIDE DEF s
<1>5. PICK g \in Candidate(s, role) :
        LET a == [id |-> i, role |-> role, agent |-> g, revision |-> TargetRevision(s, role)]
        IN /\ FreshIds(s) # {}
           /\ run' = [s EXCEPT !.pending = @ \cup {a}]
           /\ running' = IF ParallelReviews(s) THEN running ELSE running \cup {a}
  BY <1>1 DEF s
<1> DEFINE a == [id |-> i, role |-> role, agent |-> g, revision |-> TargetRevision(s, role)]
<1>6. i \in Invocations /\ g \in Agents
  BY <1>5 DEF FreshIds, Candidate, Eligible
<1> HIDE DEF i
<1>7. a \in Assignment
  BY <1>2, <1>3, <1>6, AssignmentType
<1>8. /\ run' = [s EXCEPT !.pending = s.pending \cup {a}]
      /\ running' \in SUBSET {a}
      /\ a.role = role /\ a.revision = TargetRevision(s, role)
  BY <1>5
<1> HIDE DEF a
<1>9. run.outcome # "approved"
  BY <1>2, WantedFacts
<1>10. Orderly(s, {}, hist, patch) /\ s.pendingDecision = ""
  <2>1. Orderly(s, {}, hist, patch)
    BY <1>2, <1>3, <1>9, AlikeOrderly
  <2>q. QED BY <1>2, <1>3, <2>1 DEF Alike, SameData
<1>11. s.pending \cup {a} \in SUBSET Assignment
  BY <1>3, <1>7, Fields
<1>12. run' \in RunState
  BY <1>3, <1>8, <1>11, Update
<1>13. run'.pending = s.pending \cup {a} /\ Alike([run' EXCEPT !.pending = s.pending], s)
  BY <1>3, <1>8 DEF RunState, Alike, SameData
<1>14. role \in RolesWanted(s)
  BY <1>3
<1>15. Orderly(run', running', hist, patch)
  BY <1>3, <1>4, <1>7, <1>8, <1>10, <1>12, <1>13, <1>14, ReservedOrderly
<1>q. QED BY <1>15 DEF AssignNext

\* A pause because nobody can be assigned keeps the order.
LEMMA StrandedOrderly ==
  ASSUME NEW s \in RunState, NEW h, NEW q, Orderly(s, {}, h, q),
         NEW role \in RolesWanted(s),
         NEW reason \in {FailedOutcome(role), "assessment-quorum-unavailable"}
  PROVE  Orderly(Pause(s, reason), {}, h, q)
<1>1. /\ s.budgetPhase # "verifying" /\ s.pendingDecision # "diff"
      /\ role = Planner => s.stage = "planning"
      /\ role = Implementer => s.stage = "implementing"
      /\ role = Assessor => s.stage = "assessing"
  BY WantedFacts
<1>2. Headed(s, s.stage)
  BY DEF Headed
<1>3. Grounded(s, {}, FailedOutcome(role))
  BY <1>1, <1>2, FailureGrounded
<1>4. Grounded(s, {}, "assessment-quorum-unavailable")
  BY DEF Grounded
<1>5. reason \in PlainReasons /\ Grounded(s, {}, reason)
  BY <1>3, <1>4, PlainNames
<1>6. {} \in SUBSET {} /\ \A b \in {} : ~Maker(b)
  OBVIOUS
<1>q. QED BY <1>1, <1>5, <1>6, PauseOrderly DEF PlainReasons

\* A budget that refuses an assignment or a verification pauses a run in order.
LEMMA BudgetStopOrderly ==
  ASSUME NEW s \in RunState, NEW h, NEW q, Orderly(s, {}, h, q), s.stage \in Working
  PROVE  Orderly(Pause(s, "budget-exhausted"), {}, h, q)
<1>1. /\ s.outcome # "approved" /\ s.stage # "done" /\ s.stage # "" /\ s.stage # "paused"
      /\ s.stage # "draining"
  BY DEF Working, Orderly, ApprovedFinally
<1>2. Alike(s, [s EXCEPT !.pending = s.pending])
  BY DEF Alike, SameData, RunState
<1>3. Moves(s, {}, s, {})
  BY <1>1, <1>2, StayMoves
<1>4. Backed(s, s, {})
  BY <1>1 DEF Backed, Unphased
<1>5. Moves(Pause(s, "budget-exhausted"), {}, s, {})
  BY <1>1, <1>3, <1>4, BudgetMoves
<1>q. QED BY <1>5, MovesOrderly

\* Launching what is reserved keeps the order (sdlcDriveParallelReviews).
LEMMA LaunchOrderly ==
  ASSUME NEW s, NEW h, NEW q, Orderly(s, {}, h, q)
  PROVE  Orderly(s, s.pending, h, q)
<1>1. Active(s, s.pending) = Active(s, {}) /\ Judges(s, s.pending) = Judges(s, {})
  BY DEF Active, Judges
<1>2. /\ Judging(s, s.pending) <=> Judging(s, {})
      /\ Asking(s, s.pending) <=> Asking(s, {})
  BY <1>1 DEF Judging, Asking
<1>3. FitToJudge(s, s.pending, h, q) /\ ApprovedFinally(s, s.pending, h, q)
  BY <1>1, <1>2 DEF Orderly, FitToJudge, ApprovedFinally
<1>4. ExpertsFirst(s, s.pending)
  BY <1>1, <1>2 DEF Orderly, ExpertsFirst
<1>5. OneMaker(s, s.pending)
  BY <1>1 DEF Orderly, OneMaker
<1>6. OpenDecision(s, s.pending, h)
  BY <1>1 DEF Orderly, OpenDecision
<1>7. VotesLeft(s, s.pending)
  BY <1>1, <1>2 DEF Orderly, VotesLeft
<1>8. Outside(s, s.pending)
  BY DEF Orderly, Outside
<1>9. RejectedBefore(s, s.pending)
  BY <1>1, <1>2 DEF Orderly, RejectedBefore
<1>q. QED BY <1>3, <1>4, <1>5, <1>6, <1>7, <1>8, <1>9 DEF Orderly

\* pauseDriveError keeps the order.
LEMMA DriveFailedOrderly ==
  ASSUME NEW s \in RunState, NEW h, NEW q, Orderly(s, {}, h, q), s.stage \in Working,
         NEW t \in DriveFailed(s)
  PROVE  Orderly(t, {}, h, q)
<1>1. CASE RolesWanted(s) = {}
  <2>1. t = Pause(s, "driver-failed")
    BY <1>1 DEF DriveFailed
  <2>2. s.budgetPhase # "verifying"
    BY DEF Orderly, Outside, Working
  <2>3. "driver-failed" \in PlainReasons /\ Grounded(s, {}, "driver-failed")
    BY PlainNames DEF Grounded
  <2>4. {} \in SUBSET {} /\ \A b \in {} : ~Maker(b)
    OBVIOUS
  <2>q. QED BY <2>1, <2>2, <2>3, <2>4, PauseOrderly DEF PlainReasons
<1>2. CASE RolesWanted(s) # {}
  <2>1. PICK role \in RolesWanted(s) : t = Pause(s, FailedOutcome(role))
    BY <1>2 DEF DriveFailed
  <2>q. QED BY <2>1, StrandedOrderly
<1>q. QED BY <1>1, <1>2

\* The gate before an implementer keeps the order (sdlcPlanApprovalGateLocked).
LEMMA GateOrderly ==
  ASSUME NEW s \in RunState, NEW h, NEW q, Orderly(s, {}, h, q), s.stage = "implementing",
         NEW reason \in {"command-authorization-required", "plan-required",
                         "plan-approval-required"}
  PROVE  Orderly([Pause(s, reason) EXCEPT !.pendingPhase = "implementing"], {}, h, q)
<1> DEFINE p == Pause(s, reason)
           t == [p EXCEPT !.pendingPhase = "implementing"]
<1>1. reason \in Outcomes /\ reason # "budget-exhausted"
  BY DEF Outcomes
<1>2. /\ SameData(p, s) /\ p.stage = "paused" /\ p.outcome = reason /\ p.pending = {}
      /\ p.budgetPhase = s.budgetPhase /\ p.retryPhase = s.retryPhase
  BY <1>1, PauseFields
<1>3. p \in RunState
  BY <1>1, PauseType
<1> HIDE DEF p
<1>4. /\ SameData(t, s) /\ t.stage = "paused" /\ t.outcome = reason /\ t.pending = {}
      /\ t.budgetPhase = s.budgetPhase /\ t.pendingPhase = "implementing"
  BY <1>2, <1>3 DEF SameData, RunState
<1> HIDE DEF t
<1>5. \A phase \in {"planning", "implementing", "assessing", "verifying"} :
         Headed(t, phase) => Headed(s, phase)
  BY <1>4 DEF Headed, SameData
<1>6. s.budgetPhase \notin {"paused", "draining", "verifying"} /\ s.pendingDecision # "diff"
  BY DEF Orderly, Outside, OpenDecision
<1>7. Headed(t, "verifying") => t.budgetPhase \in {"", "verifying"}
  BY <1>5, VerifyingAlone, <1>4 DEF Unjudged
<1>8. Headed(s, "implementing") /\ Active(t, {}) = {}
  BY <1>4 DEF Headed, Active
<1>9. Moves(t, {}, s, {})
  BY <1>4, <1>5, <1>6, <1>7, <1>8 DEF Moves, SameData
<1>q. QED BY <1>9, MovesOrderly DEF t, p

\* A run whose checks wait for an operator stays in order
\* (sdlcCommandAuthorizationGateLocked).
LEMMA UnauthorizedOrderly ==
  ASSUME NEW s \in RunState, NEW h, NEW q, Orderly(s, {}, h, q), s.stage = "verifying",
         s.pendingDecision = ""
  PROVE  Orderly(Pause(s, "command-authorization-required"), {}, h, q)
<1> DEFINE t == Pause(s, "command-authorization-required")
<1>1. /\ "command-authorization-required" \in Outcomes
      /\ "command-authorization-required" # "budget-exhausted"
  BY DEF Outcomes
<1>2. /\ SameData(t, s) /\ t.stage = "paused"
      /\ t.outcome = "command-authorization-required" /\ t.pending = {}
      /\ t.budgetPhase = s.budgetPhase /\ t.pendingPhase = s.pendingPhase
  BY ZenonT(60), <1>1, PauseFields
<1> HIDE DEF t
<1>3. Headed(s, "verifying")
  BY DEF Headed
<1>4. Unjudged(s, h, q) /\ Active(s, {}) = {}
  BY <1>3, VerifyingAlone
<1>5. /\ s.pendingPhase \notin {"planning", "implementing", "assessing"}
      /\ s.budgetPhase = ""
  BY <1>3, <1>4 DEF Unjudged, Orderly, Outside
<1>6. s.pendingPhase = "verifying" => Headed(s, s.pendingPhase)
  BY <1>3
<1>7. \A phase \in {"planning", "implementing", "assessing", "verifying"} :
         Headed(t, phase) => Headed(s, phase)
  BY <1>2, <1>5, <1>6 DEF Headed, SameData
<1>8. /\ t.pendingDecision = "" /\ Active(t, {}) = {}
      /\ t.pendingPhase \in {"planning", "implementing", "assessing", "verifying"} =>
            t.pendingPhase = s.pendingPhase
  BY <1>2 DEF Active, SameData
<1>9. Moves(t, {}, s, {})
  BY <1>2, <1>5, <1>7, <1>8 DEF Moves, SameData
<1>q. QED BY <1>9, MovesOrderly DEF t

\* What is known of a candidate whose checks are about to run.
Checkable(s, h, q) ==
    /\ s \in RunState /\ s.stage = "verifying" /\ s.outcome = "" /\ s.budgetPhase = ""
    /\ s.pendingDecision = "" /\ s.pending = {} /\ s.queue = {} /\ s.assessments = {}
    /\ s.pendingPhase \notin {"planning", "implementing", "assessing", "verifying"}
    /\ s.diff # None /\ q = s.diff /\ s.repair # s.diff
    /\ s.implementer # None => Locked(s)
    /\ h.demanded \subseteq Heard(s)

\* Nothing but the verdict of its checks keeps such a candidate from assessment.
LEMMA CheckableFacts ==
  ASSUME NEW s \in RunState, NEW h, NEW q, Orderly(s, {}, h, q), s.stage = "verifying",
         s.pendingDecision = ""
  PROVE  Checkable(s, h, q)
<1>1. Headed(s, "verifying")
  BY DEF Headed
<1>2. Active(s, {}) = {} /\ ~Asking(s, {}) /\ Unjudged(s, h, q)
  BY <1>1, VerifyingAlone
<1>3. s.queue = {} /\ s.pending = {}
  BY <1>2 DEF Asking, Active
<1>4. s.outcome = "" /\ s.budgetPhase = "" /\ s.pendingPhase # "verifying"
  BY <1>1, <1>2 DEF Orderly, Outside, OpenDecision, Unjudged
<1>q. QED BY <1>2, <1>3, <1>4 DEF Unjudged, Checkable

\* An assessment that starts has votes left to give.
LEMMA QuorumPositive == 0 + 0 <= Quorum /\ 0 < Quorum
BY StateConstants

\* A candidate that was verified is fit to be assessed.
LEMMA PassedOrderly ==
  ASSUME NEW s, NEW h \in History, NEW q, Checkable(s, h, q),
         s.plan \in ArgvPlans => s.authorized = s.plan,
         NEW t \in RunState, t.stage = "assessing", ChecksAllowCompletion(t),
         t.diff = s.diff, t.implementer = s.implementer, t.plan = s.plan,
         t.assessments = s.assessments, t.repair = s.repair, t.queue = s.queue,
         t.reviews = s.reviews, t.pendingDecision = s.pendingDecision,
         t.approvedPlan = s.approvedPlan, t.authorized = s.authorized,
         t.pending = s.pending, t.outcome = "", t.budgetPhase = s.budgetPhase,
         t.pendingPhase = s.pendingPhase
  PROVE  Orderly(t, {}, [h EXCEPT !.verified = TRUE, !.drifted = FALSE], q)
<1> DEFINE g == [h EXCEPT !.verified = TRUE, !.drifted = FALSE]
<1>1. g.verified /\ g.demanded = h.demanded
  BY DEF History
<1> HIDE DEF g
<1>2. /\ Headed(t, "assessing") /\ Active(t, {}) = {} /\ Judges(t, {}) = {}
      /\ \A phase \in {"planning", "implementing", "verifying"} :
            ~Headed(t, phase) /\ t.pendingPhase # phase
  BY DEF Checkable, Headed, Active, Judges
<1>3. Fit(t, g, q)
  <2>1. g.demanded \subseteq Heard(t) /\ (t.implementer # None => Locked(t))
    BY <1>1 DEF Checkable, Heard, Locked
  <2>q. QED BY <1>1, <2>1 DEF Checkable, Fit
<1>4. ~Asking(t, {}) /\ ~Unverified(t)
  BY <1>2 DEF Asking, Unverified, Checkable
<1>5. FitToJudge(t, {}, g, q) /\ ReadyToVerify(t, g, q) /\ ApprovedFinally(t, {}, g, q)
  BY <1>3, <1>4 DEF FitToJudge, ReadyToVerify, ApprovedFinally
<1>6. ExpertsFirst(t, {}) /\ OneMaker(t, {}) /\ RejectedBefore(t, {})
  BY <1>2, <1>4 DEF ExpertsFirst, OneMaker, RejectedBefore
<1>7. OpenDecision(t, {}, g)
  BY <1>2 DEF OpenDecision, Checkable
<1>8. VotesLeft(t, {})
  <2>1. IsFiniteSet({}) /\ Cardinality({}) = 0
    BY FS_EmptySet
  <2>2. t.assessments = {} /\ t.pending = {}
    BY DEF Checkable
  <2>3. 0 + 0 <= Quorum /\ 0 < Quorum
    BY QuorumPositive
  <2>q. QED BY <1>2, <2>1, <2>2, <2>3 DEF VotesLeft
<1>9. Outside(t, {})
  BY DEF Outside, Checkable
<1>q. QED BY <1>5, <1>6, <1>7, <1>8, <1>9 DEF Orderly, g

\* A candidate that failed its checks goes back to its implementer.
LEMMA FailedChecksOrderly ==
  ASSUME NEW s, NEW h, NEW g, NEW q, Checkable(s, h, q),
         NEW t \in RunState, t.stage = "implementing", t.assessments = {}, t.queue = {},
         t.pendingDecision = s.pendingDecision, t.pending = {}, t.outcome = "",
         t.budgetPhase = s.budgetPhase, t.pendingPhase = s.pendingPhase
  PROVE  Orderly(t, {}, g, q)
<1>1. /\ ~Headed(t, "assessing") /\ ~Headed(t, "verifying") /\ Active(t, {}) = {}
      /\ ~Asking(t, {})
  BY DEF Checkable, Headed, Active, Asking
<1>2. InBounds(t)
  BY DEF Checkable, InBounds
<1>3. IsFiniteSet({})
  BY FS_EmptySet
<1>q. QED BY <1>1, <1>2, <1>3, QuietOrderly DEF Checkable

\* Checks that cannot run here leave the candidate to be verified.
LEMMA NoEnvironmentOrderly ==
  ASSUME NEW s, NEW h, NEW q, Checkable(s, h, q), Orderly(s, {}, h, q),
         NEW o \in RunState, o = [s EXCEPT !.receipts = "failed", !.receiptsFor = s.diff]
  PROVE  Orderly(Pause(o, "verification-environment-failed"), {}, h, q)
<1> USE DEF Orderly
<1>1. /\ o.diff = s.diff /\ o.implementer = s.implementer /\ o.plan = s.plan
      /\ o.assessments = s.assessments /\ o.repair = s.repair /\ o.queue = s.queue
      /\ o.reviews = s.reviews /\ o.after = s.after
      /\ o.pendingDecision = s.pendingDecision
      /\ o.approvedPlan = s.approvedPlan /\ o.authorized = s.authorized
      /\ o.pending = s.pending /\ o.stage = s.stage /\ o.outcome = s.outcome
      /\ o.budgetPhase = s.budgetPhase /\ o.pendingPhase = s.pendingPhase
      /\ o.retryPhase = s.retryPhase
  <2>1. s \in RunState
    BY DEF Checkable
  <2>2. /\ o.diff = s.diff /\ o.implementer = s.implementer /\ o.plan = s.plan
        /\ o.assessments = s.assessments /\ o.repair = s.repair /\ o.queue = s.queue
        /\ o.reviews = s.reviews /\ o.after = s.after
        /\ o.pendingDecision = s.pendingDecision
    BY ZenonT(60), <2>1 DEF RunState
  <2>3. /\ o.approvedPlan = s.approvedPlan /\ o.authorized = s.authorized
        /\ o.pending = s.pending /\ o.stage = s.stage /\ o.outcome = s.outcome
        /\ o.budgetPhase = s.budgetPhase /\ o.pendingPhase = s.pendingPhase
        /\ o.retryPhase = s.retryPhase
    BY ZenonT(60), <2>1 DEF RunState
  <2>q. QED BY <2>2, <2>3
<1>2. \A phase : Headed(o, phase) <=> Headed(s, phase)
  BY <1>1 DEF Headed
<1>3. Active(o, {}) = {} /\ Judges(o, {}) = {} /\ Active(s, {}) = {} /\ Judges(s, {}) = {}
  BY <1>1 DEF Active, Judges, Checkable
<1>4. ~Judging(o, {}) /\ ~Asking(o, {})
  <2>1. ~Headed(s, "assessing")
    BY DEF Checkable, Headed
  <2>q. QED BY <1>1, <1>2, <1>3, <2>1 DEF Judging, Asking, Checkable
<1>5. Unjudged(s, h, q) /\ Unjudged(o, h, q)
  <2>1. Unjudged(s, h, q)
    BY VerifyingAlone DEF Checkable, Headed
  <2>q. QED BY <1>1, <1>2, <2>1 DEF Unjudged, Locked, Heard
<1>6. FitToJudge(o, {}, h, q) /\ ReadyToVerify(o, h, q) /\ ApprovedFinally(o, {}, h, q)
  BY <1>1, <1>4, <1>5 DEF FitToJudge, ReadyToVerify, ApprovedFinally, Checkable
<1>7. ExpertsFirst(o, {}) /\ OneMaker(o, {}) /\ RejectedBefore(o, {})
  BY <1>3, <1>4 DEF ExpertsFirst, OneMaker, RejectedBefore
<1>8. OpenDecision(o, {}, h) /\ VotesLeft(o, {}) /\ Outside(o, {})
  <2>1. OpenDecision(o, {}, h)
    BY <1>1 DEF OpenDecision, Checkable
  <2>2. VotesLeft(o, {})
    BY <1>1, <1>2, <1>3, <1>4 DEF VotesLeft, Judging
  <2>3. Outside(o, {})
    BY <1>1 DEF Outside
  <2>q. QED BY <2>1, <2>2, <2>3
<1>9. Orderly(o, {}, h, q)
  BY <1>6, <1>7, <1>8
<1>10. Headed(o, "verifying") /\ o.budgetPhase # "verifying" /\ o.pendingDecision # "diff"
  BY <1>1 DEF Checkable, Headed
<1>11. /\ "verification-environment-failed" \in PlainReasons
       /\ Grounded(o, {}, "verification-environment-failed")
  BY <1>10, PlainNames DEF Grounded
<1>12. {} \in SUBSET {} /\ \A b \in {} : ~Maker(b)
  OBVIOUS
<1> USE DEF PlainReasons
<1>q. QED BY <1>9, <1>10, <1>11, <1>12, PauseOrderly

\* Whatever the checks find, the run stays in order (ApplyVerificationResult).
LEMMA VerifiedOrderly ==
  ASSUME NEW s \in RunState, NEW h \in History, NEW q, Orderly(s, {}, h, q),
         s.stage = "verifying", s.pendingDecision = "",
         s.plan \in ArgvPlans => s.authorized = s.plan, NEW verdict \in Verdicts(s)
  PROVE  Orderly(Verified(s, verdict), {},
                 IF verdict \in {"passed", "skipped"}
                 THEN [h EXCEPT !.verified = TRUE, !.drifted = FALSE] ELSE h, q)
<1>1. Checkable(s, h, q)
  BY CheckableFacts
<1> DEFINE t == Verified(s, verdict)
<1>2. verdict \in {"skipped", "passed", "failed", "invalidated", "environment"}
  BY DEF Verdicts
<1>3. t \in RunState
  BY <1>2, VerifiedType
<1>4. CASE verdict \in {"skipped", "passed"}
  <2>1. t = [s EXCEPT !.stage = "assessing", !.outcome = "",
                      !.receipts = IF verdict = "skipped" THEN "none" ELSE "passed",
                      !.receiptsFor = IF verdict = "skipped" THEN None ELSE s.diff]
    BY <1>4 DEF Verified
  <2> HIDE DEF t
  <2>2. /\ t.stage = "assessing" /\ ChecksAllowCompletion(t)
        /\ t.diff = s.diff /\ t.implementer = s.implementer /\ t.plan = s.plan
        /\ t.assessments = s.assessments /\ t.repair = s.repair /\ t.queue = s.queue
        /\ t.reviews = s.reviews /\ t.pendingDecision = s.pendingDecision
        /\ t.approvedPlan = s.approvedPlan /\ t.authorized = s.authorized
        /\ t.pending = s.pending /\ t.outcome = "" /\ t.budgetPhase = s.budgetPhase
        /\ t.pendingPhase = s.pendingPhase
    BY <2>1 DEF RunState, ChecksAllowCompletion
  <2>3. Orderly(t, {}, [h EXCEPT !.verified = TRUE, !.drifted = FALSE], q)
    BY <1>1, <1>3, <2>2, PassedOrderly
  <2>q. QED BY <1>4, <2>3 DEF t
<1>5. CASE verdict = "failed"
  <2>1. t = [s EXCEPT !.stage = "implementing", !.outcome = "", !.pending = {},
                      !.receipts = "failed", !.receiptsFor = s.diff]
    BY <1>5 DEF Verified
  <2> HIDE DEF t
  <2>2. /\ t.stage = "implementing" /\ t.assessments = {} /\ t.queue = {}
        /\ t.pendingDecision = s.pendingDecision /\ t.pending = {} /\ t.outcome = ""
        /\ t.budgetPhase = s.budgetPhase /\ t.pendingPhase = s.pendingPhase
    BY <1>1, <2>1 DEF RunState, Checkable
  <2>3. Orderly(t, {}, h, q)
    BY <1>1, <1>3, <2>2, FailedChecksOrderly
  <2>q. QED BY <1>5, <2>3 DEF t
<1>6. CASE verdict = "invalidated"
  <2> DEFINE o == Invalidate(s)
  <2>1. /\ o \in RunState /\ o.assessments = {} /\ o.queue = {} /\ o.pending = {}
        /\ o.pendingDecision = s.pendingDecision
        /\ o.budgetPhase = s.budgetPhase /\ o.pendingPhase = s.pendingPhase
    <3>1. o \in RunState
      BY InvalidateType
    <3>q. QED BY <3>1 DEF Invalidate, RunState
  <2>2. t = [o EXCEPT !.stage = "implementing", !.outcome = "", !.receipts = "failed",
                      !.receiptsFor = s.diff]
    BY <1>6 DEF Verified
  <2> HIDE DEF t, o
  <2>3. /\ t.stage = "implementing" /\ t.assessments = {} /\ t.queue = {}
        /\ t.pendingDecision = s.pendingDecision /\ t.pending = {} /\ t.outcome = ""
        /\ t.budgetPhase = s.budgetPhase /\ t.pendingPhase = s.pendingPhase
    BY <2>1, <2>2 DEF RunState
  <2>4. Orderly(t, {}, h, q)
    BY <1>1, <1>3, <2>3, FailedChecksOrderly
  <2>q. QED BY <1>6, <2>4 DEF t
<1>7. CASE verdict = "environment"
  <2> DEFINE o == [s EXCEPT !.receipts = "failed", !.receiptsFor = s.diff]
  <2>1. t = Pause(o, "verification-environment-failed")
    BY <1>7 DEF Verified
  <2>2. o \in RunState
    <3>1. s.diff \in Candidates \cup {None}
      BY Fields
    <3>q. QED BY <3>1, Update
  <2>3. Orderly(Pause(o, "verification-environment-failed"), {}, h, q)
    BY <1>1, <2>2, NoEnvironmentOrderly
  <2> HIDE DEF t, o
  <2>4. Orderly(t, {}, h, q)
    BY <2>1, <2>3
  <2>q. QED BY <1>7, <2>4 DEF t
<1>q. QED BY <1>2, <1>4, <1>5, <1>6, <1>7

\* Whatever a driver does alone, the run stays in order.
LEMMA DriveOrderly ==
  ASSUME "other" \notin Events, SoundRun, Orderly(run, running, hist, patch), Drive
  PROVE  Orderly(run', running', hist', patch')
<1>1. run \in RunState /\ hist \in History
  BY DEF SoundRun, RunTypeOK, History
<1>2. running = {} /\ Orderly(run, {}, hist, patch)
  BY DEF Drive, PlanApprovalGate, AssignNext, NobodyEligible, MayAssign, BudgetStops,
         LaunchReviews, Verify, RetrySpecialistDecision, DriverError, DriverFree
<1>3. CASE PlanApprovalGate
  <2> DEFINE reason == IF ~RequirePlanApproval THEN "command-authorization-required"
                       ELSE IF run.plan = None THEN "plan-required"
                       ELSE "plan-approval-required"
  <2>1. /\ run' = [Pause(run, reason) EXCEPT !.pendingPhase = "implementing"]
        /\ run.stage = "implementing" /\ UNCHANGED <<running, hist, patch>>
    BY <1>3 DEF PlanApprovalGate, GateOpen
  <2>2. reason \in {"command-authorization-required", "plan-required",
                    "plan-approval-required"}
    OBVIOUS
  <2> HIDE DEF reason
  <2>q. QED BY <1>1, <1>2, <2>1, <2>2, GateOrderly
<1>4. CASE AssignNext
  <2>1. Driven(run, hist, patch)
    BY <1>1, <1>2, <1>4 DEF AssignNext, MayAssign, Decided, Driven
  <2>q. QED BY <1>2, <1>4, <2>1, AssignOrderly
<1>5. CASE NobodyEligible
  <2>1. PICK role \in RolesWanted(run) :
          \/ run' = Pause(WithFallback(run, role), FailedOutcome(role))
          \/ run' = Pause(WithFallback(run, role), "assessment-quorum-unavailable")
    BY <1>5 DEF NobodyEligible
  <2> DEFINE s == WithFallback(run, role)
  <2>2. s \in RunState /\ Alike(s, run) /\ role \in RolesWanted(s)
    BY <1>1, WithFallbackAlike
  <2>3. run.outcome # "approved"
    BY <1>1, <1>2, WantedFacts
  <2>4. Orderly(s, {}, hist, patch)
    BY <1>1, <1>2, <2>2, <2>3, AlikeOrderly
  <2>5. /\ Orderly(Pause(s, FailedOutcome(role)), {}, hist, patch)
        /\ Orderly(Pause(s, "assessment-quorum-unavailable"), {}, hist, patch)
    BY <2>2, <2>4, StrandedOrderly
  <2> HIDE DEF s
  <2>6. Orderly(run', {}, hist, patch)
    BY <2>1, <2>5 DEF s
  <2>q. QED BY <1>2, <1>5, <2>6 DEF NobodyEligible
<1>6. CASE BudgetStops
  <2>1. run.stage \in Working
    <3>1. RolesWanted(run) # {} => run.stage \in Working
      BY DEF RolesWanted, Working
    <3>q. QED BY <1>6, <3>1 DEF BudgetStops, Working
  <2>q. QED BY <1>1, <1>2, <1>6, <2>1, BudgetStopOrderly DEF BudgetStops
<1>7. CASE LaunchReviews
  <2>1. running' = run.pending /\ UNCHANGED <<run, hist, patch>>
    BY <1>2, <1>7 DEF LaunchReviews
  <2>2. Orderly(run, run.pending, hist, patch)
    BY <1>2, LaunchOrderly
  <2>q. QED BY <2>1, <2>2
<1>8. CASE Verify
  <2>1. run.stage = "verifying" /\ run.pendingDecision = "" /\ UNCHANGED <<running, patch>>
    BY <1>8 DEF Verify, Decided
  <2>2. CASE run' = Pause(run, "command-authorization-required") /\ UNCHANGED hist
    BY <1>1, <1>2, <2>1, <2>2, UnauthorizedOrderly
  <2>3. CASE /\ run.plan \in ArgvPlans => run.authorized = run.plan
             /\ \E verdict \in Verdicts(run) :
                  /\ run' = Verified(run, verdict)
                  /\ hist' = IF verdict \in {"passed", "skipped"}
                             THEN [hist EXCEPT !.verified = TRUE, !.drifted = FALSE]
                             ELSE hist
    BY <1>1, <1>2, <2>1, <2>3, VerifiedOrderly
  <2>q. QED BY <1>8, <2>2, <2>3 DEF Verify
<1>9. CASE RetrySpecialistDecision
  <2>1. /\ run.stage # "paused" /\ run.pendingDecision # "" /\ DecideAgain(run)
        /\ UNCHANGED <<running, patch>>
    BY <1>9 DEF RetrySpecialistDecision
  <2>2. run.budgetPhase # "verifying"
    BY <1>2, <2>1 DEF Orderly, Outside
  <2>q. QED BY <1>1, <1>2, <2>1, <2>2, DecideAgainOrderly
<1>10. CASE DriverError
  <2>1. /\ run.stage \in Working /\ run' \in DriveFailed(run)
        /\ UNCHANGED <<running, hist, patch>>
    BY <1>10 DEF DriverError
  <2>q. QED BY <1>1, <1>2, <2>1, DriveFailedOrderly
<1>q. QED BY <1>3, <1>4, <1>5, <1>6, <1>7, <1>8, <1>9, <1>10 DEF Drive

-----------------------------------------------------------------------------
(***************************************************************************)
(* The steps of an operator                                                *)
(***************************************************************************)

\* A run that stopped has no maker at work, unless a budget drains it.
LEMMA StoppedMakers ==
  ASSUME NEW s, NEW w, NEW h, NEW q, Orderly(s, w, h, q),
         NEW a \in Active(s, w), Maker(a), s.stage \in {"paused", "draining"}
  PROVE  s.stage = "draining" /\ s.budgetPhase \in {"planning", "implementing"}
BY DEF Orderly, OneMaker, AtWork

\* A resume that restores a saved phase keeps the order (sdlcResume).
LEMMA RestoredOrderly ==
  ASSUME NEW s \in RunState, NEW h, NEW q, Orderly(s, {}, h, q),
         s.stage = "paused", s.outcome # "budget-exhausted",
         NEW stage, Headed(s, stage), s.pendingDecision = "diff" => stage = "verifying",
         NEW t, SameData(t, s), t.pending = s.pending, t.stage = stage, t.outcome = "",
         t.pendingPhase = s.pendingPhase
            \/ (t.pendingPhase = "" /\ s.pendingDecision # "diff"),
         t.budgetPhase = s.budgetPhase
  PROVE  Orderly(t, {}, h, q)
<1>1. \A a \in Active(s, {}) : ~Maker(a)
  BY StoppedMakers
<1>2. s.budgetPhase # "verifying"
  BY DEF Orderly, Outside
<1>3. Moves(t, {}, s, {})
  BY <1>1, <1>2, RestartMoves
<1>q. QED BY <1>3, MovesOrderly

\* Continuing after the budgets were extended keeps the order
\* (continueBudgetTree).
LEMMA ContinuedOrderly ==
  ASSUME NEW s \in RunState, NEW h, NEW q, Orderly(s, {}, h, q),
         s.outcome = "budget-exhausted",
         NEW stage, stage = IF s.budgetPhase # "" THEN s.budgetPhase ELSE s.pendingPhase,
         NEW t, SameData(t, s), t.pending = s.pending, t.stage = stage, t.outcome = "",
         t.pendingPhase = s.pendingPhase, t.budgetPhase = ""
  PROVE  Orderly(t, {}, h, q)
<1>1. Headed(s, stage)
  BY DEF Headed
<1>2. s.stage \in {"paused", "draining", "done"}
  BY DEF Orderly, Outside
<1>3. \A a \in Active(s, {}) : Maker(a) => stage \in {"planning", "implementing"}
  <2>1. SUFFICES ASSUME NEW a \in Active(s, {}), Maker(a)
                 PROVE  stage \in {"planning", "implementing"}
    OBVIOUS
  <2>2. AtWork(s)
    BY <2>1 DEF Orderly, OneMaker
  <2>q. QED BY <1>2, <2>2 DEF AtWork
<1>4. s.pendingDecision = "diff" => stage = "verifying"
  <2>1. SUFFICES ASSUME s.pendingDecision = "diff" PROVE stage = "verifying"
    OBVIOUS
  <2>2. s.pendingPhase = "verifying"
    BY <2>1 DEF Orderly, OpenDecision
  <2>3. Headed(s, "verifying")
    BY <2>1, <2>2 DEF Headed
  <2>4. s.budgetPhase \in {"", "verifying"}
    BY <2>3, VerifyingAlone DEF Unjudged
  <2>q. QED BY <2>2, <2>4
<1>5. Moves(t, {}, s, {})
  BY <1>1, <1>3, <1>4, RestartMoves
<1>q. QED BY <1>5, MovesOrderly

\* --retry-failed returns to the phase of the role that failed, and changes
\* nothing that the order is about but the stage.
LEMMA RetriedFields ==
  ASSUME NEW s \in RunState,
         s.outcome \notin {"review-workspace-drift", "review-recovery-invalid"}
  PROVE  LET t == Retried(s)
         IN /\ SameData(t, s) /\ t.pending = s.pending /\ t.stage = RetryStage(s)
            /\ t.outcome = "" /\ t.budgetPhase = s.budgetPhase
            /\ t.pendingPhase = IF s.outcome = "handoff-budget-exhausted" THEN ""
                                ELSE s.pendingPhase
BY DEF Retried, Restarted, SameData, RunState

\* A retry of what failed keeps the order.
LEMMA RetryOrderly ==
  ASSUME NEW s \in RunState, NEW h, NEW q, Orderly(s, {}, h, q),
         s.stage = "paused", RetryStage(s) # ""
  PROVE  Orderly(Retried(s), {}, h, q) /\ Retried(s).diff = s.diff
<1>1. s.outcome \notin {"review-workspace-drift", "review-recovery-invalid"}
  BY DEF Orderly, Outside
<1>2. /\ s.outcome \in {"planner-failed", "implementer-failed", "assessor-failed",
                        "handoff-budget-exhausted"}
      /\ Headed(s, RetryStage(s))
  BY <1>1 DEF RetryStage, Headed
<1>3. s.pendingDecision # "diff"
  BY <1>2 DEF Orderly, OpenDecision
<1> DEFINE t == Retried(s)
<1>4. /\ SameData(t, s) /\ t.pending = s.pending /\ t.stage = RetryStage(s)
      /\ t.outcome = "" /\ t.budgetPhase = s.budgetPhase
      /\ t.pendingPhase = IF s.outcome = "handoff-budget-exhausted" THEN ""
                          ELSE s.pendingPhase
  BY <1>1, RetriedFields
<1> HIDE DEF t
<1>5. Orderly(t, {}, h, q)
  BY <1>2, <1>3, <1>4, RestoredOrderly
<1>q. QED BY <1>4, <1>5 DEF t, SameData

\* What an operator approves only adds to what a candidate has for it.
LEMMA GrantedOrderly ==
  ASSUME NEW s \in RunState, NEW w, NEW h, NEW q, Orderly(s, w, h, q),
         NEW lock \in {s.approvedPlan, s.plan},
         NEW t, t = [s EXCEPT !.approvedPlan = lock, !.authorized = s.plan]
  PROVE  Orderly(t, w, h, q)
<1> USE DEF Orderly
<1>1. /\ t.diff = s.diff /\ t.implementer = s.implementer /\ t.plan = s.plan
      /\ t.assessments = s.assessments /\ t.repair = s.repair /\ t.queue = s.queue
      /\ t.receipts = s.receipts /\ t.receiptsFor = s.receiptsFor
      /\ t.reviews = s.reviews /\ t.after = s.after
      /\ t.pendingDecision = s.pendingDecision
  BY DEF RunState
<1>2. /\ t.approvedPlan = lock /\ t.authorized = s.plan
      /\ t.pending = s.pending /\ t.stage = s.stage /\ t.outcome = s.outcome
      /\ t.budgetPhase = s.budgetPhase /\ t.pendingPhase = s.pendingPhase
      /\ t.retryPhase = s.retryPhase
  BY DEF RunState
<1>3. \A phase : Headed(t, phase) <=> Headed(s, phase)
  BY <1>1, <1>2 DEF Headed
<1>4. Active(t, w) = Active(s, w) /\ Judges(t, w) = Judges(s, w)
  BY <1>2 DEF Active, Judges
<1>5. Locked(s) => Locked(t)
  BY <1>1, <1>2 DEF Locked
<1>6. Heard(t) = Heard(s) /\ (Rejected(t) <=> Rejected(s))
  BY <1>1 DEF Heard, Rejected
<1>7. Fit(s, h, q) => Fit(t, h, q)
  BY <1>1, <1>2, <1>5, <1>6 DEF Fit, ChecksAllowCompletion
<1>8. /\ Judging(t, w) <=> Judging(s, w)
      /\ Unverified(t) <=> Unverified(s)
      /\ Asking(t, w) <=> Asking(s, w)
  BY <1>1, <1>3, <1>4 DEF Judging, Unverified, Asking
<1>9. FitToJudge(t, w, h, q) /\ ApprovedFinally(t, w, h, q)
  BY <1>2, <1>4, <1>7, <1>8 DEF FitToJudge, ApprovedFinally
<1>10. ReadyToVerify(t, h, q)
  <2>1. Unjudged(s, h, q) => Unjudged(t, h, q)
    BY <1>1, <1>2, <1>3, <1>5, <1>6 DEF Unjudged
  <2>q. QED BY <1>8, <2>1 DEF ReadyToVerify
<1>11. ExpertsFirst(t, w)
  BY <1>2, <1>3, <1>4, <1>8 DEF ExpertsFirst
<1>12. OneMaker(t, w)
  BY <1>1, <1>2, <1>4, <1>5, <1>8 DEF OneMaker, AtWork
<1>13. OpenDecision(t, w, h) /\ Outside(t, w)
  BY <1>1, <1>2, <1>4 DEF OpenDecision, Outside
<1>14. VotesLeft(t, w)
  BY <1>1, <1>2, <1>3, <1>4, <1>8 DEF VotesLeft
<1>15. RejectedBefore(t, w)
  BY <1>2, <1>3, <1>4, <1>6, <1>8 DEF RejectedBefore
<1>q. QED BY <1>9, <1>10, <1>11, <1>12, <1>13, <1>14, <1>15

\* An approval or an authorization that restarts the run keeps the order.
LEMMA GrantRestartOrderly ==
  ASSUME NEW s \in RunState, NEW h, NEW q, Orderly(s, {}, h, q), s.stage = "paused",
         s.outcome \in {"plan-approval-required", "command-authorization-required"},
         NEW t, t = [Restarted(s, s.pendingPhase) EXCEPT !.pendingPhase = ""]
  PROVE  Orderly(t, {}, h, q)
<1>1. /\ SameData(t, s) /\ t.pending = s.pending /\ t.stage = s.pendingPhase
      /\ t.outcome = "" /\ t.pendingPhase = "" /\ t.budgetPhase = s.budgetPhase
  BY DEF Restarted, SameData, RunState
<1>2. Headed(s, s.pendingPhase)
  BY DEF Headed
<1>3. s.pendingDecision # "diff"
  BY DEF Orderly, OpenDecision
<1>q. QED BY <1>1, <1>2, <1>3, RestoredOrderly

\* A plan that is sent back leaves a candidate of its own to be judged only if
\* that was rejected (sdlcRequestPlanChanges).
LEMMA SentBackPlanOrderly ==
  ASSUME NEW s \in RunState, NEW h, NEW q, Orderly(s, {}, h, q),
         s.outcome = "plan-approval-required", s.pending = {},
         NEW t \in RunState, t.stage = "planning", t.outcome = "", t.pending = {},
         t.diff = s.diff, t.assessments = s.assessments,
         t.receipts = s.receipts, t.receiptsFor = s.receiptsFor,
         t.pendingDecision = "", t.pendingPhase = "", t.queue = {},
         t.budgetPhase = s.budgetPhase
  PROVE  Orderly(t, {}, h, q)
<1>1. Active(t, {}) = {} /\ Judges(t, {}) = {} /\ Judges(s, {}) = {}
  BY DEF Active, Judges
<1>2. s.pendingPhase = "implementing" /\ s.budgetPhase # "verifying"
  BY DEF Orderly, Outside
<1>3. \A phase \in {"assessing", "verifying"} : Headed(t, phase) => Headed(s, phase)
  BY DEF Headed
<1>4. ~Headed(t, "verifying")
  BY <1>2 DEF Headed
<1>5. Judging(t, {}) => /\ Headed(s, "assessing") /\ Judging(s, {})
  BY <1>1, <1>3 DEF Judging
<1>6. Judging(t, {}) => Rejected(s) /\ Rejected(t)
  BY <1>2, <1>5 DEF Orderly, RejectedBefore, Rejected
<1>7. Judging(t, {}) => Fit(t, h, q)
  <2>1. Judging(t, {}) => Fit(s, h, q)
    BY <1>5 DEF Orderly, FitToJudge
  <2>q. QED BY <1>6, <2>1 DEF Fit, ChecksAllowCompletion
<1>8. ~Unverified(t) /\ ~Asking(t, {})
  BY <1>1, <1>4 DEF Unverified, Asking
<1>9. FitToJudge(t, {}, h, q) /\ ReadyToVerify(t, h, q) /\ ApprovedFinally(t, {}, h, q)
  BY <1>7, <1>8 DEF FitToJudge, ReadyToVerify, ApprovedFinally
<1>10. ExpertsFirst(t, {}) /\ OneMaker(t, {}) /\ OpenDecision(t, {}, h)
  BY <1>1, <1>8 DEF ExpertsFirst, OneMaker, OpenDecision
<1>11. VotesLeft(t, {})
  BY <1>1, <1>3, <1>5 DEF Orderly, VotesLeft
<1>12. Outside(t, {})
  BY <1>2 DEF Orderly, Outside
<1>13. RejectedBefore(t, {})
  BY <1>6 DEF RejectedBefore
<1>q. QED BY <1>9, <1>10, <1>11, <1>12, <1>13 DEF Orderly

\* t is s restarted in the stage, with these phases saved.
RestartedAs(t, s, stage, pendingPhase, budgetPhase) ==
    /\ SameData(t, s) /\ t.pending = s.pending /\ t.recovery = s.recovery
    /\ t.stage = stage /\ t.outcome = ""
    /\ t.pendingPhase = pendingPhase /\ t.budgetPhase = budgetPhase

\* A restart changes the stage, and forgets the outcome and at most one phase.
LEMMA RestartFields ==
  ASSUME NEW s \in RunState, NEW stage
  PROVE  LET r == Restarted(s, stage)
         IN /\ RestartedAs(r, s, stage, s.pendingPhase, s.budgetPhase)
            /\ RestartedAs([r EXCEPT !.pendingPhase = ""], s, stage, "", s.budgetPhase)
            /\ RestartedAs([r EXCEPT !.budgetPhase = ""], s, stage, s.pendingPhase, "")
            /\ RestartedAs([r EXCEPT !.retryPhase = ""], s, stage, s.pendingPhase,
                           s.budgetPhase)
<1> DEFINE r == Restarted(s, stage)
<1>1. r = [s EXCEPT !.stage = stage, !.outcome = ""]
  BY DEF Restarted
<1> HIDE DEF r
<1>2. RestartedAs(r, s, stage, s.pendingPhase, s.budgetPhase)
  BY <1>1 DEF RestartedAs, SameData, RunState
<1>3. RestartedAs([r EXCEPT !.pendingPhase = ""], s, stage, "", s.budgetPhase)
  BY ZenonT(60), <1>1, <1>2 DEF RestartedAs, SameData, RunState
<1>4. RestartedAs([r EXCEPT !.budgetPhase = ""], s, stage, s.pendingPhase, "")
  BY <1>1, <1>2 DEF RestartedAs, SameData, RunState
<1>5. RestartedAs([r EXCEPT !.retryPhase = ""], s, stage, s.pendingPhase, s.budgetPhase)
  BY ZenonT(60), <1>1, <1>2 DEF RestartedAs, SameData, RunState
<1>q. QED BY <1>2, <1>3, <1>4, <1>5 DEF r

\* Whatever an operator does, the run stays in order.
LEMMA ResumeOrderly ==
  ASSUME "other" \notin Events, SoundRun, Orderly(run, running, hist, patch), Resume
  PROVE  Orderly(run', running', hist', patch')
<1>1. run \in RunState /\ hist \in History /\ Sound(run) /\ run.recovery = None
  BY DEF SoundRun, RunTypeOK, History, Sound
<1>2. /\ running = {} /\ Orderly(run, {}, hist, patch)
      /\ UNCHANGED <<running, patch>>
  BY DEF Resume, ResumeInjection, ContinueBudget, ResumeInvocation, RetryFailed,
         RetryVerification, ResumeDecision, ResumeReview, ApprovePlan, AuthorizeChecks,
         RequestPlanChanges, DriverFree
<1>3. \A s : s.recovery = None => MarkCounted(s) = s /\ Recovered(s) = {s}
  BY DEF MarkCounted, Recovered
<1>4. \A s : s.recovery = None /\ ResumeTo(s) => run' = s
  BY <1>3 DEF ResumeTo
<1>5. CASE ResumeInjection
  <2> DEFINE s == [Restarted(run, run.pendingPhase) EXCEPT !.pendingPhase = ""]
  <2>1. /\ run.stage = "paused" /\ run.outcome = "injection-review-required"
        /\ ResumeTo(s) /\ UNCHANGED hist
    BY <1>5 DEF ResumeInjection
  <2>0. RestartedAs(s, run, run.pendingPhase, "", run.budgetPhase)
    BY <1>1, RestartFields
  <2>2. /\ SameData(s, run) /\ s.pending = run.pending /\ s.stage = run.pendingPhase
        /\ s.outcome = "" /\ s.pendingPhase = "" /\ s.budgetPhase = run.budgetPhase
        /\ s.recovery = None
    BY <1>1, <2>0 DEF RestartedAs
  <2> HIDE DEF s
  <2>3. Headed(run, run.pendingPhase) /\ run.pendingDecision # "diff"
    BY <1>2, <2>1 DEF Headed, Orderly, OpenDecision
  <2>4. run' = s
    BY <1>4, <2>1, <2>2
  <2>5. Orderly(s, {}, hist, patch)
    BY <1>1, <1>2, <2>1, <2>2, <2>3, RestoredOrderly
  <2>q. QED BY <1>2, <2>1, <2>4, <2>5
<1>6. CASE ContinueBudget
  <2> DEFINE phase == IF run.budgetPhase # "" THEN run.budgetPhase ELSE run.pendingPhase
             s == [Restarted(run, phase) EXCEPT !.budgetPhase = ""]
  <2>1. run.outcome = "budget-exhausted" /\ ResumeTo(s) /\ UNCHANGED hist
    BY <1>6 DEF ContinueBudget
  <2>0. RestartedAs(s, run, phase, run.pendingPhase, "")
    BY <1>1, RestartFields
  <2>2. /\ SameData(s, run) /\ s.pending = run.pending /\ s.stage = phase
        /\ s.outcome = "" /\ s.pendingPhase = run.pendingPhase /\ s.budgetPhase = ""
        /\ s.recovery = None
    BY <1>1, <2>0 DEF RestartedAs
  <2> HIDE DEF s
  <2>3. run' = s
    BY <1>4, <2>1, <2>2
  <2>4. Orderly(s, {}, hist, patch)
    BY <1>1, <1>2, <2>1, <2>2, ContinuedOrderly
  <2>q. QED BY <1>2, <2>1, <2>3, <2>4
<1>7. CASE ResumeInvocation
  <2> DEFINE s == [Restarted(run, run.retryPhase) EXCEPT !.retryPhase = ""]
  <2>1. /\ run.stage = "paused"
        /\ run.outcome \in {"invocation-timeout", "session-recovery-required"}
        /\ ResumeTo(s) /\ UNCHANGED hist
    BY <1>7 DEF ResumeInvocation
  <2>0. RestartedAs(s, run, run.retryPhase, run.pendingPhase, run.budgetPhase)
    BY <1>1, RestartFields
  <2>2. /\ SameData(s, run) /\ s.pending = run.pending /\ s.stage = run.retryPhase
        /\ s.outcome = "" /\ s.pendingPhase = run.pendingPhase
        /\ s.budgetPhase = run.budgetPhase /\ s.recovery = None
    BY <1>1, <2>0 DEF RestartedAs
  <2> HIDE DEF s
  <2>3. Headed(run, run.retryPhase) /\ run.pendingDecision # "diff"
    BY <1>2, <2>1 DEF Headed, Orderly, OpenDecision
  <2>4. run' = s
    BY <1>4, <2>1, <2>2
  <2>5. Orderly(s, {}, hist, patch)
    BY <1>1, <1>2, <2>1, <2>2, <2>3, RestoredOrderly
  <2>q. QED BY <1>2, <2>1, <2>4, <2>5
<1>8. CASE RetryFailed
  <2>1. /\ run.stage = "paused" /\ RetryStage(run) # ""
        /\ run' \in Recovered(Retried(run))
        /\ hist' = IF run'.diff = run.diff THEN hist ELSE Unseen
    BY <1>1, <1>3, <1>8 DEF RetryFailed
  <2>2. Orderly(Retried(run), {}, hist, patch) /\ Retried(run).diff = run.diff
    BY <1>1, <1>2, <2>1, RetryOrderly
  <2>3. Retried(run).recovery = None
    <3>1. Sound(Retried(run))
      BY <1>1, RetriedSound DEF SoundRun, RunTypeOK
    <3>q. QED BY <3>1 DEF Sound
  <2>4. run' = Retried(run) /\ hist' = hist
    BY <1>3, <2>1, <2>2, <2>3
  <2>q. QED BY <1>2, <2>2, <2>4
<1>9. CASE RetryVerification
  <2> DEFINE s == Restarted(run, "verifying")
  <2>1. /\ run.stage = "paused" /\ run.outcome = "verification-environment-failed"
        /\ run' = MarkCounted(s) /\ UNCHANGED hist
    BY <1>9 DEF RetryVerification
  <2>0. RestartedAs(s, run, "verifying", run.pendingPhase, run.budgetPhase)
    BY <1>1, RestartFields
  <2>2. /\ SameData(s, run) /\ s.pending = run.pending /\ s.stage = "verifying"
        /\ s.outcome = "" /\ s.pendingPhase = run.pendingPhase
        /\ s.budgetPhase = run.budgetPhase /\ s.recovery = None
    BY <1>1, <2>0 DEF RestartedAs
  <2> HIDE DEF s
  <2>3. Headed(run, "verifying")
    BY <2>1 DEF Headed
  <2>4. run' = s
    BY <1>3, <2>1, <2>2
  <2>5. Orderly(s, {}, hist, patch)
    BY <1>1, <1>2, <2>1, <2>2, <2>3, RestoredOrderly
  <2>q. QED BY <1>2, <2>1, <2>4, <2>5
<1>10. CASE ResumeDecision
  <2>1. /\ run.pendingDecision # "" /\ run.outcome # "budget-exhausted" /\ DecideAgain(run)
    BY <1>1, <1>3, <1>10 DEF ResumeDecision
  <2>2. run.budgetPhase # "verifying"
    BY <1>2, <2>1 DEF Orderly, Outside
  <2>q. QED BY <1>1, <1>2, <2>1, <2>2, DecideAgainOrderly
<1>11. CASE ResumeReview
  BY <1>1, <1>11 DEF ResumeReview
<1>12. CASE ApprovePlan
  <2> DEFINE s == [run EXCEPT !.approvedPlan = run.plan, !.authorized = run.plan]
             t == [Restarted(s, s.pendingPhase) EXCEPT !.pendingPhase = ""]
  <2>1. /\ run' = s \/ (run.stage = "paused" /\ run' = t)
        /\ run.stage = "paused" => run.outcome = "plan-approval-required"
        /\ UNCHANGED hist
    BY <1>12 DEF ApprovePlan
  <2>2. s \in RunState /\ s.stage = run.stage /\ s.outcome = run.outcome
    <3>1. s \in RunState
      BY <1>1, Fields, Update
    <3>q. QED BY <1>1, <3>1 DEF RunState
  <2>3. Orderly(s, {}, hist, patch)
    BY <1>1, <1>2, GrantedOrderly
  <2> HIDE DEF s
  <2>4. run.stage = "paused" => Orderly(t, {}, hist, patch)
    BY <2>1, <2>2, <2>3, GrantRestartOrderly
  <2>q. QED BY <1>2, <2>1, <2>3, <2>4
<1>13. CASE AuthorizeChecks
  <2> DEFINE s == [run EXCEPT !.authorized = run.plan]
             t == [Restarted(s, s.pendingPhase) EXCEPT !.pendingPhase = ""]
  <2>1. /\ \/ run' = s
           \/ /\ run.stage = "paused" /\ run.outcome = "command-authorization-required"
              /\ run' = t
        /\ UNCHANGED hist
    BY <1>13 DEF AuthorizeChecks
  <2>2. s \in RunState /\ s.stage = run.stage /\ s.outcome = run.outcome
    <3>1. s \in RunState
      BY <1>1, Fields, Update
    <3>q. QED BY <1>1, <3>1 DEF RunState
  <2>3. s = [run EXCEPT !.approvedPlan = run.approvedPlan, !.authorized = run.plan]
    BY <1>1 DEF RunState
  <2>4. Orderly(s, {}, hist, patch)
    BY <1>1, <1>2, <2>3, GrantedOrderly
  <2> HIDE DEF s
  <2>5. run.stage = "paused" /\ run.outcome = "command-authorization-required"
        => Orderly(t, {}, hist, patch)
    BY <2>2, <2>4, GrantRestartOrderly
  <2>q. QED BY <1>2, <2>1, <2>4, <2>5
<1>14. CASE RequestPlanChanges
  <2>1. /\ run.outcome = "plan-approval-required" /\ run.pending = {} /\ UNCHANGED hist
        /\ run' = [Restarted(run, "planning") EXCEPT
                     !.approvedPlan = None, !.authorized = None, !.pendingDecision = "",
                     !.pendingPhase = "", !.queue = {}, !.reviews = {}, !.after = ""]
    BY <1>14 DEF RequestPlanChanges
  <2> DEFINE r == Restarted(run, "planning")
  <2>2. /\ r \in RunState /\ r.stage = "planning" /\ r.outcome = "" /\ r.pending = {}
        /\ r.diff = run.diff /\ r.assessments = run.assessments
        /\ r.receipts = run.receipts /\ r.receiptsFor = run.receiptsFor
        /\ r.budgetPhase = run.budgetPhase
    <3>1. r \in RunState
      BY <1>1, RestartedType, StageNames DEF Working
    <3>2. /\ r.stage = "planning" /\ r.outcome = "" /\ r.pending = run.pending
          /\ r.budgetPhase = run.budgetPhase /\ SameData(r, run)
      <4>1. RestartedAs(r, run, "planning", run.pendingPhase, run.budgetPhase)
        BY <1>1, RestartFields
      <4>q. QED BY <4>1 DEF RestartedAs
    <3> HIDE DEF r
    <3>q. QED BY <2>1, <3>1, <3>2 DEF SameData
  <2>3. run' = [r EXCEPT !.approvedPlan = None, !.authorized = None, !.pendingDecision = "",
                     !.pendingPhase = "", !.queue = {}, !.reviews = {}, !.after = ""]
    BY <2>1
  <2> HIDE DEF r
  <2>4. run' \in RunState
    BY <2>2, <2>3, Update, StageNames
  <2>5. /\ run'.stage = "planning" /\ run'.outcome = "" /\ run'.pending = {}
        /\ run'.diff = run.diff /\ run'.assessments = run.assessments
        /\ run'.receipts = run.receipts /\ run'.receiptsFor = run.receiptsFor
        /\ run'.pendingDecision = "" /\ run'.pendingPhase = "" /\ run'.queue = {}
        /\ run'.budgetPhase = run.budgetPhase
    BY <2>2, <2>3 DEF RunState
  <2>q. QED BY <1>1, <1>2, <2>1, <2>4, <2>5, SentBackPlanOrderly
<1>q. QED BY <1>5, <1>6, <1>7, <1>8, <1>9, <1>10, <1>11, <1>12, <1>13, <1>14 DEF Resume

-----------------------------------------------------------------------------
(***************************************************************************)
(* The invariant                                                           *)
(***************************************************************************)

\* Every run starts in order (sdlcStart).
LEMMA InitOrderly == Init => Orderly(run, running, hist, patch)
<1> SUFFICES ASSUME Init PROVE Orderly(run, {}, Unseen, run.diff)
  BY DEF Init
<1>1. PICK seed \in Seeds, p \in Plans, c \in Candidates : run = Seeded(seed, p, c)
  BY DEF Init
<1>2. seed \in AllSeeds /\ c # None
  BY RunConstants, StateConstants
<1>3. /\ run.outcome = "" /\ run.budgetPhase = "" /\ run.pendingPhase = ""
      /\ run.pendingDecision = "" /\ run.pending = {} /\ run.queue = {}
      /\ run.assessments = {} /\ run.repair = None /\ run.implementer = None
      /\ run.stage \in {"planning", "implementing", "verifying"}
      /\ run.stage = "verifying" => run.diff = c
  BY <1>1, <1>2 DEF Seeded, Fresh, AllSeeds
<1>4. Active(run, {}) = {} /\ Judges(run, {}) = {} /\ ~Asking(run, {})
  BY <1>3 DEF Active, Judges, Asking
<1>5. /\ ~Headed(run, "assessing")
      /\ Headed(run, "verifying") <=> run.stage = "verifying"
  BY <1>3 DEF Headed
<1>6. IsFiniteSet({})
  BY FS_EmptySet
<1>7. InBounds(run)
  BY <1>3 DEF InBounds
<1>8. CASE run.stage # "verifying"
  BY <1>3, <1>4, <1>5, <1>6, <1>7, <1>8, QuietOrderly
<1>9. CASE run.stage = "verifying"
  <2>1. ~Judging(run, {})
    BY <1>4, <1>5 DEF Judging
  <2>2. Unjudged(run, Unseen, run.diff)
    <3>1. \A phase \in {"planning", "implementing", "assessing"} : ~Headed(run, phase)
      BY <1>3, <1>9 DEF Headed
    <3>q. QED BY <1>2, <1>3, <1>9, <3>1 DEF Unjudged, Unseen
  <2>3. /\ FitToJudge(run, {}, Unseen, run.diff) /\ ReadyToVerify(run, Unseen, run.diff)
        /\ ApprovedFinally(run, {}, Unseen, run.diff)
    BY <1>3, <2>1, <2>2 DEF FitToJudge, ReadyToVerify, ApprovedFinally
  <2>4. /\ ExpertsFirst(run, {}) /\ OneMaker(run, {}) /\ OpenDecision(run, {}, Unseen)
        /\ RejectedBefore(run, {})
    BY <1>3, <1>4, <2>1 DEF ExpertsFirst, OneMaker, OpenDecision, RejectedBefore
  <2>5. VotesLeft(run, {}) /\ Outside(run, {})
    BY <1>3, <1>4, <1>5, <1>6, <2>1 DEF VotesLeft, Outside
  <2>q. QED BY <2>3, <2>4, <2>5 DEF Orderly
<1>q. QED BY <1>8, <1>9

\* The inductive invariant: the review is sound, and what precedes it in order.
OrderlyRun == SoundRun /\ Orderly(run, running, hist, patch)

\* Whoever acts, what precedes a review stays in order.
LEMMA OrderlyStep ==
  ASSUME "other" \notin Events, "drift" \notin Events, Plans \cap Candidates = {},
         OrderlyRun, [Next]_vars
  PROVE  OrderlyRun'
<1>1. SoundRun /\ Orderly(run, running, hist, patch)
  BY DEF OrderlyRun
<1>2. SoundRun'
  BY <1>1, SoundStep
<1>3. Orderly(run', running', hist', patch')
  <2>1. CASE Drive
    BY <1>1, <2>1, DriveOrderly
  <2>2. CASE Invocation
    BY <1>1, <2>2, InvocationOrderly
  <2>3. CASE Resume
    BY <1>1, <2>3, ResumeOrderly
  <2>4. CASE UNCHANGED vars
    BY <1>1, <2>4 DEF vars
  <2>q. QED BY <2>1, <2>2, <2>3, <2>4 DEF Next
<1>q. QED BY <1>2, <1>3 DEF OrderlyRun

-----------------------------------------------------------------------------
(***************************************************************************)
(* What an approval says                                                   *)
(***************************************************************************)

\* An approved run is fit, and nobody rejected it.
LEMMA ApprovedFit ==
  ASSUME OrderlyRun, ApprovedRun
  PROVE  /\ Fit(run, hist, patch) /\ ~Rejected(run) /\ run.pending = {} /\ running = {}
         /\ replies = {} /\ run \in RunState
<1>1. SoundRun /\ Orderly(run, running, hist, patch)
  BY DEF OrderlyRun
<1>2. Fit(run, hist, patch) /\ Active(run, running) = {}
  BY <1>1 DEF Orderly, ApprovedFinally, ApprovedRun
<1>3. ~Rejected(run)
  BY <1>1 DEF SoundRun, Sound, ApprovedSoundly, Done, ApprovedRun, Rejected
<1>q. QED BY <1>1, <1>2, <1>3 DEF Active, SoundRun, RunTypeOK

\* In every state of the invariant an approval says what it should.
LEMMA ApprovedInOrder ==
  ASSUME OrderlyRun
  PROVE  ApprovedWasVerified /\ ExpertsHeard /\ ApprovedIsUnrejected /\ ApprovedPlanOnly
<1>1. ApprovedRun => Fit(run, hist, patch) /\ ~Rejected(run)
  BY ApprovedFit
<1>2. ApprovedWasVerified
  BY <1>1 DEF ApprovedWasVerified, Fit
<1>3. ExpertsHeard
  BY <1>1 DEF ExpertsHeard, Fit, Heard
<1>4. ApprovedIsUnrejected
  BY <1>1 DEF ApprovedIsUnrejected, Fit
<1>5. ApprovedPlanOnly
  BY <1>1 DEF ApprovedPlanOnly, Fit, Locked
<1>q. QED BY <1>2, <1>3, <1>4, <1>5

\* Fewer votes than the quorum leave a slot.
LEMMA SlotLeft ==
  ASSUME NEW votes \in Nat, votes < Quorum
  PROVE  (IF votes + 0 >= Quorum THEN 0 ELSE Quorum - (votes + 0)) > 0
<1>1. Quorum \in Nat
  BY StateConstants
<1>q. QED BY <1>1

\* In every state of the invariant the review stage has work.
LEMMA WorkLeft ==
  ASSUME OrderlyRun
  PROVE  ReviewStageHasWork
<1> SUFFICES ASSUME run.stage = "assessing", run.pending = {}
             PROVE  SlotsNeeded(run) > 0
  BY DEF ReviewStageHasWork
<1>1. Headed(run, "assessing")
  BY DEF Headed
<1>2. IsFiniteSet(run.assessments) /\ Cardinality(run.assessments) < Quorum
  BY <1>1 DEF OrderlyRun, Orderly, VotesLeft
<1>3. Cardinality(run.assessments) \in Nat /\ Cardinality(run.pending) = 0
  BY <1>2, FS_CardinalityType, FS_EmptySet
<1> DEFINE votes == Cardinality(run.assessments)
<1>4. SlotsNeeded(run) = IF votes + 0 >= Quorum THEN 0 ELSE Quorum - (votes + 0)
  BY <1>3 DEF SlotsNeeded
<1>q. QED BY <1>2, <1>3, <1>4, SlotLeft

\* Nothing happens to an approved run.
LEMMA ApprovedStays ==
  ASSUME "drift" \notin Events, OrderlyRun, ApprovedRun, [Next]_vars
  PROVE  UNCHANGED <<run, patch>>
<1>1. /\ run.stage = "done" /\ run.outcome = "approved" /\ run.pending = {} /\ running = {}
      /\ replies = {} /\ run.pendingDecision = ""
      /\ run.plan \in ArgvPlans => run.authorized = run.plan
  BY ApprovedFit DEF ApprovedRun, Fit
<1>2. RolesWanted(run) = {} /\ ~ParallelReviews(run) /\ Executing = {}
  BY <1>1 DEF RolesWanted, ParallelReviews, Executing
<1>3. ~Drive
  <2>1. ~PlanApprovalGate
    BY <1>1 DEF PlanApprovalGate, GateOpen
  <2>2. ~AssignNext /\ ~NobodyEligible /\ ~BudgetStops
    BY <1>1, <1>2 DEF AssignNext, NobodyEligible, MayAssign, BudgetStops
  <2>3. ~LaunchReviews /\ ~Verify /\ ~RetrySpecialistDecision /\ ~DriverError
    BY <1>1, <1>2 DEF LaunchReviews, Verify, RetrySpecialistDecision, DriverError, Working
  <2>q. QED BY <2>1, <2>2, <2>3 DEF Drive
<1>4. ~Invocation
  <2>1. ~Report /\ ~FailAssignment /\ ~LoseSession /\ ~InjectionReview /\ ~UnsafeReview
    BY <1>1, <1>2 DEF Report, FailAssignment, LoseSession, InjectionReview, UnsafeReview
  <2>2. ~CancelReview /\ ~SaveReview /\ ~FinishReview /\ ~Crash
    BY <1>1, <1>2 DEF CancelReview, SaveReview, FinishReview, Crash
  <2>q. QED BY <2>1, <2>2 DEF Invocation
<1>5. ~Resume
  BY <1>1 DEF Resume, ResumeInjection, ContinueBudget, ResumeInvocation, RetryFailed,
              RetryVerification, ResumeDecision, ResumeReview, ApprovePlan,
              AuthorizeChecks, RequestPlanChanges
<1>q. QED BY <1>3, <1>4, <1>5 DEF Next, vars

\* The invariant holds of every behaviour of one driver whose workspace does
\* not drift.
THEOREM RunInOrder ==
  ASSUME "other" \notin Events, "drift" \notin Events, Plans \cap Candidates = {}
  PROVE  Spec => []OrderlyRun
<1>1. Init => OrderlyRun
  BY InitType, InitSound, InitOrderly DEF Init, SoundRun, OrderlyRun
<1>2. OrderlyRun /\ [Next]_vars => OrderlyRun'
  BY OrderlyStep
<1>q. QED BY <1>1, <1>2, PTL DEF Spec

\* Whatever fails, is retried, drained, resumed or sent back in between, an
\* approved candidate was verified, by checks that an operator authorized.
THEOREM ApprovalIsOfVerifiedCandidate ==
  ASSUME "other" \notin Events, "drift" \notin Events, Plans \cap Candidates = {}
  PROVE  Spec => []ApprovedWasVerified
<1>1. OrderlyRun => ApprovedWasVerified
  BY ApprovedInOrder
<1>q. QED BY <1>1, RunInOrder, PTL

\* Every expert demanded for it approved it.
THEOREM ApprovalHeardExperts ==
  ASSUME "other" \notin Events, "drift" \notin Events, Plans \cap Candidates = {}
  PROVE  Spec => []ExpertsHeard
<1>1. OrderlyRun => ExpertsHeard
  BY ApprovedInOrder
<1>q. QED BY <1>1, RunInOrder, PTL

\* Nobody, expert or assessor, ever rejected it.
THEOREM ApprovalIsUnrejected ==
  ASSUME "other" \notin Events, "drift" \notin Events, Plans \cap Candidates = {}
  PROVE  Spec => []ApprovedIsUnrejected
<1>1. OrderlyRun => ApprovedIsUnrejected
  BY ApprovedInOrder
<1>q. QED BY <1>1, RunInOrder, PTL

\* It was made under the plan that was approved and whose commands were authorized.
THEOREM ApprovalIsOfApprovedPlan ==
  ASSUME "other" \notin Events, "drift" \notin Events, Plans \cap Candidates = {}
  PROVE  Spec => []ApprovedPlanOnly
<1>1. OrderlyRun => ApprovedPlanOnly
  BY ApprovedInOrder
<1>q. QED BY <1>1, RunInOrder, PTL

\* The review stage always has somebody to wait for, or to assign.
THEOREM ReviewHasWork ==
  ASSUME "other" \notin Events, "drift" \notin Events, Plans \cap Candidates = {}
  PROVE  Spec => []ReviewStageHasWork
<1>1. OrderlyRun => ReviewStageHasWork
  BY WorkLeft
<1>q. QED BY <1>1, RunInOrder, PTL

\* Nothing reopens an approved run: no late result, failure, crash or resume.
THEOREM ApprovalIsFinal ==
  ASSUME "other" \notin Events, "drift" \notin Events, Plans \cap Candidates = {}
  PROVE  Spec => DoneIsFinal
<1>1. OrderlyRun /\ [Next]_vars => [ApprovedRun => UNCHANGED <<run, patch>>]_vars
  BY ApprovedStays
<1>q. QED BY <1>1, RunInOrder, PTL DEF Spec, DoneIsFinal

-----------------------------------------------------------------------------
(***************************************************************************)
(* The votes on a candidate, step by step                                  *)
(***************************************************************************)

\* What is reviewed, and said of it, is the same in t as in s.
Stands(t, s) ==
    /\ t.diff = s.diff /\ t.implementer = s.implementer /\ t.assessments = s.assessments
    /\ Done(t) => Done(s)

\* t counts one more vote than s, where one is missing.
Adds(t, s) ==
    /\ s.diff # None /\ Cardinality(s.assessments) < Quorum
    /\ t.diff = s.diff /\ t.implementer = s.implementer
    /\ \E x \in Assessment : t.assessments = s.assessments \cup {x}

\* In t there is a new candidate, nobody has said anything about.
Resubmits(t) == t.diff \in Candidates /\ t.assessments = {} /\ ~Done(t)

\* In t the review of the candidate of s starts over.
Clears(t, s) ==
    /\ t.diff = s.diff /\ t.implementer = s.implementer /\ t.assessments = {} /\ ~Done(t)

\* A step of the review: any of these.
Reviewed(t, s) == Stands(t, s) \/ Adds(t, s) \/ Resubmits(t) \/ Clears(t, s)

\* What stands before or after a step of the review is part of it.
LEMMA StandsAround ==
  ASSUME NEW s, NEW t, NEW u
  PROVE  /\ Stands(u, t) /\ Reviewed(t, s) => Reviewed(u, s)
         /\ Reviewed(u, t) /\ Stands(t, s) => Reviewed(u, s)
         /\ Stands(u, t) /\ Stands(t, s) => Stands(u, s)
         /\ Stands(s, s)
BY DEF Stands, Reviewed, Adds, Resubmits, Clears, Done

\* A pause leaves the review alone.
LEMMA PauseStands ==
  ASSUME NEW s \in RunState, NEW reason, reason # "approved"
  PROVE  Stands(Pause(s, reason), s)
BY DEF Pause, Stands, RunState, Done

\* A retry leaves it alone as well, unless a saved review was invalid.
LEMMA RetriedStands ==
  ASSUME NEW s \in RunState,
         s.outcome \notin {"review-workspace-drift", "review-recovery-invalid"}
  PROVE  Stands(Retried(s), s)
<1>1. SameData(Retried(s), s) /\ Retried(s).outcome = ""
  BY RetriedFields
<1>q. QED BY <1>1 DEF Stands, SameData, Done

\* budgetGate, open or closed.
LEMMA GatedStands ==
  ASSUME NEW s \in RunState, NEW t \in Gated(s)
  PROVE  Stands(t, s)
<1>1. t = s \/ t = Pause(s, "budget-exhausted")
  BY DEF Gated
<1>q. QED BY <1>1, PauseStands, StandsAround

\* A pause because no other binding is left for the role.
LEMMA ReroutedStands ==
  ASSUME NEW s \in RunState, NEW t \in Rerouted(s)
  PROVE  Stands(t, s)
<1>1. t = s \/ \E role : t = Pause(s, FailedOutcome(role))
  BY DEF Rerouted
<1>q. QED BY <1>1, NotApproved, PauseStands, StandsAround

\* A pause because the driver failed.
LEMMA DriveFailedStands ==
  ASSUME NEW s \in RunState, NEW t \in DriveFailed(s)
  PROVE  Stands(t, s)
<1>1. \/ t = s \/ t = Pause(s, "driver-failed")
      \/ \E role : t = Pause(s, FailedOutcome(role))
  BY DEF DriveFailed
<1>q. QED BY <1>1, NotApproved, PauseStands, StandsAround

\* A decision on experts, or its failure.
LEMMA DecideStands ==
  ASSUME NEW s \in RunState, NEW kind \in {"plan", "diff"}, NEW h, Decide(s, kind, h)
  PROVE  Stands(run', s)
<1>1. CASE \E needed \in SUBSET (ExpertsFor(kind) \cap Enrolled) :
              run' = Scheduled(s, kind, needed)
  <2>1. PICK needed \in SUBSET (ExpertsFor(kind) \cap Enrolled) :
           run' = Scheduled(s, kind, needed)
    BY <1>1
  <2> DEFINE t == [s EXCEPT !.pendingDecision = "", !.pendingPhase = ""]
  <2>2. Stands(t, s)
    BY DEF Stands, RunState, Done
  <2>3. Stands([t EXCEPT !.queue = needed, !.after = NextPhase(kind),
                         !.stage = "specializing"], t)
    BY DEF Stands, RunState, Done
  <2>4. run' \in {t, [t EXCEPT !.queue = needed, !.after = NextPhase(kind),
                               !.stage = "specializing"]}
    BY <2>1 DEF Scheduled
  <2> HIDE DEF t
  <2>q. QED BY <2>2, <2>3, <2>4, StandsAround
<1>2. CASE run' \in Undecided(s, kind)
  <2>1. \/ run' = [Pause(s, "budget-exhausted") EXCEPT !.pendingDecision = kind]
        \/ run' = [Pause(s, "specialist-decision-unavailable") EXCEPT
                     !.pendingDecision = kind, !.pendingPhase = NextPhase(kind)]
    BY <1>2 DEF Undecided
  <2> DEFINE p == Pause(s, "budget-exhausted")
             d == Pause(s, "specialist-decision-unavailable")
  <2>2. p \in RunState /\ d \in RunState /\ Stands(p, s) /\ Stands(d, s)
    BY PauseType, PauseStands, NotApproved
  <2> HIDE DEF p, d
  <2>3. Stands([p EXCEPT !.pendingDecision = kind], p)
    BY <2>2 DEF Stands, RunState, Done
  <2>4. Stands([d EXCEPT !.pendingDecision = kind, !.pendingPhase = NextPhase(kind)], d)
    BY <2>2 DEF Stands, RunState, Done
  <2>5. run' = [p EXCEPT !.pendingDecision = kind]
        \/ run' = [d EXCEPT !.pendingDecision = kind, !.pendingPhase = NextPhase(kind)]
    BY <2>1 DEF p, d
  <2>q. QED BY <2>2, <2>3, <2>4, <2>5, StandsAround
<1>q. QED BY <1>1, <1>2 DEF Decide

\* A decision that is taken up again.
LEMMA DecideAgainStands ==
  ASSUME NEW s \in RunState, s.pendingDecision # "", DecideAgain(s)
  PROVE  Stands(run', s)
<1>1. CASE run' = Pause(s, "budget-exhausted")
  BY <1>1, PauseStands, NotApproved
<1>2. CASE Decide(Restarted(s, s.pendingPhase), s.pendingDecision, hist)
  <2>1. Restarted(s, s.pendingPhase) \in RunState
    BY Fields, RestartedType
  <2>2. s.pendingDecision \in {"plan", "diff"}
    BY Fields
  <2>3. Stands(Restarted(s, s.pendingPhase), s)
    BY DEF Restarted, Stands, RunState, Done
  <2>4. Stands(run', Restarted(s, s.pendingPhase))
    BY <1>2, <2>1, <2>2, DecideStands
  <2>q. QED BY <2>3, <2>4, StandsAround
<1>q. QED BY <1>1, <1>2 DEF DecideAgain

\* Taking a result off the pending assignments.
LEMMA TakenStands ==
  ASSUME NEW s \in RunState, NEW a
  PROVE  Stands(Taken(s, a), s) /\ Stands(Settled(Taken(s, a)), s)
<1> DEFINE t == Taken(s, a)
<1>1. t \in RunState
  BY TakenType
<1>2. Stands(t, s)
  BY DEF Taken, Stands, RunState, Done
<1> HIDE DEF t
<1>3. Stands(Settled(t), t)
  BY <1>1 DEF Settled, Stands, RunState, Done
<1>q. QED BY <1>2, <1>3, StandsAround DEF t

\* No progress says nothing of the candidate.
LEMMA NoProgressStands ==
  ASSUME NEW s \in RunState
  PROVE  Stands(NoProgress(s), s)
<1> DEFINE t == [s EXCEPT !.noProgress = s.noProgress + 1]
<1>1. t \in RunState
  <2>1. s.noProgress \in Nat
    BY Fields
  <2>2. s.noProgress + 1 \in Nat
    BY <2>1
  <2>q. QED BY <2>2, Update
<1>2. Stands(t, s)
  BY DEF Stands, RunState, Done
<1>3. NoProgress(s) = t \/ NoProgress(s) = Pause(t, "implementer-failed")
  BY DEF NoProgress
<1> HIDE DEF t
<1>q. QED BY <1>1, <1>2, <1>3, PauseStands, StandsAround

\* Another handoff leaves the review alone.
LEMMA AfterHandoffStands ==
  ASSUME NEW s \in RunState, NEW a
  PROVE  Stands(AfterHandoff(s, a), s)
<1> DEFINE o == [s EXCEPT !.pendingPhase = s.stage]
           g == [s EXCEPT !.handoffs = s.handoffs + 1, !.lastHandoff = BindingOf[a.agent],
                          !.deferred = s.deferred \cup {BindingOf[a.agent]}]
<1>1. o \in RunState
  BY Fields, Update
<1>2. Stands(o, s) /\ Stands(g, s)
  BY DEF Stands, RunState, Done
<1>3. AfterHandoff(s, a) = g \/ AfterHandoff(s, a) = Pause(o, "handoff-budget-exhausted")
  BY DEF AfterHandoff
<1> HIDE DEF o, g
<1>q. QED BY <1>1, <1>2, <1>3, PauseStands, StandsAround

\* What a planner says leaves the review alone (State.apply).
LEMMA AfterPlanningStands ==
  ASSUME NEW s \in RunState, NEW outcome \in {"answer", "planned", "failed"}, NEW revision
  PROVE  Stands(AfterPlanning(s, outcome, revision), s)
BY DEF AfterPlanning, Stands, RunState, Done

\* What an implementer says leaves it alone, or is a new candidate.
LEMMA AfterImplementingReviewed ==
  ASSUME NEW s \in RunState, NEW a, NEW outcome \in {"answer", "changed", "failed"},
         NEW revision, outcome = "changed" => revision \in Candidates
  PROVE  Reviewed(AfterImplementing(s, a, outcome, revision), s)
<1> DEFINE t == AfterImplementing(s, a, outcome, revision)
<1>1. CASE t = NoProgress(s)
  BY <1>1, NoProgressStands DEF Reviewed
<1>2. CASE /\ outcome = "changed"
           /\ t = [Invalidate(s) EXCEPT !.diff = revision, !.stage = "verifying",
                                        !.implementer = BindingOf[a.agent]]
  <2> DEFINE i == Invalidate(s)
  <2>1. i \in RunState
    BY InvalidateType
  <2>2. i.assessments = {}
    BY DEF Invalidate, RunState
  <2> HIDE DEF i, t
  <2>3. t.diff = revision /\ t.assessments = {} /\ t.stage = "verifying"
    BY <1>2, <2>1, <2>2 DEF RunState, i
  <2>4. Reviewed(t, s)
    BY <1>2, <2>3 DEF Reviewed, Resubmits, Done
  <2>q. QED BY <2>4 DEF t
<1>3. CASE t \in {[s EXCEPT !.stage = "done", !.outcome = "answer"],
                  [s EXCEPT !.stage = "paused", !.outcome = "implementer-failed"]}
  <2> HIDE DEF t
  <2>1. Stands(t, s)
    BY ZenonT(60), <1>3 DEF Stands, RunState, Done
  <2>q. QED BY <2>1 DEF Reviewed, t
<1>q. QED BY <1>1, <1>2, <1>3 DEF AfterImplementing

\* What an expert says is no vote.
LEMMA AfterSpecializingStands ==
  ASSUME NEW s \in RunState, NEW a, NEW outcome \in {"approved", "changes-required", "failed"}
  PROVE  Stands(AfterSpecializing(s, a, outcome), s)
<1> DEFINE t == AfterSpecializing(s, a, outcome)
           g == [s EXCEPT !.queue = s.queue \ {a.role},
                          !.reviews = s.reviews \cup
                             {[role |-> a.role, agent |-> a.agent,
                               approved |-> outcome = "approved"]}]
<1>1. Stands(Pause(s, "expert-failed"), s)
  BY PauseStands, NotApproved
<1>2. s.after # "done" /\ g.after = s.after
  BY Fields DEF RunState
<1>3. /\ Stands([g EXCEPT !.repair = a.revision, !.queue = {}, !.pending = {},
                          !.stage = "implementing"], s)
      /\ Stands(g, s)
      /\ Stands([g EXCEPT !.stage = s.after, !.after = ""], s)
  <2>1. Stands(g, s)
    BY DEF Stands, RunState, Done
  <2>2. Stands([g EXCEPT !.repair = a.revision, !.queue = {}, !.pending = {},
                          !.stage = "implementing"], s)
    BY DEF Stands, RunState, Done
  <2>3. Stands([g EXCEPT !.stage = s.after, !.after = ""], s)
    BY <1>2 DEF Stands, RunState, Done
  <2>q. QED BY <2>1, <2>2, <2>3
<1>4. \/ t = Pause(s, "expert-failed")
      \/ t = [g EXCEPT !.repair = a.revision, !.queue = {}, !.pending = {},
                       !.stage = "implementing"]
      \/ t = g
      \/ t = [g EXCEPT !.stage = s.after, !.after = ""]
  BY DEF AfterSpecializing
<1> HIDE DEF t, g
<1>q. QED BY <1>1, <1>3, <1>4 DEF t

\* What an assessor says is a vote, and at most sends the candidate back.
LEMMA AfterAssessingReviewed ==
  ASSUME NEW s \in RunState, s.diff # None, Cardinality(s.assessments) < Quorum,
         NEW a \in Assignment, NEW outcome \in {"approved", "changes-required", "failed"}
  PROVE  Reviewed(AfterAssessing(s, a, outcome), s)
<1> DEFINE t == AfterAssessing(s, a, outcome)
           x == [id |-> a.id, agent |-> a.agent, revision |-> a.revision,
                 approved |-> outcome = "approved"]
           g == [s EXCEPT !.assessments = s.assessments \cup {x}]
<1>1. x \in Assessment
  BY DEF Assignment, Assessment
<1> HIDE DEF x
<1>2. /\ g.diff = s.diff /\ g.implementer = s.implementer
      /\ g.assessments = s.assessments \cup {x}
  BY DEF RunState
<1>3. /\ Adds(g, s)
      /\ Adds([g EXCEPT !.repair = a.revision, !.stage = "implementing", !.pending = {}], s)
      /\ Adds([g EXCEPT !.stage = "implementing", !.pending = {}], s)
      /\ Adds([g EXCEPT !.stage = "done", !.outcome = "approved", !.pending = {}], s)
  BY <1>1 DEF Adds, RunState
<1>4. Clears([s EXCEPT !.stage = "verifying", !.outcome = "", !.assessments = {},
                       !.pending = {}], s)
  BY DEF Clears, RunState, Done
<1>5. \/ t = s \/ t = g
      \/ t = [g EXCEPT !.repair = a.revision, !.stage = "implementing", !.pending = {}]
      \/ t = [g EXCEPT !.stage = "implementing", !.pending = {}]
      \/ t = [g EXCEPT !.stage = "done", !.outcome = "approved", !.pending = {}]
      \/ t = [s EXCEPT !.stage = "verifying", !.outcome = "", !.assessments = {},
                       !.pending = {}]
  BY DEF AfterAssessing, x
<1> HIDE DEF g, t
<1>q. QED BY <1>3, <1>4, <1>5, StandsAround DEF Reviewed, t

\* A result that is applied is a step of the review, if a result in the
\* assessing phase finds a candidate there and a vote missing.
LEMMA ApplyReviewed ==
  ASSUME NEW s \in RunState, NEW a \in Assignment, NEW outcome, NEW revision,
         outcome = "changed" => revision \in Candidates, Accepts(s, a, outcome),
         Phase(s) = "assessing" => s.diff # None /\ Cardinality(s.assessments) < Quorum
  PROVE  Reviewed(Apply(s, a, outcome, revision), s)
<1> DEFINE t == Taken(s, a)
           u == Settled(t)
           x == Apply(s, a, outcome, revision)
<1>1. t \in RunState /\ u \in RunState /\ t.stage = Phase(s) /\ Alike(u, t)
  BY TakenFields
<1>2. Stands(t, s) /\ Stands(u, s)
  BY TakenStands
<1>3. \/ outcome = "handoff" /\ x = AfterHandoff(t, a)
      \/ outcome = "timed-out" /\ x = Pause(u, "invocation-timeout")
      \/ outcome = "run-time-exhausted" /\ x = Pause(u, "budget-exhausted")
      \/ /\ outcome \in {"invocation-failed", "auth-failed"}
         /\ x = AfterExclusion(u, a, outcome)
      \/ /\ u.stage = "planning" /\ outcome \in {"answer", "planned", "failed"}
         /\ x = AfterPlanning(u, outcome, revision)
      \/ /\ u.stage = "implementing" /\ outcome \in {"answer", "changed", "failed"}
         /\ x = AfterImplementing(u, a, outcome, revision)
      \/ /\ u.stage = "assessing"
         /\ outcome \in {"approved", "changes-required", "failed"}
         /\ x = AfterAssessing(u, a, outcome)
      \/ /\ u.stage = "specializing"
         /\ outcome \in {"approved", "changes-required", "failed"}
         /\ outcome # "failed" => a.role \in u.queue
         /\ x = AfterSpecializing(u, a, outcome)
  BY ApplyForms
<1> HIDE DEF t, u, x
<1>4. u.stage = Phase(s) /\ u.diff = s.diff /\ u.assessments = s.assessments
  BY <1>1, <1>2 DEF Alike, SameData, Stands
<1>5. CASE x = AfterHandoff(t, a)
  <2>1. Stands(x, t)
    BY <1>1, <1>5, AfterHandoffStands
  <2>q. QED BY <1>2, <2>1, StandsAround DEF Reviewed, x
<1>6. CASE x \in {Pause(u, "invocation-timeout"), Pause(u, "budget-exhausted")}
  <2>1. Stands(x, u)
    BY <1>1, <1>6, PauseStands
  <2>q. QED BY <1>2, <2>1, StandsAround DEF Reviewed, x
<1>7. CASE x = AfterExclusion(u, a, outcome)
  <2>1. Stands(x, u)
    BY <1>1, <1>7 DEF AfterExclusion, Stands, RunState, Done
  <2>q. QED BY <1>2, <2>1, StandsAround DEF Reviewed, x
<1>8. CASE outcome \in {"answer", "planned", "failed"} /\ x = AfterPlanning(u, outcome, revision)
  <2>1. Stands(x, u)
    BY <1>1, <1>8, AfterPlanningStands
  <2>q. QED BY <1>2, <2>1, StandsAround DEF Reviewed, x
<1>9. CASE /\ outcome \in {"answer", "changed", "failed"}
           /\ x = AfterImplementing(u, a, outcome, revision)
  <2>1. Reviewed(x, u)
    BY <1>1, <1>9, AfterImplementingReviewed
  <2>q. QED BY <1>2, <2>1, StandsAround DEF x
<1>10. CASE /\ u.stage = "assessing"
            /\ outcome \in {"approved", "changes-required", "failed"}
            /\ x = AfterAssessing(u, a, outcome)
  <2>1. u.diff # None /\ Cardinality(u.assessments) < Quorum
    BY <1>4, <1>10
  <2>2. Reviewed(x, u)
    BY <1>1, <1>10, <2>1, AfterAssessingReviewed
  <2>q. QED BY <1>2, <2>2, StandsAround DEF x
<1>11. CASE /\ outcome \in {"approved", "changes-required", "failed"}
            /\ x = AfterSpecializing(u, a, outcome)
  <2>1. Stands(x, u)
    BY <1>1, <1>11, AfterSpecializingStands
  <2>q. QED BY <1>2, <2>1, StandsAround DEF Reviewed, x
<1>q. QED BY <1>3, <1>5, <1>6, <1>7, <1>8, <1>9, <1>10, <1>11

\* Where a result is due in the assessing phase, there is a candidate and a
\* vote missing.
LEMMA VoteMissing ==
  ASSUME OrderlyRun, Phase(run) = "assessing"
  PROVE  run.diff # None /\ Cardinality(run.assessments) < Quorum
<1>1. Headed(run, "assessing")
  BY DEF Phase, Headed
<1>2. Fit(run, hist, patch) /\ Cardinality(run.assessments) < Quorum
  BY <1>1 DEF OrderlyRun, Orderly, FitToJudge, Judging, VotesLeft
<1>q. QED BY <1>2 DEF Fit

\* What sdlcRecordResultLocked saves is a step of the review.
LEMMA AcceptedReviewed ==
  ASSUME OrderlyRun, NEW a \in Assignment, NEW outcome \in WorkerOutcomes(a.role),
         NEW revision \in ResultRevisions(a, outcome),
         Accepts(run, a, outcome), Accepted(a, outcome, revision)
  PROVE  Reviewed(run', run)
<1> DEFINE applied == Apply(run, a, outcome, revision)
           s == IF outcome = "planned"
                THEN [applied EXCEPT !.approvedPlan = None, !.authorized = None] ELSE applied
           newCandidate == outcome = "changed" /\ s.diff # run.diff
           h == IF newCandidate THEN Unseen ELSE hist
           kind == IF outcome = "planned" THEN "plan" ELSE "diff"
           open == [s EXCEPT !.pendingDecision = kind, !.pendingPhase = s.stage]
<1>1. run \in RunState
  BY DEF OrderlyRun, SoundRun, RunTypeOK
<1>2. /\ outcome = "planned" => revision \in Plans
      /\ outcome = "changed" => revision \in Candidates
  BY DEF ResultRevisions
<1>3. applied \in RunState
  BY <1>1, <1>2, ApplyType
<1>4. Reviewed(applied, run)
  BY <1>1, <1>2, VoteMissing, ApplyReviewed
<1> HIDE DEF applied
<1>5. s \in RunState
  BY <1>3, Update
<1>6. Stands(s, applied)
  BY <1>3 DEF Stands, RunState, Done
<1>7. Reviewed(s, run)
  BY <1>4, <1>6, StandsAround
<1> HIDE DEF s
<1>8. kind \in {"plan", "diff"} /\ s.stage \in Stages
  BY <1>5, Fields
<1> HIDE DEF kind
<1>9. open \in RunState
  BY <1>5, <1>8, Update
<1>10. Stands(open, s)
  BY <1>5 DEF Stands, RunState, Done
<1>11. Reviewed(open, run)
  BY <1>7, <1>10, StandsAround
<1> HIDE DEF open, h, newCandidate
<1>12. \/ Decide(open, kind, h) \/ run' = open \/ run' = run
       \/ run' \in UNION {Gated(t) : t \in
             IF outcome \in {"invocation-failed", "auth-failed"} THEN Rerouted(s) ELSE {s}}
  BY DEF Accepted, applied, s, newCandidate, h, kind, open
<1>13. CASE Decide(open, kind, h)
  <2>1. Stands(run', open)
    BY <1>8, <1>9, <1>13, DecideStands
  <2>q. QED BY <1>11, <2>1, StandsAround
<1>14. CASE run' = run
  BY <1>14, StandsAround DEF Reviewed
<1>15. CASE run' \in UNION {Gated(t) : t \in
             IF outcome \in {"invocation-failed", "auth-failed"} THEN Rerouted(s) ELSE {s}}
  <2>1. PICK t \in {s} \cup Rerouted(s) : run' \in Gated(t)
    BY <1>15
  <2>2. t \in RunState /\ Stands(t, s)
    BY <1>5, ReroutedType, ReroutedStands, StandsAround
  <2>3. Stands(run', t)
    BY <2>1, <2>2, GatedStands
  <2>q. QED BY <1>7, <2>2, <2>3, StandsAround
<1>q. QED BY <1>11, <1>12, <1>13, <1>14, <1>15

\* What the supervisor's checks say is a step of the review.
LEMMA VerifiedReviewed ==
  ASSUME NEW s \in RunState, NEW verdict \in Verdicts(s)
  PROVE  Reviewed(Verified(s, verdict), s)
<1> DEFINE t == Verified(s, verdict)
           i == Invalidate(s)
           r == [s EXCEPT !.receipts = "failed", !.receiptsFor = s.diff]
<1>1. /\ i \in RunState /\ i.assessments = {} /\ i.diff = s.diff
      /\ i.implementer = s.implementer
  <2>1. i \in RunState
    BY InvalidateType
  <2>q. QED BY <2>1 DEF Invalidate, RunState
<1>2. r \in RunState
  <2>1. s.diff \in Candidates \cup {None}
    BY Fields
  <2>q. QED BY <2>1, Update
<1>3. Stands(r, s)
  BY DEF Stands, RunState, Done
<1>4. \/ t = [s EXCEPT !.stage = "assessing", !.outcome = "",
                       !.receipts = "none", !.receiptsFor = None]
      \/ t = [s EXCEPT !.stage = "assessing", !.outcome = "",
                       !.receipts = "passed", !.receiptsFor = s.diff]
      \/ t = [s EXCEPT !.stage = "implementing", !.outcome = "",
                       !.pending = {}, !.receipts = "failed", !.receiptsFor = s.diff]
      \/ t = [i EXCEPT !.stage = "implementing", !.outcome = "",
                       !.receipts = "failed", !.receiptsFor = s.diff]
      \/ t = Pause(r, "verification-environment-failed")
  BY DEF Verdicts, Verified
<1> HIDE DEF t, i, r
<1>5. Stands(Pause(r, "verification-environment-failed"), r)
  BY <1>2, PauseStands
<1>6. Clears([i EXCEPT !.stage = "implementing", !.outcome = "",
                       !.receipts = "failed", !.receiptsFor = s.diff], s)
  BY <1>1 DEF Clears, RunState, Done
<1>7. /\ Stands([s EXCEPT !.stage = "assessing", !.outcome = "",
                       !.receipts = "none", !.receiptsFor = None], s)
      /\ Stands([s EXCEPT !.stage = "assessing", !.outcome = "",
                       !.receipts = "passed", !.receiptsFor = s.diff], s)
  BY DEF Stands, RunState, Done
<1>8. Stands([s EXCEPT !.stage = "implementing", !.outcome = "",
                       !.pending = {}, !.receipts = "failed", !.receiptsFor = s.diff], s)
  BY DEF Stands, RunState, Done
<1>q. QED BY <1>3, <1>4, <1>5, <1>6, <1>7, <1>8, StandsAround DEF Reviewed, t

\* A driver's step is a step of the review.
LEMMA DriveReviewed ==
  ASSUME "drift" \notin Events, OrderlyRun, Drive
  PROVE  Reviewed(run', run)
<1>1. run \in RunState /\ Stands(run, run)
  BY StandsAround DEF OrderlyRun, SoundRun, RunTypeOK
<1>2. CASE PlanApprovalGate
  <2>1. PICK reason \in {"command-authorization-required", "plan-required",
                         "plan-approval-required"} :
          run' = [Pause(run, reason) EXCEPT !.pendingPhase = "implementing"]
    BY <1>2 DEF PlanApprovalGate
  <2> DEFINE p == Pause(run, reason)
  <2>2. p \in RunState /\ Stands(p, run)
    BY <1>1, Reasons, PauseType, PauseStands
  <2> HIDE DEF p
  <2>3. Stands([p EXCEPT !.pendingPhase = "implementing"], p)
    BY <2>2 DEF Stands, RunState, Done
  <2>q. QED BY <2>1, <2>2, <2>3, StandsAround DEF Reviewed, p
<1>3. CASE AssignNext
  <2>1. PICK role \in RolesWanted(run) : \E g \in Candidate(WithFallback(run, role), role) :
          \E a : run' = [WithFallback(run, role) EXCEPT
                           !.pending = WithFallback(run, role).pending \cup {a}]
    BY <1>3 DEF AssignNext
  <2> DEFINE s == WithFallback(run, role)
  <2>2. s \in RunState /\ Alike(s, run)
    BY <1>1, WithFallbackAlike
  <2> HIDE DEF s
  <2>3. Stands(s, run)
    BY <2>2 DEF Alike, SameData, Stands, Done
  <2>4. \A p : Stands([s EXCEPT !.pending = p], s)
    BY <2>2 DEF Stands, RunState, Done
  <2>q. QED BY <2>1, <2>3, <2>4, StandsAround DEF Reviewed, s
<1>4. CASE NobodyEligible
  <2>1. PICK role \in RolesWanted(run) :
          \/ run' = Pause(WithFallback(run, role), FailedOutcome(role))
          \/ run' = Pause(WithFallback(run, role), "assessment-quorum-unavailable")
    BY <1>4 DEF NobodyEligible
  <2> DEFINE s == WithFallback(run, role)
  <2>2. s \in RunState /\ Alike(s, run)
    BY <1>1, WithFallbackAlike
  <2> HIDE DEF s
  <2>3. Stands(s, run)
    BY <2>2 DEF Alike, SameData, Stands, Done
  <2>4. /\ Stands(Pause(s, FailedOutcome(role)), s)
        /\ Stands(Pause(s, "assessment-quorum-unavailable"), s)
    BY <2>2, NotApproved, PauseStands
  <2>q. QED BY <2>1, <2>3, <2>4, StandsAround DEF Reviewed, s
<1>5. CASE BudgetStops
  BY <1>1, <1>5, PauseStands DEF BudgetStops, Reviewed
<1>6. CASE LaunchReviews
  BY <1>1, <1>6 DEF LaunchReviews, Reviewed
<1>7. CASE Verify
  <2>1. CASE run' = Pause(run, "command-authorization-required")
    BY <1>1, <2>1, PauseStands DEF Reviewed
  <2>2. CASE \E verdict \in Verdicts(run) : run' = Verified(run, verdict)
    BY <1>1, <2>2, VerifiedReviewed
  <2>q. QED BY <1>7, <2>1, <2>2 DEF Verify
<1>8. CASE RetrySpecialistDecision
  BY <1>1, <1>8, DecideAgainStands DEF RetrySpecialistDecision, Reviewed
<1>9. CASE DriverError
  BY <1>1, <1>9, DriveFailedStands DEF DriverError, Reviewed
<1>q. QED BY <1>2, <1>3, <1>4, <1>5, <1>6, <1>7, <1>8, <1>9 DEF Drive

\* A worker's step is a step of the review.
LEMMA InvocationReviewed ==
  ASSUME "drift" \notin Events, OrderlyRun, Invocation
  PROVE  Reviewed(run', run)
<1>1. run \in RunState /\ Stands(run, run) /\ running \subseteq Assignment /\ replies = {}
  BY StandsAround DEF OrderlyRun, SoundRun, RunTypeOK
<1>2. CASE Report
  <2>0. PICK a \in running :
          \E outcome \in WorkerOutcomes(a.role) :
            \E revision \in ResultRevisions(a, outcome) :
             \/ Accepts(run, a, outcome) /\ Accepted(a, outcome, revision)
             \/ run' = run
             \/ run' = Pause(run, FailedOutcome(a.role))
    BY <1>2 DEF Report, Executing, Ignored
  <2>1. PICK outcome \in WorkerOutcomes(a.role) :
          \E revision \in ResultRevisions(a, outcome) :
             \/ Accepts(run, a, outcome) /\ Accepted(a, outcome, revision)
             \/ run' = run
             \/ run' = Pause(run, FailedOutcome(a.role))
    BY <2>0
  <2>2. CASE \E revision \in ResultRevisions(a, outcome) :
               Accepts(run, a, outcome) /\ Accepted(a, outcome, revision)
    BY <1>1, <2>2, AcceptedReviewed
  <2>3. Stands(Pause(run, FailedOutcome(a.role)), run)
    BY <1>1, NotApproved, PauseStands
  <2>q. QED BY <1>1, <2>1, <2>2, <2>3 DEF Reviewed
<1>3. CASE FailAssignment \/ LoseSession \/ UnsafeReview
  <2>1. \/ \E a \in running : run' = Pause(run, FailedOutcome(a.role))
        \/ run' = Pause(run, "session-recovery-required")
        \/ run' = Pause(run, "unsafe-review-artifact")
    BY <1>3 DEF FailAssignment, LoseSession, UnsafeReview
  <2>q. QED BY <1>1, <2>1, NotApproved, PauseStands DEF Reviewed
<1>4. CASE InjectionReview
  <2> DEFINE p == IF run.stage = "paused" THEN run.pendingPhase ELSE run.stage
             s == [run EXCEPT !.pendingPhase = p]
  <2>1. run' = Pause(s, "injection-review-required")
    BY <1>4 DEF InjectionReview
  <2>2. p \in Stages
    BY <1>1, Fields
  <2> HIDE DEF p
  <2>3. s \in RunState /\ Stands(s, run)
    <3>1. s \in RunState
      BY <1>1, <2>2, Update
    <3>q. QED BY <1>1, <3>1 DEF Stands, RunState, Done
  <2> HIDE DEF s
  <2>4. Stands(run', s)
    BY <2>1, <2>3, PauseStands
  <2>q. QED BY <2>3, <2>4, StandsAround DEF Reviewed
<1>5. CASE CancelReview
  <2>1. \E p : run' = [run EXCEPT !.pending = p]
    BY <1>5 DEF CancelReview
  <2>q. QED BY <1>1, <2>1 DEF Reviewed, Stands, RunState, Done
<1>6. ~SaveReview /\ ~FinishReview
  BY <1>1 DEF SaveReview, FinishReview
<1>7. CASE Crash
  BY <1>1, <1>7 DEF Crash, Reviewed
<1>q. QED BY <1>2, <1>3, <1>4, <1>5, <1>6, <1>7 DEF Invocation

\* An operator's step is a step of the review.
LEMMA ResumeReviewed ==
  ASSUME "drift" \notin Events, OrderlyRun, Resume
  PROVE  Reviewed(run', run)
<1>1. /\ run \in RunState /\ Stands(run, run) /\ Sound(run) /\ run.recovery = None
      /\ run.outcome \notin {"review-workspace-drift", "review-recovery-invalid"}
  BY StandsAround DEF OrderlyRun, SoundRun, RunTypeOK, Sound, Orderly, Outside
<1>2. \A s : s.recovery = None => MarkCounted(s) = s /\ Recovered(s) = {s}
  BY DEF MarkCounted, Recovered
<1>3. \A s : s.recovery = None /\ ResumeTo(s) => run' = s
  BY <1>2 DEF ResumeTo
<1>4. ASSUME NEW t, NEW stage, NEW pendingPhase, NEW budgetPhase,
             RestartedAs(t, run, stage, pendingPhase, budgetPhase),
             ResumeTo(t) \/ run' = MarkCounted(t)
      PROVE  Reviewed(run', run)
  <2>1. Stands(t, run) /\ t.recovery = None
    BY <1>1, <1>4 DEF RestartedAs, SameData, Stands, Done
  <2>2. run' = t
    BY <1>2, <1>3, <1>4, <2>1
  <2>q. QED BY <2>1, <2>2 DEF Reviewed
<1>5. CASE ResumeInjection
  <2>1. ResumeTo([Restarted(run, run.pendingPhase) EXCEPT !.pendingPhase = ""])
    BY <1>5 DEF ResumeInjection
  <2>2. RestartedAs([Restarted(run, run.pendingPhase) EXCEPT !.pendingPhase = ""], run,
                    run.pendingPhase, "", run.budgetPhase)
    BY <1>1, RestartFields
  <2>q. QED BY <1>4, <2>1, <2>2
<1>6. CASE ContinueBudget
  <2> DEFINE phase == IF run.budgetPhase # "" THEN run.budgetPhase ELSE run.pendingPhase
  <2>1. ResumeTo([Restarted(run, phase) EXCEPT !.budgetPhase = ""])
    BY <1>6 DEF ContinueBudget
  <2> HIDE DEF phase
  <2>2. RestartedAs([Restarted(run, phase) EXCEPT !.budgetPhase = ""], run, phase,
                    run.pendingPhase, "")
    BY <1>1, RestartFields
  <2>q. QED BY <1>4, <2>1, <2>2
<1>7. CASE ResumeInvocation
  <2>1. ResumeTo([Restarted(run, run.retryPhase) EXCEPT !.retryPhase = ""])
    BY <1>7 DEF ResumeInvocation
  <2>2. RestartedAs([Restarted(run, run.retryPhase) EXCEPT !.retryPhase = ""], run,
                    run.retryPhase, run.pendingPhase, run.budgetPhase)
    BY <1>1, RestartFields
  <2>q. QED BY <1>4, <2>1, <2>2
<1>8. CASE RetryFailed
  <2>1. run' \in Recovered(Retried(run))
    BY <1>1, <1>2, <1>8 DEF RetryFailed
  <2>2. Retried(run).recovery = None /\ Stands(Retried(run), run)
    <3>1. Sound(Retried(run))
      BY <1>1, RetriedSound DEF OrderlyRun, SoundRun, RunTypeOK
    <3>q. QED BY <1>1, <3>1, RetriedStands DEF Sound
  <2>3. run' = Retried(run)
    BY <1>2, <2>1, <2>2
  <2>q. QED BY <2>2, <2>3 DEF Reviewed
<1>9. CASE RetryVerification
  <2>1. run' = MarkCounted(Restarted(run, "verifying"))
    BY <1>9 DEF RetryVerification
  <2>2. RestartedAs(Restarted(run, "verifying"), run, "verifying", run.pendingPhase,
                    run.budgetPhase)
    BY <1>1, RestartFields
  <2>q. QED BY <1>4, <2>1, <2>2
<1>10. CASE ResumeDecision
  <2>1. run.pendingDecision # "" /\ DecideAgain(run)
    BY <1>1, <1>2, <1>10 DEF ResumeDecision
  <2>q. QED BY <1>1, <2>1, DecideAgainStands DEF Reviewed
<1>11. ~ResumeReview
  BY <1>1 DEF ResumeReview
<1>12. CASE ApprovePlan
  <2> DEFINE s == [run EXCEPT !.approvedPlan = run.plan, !.authorized = run.plan]
  <2>1. run' = s \/ run' = [Restarted(s, s.pendingPhase) EXCEPT !.pendingPhase = ""]
    BY <1>12 DEF ApprovePlan
  <2>2. s \in RunState /\ Stands(s, run)
    <3>1. s \in RunState
      BY <1>1, Fields, Update
    <3>q. QED BY ZenonT(60), <1>1, <3>1 DEF Stands, RunState, Done
  <2> HIDE DEF s
  <2>3. Stands([Restarted(s, s.pendingPhase) EXCEPT !.pendingPhase = ""], s)
    <3>1. RestartedAs([Restarted(s, s.pendingPhase) EXCEPT !.pendingPhase = ""], s,
                      s.pendingPhase, "", s.budgetPhase)
      BY <2>2, RestartFields
    <3>q. QED BY <3>1 DEF RestartedAs, SameData, Stands, Done
  <2>4. Stands(s, s)
    BY StandsAround
  <2>5. Stands(run', s)
    BY <2>1, <2>3, <2>4
  <2>q. QED BY <2>2, <2>5, StandsAround DEF Reviewed
<1>13. CASE AuthorizeChecks
  <2> DEFINE s == [run EXCEPT !.authorized = run.plan]
  <2>1. run' = s \/ run' = [Restarted(s, s.pendingPhase) EXCEPT !.pendingPhase = ""]
    BY <1>13 DEF AuthorizeChecks
  <2>2. s \in RunState /\ Stands(s, run)
    <3>1. s \in RunState
      BY <1>1, Fields, Update
    <3>q. QED BY ZenonT(60), <1>1, <3>1 DEF Stands, RunState, Done
  <2> HIDE DEF s
  <2>3. Stands([Restarted(s, s.pendingPhase) EXCEPT !.pendingPhase = ""], s)
    <3>1. RestartedAs([Restarted(s, s.pendingPhase) EXCEPT !.pendingPhase = ""], s,
                      s.pendingPhase, "", s.budgetPhase)
      BY <2>2, RestartFields
    <3>q. QED BY <3>1 DEF RestartedAs, SameData, Stands, Done
  <2>4. Stands(s, s)
    BY StandsAround
  <2>5. Stands(run', s)
    BY <2>1, <2>3, <2>4
  <2>q. QED BY <2>2, <2>5, StandsAround DEF Reviewed
<1>14. CASE RequestPlanChanges
  <2> DEFINE r == Restarted(run, "planning")
  <2>1. run' = [r EXCEPT !.approvedPlan = None, !.authorized = None, !.pendingDecision = "",
                     !.pendingPhase = "", !.queue = {}, !.reviews = {}, !.after = ""]
    BY <1>14 DEF RequestPlanChanges
  <2>2. r \in RunState /\ Stands(r, run)
    <3>1. r \in RunState
      BY <1>1, RestartedType, StageNames DEF Working
    <3>2. RestartedAs(r, run, "planning", run.pendingPhase, run.budgetPhase)
      BY <1>1, RestartFields
    <3>q. QED BY <3>1, <3>2 DEF RestartedAs, SameData, Stands, Done
  <2> HIDE DEF r
  <2>3. Stands(run', r)
    BY <2>1, <2>2 DEF Stands, RunState, Done
  <2>q. QED BY <2>2, <2>3, StandsAround DEF Reviewed
<1>q. QED BY <1>5, <1>6, <1>7, <1>8, <1>9, <1>10, <1>11, <1>12, <1>13, <1>14 DEF Resume

\* What was said of the candidate of s, and by which binding.
VotesOf(s) == {[by |-> By(x), approves |-> x.approved] : x \in s.assessments}

\* As many vote for an approved candidate as there are assessments of it.
LEMMA VotesCounted ==
  ASSUME NEW s, Sound(s), Done(s)
  PROVE  Cardinality(VotesOf(s)) >= Quorum /\ \A v \in VotesOf(s) : v.approves
<1> DEFINE xs == s.assessments
           f == [x \in xs |-> [by |-> By(x), approves |-> x.approved]]
<1>1. /\ Cardinality(xs) >= Quorum /\ IsFiniteSet(xs)
      /\ \A x \in xs : x.approved /\ Counts(s, x)
  BY DEF Sound, Independent, ApprovedSoundly, Counts
<1>2. \A x, y \in xs : By(x) = By(y) => x = y
  BY <1>1 DEF Sound, Independent
<1>3. f \in Injection(xs, VotesOf(s)) /\ f \in Surjection(xs, VotesOf(s))
  <2>1. f \in [xs -> VotesOf(s)]
    BY DEF VotesOf
  <2>2. \A x, y \in xs : f[x] = f[y] => x = y
    <3>1. \A x \in xs : f[x].by = By(x)
      OBVIOUS
    <3> HIDE DEF f
    <3>q. QED BY <1>2, <3>1
  <2>3. \A v \in VotesOf(s) : \E x \in xs : f[x] = v
    BY DEF VotesOf
  <2> HIDE DEF f
  <2>q. QED BY <2>1, <2>2, <2>3 DEF Injection, IsInjective, Surjection
<1>4. Cardinality(VotesOf(s)) = Cardinality(xs)
  BY <1>1, <1>3, FS_Surjection
<1>5. \A v \in VotesOf(s) : v.approves
  BY <1>1 DEF VotesOf
<1>q. QED BY <1>1, <1>4, <1>5

\* The abstract specification counts like this one.
LEMMA SameCardinality == \A S : Approval!Cardinality(S) = Cardinality(S)
BY DEF Approval!Cardinality, Cardinality

\* A vote more is one of somebody else, and at most the decision.
LEMMA AddsSpeak ==
  ASSUME OrderlyRun, OrderlyRun', ~ApprovedRun, Adds(run', run)
  PROVE  Approval!ApprovalNext \/ UNCHANGED <<run.diff, run.implementer, Votes, ApprovedRun>>
<1>1. PICK x \in Assessment : run'.assessments = run.assessments \cup {x}
  BY DEF Adds
<1> DEFINE v == [by |-> BindingOf[x.agent], approves |-> x.approved]
<1>2. Votes' = Votes \cup {v}
  <2>1. VotesOf(run') = VotesOf(run) \cup {v}
    BY <1>1 DEF VotesOf, By
  <2>q. QED BY <2>1 DEF Votes, VotesOf, By
<1>3. Sound(run') /\ VotesLeft(run', running') /\ ApprovedSoundly(run')
  BY DEF OrderlyRun, SoundRun, Sound, Orderly
<1>4. x.revision = run'.diff /\ Counts(run', x)
  BY <1>1, <1>3 DEF VotesLeft, Counts
<1>5. CASE x \in run.assessments
  <2>1. run'.assessments = run.assessments
    BY <1>1, <1>5
  <2>2. ~Done(run')
    <3>1. Cardinality(run.assessments) < Quorum /\ IsFiniteSet(run.assessments)
      BY DEF Adds, OrderlyRun, Orderly, VotesLeft
    <3>2. Cardinality(run.assessments) \in Nat /\ Quorum \in Nat
      BY <3>1, FS_CardinalityType, StateConstants
    <3>q. QED BY <1>3, <2>1, <3>1, <3>2 DEF ApprovedSoundly
  <2>3. Votes' = Votes
    BY <2>1 DEF Votes
  <2>q. QED BY <2>2, <2>3 DEF Adds, Done, ApprovedRun
<1>6. CASE x \notin run.assessments
  <2>1. v.by \in Bindings /\ v.approves \in BOOLEAN
    BY StateConstants DEF Assessment
  <2>2. v.by # run.implementer
    BY <1>3, <1>4 DEF Sound, Independent, Adds, By
  <2>3. \A u \in Votes : u.by # v.by
    <3>1. SUFFICES ASSUME NEW y \in run.assessments PROVE By(y) # By(x)
      BY DEF Votes, By
    <3>2. Counts(run', y)
      BY <1>1, <1>3 DEF VotesLeft, Counts
    <3>q. QED BY <1>3, <1>4, <1>6, <3>2 DEF Sound, Independent
  <2>4. ApprovedRun' => Cardinality(Votes') >= Quorum /\ \A u \in Votes' : u.approves
    <3>1. Done(run') => /\ Cardinality(VotesOf(run')) >= Quorum
                        /\ \A u \in VotesOf(run') : u.approves
      BY <1>3, VotesCounted
    <3>2. Votes' = VotesOf(run')
      BY DEF Votes, VotesOf, By
    <3>q. QED BY <3>1, <3>2 DEF ApprovedRun, Done
  <2>5. run.diff # None /\ UNCHANGED <<run.diff, run.implementer>>
    BY DEF Adds
  <2> HIDE DEF v
  <2>6. ApprovedRun' \in {FALSE, Cardinality(Votes') >= Quorum /\ \A u \in Votes' : u.approves}
    BY <2>4 DEF ApprovedRun
  <2>7. v = [by |-> v.by, approves |-> v.approves]
    BY DEF v
  <2>8. Approval!Speak(v.by, v.approves)
    BY <1>2, <2>2, <2>3, <2>5, <2>6, <2>7, SameCardinality DEF Approval!Speak
  <2>q. QED BY <2>1, <2>8 DEF Approval!ApprovalNext
<1>q. QED BY <1>5, <1>6

\* Whoever acts, the step is one of CandidateApproval's, or says nothing of the
\* candidate.
LEMMA ApprovalStep ==
  ASSUME "other" \notin Events, "drift" \notin Events, Plans \cap Candidates = {},
         OrderlyRun, [Next]_vars
  PROVE  [Approval!ApprovalNext]_<<run.diff, run.implementer, Votes, ApprovedRun>>
<1>1. OrderlyRun'
  BY OrderlyStep
<1>2. CASE ApprovedRun \/ UNCHANGED vars
  <2>1. run' = run
    BY <1>2, ApprovedStays DEF vars
  <2>2. Votes' = Votes /\ ApprovedRun' = ApprovedRun
    BY <2>1 DEF Votes, ApprovedRun
  <2>q. QED BY <2>1, <2>2
<1>3. CASE ~ApprovedRun /\ Next
  <2>1. Reviewed(run', run)
    BY <1>3, DriveReviewed, InvocationReviewed, ResumeReviewed DEF Next
  <2>2. ~Done(run) /\ ApprovedRun = FALSE
    BY <1>3 DEF Done, ApprovedRun
  <2>3. CASE Stands(run', run)
    <3>1. Votes' = Votes /\ UNCHANGED <<run.diff, run.implementer>>
      BY <2>3 DEF Stands, Votes
    <3>2. ApprovedRun' = FALSE
      BY <2>2, <2>3 DEF Stands, Done, ApprovedRun
    <3>q. QED BY <2>2, <3>1, <3>2
  <2>4. CASE Adds(run', run)
    BY <1>1, <1>3, <2>4, AddsSpeak
  <2>5. CASE Resubmits(run')
    <3>1. run'.diff \in Candidates /\ run'.implementer \in Bindings \cup {None}
      <4>1. run' \in RunState
        BY <1>1 DEF OrderlyRun, SoundRun, RunTypeOK
      <4>q. QED BY <2>5, <4>1, Fields DEF Resubmits
    <3>2. Votes' = {}
      BY <2>5 DEF Resubmits, Votes
    <3>3. ApprovedRun' = FALSE
      BY <2>5 DEF Resubmits, Done, ApprovedRun
    <3>4. Approval!Submit
      BY <2>2, <3>1, <3>2, <3>3 DEF Approval!Submit
    <3>q. QED BY <3>4 DEF Approval!ApprovalNext
  <2>6. CASE Clears(run', run)
    <3>1. Votes' = {} /\ UNCHANGED <<run.diff, run.implementer>>
      BY <2>6 DEF Clears, Votes
    <3>2. ApprovedRun' = FALSE
      BY <2>6 DEF Clears, Done, ApprovedRun
    <3>3. Approval!Reconsider
      BY <2>2, <3>1, <3>2 DEF Approval!Reconsider
    <3>q. QED BY <3>3 DEF Approval!ApprovalNext
  <2>q. QED BY <2>1, <2>3, <2>4, <2>5, <2>6 DEF Reviewed
<1>q. QED BY <1>2, <1>3

\* No run starts reviewed.
LEMMA ApprovalStart == Init => Approval!ApprovalInit
<1> SUFFICES ASSUME Init PROVE Approval!ApprovalInit
  OBVIOUS
<1>1. PICK seed \in Seeds, p \in Plans, c \in Candidates : run = Seeded(seed, p, c)
  BY DEF Init
<1>2. seed \in AllSeeds
  BY RunConstants
<1>3. /\ run.implementer = None /\ run.assessments = {} /\ run.outcome = ""
      /\ run.diff \in {None, c}
  BY <1>1, <1>2 DEF Seeded, Fresh, AllSeeds
<1>4. Votes = {} /\ ApprovedRun = FALSE
  BY <1>3 DEF Votes, ApprovedRun
<1>q. QED BY <1>3, <1>4 DEF Approval!ApprovalInit

\* With one driver, and a workspace that does not drift, the run implements
\* CandidateApproval: nobody speaks of his own candidate or twice of another,
\* a decision is one of a quorum that agrees, a new candidate starts with no
\* votes, and nothing follows an approval.
THEOREM RunImplementsApproval ==
  ASSUME "other" \notin Events, "drift" \notin Events, Plans \cap Candidates = {}
  PROVE  Spec => RefinesApproval
<1>1. Init => Approval!ApprovalInit
  BY ApprovalStart
<1>2. OrderlyRun /\ [Next]_vars
        => [Approval!ApprovalNext]_<<run.diff, run.implementer, Votes, ApprovedRun>>
  BY ApprovalStep
<1>q. QED BY <1>1, <1>2, RunInOrder, PTL DEF Spec, RefinesApproval, Approval!ApprovalSpec
=============================================================================
