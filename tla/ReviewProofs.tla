---------------------------- MODULE ReviewProofs ----------------------------
(***************************************************************************)
(* What the reviewers of a candidate are promised while they work: the     *)
(* candidate they were assigned is the one on disk, and an approval given  *)
(* of a workspace that changed is never counted.                           *)
(***************************************************************************)
EXTENDS CandidateProofs

\* An expert on the diff is queued only on the way to the verification.
Placed(s) == s.queue \cap DiffExperts # {} => s.after = "verifying"

\* t follows s in the review of the same candidate: nobody is reserved
\* that was not, and only votes under the identifiers in heard are new.
Follows(t, s, heard) ==
    /\ t.diff = s.diff
    /\ t.pending \subseteq s.pending
    /\ \A x \in t.assessments : x \in s.assessments \/ x.id \in heard
    /\ t.recovery \in {s.recovery, None}
    /\ Placed(s) => Placed(t)

\* t follows s with the candidate c instead, nobody reviews yet.
Renews(t, s, c) ==
    /\ t.diff = c /\ t.pending = {} /\ t.assessments = {}
    /\ t.recovery \in {s.recovery, None}
    /\ Placed(t)

\* t says the same of the candidate as s, and at most forgets assignments.
Same(t, s) ==
    /\ t.diff = s.diff /\ t.pending \in {s.pending, {}} /\ t.assessments = s.assessments
    /\ t.recovery = s.recovery /\ t.queue = s.queue /\ t.after = s.after

\* A run that stays in its review follows itself.
LEMMA SameFollows ==
  ASSUME NEW s, NEW t, Same(t, s)
  PROVE  Follows(t, s, {})
BY DEF Same, Follows, Placed

\* Two such changes are one.
LEMMA SameTwice ==
  ASSUME NEW s, NEW t, NEW u, Same(u, t), Same(t, s)
  PROVE  Same(u, s)
BY DEF Same

\* Steps of the review that follow each other.
LEMMA FollowsTwice ==
  ASSUME NEW s, NEW t, NEW u, NEW heard
  PROVE  /\ Follows(u, t, heard) /\ Follows(t, s, {}) => Follows(u, s, heard)
         /\ Follows(u, t, {}) /\ Follows(t, s, heard) => Follows(u, s, heard)
         /\ Follows(t, s, {}) => Follows(t, s, heard)
         /\ Follows(s, s, {})
BY DEF Follows

\* A new candidate remains what it is through what follows, or precedes.
LEMMA RenewsStill ==
  ASSUME NEW s, NEW t, NEW u, NEW c
  PROVE  /\ Follows(u, t, {}) /\ Renews(t, s, c) => Renews(u, s, c)
         /\ Renews(u, t, c) /\ Follows(t, s, {}) => Renews(u, s, c)
BY DEF Follows, Renews

\* A pause says nothing of the candidate, and but for a budget it forgets the
\* assignments.
LEMMA PauseSame ==
  ASSUME NEW s \in RunState, NEW reason
  PROVE  /\ Same(Pause(s, reason), s)
         /\ reason # "budget-exhausted" => Pause(s, reason).pending = {}
BY DEF Pause, Same, RunState

\* What the gates, the reroutes and failures of the drive change.
LEMMA GatedSame ==
  ASSUME NEW s \in RunState, NEW t \in Gated(s)
  PROVE  Same(t, s)
<1>1. t = s \/ t = Pause(s, "budget-exhausted")
  BY DEF Gated
<1>2. Same(s, s)
  BY DEF Same
<1>q. QED BY <1>1, <1>2, PauseSame

LEMMA ReroutedSame ==
  ASSUME NEW s \in RunState, NEW t \in Rerouted(s)
  PROVE  Same(t, s)
<1>1. t = s \/ \E role : t = Pause(s, FailedOutcome(role))
  BY DEF Rerouted
<1>2. Same(s, s)
  BY DEF Same
<1>q. QED BY <1>1, <1>2, PauseSame

LEMMA DriveFailedSame ==
  ASSUME NEW s \in RunState, NEW t \in DriveFailed(s)
  PROVE  Same(t, s)
<1>1. \/ t = s \/ t = Pause(s, "driver-failed")
      \/ \E role : t = Pause(s, FailedOutcome(role))
  BY DEF DriveFailed
<1>2. Same(s, s)
  BY DEF Same
<1>q. QED BY <1>1, <1>2, PauseSame

\* The experts a decision demands are queued for the phase of their kind.
LEMMA DecideFollows ==
  ASSUME NEW s \in RunState, NEW kind \in {"plan", "diff"}, NEW h, Decide(s, kind, h)
  PROVE  Follows(run', s, {})
<1>1. CASE \E needed \in SUBSET (ExpertsFor(kind) \cap Enrolled) :
              run' = Scheduled(s, kind, needed)
  <2>1. PICK needed \in SUBSET (ExpertsFor(kind) \cap Enrolled) :
           run' = Scheduled(s, kind, needed)
    BY <1>1
  <2> DEFINE t == [s EXCEPT !.pendingDecision = "", !.pendingPhase = ""]
             u == [t EXCEPT !.queue = needed, !.after = NextPhase(kind),
                            !.stage = "specializing"]
  <2>2. t \in RunState
    BY Update DEF Stages
  <2>3. Same(t, s)
    BY DEF Same, RunState
  <2>4. run' \in {t, u}
    BY <2>1 DEF Scheduled
  <2> HIDE DEF t
  <2>5. /\ u.diff = t.diff /\ u.pending = t.pending /\ u.assessments = t.assessments
        /\ u.recovery = t.recovery /\ u.queue = needed /\ u.after = NextPhase(kind)
    BY <2>2 DEF RunState
  <2> HIDE DEF u
  <2>6. needed \cap DiffExperts # {} => NextPhase(kind) = "verifying"
    BY DEF NextPhase, ExpertsFor, PlanExperts, DiffExperts
  <2>7. Follows(u, t, {})
    BY <2>5, <2>6 DEF Follows, Placed
  <2>8. Follows(t, s, {})
    BY <2>3, SameFollows
  <2>q. QED BY <2>4, <2>7, <2>8, FollowsTwice
<1>2. CASE run' \in Undecided(s, kind)
  <2>1. \/ run' = [Pause(s, "budget-exhausted") EXCEPT !.pendingDecision = kind]
        \/ run' = [Pause(s, "specialist-decision-unavailable") EXCEPT
                     !.pendingDecision = kind, !.pendingPhase = NextPhase(kind)]
    BY <1>2 DEF Undecided
  <2> DEFINE p == Pause(s, "budget-exhausted")
             d == Pause(s, "specialist-decision-unavailable")
  <2>2. p \in RunState /\ d \in RunState /\ Same(p, s) /\ Same(d, s)
    BY PauseType, PauseSame DEF Outcomes
  <2> HIDE DEF p, d
  <2>3. Same([p EXCEPT !.pendingDecision = kind], p)
    BY <2>2 DEF Same, RunState
  <2>4. Same([d EXCEPT !.pendingDecision = kind, !.pendingPhase = NextPhase(kind)], d)
    BY <2>2 DEF Same, RunState
  <2>5. run' = [p EXCEPT !.pendingDecision = kind]
        \/ run' = [d EXCEPT !.pendingDecision = kind, !.pendingPhase = NextPhase(kind)]
    BY <2>1 DEF p, d
  <2>6. Same(run', s)
    BY <2>2, <2>3, <2>4, <2>5, SameTwice
  <2>q. QED BY <2>6, SameFollows
<1>q. QED BY <1>1, <1>2 DEF Decide

\* A decision on experts that is repeated stays with its candidate.
LEMMA DecideAgainFollows ==
  ASSUME NEW s \in RunState, s.pendingDecision # "", DecideAgain(s)
  PROVE  Follows(run', s, {})
<1>1. CASE run' = Pause(s, "budget-exhausted")
  BY <1>1, PauseSame, SameFollows
<1>2. CASE Decide(Restarted(s, s.pendingPhase), s.pendingDecision, hist)
  <2>1. Restarted(s, s.pendingPhase) \in RunState
    BY Fields, RestartedType
  <2>2. s.pendingDecision \in {"plan", "diff"}
    BY Fields
  <2>3. Same(Restarted(s, s.pendingPhase), s)
    BY DEF Restarted, Same, RunState
  <2>4. Follows(run', Restarted(s, s.pendingPhase), {})
    BY <1>2, <2>1, <2>2, DecideFollows
  <2>q. QED BY <2>3, <2>4, SameFollows, FollowsTwice
<1>q. QED BY <1>1, <1>2 DEF DecideAgain

-----------------------------------------------------------------------------
(***************************************************************************)
(* What a result says                                                      *)
(***************************************************************************)

\* What hearing a result changes.
LEMMA TakenSame ==
  ASSUME NEW s \in RunState, NEW a
  PROVE  LET t == Taken(s, a)
             u == Settled(t)
         IN /\ t \in RunState /\ u \in RunState
            /\ Follows(t, s, {}) /\ Follows(u, s, {})
            /\ t.pending = s.pending \ {a} /\ u.pending = s.pending \ {a}
<1> DEFINE t == Taken(s, a)
           u == Settled(t)
<1>1. t \in RunState /\ u \in RunState
  BY TakenType, SettledType
<1>2. /\ t.diff = s.diff /\ t.pending = s.pending \ {a} /\ t.assessments = s.assessments
      /\ t.recovery = s.recovery /\ t.queue = s.queue /\ t.after = s.after
  BY DEF Taken, RunState
<1> HIDE DEF t
<1>3. Same(u, t) /\ u.pending = t.pending
  BY <1>1 DEF Settled, RunState, Same
<1> HIDE DEF u
<1>4. Follows(t, s, {})
  BY <1>2 DEF Follows, Placed
<1>5. Follows(u, s, {})
  BY <1>3, <1>4, SameFollows, FollowsTwice
<1>q. QED BY <1>1, <1>2, <1>3, <1>4, <1>5 DEF t, u

\* What follows it: no progress, the handoff, the plan's approval.
LEMMA NoProgressSame ==
  ASSUME NEW s \in RunState
  PROVE  Same(NoProgress(s), s)
<1> DEFINE t == [s EXCEPT !.noProgress = s.noProgress + 1]
<1>1. t \in RunState
  <2>1. s.noProgress \in Nat
    BY Fields
  <2>2. s.noProgress + 1 \in Nat
    BY <2>1
  <2>q. QED BY <2>2, Update
<1>2. Same(t, s)
  BY DEF Same, RunState
<1>3. NoProgress(s) = t \/ NoProgress(s) = Pause(t, "implementer-failed")
  BY DEF NoProgress
<1> HIDE DEF t
<1>q. QED BY <1>1, <1>2, <1>3, PauseSame, SameTwice

LEMMA AfterHandoffSame ==
  ASSUME NEW s \in RunState, NEW a
  PROVE  Same(AfterHandoff(s, a), s)
<1> DEFINE o == [s EXCEPT !.pendingPhase = s.stage]
           g == [s EXCEPT !.handoffs = s.handoffs + 1, !.lastHandoff = BindingOf[a.agent],
                          !.deferred = s.deferred \cup {BindingOf[a.agent]}]
<1>1. o \in RunState
  BY Fields, Update
<1>2. Same(o, s) /\ Same(g, s)
  BY DEF Same, RunState
<1>3. AfterHandoff(s, a) = g \/ AfterHandoff(s, a) = Pause(o, "handoff-budget-exhausted")
  BY DEF AfterHandoff
<1> HIDE DEF o, g
<1>q. QED BY <1>1, <1>2, <1>3, PauseSame, SameTwice

LEMMA AfterPlanningSame ==
  ASSUME NEW s \in RunState, NEW outcome \in {"answer", "planned", "failed"}, NEW revision
  PROVE  Same(AfterPlanning(s, outcome, revision), s)
BY DEF AfterPlanning, Same, RunState

\* An implementer brings a new candidate, or says nothing of the old one.
LEMMA AfterImplementingRenews ==
  ASSUME NEW s \in RunState, NEW a, NEW outcome \in {"answer", "changed", "failed"},
         NEW revision
  PROVE  LET t == AfterImplementing(s, a, outcome, revision)
         IN \/ Same(t, s)
            \/ outcome = "changed" /\ Renews(t, s, revision)
<1> DEFINE t == AfterImplementing(s, a, outcome, revision)
<1>1. CASE t = NoProgress(s)
  BY <1>1, NoProgressSame
<1>2. CASE /\ outcome = "changed"
           /\ t = [Invalidate(s) EXCEPT !.diff = revision, !.stage = "verifying",
                                        !.implementer = BindingOf[a.agent]]
  <2> DEFINE i == Invalidate(s)
  <2>1. i \in RunState
    BY InvalidateType
  <2>2. i.assessments = {} /\ i.pending = {} /\ i.queue = {} /\ i.recovery = s.recovery
    BY DEF Invalidate, RunState
  <2> HIDE DEF i, t
  <2>3. /\ t.diff = revision /\ t.assessments = {} /\ t.pending = {} /\ t.queue = {}
        /\ t.recovery = s.recovery
    BY <1>2, <2>1, <2>2 DEF RunState, i
  <2>4. Renews(t, s, revision)
    BY <2>3 DEF Renews, Placed
  <2>q. QED BY <1>2, <2>4 DEF t
<1>3. CASE t \in {[s EXCEPT !.stage = "done", !.outcome = "answer"],
                  [s EXCEPT !.stage = "paused", !.outcome = "implementer-failed"]}
  <2> HIDE DEF t
  <2>1. Same(t, s)
    BY ZenonT(60), <1>3 DEF Same, RunState
  <2>q. QED BY <2>1 DEF t
<1>q. QED BY <1>1, <1>2, <1>3 DEF AfterImplementing

\* What an expert says is no vote; the last expert leaves the queue empty.
LEMMA AfterSpecializingFollows ==
  ASSUME NEW s \in RunState, NEW a, NEW outcome \in {"approved", "changes-required", "failed"}
  PROVE  Follows(AfterSpecializing(s, a, outcome), s, {})
<1> DEFINE t == AfterSpecializing(s, a, outcome)
           g == [s EXCEPT !.queue = s.queue \ {a.role},
                          !.reviews = s.reviews \cup
                             {[role |-> a.role, agent |-> a.agent,
                               approved |-> outcome = "approved"]}]
           b == [g EXCEPT !.repair = a.revision, !.queue = {}, !.pending = {},
                          !.stage = "implementing"]
           d == [g EXCEPT !.stage = s.after, !.after = ""]
<1>1. Follows(Pause(s, "expert-failed"), s, {})
  BY PauseSame, SameFollows
<1>2. /\ g.diff = s.diff /\ g.pending = s.pending /\ g.assessments = s.assessments
      /\ g.recovery = s.recovery /\ g.queue = s.queue \ {a.role} /\ g.after = s.after
  BY DEF RunState
<1>3. /\ b.diff = s.diff /\ b.pending = {} /\ b.assessments = s.assessments
      /\ b.recovery = s.recovery /\ b.queue = {}
  BY DEF RunState
<1>4. /\ d.diff = s.diff /\ d.pending = s.pending /\ d.assessments = s.assessments
      /\ d.recovery = s.recovery /\ d.queue = s.queue \ {a.role}
  BY DEF RunState
<1>5. \/ t = Pause(s, "expert-failed") \/ t = b \/ t = g
      \/ t = d /\ g.queue = {}
  BY DEF AfterSpecializing
<1> HIDE DEF t, g, b, d
<1>6. Follows(g, s, {}) /\ Follows(b, s, {})
  BY <1>2, <1>3 DEF Follows, Placed
<1>7. g.queue = {} => Follows(d, s, {})
  BY <1>2, <1>4 DEF Follows, Placed
<1>q. QED BY <1>1, <1>5, <1>6, <1>7 DEF t

\* What an assessor says is a vote under the identifier of its assignment.
LEMMA AfterAssessingFollows ==
  ASSUME NEW s \in RunState, NEW a, NEW outcome \in {"approved", "changes-required", "failed"}
  PROVE  Follows(AfterAssessing(s, a, outcome), s, {a.id})
<1> DEFINE t == AfterAssessing(s, a, outcome)
           x == [id |-> a.id, agent |-> a.agent, revision |-> a.revision,
                 approved |-> outcome = "approved"]
           g == [s EXCEPT !.assessments = s.assessments \cup {x}]
           b == [g EXCEPT !.repair = a.revision, !.stage = "implementing", !.pending = {}]
           c == [g EXCEPT !.stage = "implementing", !.pending = {}]
           d == [g EXCEPT !.stage = "done", !.outcome = "approved", !.pending = {}]
           v == [s EXCEPT !.stage = "verifying", !.outcome = "", !.assessments = {},
                          !.pending = {}]
<1>0. x.id = a.id
  OBVIOUS
<1>1. t = s \/ t = g \/ t = b \/ t = c \/ t = d \/ t = v
  BY DEF AfterAssessing
<1> HIDE DEF x, t
<1> DEFINE WithVote(y) ==
             /\ y.diff = s.diff /\ y.pending \subseteq s.pending
             /\ y.assessments = s.assessments \cup {x}
             /\ y.recovery = s.recovery /\ y.queue = s.queue /\ y.after = s.after
<1>2. WithVote(g) /\ WithVote(b) /\ WithVote(c) /\ WithVote(d)
  BY DEF RunState
<1>3. /\ v.diff = s.diff /\ v.pending = {} /\ v.assessments = {}
      /\ v.recovery = s.recovery /\ v.queue = s.queue /\ v.after = s.after
  BY DEF RunState
<1> HIDE DEF g, b, c, d, v
<1>4. \A y \in {g, b, c, d} : Follows(y, s, {a.id})
  BY <1>0, <1>2 DEF Follows, Placed
<1>5. Follows(v, s, {a.id}) /\ Follows(s, s, {a.id})
  BY <1>3 DEF Follows, Placed
<1>q. QED BY <1>1, <1>4, <1>5 DEF t

\* Heard: the result of a has been taken off the pending assignments.
Hears(t, s, a) == Follows(t, s, {a.id}) /\ a \notin t.pending

\* State.Apply says nothing but what the result says.
LEMMA ApplyHears ==
  ASSUME NEW s \in RunState, NEW a \in Assignment, NEW outcome, NEW revision,
         Accepts(s, a, outcome)
  PROVE  LET x == Apply(s, a, outcome, revision)
         IN \/ Hears(x, s, a)
            \/ outcome = "changed" /\ Renews(x, s, revision)
<1> DEFINE t == Taken(s, a)
           u == Settled(t)
           x == Apply(s, a, outcome, revision)
<1>1. /\ t \in RunState /\ u \in RunState
      /\ Follows(t, s, {}) /\ Follows(u, s, {})
      /\ t.pending = s.pending \ {a} /\ u.pending = s.pending \ {a}
  BY TakenSame
<1>3. \/ outcome = "handoff" /\ x = AfterHandoff(t, a)
      \/ outcome = "timed-out" /\ x = Pause(u, "invocation-timeout")
      \/ outcome = "run-time-exhausted" /\ x = Pause(u, "budget-exhausted")
      \/ /\ outcome \in {"invocation-failed", "auth-failed"}
         /\ x = AfterExclusion(u, a, outcome)
      \/ /\ u.stage = "planning" /\ outcome \in {"answer", "planned", "failed"}
         /\ x = AfterPlanning(u, outcome, revision)
      \/ /\ u.stage = "implementing" /\ outcome \in {"answer", "changed", "failed"}
         /\ x = AfterImplementing(u, a, outcome, revision)
      \/ /\ u.stage = "assessing"
         /\ outcome \in {"approved", "changes-required", "failed"}
         /\ x = AfterAssessing(u, a, outcome)
      \/ /\ u.stage = "specializing"
         /\ outcome \in {"approved", "changes-required", "failed"}
         /\ outcome # "failed" => a.role \in u.queue
         /\ x = AfterSpecializing(u, a, outcome)
  BY ApplyForms
<1> HIDE DEF t, u, x
<1>4. \A v \in {t, u} : Follows(x, v, {a.id}) => Hears(x, s, a)
  <2>1. SUFFICES ASSUME NEW v \in {t, u}, Follows(x, v, {a.id}) PROVE Hears(x, s, a)
    OBVIOUS
  <2>2. Follows(x, s, {a.id})
    BY <1>1, <2>1, FollowsTwice
  <2>3. x.pending \subseteq s.pending \ {a}
    BY <1>1, <2>1 DEF Follows
  <2>q. QED BY <2>2, <2>3 DEF Hears
<1>5. \A v \in {t, u} : Same(x, v) => Hears(x, s, a)
  BY <1>4, SameFollows, FollowsTwice
<1>6. CASE x = AfterHandoff(t, a)
  <2>1. Same(x, t)
    BY <1>1, <1>6, AfterHandoffSame
  <2>q. QED BY <1>5, <2>1 DEF x
<1>7. CASE x \in {Pause(u, "invocation-timeout"), Pause(u, "budget-exhausted")}
  <2>1. Same(x, u)
    BY <1>1, <1>7, PauseSame
  <2>q. QED BY <1>5, <2>1 DEF x
<1>8. CASE x = AfterExclusion(u, a, outcome)
  <2>1. Same(x, u)
    BY <1>1, <1>8 DEF AfterExclusion, Same, RunState
  <2>q. QED BY <1>5, <2>1 DEF x
<1>9. CASE /\ outcome \in {"answer", "planned", "failed"}
           /\ x = AfterPlanning(u, outcome, revision)
  <2>1. Same(x, u)
    BY <1>1, <1>9, AfterPlanningSame
  <2>q. QED BY <1>5, <2>1 DEF x
<1>10. CASE /\ outcome \in {"answer", "changed", "failed"}
            /\ x = AfterImplementing(u, a, outcome, revision)
  <2>1. Same(x, u) \/ (outcome = "changed" /\ Renews(x, u, revision))
    BY <1>1, <1>10, AfterImplementingRenews
  <2>q. QED BY <1>1, <1>5, <2>1, RenewsStill DEF x
<1>11. CASE /\ outcome \in {"approved", "changes-required", "failed"}
            /\ x = AfterAssessing(u, a, outcome)
  <2>1. Follows(x, u, {a.id})
    BY <1>1, <1>11, AfterAssessingFollows
  <2>q. QED BY <1>4, <2>1 DEF x
<1>12. CASE /\ outcome \in {"approved", "changes-required", "failed"}
            /\ x = AfterSpecializing(u, a, outcome)
  <2>1. Follows(x, u, {a.id})
    BY <1>1, <1>12, AfterSpecializingFollows, FollowsTwice
  <2>q. QED BY <1>4, <2>1 DEF x
<1>q. QED BY <1>3, <1>6, <1>7, <1>8, <1>9, <1>10, <1>11, <1>12

\* A new candidate that is the old one is no new candidate.
LEMMA RenewsSame ==
  ASSUME NEW s, NEW t, Renews(t, s, s.diff)
  PROVE  Follows(t, s, {})
BY DEF Renews, Follows

\* What follows a result adds nothing to it.
LEMMA HearsStill ==
  ASSUME NEW s, NEW t, NEW u, NEW a, Hears(t, s, a), Follows(u, t, {})
  PROVE  Hears(u, s, a)
<1>1. Follows(u, s, {a.id})
  BY FollowsTwice DEF Hears
<1>q. QED BY <1>1 DEF Hears, Follows

\* A result of a was recorded: what it says follows, with the patch as it was,
\* or there is a new candidate, in run.json and on disk; unless the driver
\* dies after it wrote the implementer's patch.
Recorded(a) ==
    \/ Hears(run', run, a) /\ patch' = patch
    \/ Follows(run', run, {}) /\ patch' = patch
    \/ Renews(run', run, patch') /\ patch' \in Candidates
    \/ /\ "crash" \in Events /\ a.role = Implementer /\ a \in run.pending
       /\ run' = run /\ patch' \in Candidates

\* sdlcRecordResultLocked records what the worker said.
LEMMA AcceptedRecorded ==
  ASSUME run \in RunState, NEW a \in Assignment, NEW outcome \in WorkerOutcomes(a.role),
         NEW revision \in ResultRevisions(a, outcome),
         Accepts(run, a, outcome), Accepted(a, outcome, revision)
  PROVE  Recorded(a)
<1> DEFINE applied == Apply(run, a, outcome, revision)
           s == IF outcome = "planned"
                THEN [applied EXCEPT !.approvedPlan = None, !.authorized = None] ELSE applied
           newCandidate == outcome = "changed" /\ s.diff # run.diff
           h == IF newCandidate THEN Unseen ELSE hist
           kind == IF outcome = "planned" THEN "plan" ELSE "diff"
           open == [s EXCEPT !.pendingDecision = kind, !.pendingPhase = s.stage]
<1>2. /\ outcome = "planned" => revision \in Plans
      /\ outcome = "changed" => revision \in Candidates
  BY DEF ResultRevisions
<1>3. applied \in RunState
  BY <1>2, ApplyType
<1>4. \/ Hears(applied, run, a)
      \/ outcome = "changed" /\ Renews(applied, run, revision)
  BY ApplyHears
<1> HIDE DEF applied
<1>5. s \in RunState
  BY <1>3, Update
<1>6. Same(s, applied)
  BY <1>3 DEF Same, RunState
<1> HIDE DEF s
<1>7. \/ Hears(s, run, a)
      \/ outcome = "changed" /\ Renews(s, run, revision)
  BY <1>4, <1>6, SameFollows, HearsStill, RenewsStill
<1>8. kind \in {"plan", "diff"} /\ s.stage \in Stages
  BY <1>5, Fields
<1> HIDE DEF kind
<1>9. open \in RunState
  BY <1>5, <1>8, Update
<1>10. Same(open, s)
  BY <1>5 DEF Same, RunState
<1> HIDE DEF open
<1>11. newCandidate => Renews(s, run, revision)
  BY <1>7 DEF Hears, Follows
<1>12. ~newCandidate => Hears(s, run, a) \/ Follows(s, run, {})
  BY <1>7, RenewsSame DEF Renews
<1>13. \/ /\ newCandidate \/ outcome = "planned"
          /\ \/ Decide(open, kind, h)
             \/ run' = open
             \/ "crash" \in Events /\ run' = run
          /\ patch' = IF newCandidate THEN revision ELSE patch
       \/ /\ ~newCandidate /\ patch' = patch
          /\ run' \in UNION {Gated(t) : t \in
                IF outcome \in {"invocation-failed", "auth-failed"} THEN Rerouted(s) ELSE {s}}
  BY DEF Accepted, applied, s, newCandidate, h, kind, open
<1>14. newCandidate => outcome = "changed"
  OBVIOUS
<1>15. ASSUME Follows(run', s, {}), patch' = IF newCandidate THEN revision ELSE patch
       PROVE  Recorded(a)
  <2>1. CASE newCandidate
    BY <1>2, <1>11, <1>14, <1>15, <2>1, RenewsStill DEF Recorded
  <2>2. CASE ~newCandidate
    BY <1>12, <1>15, <2>2, HearsStill, FollowsTwice DEF Recorded
  <2>q. QED BY <2>1, <2>2
<1> HIDE DEF newCandidate, h
<1>16. CASE /\ Decide(open, kind, h) \/ run' = open
            /\ patch' = IF newCandidate THEN revision ELSE patch
  <2>1. Follows(run', open, {})
    BY <1>8, <1>9, <1>16, DecideFollows, FollowsTwice
  <2>2. Follows(run', s, {})
    BY <1>10, <2>1, SameFollows, FollowsTwice
  <2>q. QED BY <1>15, <1>16, <2>2
<1>17. CASE /\ "crash" \in Events /\ run' = run
            /\ patch' = IF newCandidate THEN revision ELSE patch
  <2>1. newCandidate => a.role = Implementer /\ revision \in Candidates
    BY <1>2, <1>14, SaidBy
  <2>2. a \in run.pending
    BY DEF Accepts
  <2>q. QED BY <1>17, <2>1, <2>2, FollowsTwice DEF Recorded
<1>18. CASE /\ ~newCandidate /\ patch' = patch
            /\ run' \in UNION {Gated(t) : t \in
                IF outcome \in {"invocation-failed", "auth-failed"} THEN Rerouted(s) ELSE {s}}
  <2>1. PICK t \in {s} \cup Rerouted(s) : run' \in Gated(t)
    BY <1>18
  <2>2. t \in RunState /\ (t = s \/ Same(t, s))
    BY <1>5, ReroutedType, ReroutedSame
  <2>3. Same(run', t)
    BY <2>1, <2>2, GatedSame
  <2>4. Follows(run', s, {})
    BY <2>2, <2>3, SameTwice, SameFollows
  <2>q. QED BY <1>15, <1>18, <2>4
<1>q. QED BY <1>13, <1>16, <1>17, <1>18

\* The supervisor's checks say nothing of the reviewers' candidate.
LEMMA VerifiedFollows ==
  ASSUME NEW s \in RunState, NEW verdict \in Verdicts(s)
  PROVE  Follows(Verified(s, verdict), s, {})
<1> DEFINE t == Verified(s, verdict)
           i == Invalidate(s)
           r == [s EXCEPT !.receipts = "failed", !.receiptsFor = s.diff]
           p == [s EXCEPT !.stage = "assessing", !.outcome = "",
                          !.receipts = "none", !.receiptsFor = None]
           q == [s EXCEPT !.stage = "assessing", !.outcome = "",
                          !.receipts = "passed", !.receiptsFor = s.diff]
           f == [s EXCEPT !.stage = "implementing", !.outcome = "",
                          !.pending = {}, !.receipts = "failed", !.receiptsFor = s.diff]
           j == [i EXCEPT !.stage = "implementing", !.outcome = "",
                          !.receipts = "failed", !.receiptsFor = s.diff]
<1>1. /\ i \in RunState /\ i.assessments = {} /\ i.diff = s.diff
      /\ i.queue = {} /\ i.pending = {} /\ i.recovery = s.recovery
  <2>1. i \in RunState
    BY InvalidateType
  <2>q. QED BY <2>1 DEF Invalidate, RunState
<1>2. r \in RunState
  <2>1. s.diff \in Candidates \cup {None}
    BY Fields
  <2>q. QED BY <2>1, Update
<1>3. Same(r, s) /\ Same(p, s) /\ Same(q, s) /\ Same(f, s)
  BY DEF Same, RunState
<1>4. t = p \/ t = q \/ t = f \/ t = j \/ t = Pause(r, "verification-environment-failed")
  BY DEF Verdicts, Verified
<1> HIDE DEF t, i, r, p, q, f
<1>5. Same(Pause(r, "verification-environment-failed"), r)
  BY <1>2, PauseSame
<1>6. /\ j.assessments = {} /\ j.diff = s.diff /\ j.queue = {} /\ j.pending = {}
      /\ j.recovery = s.recovery
  BY <1>1 DEF RunState
<1> HIDE DEF j
<1>7. Follows(j, s, {})
  BY <1>6 DEF Follows, Placed
<1>q. QED BY <1>3, <1>4, <1>5, <1>7, SameTwice, SameFollows DEF t

-----------------------------------------------------------------------------
(***************************************************************************)
(* The steps of the processes                                              *)
(***************************************************************************)

\* An assignment reserves one for the candidate at hand.
LEMMA WithFallbackSame ==
  ASSUME NEW s \in RunState, NEW role
  PROVE  /\ Same(WithFallback(s, role), s)
         /\ WithFallback(s, role).pending = s.pending
BY DEF WithFallback, Same, RunState

\* The driver reserves a, for a role the stage wants, and may launch it.
Reserved(a) ==
    /\ MayAssign /\ a.role \in RolesWanted(run)
    /\ \A c \in run.pending \cup running : c.id # a.id
    /\ \A x \in run.assessments : x.id # a.id
    /\ run.recovery # None => run.recovery.assignment.id # a.id
    /\ a.role \in Reviewers => a.revision = run.diff
    /\ run'.diff = run.diff /\ run'.pending = run.pending \cup {a}
    /\ run'.assessments = run.assessments /\ run'.recovery = run.recovery
    /\ Placed(run) => Placed(run')
    /\ running' \in {running, running \cup {a}}

LEMMA AssignReserves ==
  ASSUME run \in RunState, AssignNext
  PROVE  \E a \in Assignment : Reserved(a)
<1>1. PICK role \in RolesWanted(run) :
        \E g \in Candidate(WithFallback(run, role), role) :
           LET s == WithFallback(run, role)
               i == CHOOSE x \in FreshIds(s) : TRUE
               a == [id |-> i, role |-> role, agent |-> g,
                     revision |-> TargetRevision(s, role)]
           IN /\ FreshIds(s) # {}
              /\ run' = [s EXCEPT !.pending = s.pending \cup {a}]
              /\ running' = IF ParallelReviews(s) THEN running ELSE running \cup {a}
  BY DEF AssignNext
<1> DEFINE s == WithFallback(run, role)
           i == CHOOSE x \in FreshIds(s) : TRUE
<1>2. PICK g \in Candidate(s, role) :
           LET a == [id |-> i, role |-> role, agent |-> g,
                     revision |-> TargetRevision(s, role)]
           IN /\ FreshIds(s) # {}
              /\ run' = [s EXCEPT !.pending = s.pending \cup {a}]
              /\ running' = IF ParallelReviews(s) THEN running ELSE running \cup {a}
  BY <1>1
<1> DEFINE a == [id |-> i, role |-> role, agent |-> g, revision |-> TargetRevision(s, role)]
<1>3. i \in FreshIds(s)
  BY <1>2
<1>4. s \in RunState /\ Same(s, run) /\ s.pending = run.pending
  BY WithFallbackType, WithFallbackSame
<1> HIDE DEF i, s
<1>5. g \in Agents /\ i \in Invocations
  BY <1>3 DEF Candidate, Eligible, FreshIds
<1>6. a \in Assignment
  BY <1>4, <1>5, AssignmentType
<1>7. a.id = i /\ a.role = role /\ a.revision = TargetRevision(s, role)
  OBVIOUS
<1>8. run' = [s EXCEPT !.pending = s.pending \cup {a}] /\ running' \in {running, running \cup {a}}
  BY <1>2
<1> HIDE DEF a
<1>9. /\ run'.diff = run.diff /\ run'.pending = run.pending \cup {a}
      /\ run'.assessments = run.assessments /\ run'.recovery = run.recovery
      /\ run'.queue = run.queue /\ run'.after = run.after
  BY <1>4, <1>8 DEF Same, RunState
<1>10. /\ \A c \in run.pending \cup running : c.id # i
       /\ \A x \in run.assessments : x.id # i
       /\ run.recovery # None => run.recovery.assignment.id # i
  BY <1>3, <1>4 DEF FreshIds, Same
<1>11. role \in Reviewers => a.revision = run.diff
  BY <1>4, <1>7 DEF TargetRevision, Same, Reviewers, Planner, Implementer, Assessor,
                    PlanExperts, DiffExperts
<1>12. MayAssign
  BY DEF AssignNext
<1>q. QED BY <1>6, <1>7, <1>8, <1>9, <1>10, <1>11, <1>12 DEF Reserved, Placed

\* What a driver does between the workers' results.
Drives ==
    /\ patch' = patch /\ replies' = replies
    /\ \/ Follows(run', run, {}) /\ running' = running
       \/ \E a \in Assignment : Reserved(a)
       \/ run' = run /\ running' = running \cup run.pending

\* What a drive may do to the run, the patch and the workers.
LEMMA DriveShape ==
  ASSUME run \in RunState, Drive
  PROVE  Drives
<1>1. Follows(run, run, {})
  BY FollowsTwice
<1>2. CASE PlanApprovalGate
  <2>1. PICK reason \in {"command-authorization-required", "plan-required",
                         "plan-approval-required"} :
          run' = [Pause(run, reason) EXCEPT !.pendingPhase = "implementing"]
    BY <1>2 DEF PlanApprovalGate
  <2> DEFINE p == Pause(run, reason)
  <2>2. p \in RunState /\ Same(p, run)
    BY Reasons, PauseType, PauseSame
  <2> HIDE DEF p
  <2>3. Same([p EXCEPT !.pendingPhase = "implementing"], p)
    BY <2>2 DEF Same, RunState
  <2>4. Follows(run', run, {})
    BY <2>1, <2>2, <2>3, SameTwice, SameFollows DEF p
  <2>q. QED BY <1>2, <2>4 DEF PlanApprovalGate, Drives
<1>3. CASE AssignNext
  BY <1>3, AssignReserves DEF AssignNext, Drives
<1>4. CASE NobodyEligible
  <2>1. PICK role \in RolesWanted(run) :
          \/ run' = Pause(WithFallback(run, role), FailedOutcome(role))
          \/ run' = Pause(WithFallback(run, role), "assessment-quorum-unavailable")
    BY <1>4 DEF NobodyEligible
  <2> DEFINE s == WithFallback(run, role)
  <2>2. s \in RunState /\ Same(s, run)
    BY WithFallbackType, WithFallbackSame
  <2> HIDE DEF s
  <2>3. Same(Pause(s, FailedOutcome(role)), s)
        /\ Same(Pause(s, "assessment-quorum-unavailable"), s)
    BY <2>2, PauseSame
  <2>4. Follows(run', run, {})
    BY <2>1, <2>2, <2>3, SameTwice, SameFollows DEF s
  <2>q. QED BY <1>4, <2>4 DEF NobodyEligible, Drives
<1>5. CASE BudgetStops
  <2>1. Follows(run', run, {})
    BY <1>5, PauseSame, SameFollows DEF BudgetStops
  <2>q. QED BY <1>5, <2>1 DEF BudgetStops, Drives
<1>6. CASE LaunchReviews
  BY <1>6 DEF LaunchReviews, Drives
<1>7. CASE Verify
  <2>1. \/ run' = Pause(run, "command-authorization-required")
        \/ \E verdict \in Verdicts(run) : run' = Verified(run, verdict)
    BY <1>7 DEF Verify
  <2>2. Follows(run', run, {})
    BY <2>1, PauseSame, SameFollows, VerifiedFollows
  <2>q. QED BY <1>7, <2>2 DEF Verify, Drives
<1>8. CASE RetrySpecialistDecision
  <2>1. Follows(run', run, {})
    BY <1>8, DecideAgainFollows DEF RetrySpecialistDecision
  <2>q. QED BY <1>8, <2>1 DEF RetrySpecialistDecision, Drives
<1>9. CASE DriverError
  <2>1. Follows(run', run, {})
    BY <1>9, DriveFailedSame, SameFollows DEF DriverError
  <2>q. QED BY <1>9, <2>1 DEF DriverError, Drives
<1>q. QED BY <1>2, <1>3, <1>4, <1>5, <1>6, <1>7, <1>8, <1>9 DEF Drive

\* What is done about the worker of a.
Reports(a) ==
    /\ a \in Executing /\ Recorded(a)
    /\ running' = running \ {a} /\ replies' = replies

Fails(a) ==
    /\ a \in running /\ Follows(run', run, {}) /\ run'.pending = {} /\ patch' = patch
    /\ running' = running \ {a} /\ replies' = {r \in replies : r.assignment # a}

Saves(a, r) ==
    /\ a \in Executing /\ r.assignment = a
    /\ run'.diff = run.diff /\ run'.pending = run.pending
    /\ run'.assessments = run.assessments /\ run'.recovery = r
    /\ Placed(run) => Placed(run')
    /\ running' = running /\ replies' = replies \cup {r} /\ patch' = patch

Finishes(r) ==
    /\ r \in replies /\ patch' = patch
    /\ running' = running \ {r.assignment} /\ replies' = replies \ {r}
    /\ \/ Follows(run', run, {})
       \/ r.outcome = "changes-required" /\ Hears(run', run, r.assignment)
    /\ r.outcome = "approved" => run'.pending = {}

Dies ==
    /\ "crash" \in Events /\ run' = run /\ patch' = patch
    /\ running' = {} /\ replies' = {}

\* The same of a driver that finishes a saved review.
LEMMA FinishShape ==
  ASSUME run \in RunState, replies \subseteq Recovery, FinishReview
  PROVE  \E r \in replies : Finishes(r)
<1>1. PICK r \in replies : /\ run' \in Finished(r)
                           /\ replies' = replies \ {r}
                           /\ running' = running \ {r.assignment}
  BY DEF FinishReview
<1> DEFINE a == r.assignment
           recorded == IF Accepts(run, a, r.outcome)
                       THEN Gated(Apply(run, a, r.outcome, a.revision)) ELSE {run}
<1>2. /\ a \in Assignment /\ r.outcome \in {"approved", "changes-required"}
      /\ r.outcome \in WorkerOutcomes(a.role)
  BY DEF Recovery, Assignment, Reviewers, WorkerOutcomes, Assessor, Planner, Implementer,
         PlanExperts
<1>3. CASE r.outcome = "approved"
  <2>1. run' = Pause(run, "review-workspace-drift")
    BY <1>1, <1>3 DEF Finished
  <2>2. Follows(run', run, {}) /\ run'.pending = {}
    BY <2>1, PauseSame, SameFollows
  <2>q. QED BY <1>1, <2>2 DEF Finishes, FinishReview
<1>4. CASE r.outcome = "changes-required"
  <2> HIDE DEF a
  <2>1. ASSUME NEW s \in recorded PROVE s \in RunState /\ (Follows(s, run, {}) \/ Hears(s, run, a))
    <3>1. CASE Accepts(run, a, r.outcome)
      <4> DEFINE x == Apply(run, a, r.outcome, a.revision)
      <4>1. x \in RunState
        BY <1>2, <1>4, <3>1, ApplyType
      <4>2. Hears(x, run, a)
        BY <1>2, <1>4, <3>1, ApplyHears
      <4>3. s \in Gated(x)
        BY <2>1, <3>1
      <4> HIDE DEF x
      <4>4. Follows(s, x, {}) /\ s \in RunState
        BY <4>1, <4>3, GatedSame, SameFollows, GatedType
      <4>q. QED BY <4>2, <4>4, HearsStill
    <3>2. CASE ~Accepts(run, a, r.outcome)
      BY <2>1, <3>2, FollowsTwice
    <3>q. QED BY <3>1, <3>2
  <2> HIDE DEF recorded
  <2>2. \A s \in RunState : Follows(Applied(s, r), s, {})
    <3>1. SUFFICES ASSUME NEW s \in RunState PROVE Follows(Applied(s, r), s, {})
      OBVIOUS
    <3>2. Applied(s, r) = s \/ Applied(s, r) = [s EXCEPT !.recovery = None]
      BY DEF Applied
    <3>3. Follows([s EXCEPT !.recovery = None], s, {})
      BY DEF Follows, Placed, RunState
    <3>q. QED BY <3>2, <3>3, FollowsTwice
  <2>3. \/ \E s \in recorded : run' = Applied(s, r) \/ run' = s
        \/ run' \in DriveFailed(run)
    BY <1>1, <1>4 DEF Finished, recorded, a
  <2>4. Follows(run', run, {}) \/ Hears(run', run, a)
    <3>1. CASE run' \in DriveFailed(run)
      BY <3>1, DriveFailedSame, SameFollows
    <3>2. CASE \E s \in recorded : run' = Applied(s, r) \/ run' = s
      <4>1. PICK s \in recorded : run' = Applied(s, r) \/ run' = s
        BY <3>2
      <4>2. s \in RunState /\ (Follows(s, run, {}) \/ Hears(s, run, a))
        BY <2>1
      <4>3. Follows(run', s, {})
        BY <2>2, <4>1, <4>2, FollowsTwice
      <4>q. QED BY <4>2, <4>3, FollowsTwice, HearsStill
    <3>q. QED BY <2>3, <3>1, <3>2
  <2>q. QED BY <1>1, <1>4, <2>4 DEF Finishes, FinishReview, a
<1>q. QED BY <1>2, <1>3, <1>4

\* The same of an invocation's end.
LEMMA InvocationShape ==
  ASSUME RunTypeOK, Invocation
  PROVE  \/ \E a \in Assignment : Reports(a) \/ Fails(a)
         \/ \E a \in Assignment, r \in Recovery : Saves(a, r)
         \/ \E r \in replies : Finishes(r)
         \/ Dies
<1>1. /\ run \in RunState /\ running \subseteq Assignment /\ replies \subseteq Recovery
      /\ Executing \subseteq running
  BY DEF RunTypeOK, Executing
<1>2. CASE Report
  <2>0. PICK a \in Executing :
          /\ \E outcome \in WorkerOutcomes(a.role) :
               \E revision \in ResultRevisions(a, outcome) :
                 \/ Accepts(run, a, outcome) /\ Accepted(a, outcome, revision)
                 \/ run' = run /\ patch' = patch
                 \/ run' = Pause(run, FailedOutcome(a.role)) /\ patch' = patch
          /\ running' = running \ {a} /\ replies' = replies
    BY <1>2 DEF Report, Ignored
  <2>1. PICK outcome \in WorkerOutcomes(a.role) :
          \E revision \in ResultRevisions(a, outcome) :
             \/ Accepts(run, a, outcome) /\ Accepted(a, outcome, revision)
             \/ run' = run /\ patch' = patch
             \/ run' = Pause(run, FailedOutcome(a.role)) /\ patch' = patch
    BY <2>0
  <2>2. Same(Pause(run, FailedOutcome(a.role)), run)
    BY <1>1, PauseSame
  <2>3. a \in Assignment
    BY <1>1, <2>0
  <2>4. Recorded(a)
    <3>1. CASE \E revision \in ResultRevisions(a, outcome) :
                 Accepts(run, a, outcome) /\ Accepted(a, outcome, revision)
      BY <1>1, <2>3, <3>1, AcceptedRecorded
    <3>2. CASE run' = run /\ patch' = patch
      BY <3>2, FollowsTwice DEF Recorded
    <3>3. CASE run' = Pause(run, FailedOutcome(a.role)) /\ patch' = patch
      BY <2>2, <3>3, SameFollows DEF Recorded
    <3>q. QED BY <2>1, <3>1, <3>2, <3>3
  <2>5. Reports(a)
    BY <2>0, <2>4 DEF Reports
  <2>q. QED BY <2>3, <2>5
<1>3. CASE FailAssignment
  <2>1. PICK a \in running :
          /\ run' = Pause(run, FailedOutcome(a.role))
          /\ running' = running \ {a} /\ replies' = {r \in replies : r.assignment # a}
          /\ patch' = patch
    BY <1>3 DEF FailAssignment
  <2>2. Follows(run', run, {}) /\ run'.pending = {}
    <3>1. FailedOutcome(a.role) # "budget-exhausted"
      BY DEF FailedOutcome
    <3>q. QED BY <1>1, <2>1, <3>1, PauseSame, SameFollows
  <2>3. Fails(a)
    BY <2>1, <2>2 DEF Fails
  <2>q. QED BY <1>1, <2>1, <2>3
<1>4. CASE LoseSession \/ UnsafeReview
  <2>1. PICK a \in Executing :
          /\ \/ run' = Pause(run, "session-recovery-required")
             \/ run' = Pause(run, "unsafe-review-artifact")
          /\ running' = running \ {a} /\ replies' = replies /\ patch' = patch
    BY <1>4 DEF LoseSession, UnsafeReview
  <2>2. Follows(run', run, {})
    BY <1>1, <2>1, PauseSame, SameFollows
  <2>3. Reports(a)
    BY <2>1, <2>2 DEF Reports, Recorded
  <2>q. QED BY <1>1, <2>1, <2>3
<1>5. CASE InjectionReview
  <2> DEFINE p == IF run.stage = "paused" THEN run.pendingPhase ELSE run.stage
             s == [run EXCEPT !.pendingPhase = p]
  <2>1. PICK a \in Executing :
          /\ run' = Pause(s, "injection-review-required")
          /\ running' = running \ {a} /\ replies' = replies /\ patch' = patch
    BY <1>5 DEF InjectionReview
  <2>2. p \in Stages
    BY <1>1, Fields
  <2> HIDE DEF p
  <2>3. s \in RunState /\ Same(s, run)
    <3>1. s \in RunState
      BY <1>1, <2>2, Update
    <3>q. QED BY <1>1, <3>1 DEF Same, RunState
  <2> HIDE DEF s
  <2>4. Follows(run', run, {})
    BY <2>1, <2>3, PauseSame, SameTwice, SameFollows
  <2>5. Reports(a)
    BY <2>1, <2>4 DEF Reports, Recorded
  <2>q. QED BY <1>1, <2>1, <2>5
<1>6. CASE CancelReview
  <2>1. PICK a \in Executing :
          /\ run' = [run EXCEPT !.pending = run.pending \ {a}]
          /\ running' = running \ {a} /\ replies' = replies /\ patch' = patch
    BY <1>6 DEF CancelReview
  <2>2. /\ run'.diff = run.diff /\ run'.pending = run.pending \ {a}
        /\ run'.assessments = run.assessments /\ run'.recovery = run.recovery
        /\ run'.queue = run.queue /\ run'.after = run.after
    BY <1>1, <2>1 DEF RunState
  <2>3. Follows(run', run, {})
    BY <2>2 DEF Follows, Placed
  <2>4. Reports(a)
    BY <2>1, <2>3 DEF Reports, Recorded
  <2>q. QED BY <1>1, <2>1, <2>4
<1>7. CASE SaveReview
  <2>1. PICK a \in Executing, outcome \in {"approved", "changes-required"} :
          LET r == [assignment |-> a, outcome |-> outcome]
          IN /\ a.role = Assessor
             /\ run' = [run EXCEPT !.recovery = r]
             /\ replies' = replies \cup {r}
    BY <1>7 DEF SaveReview
  <2> DEFINE r == [assignment |-> a, outcome |-> outcome]
  <2>2. r \in Recovery /\ r.assignment = a
    <3>1. a \in [id : Invocations, role : {Assessor}, agent : Agents,
                 revision : Candidates \cup {None}]
      <4>1. a \in Assignment /\ a.role \notin Makers
        BY <1>1, <2>1 DEF Makers, PlanExperts, Planner, Implementer, Assessor
      <4>q. QED BY <2>1, <4>1 DEF Assignment
    <3>q. QED BY <3>1 DEF Recovery
  <2>3. run' = [run EXCEPT !.recovery = r] /\ replies' = replies \cup {r}
    BY <2>1
  <2> HIDE DEF r
  <2>4. /\ run'.diff = run.diff /\ run'.pending = run.pending
        /\ run'.assessments = run.assessments /\ run'.recovery = r
        /\ run'.queue = run.queue /\ run'.after = run.after
    BY <1>1, <2>3 DEF RunState
  <2>5. Saves(a, r)
    BY <1>7, <2>1, <2>2, <2>3, <2>4 DEF Saves, Placed, SaveReview
  <2>q. QED BY <1>1, <2>1, <2>2, <2>5
<1>8. CASE FinishReview
  BY <1>1, <1>8, FinishShape
<1>9. CASE Crash
  BY <1>9 DEF Crash, Dies
<1>q. QED BY <1>2, <1>3, <1>4, <1>5, <1>6, <1>7, <1>8, <1>9 DEF Invocation

\* A saved review a becomes pending again: nobody counted it, and it is of the
\* candidate.
Repends(t, s, a) ==
    /\ t.diff = s.diff /\ t.pending \subseteq s.pending \cup {a}
    /\ t.assessments \subseteq s.assessments /\ \A x \in t.assessments : x.id # a.id
    /\ t.recovery = s.recovery /\ a.revision = t.diff
    /\ Placed(s) => Placed(t)

\* t is what a resume makes of s: only a rejection is reviewed or counted anew.
Resumed(t, s) ==
    \/ Follows(t, s, {})
    \/ /\ s.recovery # None
       /\ \/ /\ Repends(t, s, s.recovery.assignment)
             /\ s.recovery.outcome = "changes-required" \/ "crash" \in Events
          \/ Hears(t, s, s.recovery.assignment) /\ t.recovery = None

\* Forgetting a recovery follows.
LEMMA ForgetFollows ==
  ASSUME NEW s \in RunState
  PROVE  Follows([s EXCEPT !.recovery = None], s, {})
BY DEF Follows, Placed, RunState

\* What precedes a resume does not matter to what it makes of the run.
LEMMA ResumedAfter ==
  ASSUME NEW s, NEW t, NEW u, Resumed(u, t), Follows(t, s, {})
  PROVE  Resumed(u, s)
<1>1. CASE Follows(u, t, {})
  BY <1>1, FollowsTwice DEF Resumed
<1>2. CASE ~Follows(u, t, {})
  <2>1. t.recovery # None /\ t.recovery = s.recovery
    BY <1>2 DEF Resumed, Follows
  <2> DEFINE a == s.recovery.assignment
  <2>2. Repends(u, t, a) => Repends(u, s, a)
    BY <2>1 DEF Repends, Follows
  <2>3. Hears(u, t, a) => Hears(u, s, a)
    BY FollowsTwice DEF Hears
  <2>q. QED BY <1>2, <2>1, <2>2, <2>3 DEF Resumed
<1>q. QED BY <1>1, <1>2

\* recoverReview: a saved approval is not reviewed again, nor counted.
LEMMA RecoveredResumed ==
  ASSUME NEW s \in RunState, NEW u \in Recovered(s)
  PROVE  Resumed(u, s)
<1> DEFINE r == s.recovery
           a == r.assignment
           again == [s EXCEPT !.pending = s.pending \cup {a}]
<1>0. Follows(s, s, {})
  BY FollowsTwice
<1>1. CASE s.stage # "assessing" \/ r = None
  BY <1>0, <1>1 DEF Recovered, Resumed
<1>2. CASE s.stage = "assessing" /\ r # None
  <2>1. r \in Recovery
    BY <1>2, Fields
  <2>2. /\ a \in Assignment /\ r.outcome \in WorkerOutcomes(a.role)
        /\ r.outcome \in {"approved", "changes-required"}
    BY <2>1 DEF Recovery, Assignment, Reviewers, WorkerOutcomes, Assessor, Planner,
                Implementer, PlanExperts
  <2>3. again \in RunState
    <3>1. s.pending \cup {a} \in SUBSET Assignment
      BY <2>2, Fields
    <3>q. QED BY <3>1, Update
  <2>4. /\ again.diff = s.diff /\ again.pending = s.pending \cup {a}
        /\ again.assessments = s.assessments /\ again.recovery = s.recovery
        /\ again.queue = s.queue /\ again.after = s.after
    BY DEF RunState
  <2>5. CASE a.revision # patch \/ a.revision # s.diff \/ \E x \in s.assessments : x.id = a.id
    <3>1. u = Pause(s, "review-recovery-invalid")
      BY <1>2, <2>5 DEF Recovered
    <3>q. QED BY <3>1, PauseSame, SameFollows DEF Resumed
  <2>6. CASE a.revision = s.diff /\ a.revision = patch /\ \A x \in s.assessments : x.id # a.id
    <3>1. \/ r.outcome = "approved" /\ u = Pause(again, "review-workspace-drift")
          \/ /\ r.outcome # "approved" /\ Accepts(again, a, r.outcome)
             /\ u \in Gated([Apply(again, a, r.outcome, a.revision) EXCEPT !.recovery = None])
          \/ (r.outcome # "approved" \/ "crash" \in Events) /\ u = again
      BY <1>2, <2>6 DEF Recovered
    <3> HIDE DEF again, a, r
    <3>2. CASE r.outcome = "approved" /\ u = Pause(again, "review-workspace-drift")
      <4>1. Same(u, again) /\ u.pending = {}
        BY <2>3, <3>2, PauseSame
      <4>2. Follows(u, s, {})
        BY <2>4, <4>1 DEF Same, Follows, Placed
      <4>q. QED BY <4>2 DEF Resumed
    <3>3. CASE (r.outcome # "approved" \/ "crash" \in Events) /\ u = again
      <4>1. Repends(again, s, a)
        BY <2>4, <2>6 DEF Repends, Placed
      <4>q. QED BY <1>2, <2>2, <3>3, <4>1 DEF Resumed, a, r
    <3>4. CASE /\ r.outcome # "approved" /\ Accepts(again, a, r.outcome)
               /\ u \in Gated([Apply(again, a, r.outcome, a.revision) EXCEPT !.recovery = None])
      <4> DEFINE x == Apply(again, a, r.outcome, a.revision)
                 y == [x EXCEPT !.recovery = None]
      <4>1. x \in RunState
        BY <2>2, <2>3, <3>4, ApplyType
      <4>2. Hears(x, again, a)
        BY <2>2, <2>3, <3>4, ApplyHears
      <4> HIDE DEF x
      <4>3. y \in RunState /\ Follows(y, x, {}) /\ y.recovery = None
        <5>1. y \in RunState
          BY <4>1, Update
        <5>2. Follows(y, x, {})
          BY <4>1, ForgetFollows
        <5>3. y.recovery = None
          BY <4>1 DEF RunState
        <5>q. QED BY <5>1, <5>2, <5>3
      <4>4. u \in Gated(y)
        BY <3>4 DEF x
      <4> HIDE DEF y
      <4>5. Same(u, y)
        BY <4>3, <4>4, GatedSame
      <4>6. Hears(u, again, a) /\ u.recovery = None
        BY <4>2, <4>3, <4>5, HearsStill, SameFollows DEF Same
      <4>7. Hears(u, s, a)
        BY <2>4, <4>6 DEF Hears, Follows, Placed
      <4>q. QED BY <1>2, <4>6, <4>7 DEF Resumed, a, r
    <3>q. QED BY <3>1, <3>2, <3>3, <3>4
  <2>q. QED BY <2>5, <2>6
<1>q. QED BY <1>1, <1>2

\* Counting an expert's decision on a plan leaves the review alone.
LEMMA MarkCountedFollows ==
  ASSUME NEW s \in RunState
  PROVE  MarkCounted(s) \in RunState /\ Follows(MarkCounted(s), s, {})
         /\ MarkCounted(s).diff = s.diff /\ MarkCounted(s).outcome = s.outcome
         /\ MarkCounted(s).pendingDecision = s.pendingDecision
<1>1. MarkCounted(s) = s \/ MarkCounted(s) = [s EXCEPT !.recovery = None]
  BY DEF MarkCounted
<1>2. /\ [s EXCEPT !.recovery = None].diff = s.diff
      /\ [s EXCEPT !.recovery = None].outcome = s.outcome
      /\ [s EXCEPT !.recovery = None].pendingDecision = s.pendingDecision
  BY DEF RunState
<1>q. QED BY <1>1, <1>2, MarkCountedType, ForgetFollows, FollowsTwice

\* --retry-failed says nothing of the candidate on disk.
LEMMA RetriedFollows ==
  ASSUME NEW s \in RunState, patch \in Candidates \cup {None},
         s.outcome = "review-recovery-invalid" => patch = s.diff
  PROVE  Retried(s) \in RunState /\ Follows(Retried(s), s, {})
<1> DEFINE t0 == Restarted(s, RetryStage(s))
           p == IF s.outcome = "handoff-budget-exhausted" THEN "" ELSE t0.pendingPhase
           v == IF s.outcome \in {"review-workspace-drift", "review-recovery-invalid"}
                THEN None ELSE t0.recovery
           t == [t0 EXCEPT !.pendingPhase = p,
                  !.excluded = {}, !.deferred = {}, !.handoffs = 0,
                  !.fallbackUsed = FALSE, !.lastHandoff = None, !.noProgress = 0,
                  !.recovery = v]
           w == [t EXCEPT !.diff = patch, !.assessments = {}]
<1>1. Retried(s) \in RunState
  BY RetriedType
<1>2. t0 \in RunState /\ Same(t0, s)
  <2>1. t0 \in RunState
    BY RetryStageType, RestartedType
  <2>2. Same(t0, s)
    BY DEF Restarted, Same, RunState
  <2>q. QED BY <2>1, <2>2
<1>3. Retried(s) = IF s.outcome = "review-recovery-invalid" THEN w ELSE t
  BY DEF Retried
<1>4. v \in {s.recovery, None}
  BY <1>2 DEF Same
<1> HIDE DEF t0, p, v
<1>5. /\ t.diff = t0.diff /\ t.pending = t0.pending /\ t.assessments = t0.assessments
      /\ t.recovery = v /\ t.queue = t0.queue /\ t.after = t0.after
  BY ZenonT(60), <1>2 DEF RunState
<1>6. /\ w.diff = patch /\ w.pending = t0.pending /\ w.assessments = {}
      /\ w.recovery = v /\ w.queue = t0.queue /\ w.after = t0.after
  BY ZenonT(60), <1>2 DEF RunState
<1> HIDE DEF t, w
<1>7. Follows(t, s, {})
  BY <1>2, <1>4, <1>5 DEF Same, Follows, Placed
<1>8. s.outcome = "review-recovery-invalid" => Follows(w, s, {})
  BY <1>2, <1>4, <1>6 DEF Same, Follows, Placed
<1>q. QED BY <1>1, <1>3, <1>7, <1>8

\* A restart, with one saved phase forgotten, is a state.
LEMMA RestartedTypes ==
  ASSUME NEW s \in RunState, NEW stage \in Stages
  PROVE  LET r == Restarted(s, stage)
         IN /\ r \in RunState
            /\ [r EXCEPT !.pendingPhase = ""] \in RunState
            /\ [r EXCEPT !.budgetPhase = ""] \in RunState
            /\ [r EXCEPT !.retryPhase = ""] \in RunState
<1> DEFINE r == Restarted(s, stage)
<1>1. r \in RunState
  BY RestartedType
<1> HIDE DEF r
<1>2. "" \in Stages
  BY StageNames
<1>q. QED BY <1>1, <1>2, Update DEF r

\* An operator's resume.
LEMMA ResumeShape ==
  ASSUME RunTypeOK, run.outcome = "review-recovery-invalid" => patch = run.diff, Resume
  PROVE  /\ Resumed(run', run) /\ patch' = patch
         /\ running' = running /\ replies' = replies
<1>0. /\ UNCHANGED <<patch, running, replies>>
  BY DEF Resume, ResumeInjection, ContinueBudget, ResumeInvocation, RetryFailed,
         RetryVerification, ResumeDecision, ResumeReview, ApprovePlan, AuthorizeChecks,
         RequestPlanChanges
<1>1. run \in RunState /\ patch \in Candidates \cup {None}
  BY DEF RunTypeOK
<1>2. ASSUME NEW s \in RunState, ResumeTo(s) PROVE Resumed(run', s)
  <2>1. MarkCounted(s) \in RunState /\ Follows(MarkCounted(s), s, {})
    BY <1>2, MarkCountedFollows
  <2>2. Resumed(run', MarkCounted(s))
    BY <1>2, <2>1, RecoveredResumed DEF ResumeTo
  <2>q. QED BY <2>1, <2>2, ResumedAfter
<1>3. ASSUME NEW t \in RunState, NEW s \in RunState, NEW stage, NEW pendingPhase,
             NEW budgetPhase, RestartedAs(t, s, stage, pendingPhase, budgetPhase)
      PROVE  Follows(t, s, {})
  BY <1>3 DEF RestartedAs, SameData, Follows, Placed
<1>5. CASE ResumeInjection
  <2> DEFINE t == [Restarted(run, run.pendingPhase) EXCEPT !.pendingPhase = ""]
  <2>1. ResumeTo(t)
    BY <1>5 DEF ResumeInjection
  <2>2. t \in RunState /\ RestartedAs(t, run, run.pendingPhase, "", run.budgetPhase)
    BY <1>1, Fields, RestartedTypes, RestartFields
  <2> HIDE DEF t
  <2>3. Resumed(run', t) /\ Follows(t, run, {})
    BY <1>1, <1>2, <1>3, <2>1, <2>2
  <2>q. QED BY <1>0, <2>3, ResumedAfter
<1>6. CASE ContinueBudget
  <2> DEFINE phase == IF run.budgetPhase # "" THEN run.budgetPhase ELSE run.pendingPhase
             t == [Restarted(run, phase) EXCEPT !.budgetPhase = ""]
  <2>1. ResumeTo(t)
    BY <1>6 DEF ContinueBudget
  <2>0. phase \in Stages
    BY <1>1, Fields
  <2> HIDE DEF phase
  <2>2. t \in RunState /\ RestartedAs(t, run, phase, run.pendingPhase, "")
    BY <1>1, <2>0, RestartedTypes, RestartFields
  <2> HIDE DEF t
  <2>3. Resumed(run', t) /\ Follows(t, run, {})
    BY <1>1, <1>2, <1>3, <2>1, <2>2
  <2>q. QED BY <1>0, <2>3, ResumedAfter
<1>7. CASE ResumeInvocation
  <2> DEFINE t == [Restarted(run, run.retryPhase) EXCEPT !.retryPhase = ""]
  <2>1. ResumeTo(t)
    BY <1>7 DEF ResumeInvocation
  <2>2. t \in RunState /\ RestartedAs(t, run, run.retryPhase, run.pendingPhase, run.budgetPhase)
    BY <1>1, Fields, RestartedTypes, RestartFields
  <2> HIDE DEF t
  <2>3. Resumed(run', t) /\ Follows(t, run, {})
    BY <1>1, <1>2, <1>3, <2>1, <2>2
  <2>q. QED BY <1>0, <2>3, ResumedAfter
<1>8. CASE RetryFailed
  <2> DEFINE m == MarkCounted(run)
  <2>1. /\ m \in RunState /\ Follows(m, run, {}) /\ m.diff = run.diff
        /\ m.outcome = run.outcome
    BY <1>1, MarkCountedFollows
  <2>2. run' \in Recovered(Retried(m))
    BY <1>8 DEF RetryFailed
  <2> HIDE DEF m
  <2>3. Retried(m) \in RunState /\ Follows(Retried(m), m, {})
    BY <1>1, <2>1, RetriedFollows
  <2>4. Resumed(run', Retried(m))
    BY <2>2, <2>3, RecoveredResumed
  <2>q. QED BY <1>0, <2>1, <2>3, <2>4, ResumedAfter, FollowsTwice
<1>9. CASE RetryVerification
  <2> DEFINE t == Restarted(run, "verifying")
  <2>1. run' = MarkCounted(t)
    BY <1>9 DEF RetryVerification
  <2>2. t \in RunState /\ RestartedAs(t, run, "verifying", run.pendingPhase, run.budgetPhase)
    BY <1>1, StageNames, RestartedTypes, RestartFields DEF Working
  <2> HIDE DEF t
  <2>3. Follows(run', t, {}) /\ Follows(t, run, {})
    BY <1>1, <1>3, <2>1, <2>2, MarkCountedFollows
  <2>q. QED BY <1>0, <2>3, FollowsTwice DEF Resumed
<1>10. CASE ResumeDecision
  <2> DEFINE m == MarkCounted(run)
  <2>1. /\ m \in RunState /\ Follows(m, run, {})
        /\ m.pendingDecision = run.pendingDecision
    BY <1>1, MarkCountedFollows
  <2>2. run.pendingDecision # "" /\ DecideAgain(m)
    BY <1>10 DEF ResumeDecision
  <2> HIDE DEF m
  <2>3. Follows(run', m, {})
    BY <2>1, <2>2, DecideAgainFollows
  <2>q. QED BY <1>0, <2>1, <2>3, FollowsTwice DEF Resumed
<1>11. CASE ResumeReview
  <2>1. run' \in Recovered(run)
    BY <1>11 DEF ResumeReview
  <2>q. QED BY <1>0, <1>1, <2>1, RecoveredResumed
<1>12. CASE ApprovePlan
  <2> DEFINE s == [run EXCEPT !.approvedPlan = run.plan, !.authorized = run.plan]
             t == [Restarted(s, s.pendingPhase) EXCEPT !.pendingPhase = ""]
  <2>1. run' = s \/ run' = t
    BY <1>12 DEF ApprovePlan
  <2>2. s \in RunState
    BY <1>1, Fields, Update
  <2>3. Same(s, run)
    BY ZenonT(60), <1>1, <2>2 DEF Same, RunState
  <2> HIDE DEF s
  <2>4. t \in RunState /\ RestartedAs(t, s, s.pendingPhase, "", s.budgetPhase)
    BY <2>2, Fields, RestartedTypes, RestartFields
  <2> HIDE DEF t
  <2>5. Follows(run', s, {}) /\ Follows(s, run, {})
    BY <1>3, <2>1, <2>2, <2>3, <2>4, SameFollows, FollowsTwice
  <2>q. QED BY <1>0, <2>5, FollowsTwice DEF Resumed
<1>13. CASE AuthorizeChecks
  <2> DEFINE s == [run EXCEPT !.authorized = run.plan]
             t == [Restarted(s, s.pendingPhase) EXCEPT !.pendingPhase = ""]
  <2>1. run' = s \/ run' = t
    BY <1>13 DEF AuthorizeChecks
  <2>2. s \in RunState
    BY <1>1, Fields, Update
  <2>3. Same(s, run)
    BY ZenonT(60), <1>1, <2>2 DEF Same, RunState
  <2> HIDE DEF s
  <2>4. t \in RunState /\ RestartedAs(t, s, s.pendingPhase, "", s.budgetPhase)
    BY <2>2, Fields, RestartedTypes, RestartFields
  <2> HIDE DEF t
  <2>5. Follows(run', s, {}) /\ Follows(s, run, {})
    BY <1>3, <2>1, <2>2, <2>3, <2>4, SameFollows, FollowsTwice
  <2>q. QED BY <1>0, <2>5, FollowsTwice DEF Resumed
<1>14. CASE RequestPlanChanges
  <2> DEFINE r == Restarted(run, "planning")
  <2>1. run' = [r EXCEPT !.approvedPlan = None, !.authorized = None, !.pendingDecision = "",
                     !.pendingPhase = "", !.queue = {}, !.reviews = {}, !.after = ""]
    BY <1>14 DEF RequestPlanChanges
  <2>2. r \in RunState /\ Same(r, run)
    <3>1. r \in RunState
      BY <1>1, RestartedType, StageNames DEF Working
    <3>2. Same(r, run)
      BY <1>1 DEF Restarted, Same, RunState
    <3>q. QED BY <3>1, <3>2
  <2> HIDE DEF r
  <2>3. /\ run'.diff = r.diff /\ run'.pending = r.pending /\ run'.queue = {}
        /\ run'.assessments = r.assessments /\ run'.recovery = r.recovery
    BY <2>1, <2>2 DEF RunState
  <2>4. Follows(run', r, {})
    BY <2>3 DEF Follows, Placed
  <2>q. QED BY <1>0, <2>2, <2>4, SameFollows, FollowsTwice DEF Resumed
<1>q. QED BY <1>5, <1>6, <1>7, <1>8, <1>9, <1>10, <1>11, <1>12, <1>13, <1>14 DEF Resume

-----------------------------------------------------------------------------
(***************************************************************************)
(* The candidate under the reviewers                                       *)
(***************************************************************************)

\* Who is reserved to review targets the candidate.
Reading(s) == \A a \in s.pending : a.role \in Reviewers => a.revision = s.diff

\* Reading is kept by what stays in the review, records a result or resumes.
LEMMA ReadingFollows ==
  ASSUME NEW s, NEW t, NEW heard, Follows(t, s, heard), Reading(s)
  PROVE  Reading(t)
BY DEF Follows, Reading

LEMMA ReadingRecorded ==
  ASSUME NEW a, Recorded(a), Reading(run)
  PROVE  Reading(run')
BY ReadingFollows DEF Recorded, Hears, Renews, Reading

LEMMA ReadingResumed ==
  ASSUME NEW s, NEW t, Resumed(t, s), Reading(s)
  PROVE  Reading(t)
<1>1. CASE \E heard : Follows(t, s, heard)
  BY <1>1, ReadingFollows
<1>2. CASE Repends(t, s, s.recovery.assignment)
  BY <1>2 DEF Repends, Reading
<1>q. QED BY <1>1, <1>2 DEF Resumed, Hears

\* The inductive invariant without crashes: run.json and patch.diff agree.
OnDisk == RunTypeOK /\ patch = run.diff /\ Reading(run)

\* No step without a crash lets the patch and the run disagree.
LEMMA OnDiskStep ==
  ASSUME "crash" \notin Events, OnDisk, [Next]_vars
  PROVE  OnDisk'
<1>1. RunTypeOK'
  BY TypeStep DEF OnDisk
<1>2. patch' = run'.diff /\ Reading(run')
  <2>1. CASE UNCHANGED vars
    BY <2>1 DEF OnDisk, vars, Reading
  <2>2. CASE Drive
    <3>1. Drives
      BY <2>2, DriveShape DEF OnDisk, RunTypeOK
    <3>2. CASE Follows(run', run, {})
      BY <3>1, <3>2, ReadingFollows DEF Drives, OnDisk, Follows
    <3>3. CASE \E a \in Assignment : Reserved(a)
      BY <3>1, <3>3 DEF Drives, OnDisk, Reserved, Reading
    <3>4. CASE run' = run
      BY <3>1, <3>4 DEF Drives, OnDisk, Reading
    <3>q. QED BY <3>1, <3>2, <3>3, <3>4 DEF Drives
  <2>3. CASE Invocation
    <3>1. CASE \E a \in Assignment : Reports(a)
      <4>1. PICK a \in Assignment : Recorded(a)
        BY <3>1 DEF Reports
      <4>2. Reading(run')
        BY <4>1, ReadingRecorded DEF OnDisk
      <4>3. patch' = run'.diff
        BY <4>1 DEF Recorded, Hears, Follows, Renews, OnDisk
      <4>q. QED BY <4>2, <4>3
    <3>2. CASE \E a \in Assignment : Fails(a)
      BY <3>2, ReadingFollows DEF Fails, OnDisk, Follows
    <3>3. CASE \E a \in Assignment, r \in Recovery : Saves(a, r)
      BY <3>3 DEF Saves, OnDisk, Reading
    <3>4. CASE \E r \in replies : Finishes(r)
      <4>1. patch' = patch /\ \E heard : Follows(run', run, heard)
        BY <3>4 DEF Finishes, Hears
      <4>q. QED BY <4>1, ReadingFollows DEF OnDisk, Follows
    <3>5. CASE Dies
      BY <3>5 DEF Dies, OnDisk, Reading
    <3>q. QED BY <2>3, <3>1, <3>2, <3>3, <3>4, <3>5, InvocationShape DEF OnDisk
  <2>4. CASE Resume
    <3>1. Resumed(run', run) /\ patch' = patch
      BY <2>4, ResumeShape DEF OnDisk
    <3>2. run'.diff = run.diff
      BY <3>1 DEF Resumed, Follows, Repends, Hears
    <3>q. QED BY <3>1, <3>2, ReadingResumed DEF OnDisk
  <2>q. QED BY <2>1, <2>2, <2>3, <2>4 DEF Next
<1>q. QED BY <1>1, <1>2 DEF OnDisk

\* The run starts with the patch it was given, and nobody reviews yet.
LEMMA NobodyReserved == Init => run.pending = {} /\ run.queue = {} /\ run.recovery = None
                                /\ run.assessments = {}
<1> SUFFICES ASSUME Init
             PROVE  /\ run.pending = {} /\ run.queue = {} /\ run.recovery = None
                    /\ run.assessments = {}
  OBVIOUS
<1>1. PICK seed \in Seeds, p \in Plans, c \in Candidates : run = Seeded(seed, p, c)
  BY DEF Init
<1>2. seed \in AllSeeds
  BY RunConstants
<1>q. QED BY <1>1, <1>2 DEF Seeded, Fresh, AllSeeds

\* While no process dies between its writes, whatever any number of drivers,
\* hosts and operators do, and also while the workspace drifts, run.json and
\* patch.diff name the same candidate.
THEOREM PatchIsCandidate ==
  ASSUME "crash" \notin Events
  PROVE  Spec => []OnDisk
<1>1. Init => OnDisk
  BY InitType, NobodyReserved DEF Init, OnDisk, Reading
<1>2. OnDisk /\ [Next]_vars => OnDisk'
  BY OnDiskStep
<1>q. QED BY <1>1, <1>2, PTL DEF Spec

\* While no process dies between its writes, no patch is written under a
\* reviewer: whoever else acts, it reads the candidate it was assigned
\* (sdlcRecordResultLocked).
THEOREM ReviewersRead ==
  ASSUME "crash" \notin Events
  PROVE  Spec => []ReviewersReadCandidate
<1>1. OnDisk => ReviewersReadCandidate
  BY DEF OnDisk, Reading, ReviewersReadCandidate
<1>q. QED BY <1>1, PatchIsCandidate, PTL

-----------------------------------------------------------------------------
(***************************************************************************)
(* ... and under one driver that may die                                   *)
(***************************************************************************)

\* The inductive invariant with crashes: between its two writes a driver leaves
\* a patch nobody has assigned a reviewer of.
ReadInOrder == OrderlyRun /\ Placed(run) /\ ReviewersReadCandidate

\* Where a reviewer is wanted the patch is the candidate's.
LEMMA WantedOnDisk ==
  ASSUME OrderlyRun, Placed(run), NEW role \in RolesWanted(run), role \in Reviewers
  PROVE  patch = run.diff
<1>0. run.queue \subseteq Experts
  BY Fields DEF OrderlyRun, SoundRun, RunTypeOK
<1>1. \/ run.stage = "assessing"
      \/ run.stage = "specializing" /\ role \in run.queue \cap DiffExperts
  BY <1>0 DEF RolesWanted, Reviewers, Experts, PlanExperts, DiffExperts, Planner, Implementer,
              Assessor
<1>2. CASE run.stage = "assessing"
  <2>1. Judging(run, running)
    BY <1>2 DEF Judging, Headed
  <2>q. QED BY <2>1 DEF OrderlyRun, Orderly, FitToJudge, Fit
<1>3. CASE role \in run.queue \cap DiffExperts
  <2>1. Unverified(run)
    BY <1>3 DEF Unverified, Placed
  <2>q. QED BY <2>1 DEF OrderlyRun, Orderly, ReadyToVerify, Unjudged
<1>q. QED BY <1>1, <1>2, <1>3

\* A run that stays in its review keeps its readers.
LEMMA ReadKept ==
  ASSUME NEW heard, Follows(run', run, heard), patch' = patch, Placed(run),
         ReviewersReadCandidate
  PROVE  Placed(run') /\ ReviewersReadCandidate'
BY DEF Follows, ReviewersReadCandidate

\* No step of one driver puts a patch under a reviewer.
LEMMA ReadInOrderStep ==
  ASSUME "other" \notin Events, "drift" \notin Events, Plans \cap Candidates = {},
         ReadInOrder, [Next]_vars
  PROVE  ReadInOrder'
<1>1. OrderlyRun'
  BY OrderlyStep DEF ReadInOrder
<1>2. RunTypeOK /\ run.recovery = None /\ run.outcome # "review-recovery-invalid"
  BY DEF ReadInOrder, OrderlyRun, SoundRun, Sound, Orderly, Outside
<1>3. Placed(run') /\ ReviewersReadCandidate'
  <2>1. CASE UNCHANGED vars
    BY <2>1 DEF ReadInOrder, vars, Placed, ReviewersReadCandidate
  <2>2. CASE Drive
    <3>1. Drives
      BY <1>2, <2>2, DriveShape DEF RunTypeOK
    <3>2. CASE Follows(run', run, {})
      BY <3>1, <3>2, ReadKept DEF Drives, ReadInOrder
    <3>3. CASE \E a \in Assignment : Reserved(a)
      <4>1. PICK a \in Assignment : Reserved(a)
        BY <3>3
      <4>2. a.role \in Reviewers => patch = run.diff
        BY <4>1, WantedOnDisk DEF Reserved, ReadInOrder
      <4>q. QED BY <3>1, <4>1, <4>2 DEF Drives, ReadInOrder, Reserved, ReviewersReadCandidate
    <3>4. CASE run' = run
      BY <3>1, <3>4 DEF Drives, ReadInOrder, Placed, ReviewersReadCandidate
    <3>q. QED BY <3>1, <3>2, <3>3, <3>4 DEF Drives
  <2>3. CASE Invocation
    <3>1. CASE \E a \in Assignment : Reports(a)
      <4>1. PICK a \in Assignment : Recorded(a)
        BY <3>1 DEF Reports
      <4>2. CASE patch' = patch /\ \E heard : Follows(run', run, heard)
        BY <4>2, ReadKept DEF ReadInOrder
      <4>3. CASE Renews(run', run, patch')
        BY <4>3 DEF Renews, ReviewersReadCandidate
      <4>4. CASE a.role = Implementer /\ a \in run.pending /\ run' = run
        <5>1. run.pending = {a}
          BY <4>4 DEF ReadInOrder, OrderlyRun, Orderly, OneMaker, Active, Maker
        <5>2. a.role \notin Reviewers
          BY <4>4 DEF Reviewers, Implementer, Assessor, DiffExperts
        <5>q. QED BY <4>4, <5>1, <5>2 DEF ReadInOrder, Placed, ReviewersReadCandidate
      <4>q. QED BY <4>1, <4>2, <4>3, <4>4 DEF Recorded, Hears
    <3>2. CASE \E a \in Assignment : Fails(a)
      BY <3>2, ReadKept DEF Fails, ReadInOrder
    <3>3. CASE \E a \in Assignment, r \in Recovery : Saves(a, r)
      BY <3>3 DEF Saves, ReadInOrder, ReviewersReadCandidate
    <3>4. CASE \E r \in replies : Finishes(r)
      BY <3>4, ReadKept DEF Finishes, Hears, ReadInOrder
    <3>5. CASE Dies
      BY <3>5 DEF Dies, ReadInOrder, Placed, ReviewersReadCandidate
    <3>q. QED BY <1>2, <2>3, <3>1, <3>2, <3>3, <3>4, <3>5, InvocationShape
  <2>4. CASE Resume
    <3>1. Resumed(run', run) /\ patch' = patch
      BY <1>2, <2>4, ResumeShape
    <3>q. QED BY <1>2, <3>1, ReadKept DEF Resumed, ReadInOrder
  <2>q. QED BY <2>1, <2>2, <2>3, <2>4 DEF Next
<1>q. QED BY <1>1, <1>3 DEF ReadInOrder

\* With one driver, which may die between any two of its writes, and a
\* workspace that does not drift, no patch is written under a reviewer.
THEOREM ReviewersReadThroughCrashes ==
  ASSUME "other" \notin Events, "drift" \notin Events, Plans \cap Candidates = {}
  PROVE  Spec => []ReviewersReadCandidate
<1>1. Init => ReadInOrder
  <2>1. Init => OrderlyRun
    BY InitType, InitSound, InitOrderly DEF Init, SoundRun, OrderlyRun
  <2>q. QED BY <2>1, NobodyReserved DEF ReadInOrder, Placed, ReviewersReadCandidate
<1>2. ReadInOrder /\ [Next]_vars => ReadInOrder'
  BY ReadInOrderStep
<1>3. ReadInOrder => ReviewersReadCandidate
  BY DEF ReadInOrder
<1>q. QED BY <1>1, <1>2, <1>3, PTL DEF Spec

-----------------------------------------------------------------------------
(***************************************************************************)
(* Approvals given of a workspace that changed                             *)
(***************************************************************************)

\* w are the invocations that run, q the replies with drift their driver holds.
\* A reply is held by whoever runs its assignment, and there is one of each.
Held(w, q) ==
    /\ \A r \in q : r.assignment \in w
    /\ \A r, o \in q : r.assignment = o.assignment => r = o

\* Nobody is reserved or run twice, nor after it was counted.
OncePerId(s, w) ==
    /\ \A c, d \in Active(s, w) : c.id = d.id => c = d
    /\ \A x \in s.assessments, c \in Active(s, w) : x.id # c.id

SavedApproval(s) == s.recovery # None /\ s.recovery.outcome = "approved"

\* Whose reply was saved may only still be at work while its driver holds an
\* approval of it.
SavedOnce(s, w, q) ==
    /\ s.recovery # None =>
         \A c \in Active(s, w) : c.id = s.recovery.assignment.id => c = s.recovery.assignment
    /\ SavedApproval(s) =>
         \A c \in Active(s, w) : c.id = s.recovery.assignment.id => s.recovery \in q

Uncounted(s) == SavedApproval(s) => \A x \in s.assessments : x.id # s.recovery.assignment.id

Accounted(s, w, q) ==
    Held(w, q) /\ OncePerId(s, w) /\ SavedOnce(s, w, q) /\ Uncounted(s)

\* The run goes on, and at most forgets who was reserved, ran or had voted,
\* and replies that say changes are required, or whose driver is done.
LEMMA AccountedLess ==
  ASSUME NEW s, NEW t, NEW w, NEW v, NEW q, NEW p,
         Accounted(s, w, q), Held(v, p),
         Active(t, v) \subseteq Active(s, w), t.assessments \subseteq s.assessments,
         t.recovery \in {s.recovery, None},
         \A r \in q : \/ r.outcome # "approved" \/ r \in p
                      \/ \A c \in Active(t, v) : c.id # r.assignment.id
  PROVE  Accounted(t, v, p)
<1>1. OncePerId(t, v)
  BY DEF Accounted, OncePerId
<1>2. SavedOnce(t, v, p)
  <2>1. CASE t.recovery = None
    BY <2>1 DEF SavedOnce, SavedApproval
  <2>2. CASE t.recovery = s.recovery /\ t.recovery # None
    BY <2>2 DEF Accounted, SavedOnce, SavedApproval
  <2>q. QED BY <2>1, <2>2
<1>3. Uncounted(t)
  BY DEF Accounted, Uncounted, SavedApproval
<1>q. QED BY <1>1, <1>2, <1>3 DEF Accounted

\* The result of a is counted, which is not at work any more: a saved approval
\* is of another assignment.
LEMMA AccountedHears ==
  ASSUME NEW s, NEW t, NEW w, NEW q, NEW p, NEW a,
         Accounted(s, w, q), Hears(t, s, a), Held(w \ {a}, p),
         \A c \in Active(s, w) : c.id = a.id => c = a,
         SavedApproval(t) => t.recovery.assignment.id # a.id,
         \A r \in q : r.outcome # "approved" \/ r \in p
  PROVE  Accounted(t, w \ {a}, p)
<1>1. Active(t, w \ {a}) \subseteq Active(s, w) \ {a}
  BY DEF Hears, Follows, Active
<1>2. /\ \A x \in t.assessments : x \in s.assessments \/ x.id = a.id
      /\ t.recovery \in {s.recovery, None}
  BY DEF Hears, Follows
<1>3. OncePerId(t, w \ {a})
  BY <1>1, <1>2 DEF Accounted, OncePerId
<1>4. SavedOnce(t, w \ {a}, p)
  <2>1. CASE t.recovery = None
    BY <2>1 DEF SavedOnce, SavedApproval
  <2>2. CASE t.recovery = s.recovery /\ t.recovery # None
    BY <1>1, <2>2 DEF Accounted, SavedOnce, SavedApproval
  <2>q. QED BY <1>2, <2>1, <2>2
<1>5. Uncounted(t)
  BY <1>2 DEF Accounted, Uncounted, SavedApproval
<1>q. QED BY <1>3, <1>4, <1>5 DEF Accounted

\* A new assignment takes an identifier nobody holds.
LEMMA AccountedReserves ==
  ASSUME Accounted(run, running, replies), NEW a, Reserved(a), replies' = replies
  PROVE  Accounted(run', running', replies')
<1>1. /\ running \subseteq running'
      /\ Active(run', running') \subseteq Active(run, running) \cup {a}
  BY DEF Reserved, Active
<1>2. Held(running', replies')
  BY <1>1 DEF Accounted, Held
<1>3. /\ \A c \in Active(run, running) : c.id # a.id
      /\ \A x \in run.assessments : x.id # a.id
      /\ run'.assessments = run.assessments /\ run'.recovery = run.recovery
      /\ run.recovery # None => run.recovery.assignment.id # a.id
  BY DEF Reserved, Active
<1>4. OncePerId(run', running')
  BY <1>1, <1>3 DEF Accounted, OncePerId
<1>5. SavedOnce(run', running', replies')
  BY <1>1, <1>3 DEF Accounted, SavedOnce, SavedApproval
<1>6. Uncounted(run')
  BY <1>3 DEF Accounted, Uncounted, SavedApproval
<1>q. QED BY <1>2, <1>4, <1>5, <1>6 DEF Accounted

\* A review that is saved is one that runs, and whose reply nobody holds yet.
LEMMA AccountedSaves ==
  ASSUME Accounted(run, running, replies), NEW a, NEW r, Saves(a, r)
  PROVE  Accounted(run', running', replies')
<1>1. /\ a \in running /\ a \in Active(run, running)
      /\ \A o \in replies : o.assignment # a
  BY DEF Saves, Executing, Active
<1>2. /\ Active(run', running') = Active(run, running) /\ running' = running
      /\ run'.assessments = run.assessments /\ run'.recovery = r /\ r.assignment = a
      /\ replies' = replies \cup {r}
  BY DEF Saves, Active
<1>3. Held(running', replies')
  BY <1>1, <1>2 DEF Accounted, Held
<1>4. OncePerId(run', running')
  BY <1>2 DEF Accounted, OncePerId
<1>5. SavedOnce(run', running', replies')
  BY <1>1, <1>2 DEF Accounted, OncePerId, SavedOnce, SavedApproval
<1>6. Uncounted(run')
  BY <1>1, <1>2 DEF Accounted, OncePerId, Uncounted
<1>q. QED BY <1>3, <1>4, <1>5, <1>6 DEF Accounted

\* A rejection that is reserved again is counted by nobody, and runs nowhere.
LEMMA AccountedRepends ==
  ASSUME NEW s, NEW t, NEW q, Accounted(s, {}, q), s.recovery # None,
         s.recovery.outcome = "changes-required", Repends(t, s, s.recovery.assignment)
  PROVE  Accounted(t, {}, q)
<1> DEFINE a == s.recovery.assignment
<1>1. /\ Active(t, {}) \subseteq Active(s, {}) \cup {a}
      /\ t.assessments \subseteq s.assessments /\ \A x \in t.assessments : x.id # a.id
      /\ t.recovery = s.recovery
  BY DEF Repends, Active
<1>2. \A c \in Active(s, {}) : c.id = a.id => c = a
  BY DEF Accounted, SavedOnce
<1> HIDE DEF a
<1>3. OncePerId(t, {})
  BY <1>1, <1>2 DEF Accounted, OncePerId
<1>4. SavedOnce(t, {}, q) /\ Uncounted(t)
  BY <1>1, <1>2 DEF SavedOnce, SavedApproval, Uncounted, a
<1>q. QED BY <1>3, <1>4 DEF Accounted

\* The inductive invariant of one driver that does not die.
DriftInOrder == OnDisk /\ Accounted(run, running, replies)

\* A result is recorded, or lost, of a worker that runs.
LEMMA AccountedReports ==
  ASSUME "crash" \notin Events, Accounted(run, running, replies), NEW a, Reports(a)
  PROVE  Accounted(run', running', replies')
<1>1. /\ a \in running /\ a \in Active(run, running)
      /\ \A r \in replies : r.assignment # a
      /\ running' = running \ {a} /\ replies' = replies
  BY DEF Reports, Executing, Active
<1>2. Held(running', replies')
  BY <1>1 DEF Accounted, Held
<1>3. CASE Hears(run', run, a)
  <2>1. \A c \in Active(run, running) : c.id = a.id => c = a
    BY <1>1 DEF Accounted, OncePerId
  <2>2. SavedApproval(run') => run'.recovery.assignment.id # a.id
    <3>1. SUFFICES ASSUME SavedApproval(run'), run'.recovery.assignment.id = a.id PROVE FALSE
      OBVIOUS
    <3>2. run'.recovery = run.recovery /\ SavedApproval(run)
      BY <1>3, <3>1 DEF Hears, Follows, SavedApproval
    <3>3. run.recovery \in replies /\ run.recovery.assignment = a
      BY <1>1, <3>1, <3>2 DEF Accounted, SavedOnce, SavedApproval
    <3>q. QED BY <1>1, <3>3
  <2>q. QED BY <1>1, <1>2, <1>3, <2>1, <2>2, AccountedHears
<1>4. CASE Follows(run', run, {}) \/ Renews(run', run, patch')
  <2>1. /\ Active(run', running') \subseteq Active(run, running)
        /\ run'.assessments \subseteq run.assessments /\ run'.recovery \in {run.recovery, None}
    BY <1>1, <1>4 DEF Follows, Renews, Active
  <2>q. QED BY <1>1, <1>2, <2>1, AccountedLess
<1>q. QED BY <1>3, <1>4 DEF Reports, Recorded

\* A worker failed: its replies are dropped with the reservations.
LEMMA AccountedFails ==
  ASSUME Accounted(run, running, replies), NEW a, Fails(a)
  PROVE  Accounted(run', running', replies')
<1>1. /\ a \in running /\ running' = running \ {a}
      /\ replies' = {r \in replies : r.assignment # a}
  BY DEF Fails
<1>2. Held(running', replies')
  BY <1>1 DEF Accounted, Held
<1>3. /\ Active(run', running') = running \ {a}
      /\ Active(run', running') \subseteq Active(run, running)
      /\ run'.assessments \subseteq run.assessments /\ run'.recovery \in {run.recovery, None}
  BY <1>1 DEF Fails, Follows, Active
<1>4. \A c \in running \ {a} : c.id # a.id
  BY <1>1 DEF Accounted, OncePerId, Active
<1>5. \A r \in replies : r \in replies' \/ r.assignment = a
  BY <1>1
<1>q. QED BY <1>2, <1>3, <1>4, <1>5, AccountedLess

\* A held reply is done with: an approval pauses the run, and only a rejection
\* may be counted.
LEMMA AccountedFinishes ==
  ASSUME Accounted(run, running, replies), NEW r, Finishes(r)
  PROVE  Accounted(run', running', replies')
<1> DEFINE a == r.assignment
<1>1. /\ r \in replies /\ a \in running /\ a \in Active(run, running)
      /\ running' = running \ {a} /\ replies' = replies \ {r}
      /\ \A o \in replies : o.assignment = a => o = r
  BY DEF Finishes, Accounted, Held, Active
<1>2. Held(running', replies')
  BY <1>1 DEF Accounted, Held
<1>3. \A c \in Active(run, running) : c.id = a.id => c = a
  BY <1>1 DEF Accounted, OncePerId
<1>4. CASE r.outcome = "changes-required" /\ Hears(run', run, a)
  <2>1. SavedApproval(run') => run'.recovery.assignment.id # a.id
    <3>1. SUFFICES ASSUME SavedApproval(run'), run'.recovery.assignment.id = a.id PROVE FALSE
      OBVIOUS
    <3>2. run'.recovery = run.recovery /\ SavedApproval(run)
      BY <1>4, <3>1 DEF Hears, Follows, SavedApproval
    <3>3. run.recovery \in replies /\ run.recovery.assignment = a
      BY <1>1, <3>1, <3>2 DEF Accounted, SavedOnce, SavedApproval
    <3>q. QED BY <1>1, <1>4, <3>2, <3>3 DEF SavedApproval
  <2>2. \A o \in replies : o.outcome # "approved" \/ o \in replies'
    BY <1>1, <1>4
  <2>q. QED BY <1>1, <1>2, <1>3, <1>4, <2>1, <2>2, AccountedHears
<1>5. CASE Follows(run', run, {})
  <2>1. /\ Active(run', running') \subseteq Active(run, running)
        /\ run'.assessments \subseteq run.assessments /\ run'.recovery \in {run.recovery, None}
    BY <1>1, <1>5 DEF Follows, Active
  <2>2. r.outcome = "approved" => \A c \in Active(run', running') : c.id # a.id
    <3>1. SUFFICES ASSUME r.outcome = "approved", NEW c \in Active(run', running')
                   PROVE  c.id # a.id
      OBVIOUS
    <3>2. c \in running \ {a}
      BY <1>1, <3>1 DEF Finishes, Active
    <3>q. QED BY <1>3, <3>2 DEF Active
  <2>3. \A o \in replies : \/ o.outcome # "approved" \/ o \in replies'
                           \/ \A c \in Active(run', running') : c.id # o.assignment.id
    BY <1>1, <2>2
  <2>q. QED BY <1>2, <2>1, <2>3, AccountedLess
<1>q. QED BY <1>4, <1>5 DEF Finishes

\* No step of one driver that does not die counts a drifted approval.
LEMMA DriftInOrderStep ==
  ASSUME "crash" \notin Events, "other" \notin Events, DriftInOrder, [Next]_vars
  PROVE  DriftInOrder'
<1>1. OnDisk'
  BY OnDiskStep DEF DriftInOrder
<1>2. Accounted(run, running, replies) /\ RunTypeOK /\ patch = run.diff
  BY DEF DriftInOrder, OnDisk
<1>3. Accounted(run', running', replies')
  <2>1. CASE UNCHANGED vars
    BY <1>2, <2>1 DEF vars
  <2>2. CASE Drive
    <3>1. Drives
      BY <1>2, <2>2, DriveShape DEF RunTypeOK
    <3>2. CASE Follows(run', run, {}) /\ running' = running
      <4>1. /\ Active(run', running') \subseteq Active(run, running)
            /\ run'.assessments \subseteq run.assessments
            /\ run'.recovery \in {run.recovery, None}
        BY <3>2 DEF Follows, Active
      <4>q. QED BY <1>2, <3>1, <3>2, <4>1, AccountedLess DEF Drives, Accounted
    <3>3. CASE \E a \in Assignment : Reserved(a)
      BY <1>2, <3>1, <3>3, AccountedReserves DEF Drives
    <3>4. CASE run' = run /\ running' = running \cup run.pending
      <4>1. Active(run', running') \subseteq Active(run, running)
        BY <3>4 DEF Active
      <4>2. Held(running', replies')
        BY <1>2, <3>1, <3>4 DEF Drives, Accounted, Held
      <4>q. QED BY <1>2, <3>1, <3>4, <4>1, <4>2, AccountedLess DEF Drives
    <3>q. QED BY <3>1, <3>2, <3>3, <3>4 DEF Drives
  <2>3. CASE Invocation
    BY <1>2, <2>3, InvocationShape, AccountedReports, AccountedFails, AccountedSaves,
       AccountedFinishes DEF Dies
  <2>4. CASE Resume
    <3>1. Resumed(run', run) /\ running' = running /\ replies' = replies
      BY <1>2, <2>4, ResumeShape
    <3>2. running = {}
      BY <2>4 DEF Resume, ResumeInjection, ContinueBudget, ResumeInvocation, RetryFailed,
                  RetryVerification, ResumeDecision, ResumeReview, ApprovePlan,
                  AuthorizeChecks, RequestPlanChanges, DriverFree
    <3>3. CASE Follows(run', run, {})
      <4>1. /\ Active(run', running') \subseteq Active(run, running)
            /\ run'.assessments \subseteq run.assessments
            /\ run'.recovery \in {run.recovery, None}
        BY <3>1, <3>3 DEF Follows, Active
      <4>q. QED BY <1>2, <3>1, <4>1, AccountedLess DEF Accounted
    <3>4. CASE /\ run.recovery # None /\ run.recovery.outcome = "changes-required"
               /\ Repends(run', run, run.recovery.assignment)
      BY <1>2, <3>1, <3>2, <3>4, AccountedRepends
    <3>5. CASE /\ run.recovery # None
               /\ Hears(run', run, run.recovery.assignment) /\ run'.recovery = None
      <4> DEFINE a == run.recovery.assignment
      <4>1. \A c \in Active(run, running) : c.id = a.id => c = a
        BY <1>2, <3>5 DEF Accounted, SavedOnce
      <4>2. running \ {a} = running /\ Held(running \ {a}, replies')
        BY <1>2, <3>1, <3>2 DEF Accounted
      <4>3. ~SavedApproval(run')
        BY <3>5 DEF SavedApproval
      <4> HIDE DEF a
      <4>4. Accounted(run', running \ {a}, replies')
        BY <1>2, <3>1, <3>5, <4>1, <4>2, <4>3, AccountedHears DEF a
      <4>q. QED BY <3>1, <4>2, <4>4
    <3>q. QED BY <3>1, <3>3, <3>4, <3>5 DEF Resumed
  <2>q. QED BY <2>1, <2>2, <2>3, <2>4 DEF Next
<1>q. QED BY <1>1, <1>3 DEF DriftInOrder

\* With one driver that does not die, an approval given while the workspace
\* changed is never counted, however the run is paused, resumed and retried
\* while the review is saved (finishReviewRecovery, recoverReview).
THEOREM DriftedApprovalsUncounted ==
  ASSUME "crash" \notin Events, "other" \notin Events
  PROVE  Spec => []DriftedApprovalNotCounted
<1>1. Init => DriftInOrder
  <2>1. Init => OnDisk
    BY InitType, NobodyReserved DEF Init, OnDisk, Reading
  <2>2. Init => Accounted(run, running, replies)
    BY NobodyReserved DEF Init, Accounted, Held, OncePerId, SavedOnce, SavedApproval,
                          Uncounted, Active
  <2>q. QED BY <2>1, <2>2 DEF DriftInOrder
<1>2. DriftInOrder /\ [Next]_vars => DriftInOrder'
  BY DriftInOrderStep
<1>3. DriftInOrder => DriftedApprovalNotCounted
  BY DEF DriftInOrder, Accounted, Uncounted, SavedApproval, DriftedApprovalNotCounted
<1>q. QED BY <1>1, <1>2, <1>3, PTL DEF Spec

=============================================================================
