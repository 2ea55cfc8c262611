----------------------------- MODULE StageFlow -----------------------------
(***************************************************************************)
(* Authored workflows (internal/sdlc/stageflow, cmd/jevkit/sdlc:           *)
(* sdlcstageflow.go, sdlcstage.go, sdlcspawn.go).  A run walks the stages  *)
(* of its workflow.  Each transition is saved with the answer that chose   *)
(* it, paid for in the budget of the tree, and taken: three writes, and a  *)
(* driver may die between any two.  A spawn stage charges a child, creates *)
(* it, links it, drives it one step at a time and adopts what it made.     *)
(*                                                                         *)
(* Work and verification of a stage are one step with every outcome        *)
(* (AdaptiveRun has their detail); of the budgets only steps are here      *)
(* (TreeBudget has all), so the tree always has time left.                 *)
(***************************************************************************)
EXTENDS Integers, FiniteSets

CONSTANTS
    Stages,      \* stage ids
    KindOf,      \* [Stages -> StageKinds]
    Routes,      \* [Stages -> [answers -> Stages]]
    Entry,       \* the first stage
    MaxSteps,    \* maxSteps of the workflow
    MaxGrant,    \* bound of this instance: steps an operator may add
    FlowDrivers, \* processes that may drive the run
    Depth,       \* levels above this run
    KidActions,  \* actions the child needs to finish
    KidSteps,    \* transitions it takes, if it is an authored workflow
    KidOutcomes, \* how the child may end
    FlowCrashes  \* bound of this instance: drivers that die

WorkKinds   == {"planner", "implementer", "assessor"}
FinishKinds == {"succeeded", "paused", "aborted"}
StageKinds  == {"question", "spawn"} \cup WorkKinds \cup FinishKinds

\* What a stage of each kind must route; a question routes its options too.
Required(kind) ==
    CASE kind = "planner"     -> {"planned", "answer", "no-change"}
      [] kind = "implementer" -> {"changed", "answer", "no-change"}
      [] kind = "assessor"    -> {"approved", "changes-required"}
      [] kind = "spawn"       -> {"succeeded", "paused", "aborted"}
      [] kind = "question"    -> {"fallback"}
      [] OTHER                -> {}

\* Stages reachable in n steps; ValidateStages wants all, and an end among them.
Reach[n \in Nat] ==
    IF n = 0 THEN {Entry}
    ELSE Reach[n - 1] \cup UNION {{Routes[s][a] : a \in DOMAIN Routes[s]} : s \in Reach[n - 1]}

ValidStages ==
    /\ \A s \in Stages : IF KindOf[s] = "question" THEN Cardinality(DOMAIN Routes[s]) >= 3
                         ELSE DOMAIN Routes[s] = Required(KindOf[s])
    /\ \A s \in Stages : Required(KindOf[s]) \subseteq DOMAIN Routes[s]
    /\ \A s \in Stages : "" \notin DOMAIN Routes[s]                             \* idRE
    /\ \A s \in Stages : \A a \in DOMAIN Routes[s] : Routes[s][a] \in Stages
    /\ Reach[Cardinality(Stages)] = Stages
    /\ \E s \in Stages : KindOf[s] \in FinishKinds

ASSUME FlowConstants ==
    /\ IsFiniteSet(Stages) /\ KindOf \in [Stages -> StageKinds] /\ Entry \in Stages
    /\ MaxSteps \in 1 .. 1000 /\ MaxGrant \in Nat
    /\ Depth \in Nat /\ KidActions \in Nat \ {0} /\ KidSteps \in Nat
    /\ KidOutcomes \subseteq {"succeeded", "aborted", "failed", "budget", "plan"}
    /\ ValidStages

VARIABLES
    flow,   \* run.json of the parent: worker state and flow position
    kid,    \* run.json of the child
    bill,   \* budget.json: the transitions and children paid for
    fjob,   \* what each driver is at
    fpast   \* history: see NoFlowPast

flowVars == <<flow, kid, bill, fjob, fpast>>

Nobody == [made |-> FALSE, stage |-> "none", left |-> 0, acts |-> 0]
AtRest == [at |-> "rest", flow |-> {}, kid |-> {}, time |-> FALSE]

NoFlowPast == [crashes |-> 0,
               untimed |-> FALSE,  \* a child was driven with no time at all
               other |-> FALSE,    \* one adopted the child while another held its end, too
               twice |-> FALSE]    \* ... and the other adopted it again

\* stageflow.enter: the worker's stage for a stage of the workflow.
Entered(f, s) ==
    LET kind == KindOf[s]
        at   == [f EXCEPT !.cur = s, !.outcome = ""]
    IN CASE kind = "planner"     -> [at EXCEPT !.stage = "planning"]
         [] kind = "implementer" -> [at EXCEPT !.stage = "implementing"]
         [] kind = "assessor"    -> IF f.diff THEN [at EXCEPT !.stage = "assessing"]
                                    ELSE [at EXCEPT !.stage = "halted", !.outcome = "assessment-without-diff"]
         [] kind \in {"question", "spawn"} -> [at EXCEPT !.stage = kind]
         [] kind = "paused"      -> [at EXCEPT !.stage = "halted", !.outcome = "workflow-paused"]
         [] OTHER                -> [at EXCEPT !.stage = "done", !.outcome = kind]

\* stageflow.New: at the entry of the workflow.
NewFlow ==
    Entered([cur |-> Entry, steps |-> 0, pending |-> "", child |-> FALSE, taken |-> 0,
             spawned |-> FALSE, adopted |-> 0, diff |-> FALSE, stage |-> "", outcome |-> "",
             phase |-> ""], Entry)

\* startStageFlow: no file seeds such a run, and nothing is paid for yet.
FlowInit ==
    /\ flow = NewFlow
    /\ kid = Nobody
    /\ bill = [paid |-> {}, steps |-> 0, grant |-> 0, child |-> FALSE]
    /\ fjob = [d \in FlowDrivers |-> AtRest]
    /\ fpast = NoFlowPast
-----------------------------------------------------------------------------
(***************************************************************************)
(* A transition: save the answer, pay for the step, take it                *)
(***************************************************************************)

\* State.Pause keeps the stage a budget stops, for the operator who extends it.
Stopped(f, reason) ==
    [f EXCEPT !.phase = IF reason \in {"steps", "child-budget"} /\ f.stage # "halted"
                        THEN f.stage ELSE @,
              !.stage = "halted", !.outcome = reason]

\* Sections under the run lock that are several writes.
Locked == \E d \in FlowDrivers : fjob[d].at \in {"paying", "taking", "creating", "linking"}

\* Mutant of SavedAnswer: the step is counted when it is chosen.
SavedCounted(f, a) == [f EXCEPT !.pending = a, !.steps = @ + 1]

SavedAnswer(f, a) == [f EXCEPT !.pending = a]


\* The first write of advanceBudgetFlow.
Save(d, f, a) ==
    /\ flow' = SavedAnswer(f, a)
    /\ fjob' = [fjob EXCEPT ![d] = [AtRest EXCEPT !.at = "paying", !.flow = {SavedAnswer(f, a)}]]

StepId(f) == f.steps + 1

\* The second write, in the budget of the tree; what is paid already is not paid again.
Pay(d) ==
    /\ fjob[d].at = "paying"
    /\ \E f \in fjob[d].flow :
         IF StepId(f) \in bill.paid
         THEN fjob' = [fjob EXCEPT ![d].at = "taking"] /\ UNCHANGED <<flow, bill>>
         ELSE IF f.steps >= MaxSteps + bill.grant
         THEN /\ flow' = Stopped(f, "steps") /\ UNCHANGED bill
              /\ fjob' = [fjob EXCEPT ![d] = AtRest]
         ELSE /\ bill' = [bill EXCEPT !.paid = @ \cup {StepId(f)}, !.steps = @ + 1]
              /\ fjob' = [fjob EXCEPT ![d].at = "taking"] /\ UNCHANGED flow
    /\ UNCHANGED <<kid, fpast>>

\* stageflow.Advance.
Advanced(f, s) ==
    Entered([f EXCEPT !.pending = "", !.steps = @ + 1, !.taken = @ + 1, !.child = FALSE,
                      !.spawned = @ \/ f.child], s)

WorkStages == {"planning", "implementing", "assessing"}

\* pauseDriveError; the failure of a role is named by its stage.
DriveFailed(f) ==
    IF f.stage \in {"halted", "done"} THEN f
    ELSE Stopped(f, IF f.stage \in WorkStages THEN f.stage ELSE "driver-failed")

\* The third write.  A route that is missing is an error of the driver.
Take(d) ==
    /\ fjob[d].at = "taking"
    /\ \E f \in fjob[d].flow :
         flow' = IF f.pending \in DOMAIN Routes[f.cur] THEN Advanced(f, Routes[f.cur][f.pending])
                 ELSE DriveFailed(flow)
    /\ fjob' = [fjob EXCEPT ![d] = AtRest]
    /\ UNCHANGED <<kid, bill, fpast>>

\* sdlcDrive first finishes a transition it finds saved.
ResumeAnswer(d) ==
    /\ fjob[d].at = "rest" /\ ~Locked
    /\ flow.pending # "" /\ flow.stage # "halted"
    /\ Save(d, flow, flow.pending)
    /\ UNCHANGED <<kid, bill, fpast>>
-----------------------------------------------------------------------------
(***************************************************************************)
(* Questions, work, verification                                           *)
(***************************************************************************)

\* Mutant of Drives: a stage whose answer is saved is driven again.
DrivesAgain(d, stage) == fjob[d].at = "rest" /\ ~Locked /\ flow.stage = stage

Drives(d, stage) == fjob[d].at = "rest" /\ ~Locked /\ flow.pending = "" /\ flow.stage = stage

\* Jev's answer, or fallback: no key, no model, an unknown or doubtful choice.
Answers(s) == IF KindOf[s] = "question" THEN DOMAIN Routes[s] ELSE {}

AskQuestion(d, a) ==
    /\ Drives(d, "question") /\ a \in Answers(flow.cur)
    /\ IF flow.steps >= MaxSteps + bill.grant
       THEN flow' = Stopped(flow, "steps") /\ UNCHANGED fjob
       ELSE Save(d, flow, a)
    /\ UNCHANGED <<kid, bill, fpast>>

\* stageflowRouteAfterResult: a change stays in its stage until it is verified.
WorkEnds(d, o) ==
    /\ \E stage \in WorkStages : Drives(d, stage)
    /\ \/ flow.stage = "planning" /\ o \in Required("planner")
       \/ flow.stage = "implementing" /\ o \in Required("implementer")
       \/ flow.stage = "assessing" /\ o \in Required("assessor")
    /\ IF o = "changed"
       THEN flow' = [flow EXCEPT !.stage = "verifying", !.diff = TRUE] /\ UNCHANGED fjob
       ELSE Save(d, [flow EXCEPT !.stage = IF o = "planned" \/ o = "changes-required"
                                           THEN "implementing" ELSE "done"], o)
    /\ UNCHANGED <<kid, bill, fpast>>

WorkFails(d) ==
    /\ \E stage \in WorkStages : Drives(d, stage)
    /\ flow' = DriveFailed(flow)
    /\ UNCHANGED <<kid, bill, fjob, fpast>>

\* resume --retry-failed.
RetryWork ==
    /\ flow.stage = "halted" /\ flow.outcome \in WorkStages /\ ~Locked
    /\ flow' = [flow EXCEPT !.stage = flow.outcome, !.outcome = ""]
    /\ UNCHANGED <<kid, bill, fjob, fpast>>

\* Two writes: the verdict, and then the answer `changed` of the stage.
VerifyFlow(d, ok) ==
    /\ Drives(d, "verifying")
    /\ IF ~ok THEN flow' = [flow EXCEPT !.stage = "implementing"] /\ UNCHANGED fjob
       ELSE IF KindOf[flow.cur] = "implementer"
       THEN Save(d, [flow EXCEPT !.stage = "assessing"], "changed")
       ELSE flow' = [flow EXCEPT !.stage = "assessing"] /\ UNCHANGED fjob
    /\ UNCHANGED <<kid, bill, fpast>>

\* ... with a crash between them.
VerdictOnly(d) ==
    /\ Drives(d, "verifying") /\ fpast.crashes < FlowCrashes
    /\ flow' = [flow EXCEPT !.stage = "assessing"]
    /\ fpast' = [fpast EXCEPT !.crashes = @ + 1]
    /\ UNCHANGED <<kid, bill, fjob>>
-----------------------------------------------------------------------------
(***************************************************************************)
(* Spawn: charge, create, link; drive; adopt                               *)
(***************************************************************************)

\* The child's ID is made of the parent's steps, so a child made before a crash is
\* found again.  Only a link made now computes the time the child has.
Spawn(d) ==
    /\ Drives(d, "spawn")
    /\ IF flow.child
       THEN fjob' = [fjob EXCEPT ![d] = [AtRest EXCEPT !.at = "driving"]] /\ UNCHANGED <<flow, bill>>
       ELSE IF flow.spawned \/ Depth >= 3
       THEN /\ flow' = Stopped(flow, IF flow.spawned THEN "workflow-target-repeated"
                                     ELSE "workflow-depth-exhausted")
            /\ UNCHANGED <<fjob, bill>>
       ELSE /\ bill' = IF kid.made THEN bill ELSE [bill EXCEPT !.child = TRUE]
            /\ fjob' = [fjob EXCEPT ![d] = [at |-> IF kid.made THEN "linking" ELSE "creating",
                                            flow |-> {flow}, kid |-> {}, time |-> TRUE]]
            /\ UNCHANGED flow
    /\ UNCHANGED <<kid, fpast>>

\* createSpawnChild, or a policy under which the child cannot start.
CreateKid(d) ==
    /\ fjob[d].at = "creating"
    /\ \/ /\ kid' = [made |-> TRUE, stage |-> "working", left |-> KidActions, acts |-> 0]
          /\ fjob' = [fjob EXCEPT ![d].at = "linking"] /\ UNCHANGED flow
       \/ /\ \E f \in fjob[d].flow : flow' = Stopped(f, "workflow-start-failed")
          /\ fjob' = [fjob EXCEPT ![d] = AtRest] /\ UNCHANGED kid
    /\ UNCHANGED <<bill, fpast>>

LinkKid(d) ==
    /\ fjob[d].at = "linking"
    /\ \E f \in fjob[d].flow : flow' = [f EXCEPT !.child = TRUE]
    /\ fjob' = [fjob EXCEPT ![d].at = "driving", ![d].flow = {}]
    /\ UNCHANGED <<kid, bill, fpast>>

\* One action of the child, in what time the driver has for it.
DriveKid(d) ==
    /\ fjob[d].at = "driving"
    /\ \/ kid.stage # "working" /\ UNCHANGED <<kid, fpast>>
       \/ /\ kid.stage = "working" /\ ~fjob[d].time
          /\ kid' = [kid EXCEPT !.stage = "failed", !.acts = @ + 1]
          /\ fpast' = [fpast EXCEPT !.untimed = TRUE]
       \/ /\ kid.stage = "working" /\ fjob[d].time /\ UNCHANGED fpast
          /\ \/ kid.left > 1 /\ kid' = [kid EXCEPT !.left = @ - 1, !.acts = @ + 1]
             \/ \E o \in KidOutcomes :
                  /\ o = "succeeded" => kid.left = 1
                  /\ kid' = [kid EXCEPT !.stage = o, !.acts = @ + 1,
                                        !.left = IF o = "succeeded" THEN 0 ELSE @]
    /\ fjob' = [fjob EXCEPT ![d] = IF kid'.stage = "working" THEN AtRest ELSE [AtRest EXCEPT !.at = "adopting", !.kid = {kid'}]]
    /\ UNCHANGED <<flow, bill>>

KidAnswer(k) == IF k.stage = "failed" THEN "paused" ELSE k.stage

\* The child stopped for a budget or an approval: so does the parent, and waits.
AwaitKid(d) ==
    /\ fjob[d].at = "adopting" /\ ~Locked
    /\ \E k \in fjob[d].kid :
         /\ k.stage \in {"budget", "plan"}
         /\ flow' = [Stopped(flow, IF k.stage = "budget" THEN "child-budget" ELSE "child-plan")
                       EXCEPT !.phase = IF k.stage = "plan" THEN "spawn" ELSE @]
    /\ fjob' = [fjob EXCEPT ![d] = AtRest]
    /\ UNCHANGED <<kid, bill, fpast>>

\* The parent counts the child's work and takes over its candidate.
Adopted(f, k) == [f EXCEPT !.adopted = @ + k.acts, !.steps = @ + KidSteps,
                           !.diff = @ \/ k.stage = "succeeded"]

\* A run that changed meanwhile is an error of the driver.
AdoptKid(d) ==
    /\ fjob[d].at = "adopting" /\ ~Locked
    /\ \E k \in fjob[d].kid :
         /\ k.stage \notin {"budget", "plan"}
         /\ IF flow.child /\ flow.stage = "spawn"
            THEN /\ Save(d, Adopted(flow, k), KidAnswer(k))
                 /\ fpast' = [fpast EXCEPT !.other = @ \/ \E e \in FlowDrivers \ {d} :
                                                           fjob[e].at \in {"driving", "adopting"},
                                           !.twice = @ \/ (flow.pending # "" /\ fpast.other)]
            ELSE /\ flow' = DriveFailed(flow) /\ UNCHANGED fpast
                 /\ fjob' = [fjob EXCEPT ![d] = AtRest]
    /\ UNCHANGED <<kid, bill>>
-----------------------------------------------------------------------------
(***************************************************************************)
(* Crashes and the operator                                                *)
(***************************************************************************)

FlowCrash(d) ==
    /\ fjob[d].at # "rest" /\ fpast.crashes < FlowCrashes
    /\ fjob' = [fjob EXCEPT ![d] = AtRest]
    /\ fpast' = [fpast EXCEPT !.crashes = @ + 1]
    /\ UNCHANGED <<flow, kid, bill>>

\* Extending the budget reopens every run of the tree that stopped for it, and
\* finishes a transition that was saved.
ContinueFlow(d) ==
    /\ fjob[d].at = "rest" /\ ~Locked /\ flow.stage = "halted"
    /\ flow.outcome \in {"steps", "child-budget"} /\ bill.grant < MaxGrant
    /\ bill' = [bill EXCEPT !.grant = @ + 1]
    /\ kid' = IF kid.stage = "budget" THEN [kid EXCEPT !.stage = "working"] ELSE kid
    /\ LET f == [flow EXCEPT !.stage = flow.phase, !.outcome = "", !.phase = ""]
       IN IF f.pending # "" /\ f.steps >= MaxSteps + bill.grant + 1 THEN UNCHANGED <<flow, fjob>>
          ELSE IF f.pending # "" THEN Save(d, f, f.pending) ELSE flow' = f /\ UNCHANGED fjob
    /\ UNCHANGED fpast

\* Approving the child's plan; the parent then waits at the spawn stage again.
ApproveKid ==
    /\ flow.stage = "halted" /\ flow.outcome = "child-plan" /\ ~Locked
    /\ kid' = IF kid.stage = "plan" THEN [kid EXCEPT !.stage = "working"] ELSE kid
    /\ flow' = [flow EXCEPT !.stage = flow.phase, !.outcome = "", !.phase = ""]
    /\ UNCHANGED <<bill, fjob, fpast>>

FlowNext ==
    \/ \E d \in FlowDrivers :
         \/ Pay(d) \/ Take(d) \/ ResumeAnswer(d)
         \/ \E a \in Answers(flow.cur) : AskQuestion(d, a)
         \/ \E o \in UNION {Required(k) : k \in WorkKinds} : WorkEnds(d, o)
         \/ WorkFails(d) \/ VerdictOnly(d) \/ \E ok \in BOOLEAN : VerifyFlow(d, ok)
         \/ Spawn(d) \/ CreateKid(d) \/ LinkKid(d) \/ DriveKid(d) \/ AwaitKid(d) \/ AdoptKid(d)
         \/ FlowCrash(d) \/ ContinueFlow(d)
    \/ ApproveKid \/ RetryWork

FlowSpec == FlowInit /\ [][FlowNext]_flowVars
-----------------------------------------------------------------------------
(***************************************************************************)
(* Correctness                                                             *)
(***************************************************************************)

\* A transition is paid for exactly once, across crashes between its three writes and
\* drivers that finish what another began: the tree has paid for every transition that
\* was taken, and for at most the one that is saved besides.  The exception is a child
\* that two drivers adopt at the same time.
StepsPaidOnce ==
    fpast.twice \/ bill.steps = flow.taken \/ (bill.steps = flow.taken + 1 /\ flow.pending # "")

\* The parent counts the work of its child once, all of it, or not yet, however often the
\* adoption is interrupted (the same exception).
ChildCountedOnce == fpast.twice \/ flow.adopted \in {0, kid.acts}

\* docs/SDLC.md:738: a resume advances one child action at a time; so it has time for
\* one.  The time is computed only by the drive that links the child (sdlcspawn.go:63).
ChildGetsTime == ~fpast.untimed
=============================================================================
