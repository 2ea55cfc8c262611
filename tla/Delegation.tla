----------------------------- MODULE Delegation -----------------------------
(***************************************************************************)
(* Automatic delegation (cmd/jevkit/sdlc/sdlcdelegate.go): once a planned  *)
(* run of a built-in workflow reaches implementation it decides, one time, *)
(* whether a child run implements the plan, and adopts the child's         *)
(* candidate.  None of this holds the run lock: a driver works on the      *)
(* run.json it read when its drive began, and writes that copy back.       *)
(*                                                                         *)
(* What a run does when it is not delegated is one step here (AdaptiveRun); *)
(* the child's own work is a number of actions.                            *)
(***************************************************************************)
EXTENDS Integers, FiniteSets

CONSTANTS
    Delegates,  \* processes that may drive the parent
    Targets,    \* built-in workflows that are no ancestors of this run
    ChildActs,  \* actions the child needs
    Verdicts,   \* bounds of this instance: candidates sent back,
    Deaths      \* and drivers that die

ASSUME DelegationConstants ==
    /\ "none" \notin Targets
    /\ ChildActs \in Nat \ {0} /\ Verdicts \in Nat /\ Deaths \in Nat

VARIABLES
    par,   \* run.json of the parent
    auto,  \* run.json of the child `-a1`
    djob,  \* [Delegates -> what the driver is at, and its copy of run.json]
    dpast  \* history: see NoDelegationPast

delegationVars == <<par, auto, djob, dpast>>

Undecided == [stage |-> "implementing", decided |-> FALSE, target |-> "none", child |-> FALSE,
              counted |-> 0, diff |-> FALSE]
NoChild   == [made |-> FALSE, planned |-> FALSE, stage |-> "working", acts |-> 0, diff |-> FALSE]
AtEase    == [at |-> "rest", copy |-> Undecided]

NoDelegationPast ==
    [own |-> FALSE,    \* the parent implemented the plan itself
     raced |-> FALSE,  \* a copy was written over a newer run.json
     crashed |-> 0, sentBack |-> 0]

DelegationInit ==
    /\ par = Undecided /\ auto = NoChild
    /\ djob = [d \in Delegates |-> AtEase]
    /\ dpast = NoDelegationPast

\* The driver writes its copy, changed to r, whatever run.json is by now.
Stores(d, r) ==
    /\ par' = r
    /\ dpast' = [dpast EXCEPT !.raced = @ \/ djob[d].copy # par]

GoesOn(d, at, r) == djob' = [djob EXCEPT ![d] = [at |-> at, copy |-> r]]
Stops(d) == djob' = [djob EXCEPT ![d] = AtEase]

Halts(d, reason) == Stores(d, [djob[d].copy EXCEPT !.stage = reason]) /\ Stops(d)
-----------------------------------------------------------------------------
\* A drive reads the run.  A child that is linked is driven; one that was made
\* before a crash is linked now.
Begin(d) ==
    /\ djob[d].at = "rest" /\ par.stage = "implementing"
    /\ GoesOn(d, IF par.child THEN "driving"
                ELSE IF auto.made THEN "linking"
                ELSE IF par.decided \/ Targets = {} THEN "own"
                ELSE "deciding", par)
    /\ UNCHANGED <<par, auto, dpast>>

\* No time left in the tree, for a run that has no child yet.
TimeRunsOut(d) ==
    /\ djob[d].at = "rest" /\ par.stage = "implementing" /\ ~par.child
    /\ par' = [par EXCEPT !.stage = "run-time-budget-exhausted"]
    /\ UNCHANGED <<auto, djob, dpast>>

\* Mutant of ContinueInParent: the decision is not saved.
ContinueUndecided(d) ==
    /\ djob[d].at = "deciding" /\ djob[d].copy.target = "none"
    /\ GoesOn(d, "own", djob[d].copy)
    /\ UNCHANGED <<par, auto, dpast>>

\* continueDelegation: the router says so, is unavailable, unsure, or names no target.
ContinueInParent(d) ==
    LET r == [djob[d].copy EXCEPT !.decided = TRUE]
    IN /\ djob[d].at = "deciding" /\ djob[d].copy.target = "none"
       /\ Stores(d, r) /\ GoesOn(d, "own", r)
       /\ UNCHANGED auto

\* A target that was chosen before a crash is not chosen again.
ChooseTarget(d, t) ==
    LET r == [djob[d].copy EXCEPT !.target = t]
    IN /\ djob[d].at = "deciding" /\ djob[d].copy.target \in {"none", t}
       /\ Stores(d, r) /\ GoesOn(d, "creating", r)
       /\ UNCHANGED auto

\* The tree charges the child (TreeBudget), and createSpawnChild writes it, over
\* one that is there; either may be refused.
CreateChild(d) ==
    /\ djob[d].at = "creating"
    /\ \/ /\ auto' = [NoChild EXCEPT !.made = TRUE]
          /\ djob' = [djob EXCEPT ![d].at = "equipping"] /\ UNCHANGED <<par, dpast>>
       \/ \E reason \in {"workflow-child-budget-exhausted", "workflow-start-failed"} :
            Halts(d, reason) /\ UNCHANGED auto

\* The child starts at implementation, with the parent's plan and approvals.
EquipChild(d) ==
    /\ djob[d].at = "equipping"
    /\ auto' = [NoChild EXCEPT !.made = TRUE, !.planned = TRUE]
    /\ djob' = [djob EXCEPT ![d].at = "linking"]
    /\ UNCHANGED <<par, dpast>>

LinkChild(d) ==
    LET r == [djob[d].copy EXCEPT !.decided = TRUE, !.child = TRUE]
    IN /\ djob[d].at = "linking"
       /\ Stores(d, r) /\ GoesOn(d, "driving", r)
       /\ UNCHANGED auto
-----------------------------------------------------------------------------
\* driveAutoChild: one action of the child.
DriveChild(d) ==
    /\ djob[d].at = "driving"
    /\ IF auto.stage # "working" THEN UNCHANGED auto
       ELSE \/ auto.acts < ChildActs - 1 /\ auto' = [auto EXCEPT !.acts = @ + 1]
            \/ auto' = [auto EXCEPT !.stage = "halted", !.acts = IF @ < ChildActs THEN @ + 1 ELSE @]
            \/ /\ auto.acts = ChildActs - 1
               /\ \E diff \in BOOLEAN :
                    auto' = [auto EXCEPT !.stage = "done", !.acts = @ + 1, !.diff = diff]
    /\ djob' = [djob EXCEPT ![d] = IF auto'.stage = "working" THEN AtEase ELSE [@ EXCEPT !.at = "adopting"]]
    /\ UNCHANGED <<par, dpast>>

AdoptChild(d) ==
    LET r == djob[d].copy
    IN /\ djob[d].at = "adopting"
       /\ IF auto.stage = "done"
          THEN /\ Stores(d, [r EXCEPT !.counted = @ + auto.acts, !.diff = @ \/ auto.diff,
                                      !.stage = IF r.diff \/ auto.diff THEN "verifying" ELSE "done"])
               /\ Stops(d)
          ELSE IF auto.stage = "halted" THEN Halts(d, "automatic-child-paused")
          ELSE Stops(d) /\ UNCHANGED <<par, dpast>>
       /\ UNCHANGED auto

\* The parent's own implementer, reserved under the run lock.
ImplementInParent(d) ==
    /\ djob[d].at = "own"
    /\ IF par.stage = "implementing"
       THEN /\ par' = [par EXCEPT !.stage = "verifying", !.diff = TRUE]
            /\ dpast' = [dpast EXCEPT !.own = TRUE]
       ELSE UNCHANGED <<par, dpast>>
    /\ Stops(d)
    /\ UNCHANGED auto

\* Checks and review of the candidate.
JudgeCandidate(ok) ==
    /\ par.stage = "verifying" /\ (ok \/ dpast.sentBack < Verdicts)
    /\ par' = [par EXCEPT !.stage = IF ok THEN "done" ELSE "implementing"]
    /\ dpast' = IF ok THEN dpast ELSE [dpast EXCEPT !.sentBack = @ + 1]
    /\ UNCHANGED <<auto, djob>>

\* The child is resumed, and then the parent; or a budget is extended.
ResumeChild ==
    /\ auto.stage = "halted" /\ auto.acts < ChildActs
    /\ auto' = [auto EXCEPT !.stage = "working"]
    /\ UNCHANGED <<par, djob, dpast>>

ResumeParent ==
    /\ \/ par.stage = "automatic-child-paused" /\ auto.stage # "halted"
       \/ par.stage \in {"run-time-budget-exhausted", "workflow-child-budget-exhausted"}
    /\ par' = [par EXCEPT !.stage = "implementing"]
    /\ UNCHANGED <<auto, djob, dpast>>

DelegateDies(d) ==
    /\ djob[d].at # "rest" /\ dpast.crashed < Deaths
    /\ Stops(d)
    /\ dpast' = [dpast EXCEPT !.crashed = @ + 1]
    /\ UNCHANGED <<par, auto>>

DelegationNext ==
    \/ \E d \in Delegates :
         \/ Begin(d) \/ TimeRunsOut(d) \/ ContinueInParent(d) \/ CreateChild(d) \/ EquipChild(d)
         \/ LinkChild(d) \/ DriveChild(d) \/ AdoptChild(d) \/ ImplementInParent(d) \/ DelegateDies(d)
         \/ \E t \in Targets : ChooseTarget(d, t)
    \/ \E ok \in BOOLEAN : JudgeCandidate(ok)
    \/ ResumeChild \/ ResumeParent

DelegationSpec == DelegationInit /\ [][DelegationNext]_delegationVars
-----------------------------------------------------------------------------
\* A planned task is implemented by the parent or by the child, never by both: a decision
\* to stay in the parent survives a crash, and so does a child that was made but not yet
\* linked.  Two drivers that write their copies over each other are the exception.
OneImplementer == dpast.raced \/ ~(dpast.own /\ auto.made)
=============================================================================
