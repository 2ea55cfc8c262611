---------------------------- MODULE PlanApproval ----------------------------
(***************************************************************************)
(* The saved plan, its checks and its subtask graph, and what approves them *)
(* (cmd/jevkit/sdlc: sdlcplanartifacts.go, sdlcapproval.go, and what        *)
(* sdlcdrive.go looks at before it starts an implementer).  The three are  *)
(* files anyone may change at any time; the run keeps the digests the      *)
(* planner's were saved with, the approved ones, and that of the commands  *)
(* that are authorized.  A digest is the content it is of.                 *)
(***************************************************************************)
EXTENDS Integers, FiniteSets

CONSTANTS
    Contents, \* contents of a file
    Commands, \* those of checks.json that hold commands to run
    FanoutGraphs, \* those of subtasks.json that are a graph to fan out
    Edits,    \* bound of this instance: changes to the files, and plans made
    Plans

ASSUME ApprovalConstants ==
    /\ Commands \subseteq Contents /\ "empty" \in Contents \ Commands /\ "none" \notin Contents
    /\ FanoutGraphs \subseteq Contents
    /\ Edits \in Nat /\ Plans \in Nat

Files == {"plan", "checks", "subtasks"}
Sides == {"checks", "subtasks"}

VARIABLES
    saved,  \* [Files -> what is on disk, "none" when it is not]
    prun,   \* the fields of run.json
    ppast   \* history: what was approved, what was authorized, what was started with, and
            \* the files edited since a drive last passed the gate

planVars == <<saved, prun, ppast>>

Nothing == [f \in Files |-> "none"]

PlanInit ==
    /\ saved = Nothing
    /\ prun \in {[require |-> r, stage |-> "planning", outcome |-> "", rev |-> Nothing,
                  approved |-> Nothing, authorized |-> "none", graph |-> "none"] : r \in BOOLEAN}
    /\ ppast = [approved |-> {}, authorized |-> {}, started |-> {}, since |-> {}, edits |-> 0,
                plans |-> 0]

\* What the operator is shown, and what an implementer is given.
Content == [f \in Files |-> IF saved[f] = "none" THEN "empty" ELSE saved[f]]
-----------------------------------------------------------------------------
\* sdlcRecordResultExtras: the planner's files, their digests, and no approval.
SavePlan(c) ==
    /\ prun.stage = "planning" /\ ppast.plans < Plans
    /\ saved' = c
    /\ prun' = [prun EXCEPT !.rev = c, !.approved = Nothing, !.authorized = "none",
                            !.stage = "implementing"]
    /\ ppast' = [ppast EXCEPT !.plans = @ + 1]

\* Somebody edits or removes a file.
EditFile(f, c) ==
    /\ ppast.edits < Edits /\ saved[f] # "none" /\ saved[f] # c
    /\ saved' = [saved EXCEPT ![f] = c]
    /\ ppast' = [ppast EXCEPT !.edits = @ + 1, !.since = @ \cup {f}]
    /\ UNCHANGED prun

\* ensurePlanSideArtifacts: missing side files are written, missing digests taken.
Ensured == [f \in Files |-> IF f \in Sides THEN Content[f] ELSE saved[f]]
Digests(r) == [f \in Files |-> IF f \in Sides /\ r.rev[f] = "none" THEN Content[f] ELSE r.rev[f]]

\* planArtifactsMatchState and planApprovalComplete.
Matches(r) == \A f \in Files : Digests(r)[f] = Ensured[f]
Complete(r) == \A f \in Files : r.approved[f] = r.rev[f]

NeedsAuthorization(r) == Content["checks"] \in Commands /\ r.authorized # Content["checks"]

HaltsFor(r, reason) == [r EXCEPT !.stage = "halted", !.outcome = reason]

\* sdlcPlanApprovalGateLocked; a plan that cannot be read is an error.
PlanGate ==
    LET r == [prun EXCEPT !.rev = Digests(prun)]
    IN /\ prun.stage = "implementing" /\ saved["plan"] # "none"
       /\ saved' = Ensured
       /\ prun' = IF ~Matches(prun) THEN HaltsFor(r, "plan-artifact-mismatch")
                  ELSE IF ~r.require
                  THEN IF NeedsAuthorization(r) THEN HaltsFor(r, "command-authorization-required")
                       ELSE [r EXCEPT !.stage = "assigning"]
                  ELSE IF Complete(r)
                  THEN [r EXCEPT !.stage = "assigning",
                                 !.authorized = IF @ = "none" THEN r.rev["checks"] ELSE @]
                  ELSE HaltsFor(r, "plan-approval-required")
       /\ ppast' = [ppast EXCEPT !.since = {}]

\* sdlcApprovePlan, also before the gate has asked.
ApprovePlan ==
    LET r == [prun EXCEPT !.rev = Digests(prun)]
    IN /\ prun.require /\ prun.rev["plan"] # "none" /\ ~Complete(prun) /\ saved["plan"] # "none"
       /\ prun.stage = "halted" => prun.outcome = "plan-approval-required"
       /\ saved' = Ensured
       /\ IF ~Matches(prun) THEN UNCHANGED <<prun, ppast>>
          ELSE /\ prun' = [r EXCEPT !.approved = r.rev, !.authorized = r.rev["checks"],
                                    !.stage = IF @ = "halted" THEN "implementing" ELSE @,
                                    !.outcome = IF prun.stage = "halted" THEN "" ELSE @]
               /\ ppast' = [ppast EXCEPT !.approved = @ \cup {Content},
                                         !.authorized = @ \cup {Content["checks"]}]

\* sdlcAuthorizeChecks; `c` is the digest the operator read, or "" for none.
AuthorizeChecks(c) ==
    LET r == [prun EXCEPT !.rev = Digests(prun)]
    IN /\ prun.rev["plan"] # "none" /\ saved["plan"] # "none"
       /\ prun.stage = "halted" =>
            prun.outcome \in {"command-authorization-required", "plan-approval-required"}
       /\ c \in {"", Content["checks"]}
       /\ Content["checks"] \in Commands /\ prun.authorized # Content["checks"]
       /\ saved' = Ensured
       /\ IF ~Matches(prun) THEN UNCHANGED <<prun, ppast>>
          ELSE /\ prun' = [r EXCEPT !.authorized = Content["checks"],
                             !.stage = IF prun.outcome = "command-authorization-required"
                                       THEN "implementing" ELSE @,
                             !.outcome = IF @ = "command-authorization-required" THEN "" ELSE @]
               /\ ppast' = [ppast EXCEPT !.authorized = @ \cup {Content["checks"]}]

\* sdlcRequestPlanChanges: back to the planner.
SendBack ==
    /\ prun.stage = "halted" /\ prun.outcome = "plan-approval-required"
    /\ saved["plan"] = prun.rev["plan"]
    /\ prun' = [prun EXCEPT !.stage = "planning", !.outcome = "", !.approved = Nothing,
                            !.authorized = "none",
                            !.rev = [f \in Files |-> IF f = "plan" THEN @[f] ELSE "none"]]
    /\ UNCHANGED <<saved, ppast>>

\* Mutant of Unapproved: trusts the gate.
UnapprovedByDigest(r) == r.require /\ ~Complete(r)

\* sdlcDrive looks again at what it is about to use.
Unapproved(r) ==
    r.require /\ (~Complete(r) \/ \E f \in Files : saved[f] = "none" \/ saved[f] # r.approved[f])

StartImplementer ==
    /\ prun.stage = "starting"
    /\ IF Unapproved(prun) \/ (saved["checks"] # "none" /\ NeedsAuthorization(prun))
       THEN prun' = HaltsFor(prun, "implementer-failed") /\ UNCHANGED ppast
       ELSE /\ prun' = [prun EXCEPT !.stage = "working"]
            /\ ppast' = [ppast EXCEPT !.started = @ \cup {[content |-> Content, unread |-> {}]}]
    /\ UNCHANGED saved

\* approvedFanoutGraph: after the gate, only subtasks.json is compared again.
FanoutLooks ==
    /\ prun.stage = "assigning"
    /\ prun' = IF prun.require /\ saved["subtasks"] \notin {"none", prun.approved["subtasks"]}
               THEN HaltsFor(prun, "implementer-failed")
               ELSE IF saved["subtasks"] \in FanoutGraphs
               THEN [prun EXCEPT !.stage = "fanout", !.graph = saved["subtasks"]]
               ELSE [prun EXCEPT !.stage = "starting"]
    /\ UNCHANGED <<saved, ppast>>

\* runFanoutSubtask: an implementer of the graph is given plan.md as it is by then, with
\* nothing compared and no command looked at.
FanoutStarts ==
    /\ prun.stage = "fanout"
    /\ ppast' = [ppast EXCEPT !.started = @ \cup
                    {[content |-> [Content EXCEPT !["subtasks"] = prun.graph],
                      unread  |-> ppast.since \ {"subtasks"}]}]
    /\ UNCHANGED <<saved, prun>>

\* The work ends and is sent back for repair, or fails and is retried; or the next drive
\* looks after a graph that is under way.
WorkAgain ==
    /\ prun.stage \in {"working", "fanout"} \/ (prun.stage = "halted" /\ prun.outcome = "implementer-failed")
    /\ prun' = [prun EXCEPT !.stage = "implementing", !.outcome = "", !.graph = "none"]
    /\ UNCHANGED <<saved, ppast>>

PlanNext ==
    \/ \E c \in [Files -> Contents] : SavePlan(c)
    \/ \E f \in Files, c \in Contents \cup {"none"} : EditFile(f, c)
    \/ PlanGate \/ ApprovePlan \/ SendBack \/ StartImplementer \/ FanoutLooks \/ FanoutStarts
    \/ WorkAgain
    \/ \E c \in {"", Content["checks"]} : AuthorizeChecks(c)

PlanSpec == PlanInit /\ [][PlanNext]_planVars
-----------------------------------------------------------------------------
\* An implementer that is started alone is started with a plan, checks and subtasks that an
\* operator approved together exactly as they are on disk at that moment, where the policy
\* asks for approval, and with no commands whose digest nobody authorized, whatever was edited,
\* approved or sent back before.  One that a fan-out graph starts has the approved graph, and
\* of an approved plan every other file nobody edited since the drive passed the gate: those
\* are not compared again (`unread`).
StartedAsApproved ==
    \A s \in ppast.started :
      /\ prun.require =>
           \E a \in ppast.approved : \A f \in Files \ s.unread : s.content[f] = a[f]
      /\ "checks" \notin s.unread /\ s.content["checks"] \in Commands =>
           s.content["checks"] \in ppast.authorized

\* Violated by the code.  docs/SDLC.md says that an approval locks the digests of plan, checks
\* and subtasks (sdlcschedule.go reads plan.md for a fan-out without its digest).
ApprovalLocks ==
    \A s \in ppast.started : prun.require => s.content \in ppast.approved
=============================================================================
