-------------------------- MODULE DelegationProofs --------------------------
(***************************************************************************)
(* What is proved of a run and its child.  First of the decision whether a *)
(* child implements the plan (Delegation), for any number of drivers,      *)
(* targets, actions of the child and deaths.  Then of the child of an      *)
(* authored workflow (StageFlow), for any workflow, drivers, budgets and   *)
(* deaths: its transitions are paid for once and it is counted once.       *)
(***************************************************************************)
EXTENDS Delegation, StageFlow, TLAPS

ParentStages ==
    {"implementing", "verifying", "done", "automatic-child-paused", "run-time-budget-exhausted",
     "workflow-child-budget-exhausted", "workflow-start-failed"}

ChildStages == {"working", "halted", "done"}

RunRecord ==
    [stage : ParentStages, decided : BOOLEAN, target : Targets \cup {"none"}, child : BOOLEAN,
     counted : Nat, diff : BOOLEAN]

Positions == {"rest", "own", "deciding", "creating", "equipping", "linking", "driving", "adopting"}

DelegationTypeOK ==
    /\ par \in RunRecord
    /\ auto \in [made : BOOLEAN, planned : BOOLEAN, stage : ChildStages, acts : Nat, diff : BOOLEAN]
    /\ djob \in [Delegates -> [at : Positions, copy : RunRecord]]
    /\ dpast \in [own : BOOLEAN, raced : BOOLEAN, crashed : Nat, sentBack : Nat]

\* The parent decided to implement the plan itself.
Stays == par.decided /\ ~par.child

\* While no copy was written over a newer run.json, a child belongs to a target that was
\* saved before it, and who implements in the parent does so after a decision that no
\* driver on its way to a child has missed.
Consistent ==
    /\ auto.made => par.target # "none" /\ ~Stays
    /\ par.child => par.target # "none"
    /\ dpast.own => Stays \/ Targets = {}
    /\ \A d \in Delegates :
         /\ djob[d].at = "own" => Stays \/ Targets = {}
         /\ djob[d].at = "deciding" => ~djob[d].copy.decided
         /\ djob[d].at \in {"creating", "equipping"} => par.target # "none" /\ ~Stays
         /\ djob[d].at = "linking" => auto.made

DelegationInv == DelegationTypeOK /\ (dpast.raced \/ Consistent)

\* A driver's write: a race if its copy is old, and otherwise the copy is run.json.
LEMMA StoresCurrent ==
    ASSUME DelegationTypeOK, NEW d \in Delegates, NEW r, Stores(d, r), ~dpast'.raced
    PROVE  djob[d].copy = par /\ ~dpast.raced /\ dpast'.own = dpast.own /\ par' = r
  BY DEF Stores, DelegationTypeOK

LEMMA StoresType ==
    ASSUME DelegationTypeOK, NEW d \in Delegates, NEW r \in RunRecord, Stores(d, r)
    PROVE  /\ par' \in RunRecord
           /\ dpast' \in [own : BOOLEAN, raced : BOOLEAN, crashed : Nat, sentBack : Nat]
  BY DEF Stores, DelegationTypeOK

LEMMA DelegationStart == DelegationInit => DelegationInv
  BY DEF DelegationInit, DelegationInv, DelegationTypeOK, Consistent, Undecided, NoChild, AtEase,
         NoDelegationPast, RunRecord, ParentStages, ChildStages, ParentStages, ChildStages, Positions, Stays

LEMMA DecideKeeps ==
    ASSUME DelegationInv, NEW d \in Delegates,
           Begin(d) \/ TimeRunsOut(d) \/ ContinueInParent(d) \/ \E t \in Targets : ChooseTarget(d, t)
    PROVE  DelegationInv'
  <1> USE DEF DelegationInv, Positions
  <1>1. CASE Begin(d)
    <2>1. DelegationTypeOK'
      BY <1>1 DEF Begin, GoesOn, DelegationTypeOK
    <2>2. ASSUME Consistent PROVE Consistent'
      BY <1>1, <2>2 DEF Begin, GoesOn, DelegationTypeOK, Consistent, Stays, RunRecord, ParentStages, ChildStages
    <2>3. QED BY <1>1, <2>1, <2>2 DEF Begin
  <1>2. CASE TimeRunsOut(d)
    BY <1>2 DEF TimeRunsOut, DelegationTypeOK, Consistent, Stays, RunRecord, ParentStages, ChildStages
  <1>3. CASE ContinueInParent(d)
    <2> DEFINE r == [djob[d].copy EXCEPT !.decided = TRUE]
    <2>1. r \in RunRecord
      BY DEF DelegationTypeOK, RunRecord, ParentStages, ChildStages
    <2>2. Stores(d, r) /\ GoesOn(d, "own", r) /\ auto' = auto /\ djob[d].copy.target = "none"
      BY <1>3 DEF ContinueInParent
    <2>3. DelegationTypeOK'
      BY <2>1, <2>2, StoresType DEF GoesOn, DelegationTypeOK
    <2>4. ASSUME ~dpast'.raced PROVE Consistent'
      <3>1. djob[d].copy = par /\ ~dpast.raced /\ dpast'.own = dpast.own /\ par' = r /\ Consistent
        BY <2>2, <2>4, StoresCurrent DEF DelegationInv
      <3>2. par'.decided /\ par'.child = par.child /\ par'.target = par.target /\ par.target = "none"
        BY <2>2, <3>1 DEF DelegationTypeOK, RunRecord
      <3>3. djob' = [djob EXCEPT ![d] = [at |-> "own", copy |-> r]] /\ auto' = auto
        BY <2>2 DEF GoesOn
      <3>4. ~auto.made /\ \A e \in Delegates : djob[e].at \notin {"creating", "equipping", "linking"}
        BY <3>1, <3>2 DEF Consistent
      <3>5. Stays' /\ ~par'.child
        BY <3>1, <3>2 DEF Stays, Consistent
      <3>6. QED BY <3>1, <3>3, <3>4, <3>5 DEF DelegationTypeOK, Consistent
    <2>5. QED BY <2>3, <2>4
  <1>4. ASSUME NEW t \in Targets, ChooseTarget(d, t) PROVE DelegationInv'
    <2> DEFINE r == [djob[d].copy EXCEPT !.target = t]
    <2>1. r \in RunRecord
      BY DEF DelegationTypeOK, RunRecord, ParentStages, ChildStages
    <2>2. Stores(d, r) /\ GoesOn(d, "creating", r) /\ auto' = auto /\ djob[d].at = "deciding"
      BY <1>4 DEF ChooseTarget
    <2>3. DelegationTypeOK'
      BY <2>1, <2>2, StoresType DEF GoesOn, DelegationTypeOK
    <2>4. ASSUME ~dpast'.raced PROVE Consistent'
      BY <2>2, <2>4, StoresCurrent, DelegationConstants DEF GoesOn, DelegationTypeOK, Consistent, Stays, RunRecord, ParentStages, ChildStages
    <2>5. QED BY <2>3, <2>4
  <1>5. QED BY <1>1, <1>2, <1>3, <1>4

LEMMA HaltsKeeps ==
    ASSUME DelegationInv, NEW d \in Delegates, NEW reason \in ParentStages, Halts(d, reason), auto' = auto
    PROVE  DelegationInv'
  <1> DEFINE r == [djob[d].copy EXCEPT !.stage = reason]
  <1>1. r \in RunRecord
    BY DEF DelegationInv, DelegationTypeOK, RunRecord, ParentStages, ChildStages
  <1>2. Stores(d, r) /\ Stops(d)
    BY DEF Halts
  <1>3. DelegationTypeOK'
    BY <1>1, <1>2, StoresType DEF DelegationInv, Stops, DelegationTypeOK, AtEase, Undecided, RunRecord, ParentStages, ChildStages, Positions
  <1>4. ASSUME ~dpast'.raced PROVE Consistent'
    BY <1>2, <1>4, StoresCurrent DEF DelegationInv, Stops, DelegationTypeOK, Consistent, Stays, RunRecord, ParentStages, ChildStages, AtEase
  <1>5. QED BY <1>3, <1>4 DEF DelegationInv

LEMMA ChildKeeps ==
    ASSUME DelegationInv, NEW d \in Delegates,
           CreateChild(d) \/ EquipChild(d) \/ LinkChild(d) \/ DriveChild(d) \/ AdoptChild(d)
    PROVE  DelegationInv'
  <1>1. CASE CreateChild(d)
    <2>1. CASE \E reason \in {"workflow-child-budget-exhausted", "workflow-start-failed"} :
                  Halts(d, reason) /\ UNCHANGED auto
      BY <2>1, HaltsKeeps DEF ParentStages
    <2>2. CASE /\ auto' = [NoChild EXCEPT !.made = TRUE]
               /\ djob' = [djob EXCEPT ![d].at = "equipping"] /\ UNCHANGED <<par, dpast>>
      BY <1>1, <2>2 DEF CreateChild, DelegationInv, DelegationTypeOK, Consistent, Stays, NoChild, ChildStages, Positions
    <2>3. QED BY <1>1, <2>1, <2>2 DEF CreateChild
  <1>2. CASE EquipChild(d)
    BY <1>2 DEF EquipChild, DelegationInv, DelegationTypeOK, Consistent, Stays, NoChild, ChildStages, Positions
  <1>3. CASE LinkChild(d)
    <2> DEFINE r == [djob[d].copy EXCEPT !.decided = TRUE, !.child = TRUE]
    <2>1. r \in RunRecord
      BY DEF DelegationInv, DelegationTypeOK, RunRecord, ParentStages, ChildStages
    <2>2. Stores(d, r) /\ GoesOn(d, "driving", r) /\ auto' = auto /\ djob[d].at = "linking"
      BY <1>3 DEF LinkChild
    <2>3. DelegationTypeOK'
      BY <2>1, <2>2, StoresType DEF DelegationInv, GoesOn, DelegationTypeOK, Positions
    <2>4. ASSUME ~dpast'.raced PROVE Consistent'
      <3>1. djob[d].copy = par /\ ~dpast.raced /\ dpast'.own = dpast.own /\ par' = r /\ Consistent
        BY <2>2, <2>4, StoresCurrent DEF DelegationInv
      <3>2. par'.decided /\ par'.child /\ par'.target = par.target /\ auto.made
        BY <2>2, <3>1 DEF DelegationInv, DelegationTypeOK, RunRecord, Consistent
      <3>3. djob' = [djob EXCEPT ![d] = [at |-> "driving", copy |-> r]] /\ auto' = auto
        BY <2>2 DEF GoesOn
      <3>4. par.target # "none" /\ ~Stays /\ ~Stays'
        BY <3>1, <3>2 DEF Consistent, Stays
      <3>5. QED BY <3>1, <3>2, <3>3, <3>4 DEF DelegationInv, DelegationTypeOK, Consistent
    <2>5. QED BY <2>3, <2>4 DEF DelegationInv
  <1>4. CASE DriveChild(d)
    <2>1. /\ auto' \in [made : BOOLEAN, planned : BOOLEAN, stage : ChildStages, acts : Nat, diff : BOOLEAN]
          /\ auto'.made = auto.made
      <3>1. CASE auto.stage # "working"
        BY <1>4, <3>1 DEF DriveChild, DelegationInv, DelegationTypeOK
      <3>2. CASE auto.acts < ChildActs - 1 /\ auto' = [auto EXCEPT !.acts = @ + 1]
        BY <3>2 DEF DelegationInv, DelegationTypeOK
      <3>3. ASSUME auto' = [auto EXCEPT !.stage = "halted", !.acts = IF @ < ChildActs THEN @ + 1 ELSE @]
            PROVE  /\ auto' \in [made : BOOLEAN, planned : BOOLEAN, stage : ChildStages, acts : Nat, diff : BOOLEAN]
                   /\ auto'.made = auto.made
        <4> DEFINE n == IF auto.acts < ChildActs THEN auto.acts + 1 ELSE auto.acts
        <4>1. n \in Nat /\ auto' = [auto EXCEPT !.stage = "halted", !.acts = n]
          BY <3>3 DEF DelegationInv, DelegationTypeOK
        <4> HIDE DEF n
        <4>2. QED BY <4>1 DEF DelegationInv, DelegationTypeOK, ChildStages
      <3>4. ASSUME NEW diff \in BOOLEAN, auto' = [auto EXCEPT !.stage = "done", !.acts = @ + 1, !.diff = diff]
            PROVE  /\ auto' \in [made : BOOLEAN, planned : BOOLEAN, stage : ChildStages, acts : Nat, diff : BOOLEAN]
                   /\ auto'.made = auto.made
        <4> DEFINE n == auto.acts + 1
        <4>1. n \in Nat /\ auto' = [auto EXCEPT !.stage = "done", !.acts = n, !.diff = diff]
          BY <3>4 DEF DelegationInv, DelegationTypeOK
        <4> HIDE DEF n
        <4>2. QED BY <4>1 DEF DelegationInv, DelegationTypeOK, ChildStages
      <3>5. QED BY <1>4, <3>1, <3>2, <3>3, <3>4, Zenon DEF DriveChild
    <2>2. djob' = [djob EXCEPT ![d] = IF auto'.stage = "working" THEN AtEase ELSE [@ EXCEPT !.at = "adopting"]]
      BY <1>4, Zenon DEF DriveChild
    <2>3. UNCHANGED <<par, dpast>>
      BY <1>4, Zenon DEF DriveChild
    <2>4. DelegationTypeOK'
      BY <2>1, <2>2, <2>3 DEF DelegationInv, DelegationTypeOK, AtEase, Undecided, RunRecord, ParentStages, ChildStages, Positions
    <2>5. ASSUME Consistent PROVE Consistent'
      BY <2>1, <2>2, <2>3, <2>5 DEF DelegationInv, DelegationTypeOK, Consistent, Stays, AtEase
    <2>6. QED BY <2>3, <2>4, <2>5 DEF DelegationInv
  <1>5. CASE AdoptChild(d)
    <2>1. CASE auto.stage = "done"
      <3> DEFINE c == djob[d].copy
      <3> DEFINE r == [c EXCEPT !.counted = @ + auto.acts, !.diff = @ \/ auto.diff,
                                !.stage = IF c.diff \/ auto.diff THEN "verifying" ELSE "done"]
      <3> DEFINE n == c.counted + auto.acts
      <3>0. n \in Nat /\ c \in RunRecord /\ auto.diff \in BOOLEAN
        BY DEF DelegationInv, DelegationTypeOK, RunRecord, ParentStages, ChildStages
      <3> HIDE DEF n
      <3>1. r \in RunRecord
        <4>1. r = [c EXCEPT !.counted = n, !.diff = @ \/ auto.diff,
                            !.stage = IF c.diff \/ auto.diff THEN "verifying" ELSE "done"]
          BY DEF n
        <4> HIDE DEF r, c
        <4>2. QED BY <3>0, <4>1 DEF RunRecord, ParentStages
      <3>2. Stores(d, r) /\ Stops(d) /\ auto' = auto
        BY <1>5, <2>1 DEF AdoptChild
      <3>3. DelegationTypeOK'
        BY ZenonT(60), <3>1, <3>2, StoresType DEF DelegationInv, Stops, DelegationTypeOK, AtEase, Undecided, RunRecord, ParentStages, ChildStages, Positions
      <3>4. ASSUME ~dpast'.raced PROVE Consistent'
        <4>1. djob[d].copy = par /\ ~dpast.raced /\ dpast'.own = dpast.own /\ par' = r /\ Consistent
          BY <3>2, <3>4, StoresCurrent DEF DelegationInv
        <4>2. par'.decided = par.decided /\ par'.child = par.child /\ par'.target = par.target
          BY <3>0, <4>1 DEF RunRecord
        <4>3. djob' = [djob EXCEPT ![d] = AtEase] /\ auto' = auto
          BY <3>2 DEF Stops
        <4>4. QED BY <4>1, <4>2, <4>3 DEF DelegationInv, DelegationTypeOK, Consistent, Stays, AtEase
      <3>5. QED BY <3>3, <3>4 DEF DelegationInv
    <2>2. CASE auto.stage = "halted"
      BY <1>5, <2>2, HaltsKeeps DEF AdoptChild, ParentStages
    <2>3. CASE auto.stage \notin {"done", "halted"}
      <3>1. djob' = [djob EXCEPT ![d] = AtEase] /\ UNCHANGED <<par, auto, dpast>>
        BY <1>5, <2>3 DEF AdoptChild, Stops
      <3>2. DelegationTypeOK'
        BY <3>1 DEF DelegationInv, DelegationTypeOK, AtEase, Undecided, RunRecord, ParentStages, Positions
      <3>3. ASSUME Consistent PROVE Consistent'
        BY <3>1, <3>3 DEF DelegationInv, DelegationTypeOK, Consistent, Stays, AtEase
      <3>4. QED BY <3>1, <3>2, <3>3 DEF DelegationInv
    <2>4. QED BY <2>1, <2>2, <2>3
  <1>6. QED BY <1>1, <1>2, <1>3, <1>4, <1>5

LEMMA OwnKeeps ==
    ASSUME DelegationInv, NEW d \in Delegates, ImplementInParent(d) \/ DelegateDies(d)
    PROVE  DelegationInv'
  <1> USE DEF Stops, AtEase
  <1>0. AtEase \in [at : Positions, copy : RunRecord]
    BY DEF Undecided, RunRecord, ParentStages, Positions
  <1>1. CASE ImplementInParent(d)
    <2>1. /\ djob' = [djob EXCEPT ![d] = AtEase] /\ auto' = auto /\ djob[d].at = "own"
          /\ \/ UNCHANGED <<par, dpast>>
             \/ /\ par' = [par EXCEPT !.stage = "verifying", !.diff = TRUE]
                /\ dpast' = [dpast EXCEPT !.own = TRUE]
      BY <1>1 DEF ImplementInParent
    <2>2. DelegationTypeOK'
      BY ZenonT(60), <1>0, <2>1 DEF DelegationInv, DelegationTypeOK, RunRecord, ParentStages
    <2>3. /\ par'.decided = par.decided /\ par'.child = par.child /\ par'.target = par.target
          /\ dpast'.raced = dpast.raced
      BY <2>1 DEF DelegationInv, DelegationTypeOK, RunRecord
    <2>4. ASSUME Consistent PROVE Consistent'
      BY <2>1, <2>3, <2>4 DEF DelegationInv, DelegationTypeOK, Consistent, Stays
    <2>5. QED BY <2>2, <2>3, <2>4 DEF DelegationInv
  <1>2. CASE DelegateDies(d)
    <2>1. /\ djob' = [djob EXCEPT ![d] = AtEase] /\ UNCHANGED <<par, auto>>
          /\ dpast' = [dpast EXCEPT !.crashed = @ + 1]
      BY <1>2 DEF DelegateDies
    <2>2. DelegationTypeOK'
      BY <1>0, <2>1 DEF DelegationInv, DelegationTypeOK
    <2>3. ASSUME Consistent PROVE Consistent'
      BY <2>1, <2>3 DEF DelegationInv, DelegationTypeOK, Consistent, Stays
    <2>4. QED BY <2>1, <2>2, <2>3 DEF DelegationInv, DelegationTypeOK
  <1>3. QED BY <1>1, <1>2

LEMMA OutsideKeeps ==
    ASSUME DelegationInv, (\E ok \in BOOLEAN : JudgeCandidate(ok)) \/ ResumeChild \/ ResumeParent
    PROVE  DelegationInv'
  <1> USE DEF DelegationInv, DelegationTypeOK, Consistent, Stays, RunRecord, ParentStages, ChildStages
  <1>1. ASSUME NEW ok \in BOOLEAN, JudgeCandidate(ok) PROVE DelegationInv'
    BY <1>1 DEF JudgeCandidate
  <1>2. CASE ResumeChild
    BY <1>2 DEF ResumeChild
  <1>3. CASE ResumeParent
    BY <1>3 DEF ResumeParent
  <1>4. QED BY <1>1, <1>2, <1>3

LEMMA DelegationStep == DelegationInv /\ [DelegationNext]_delegationVars => DelegationInv'
  <1> SUFFICES ASSUME DelegationInv, [DelegationNext]_delegationVars PROVE DelegationInv'
    OBVIOUS
  <1>1. CASE UNCHANGED delegationVars
    BY <1>1 DEF delegationVars, DelegationInv, DelegationTypeOK, Consistent, Stays
  <1>2. CASE DelegationNext
    BY <1>2, DecideKeeps, ChildKeeps, OwnKeeps, OutsideKeeps DEF DelegationNext
  <1>3. QED BY <1>1, <1>2

\* sdlcDelegate and continueDelegation: the parent and a child never both implement a
\* plan, unless a driver wrote its copy of run.json over a newer one.
THEOREM NeverBoth == DelegationSpec => []OneImplementer
  <1>1. DelegationInv => OneImplementer
    BY DEF DelegationInv, DelegationTypeOK, Consistent, Stays, OneImplementer, RunRecord
  <1>2. QED BY DelegationStart, DelegationStep, <1>1, PTL DEF DelegationSpec
-----------------------------------------------------------------------------
(***************************************************************************)
(* Authored workflows: the invariant of a run, its child and its drivers.  *)
(***************************************************************************)

FlowStages ==
    {"", "planning", "implementing", "assessing", "verifying", "question", "spawn", "halted", "done"}

FlowOutcomes ==
    {"", "planning", "implementing", "assessing", "driver-failed", "steps", "child-budget", "child-plan",
     "workflow-target-repeated", "workflow-depth-exhausted", "workflow-start-failed",
     "assessment-without-diff", "workflow-paused", "succeeded", "paused", "aborted"}

FlowPhases == FlowStages \ {"halted"}

\* What may be saved: an answer, or none.
RouteAnswers == UNION {DOMAIN Routes[s] : s \in Stages}
WorkAnswers == UNION {Required(k) : k \in WorkKinds \cup {"spawn"}}
FlowAnswers == RouteAnswers \cup WorkAnswers
Pendings == FlowAnswers \cup {""}

FlowRecord ==
    [cur : Stages, steps : Nat, pending : Pendings, child : BOOLEAN, taken : Nat,
     spawned : BOOLEAN, adopted : Nat, diff : BOOLEAN, stage : FlowStages, outcome : FlowOutcomes,
     phase : FlowPhases]

KidEnds == {"succeeded", "aborted", "failed"}

KidRecord ==
    [made : BOOLEAN, stage : {"none", "working", "budget", "plan"} \cup KidEnds, left : Nat, acts : Nat]

Holding == {"paying", "taking", "creating", "linking"}
JobAts == Holding \cup {"rest", "driving", "adopting"}
Jobs == [at : JobAts, flow : SUBSET FlowRecord, kid : SUBSET KidRecord, time : BOOLEAN]

FlowTypeOK ==
    /\ flow \in FlowRecord
    /\ kid \in KidRecord
    /\ bill \in [paid : SUBSET Nat, steps : Nat, grant : Nat, child : BOOLEAN]
    /\ fjob \in [FlowDrivers -> Jobs]
    /\ fpast \in [crashes : Nat, untimed : BOOLEAN, other : BOOLEAN, twice : BOOLEAN]

\* One driver at a time is inside a section that is several writes, and its copy of
\* run.json is what is on disk.
LockHeld ==
    /\ \A d, e \in FlowDrivers : fjob[d].at \in Holding /\ fjob[e].at \in Holding => d = e
    /\ \A d \in FlowDrivers : fjob[d].at \in Holding => fjob[d].flow = {flow}
    /\ \A d \in FlowDrivers :
         /\ fjob[d].at \in {"paying", "taking"} => flow.pending # "" /\ flow.stage # "halted"
         /\ fjob[d].at = "taking" => StepId(flow) \in bill.paid
         /\ fjob[d].at \in {"creating", "linking"} =>
              flow.pending = "" /\ flow.stage = "spawn" /\ ~flow.child /\ ~flow.spawned
         /\ fjob[d].at = "creating" => ~kid.made
         /\ fjob[d].at \in {"linking", "driving"} => kid.made

\* Where a run with a linked child may be; a stage that stopped is kept while it is stopped.
Placed(f) ==
    /\ f.stage # "halted" \/ f.outcome \in WorkStages => f.phase = ""
    /\ f.child => /\ f.stage \in {"spawn", "halted", ""} /\ f.phase \in {"", "spawn"}
                  /\ f.stage = "halted" => f.outcome \notin WorkStages

Linked == Placed(flow) /\ (flow.child => kid.made /\ ~flow.spawned)

\* Who else holds the end of a child that was adopted already.
Rivals ==
    flow.pending # "" /\ flow.child /\ (\E d \in FlowDrivers : fjob[d].at \in {"driving", "adopting"})
        => fpast.other

\* What is paid: the transitions that were taken, and perhaps the one that is saved.
PaidUpTo ==
    /\ bill.paid \subseteq 1 .. StepId(flow)
    /\ StepId(flow) \in bill.paid => flow.pending # "" /\ bill.steps = flow.taken + 1
    /\ StepId(flow) \notin bill.paid => bill.steps = flow.taken

\* A driver that adopts holds the child as it is, unless it waits for the operator.
EndsKnown ==
    /\ ~kid.made => kid = Nobody
    /\ kid.made => kid.stage # "none"
    /\ \A d \in FlowDrivers : fjob[d].at = "adopting" =>
         \A k \in fjob[d].kid : k.stage \in {"budget", "plan"} \/ (k = kid /\ kid.stage \in KidEnds)

AdoptedOnce ==
    flow.adopted # 0 =>
        /\ flow.spawned \/ (flow.child /\ flow.pending # "")
        /\ kid.stage \in KidEnds /\ flow.adopted = kid.acts

FlowInv ==
    /\ FlowTypeOK /\ LockHeld /\ Linked /\ Rivals /\ EndsKnown
    /\ fpast.twice \/ (PaidUpTo /\ AdoptedOnce)
-----------------------------------------------------------------------------
\* What the operators that move a run change, and what they leave.

FlowKept(f, g) ==
    /\ g.steps = f.steps /\ g.pending = f.pending /\ g.child = f.child
    /\ g.taken = f.taken /\ g.spawned = f.spawned /\ g.adopted = f.adopted

\* A stage that stopped for something else than its role.
NoRetry(f) == f.stage = "halted" => f.outcome \notin WorkStages

EnteredWell(f, g) == FlowKept(f, g) /\ g.phase = f.phase /\ NoRetry(g)

Staged(f, x) == [f EXCEPT !.stage = x]
Ended(f, x, y) == [f EXCEPT !.stage = x, !.outcome = y]
Arrived(f, s) == [f EXCEPT !.cur = s, !.outcome = ""]
Stopping(f, p, reason) == [f EXCEPT !.phase = p, !.stage = "halted", !.outcome = reason]
Moving(f) ==
    [f EXCEPT !.pending = "", !.steps = f.steps + 1, !.taken = f.taken + 1, !.child = FALSE,
              !.spawned = f.spawned \/ f.child]

LEMMA FlowStrings ==
    /\ "" \in FlowOutcomes /\ "" \in Pendings /\ "" \in FlowPhases
    /\ FlowPhases \subseteq FlowStages /\ "halted" \notin FlowPhases /\ "halted" \in FlowStages
    /\ WorkStages \subseteq FlowOutcomes /\ WorkStages \subseteq FlowPhases
  BY Zenon DEF FlowOutcomes, FlowStages, FlowPhases, Pendings, WorkStages

LEMMA Worked ==
    /\ {"planning", "implementing", "assessing", "question", "spawn", "done"} \subseteq FlowPhases
    /\ "done" \in FlowStages /\ "halted" \in FlowStages /\ "done" # "halted"
    /\ "succeeded" \in FlowOutcomes /\ "aborted" \in FlowOutcomes
    /\ "assessment-without-diff" \in FlowOutcomes \ WorkStages
    /\ "workflow-paused" \in FlowOutcomes \ WorkStages
  BY DEF FlowOutcomes, FlowStages, FlowPhases, WorkStages

LEMMA StagedFields ==
    ASSUME NEW f \in FlowRecord, NEW x \in FlowStages
    PROVE  /\ Staged(f, x) \in FlowRecord /\ FlowKept(f, Staged(f, x))
           /\ Staged(f, x).phase = f.phase /\ Staged(f, x).stage = x
           /\ Staged(f, x).outcome = f.outcome
<1>1. Staged(f, x) \in FlowRecord
  BY Zenon DEF FlowRecord, Staged
<1>2. FlowKept(f, Staged(f, x)) /\ Staged(f, x).phase = f.phase /\ Staged(f, x).stage = x
      /\ Staged(f, x).outcome = f.outcome
  BY DEF FlowRecord, FlowKept, Staged
<1> QED
  BY <1>1, <1>2

LEMMA EndedFields ==
    ASSUME NEW f \in FlowRecord, NEW x \in FlowStages, NEW y \in FlowOutcomes
    PROVE  /\ Ended(f, x, y) \in FlowRecord /\ FlowKept(f, Ended(f, x, y))
           /\ Ended(f, x, y).phase = f.phase /\ Ended(f, x, y).stage = x
           /\ Ended(f, x, y).outcome = y
<1>1. Ended(f, x, y) \in FlowRecord
  BY Zenon DEF FlowRecord, Ended
<1>2. FlowKept(f, Ended(f, x, y)) /\ Ended(f, x, y).phase = f.phase /\ Ended(f, x, y).stage = x
      /\ Ended(f, x, y).outcome = y
  BY DEF FlowRecord, FlowKept, Ended
<1> QED
  BY <1>1, <1>2

LEMMA ArrivedFields ==
    ASSUME NEW f \in FlowRecord, NEW s \in Stages
    PROVE  /\ Arrived(f, s) \in FlowRecord /\ FlowKept(f, Arrived(f, s))
           /\ Arrived(f, s).phase = f.phase
<1>1. Arrived(f, s) \in FlowRecord
  <2>1. "" \in FlowOutcomes
    BY FlowStrings, Zenon
  <2> QED
    BY <2>1, Zenon DEF FlowRecord, Arrived
<1>2. FlowKept(f, Arrived(f, s)) /\ Arrived(f, s).phase = f.phase
  BY DEF FlowRecord, FlowKept, Arrived
<1> QED
  BY <1>1, <1>2

LEMMA StagedWell ==
    ASSUME NEW f \in FlowRecord, NEW at \in FlowRecord, FlowKept(f, at), at.phase = f.phase,
           NEW x \in FlowPhases
    PROVE  Staged(at, x) \in FlowRecord /\ EnteredWell(f, Staged(at, x))
<1>1. x \in FlowStages /\ x # "halted"
  BY FlowStrings, Zenon
<1>2. /\ Staged(at, x) \in FlowRecord /\ FlowKept(at, Staged(at, x))
      /\ Staged(at, x).phase = at.phase /\ Staged(at, x).stage = x
  BY <1>1, StagedFields
<1>3. FlowKept(f, Staged(at, x)) /\ Staged(at, x).phase = f.phase
  BY <1>2, Zenon DEF FlowKept
<1>4. NoRetry(Staged(at, x))
  BY <1>1, <1>2, Zenon DEF NoRetry
<1> QED
  BY <1>2, <1>3, <1>4, Zenon DEF EnteredWell

LEMMA EndedWell ==
    ASSUME NEW f \in FlowRecord, NEW at \in FlowRecord, FlowKept(f, at), at.phase = f.phase,
           NEW x \in FlowStages, NEW y \in FlowOutcomes, x = "halted" => y \notin WorkStages
    PROVE  Ended(at, x, y) \in FlowRecord /\ EnteredWell(f, Ended(at, x, y))
<1>2. /\ Ended(at, x, y) \in FlowRecord /\ FlowKept(at, Ended(at, x, y))
      /\ Ended(at, x, y).phase = at.phase /\ Ended(at, x, y).stage = x
      /\ Ended(at, x, y).outcome = y
  BY ZenonT(60), EndedFields
<1>3. FlowKept(f, Ended(at, x, y)) /\ Ended(at, x, y).phase = f.phase
  BY <1>2, Zenon DEF FlowKept
<1>4. NoRetry(Ended(at, x, y))
  BY <1>2, Zenon DEF NoRetry
<1> QED
  BY <1>2, <1>3, <1>4, Zenon DEF EnteredWell

LEMMA EnteredFields ==
    ASSUME FlowConstants, NEW f \in FlowRecord, NEW s \in Stages
    PROVE  Entered(f, s) \in FlowRecord /\ EnteredWell(f, Entered(f, s))
<1>1. KindOf[s] \in StageKinds
  BY DEF FlowConstants
<1>2. PICK at \in FlowRecord : at = Arrived(f, s)
  BY ArrivedFields
<1>3. FlowKept(f, at) /\ at.phase = f.phase
  BY <1>2, ArrivedFields, Zenon
<1>7. \/ \E x \in FlowPhases : Entered(f, s) = Staged(at, x)
      \/ \E x \in FlowStages, y \in FlowOutcomes :
           Entered(f, s) = Ended(at, x, y) /\ (x = "halted" => y \notin WorkStages)
  <2>1. CASE KindOf[s] = "planner"
    <3>1. Entered(f, s) = Staged(at, "planning")
      BY <1>2, <2>1 DEF Entered, Arrived, Staged
    <3> QED
      BY <3>1, Worked
  <2>2. CASE KindOf[s] = "implementer"
    <3>1. Entered(f, s) = Staged(at, "implementing")
      BY <1>2, <2>2 DEF Entered, Arrived, Staged
    <3> QED
      BY <3>1, Worked
  <2>3. CASE KindOf[s] = "assessor" /\ f.diff
    <3>1. Entered(f, s) = Staged(at, "assessing")
      BY <1>2, <2>3 DEF Entered, Arrived, Staged
    <3> QED
      BY <3>1, Worked
  <2>4. CASE KindOf[s] = "assessor" /\ ~f.diff
    <3>1. Entered(f, s) = Ended(at, "halted", "assessment-without-diff")
      BY <1>2, <2>4 DEF Entered, Arrived, Ended
    <3> QED
      BY <3>1, Worked
  <2>5. CASE KindOf[s] \in {"question", "spawn"}
    <3>1. Entered(f, s) = Staged(at, KindOf[s])
      BY <1>2, <2>5 DEF Entered, Arrived, Staged
    <3>2. KindOf[s] \in FlowPhases
      BY <2>5, Worked
    <3> QED
      BY <3>1, <3>2
  <2>6. CASE KindOf[s] = "paused"
    <3>1. Entered(f, s) = Ended(at, "halted", "workflow-paused")
      BY <1>2, <2>6 DEF Entered, Arrived, Ended
    <3> QED
      BY <3>1, Worked
  <2>7. CASE KindOf[s] \in {"succeeded", "aborted"}
    <3>1. Entered(f, s) = Ended(at, "done", KindOf[s])
      BY <1>2, <2>7 DEF Entered, Arrived, Ended
    <3>2. KindOf[s] \in FlowOutcomes
      BY <2>7, Worked
    <3> QED
      BY <3>1, <3>2, Worked
  <2> QED
    BY <1>1, <2>1, <2>2, <2>3, <2>4, <2>5, <2>6, <2>7 DEF StageKinds, WorkKinds, FinishKinds
<1>8. CASE \E x \in FlowPhases : Entered(f, s) = Staged(at, x)
  <2>1. PICK x \in FlowPhases : Entered(f, s) = Staged(at, x)
    BY <1>8
  <2>2. Staged(at, x) \in FlowRecord /\ EnteredWell(f, Staged(at, x))
    BY <1>3, StagedWell, Zenon
  <2> QED
    BY ZenonT(60), <2>1, <2>2
<1>9. CASE \E x \in FlowStages, y \in FlowOutcomes :
             Entered(f, s) = Ended(at, x, y) /\ (x = "halted" => y \notin WorkStages)
  <2>1. PICK x \in FlowStages, y \in FlowOutcomes :
          Entered(f, s) = Ended(at, x, y) /\ (x = "halted" => y \notin WorkStages)
    BY <1>9
  <2>2. Ended(at, x, y) \in FlowRecord /\ EnteredWell(f, Ended(at, x, y))
    BY <1>3, <2>1, EndedWell, Zenon
  <2> QED
    BY ZenonT(60), <2>1, <2>2
<1> QED
  BY <1>7, <1>8, <1>9, Zenon

LEMMA StoppingFields ==
    ASSUME NEW f \in FlowRecord, NEW p \in FlowPhases, NEW reason \in FlowOutcomes
    PROVE  /\ Stopping(f, p, reason) \in FlowRecord /\ FlowKept(f, Stopping(f, p, reason))
           /\ Stopping(f, p, reason).stage = "halted" /\ Stopping(f, p, reason).outcome = reason
           /\ Stopping(f, p, reason).phase = p
<1>5. "halted" \in FlowStages
  BY DEF FlowStages
<1>6. Stopping(f, p, reason) \in FlowRecord
  BY <1>5, Zenon DEF FlowRecord, Stopping
<1>7. /\ FlowKept(f, Stopping(f, p, reason)) /\ Stopping(f, p, reason).phase = p
      /\ Stopping(f, p, reason).stage = "halted" /\ Stopping(f, p, reason).outcome = reason
  BY DEF FlowRecord, FlowKept, Stopping
<1> QED
  BY <1>6, <1>7

LEMMA StoppedFields ==
    ASSUME NEW f \in FlowRecord, NEW reason \in FlowOutcomes
    PROVE  /\ Stopped(f, reason) \in FlowRecord /\ FlowKept(f, Stopped(f, reason))
           /\ Stopped(f, reason).stage = "halted" /\ Stopped(f, reason).outcome = reason
           /\ Stopped(f, reason).phase = IF reason \in {"steps", "child-budget"} /\ f.stage # "halted"
                                         THEN f.stage ELSE f.phase
<1>1. (IF reason \in {"steps", "child-budget"} /\ f.stage # "halted" THEN f.stage ELSE f.phase) \in FlowPhases
  BY DEF FlowRecord, FlowPhases
<1>3. PICK q \in FlowPhases :
        q = IF reason \in {"steps", "child-budget"} /\ f.stage # "halted" THEN f.stage ELSE f.phase
  BY <1>1
<1>2. Stopped(f, reason) = Stopping(f, q, reason)
  BY <1>3, Zenon DEF Stopped, Stopping
<1> QED
  BY <1>2, <1>3, StoppingFields

\* A transition taken: where the run is in its workflow, in what concerns its child.
MovedOn(f, g) ==
    /\ g.steps = f.steps + 1 /\ g.taken = f.taken + 1 /\ g.pending = "" /\ g.child = FALSE
    /\ g.spawned = (f.spawned \/ f.child) /\ g.adopted = f.adopted

LEMMA Counts == ASSUME NEW f \in FlowRecord PROVE f.steps + 1 \in Nat /\ f.taken + 1 \in Nat
  BY DEF FlowRecord

LEMMA MovingFields ==
    ASSUME NEW f \in FlowRecord
    PROVE  Moving(f) \in FlowRecord /\ MovedOn(f, Moving(f)) /\ Moving(f).phase = f.phase
<1>1. f.steps + 1 \in Nat /\ f.taken + 1 \in Nat
  BY Counts
<1>2. (f.spawned \/ f.child) \in BOOLEAN
  OBVIOUS
<1>3. "" \in Pendings /\ FALSE \in BOOLEAN
  BY FlowStrings, Zenon
<1>4. Moving(f) \in FlowRecord
  BY <1>1, <1>2, <1>3, Zenon DEF FlowRecord, Moving
<1>5. MovedOn(f, Moving(f)) /\ Moving(f).phase = f.phase
  BY Zenon DEF FlowRecord, Moving, MovedOn
<1> QED
  BY <1>4, <1>5

LEMMA AdvancedFields ==
    ASSUME FlowConstants, NEW f \in FlowRecord, NEW s \in Stages, f.phase = ""
    PROVE  Advanced(f, s) \in FlowRecord /\ Placed(Advanced(f, s)) /\ MovedOn(f, Advanced(f, s))
<1>3. Advanced(f, s) = Entered(Moving(f), s)
  BY Zenon DEF Advanced, Moving
<1>4. PICK g : g = Moving(f)
  OBVIOUS
<1>5. g \in FlowRecord /\ MovedOn(f, g) /\ g.phase = ""
  BY <1>4, MovingFields, Zenon
<1>6. Entered(g, s) \in FlowRecord /\ EnteredWell(g, Entered(g, s))
  BY <1>5, EnteredFields, Zenon
<1>7. PICK h \in FlowRecord : h = Entered(g, s)
  BY <1>6, Zenon
<1>8. EnteredWell(g, h)
  BY <1>6, <1>7, Zenon
<1>9. MovedOn(f, h)
  BY <1>5, <1>8, Zenon DEF MovedOn, EnteredWell, FlowKept
<1>10. h.phase = "" /\ h.child = FALSE /\ NoRetry(h)
  BY <1>5, <1>8, Zenon DEF MovedOn, EnteredWell, FlowKept
<1>11. Placed(h)
  BY <1>10, Zenon DEF Placed
<1>12. Advanced(f, s) = h
  BY <1>3, <1>4, <1>7, Zenon
<1>13. Advanced(f, s) \in FlowRecord
  BY <1>7, <1>12, Zenon
<1>14. Placed(Advanced(f, s))
  BY <1>11, <1>12, Zenon
<1>15. MovedOn(f, Advanced(f, s))
  BY <1>9, <1>12, Zenon
<1> QED
  BY <1>13, <1>14, <1>15, Zenon

\* A stop leaves a run where Placed wants it, unless it is one of a role's failure
\* or of a child's end.
LEMMA StoppedPlaced ==
    ASSUME NEW f \in FlowRecord, NEW reason \in FlowOutcomes \ WorkStages, Placed(f)
    PROVE  Placed(Stopped(f, reason))
<1>0. PICK g : g = Stopped(f, reason)
  OBVIOUS
<1>1. /\ g.child = f.child /\ g.stage = "halted" /\ g.outcome = reason
      /\ g.phase = f.phase \/ (g.phase = f.stage /\ f.stage # "halted")
  BY <1>0, StoppedFields DEF FlowKept
<1>2. f.stage # "halted" => f.phase = ""
  BY Zenon DEF Placed
<1>3. f.child => g.phase \in {"", "spawn"}
  BY <1>1, <1>2, Zenon DEF Placed
<1>4. Placed(g)
  BY <1>1, <1>3, Zenon DEF Placed
<1> QED
  BY <1>0, <1>4

LEMMA FailedFields ==
    ASSUME NEW f \in FlowRecord, Placed(f)
    PROVE  DriveFailed(f) \in FlowRecord /\ FlowKept(f, DriveFailed(f)) /\ Placed(DriveFailed(f))
<1>1. CASE f.stage \in {"halted", "done"}
  BY <1>1 DEF DriveFailed, FlowKept
<1>2. CASE f.stage \in WorkStages
  <2>1. DriveFailed(f) = Stopped(f, f.stage) /\ f.stage \in FlowOutcomes /\ f.phase = "" /\ ~f.child
    BY <1>2, Zenon DEF DriveFailed, WorkStages, FlowOutcomes, Placed, FlowRecord
  <2>2. PICK g : g = Stopped(f, f.stage)
    OBVIOUS
  <2>3. g \in FlowRecord /\ FlowKept(f, g) /\ g.phase = "" /\ ~g.child
    <3>1. f.stage \notin {"steps", "child-budget"}
      BY <1>2 DEF WorkStages
    <3>2. g \in FlowRecord /\ FlowKept(f, g) /\ g.phase = f.phase
      BY <2>1, <2>2, <3>1, StoppedFields, Zenon
    <3> QED
      BY <2>1, <3>2, Zenon DEF FlowKept
  <2> QED
    BY <2>1, <2>2, <2>3, Zenon DEF Placed
<1>3. CASE f.stage \notin {"halted", "done"} \cup WorkStages
  <2>1. DriveFailed(f) = Stopped(f, "driver-failed") /\ "driver-failed" \in FlowOutcomes \ WorkStages
    BY <1>3 DEF DriveFailed, FlowOutcomes, WorkStages
  <2> QED
    BY <2>1, StoppedFields, StoppedPlaced
<1> QED
  BY <1>1, <1>2, <1>3
-----------------------------------------------------------------------------
\* Steps that only move the run, or pay nothing, and steps that save an answer.


\* The operator reopens a child that waits for it.
KidStays ==
    \/ kid' = kid
    \/ kid.stage \in {"budget", "plan"} /\ kid'.stage = "working" /\ kid'.made = kid.made

KidHolds == kid'.made = kid.made /\ (kid.stage \in KidEnds => kid' = kid)

Unpaid == bill'.paid = bill.paid /\ bill'.steps = bill.steps

NothingPast == fpast'.other = fpast.other /\ fpast'.twice = fpast.twice

LEMMA KidStaysHolds == KidStays => KidHolds
  BY DEF KidStays, KidHolds, KidEnds

LEMMA EndsKept ==
    ASSUME EndsKnown, KidStays, KidHolds,
           \A e \in FlowDrivers : fjob'[e] = fjob[e] \/ fjob'[e].at # "adopting"
    PROVE  EndsKnown'
  BY DEF EndsKnown, KidStays, KidHolds, Nobody

\* All is kept but the saved answer.
FlowSaved(f, g) ==
    /\ g.steps = f.steps /\ g.child = f.child /\ g.taken = f.taken
    /\ g.spawned = f.spawned /\ g.adopted = f.adopted

LEMMA KeptSaved == ASSUME NEW f, NEW g, FlowKept(f, g) PROVE FlowSaved(f, g) /\ g.pending = f.pending
  BY DEF FlowSaved, FlowKept

LEMMA SavedOnce ==
    ASSUME AdoptedOnce, FlowSaved(flow, flow'), KidHolds,
           flow.pending # "" => flow'.pending # ""
    PROVE  AdoptedOnce'
  BY Zenon DEF AdoptedOnce, FlowSaved, KidHolds

LEMMA MoveKeeps ==
    ASSUME FlowInv, FlowTypeOK', FlowKept(flow, flow'), Placed(flow'), KidStays, Unpaid, NothingPast,
           \A e \in FlowDrivers : fjob'[e] = fjob[e] \/ fjob'[e].at = "rest",
           \A e \in FlowDrivers : fjob'[e].at \notin Holding
    PROVE  FlowInv'
<1>p. /\ LockHeld /\ Linked /\ Rivals /\ EndsKnown
      /\ ~fpast.twice => PaidUpTo /\ AdoptedOnce
  BY DEF FlowInv
<1>1. KidHolds
  BY KidStaysHolds
<1>2. LockHeld'
  BY <1>p, <1>1, Zenon DEF LockHeld, Holding, KidHolds
<1>3. Linked'
  BY <1>p, <1>1 DEF Linked, FlowKept, KidHolds
<1>4. Rivals'
  BY <1>p, Zenon DEF Rivals, FlowKept, NothingPast
<1>5. EndsKnown'
  BY <1>p, <1>1, EndsKept
<1>6. fpast'.twice \/ (PaidUpTo' /\ AdoptedOnce')
  <2>1. SUFFICES ASSUME ~fpast.twice PROVE PaidUpTo' /\ AdoptedOnce'
    BY DEF NothingPast
  <2>2. PaidUpTo'
    BY <1>p, <2>1, Zenon DEF PaidUpTo, FlowKept, Unpaid, StepId
  <2>3. AdoptedOnce'
    BY <1>p, <2>1, <1>1, SavedOnce, KeptSaved, Zenon
  <2> QED
    BY <2>2, <2>3
<1> QED
  BY <1>2, <1>3, <1>4, <1>5, <1>6 DEF FlowInv

FlowAt(f, g) == g.stage = f.stage /\ g.outcome = f.outcome /\ g.phase = f.phase

LEMMA SavedFields ==
    ASSUME NEW f \in FlowRecord, NEW a \in FlowAnswers
    PROVE  /\ SavedAnswer(f, a) \in FlowRecord /\ SavedAnswer(f, a).pending = a
           /\ FlowSaved(f, SavedAnswer(f, a)) /\ FlowAt(f, SavedAnswer(f, a))
<1>1. SavedAnswer(f, a) \in FlowRecord
  BY Zenon DEF FlowRecord, Pendings, SavedAnswer
<1>2. /\ SavedAnswer(f, a).pending = a
      /\ FlowSaved(f, SavedAnswer(f, a)) /\ FlowAt(f, SavedAnswer(f, a))
  BY DEF FlowRecord, SavedAnswer, FlowSaved, FlowAt
<1> QED
  BY <1>1, <1>2

LEMMA JobIn ==
    ASSUME NEW a \in JobAts, NEW F \in SUBSET FlowRecord, NEW K \in SUBSET KidRecord, NEW t \in BOOLEAN
    PROVE  [at |-> a, flow |-> F, kid |-> K, time |-> t] \in Jobs
  BY DEF Jobs

LEMMA PayingJob ==
    ASSUME NEW f \in FlowRecord, NEW j, j = [AtRest EXCEPT !.at = "paying", !.flow = {f}]
    PROVE  j \in Jobs /\ j.at = "paying" /\ j.flow = {f}
<1>1. j = [at |-> "paying", flow |-> {f}, kid |-> {}, time |-> FALSE]
  BY DEF AtRest
<1>2. j \in Jobs
  <2>1. "paying" \in JobAts
    BY DEF JobAts, Holding
  <2>2. {f} \in SUBSET FlowRecord /\ {} \in SUBSET KidRecord /\ FALSE \in BOOLEAN
    OBVIOUS
  <2>3. [at |-> "paying", flow |-> {f}, kid |-> {}, time |-> FALSE] \in Jobs
    BY <2>1, <2>2, JobIn
  <2> QED
    BY <1>1, <2>3, Zenon
<1> QED
  BY <1>1, <1>2

\* What every Save does to the drivers and to the run.
Saves(d, f, a) ==
    /\ flow' \in FlowRecord /\ flow'.pending = a /\ FlowSaved(f, flow') /\ FlowAt(f, flow')
    /\ fjob' \in [FlowDrivers -> Jobs]
    /\ fjob'[d].at = "paying" /\ fjob'[d].flow = {flow'}
    /\ \A e \in FlowDrivers \ {d} : fjob'[e] = fjob[e]

LEMMA SaveIsSaves ==
    ASSUME fjob \in [FlowDrivers -> Jobs], NEW d \in FlowDrivers, NEW f \in FlowRecord,
           NEW a \in FlowAnswers, Save(d, f, a)
    PROVE  Saves(d, f, a)
<1>1. PICK g \in FlowRecord : g = SavedAnswer(f, a)
  BY SavedFields
<1>2. g.pending = a /\ FlowSaved(f, g) /\ FlowAt(f, g)
  BY <1>1, SavedFields
<1>3. flow' = g
  BY <1>1 DEF Save
<1>4. PICK j : j = [AtRest EXCEPT !.at = "paying", !.flow = {g}]
  OBVIOUS
<1>5. fjob' = [fjob EXCEPT ![d] = j]
  BY <1>1, <1>4 DEF Save
<1>6. j \in Jobs /\ j.at = "paying" /\ j.flow = {g}
  BY <1>4, PayingJob, Zenon
<1>7. /\ fjob' \in [FlowDrivers -> Jobs] /\ fjob'[d] = j
      /\ \A e \in FlowDrivers \ {d} : fjob'[e] = fjob[e]
  BY <1>5, <1>6
<1>8. fjob'[d].at = "paying" /\ fjob'[d].flow = {g}
  BY <1>6, <1>7
<1> QED
  BY <1>2, <1>3, <1>7, <1>8 DEF Saves

LEMMA NoAnswer == ASSUME FlowConstants PROVE "" \notin FlowAnswers
<1>1. \A s \in Stages : "" \notin DOMAIN Routes[s]
  BY Zenon DEF FlowConstants, ValidStages
<1>2. \A k \in WorkKinds \cup {"spawn"} : "" \notin Required(k)
  BY DEF WorkKinds, Required
<1> SUFFICES ASSUME "" \in FlowAnswers PROVE FALSE
  OBVIOUS
<1>3. CASE "" \in RouteAnswers
  <2>1. PICK X \in {DOMAIN Routes[s] : s \in Stages} : "" \in X
    BY <1>3, Zenon DEF RouteAnswers
  <2>2. PICK s \in Stages : X = DOMAIN Routes[s]
    BY <2>1, Zenon
  <2> QED
    BY <1>1, <2>1, <2>2, Zenon
<1>4. CASE "" \in WorkAnswers
  <2>1. PICK X \in {Required(k) : k \in WorkKinds \cup {"spawn"}} : "" \in X
    BY <1>4, Zenon DEF WorkAnswers
  <2>2. PICK k \in WorkKinds \cup {"spawn"} : X = Required(k)
    BY <2>1, Zenon
  <2> QED
    BY <1>2, <2>1, <2>2, Zenon
<1> QED
  BY <1>3, <1>4, Zenon DEF FlowAnswers

LEMMA FreeNow == ~Locked => \A e \in FlowDrivers : fjob[e].at \notin Holding
  BY DEF Locked, Holding

LEMMA SaveLocks ==
    ASSUME NEW d \in FlowDrivers, LockHeld, ~Locked, flow'.pending # "", flow'.stage # "halted",
           fjob'[d].at = "paying", fjob'[d].flow = {flow'}, kid'.made = kid.made,
           \A e \in FlowDrivers \ {d} : fjob'[e] = fjob[e]
    PROVE  LockHeld'
<1>1. \A e \in FlowDrivers : fjob[e].at \notin Holding
  BY FreeNow, Zenon
<1>2. \A e \in FlowDrivers : fjob[e].at = "driving" => kid.made
  BY Zenon DEF LockHeld
<1>3. \A e \in FlowDrivers : fjob'[e].at \in Holding => e = d
  BY <1>1, Zenon
<1>4. \A e \in FlowDrivers : fjob'[e].at = "driving" => kid'.made
  BY <1>2, Zenon
<1>5. \A e \in FlowDrivers : fjob'[e].at \in Holding =>
        fjob'[e].at = "paying" /\ fjob'[e].flow = {flow'}
  BY <1>3, Zenon
<1> QED
  BY <1>3, <1>4, <1>5, Zenon DEF LockHeld, Holding

LEMMA SaveEnds ==
    ASSUME NEW d \in FlowDrivers, EndsKnown, KidStays, KidHolds, fjob'[d].at = "paying",
           \A e \in FlowDrivers \ {d} : fjob'[e] = fjob[e]
    PROVE  EndsKnown'
<1>1. \A e \in FlowDrivers : fjob'[e] = fjob[e] \/ fjob'[e].at # "adopting"
  OBVIOUS
<1> QED
  BY <1>1, EndsKept

LEMMA FlowSavedTwice ==
    ASSUME NEW f, NEW g, NEW h, FlowSaved(f, g), FlowSaved(g, h)
    PROVE  FlowSaved(f, h)
  BY DEF FlowSaved

LEMMA PlacedStays ==
    ASSUME NEW f, NEW g, Placed(f), FlowAt(f, g), FlowSaved(f, g)
    PROVE  Placed(g)
  BY Zenon DEF Placed, FlowAt, FlowSaved

LEMMA SaveRivals ==
    ASSUME NEW d \in FlowDrivers, Rivals, flow.child => flow.pending # "",
           flow'.child = flow.child, fpast'.other = fpast.other, fjob'[d].at = "paying",
           \A e \in FlowDrivers \ {d} : fjob'[e] = fjob[e]
    PROVE  Rivals'
  BY Zenon DEF Rivals

LEMMA SaveKeeps ==
    ASSUME FlowInv, NEW d \in FlowDrivers, NEW f \in FlowRecord, NEW a \in FlowAnswers,
           FlowConstants, FlowTypeOK', Saves(d, f, a), ~Locked, KidStays, Unpaid, NothingPast,
           FlowSaved(flow, f), Placed(f), f.stage # "halted", flow.child => flow.pending # ""
    PROVE  FlowInv'
<1>p. /\ LockHeld /\ Linked /\ Rivals /\ EndsKnown
      /\ ~fpast.twice => PaidUpTo /\ AdoptedOnce
  BY Zenon DEF FlowInv
<1>1. KidHolds
  BY KidStaysHolds, Zenon
<1>2. a # ""
  BY ZenonT(60), NoAnswer
<1>3. FlowSaved(flow, flow') /\ FlowAt(f, flow') /\ flow'.pending # ""
  <2>1. FlowSaved(f, flow') /\ FlowAt(f, flow') /\ flow'.pending = a
    BY Zenon DEF Saves
  <2>2. FlowSaved(flow, flow')
    BY <2>1, FlowSavedTwice, Zenon
  <2> QED
    BY <1>2, <2>1, <2>2, Zenon
<1>4. LockHeld'
  BY <1>p, <1>1, <1>3, SaveLocks, Zenon DEF Saves, FlowAt, KidHolds
<1>5. Linked'
  <2>1. Placed(flow')
    <3>1. FlowSaved(f, flow')
      BY Zenon DEF Saves
    <3> QED
      BY <1>3, <3>1, PlacedStays, Zenon
  <2> QED
    BY ZenonT(60), <1>1, <1>3, <1>p, <2>1 DEF Linked, FlowSaved, KidHolds
<1>6. Rivals'
  <2>1. flow'.child = flow.child /\ fpast'.other = fpast.other
    BY <1>3, Zenon DEF FlowSaved, NothingPast
  <2>2. /\ fjob'[d].at = "paying"
        /\ \A e \in FlowDrivers \ {d} : fjob'[e] = fjob[e]
    BY Zenon DEF Saves
  <2> QED
    BY <1>p, <2>1, <2>2, SaveRivals, Zenon
<1>7. EndsKnown'
  BY <1>p, <1>1, SaveEnds, Zenon DEF Saves
<1>8. fpast'.twice \/ (PaidUpTo' /\ AdoptedOnce')
  <2>1. SUFFICES ASSUME ~fpast.twice PROVE PaidUpTo' /\ AdoptedOnce'
    BY Zenon DEF NothingPast
  <2>2. PaidUpTo'
    BY ZenonT(60), <1>p, <2>1, <1>3 DEF PaidUpTo, FlowSaved, Unpaid, StepId
  <2>3. AdoptedOnce'
    BY <1>p, <2>1, <1>1, <1>3, SavedOnce, Zenon
  <2> QED
    BY <2>2, <2>3, Zenon
<1> QED
  BY <1>4, <1>5, <1>6, <1>7, <1>8, Zenon DEF FlowInv
-----------------------------------------------------------------------------
\* What the steps do to the drivers.

\* Only one driver moves, and it ends up at x.
OnlyJob(d, x) ==
    /\ fjob' \in [FlowDrivers -> Jobs] /\ fjob'[d].at = x
    /\ \A e \in FlowDrivers \ {d} : fjob'[e] = fjob[e]

LEMMA RestJob == AtRest \in Jobs /\ AtRest.at = "rest"
<1>1. "rest" \in JobAts /\ {} \in SUBSET FlowRecord /\ {} \in SUBSET KidRecord /\ FALSE \in BOOLEAN
  BY DEF JobAts
<1>2. [at |-> "rest", flow |-> {}, kid |-> {}, time |-> FALSE] \in Jobs
  BY <1>1, JobIn
<1> QED
  BY <1>2 DEF AtRest

LEMMA JobRests ==
    ASSUME fjob \in [FlowDrivers -> Jobs], NEW d \in FlowDrivers, fjob' = [fjob EXCEPT ![d] = AtRest]
    PROVE  OnlyJob(d, "rest")
<1>1. AtRest \in Jobs /\ AtRest.at = "rest"
  BY RestJob
<1> QED
  BY <1>1, Zenon DEF OnlyJob

LEMMA JobSet ==
    ASSUME fjob \in [FlowDrivers -> Jobs], NEW d \in FlowDrivers, NEW j \in Jobs,
           fjob' = [fjob EXCEPT ![d] = j]
    PROVE  OnlyJob(d, j.at) /\ fjob'[d] = j
  BY Zenon DEF OnlyJob

\* A job moved on, with its copies.
LEMMA JobMoved ==
    ASSUME NEW j \in Jobs, NEW x \in JobAts
    PROVE  /\ [j EXCEPT !.at = x] \in Jobs /\ [j EXCEPT !.at = x].at = x
           /\ [j EXCEPT !.at = x].flow = j.flow /\ [j EXCEPT !.at = x].kid = j.kid
<1>1. [j EXCEPT !.at = x] \in Jobs
  BY Zenon DEF Jobs
<1>2. /\ [j EXCEPT !.at = x].at = x
      /\ [j EXCEPT !.at = x].flow = j.flow /\ [j EXCEPT !.at = x].kid = j.kid
  BY DEF Jobs
<1> QED
  BY <1>1, <1>2

LEMMA JobMoves ==
    ASSUME fjob \in [FlowDrivers -> Jobs], NEW d \in FlowDrivers, NEW x \in JobAts,
           fjob' = [fjob EXCEPT ![d].at = x]
    PROVE  OnlyJob(d, x) /\ fjob'[d].flow = fjob[d].flow /\ fjob'[d].kid = fjob[d].kid
<1>1. PICK j : j = [fjob[d] EXCEPT !.at = x]
  OBVIOUS
<1>2. j \in Jobs /\ j.at = x /\ j.flow = fjob[d].flow /\ j.kid = fjob[d].kid
  <2>1. fjob[d] \in Jobs
    OBVIOUS
  <2> QED
    BY <1>1, <2>1, JobMoved
<1>3. fjob' = [fjob EXCEPT ![d] = j]
  BY <1>1
<1>4. OnlyJob(d, j.at) /\ fjob'[d] = j
  BY <1>2, <1>3, JobSet
<1> QED
  BY <1>2, <1>4

\* The holder of the lock is alone, and knows the run as it is.
LEMMA Holder ==
    ASSUME LockHeld, NEW d \in FlowDrivers, fjob[d].at \in Holding
    PROVE  fjob[d].flow = {flow} /\ \A e \in FlowDrivers \ {d} : fjob[e].at \notin Holding
  BY Zenon DEF LockHeld

LEMMA HolderMoves ==
    ASSUME FlowInv, NEW d \in FlowDrivers, fjob[d].at \in Holding, OnlyJob(d, "rest"),
           FlowTypeOK', FlowKept(flow, flow'), Placed(flow'), kid' = kid, Unpaid, NothingPast
    PROVE  FlowInv'
<1>1. \A e \in FlowDrivers \ {d} : fjob[e].at \notin Holding
  BY Holder DEF FlowInv
<1>2. "rest" \notin Holding
  BY DEF Holding
<1>3. \A e \in FlowDrivers : fjob'[e] = fjob[e] \/ fjob'[e].at = "rest"
  BY DEF OnlyJob
<1>4. \A e \in FlowDrivers : fjob'[e].at \notin Holding
  BY <1>1, <1>2 DEF OnlyJob
<1>5. KidStays
  BY DEF KidStays
<1> QED
  BY <1>3, <1>4, <1>5, MoveKeeps

\* A step that does nothing to the drivers while none is inside a section.
LEMMA FreeMoves ==
    ASSUME FlowInv, ~Locked, fjob' = fjob,
           FlowTypeOK', FlowKept(flow, flow'), Placed(flow'), KidStays, Unpaid, NothingPast
    PROVE  FlowInv'
<1>1. \A e \in FlowDrivers : fjob'[e].at \notin Holding
  BY FreeNow
<1>2. \A e \in FlowDrivers : fjob'[e] = fjob[e] \/ fjob'[e].at = "rest"
  OBVIOUS
<1> QED
  BY <1>1, <1>2, MoveKeeps

\* The types, where all but the run and the drivers stays.
LEMMA TypeKept ==
    ASSUME FlowTypeOK, flow' \in FlowRecord, fjob' \in [FlowDrivers -> Jobs],
           kid' = kid, bill' = bill, fpast' = fpast
    PROVE  FlowTypeOK'
  BY Zenon DEF FlowTypeOK

LEMMA SameUnpaid == (bill' = bill => Unpaid) /\ (fpast' = fpast => NothingPast) /\ (kid' = kid => KidStays)
  BY DEF Unpaid, NothingPast, KidStays
-----------------------------------------------------------------------------
\* The steps of a transition.

LEMMA StepStop ==
    ASSUME FlowInv
    PROVE  /\ Stopped(flow, "steps") \in FlowRecord /\ FlowKept(flow, Stopped(flow, "steps"))
           /\ Placed(Stopped(flow, "steps"))
<1>1. flow \in FlowRecord /\ Placed(flow)
  BY DEF FlowInv, FlowTypeOK, Linked
<1>2. "steps" \in FlowOutcomes \ WorkStages
  BY DEF FlowOutcomes, WorkStages
<1> QED
  BY <1>1, <1>2, StoppedFields, StoppedPlaced

LEMMA UpTo == ASSUME NEW n \in Nat PROVE n + 1 \in 1 .. (n + 1)
  OBVIOUS

LEMMA PaidMore ==
    ASSUME PaidUpTo, flow.steps \in Nat, flow' = flow, flow.pending # "",
           \/ StepId(flow) \in bill.paid /\ bill' = bill
           \/ /\ StepId(flow) \notin bill.paid
              /\ bill'.paid = bill.paid \cup {StepId(flow)} /\ bill'.steps = bill.steps + 1
    PROVE  PaidUpTo'
<1>1. StepId(flow') = StepId(flow) /\ StepId(flow) \in 1 .. StepId(flow)
  <2>1. flow.steps + 1 \in 1 .. (flow.steps + 1)
    BY UpTo, Zenon
  <2> QED
    BY <2>1, Zenon DEF StepId
<1>2. CASE StepId(flow) \in bill.paid /\ bill' = bill
  BY <1>1, <1>2, Zenon DEF PaidUpTo
<1>3. CASE /\ StepId(flow) \notin bill.paid
           /\ bill'.paid = bill.paid \cup {StepId(flow)} /\ bill'.steps = bill.steps + 1
  <2>1. bill.paid \subseteq 1 .. StepId(flow) /\ bill.steps = flow.taken
    BY <1>3, Zenon DEF PaidUpTo
  <2>2. bill'.paid \subseteq 1 .. StepId(flow)
    BY <1>1, <1>3, <2>1, Zenon
  <2>3. StepId(flow) \in bill'.paid /\ bill'.steps = flow.taken + 1
    BY <1>3, <2>1, Zenon
  <2> QED
    BY <1>1, <2>2, <2>3, Zenon DEF PaidUpTo
<1> QED
  BY <1>2, <1>3, Zenon

\* The second write pays, or finds the step paid; the driver goes on to take it.
LEMMA PaidKeeps ==
    ASSUME FlowInv, NEW d \in FlowDrivers, fjob[d].at = "paying", OnlyJob(d, "taking"),
           fjob'[d].flow = fjob[d].flow, FlowTypeOK', flow' = flow, kid' = kid, fpast' = fpast,
           \/ StepId(flow) \in bill.paid /\ bill' = bill
           \/ /\ StepId(flow) \notin bill.paid
              /\ bill'.paid = bill.paid \cup {StepId(flow)} /\ bill'.steps = bill.steps + 1
    PROVE  FlowInv'
<1>p. /\ LockHeld /\ Linked /\ Rivals /\ EndsKnown /\ FlowTypeOK
      /\ ~fpast.twice => PaidUpTo /\ AdoptedOnce
  BY DEF FlowInv
<1>1. /\ fjob[d].flow = {flow} /\ \A e \in FlowDrivers \ {d} : fjob[e].at \notin Holding
      /\ flow.pending # "" /\ flow.stage # "halted"
  BY <1>p, Holder, Zenon DEF LockHeld, Holding
<1>2. \A e \in FlowDrivers : fjob'[e].at \in Holding => e = d
  BY <1>1, Zenon DEF OnlyJob
<1>3. StepId(flow) \in bill'.paid
  OBVIOUS
<1>4. LockHeld'
  <2>1. \A e \in FlowDrivers : fjob'[e].at \in Holding => fjob'[e].at = "taking" /\ fjob'[e].flow = {flow}
    BY <1>1, <1>2, Zenon DEF OnlyJob
  <2>2. \A e \in FlowDrivers : fjob'[e].at = "driving" => kid.made
    BY <1>p, Zenon DEF LockHeld, OnlyJob
  <2>3. StepId(flow') \in bill'.paid
    BY <1>3
  <2> QED
    BY <1>1, <1>2, <2>1, <2>2, <2>3, Zenon DEF LockHeld, Holding
<1>5. Linked'
  BY <1>p DEF Linked
<1>6. Rivals'
  BY <1>p, Zenon DEF Rivals, OnlyJob
<1>7. EndsKnown'
  BY <1>p DEF EndsKnown, OnlyJob
<1>8. fpast'.twice \/ (PaidUpTo' /\ AdoptedOnce')
  <2>1. SUFFICES ASSUME ~fpast.twice PROVE PaidUpTo' /\ AdoptedOnce'
    OBVIOUS
  <2>2. AdoptedOnce'
    BY <1>p, <2>1, Zenon DEF AdoptedOnce
  <2>3. PaidUpTo'
    <3>1. flow.steps \in Nat
      BY <1>p DEF FlowTypeOK, FlowRecord
    <3> QED
      BY <1>p, <1>1, <2>1, <3>1, PaidMore, Zenon
  <2> QED
    BY <2>2, <2>3
<1> QED
  BY <1>4, <1>5, <1>6, <1>7, <1>8 DEF FlowInv

BillRecord == [paid : SUBSET Nat, steps : Nat, grant : Nat, child : BOOLEAN]

LEMMA Billed ==
    ASSUME NEW b \in BillRecord, NEW n \in Nat
    PROVE  /\ [b EXCEPT !.paid = b.paid \cup {n}, !.steps = b.steps + 1] \in BillRecord
           /\ [b EXCEPT !.paid = b.paid \cup {n}, !.steps = b.steps + 1].paid = b.paid \cup {n}
           /\ [b EXCEPT !.paid = b.paid \cup {n}, !.steps = b.steps + 1].steps = b.steps + 1
<1>1. b.steps + 1 \in Nat /\ b.paid \cup {n} \in SUBSET Nat
  BY DEF BillRecord
<1>2. [b EXCEPT !.paid = b.paid \cup {n}, !.steps = b.steps + 1] \in BillRecord
  BY <1>1, Zenon DEF BillRecord
<1> QED
  BY <1>2 DEF BillRecord

LEMMA PayKeeps == ASSUME FlowInv, NEW d \in FlowDrivers, Pay(d) PROVE FlowInv'
<1>p. LockHeld /\ FlowTypeOK /\ flow \in FlowRecord /\ fjob \in [FlowDrivers -> Jobs] /\ bill \in BillRecord
  BY DEF FlowInv, FlowTypeOK, BillRecord
<1>1. /\ fjob[d].at = "paying" /\ fjob[d].at \in Holding /\ fjob[d].flow = {flow}
      /\ kid' = kid /\ fpast' = fpast
  BY <1>p, Holder DEF Pay, Holding
<1>2. "taking" \in JobAts
  BY DEF JobAts, Holding
<1>3. CASE /\ StepId(flow) \in bill.paid
           /\ fjob' = [fjob EXCEPT ![d].at = "taking"] /\ flow' = flow /\ bill' = bill
  <2>1. OnlyJob(d, "taking") /\ fjob'[d].flow = fjob[d].flow
    BY <1>p, <1>2, <1>3, JobMoves
  <2>2. FlowTypeOK'
    BY <1>p, <1>1, <1>3, <2>1, TypeKept DEF OnlyJob
  <2> QED
    BY <1>1, <1>3, <2>1, <2>2, PaidKeeps
<1>4. CASE flow' = Stopped(flow, "steps") /\ bill' = bill /\ fjob' = [fjob EXCEPT ![d] = AtRest]
  <2>1. OnlyJob(d, "rest")
    BY <1>p, <1>4, JobRests
  <2>2. flow' \in FlowRecord /\ FlowKept(flow, flow') /\ Placed(flow')
    BY <1>4, StepStop
  <2>3. FlowTypeOK'
    BY <1>p, <1>1, <1>4, <2>1, <2>2, TypeKept DEF OnlyJob
  <2> QED
    BY <1>1, <1>4, <2>1, <2>2, <2>3, SameUnpaid, HolderMoves
<1>5. CASE /\ StepId(flow) \notin bill.paid /\ flow' = flow
           /\ bill' = [bill EXCEPT !.paid = bill.paid \cup {StepId(flow)}, !.steps = bill.steps + 1]
           /\ fjob' = [fjob EXCEPT ![d].at = "taking"]
  <2>1. OnlyJob(d, "taking") /\ fjob'[d].flow = fjob[d].flow
    BY <1>p, <1>2, <1>5, JobMoves
  <2>2. StepId(flow) \in Nat
    BY <1>p, Counts DEF StepId
  <2>3. /\ bill' \in BillRecord
        /\ bill'.paid = bill.paid \cup {StepId(flow)} /\ bill'.steps = bill.steps + 1
    BY <1>p, <1>5, <2>2, Billed, Zenon
  <2>4. FlowTypeOK'
    BY <1>p, <1>1, <1>5, <2>1, <2>3, Zenon DEF FlowTypeOK, BillRecord, OnlyJob
  <2> QED
    BY <1>1, <1>5, <2>1, <2>3, <2>4, PaidKeeps
<1> QED
  BY <1>1, <1>3, <1>4, <1>5, Zenon DEF Pay

\* The third write: the run is at its next stage, with the step behind it paid.
LEMMA TakenPays ==
    ASSUME PaidUpTo, flow.steps \in Nat, MovedOn(flow, flow'), bill' = bill,
           StepId(flow) \in bill.paid
    PROVE  PaidUpTo'
<1> DEFINE n == flow.steps
<1>1. /\ bill'.paid \subseteq 1 .. (n + 1) /\ bill'.steps = flow.taken + 1
      /\ flow'.steps = n + 1 /\ flow'.taken = flow.taken + 1
  BY Zenon DEF PaidUpTo, StepId, MovedOn
<1>2. n \in Nat
  OBVIOUS
<1> HIDE DEF n
<1>3. (1 .. (n + 1)) \subseteq 1 .. ((n + 1) + 1) /\ ((n + 1) + 1) \notin 1 .. (n + 1)
  BY <1>2
<1>4. StepId(flow') = (n + 1) + 1
  BY <1>1, Zenon DEF StepId
<1>5. bill'.paid \subseteq 1 .. StepId(flow') /\ StepId(flow') \notin bill'.paid
  BY <1>1, <1>3, <1>4
<1>6. bill'.steps = flow'.taken
  BY <1>1
<1> QED
  BY <1>5, <1>6, Zenon DEF PaidUpTo

LEMMA TakenOnce ==
    ASSUME AdoptedOnce, MovedOn(flow, flow'), kid' = kid
    PROVE  AdoptedOnce'
  BY Zenon DEF AdoptedOnce, MovedOn

LEMMA DrivingMade ==
    ASSUME LockHeld PROVE \A e \in FlowDrivers : fjob[e].at = "driving" => kid.made
  BY Zenon DEF LockHeld

LEMMA TakeKeeps == ASSUME FlowConstants, FlowInv, NEW d \in FlowDrivers, Take(d) PROVE FlowInv'
<1>p. /\ LockHeld /\ Linked /\ Rivals /\ EndsKnown /\ FlowTypeOK
      /\ ~fpast.twice => PaidUpTo /\ AdoptedOnce
  BY DEF FlowInv
<1>q. flow \in FlowRecord /\ fjob \in [FlowDrivers -> Jobs] /\ Placed(flow)
  BY <1>p DEF FlowTypeOK, Linked
<1>1. /\ fjob[d].at = "taking" /\ fjob[d].at \in Holding /\ fjob[d].flow = {flow}
      /\ kid' = kid /\ bill' = bill /\ fpast' = fpast /\ fjob' = [fjob EXCEPT ![d] = AtRest]
  BY <1>p, Holder DEF Take, Holding
<1>2. OnlyJob(d, "rest")
  BY <1>q, <1>1, JobRests, Zenon
<1>3. CASE flow' = DriveFailed(flow)
  <2>1. flow' \in FlowRecord /\ FlowKept(flow, flow') /\ Placed(flow')
    BY <1>q, <1>3, FailedFields
  <2>2. FlowTypeOK'
    BY <1>p, <1>1, <1>2, <2>1, TypeKept DEF OnlyJob
  <2> QED
    BY <1>1, <1>2, <2>1, <2>2, SameUnpaid, HolderMoves
<1>4. CASE flow.pending \in DOMAIN Routes[flow.cur] /\ flow' = Advanced(flow, Routes[flow.cur][flow.pending])
  <2>1. StepId(flow) \in bill.paid /\ flow.stage # "halted"
    BY <1>p, <1>1, Zenon DEF LockHeld
  <2>2. flow.phase = ""
    BY <1>q, <2>1, Zenon DEF Placed
  <2>3. flow.cur \in Stages
    BY <1>q DEF FlowRecord
  <2>4. Routes[flow.cur][flow.pending] \in Stages
    BY <1>4, <2>3, Zenon DEF FlowConstants, ValidStages
  <2>5. flow' \in FlowRecord /\ Placed(flow') /\ MovedOn(flow, flow')
    BY <1>q, <1>4, <2>2, <2>4, AdvancedFields, Zenon
  <2>6. FlowTypeOK'
    BY <1>p, <1>1, <1>2, <2>5, TypeKept DEF OnlyJob
  <2>7. LockHeld'
    <3>1. \A e \in FlowDrivers \ {d} : fjob[e].at \notin Holding
      BY <1>p, <1>1, Holder
    <3>2. \A e \in FlowDrivers : fjob'[e].at \notin Holding
      BY <1>2, <3>1 DEF OnlyJob, Holding
    <3>3. \A e \in FlowDrivers : fjob'[e].at = "driving" => kid'.made
      <4>1. \A e \in FlowDrivers : fjob[e].at = "driving" => kid.made
        BY <1>p, DrivingMade
      <4>2. \A e \in FlowDrivers : fjob'[e].at = "driving" => fjob'[e] = fjob[e]
        BY <1>2 DEF OnlyJob
      <4> QED
        BY <1>1, <4>1, <4>2
    <3> QED
      BY <3>2, <3>3, Zenon DEF LockHeld, Holding
  <2>8. Linked' /\ Rivals'
    BY <2>5, Zenon DEF Linked, Rivals, MovedOn
  <2>9. EndsKnown'
    BY <1>p, <1>1, <1>2 DEF EndsKnown, OnlyJob
  <2>10. fpast'.twice \/ (PaidUpTo' /\ AdoptedOnce')
    <3>1. flow.steps \in Nat
      BY <1>q DEF FlowRecord
    <3> QED
      BY <1>p, <1>1, <2>1, <2>5, <3>1, TakenPays, TakenOnce
  <2> QED
    BY <2>6, <2>7, <2>8, <2>9, <2>10 DEF FlowInv
<1>5. flow' = (IF flow.pending \in DOMAIN Routes[flow.cur]
               THEN Advanced(flow, Routes[flow.cur][flow.pending]) ELSE DriveFailed(flow))
  <2>1. PICK f \in fjob[d].flow :
          flow' = IF f.pending \in DOMAIN Routes[f.cur] THEN Advanced(f, Routes[f.cur][f.pending])
                  ELSE DriveFailed(flow)
    BY Zenon DEF Take
  <2>2. f = flow
    BY <1>1, <2>1
  <2> QED
    BY <2>1, <2>2, Zenon
<1> QED
  BY <1>3, <1>4, <1>5, Zenon

\* What holds whenever a step of a free run begins.
LEMMA FreeRun ==
    ASSUME FlowInv
    PROVE  /\ FlowTypeOK /\ flow \in FlowRecord /\ fjob \in [FlowDrivers -> Jobs] /\ Placed(flow)
           /\ Linked
  BY DEF FlowInv, FlowTypeOK, Linked

LEMMA SavedSame == \A f : FlowSaved(f, f) /\ FlowKept(f, f)
  BY DEF FlowSaved, FlowKept

LEMMA SaveTyped ==
    ASSUME FlowTypeOK, NEW d, NEW f, NEW a, Saves(d, f, a), kid' = kid, bill' = bill, fpast' = fpast
    PROVE  FlowTypeOK'
  BY TypeKept DEF Saves

\* A save of what the driver did to the run, in a step that does nothing else.
LEMMA PlainSave ==
    ASSUME FlowConstants, FlowInv, NEW d \in FlowDrivers, NEW f \in FlowRecord, NEW a \in FlowAnswers,
           Save(d, f, a), ~Locked, kid' = kid, bill' = bill, fpast' = fpast,
           FlowKept(flow, f), Placed(f), f.stage # "halted", flow.child => flow.pending # ""
    PROVE  FlowInv'
<1>1. Saves(d, f, a)
  BY FreeRun, SaveIsSaves, Zenon
<1>2. FlowTypeOK'
  BY <1>1, FreeRun, SaveTyped, Zenon
<1>3. FlowSaved(flow, f)
  BY KeptSaved, Zenon
<1> QED
  BY <1>1, <1>2, <1>3, SameUnpaid, SaveKeeps, Zenon

\* A move of the run, in a step that does nothing else.
LEMMA PlainMove ==
    ASSUME FlowInv, ~Locked, fjob' = fjob, kid' = kid, bill' = bill, fpast' = fpast,
           flow' \in FlowRecord, FlowKept(flow, flow'), Placed(flow')
    PROVE  FlowInv'
<1>1. FlowTypeOK'
  BY FreeRun, TypeKept
<1> QED
  BY <1>1, SameUnpaid, FreeMoves

LEMMA ResumeKeeps ==
    ASSUME FlowConstants, FlowInv, NEW d \in FlowDrivers, ResumeAnswer(d)
    PROVE  FlowInv'
<1>1. flow.pending \in FlowAnswers
  BY FreeRun, Zenon DEF ResumeAnswer, FlowRecord, Pendings
<1>2. /\ ~Locked /\ flow.pending # "" /\ flow.stage # "halted" /\ Save(d, flow, flow.pending)
      /\ kid' = kid /\ bill' = bill /\ fpast' = fpast
  BY Zenon DEF ResumeAnswer
<1> QED
  BY <1>1, <1>2, FreeRun, SavedSame, PlainSave, Zenon
-----------------------------------------------------------------------------
\* Questions, work and verification: a run that works has no child.

LEMMA DrivesFree ==
    ASSUME FlowInv, NEW d \in FlowDrivers, NEW stage \in FlowStages, Drives(d, stage)
    PROVE  /\ ~Locked /\ flow.pending = "" /\ flow.stage = stage
           /\ stage \notin {"spawn", "halted", ""} => ~flow.child
           /\ stage # "halted" => flow.phase = ""
<1>1. Placed(flow)
  BY FreeRun
<1> QED
  BY <1>1, Zenon DEF Drives, Placed

LEMMA DrivesWork ==
    ASSUME FlowInv, NEW d \in FlowDrivers, NEW stage \in {"question", "verifying"} \cup WorkStages,
           Drives(d, stage)
    PROVE  ~Locked /\ flow.stage = stage /\ flow.stage # "halted" /\ ~flow.child /\ flow.phase = ""
<1>1. stage \in FlowStages /\ stage \notin {"spawn", "halted", ""}
  BY Zenon DEF WorkStages, FlowStages
<1> QED
  BY <1>1, DrivesFree, Zenon

LEMMA AskKeeps ==
    ASSUME FlowConstants, FlowInv, NEW d \in FlowDrivers, NEW a \in Answers(flow.cur), AskQuestion(d, a)
    PROVE  FlowInv'
<1>1. Drives(d, "question") /\ kid' = kid /\ bill' = bill /\ fpast' = fpast
  BY DEF AskQuestion
<1>3. ~Locked /\ flow.stage # "halted" /\ ~flow.child
  BY <1>1, DrivesWork, Zenon
<1>4. CASE flow' = Stopped(flow, "steps") /\ fjob' = fjob
  BY <1>1, <1>3, <1>4, StepStop, PlainMove
<1>5. CASE Save(d, flow, a)
  <2>1. a \in FlowAnswers
    <3>1. flow.cur \in Stages
      BY FreeRun DEF FlowRecord
    <3>2. a \in DOMAIN Routes[flow.cur]
      BY DEF Answers
    <3> QED
      BY <3>1, <3>2 DEF FlowAnswers, RouteAnswers
  <2> QED
    BY <1>1, <1>3, <1>5, <2>1, FreeRun, SavedSame, PlainSave, Zenon
<1> QED
  BY <1>4, <1>5, Zenon DEF AskQuestion

\* A stage of work and its outcome, in a run without a child.
LEMMA Reworked ==
    ASSUME NEW f \in FlowRecord, Placed(f), f.phase = "", ~f.child, NEW x \in FlowPhases
    PROVE  /\ Staged(f, x) \in FlowRecord /\ FlowKept(f, Staged(f, x)) /\ Placed(Staged(f, x))
           /\ Staged(f, x).stage # "halted"
<1>1. x \in FlowStages /\ x # "halted"
  BY FlowStrings, Zenon
<1>2. PICK g : g = Staged(f, x)
  OBVIOUS
<1>3. g \in FlowRecord /\ FlowKept(f, g) /\ g.phase = f.phase /\ g.stage = x
  BY <1>1, <1>2, StagedFields, Zenon
<1>4. g.phase = "" /\ ~g.child
  BY <1>3, Zenon DEF FlowKept
<1>5. Placed(g)
  BY <1>4, Zenon DEF Placed
<1>6. g.stage # "halted"
  BY <1>1, <1>3, Zenon
<1> QED
  BY <1>2, <1>3, <1>5, <1>6, Zenon

WorkChanged(f) == [f EXCEPT !.stage = "verifying", !.diff = TRUE]

LEMMA ChangedFields ==
    ASSUME NEW f \in FlowRecord
    PROVE  /\ WorkChanged(f) \in FlowRecord /\ FlowKept(f, WorkChanged(f))
           /\ WorkChanged(f).phase = f.phase
<1>1. "verifying" \in FlowStages /\ TRUE \in BOOLEAN
  BY DEF FlowStages
<1>2. WorkChanged(f) \in FlowRecord
  BY <1>1, Zenon DEF FlowRecord, WorkChanged
<1>3. FlowKept(f, WorkChanged(f)) /\ WorkChanged(f).phase = f.phase
  BY Zenon DEF FlowRecord, FlowKept, WorkChanged
<1> QED
  BY <1>2, <1>3

LEMMA ReworkedPlaced ==
    ASSUME NEW f, NEW g, f.phase = "", ~f.child, FlowKept(f, g), g.phase = f.phase
    PROVE  Placed(g)
<1>1. g.phase = "" /\ ~g.child
  BY Zenon DEF FlowKept
<1> QED
  BY <1>1, Zenon DEF Placed

LEMMA EndKeeps ==
    ASSUME FlowConstants, FlowInv, NEW d \in FlowDrivers, NEW o, WorkEnds(d, o)
    PROVE  FlowInv'
<1>1. /\ ~Locked /\ ~flow.child /\ flow.phase = "" /\ flow \in FlowRecord /\ Placed(flow)
      /\ kid' = kid /\ bill' = bill /\ fpast' = fpast
  <2>1. PICK stage \in WorkStages : Drives(d, stage)
    BY DEF WorkEnds
  <2>3. kid' = kid /\ bill' = bill /\ fpast' = fpast
    BY DEF WorkEnds
  <2> QED
    BY <2>1, <2>3, DrivesWork, FreeRun, Zenon
<1>2. o \in FlowAnswers
  <2>1. PICK k \in WorkKinds : o \in Required(k)
    BY DEF WorkEnds, WorkKinds
  <2> QED
    BY <2>1 DEF FlowAnswers, WorkAnswers
<1>3. CASE flow' = WorkChanged(flow) /\ fjob' = fjob
  <2>1. flow' \in FlowRecord /\ FlowKept(flow, flow') /\ Placed(flow')
    BY <1>1, <1>3, ChangedFields, ReworkedPlaced, Zenon
  <2> QED
    BY <1>1, <1>3, <2>1, PlainMove, Zenon
<1>4. CASE \E x \in FlowPhases : Save(d, Staged(flow, x), o)
  <2>1. PICK x \in FlowPhases : Save(d, Staged(flow, x), o)
    BY <1>4
  <2>2. /\ Staged(flow, x) \in FlowRecord /\ FlowKept(flow, Staged(flow, x)) /\ Placed(Staged(flow, x))
        /\ Staged(flow, x).stage # "halted"
    BY ZenonT(60), <1>1, Reworked
  <2> QED
    BY <1>1, <1>2, <2>1, <2>2, PlainSave, Zenon
<1>5. CASE Save(d, [flow EXCEPT !.stage = IF o = "planned" \/ o = "changes-required"
                                          THEN "implementing" ELSE "done"], o)
  <2>1. PICK x : x = (IF o = "planned" \/ o = "changes-required" THEN "implementing" ELSE "done")
    OBVIOUS
  <2>2. x \in FlowPhases
    BY <2>1, Worked
  <2>3. Save(d, Staged(flow, x), o)
    BY <1>5, <2>1, Zenon DEF Staged
  <2> QED
    BY <1>4, <2>2, <2>3
<1> QED
  BY <1>3, <1>5, Zenon DEF WorkEnds, WorkChanged

LEMMA FailKeeps == ASSUME FlowInv, NEW d \in FlowDrivers, WorkFails(d) PROVE FlowInv'
<1>1. ~Locked /\ flow' = DriveFailed(flow) /\ kid' = kid /\ bill' = bill /\ fjob' = fjob /\ fpast' = fpast
  BY Zenon DEF WorkFails, Drives
<1> QED
  BY <1>1, FreeRun, FailedFields, PlainMove

LEMMA VerdictKeeps == ASSUME FlowInv, NEW d \in FlowDrivers, VerdictOnly(d) PROVE FlowInv'
<1>1. /\ Drives(d, "verifying") /\ flow' = Staged(flow, "assessing")
      /\ fpast' = [fpast EXCEPT !.crashes = @ + 1] /\ kid' = kid /\ bill' = bill /\ fjob' = fjob
  BY Zenon DEF VerdictOnly, Staged
<1>2. "verifying" \in FlowStages /\ "assessing" \in FlowPhases
  BY DEF FlowStages, FlowPhases
<1>3. ~Locked /\ ~flow.child /\ flow.phase = ""
  BY <1>1, DrivesWork, Zenon
<1>4. flow' \in FlowRecord /\ FlowKept(flow, flow') /\ Placed(flow')
  BY <1>1, <1>2, <1>3, FreeRun, Reworked, Zenon
<1>5. /\ fpast' \in [crashes : Nat, untimed : BOOLEAN, other : BOOLEAN, twice : BOOLEAN]
      /\ NothingPast
  BY <1>1, FreeRun DEF FlowTypeOK, NothingPast
<1>6. FlowTypeOK'
  BY <1>1, <1>4, <1>5, FreeRun DEF FlowTypeOK
<1> QED
  BY <1>1, <1>3, <1>4, <1>5, <1>6, SameUnpaid, FreeMoves, Zenon

LEMMA VerifyKeeps ==
    ASSUME FlowConstants, FlowInv, NEW d \in FlowDrivers, NEW ok \in BOOLEAN, VerifyFlow(d, ok)
    PROVE  FlowInv'
<1>1. Drives(d, "verifying") /\ kid' = kid /\ bill' = bill /\ fpast' = fpast
  BY DEF VerifyFlow
<1>2. "verifying" \in FlowStages /\ {"implementing", "assessing"} \subseteq FlowPhases
  BY DEF FlowStages, FlowPhases
<1>3. ~Locked /\ ~flow.child /\ flow.phase = ""
  BY <1>1, DrivesWork, Zenon
<1>4. CASE \E x \in FlowPhases : flow' = Staged(flow, x) /\ fjob' = fjob
  <2>1. PICK x \in FlowPhases : flow' = Staged(flow, x) /\ fjob' = fjob
    BY <1>4
  <2>2. flow' \in FlowRecord /\ FlowKept(flow, flow') /\ Placed(flow')
    BY <1>3, <2>1, FreeRun, Reworked, Zenon
  <2> QED
    BY <1>1, <1>3, <2>1, <2>2, PlainMove, Zenon
<1>5. CASE Save(d, Staged(flow, "assessing"), "changed")
  <2>1. "changed" \in FlowAnswers
    <3>1. "implementer" \in WorkKinds /\ "changed" \in Required("implementer")
      BY DEF WorkKinds, Required
    <3> QED
      BY <3>1 DEF FlowAnswers, WorkAnswers
  <2>2. /\ Staged(flow, "assessing") \in FlowRecord /\ FlowKept(flow, Staged(flow, "assessing"))
        /\ Placed(Staged(flow, "assessing")) /\ Staged(flow, "assessing").stage # "halted"
    BY ZenonT(60), <1>2, <1>3, FreeRun, Reworked
  <2> QED
    BY <1>1, <1>3, <1>5, <2>1, <2>2, PlainSave, Zenon
<1>6. \/ \E x \in {"implementing", "assessing"} : flow' = Staged(flow, x) /\ fjob' = fjob
      \/ Save(d, Staged(flow, "assessing"), "changed")
  BY Zenon DEF VerifyFlow, Staged
<1> QED
  BY <1>2, <1>4, <1>5, <1>6
-----------------------------------------------------------------------------
\* The steps of a spawn.

\* The driver that moved is the only one that may be inside a section now.
LEMMA LockIs ==
    ASSUME NEW d \in FlowDrivers, NEW x, OnlyJob(d, x),
           \A e \in FlowDrivers \ {d} : fjob[e].at \notin Holding,
           \A e \in FlowDrivers \ {d} : fjob[e].at = "driving" => kid'.made,
           x \in Holding => fjob'[d].flow = {flow'},
           x \in {"paying", "taking"} => flow'.pending # "" /\ flow'.stage # "halted",
           x = "taking" => StepId(flow') \in bill'.paid,
           x \in {"creating", "linking"} =>
             flow'.pending = "" /\ flow'.stage = "spawn" /\ ~flow'.child /\ ~flow'.spawned,
           x = "creating" => ~kid'.made,
           x \in {"linking", "driving"} => kid'.made
    PROVE  LockHeld'
<1>1. fjob'[d].at = x /\ \A e \in FlowDrivers \ {d} : fjob'[e].at = fjob[e].at
  BY Zenon DEF OnlyJob
<1>2. \A e \in FlowDrivers : fjob'[e].at \in Holding => e = d
  BY <1>1, Zenon
<1>3. \A e \in FlowDrivers : fjob'[e].at = "driving" => kid'.made
  BY <1>1, Zenon
<1>4. \A e \in FlowDrivers : fjob'[e].at \in Holding => fjob'[e].flow = {flow'}
  BY <1>1, <1>2, Zenon
<1>5. ASSUME NEW e \in FlowDrivers
      PROVE  /\ fjob'[e].at \in {"paying", "taking"} => flow'.pending # "" /\ flow'.stage # "halted"
             /\ fjob'[e].at = "taking" => StepId(flow') \in bill'.paid
             /\ fjob'[e].at \in {"creating", "linking"} =>
                  flow'.pending = "" /\ flow'.stage = "spawn" /\ ~flow'.child /\ ~flow'.spawned
             /\ fjob'[e].at = "creating" => ~kid'.made
             /\ fjob'[e].at \in {"linking", "driving"} => kid'.made
  <2>1. CASE e = d
    BY <1>1, <2>1, Zenon
  <2>2. CASE e # d
    <3>1. fjob'[e].at \notin Holding
      BY <1>2, <2>2, Zenon
    <3> QED
      BY <1>3, <3>1, Zenon DEF Holding
  <2> QED
    BY <2>1, <2>2, Zenon
<1> QED
  BY <1>2, <1>4, <1>5, Zenon DEF LockHeld

\* A driver outside the sections moves where it holds nothing.
LEMMA LockStays ==
    ASSUME NEW d \in FlowDrivers, NEW x, OnlyJob(d, x), x \notin Holding, LockHeld,
           flow' = flow, bill'.paid = bill.paid, kid'.made = kid.made, x = "driving" => kid.made
    PROVE  LockHeld'
<1>1. fjob'[d].at = x /\ \A e \in FlowDrivers \ {d} : fjob'[e] = fjob[e]
  BY DEF OnlyJob
<1>2. \A e \in FlowDrivers : fjob'[e].at \in Holding => e # d /\ fjob'[e] = fjob[e]
  BY <1>1
<1>3. \A e \in FlowDrivers : fjob'[e].at = "driving" => kid'.made
  BY <1>1, DrivingMade
<1>4. \A e, g \in FlowDrivers : fjob'[e].at \in Holding /\ fjob'[g].at \in Holding => e = g
  BY <1>2, Zenon DEF LockHeld
<1>5. \A e \in FlowDrivers : fjob'[e].at \in Holding => fjob'[e].flow = {flow'}
  BY <1>2, Zenon DEF LockHeld
<1>6. ASSUME NEW e \in FlowDrivers
      PROVE  /\ fjob'[e].at \in {"paying", "taking"} => flow'.pending # "" /\ flow'.stage # "halted"
             /\ fjob'[e].at = "taking" => StepId(flow') \in bill'.paid
             /\ fjob'[e].at \in {"creating", "linking"} =>
                  flow'.pending = "" /\ flow'.stage = "spawn" /\ ~flow'.child /\ ~flow'.spawned
             /\ fjob'[e].at = "creating" => ~kid'.made
             /\ fjob'[e].at \in {"linking", "driving"} => kid'.made
  <2>1. CASE fjob'[e].at \in Holding
    <3>1. fjob'[e] = fjob[e]
      BY <1>2, <2>1
    <3> QED
      BY <1>3, <3>1, Zenon DEF LockHeld
  <2>2. CASE fjob'[e].at \notin Holding
    BY <1>3, <2>2, Zenon DEF Holding
  <2> QED
    BY <2>1, <2>2, Zenon
<1> QED
  BY <1>4, <1>5, <1>6, Zenon DEF LockHeld

\* The accounts of a step that neither pays nor counts.
Accounts == fpast.twice \/ (PaidUpTo /\ AdoptedOnce)

LEMMA AccountsStay ==
    ASSUME Accounts, flow' = flow, kid' = kid, Unpaid, NothingPast
    PROVE  Accounts'
  BY Zenon DEF Accounts, PaidUpTo, AdoptedOnce, Unpaid, NothingPast, StepId

LEMMA InvParts ==
    ASSUME FlowInv
    PROVE  LockHeld /\ Linked /\ Rivals /\ EndsKnown /\ Accounts /\ FlowTypeOK
  BY DEF FlowInv, Accounts

LEMMA PartsInv ==
    ASSUME LockHeld', Linked', Rivals', EndsKnown', Accounts', FlowTypeOK'
    PROVE  FlowInv'
  BY DEF FlowInv, Accounts

LEMMA EndsStay ==
    ASSUME EndsKnown, NEW d \in FlowDrivers, NEW x, OnlyJob(d, x), x # "adopting", kid' = kid
    PROVE  EndsKnown'
<1>1. \A e \in FlowDrivers : fjob'[e] = fjob[e] \/ fjob'[e].at # "adopting"
  BY DEF OnlyJob
<1>2. KidStays /\ KidHolds
  BY DEF KidStays, KidHolds
<1> QED
  BY <1>1, <1>2, EndsKept

\* A driver of the child that is linked, or the beginning of one.
LEMMA SpawnTyped ==
    ASSUME FlowTypeOK, bill' = [bill EXCEPT !.child = TRUE]
    PROVE  bill' \in BillRecord /\ Unpaid
  BY DEF FlowTypeOK, BillRecord, Unpaid

LEMMA SpawnKeeps == ASSUME FlowInv, NEW d \in FlowDrivers, Spawn(d) PROVE FlowInv'
<1>p. LockHeld /\ Linked /\ Rivals /\ EndsKnown /\ Accounts /\ FlowTypeOK
  BY InvParts
<1>q. flow \in FlowRecord /\ fjob \in [FlowDrivers -> Jobs] /\ Placed(flow)
  BY FreeRun
<1>1. Drives(d, "spawn") /\ kid' = kid /\ fpast' = fpast
  BY DEF Spawn
<1>2. ~Locked /\ flow.pending = "" /\ flow.stage = "spawn"
  BY <1>1, Zenon DEF Drives
<1>3. /\ \A e \in FlowDrivers : fjob[e].at \notin Holding
      /\ \A e \in FlowDrivers : fjob[e].at = "driving" => kid.made
  BY <1>p, <1>2, FreeNow, DrivingMade, Zenon
<1>4. CASE flow.child /\ fjob' = [fjob EXCEPT ![d] = [AtRest EXCEPT !.at = "driving"]] /\ flow' = flow /\ bill' = bill
  <2>1. PICK j \in Jobs : j = [AtRest EXCEPT !.at = "driving"]
    BY RestJob, JobMoved DEF JobAts
  <2>2. j.at = "driving"
    BY <2>1, RestJob, JobMoved DEF JobAts
  <2>3. OnlyJob(d, "driving")
    BY ZenonT(60), <1>4, <1>q, <2>1, <2>2, JobSet
  <2>4. kid.made
    BY <1>4, <1>p DEF Linked
  <2>5. LockHeld'
    BY <1>1, <1>4, <1>p, <2>3, <2>4, LockStays DEF Holding
  <2>6. Linked' /\ Rivals'
    BY <1>1, <1>2, <1>4, <1>p, Zenon DEF Linked, Rivals
  <2>7. EndsKnown'
    BY <1>1, <1>p, <2>3, EndsStay
  <2>8. Accounts'
    BY <1>1, <1>4, <1>p, AccountsStay, SameUnpaid
  <2>9. FlowTypeOK'
    BY <1>1, <1>4, <1>p, <1>q, <2>3, TypeKept DEF OnlyJob
  <2> QED
    BY <2>5, <2>6, <2>7, <2>8, <2>9, PartsInv
<1>5. CASE \E r \in {"workflow-target-repeated", "workflow-depth-exhausted"} :
             flow' = Stopped(flow, r) /\ fjob' = fjob /\ bill' = bill
  <2>1. PICK r \in FlowOutcomes \ WorkStages : flow' = Stopped(flow, r) /\ fjob' = fjob /\ bill' = bill
    BY <1>5, Zenon DEF FlowOutcomes, WorkStages
  <2>2. flow' \in FlowRecord /\ FlowKept(flow, flow') /\ Placed(flow')
    BY <1>q, <2>1, StoppedFields, StoppedPlaced
  <2> QED
    BY <1>1, <1>2, <2>1, <2>2, PlainMove, Zenon
<1>6. CASE /\ ~flow.child /\ ~flow.spawned
           /\ bill' = (IF kid.made THEN bill ELSE [bill EXCEPT !.child = TRUE])
           /\ fjob' = [fjob EXCEPT ![d] = [at |-> IF kid.made THEN "linking" ELSE "creating",
                                           flow |-> {flow}, kid |-> {}, time |-> TRUE]]
           /\ flow' = flow
  <2>1. PICK x \in JobAts : x = IF kid.made THEN "linking" ELSE "creating"
    BY DEF JobAts, Holding
  <2>2. PICK j : j = [at |-> x, flow |-> {flow}, kid |-> {}, time |-> TRUE]
    OBVIOUS
  <2>3. j \in Jobs /\ j.at = x /\ j.flow = {flow}
    <3>1. {flow} \in SUBSET FlowRecord /\ {} \in SUBSET KidRecord /\ TRUE \in BOOLEAN
      BY <1>q
    <3>2. [at |-> x, flow |-> {flow}, kid |-> {}, time |-> TRUE] \in Jobs
      BY <3>1, JobIn
    <3> QED
      BY <2>2, <3>2
  <2>4. fjob' = [fjob EXCEPT ![d] = j]
    BY <1>6, <2>1, <2>2, Zenon
  <2>5. OnlyJob(d, x) /\ fjob'[d].flow = {flow}
    BY <1>q, <2>3, <2>4, JobSet
  <2>6. bill' \in BillRecord /\ Unpaid
    <3>1. CASE bill' = bill
      BY <1>p, <3>1 DEF FlowTypeOK, BillRecord, Unpaid
    <3>2. CASE bill' = [bill EXCEPT !.child = TRUE]
      BY <1>p, <3>2, SpawnTyped
    <3> QED
      BY <1>6, <3>1, <3>2
  <2>7. LockHeld'
    <3>1. x \notin {"paying", "taking", "driving"} /\ (x = "creating" => ~kid.made) /\ (x = "linking" => kid.made)
      BY <2>1
    <3>2. flow'.pending = "" /\ flow'.stage = "spawn" /\ ~flow'.child /\ ~flow'.spawned
      BY <1>2, <1>6, Zenon
    <3>3. fjob'[d].flow = {flow'}
      BY <1>6, <2>5
    <3>4. kid'.made = kid.made
      BY <1>1
    <3> QED
      BY <1>3, <2>5, <3>1, <3>2, <3>3, <3>4, LockIs, Zenon
  <2>8. Linked' /\ Rivals'
    BY <1>1, <1>2, <1>6, <1>p, Zenon DEF Linked, Rivals
  <2>9. EndsKnown'
    BY <1>1, <1>p, <2>1, <2>5, EndsStay
  <2>10. Accounts'
    BY <1>1, <1>6, <1>p, <2>6, AccountsStay, SameUnpaid
  <2>11. FlowTypeOK'
    BY <1>1, <1>6, <1>p, <2>5, <2>6, Zenon DEF FlowTypeOK, BillRecord, OnlyJob
  <2> QED
    BY <2>7, <2>8, <2>9, <2>10, <2>11, PartsInv
<1> QED
  BY <1>4, <1>5, <1>6, Zenon DEF Spawn

FreshKid == [made |-> TRUE, stage |-> "working", left |-> KidActions, acts |-> 0]

LEMMA FreshFields ==
    ASSUME FlowConstants
    PROVE  FreshKid \in KidRecord /\ FreshKid.made /\ FreshKid.stage = "working"
<1>1. KidActions \in Nat
  BY DEF FlowConstants
<1> QED
  BY <1>1 DEF FreshKid, KidRecord

\* Nobody holds the end of a child that was not made, and nothing is adopted.
LEMMA Unmade ==
    ASSUME FlowInv, ~kid.made
    PROVE  /\ kid = Nobody /\ (fpast.twice \/ flow.adopted = 0) /\ ~flow.child
           /\ \A e \in FlowDrivers : fjob[e].at # "driving"
           /\ \A e \in FlowDrivers : fjob[e].at = "adopting" =>
                \A k \in fjob[e].kid : k.stage \in {"budget", "plan"}
<1>p. LockHeld /\ Linked /\ EndsKnown /\ Accounts
  BY InvParts
<1>1. kid = Nobody
  BY <1>p DEF EndsKnown
<1>2. kid.stage \notin KidEnds
  BY <1>1 DEF Nobody, KidEnds
<1>3. fpast.twice \/ flow.adopted = 0
  BY <1>p, <1>2, Zenon DEF Accounts, AdoptedOnce
<1>4. ~flow.child
  BY <1>p DEF Linked
<1>5. \A e \in FlowDrivers : fjob[e].at # "driving"
  BY <1>p, DrivingMade
<1>6. \A e \in FlowDrivers : fjob[e].at = "adopting" =>
        \A k \in fjob[e].kid : k.stage \in {"budget", "plan"}
  BY <1>p, <1>2 DEF EndsKnown
<1> QED
  BY <1>1, <1>3, <1>4, <1>5, <1>6

LEMMA CreateKeeps == ASSUME FlowConstants, FlowInv, NEW d \in FlowDrivers, CreateKid(d) PROVE FlowInv'
<1>p. LockHeld /\ Linked /\ Rivals /\ EndsKnown /\ Accounts /\ FlowTypeOK
  BY InvParts
<1>q. flow \in FlowRecord /\ fjob \in [FlowDrivers -> Jobs] /\ Placed(flow)
  BY FreeRun
<1>1. /\ fjob[d].at = "creating" /\ fjob[d].at \in Holding /\ fjob[d].flow = {flow}
      /\ \A e \in FlowDrivers \ {d} : fjob[e].at \notin Holding
      /\ bill' = bill /\ fpast' = fpast
  BY <1>p, Holder DEF CreateKid, Holding
<1>2. ~kid.made /\ flow.pending = "" /\ flow.stage = "spawn" /\ ~flow.child /\ ~flow.spawned
  BY <1>1, <1>p, Zenon DEF LockHeld
<1>3. CASE kid' = FreshKid /\ fjob' = [fjob EXCEPT ![d].at = "linking"] /\ flow' = flow
  <2>1. OnlyJob(d, "linking") /\ fjob'[d].flow = {flow}
    BY ZenonT(60), <1>1, <1>3, <1>q, JobMoves DEF JobAts, Holding
  <2>2. kid'.made /\ kid' \in KidRecord /\ kid'.stage = "working"
    BY <1>3, FreshFields
  <2>3. LockHeld'
    <3>1. flow'.pending = "" /\ flow'.stage = "spawn" /\ ~flow'.child /\ ~flow'.spawned
      BY <1>2, <1>3, Zenon
    <3>2. fjob'[d].flow = {flow'}
      BY <1>3, <2>1
    <3> QED
      BY <1>1, <2>1, <2>2, <3>1, <3>2, LockIs, Zenon
  <2>4. Linked' /\ Rivals'
    BY <1>2, <1>3, <1>p, Zenon DEF Linked, Rivals
  <2>5. EndsKnown'
    <3>1. \A e \in FlowDrivers : fjob'[e].at = "adopting" =>
            fjob'[e] = fjob[e] /\ \A k \in fjob'[e].kid : k.stage \in {"budget", "plan"}
      <4>1. \A e \in FlowDrivers : fjob[e].at = "adopting" => \A k \in fjob[e].kid : k.stage \in {"budget", "plan"}
        BY <1>2, Unmade, Zenon
      <4>2. \A e \in FlowDrivers : fjob'[e].at = "adopting" => fjob'[e] = fjob[e]
        BY <2>1 DEF OnlyJob
      <4> QED
        BY <4>1, <4>2
    <3> QED
      BY <2>2, <3>1 DEF EndsKnown
  <2>6. Accounts'
    <3>1. fpast.twice \/ (PaidUpTo /\ flow.adopted = 0)
      BY <1>2, <1>p, Unmade, Zenon DEF Accounts
    <3> QED
      BY <1>1, <1>3, <3>1, Zenon DEF Accounts, PaidUpTo, AdoptedOnce, StepId
  <2>7. FlowTypeOK'
    BY <1>1, <1>3, <1>p, <2>1, <2>2, Zenon DEF FlowTypeOK, OnlyJob
  <2> QED
    BY <2>3, <2>4, <2>5, <2>6, <2>7, PartsInv
<1>4. CASE flow' = Stopped(flow, "workflow-start-failed") /\ fjob' = [fjob EXCEPT ![d] = AtRest] /\ kid' = kid
  <2>1. OnlyJob(d, "rest")
    BY <1>4, <1>q, JobRests, Zenon
  <2>2. "workflow-start-failed" \in FlowOutcomes \ WorkStages
    BY DEF FlowOutcomes, WorkStages
  <2>3. flow' \in FlowRecord /\ FlowKept(flow, flow') /\ Placed(flow')
    BY <1>4, <1>q, <2>2, StoppedFields, StoppedPlaced
  <2>4. FlowTypeOK'
    BY <1>1, <1>4, <1>p, <2>1, <2>3, TypeKept DEF OnlyJob
  <2> QED
    BY <1>1, <1>4, <2>1, <2>3, <2>4, SameUnpaid, HolderMoves
<1> QED
  BY <1>1, <1>3, <1>4, Zenon DEF CreateKid, FreshKid

LEMMA LinkedFields ==
    ASSUME NEW f \in FlowRecord, NEW g, g = [f EXCEPT !.child = TRUE]
    PROVE  /\ g \in FlowRecord /\ FlowAt(f, g) /\ g.child
           /\ g.steps = f.steps /\ g.pending = f.pending /\ g.taken = f.taken
           /\ g.spawned = f.spawned /\ g.adopted = f.adopted
<1>1. g \in FlowRecord
  BY Zenon DEF FlowRecord
<1>2. /\ FlowAt(f, g) /\ g.child
      /\ g.steps = f.steps /\ g.pending = f.pending /\ g.taken = f.taken
      /\ g.spawned = f.spawned /\ g.adopted = f.adopted
  BY DEF FlowRecord, FlowAt
<1> QED
  BY <1>1, <1>2

LEMMA JobEmptied ==
    ASSUME NEW j \in Jobs, NEW x \in JobAts
    PROVE  /\ [[j EXCEPT !.at = x] EXCEPT !.flow = {}] \in Jobs
           /\ [[j EXCEPT !.at = x] EXCEPT !.flow = {}].at = x
<1>1. [[j EXCEPT !.at = x] EXCEPT !.flow = {}] \in Jobs
  <2>1. {} \in SUBSET FlowRecord
    OBVIOUS
  <2> QED
    BY <2>1, Zenon DEF Jobs
<1>2. [[j EXCEPT !.at = x] EXCEPT !.flow = {}].at = x
  BY DEF Jobs
<1> QED
  BY <1>1, <1>2

LEMMA LinkKeeps == ASSUME FlowInv, NEW d \in FlowDrivers, LinkKid(d) PROVE FlowInv'
<1>p. LockHeld /\ Linked /\ Rivals /\ EndsKnown /\ Accounts /\ FlowTypeOK
  BY InvParts
<1>q. flow \in FlowRecord /\ fjob \in [FlowDrivers -> Jobs] /\ Placed(flow)
  BY FreeRun
<1>1. /\ fjob[d].at = "linking" /\ fjob[d].at \in Holding /\ fjob[d].flow = {flow}
      /\ \A e \in FlowDrivers \ {d} : fjob[e].at \notin Holding
      /\ bill' = bill /\ fpast' = fpast /\ kid' = kid
  BY <1>p, Holder DEF LinkKid, Holding
<1>2. kid.made /\ flow.pending = "" /\ flow.stage = "spawn" /\ ~flow.child /\ ~flow.spawned
  BY <1>1, <1>p, Zenon DEF LockHeld
<1>3. flow' = [flow EXCEPT !.child = TRUE]
  BY <1>1, Zenon DEF LinkKid
<1>4. /\ flow' \in FlowRecord /\ FlowAt(flow, flow') /\ flow'.child
      /\ flow'.steps = flow.steps /\ flow'.pending = flow.pending /\ flow'.taken = flow.taken
      /\ flow'.spawned = flow.spawned /\ flow'.adopted = flow.adopted
  BY <1>3, <1>q, LinkedFields, Zenon
<1>5. PICK j \in Jobs : j = [[fjob[d] EXCEPT !.at = "driving"] EXCEPT !.flow = {}]
  BY <1>q, JobEmptied, Zenon DEF JobAts
<1>6. j.at = "driving"
  BY <1>5, <1>q, JobEmptied, Zenon DEF JobAts
<1>7. fjob' = [fjob EXCEPT ![d] = j]
  BY <1>5, <1>q, Zenon DEF LinkKid
<1>8. OnlyJob(d, "driving")
  BY <1>6, <1>7, <1>q, JobSet
<1>9. LockHeld'
  <2>1. "driving" \notin Holding
    BY DEF Holding
  <2> QED
    BY <1>1, <1>2, <1>8, <2>1, LockIs, Zenon
<1>10. Linked'
  <2>1. Placed(flow')
    <3>1. flow'.stage = "spawn" /\ flow'.phase = ""
      BY <1>2, <1>4, <1>q, Zenon DEF Placed, FlowAt
    <3> QED
      BY <3>1, Zenon DEF Placed
  <2> QED
    BY <1>1, <1>2, <1>4, <2>1, Zenon DEF Linked
<1>11. Rivals'
  BY <1>2, <1>4, Zenon DEF Rivals
<1>12. EndsKnown'
  BY <1>1, <1>p, <1>8, EndsStay
<1>13. Accounts'
  <2>1. fpast.twice \/ (PaidUpTo /\ flow.adopted = 0)
    BY <1>2, <1>p, Zenon DEF Accounts, AdoptedOnce
  <2> QED
    BY <1>1, <1>4, <2>1, Zenon DEF Accounts, PaidUpTo, AdoptedOnce, StepId
<1>14. FlowTypeOK'
  BY <1>1, <1>4, <1>p, <1>8, TypeKept DEF OnlyJob
<1> QED
  BY <1>9, <1>10, <1>11, <1>12, <1>13, <1>14, PartsInv

\* One action of the child: what it may have become.
KidMoved ==
    /\ kid' \in KidRecord /\ kid'.made = kid.made /\ kid'.stage # "none"
    /\ kid.stage # "working" => kid' = kid

KidStopped == {"budget", "plan"} \cup KidEnds

KidFails(k) == [k EXCEPT !.stage = "failed", !.acts = k.acts + 1]
KidWorks(k) == [k EXCEPT !.left = k.left - 1, !.acts = k.acts + 1]
KidStops(k, o) ==
    [k EXCEPT !.stage = o, !.acts = k.acts + 1, !.left = IF o = "succeeded" THEN 0 ELSE k.left]

LEMMA KidCounts == ASSUME NEW k \in KidRecord PROVE k.acts + 1 \in Nat /\ k.left \in Nat
  BY DEF KidRecord

LEMMA KidFailsFields ==
    ASSUME NEW k \in KidRecord
    PROVE  KidFails(k) \in KidRecord /\ KidFails(k).made = k.made /\ KidFails(k).stage = "failed"
<1>1. "failed" \in {"none", "working", "budget", "plan"} \cup KidEnds /\ k.acts + 1 \in Nat
  BY KidCounts DEF KidEnds
<1>2. KidFails(k) \in KidRecord
  BY <1>1, Zenon DEF KidRecord, KidFails
<1>3. KidFails(k).made = k.made /\ KidFails(k).stage = "failed"
  BY DEF KidRecord, KidFails
<1> QED
  BY <1>2, <1>3

LEMMA KidWorksFields ==
    ASSUME NEW k \in KidRecord, k.left > 1
    PROVE  KidWorks(k) \in KidRecord /\ KidWorks(k).made = k.made /\ KidWorks(k).stage = k.stage
<1>1. k.left - 1 \in Nat /\ k.acts + 1 \in Nat
  BY KidCounts
<1>2. KidWorks(k) \in KidRecord
  BY <1>1, Zenon DEF KidRecord, KidWorks
<1>3. KidWorks(k).made = k.made /\ KidWorks(k).stage = k.stage
  BY DEF KidRecord, KidWorks
<1> QED
  BY <1>2, <1>3

LEMMA KidStopsFields ==
    ASSUME NEW k \in KidRecord, NEW o \in KidStopped
    PROVE  KidStops(k, o) \in KidRecord /\ KidStops(k, o).made = k.made /\ KidStops(k, o).stage = o
<1>1. o \in {"none", "working", "budget", "plan"} \cup KidEnds /\ k.acts + 1 \in Nat
  BY KidCounts DEF KidStopped
<1>2. PICK n \in Nat : n = IF o = "succeeded" THEN 0 ELSE k.left
  BY KidCounts
<1>3. KidStops(k, o) = [k EXCEPT !.stage = o, !.acts = k.acts + 1, !.left = n]
  BY <1>2, Zenon DEF KidStops
<1>4. PICK g : g = [k EXCEPT !.stage = o, !.acts = k.acts + 1, !.left = n]
  OBVIOUS
<1>5. g \in KidRecord
  BY <1>1, <1>2, <1>4, Zenon DEF KidRecord
<1>6. g.made = k.made /\ g.stage = o
  BY <1>4 DEF KidRecord
<1>7. g = KidStops(k, o)
  BY <1>3, <1>4
<1> QED
  BY <1>5, <1>6, <1>7, Zenon

LEMMA DriveMoves ==
    ASSUME FlowConstants, FlowInv, NEW d \in FlowDrivers, DriveKid(d)
    PROVE  KidMoved
<1>1. kid \in KidRecord /\ kid.made /\ kid.stage # "none"
  <2>1. fjob[d].at = "driving"
    BY Zenon DEF DriveKid
  <2>2. LockHeld /\ EndsKnown /\ FlowTypeOK
    BY InvParts
  <2>3. kid.made
    BY <2>1, <2>2, DrivingMade
  <2> QED
    BY <2>2, <2>3 DEF EndsKnown, FlowTypeOK
<1>2. CASE kid.stage # "working" /\ kid' = kid
  BY <1>1, <1>2, Zenon DEF KidMoved
<1>3. CASE kid.stage = "working" /\ kid' = KidFails(kid)
  BY <1>1, <1>3, KidFailsFields, Zenon DEF KidMoved
<1>4. CASE kid.stage = "working" /\ kid.left > 1 /\ kid' = KidWorks(kid)
  BY <1>1, <1>4, KidWorksFields, Zenon DEF KidMoved
<1>5. CASE kid.stage = "working" /\ \E o \in KidOutcomes : kid' = KidStops(kid, o)
  <2>1. PICK o \in KidStopped : kid' = KidStops(kid, o)
    BY <1>5 DEF FlowConstants, KidEnds, KidStopped
  <2>2. o # "none"
    BY DEF KidEnds, KidStopped
  <2>3. kid' \in KidRecord /\ kid'.made = kid.made /\ kid'.stage = o
    BY ZenonT(60), <1>1, <2>1, KidStopsFields
  <2>4. kid'.stage # "none"
    BY <2>2, <2>3, Zenon
  <2> QED
    BY <1>5, <2>3, <2>4, Zenon DEF KidMoved
<1> QED
  BY <1>2, <1>3, <1>4, <1>5, Zenon DEF DriveKid, KidFails, KidWorks, KidStops

\* A child that moved had not ended, so nothing of it is adopted or held.
LEMMA MovedEnds ==
    ASSUME EndsKnown, KidMoved, kid.made,
           NEW d \in FlowDrivers, \A e \in FlowDrivers \ {d} : fjob'[e] = fjob[e],
           fjob'[d].at = "adopting" => fjob'[d].kid = {kid'} /\ kid'.stage # "working"
    PROVE  EndsKnown'
<1>1. kid'.made /\ kid'.stage # "none" /\ kid' \in KidRecord
  BY DEF KidMoved
<1>2. kid.stage \in KidEnds => kid' = kid
  BY DEF KidMoved, KidEnds
<1>3. ASSUME NEW e \in FlowDrivers, fjob'[e].at = "adopting", NEW k \in fjob'[e].kid
      PROVE  k.stage \in {"budget", "plan"} \/ (k = kid' /\ kid'.stage \in KidEnds)
  <2>1. CASE e = d
    <3>1. k = kid' /\ kid'.stage # "working"
      BY <1>3, <2>1
    <3>2. kid'.stage \in {"none", "working", "budget", "plan"} \cup KidEnds
      BY <1>1 DEF KidRecord
    <3> QED
      BY <1>1, <3>1, <3>2
  <2>2. CASE e # d
    <3>1. fjob[e].at = "adopting" /\ k \in fjob[e].kid
      BY <1>3, <2>2
    <3>2. k.stage \in {"budget", "plan"} \/ (k = kid /\ kid.stage \in KidEnds)
      BY <3>1 DEF EndsKnown
    <3> QED
      BY <1>2, <3>2
  <2> QED
    BY <2>1, <2>2
<1> QED
  BY <1>1, <1>3, Zenon DEF EndsKnown

LEMMA MovedAccounts ==
    ASSUME Accounts, KidMoved, flow' = flow, bill' = bill, NothingPast
    PROVE  Accounts'
<1>1. kid.stage \in KidEnds => kid' = kid
  BY DEF KidMoved, KidEnds
<1> QED
  BY <1>1, Zenon DEF Accounts, PaidUpTo, AdoptedOnce, NothingPast, StepId

LEMMA UntimedPast ==
    ASSUME FlowTypeOK, fpast' = fpast \/ fpast' = [fpast EXCEPT !.untimed = TRUE]
    PROVE  /\ fpast' \in [crashes : Nat, untimed : BOOLEAN, other : BOOLEAN, twice : BOOLEAN]
           /\ NothingPast
<1>1. fpast \in [crashes : Nat, untimed : BOOLEAN, other : BOOLEAN, twice : BOOLEAN]
  BY DEF FlowTypeOK
<1>2. CASE fpast' = fpast
  BY <1>1, <1>2 DEF NothingPast
<1>3. CASE fpast' = [fpast EXCEPT !.untimed = TRUE]
  BY <1>1, <1>3 DEF NothingPast
<1> QED
  BY <1>2, <1>3

LEMMA AdoptingJob ==
    ASSUME NEW k \in KidRecord, NEW j, j = [AtRest EXCEPT !.at = "adopting", !.kid = {k}]
    PROVE  j \in Jobs /\ j.at = "adopting" /\ j.kid = {k}
<1>1. j = [at |-> "adopting", flow |-> {}, kid |-> {k}, time |-> FALSE]
  BY DEF AtRest
<1>2. "adopting" \in JobAts /\ {} \in SUBSET FlowRecord /\ {k} \in SUBSET KidRecord /\ FALSE \in BOOLEAN
  BY DEF JobAts
<1>3. [at |-> "adopting", flow |-> {}, kid |-> {k}, time |-> FALSE] \in Jobs
  BY <1>2, JobIn
<1>4. j \in Jobs
  BY <1>1, <1>3, Zenon
<1> QED
  BY <1>1, <1>4

LEMMA DriveKeeps == ASSUME FlowConstants, FlowInv, NEW d \in FlowDrivers, DriveKid(d) PROVE FlowInv'
<1>p. LockHeld /\ Linked /\ Rivals /\ EndsKnown /\ Accounts /\ FlowTypeOK
  BY InvParts
<1>q. fjob \in [FlowDrivers -> Jobs]
  BY FreeRun
<1>1. KidMoved
  BY DriveMoves
<1>2. fjob[d].at = "driving" /\ flow' = flow /\ bill' = bill
  BY Zenon DEF DriveKid
<1>3. /\ fpast' \in [crashes : Nat, untimed : BOOLEAN, other : BOOLEAN, twice : BOOLEAN]
      /\ NothingPast
  <2>1. fpast' = fpast \/ fpast' = [fpast EXCEPT !.untimed = TRUE]
    BY Zenon DEF DriveKid
  <2> QED
    BY <1>p, <2>1, UntimedPast
<1>4. kid.made
  BY <1>2, <1>p, DrivingMade
<1>5. \E x \in {"rest", "adopting"} :
        /\ OnlyJob(d, x)
        /\ x = "adopting" => fjob'[d].kid = {kid'} /\ kid'.stage # "working"
  <2>1. CASE kid'.stage = "working"
    <3>1. fjob' = [fjob EXCEPT ![d] = AtRest]
      BY <2>1, Zenon DEF DriveKid
    <3> QED
      BY <1>q, <3>1, JobRests, Zenon
  <2>2. CASE kid'.stage # "working"
    <3>1. fjob' = [fjob EXCEPT ![d] = [AtRest EXCEPT !.at = "adopting", !.kid = {kid'}]]
      BY <2>2, Zenon DEF DriveKid
    <3>2. PICK j : j = [AtRest EXCEPT !.at = "adopting", !.kid = {kid'}]
      OBVIOUS
    <3>3. j \in Jobs /\ j.at = "adopting" /\ j.kid = {kid'}
      BY <1>1, <3>2, AdoptingJob, Zenon DEF KidMoved
    <3>4. fjob' = [fjob EXCEPT ![d] = j]
      BY <3>1, <3>2, Zenon
    <3>5. OnlyJob(d, "adopting") /\ fjob'[d] = j
      <4>1. OnlyJob(d, j.at) /\ fjob'[d] = j
        BY <1>q, <3>3, <3>4, JobSet, Zenon
      <4> QED
        BY ZenonT(60), <3>3, <4>1
    <3> QED
      BY <2>2, <3>3, <3>5
  <2> QED
    BY <2>1, <2>2
<1>6. PICK x \in {"rest", "adopting"} :
        /\ OnlyJob(d, x)
        /\ x = "adopting" => fjob'[d].kid = {kid'} /\ kid'.stage # "working"
  BY <1>5
<1>7. /\ fjob' \in [FlowDrivers -> Jobs] /\ fjob'[d].at = x
      /\ \A e \in FlowDrivers \ {d} : fjob'[e] = fjob[e]
  BY <1>6 DEF OnlyJob
<1>8. LockHeld'
  <2>1. x \notin Holding /\ x # "driving"
    BY DEF Holding
  <2>2. kid'.made = kid.made
    BY <1>1 DEF KidMoved
  <2> QED
    BY <1>2, <1>6, <1>p, <2>1, <2>2, LockStays
<1>9. Linked'
  BY <1>1, <1>2, <1>p DEF Linked, KidMoved
<1>10. Rivals'
  <2>1. (\E e \in FlowDrivers : fjob'[e].at \in {"driving", "adopting"}) =>
          \E e \in FlowDrivers : fjob[e].at \in {"driving", "adopting"}
    BY <1>2
  <2> QED
    BY <1>2, <1>3, <1>p, <2>1, Zenon DEF Rivals, NothingPast
<1>11. EndsKnown'
  BY <1>1, <1>4, <1>6, <1>7, <1>p, MovedEnds
<1>12. Accounts'
  BY <1>1, <1>2, <1>3, <1>p, MovedAccounts
<1>13. FlowTypeOK'
  BY <1>1, <1>2, <1>3, <1>7, <1>p, Zenon DEF FlowTypeOK, KidMoved
<1> QED
  BY <1>8, <1>9, <1>10, <1>11, <1>12, <1>13, PartsInv

\* The parent waits where its child does.
PhaseSet(f, p) == [f EXCEPT !.phase = p]

LEMMA PhaseFields ==
    ASSUME NEW f \in FlowRecord, NEW p \in FlowPhases
    PROVE  /\ PhaseSet(f, p) \in FlowRecord /\ FlowKept(f, PhaseSet(f, p))
           /\ PhaseSet(f, p).stage = f.stage /\ PhaseSet(f, p).outcome = f.outcome
           /\ PhaseSet(f, p).phase = p
<1>1. PhaseSet(f, p) \in FlowRecord
  BY Zenon DEF FlowRecord, PhaseSet
<1>2. /\ FlowKept(f, PhaseSet(f, p))
      /\ PhaseSet(f, p).stage = f.stage /\ PhaseSet(f, p).outcome = f.outcome
      /\ PhaseSet(f, p).phase = p
  BY DEF FlowRecord, FlowKept, PhaseSet
<1> QED
  BY <1>1, <1>2

LEMMA KeptTwice ==
    ASSUME NEW f, NEW g, NEW h, FlowKept(f, g), FlowKept(g, h) PROVE FlowKept(f, h)
  BY DEF FlowKept

\* A stop, and the stage the operator's decision will reopen.
LEMMA WaitFields ==
    ASSUME NEW f \in FlowRecord, Placed(f), NEW r \in {"child-budget", "child-plan"},
           NEW p, p = "spawn" \/ p = Stopped(f, r).phase
    PROVE  /\ PhaseSet(Stopped(f, r), p) \in FlowRecord
           /\ FlowKept(f, PhaseSet(Stopped(f, r), p)) /\ Placed(PhaseSet(Stopped(f, r), p))
<1>1. r \in FlowOutcomes /\ r \notin WorkStages
  BY Zenon DEF FlowOutcomes, WorkStages
<1>2. PICK g \in FlowRecord : g = Stopped(f, r)
  BY <1>1, StoppedFields
<1>3. FlowKept(f, g) /\ g.stage = "halted" /\ g.outcome = r /\ Placed(g)
  BY <1>1, <1>2, StoppedFields, StoppedPlaced
<1>4. p = "spawn" \/ p = g.phase
  BY <1>2
<1>5. p \in FlowPhases
  <2>1. "spawn" \in FlowPhases /\ g.phase \in FlowPhases
    BY <1>2, Worked DEF FlowRecord
  <2> QED
    BY <1>4, <2>1
<1>6. PICK h : h = PhaseSet(g, p)
  OBVIOUS
<1>7. /\ h \in FlowRecord /\ FlowKept(g, h) /\ h.stage = g.stage /\ h.outcome = g.outcome
      /\ h.phase = p
  BY <1>2, <1>5, <1>6, PhaseFields, Zenon
<1>8. Placed(h)
  <2>1. h.child = g.child
    BY <1>7 DEF FlowKept
  <2>2. g.child => p \in {"", "spawn"}
    BY <1>3, <1>4, Zenon DEF Placed
  <2> QED
    BY <1>1, <1>3, <1>7, <2>1, <2>2, Zenon DEF Placed
<1>9. FlowKept(f, h)
  BY <1>3, <1>7, KeptTwice, Zenon
<1> QED
  BY <1>2, <1>6, <1>7, <1>8, <1>9

LEMMA FreeRests ==
    ASSUME NEW d \in FlowDrivers, OnlyJob(d, "rest"), ~Locked
    PROVE  /\ \A e \in FlowDrivers : fjob'[e] = fjob[e] \/ fjob'[e].at = "rest"
           /\ \A e \in FlowDrivers : fjob'[e].at \notin Holding
<1>1. \A e \in FlowDrivers : fjob[e].at \notin Holding
  BY FreeNow
<1>2. "rest" \notin Holding
  BY DEF Holding
<1> QED
  BY <1>1, <1>2 DEF OnlyJob

LEMMA AwaitKeeps == ASSUME FlowInv, NEW d \in FlowDrivers, AwaitKid(d) PROVE FlowInv'
<1>q. FlowTypeOK /\ flow \in FlowRecord /\ fjob \in [FlowDrivers -> Jobs] /\ Placed(flow)
  BY FreeRun
<1>1. /\ ~Locked /\ kid' = kid /\ bill' = bill /\ fpast' = fpast
      /\ fjob' = [fjob EXCEPT ![d] = AtRest]
  BY DEF AwaitKid
<1>2. OnlyJob(d, "rest")
  BY <1>1, <1>q, JobRests
<1>3. \E r \in {"child-budget", "child-plan"} : \E p :
        (p = "spawn" \/ p = Stopped(flow, r).phase) /\ flow' = PhaseSet(Stopped(flow, r), p)
  <2>1. PICK k \in fjob[d].kid :
          /\ k.stage \in {"budget", "plan"}
          /\ flow' = [Stopped(flow, IF k.stage = "budget" THEN "child-budget" ELSE "child-plan")
                        EXCEPT !.phase = IF k.stage = "plan" THEN "spawn" ELSE @]
    BY Zenon DEF AwaitKid
  <2>2. PICK r \in {"child-budget", "child-plan"} :
          r = IF k.stage = "budget" THEN "child-budget" ELSE "child-plan"
    OBVIOUS
  <2>3. PICK p : p = IF k.stage = "plan" THEN "spawn" ELSE Stopped(flow, r).phase
    OBVIOUS
  <2>4. flow' = PhaseSet(Stopped(flow, r), p)
    BY <2>1, <2>2, <2>3, Zenon DEF PhaseSet
  <2>5. p = "spawn" \/ p = Stopped(flow, r).phase
    BY <2>3, Zenon
  <2> QED
    BY <2>2, <2>4, <2>5, Zenon
<1>4. flow' \in FlowRecord /\ FlowKept(flow, flow') /\ Placed(flow')
  BY <1>3, <1>q, WaitFields, Zenon
<1>5. FlowTypeOK'
  BY <1>1, <1>2, <1>4, <1>q, TypeKept DEF OnlyJob
<1> QED
  BY <1>1, <1>2, <1>4, <1>5, FreeRests, SameUnpaid, MoveKeeps

LEMMA CrashedPast ==
    ASSUME FlowTypeOK, fpast' = [fpast EXCEPT !.crashes = @ + 1]
    PROVE  /\ fpast' \in [crashes : Nat, untimed : BOOLEAN, other : BOOLEAN, twice : BOOLEAN]
           /\ NothingPast
  BY DEF FlowTypeOK, NothingPast

LEMMA CrashKeeps == ASSUME FlowInv, NEW d \in FlowDrivers, FlowCrash(d) PROVE FlowInv'
<1>p. LockHeld /\ Linked /\ Rivals /\ EndsKnown /\ Accounts /\ FlowTypeOK
  BY InvParts
<1>q. fjob \in [FlowDrivers -> Jobs]
  BY FreeRun
<1>1. /\ flow' = flow /\ kid' = kid /\ bill' = bill
      /\ fjob' = [fjob EXCEPT ![d] = AtRest] /\ fpast' = [fpast EXCEPT !.crashes = @ + 1]
  BY DEF FlowCrash
<1>2. OnlyJob(d, "rest")
  BY <1>1, <1>q, JobRests
<1>3. /\ fpast' \in [crashes : Nat, untimed : BOOLEAN, other : BOOLEAN, twice : BOOLEAN]
      /\ NothingPast
  BY <1>1, <1>p, CrashedPast
<1>4. LockHeld'
  BY <1>1, <1>2, <1>p, LockStays DEF Holding
<1>5. Linked'
  BY <1>1, <1>p DEF Linked
<1>6. Rivals'
  <2>1. (\E e \in FlowDrivers : fjob'[e].at \in {"driving", "adopting"}) =>
          \E e \in FlowDrivers : fjob[e].at \in {"driving", "adopting"}
    BY <1>2 DEF OnlyJob
  <2> QED
    BY <1>1, <1>3, <1>p, <2>1, Zenon DEF Rivals, NothingPast
<1>7. EndsKnown'
  BY <1>1, <1>2, <1>p, EndsStay
<1>8. Accounts'
  BY <1>1, <1>3, <1>p, AccountsStay, SameUnpaid
<1>9. FlowTypeOK'
  BY <1>1, <1>2, <1>3, <1>p, Zenon DEF FlowTypeOK, OnlyJob
<1> QED
  BY <1>4, <1>5, <1>6, <1>7, <1>8, <1>9, PartsInv

\* The operator reopens a run where it stopped.
Reopened(f) == [f EXCEPT !.stage = f.phase, !.outcome = "", !.phase = ""]

LEMMA ReopenedFields ==
    ASSUME NEW f \in FlowRecord, Placed(f)
    PROVE  /\ Reopened(f) \in FlowRecord /\ FlowKept(f, Reopened(f)) /\ Placed(Reopened(f))
           /\ Reopened(f).stage # "halted"
<1>1. PICK x \in FlowPhases : x = f.phase
  BY DEF FlowRecord
<1>2. x \in FlowStages /\ x # "halted"
  BY FlowStrings, Zenon
<1>3. PICK g : g = [f EXCEPT !.stage = x, !.outcome = "", !.phase = ""]
  OBVIOUS
<1>4. g \in FlowRecord
  <2>1. "" \in FlowOutcomes /\ "" \in FlowPhases
    BY FlowStrings, Zenon
  <2> QED
    BY <1>2, <1>3, <2>1, Zenon DEF FlowRecord
<1>5. FlowKept(f, g) /\ g.stage = x /\ g.outcome = "" /\ g.phase = ""
  BY <1>3 DEF FlowRecord, FlowKept
<1>6. Reopened(f) = g
  BY <1>1, <1>3, Zenon DEF Reopened
<1>7. f.child => x \in {"", "spawn"}
  BY <1>1, Zenon DEF Placed
<1>8. g.child = f.child
  BY <1>5, Zenon DEF FlowKept
<1>9. Placed(g)
  BY <1>2, <1>5, <1>7, <1>8, Zenon DEF Placed
<1>10. g.stage # "halted"
  BY <1>2, <1>5, Zenon
<1> QED
  BY <1>4, <1>5, <1>6, <1>9, <1>10, Zenon

LEMMA KidReopens ==
    ASSUME FlowTypeOK, NEW x \in {"budget", "plan"},
           kid' = IF kid.stage = x THEN [kid EXCEPT !.stage = "working"] ELSE kid
    PROVE  kid' \in KidRecord /\ KidStays
<1>1. kid \in KidRecord
  BY DEF FlowTypeOK
<1>2. CASE kid.stage = x
  <2>1. kid' = [kid EXCEPT !.stage = "working"]
    BY <1>2
  <2>2. "working" \in {"none", "working", "budget", "plan"} \cup KidEnds
    OBVIOUS
  <2>3. kid' \in KidRecord
    BY <1>1, <2>1, <2>2, Zenon DEF KidRecord
  <2>4. kid'.stage = "working" /\ kid'.made = kid.made
    BY <1>1, <2>1 DEF KidRecord
  <2> QED
    BY <1>2, <2>3, <2>4 DEF KidStays
<1>3. CASE kid.stage # x
  BY <1>1, <1>3 DEF KidStays
<1> QED
  BY <1>2, <1>3

LEMMA ApproveKeeps == ASSUME FlowInv, ApproveKid PROVE FlowInv'
<1>q. FlowTypeOK /\ flow \in FlowRecord /\ fjob \in [FlowDrivers -> Jobs] /\ Placed(flow)
  BY FreeRun
<1>1. /\ ~Locked /\ bill' = bill /\ fjob' = fjob /\ fpast' = fpast /\ flow' = Reopened(flow)
      /\ kid' = IF kid.stage = "plan" THEN [kid EXCEPT !.stage = "working"] ELSE kid
  BY Zenon DEF ApproveKid, Reopened
<1>2. kid' \in KidRecord /\ KidStays
  BY <1>1, <1>q, KidReopens
<1>3. flow' \in FlowRecord /\ FlowKept(flow, flow') /\ Placed(flow')
  BY <1>1, <1>q, ReopenedFields
<1>4. FlowTypeOK'
  BY <1>1, <1>2, <1>3, <1>q, Zenon DEF FlowTypeOK
<1> QED
  BY <1>1, <1>2, <1>3, <1>4, SameUnpaid, FreeMoves

LEMMA RetryKeeps == ASSUME FlowInv, RetryWork PROVE FlowInv'
<1>q. FlowTypeOK /\ flow \in FlowRecord /\ fjob \in [FlowDrivers -> Jobs] /\ Placed(flow)
  BY FreeRun
<1>1. /\ ~Locked /\ bill' = bill /\ fjob' = fjob /\ fpast' = fpast /\ kid' = kid
      /\ flow.stage = "halted" /\ flow.outcome \in WorkStages
      /\ flow' = [flow EXCEPT !.stage = flow.outcome, !.outcome = ""]
  BY DEF RetryWork
<1>2. ~flow.child /\ flow.phase = ""
  BY <1>1, <1>q, Zenon DEF Placed
<1>3. flow' = Ended(flow, flow.outcome, "")
  BY <1>1, Zenon DEF Ended
<1>4. flow.outcome \in FlowStages /\ "" \in FlowOutcomes
  BY <1>1, FlowStrings, Zenon
<1>5. flow' \in FlowRecord /\ FlowKept(flow, flow') /\ flow'.phase = flow.phase
  BY ZenonT(60), <1>3, <1>4, <1>q, EndedFields
<1>6. Placed(flow')
  BY <1>2, <1>5, ReworkedPlaced, Zenon
<1> QED
  BY <1>1, <1>5, <1>6, PlainMove

LEMMA GrantedBill ==
    ASSUME FlowTypeOK, bill' = [bill EXCEPT !.grant = @ + 1]
    PROVE  bill' \in BillRecord /\ Unpaid
  BY DEF FlowTypeOK, BillRecord, Unpaid

LEMMA ContinueKeeps == ASSUME FlowConstants, FlowInv, NEW d \in FlowDrivers, ContinueFlow(d) PROVE FlowInv'
<1>q. FlowTypeOK /\ flow \in FlowRecord /\ fjob \in [FlowDrivers -> Jobs] /\ Placed(flow)
  BY FreeRun
<1>1. /\ ~Locked /\ fpast' = fpast /\ bill' = [bill EXCEPT !.grant = @ + 1]
      /\ kid' = IF kid.stage = "budget" THEN [kid EXCEPT !.stage = "working"] ELSE kid
  BY Zenon DEF ContinueFlow
<1>2. bill' \in BillRecord /\ Unpaid
  BY <1>1, <1>q, GrantedBill
<1>3. kid' \in KidRecord /\ KidStays
  BY <1>1, <1>q, KidReopens
<1>4. PICK f \in FlowRecord : f = Reopened(flow)
  BY <1>q, ReopenedFields
<1>5. FlowKept(flow, f) /\ Placed(f) /\ f.stage # "halted"
  BY <1>4, <1>q, ReopenedFields
<1>6. CASE flow' = flow /\ fjob' = fjob
  <2>1. FlowTypeOK'
    BY <1>1, <1>2, <1>3, <1>6, <1>q, Zenon DEF FlowTypeOK, BillRecord
  <2>2. FlowKept(flow, flow') /\ Placed(flow')
    BY <1>6, <1>q, SavedSame
  <2> QED
    BY <1>1, <1>2, <1>3, <1>6, <2>1, <2>2, SameUnpaid, FreeMoves
<1>7. CASE flow' = f /\ fjob' = fjob
  <2>1. FlowTypeOK'
    BY <1>1, <1>2, <1>3, <1>4, <1>7, <1>q, Zenon DEF FlowTypeOK, BillRecord
  <2>2. FlowKept(flow, flow') /\ Placed(flow')
    BY <1>5, <1>7
  <2> QED
    BY <1>1, <1>2, <1>3, <1>7, <2>1, <2>2, SameUnpaid, FreeMoves
<1>8. CASE f.pending # "" /\ Save(d, f, f.pending)
  <2>1. f.pending \in FlowAnswers
    BY <1>4, <1>8, Zenon DEF FlowRecord, Pendings
  <2>2. Saves(d, f, f.pending)
    BY <1>4, <1>8, <1>q, <2>1, SaveIsSaves, Zenon
  <2>3. flow' \in FlowRecord /\ fjob' \in [FlowDrivers -> Jobs]
    BY <2>2 DEF Saves
  <2>4. FlowTypeOK'
    BY <1>1, <1>2, <1>3, <1>q, <2>3, Zenon DEF FlowTypeOK, BillRecord
  <2>5. FlowSaved(flow, f) /\ flow.pending # ""
    BY <1>5, <1>8, KeptSaved, Zenon
  <2> QED
    BY <1>1, <1>2, <1>3, <1>4, <1>5, <2>1, <2>2, <2>4, <2>5, SameUnpaid, SaveKeeps, Zenon
<1> QED
  BY <1>4, <1>6, <1>7, <1>8, Zenon DEF ContinueFlow, Reopened

\* The parent takes over what the child made.
LEMMA AdoptedFields ==
    ASSUME FlowConstants, NEW f \in FlowRecord, NEW k \in KidRecord
    PROVE  /\ Adopted(f, k) \in FlowRecord /\ FlowAt(f, Adopted(f, k))
           /\ Adopted(f, k).child = f.child /\ Adopted(f, k).taken = f.taken
           /\ Adopted(f, k).spawned = f.spawned
           /\ Adopted(f, k).steps = f.steps + KidSteps /\ Adopted(f, k).adopted = f.adopted + k.acts
<1>1. f.steps + KidSteps \in Nat /\ f.adopted + k.acts \in Nat
  BY DEF FlowConstants, FlowRecord, KidRecord
<1>2. PICK b \in BOOLEAN : b = (f.diff \/ k.stage = "succeeded")
  OBVIOUS
<1>3. Adopted(f, k) = [f EXCEPT !.adopted = f.adopted + k.acts, !.steps = f.steps + KidSteps, !.diff = b]
  BY <1>2, Zenon DEF Adopted
<1>4. Adopted(f, k) \in FlowRecord
  <2>1. PICK m \in Nat : m = f.steps + KidSteps
    BY <1>1
  <2>2. PICK n \in Nat : n = f.adopted + k.acts
    BY <1>1
  <2>3. PICK g : g = [f EXCEPT !.adopted = n, !.steps = m, !.diff = b]
    OBVIOUS
  <2>4. g \in FlowRecord
    BY <1>2, <2>1, <2>2, <2>3, Zenon DEF FlowRecord
  <2>5. Adopted(f, k) = g
    BY <1>3, <2>1, <2>2, <2>3, Zenon
  <2> QED
    BY <2>4, <2>5, Zenon
<1>5. /\ FlowAt(f, Adopted(f, k))
      /\ Adopted(f, k).child = f.child /\ Adopted(f, k).taken = f.taken
      /\ Adopted(f, k).spawned = f.spawned
      /\ Adopted(f, k).steps = f.steps + KidSteps /\ Adopted(f, k).adopted = f.adopted + k.acts
  BY <1>3, Zenon DEF FlowRecord, FlowAt
<1> QED
  BY <1>4, <1>5

LEMMA EndAnswers ==
    ASSUME NEW k, k.stage \in KidEnds PROVE KidAnswer(k) \in FlowAnswers
<1>1. KidAnswer(k) \in Required("spawn")
  BY DEF KidAnswer, KidEnds, Required
<1> QED
  BY <1>1 DEF FlowAnswers, WorkAnswers

\* The accounts of a parent that adopts a child nobody else adopted.
LEMMA RangeUp ==
    ASSUME NEW n \in Nat, NEW k \in Nat, NEW i \in 1 .. (n + 1)
    PROVE  i \in 1 .. ((n + k) + 1) /\ (i = (n + k) + 1 => i = n + 1)
  OBVIOUS

LEMMA AdoptPays ==
    ASSUME PaidUpTo, flow.pending = "", flow.steps \in Nat, KidSteps \in Nat, bill' = bill,
           flow'.steps = flow.steps + KidSteps, flow'.taken = flow.taken
    PROVE  PaidUpTo'
<1> DEFINE n == flow.steps
           m == flow'.steps
<1>1. bill.paid \subseteq 1 .. (n + 1) /\ n + 1 \notin bill.paid /\ bill.steps = flow.taken
  BY Zenon DEF PaidUpTo, StepId
<1>2. n \in Nat /\ m = n + KidSteps
  OBVIOUS
<1>3. StepId(flow') = m + 1
  BY Zenon DEF StepId
<1> HIDE DEF n, m
<1>4. \A i \in 1 .. (n + 1) : i \in 1 .. (m + 1) /\ (i = m + 1 => i = n + 1)
  BY <1>2, RangeUp, Zenon
<1>5. bill.paid \subseteq 1 .. (m + 1) /\ m + 1 \notin bill.paid
  BY <1>1, <1>4, Zenon
<1> QED
  BY <1>1, <1>3, <1>5, Zenon DEF PaidUpTo

LEMMA AdoptPast ==
    ASSUME FlowTypeOK, NEW b \in BOOLEAN, NEW c \in BOOLEAN,
           fpast' = [fpast EXCEPT !.other = b, !.twice = c]
    PROVE  /\ fpast' \in [crashes : Nat, untimed : BOOLEAN, other : BOOLEAN, twice : BOOLEAN]
           /\ fpast'.other = b /\ fpast'.twice = c
<1>1. fpast \in [crashes : Nat, untimed : BOOLEAN, other : BOOLEAN, twice : BOOLEAN]
  BY DEF FlowTypeOK
<1>2. fpast' \in [crashes : Nat, untimed : BOOLEAN, other : BOOLEAN, twice : BOOLEAN]
  BY <1>1, Zenon
<1>3. fpast'.other = b /\ fpast'.twice = c
  BY <1>1
<1> QED
  BY <1>2, <1>3

\* A driver that adopts is not alone: another one adopts, or did.
Shared(d) == \E e \in FlowDrivers \ {d} : fjob[e].at \in {"driving", "adopting"}

LEMMA ThenSaved ==
    ASSUME NEW f, NEW g, NEW h, FlowAt(f, g), g.child = f.child, g.taken = f.taken,
           g.spawned = f.spawned, FlowAt(g, h), FlowSaved(g, h)
    PROVE  /\ h.stage = f.stage /\ h.phase = f.phase /\ h.outcome = f.outcome
           /\ h.child = f.child /\ h.taken = f.taken /\ h.spawned = f.spawned
           /\ h.steps = g.steps /\ h.adopted = g.adopted
  BY DEF FlowAt, FlowSaved

LEMMA AdoptKeeps == ASSUME FlowConstants, FlowInv, NEW d \in FlowDrivers, AdoptKid(d) PROVE FlowInv'
<1>p. LockHeld /\ Linked /\ Rivals /\ EndsKnown /\ Accounts /\ FlowTypeOK
  BY InvParts
<1>q. flow \in FlowRecord /\ kid \in KidRecord /\ fjob \in [FlowDrivers -> Jobs] /\ Placed(flow)
  BY <1>p, FreeRun DEF FlowTypeOK
<1>1. fjob[d].at = "adopting" /\ ~Locked /\ kid' = kid /\ bill' = bill
  BY DEF AdoptKid
<1>2. PICK k \in fjob[d].kid :
        /\ k.stage \notin {"budget", "plan"}
        /\ IF flow.child /\ flow.stage = "spawn"
           THEN /\ Save(d, Adopted(flow, k), KidAnswer(k))
                /\ fpast' = [fpast EXCEPT !.other = fpast.other \/ Shared(d),
                                          !.twice = fpast.twice \/ (flow.pending # "" /\ fpast.other)]
           ELSE /\ flow' = DriveFailed(flow) /\ fpast' = fpast
                /\ fjob' = [fjob EXCEPT ![d] = AtRest]
  BY Zenon DEF AdoptKid, Shared
<1>3. k = kid /\ kid.stage \in KidEnds
  BY <1>1, <1>2, <1>p DEF EndsKnown
<1>4. CASE ~(flow.child /\ flow.stage = "spawn")
  <2>1. flow' = DriveFailed(flow) /\ fpast' = fpast /\ fjob' = [fjob EXCEPT ![d] = AtRest]
    BY <1>2, <1>4
  <2>2. OnlyJob(d, "rest")
    BY <1>q, <2>1, JobRests, Zenon
  <2>3. flow' \in FlowRecord /\ FlowKept(flow, flow') /\ Placed(flow')
    BY <1>q, <2>1, FailedFields
  <2>4. FlowTypeOK'
    BY <1>1, <1>p, <2>1, <2>2, <2>3, TypeKept DEF OnlyJob
  <2> QED
    BY <1>1, <2>1, <2>2, <2>3, <2>4, FreeRests, SameUnpaid, MoveKeeps
<1>5. CASE flow.child /\ flow.stage = "spawn"
  <2>1. /\ Save(d, Adopted(flow, kid), KidAnswer(kid))
        /\ fpast' = [fpast EXCEPT !.other = fpast.other \/ Shared(d),
                                  !.twice = fpast.twice \/ (flow.pending # "" /\ fpast.other)]
    BY <1>2, <1>3, <1>5
  <2>2. PICK f \in FlowRecord : f = Adopted(flow, kid)
    BY <1>q, AdoptedFields
  <2>3. PICK a \in FlowAnswers : a = KidAnswer(kid)
    BY <1>3, EndAnswers
  <2>4. Saves(d, f, a)
    <3>1. Save(d, f, a)
      BY <2>1, <2>2, <2>3, Zenon
    <3> QED
      BY <1>q, <3>1, SaveIsSaves
  <2>5. /\ FlowAt(flow, f) /\ f.child = flow.child /\ f.taken = flow.taken /\ f.spawned = flow.spawned
        /\ f.steps = flow.steps + KidSteps /\ f.adopted = flow.adopted + kid.acts
    BY <1>q, <2>2, AdoptedFields
  <2>6. /\ flow' \in FlowRecord /\ FlowAt(f, flow') /\ FlowSaved(f, flow') /\ flow'.pending # ""
        /\ fjob' \in [FlowDrivers -> Jobs] /\ fjob'[d].at = "paying" /\ fjob'[d].flow = {flow'}
        /\ \A e \in FlowDrivers \ {d} : fjob'[e] = fjob[e]
    BY ZenonT(60), <2>4, NoAnswer DEF Saves
  <2>7. /\ flow'.stage = "spawn" /\ flow'.phase = flow.phase /\ flow'.outcome = flow.outcome
        /\ flow'.child = flow.child /\ flow'.taken = flow.taken /\ flow'.spawned = flow.spawned
        /\ flow'.steps = flow.steps + KidSteps /\ flow'.adopted = flow.adopted + kid.acts
    <3>1. /\ flow'.stage = flow.stage /\ flow'.phase = flow.phase /\ flow'.outcome = flow.outcome
          /\ flow'.child = flow.child /\ flow'.taken = flow.taken /\ flow'.spawned = flow.spawned
          /\ flow'.steps = f.steps /\ flow'.adopted = f.adopted
      <4>1. /\ FlowAt(flow, f) /\ f.child = flow.child /\ f.taken = flow.taken
            /\ f.spawned = flow.spawned
        BY <2>5
      <4>2. FlowAt(f, flow') /\ FlowSaved(f, flow')
        BY <2>6, Zenon
      <4> QED
        BY <4>1, <4>2, ThenSaved
    <3> QED
      BY <1>5, <2>5, <3>1, Zenon
  <2>8. /\ fpast' \in [crashes : Nat, untimed : BOOLEAN, other : BOOLEAN, twice : BOOLEAN]
        /\ fpast'.other = (fpast.other \/ Shared(d))
        /\ fpast'.twice = (fpast.twice \/ (flow.pending # "" /\ fpast.other))
    BY <1>p, <2>1, AdoptPast, Zenon
  <2>9. KidStays /\ KidHolds
    BY <1>1 DEF KidStays, KidHolds
  <2>10. LockHeld'
    <3>1. flow'.stage # "halted" /\ kid'.made = kid.made
      BY <1>1, <2>7
    <3> QED
      BY <1>1, <1>p, <2>6, <3>1, SaveLocks, Zenon
  <2>11. Linked'
    <3>1. Placed(flow')
      BY ZenonT(60), <1>5, <1>q, <2>7 DEF Placed
    <3> QED
      BY <1>1, <1>5, <1>p, <2>7, <3>1 DEF Linked
  <2>12. Rivals'
    <3>1. (\E e \in FlowDrivers : fjob'[e].at \in {"driving", "adopting"}) => Shared(d)
      BY ZenonT(60), <2>6 DEF Shared
    <3> QED
      BY <2>8, <3>1, Zenon DEF Rivals
  <2>13. EndsKnown'
    BY <1>p, <2>6, <2>9, SaveEnds, Zenon
  <2>14. Accounts'
    <3>1. SUFFICES ASSUME ~fpast'.twice PROVE PaidUpTo' /\ AdoptedOnce'
      BY Zenon DEF Accounts
    <3>2. ~fpast.twice /\ flow.pending = ""
      <4>1. ~fpast.twice /\ ~(flow.pending # "" /\ fpast.other)
        BY <2>8, <3>1, Zenon
      <4>2. flow.pending # "" => fpast.other
        BY <1>1, <1>5, <1>p, Zenon DEF Rivals
      <4> QED
        BY <4>1, <4>2, Zenon
    <3>3. PaidUpTo /\ AdoptedOnce
      BY <1>p, <3>2, Zenon DEF Accounts
    <3>4. flow.steps \in Nat /\ KidSteps \in Nat /\ kid.acts \in Nat /\ flow.adopted \in Nat
      BY <1>q DEF FlowRecord, KidRecord, FlowConstants
    <3>5. PaidUpTo'
      BY <1>1, <2>7, <3>2, <3>3, <3>4, AdoptPays, Zenon
    <3>6. flow.adopted = 0
      BY <1>5, <1>p, <3>2, <3>3, Zenon DEF Linked, AdoptedOnce
    <3>7. AdoptedOnce'
      <4>1. flow'.adopted = kid.acts
        BY <2>7, <3>4, <3>6
      <4> QED
        BY <1>1, <1>3, <1>5, <2>6, <2>7, <4>1, Zenon DEF AdoptedOnce
    <3> QED
      BY <3>5, <3>7
  <2>15. FlowTypeOK'
    BY <1>1, <1>p, <2>6, <2>8, Zenon DEF FlowTypeOK
  <2> QED
    BY <2>10, <2>11, <2>12, <2>13, <2>14, <2>15, PartsInv
<1> QED
  BY <1>4, <1>5
-----------------------------------------------------------------------------
\* A run begins at its entry, with nothing paid.

NewRecord ==
    [cur |-> Entry, steps |-> 0, pending |-> "", child |-> FALSE, taken |-> 0,
     spawned |-> FALSE, adopted |-> 0, diff |-> FALSE, stage |-> "", outcome |-> "",
     phase |-> ""]

LEMMA NewRecordFields ==
    ASSUME FlowConstants
    PROVE  /\ NewRecord \in FlowRecord /\ NewRecord.child = FALSE /\ NewRecord.taken = 0
           /\ NewRecord.pending = "" /\ NewRecord.adopted = 0 /\ NewRecord.phase = ""
<1>1. Entry \in Stages /\ "" \in Pendings /\ "" \in FlowStages /\ "" \in FlowOutcomes /\ "" \in FlowPhases
  BY FlowStrings, Zenon DEF FlowConstants, FlowStages
<1> QED
  BY <1>1, Zenon DEF NewRecord, FlowRecord

LEMMA InitInv == ASSUME FlowConstants, FlowInit PROVE FlowInv
<1>1. PICK f \in FlowRecord : f = NewRecord
  BY NewRecordFields, Zenon
<1>2. f.child = FALSE /\ f.taken = 0 /\ f.pending = "" /\ f.adopted = 0 /\ f.phase = ""
  BY <1>1, NewRecordFields, Zenon
<1>3. flow = Entered(f, Entry)
  BY <1>1, Zenon DEF FlowInit, NewFlow, NewRecord
<1>4. Entry \in Stages
  BY DEF FlowConstants
<1>5. flow \in FlowRecord /\ EnteredWell(f, flow)
  BY <1>3, <1>4, EnteredFields
<1>6. /\ ~flow.child /\ flow.taken = 0 /\ flow.pending = "" /\ flow.adopted = 0 /\ flow.phase = ""
  BY <1>2, <1>5, Zenon DEF EnteredWell, FlowKept
<1>7. /\ kid = Nobody /\ bill = [paid |-> {}, steps |-> 0, grant |-> 0, child |-> FALSE]
      /\ fjob = [d \in FlowDrivers |-> AtRest] /\ fpast = NoFlowPast
  BY DEF FlowInit
<1>8. fjob \in [FlowDrivers -> Jobs] /\ \A d \in FlowDrivers : fjob[d].at = "rest"
  BY <1>7, RestJob
<1>9. kid \in KidRecord /\ ~kid.made
  BY <1>7 DEF Nobody, KidRecord
<1>10. bill \in BillRecord /\ bill.paid = {} /\ bill.steps = 0
  BY <1>7 DEF BillRecord
<1>11. fpast \in [crashes : Nat, untimed : BOOLEAN, other : BOOLEAN, twice : BOOLEAN]
  BY <1>7 DEF NoFlowPast
<1>12. FlowTypeOK
  BY <1>5, <1>8, <1>9, <1>10, <1>11, Zenon DEF FlowTypeOK, BillRecord
<1>13. LockHeld
  BY <1>8, Zenon DEF LockHeld, Holding
<1>14. Linked
  BY <1>6, Zenon DEF Linked, Placed
<1>15. Rivals
  BY <1>6, Zenon DEF Rivals
<1>16. EndsKnown
  BY <1>7, <1>8, <1>9 DEF EndsKnown
<1>17. PaidUpTo /\ AdoptedOnce
  BY <1>6, <1>10, Zenon DEF PaidUpTo, AdoptedOnce
<1> QED
  BY <1>12, <1>13, <1>14, <1>15, <1>16, <1>17 DEF FlowInv

LEMMA FlowStutter == ASSUME FlowInv, UNCHANGED flowVars PROVE FlowInv'
<1>1. flow' = flow /\ kid' = kid /\ bill' = bill /\ fjob' = fjob /\ fpast' = fpast
  BY DEF flowVars
<1>2. LockHeld' /\ Linked' /\ Rivals' /\ EndsKnown'
  BY <1>1, InvParts, Zenon DEF LockHeld, Linked, Placed, Rivals, EndsKnown, StepId
<1>3. Accounts'
  BY <1>1, InvParts, AccountsStay, SameUnpaid
<1>4. FlowTypeOK'
  BY <1>1, InvParts, Zenon DEF FlowTypeOK
<1> QED
  BY <1>2, <1>3, <1>4, PartsInv

LEMMA FlowSteps == ASSUME FlowConstants, FlowInv, FlowNext PROVE FlowInv'
<1>1. ASSUME NEW d \in FlowDrivers, Pay(d) \/ Take(d) \/ ResumeAnswer(d) PROVE FlowInv'
  BY <1>1, PayKeeps, TakeKeeps, ResumeKeeps
<1>2. ASSUME NEW d \in FlowDrivers, NEW a \in Answers(flow.cur), AskQuestion(d, a) PROVE FlowInv'
  BY <1>2, AskKeeps
<1>3. ASSUME NEW d \in FlowDrivers, NEW o \in UNION {Required(k) : k \in WorkKinds}, WorkEnds(d, o)
      PROVE  FlowInv'
  BY <1>3, EndKeeps
<1>4. ASSUME NEW d \in FlowDrivers, WorkFails(d) \/ VerdictOnly(d) PROVE FlowInv'
  BY <1>4, FailKeeps, VerdictKeeps
<1>5. ASSUME NEW d \in FlowDrivers, NEW ok \in BOOLEAN, VerifyFlow(d, ok) PROVE FlowInv'
  BY <1>5, VerifyKeeps
<1>6. ASSUME NEW d \in FlowDrivers,
             Spawn(d) \/ CreateKid(d) \/ LinkKid(d) \/ DriveKid(d) \/ AwaitKid(d) \/ AdoptKid(d)
      PROVE  FlowInv'
  BY <1>6, SpawnKeeps, CreateKeeps, LinkKeeps, DriveKeeps, AwaitKeeps, AdoptKeeps
<1>7. ASSUME NEW d \in FlowDrivers, FlowCrash(d) \/ ContinueFlow(d) PROVE FlowInv'
  BY <1>7, CrashKeeps, ContinueKeeps
<1>8. ASSUME ApproveKid \/ RetryWork PROVE FlowInv'
  BY <1>8, ApproveKeeps, RetryKeeps
<1> QED
  BY ZenonT(60), <1>1, <1>2, <1>3, <1>4, <1>5, <1>6, <1>7, <1>8 DEF FlowNext

\* The invariant of a run that walks an authored workflow, of its child, and of the
\* drivers that advance it.
THEOREM FlowTypeCorrect == FlowSpec => []FlowInv
<1>1. FlowInit => FlowInv
  BY FlowConstants, InitInv
<1>2. FlowInv /\ [FlowNext]_flowVars => FlowInv'
  BY FlowConstants, FlowSteps, FlowStutter
<1> QED
  BY <1>1, <1>2, PTL DEF FlowSpec

\* However often drivers die between the three writes of a transition, and whoever
\* finishes what another began, each is paid for once.
THEOREM TransitionsPaidOnce == FlowSpec => []StepsPaidOnce
<1>1. FlowInv => StepsPaidOnce
  BY Zenon DEF FlowInv, PaidUpTo, StepsPaidOnce
<1> QED
  BY <1>1, FlowTypeCorrect, PTL

\* The work of a child is counted in its parent once, or not yet.
THEOREM ChildrenCountedOnce == FlowSpec => []ChildCountedOnce
<1>1. FlowInv => ChildCountedOnce
  BY Zenon DEF FlowInv, AdoptedOnce, ChildCountedOnce
<1> QED
  BY <1>1, FlowTypeCorrect, PTL
=============================================================================
