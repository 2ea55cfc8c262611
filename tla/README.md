# A verification of jevkit's SDLC runs

jevkit drives software-development runs: a *planner*, an *implementer* and independent
*assessors* (AI coding CLIs enrolled by their binding `runtime:model:...`) work on one
candidate patch; a supervisor assigns them, verifies the candidate, counts the reviews and
approves. A run is a saved state (`run.json`) that many short-lived processes read, change
and write back. Around it are the fan-out of a plan into subtasks, authored workflows, child
runs, a breaker and a guard on tool calls shared by all processes, installation into agents,
redaction, and the deletion of saved runs. This directory holds TLA+ modules of these parts, TLC
configurations that check them, and TLAPS proofs.

    tlc -workers 2 -config run_core.cfg MCAdaptiveRun     # one run of the table in section 3
    tlc -workers 2 -config run_budget.cfg MCTreeBudget
    tlc -workers 2 -config run_parts.cfg MCParts
    tlapm FanoutProofs.tla                                # the proofs: any module *Proofs.tla

## 1. The system

| component | state | operations | what makes it correct |
|---|---|---|---|
| next-action state (`internal/sdlc/adaptive/adaptive.go`, `verification.go`) | `adaptive.State`: stage, outcome, revisions, pending assignments, assessments, exclusions, handoffs, expert queue, receipts | `Role`, `Assign`, `Apply`, `Pause`, `ApplyVerificationResult` | independence of author and reviewers, quorum, no stale vote or receipt |
| drive loop (`cmd/jevkit/sdlc/sdlcdrive.go`, `sdlcadaptive.go`, `sdlcreviews.go`) | none of its own but the invocations it executes; `run.json`, `patch.diff` under the run lock | assign, launch, record, fail, ignore, cancel | every reservation is resolved; late results change nothing |
| pauses and resumes (`sdlcresume.go`, `sdlcbudgetresume.go`, `sdlcinjection.go`, `sdlcsessions.go`) | `Outcome`, `PendingPhase`, `BudgetPhase`, `RetryPhase` | one resume per kind of pause | the stage a pause leaves is the stage its resume restores |
| plan approval (`sdlcapproval.go`) | approved and authorized plan revisions | two gates, approve, authorize, send back | nothing is implemented, and no command is run, under another plan |
| saved reviews (`sdlcreview.go`) | one recovery slot | save, finish, recover | an approval of a workspace that drifted is not counted |
| verification (`sdlcverify.go`) | check receipts with a candidate fingerprint | run, apply | receipts belong to the candidate |
| optional experts (`sdlcspecialists.go`) | open decision, queue, reviews | decide, queue, review | every demanded expert is heard |
| tree budget (`ledger/budget.go`, `sdlcbudget.go`) | limits, usage, reservations, activities, shared by a tree of runs | reserve, complete, tick, extend | no limit is passed, nothing is charged twice |
| fan-out (`adaptive/scheduler.go`, `integration.go`, `sdlcschedule.go`, `sdlcintegrate.go`) | a schedule of subtasks with attempts, leases, worktrees; the user's worktree | dispatch, reconcile, retry, integrate | one worker for each subtask, bounded leases, no change of a subtask or of the user lost |
| plan contract (`adaptive/plancontract.go`) | the graph a planner proposes | validate, bound | a graph that is kept can be finished |
| authored workflows and children (`stageflow`, `sdlcstageflow.go`, `sdlcspawn.go`) | a flow position beside the run; a parent's record of its child | advance, ask, spawn, adopt | a saved transition is paid for once and neither repeated nor skipped |
| delegation (`sdlcdelegate.go`) | a decision in the run, an automatic child | decide, create, link, adopt | a plan is implemented once |
| workers (`internal/sdlc/worker`) | none; the workspace they share | prepare, run, observe, check | a write is noticed; checks pass on one candidate |
| declarative engine (`internal/sdlc/engine`, `compile`) | a fold of events over an unrolled graph | compile, apply | a run follows the workflow its author wrote |
| Jev and its breaker (`internal/jev`, `internal/breaker`) | a small file shared by processes | ask, retry, report, reset | failures add up; an open breaker stays open |
| guard on tool calls (`internal/security`, `review`) | layered policies; a store of reviews | deny, hold, resolve, index | a project only tightens; a pending review is seen |
| installation (`internal/agents`, `mcp/clientconfig.go`) | files of the user, and a sidecar of each | install, uninstall | what was there comes back |
| saved runs (`ledger`, `sdlcprune.go`, `sdlclogs.go`, `sdlcinventory.go`) | a directory for each run, usage records | create, resume, delete, prune, list | a tree stays whole and accounted for |
| redaction (`internal/redact`) | layered configuration; nothing of a text | merge, hide, verify, record, edit | nothing that is to be hidden leaves |

Compaction, usage reports, catalogs and parsing, the MCP server, plugins, upgrade and the drawing
of the watch screen transform text or do I/O and are not modelled. `PROJECT.json` lists every
component with its status.

**How they interact.** Everything meets in `run.json`. Each read-modify-write happens under
the run's file lock and ends in an atomic rename; between two of them other goroutines of the
same driver (parallel reviewers), a second driver, a host that asks for its next assignment, the
operator's `sdlc resume`, and the workers act. A driver waits for the workers it launched before
its next step; a second one does not know of them. Budgets are kept in the root run of a tree.
A drive looks at the run first: an authored stage goes to the stage flow, a kept subtask graph to
the fan-out, a plan of a built-in workflow once to delegation, everything else to the loop. The
fan-out and the verification come back to the loop's stages (`verifying`, `reviewing`); a child is a
run of its own that its parent drives one action at a time. Delegation and the resume of a fan-out
work on a copy of `run.json` and write it back without the lock. The breaker, the reviews of the
guard, the files of agents and the usage records belong to no run.

**What is hard.** Reviewers reporting in any order, after a sibling's rejection, failure, or a
pause (interleaving, ordering); a decision about experts saved open before the router is asked and
taken after a crash (crash recovery); an invocation that fails after its result was applied
(partial failure); phases saved in three fields and restored by seven resumes (protocol
sequences); a budget that runs out between reservation and launch (atomicity, liveness). A lease
taken from a driver that died while its worker lives on; copies into the user's worktree that are
recorded afterwards; a transition, a child or a deletion in three writes with a crash between any
two; files that a user edits between the commands that save and restore them.
`PROJECT.json` "hazards" has each of them at its line.

## 2. Modules

`AdaptiveState` — the pure functions of `internal/sdlc/adaptive`. A saved state is a record `s`;
operators return the record the code saves. `RolesWanted` is `State.Role`, `Candidate` the filter of
`adaptiveCandidates`, `HasSlot`/`SlotsNeeded`/`WithFallback`/`QuorumReachable` the checks of
assigning, `Pause` is `State.Pause` with its draining branch, `Apply` is `State.Apply`: `Taken`
(end of a drain), `Settled` (end of a handoff chain) and one operator per stage.
Abstractions: digests are model values; pause reasons that every resume treats alike share one
value (`Outcomes`); a `Pending*` field that is cleared with another is that other field.

`AdaptiveRun` — one run and its processes; EXTENDS AdaptiveState.

| variable | in the code |
|---|---|
| `run` | `run.json` |
| `patch` | digest of `artifacts/patch.diff` (written before `run.json`) |
| `running` | invocations some goroutine executes and will report on |
| `replies` | assessor replies with workspace drift, between saving and finishing |
| `hist` | history, for properties only: checks passed for this candidate, experts demanded, drift |

One action per section under the run lock:

| actions | in the code |
|---|---|
| `PlanApprovalGate`, `AssignNext`, `NobodyEligible`, `BudgetStops` | `sdlcAssignNextLocked` and its gates |
| `LaunchReviews` | `sdlcDriveParallelReviews` |
| `Verify`, `RetrySpecialistDecision`, `DriverError` | `sdlcEnsureVerification`, `retryActiveSpecialistDecision`, `pauseDriveError` |
| `Report` | `sdlcRecordResultLocked`: apply, write the artifact, open the decision, decide, reroute; ignoring a late result; refusing one that does not fit |
| `FailAssignment`, `LoseSession`, `InjectionReview`, `UnsafeReview`, `CancelReview`, `Crash` | the other ways an invocation ends |
| `SaveReview`, `FinishReview`, `ResumeReview` | `saveReviewRecovery`, `finishReviewRecovery`, `recoverReview` |
| `ResumeInjection`, `ContinueBudget`, `ResumeInvocation`, `RetryFailed`, `RetryVerification`, `ResumeDecision` | `sdlc resume` |
| `ApprovePlan`, `AuthorizeChecks`, `RequestPlanChanges` | the operator on plans |

`Events` switches classes of faults and actors on, so that each run asks one question; `Seeds`
says what the run starts from (`task`, or files given to it), `Replies` what workers answer.

`CandidateApproval` — the abstract promise: a candidate is approved by a quorum of distinct
bindings that are not its author's; a rejection stands until another candidate or a review that
starts over; approval is final. `AdaptiveRun` implements it with `author <- run.implementer`,
`votes <-` the assessments by binding (property `RefinesApproval`).

`TreeBudget` — the one ledger of a tree of runs and those who spend it: drivers (each execution
of an invocation is one), a host, parents that charge children, the operator. Every update of
`budget.json` is under its own lock, so it is one action; each charges the time until now first.

| variable | in the code |
|---|---|
| `b` | `budget.json`: limits, usage, reservations (`reserved`, `completed`, `charged`), activities, checkpoint |
| `now` | the clock, in whole units |
| `pending` | the assignments that the runs of the tree record |
| `job` | what each driver is at: nothing, an invocation it admitted or took, one it beats for |
| `worked`, `crashes`, `early`, `paid` | history, for properties only: time somebody worked, drivers that died at work or before their first beat, accepted candidates |

| actions | in the code |
|---|---|
| `Gate`, `Admit`, `HostAdmit`, `Charge` | `budgetGate`, `Reserve` by `reserveAssignment`, `ReserveFanoutSlot` and `chargeTree` |
| `Take`, `Launch`, `Beat`, `Abandon` | pending work found by a drive; `budgetActivity`: first beat, ticker, stop |
| `ReportUsage`, `Finish`, `HostReport`, `Fail` | `saveInvocationUsage`; `completeBudget` with the result, or with the pause that drops what is pending |
| `Crash`, `Extend`, `Advance` | a driver's death; `extendBudget`; time |

`Tick` is the code's union of intervals: all activities are open at the checkpoint, so the code
adds the latest end; the model counts the units in which one was active (`ActiveUnits`). A lease
is the code's 15 s, renewed every 5 s; `Advance` lets a live driver beat before its lease runs
out, and launch at once. A driver's identity is its `owner` string, never used again (`Gone`).

The parts below share no state with a run's loop but through the stages they hand back.

`Fanout` — the fan-out of a kept graph. `run` is the schedule, the stage and the integration record
of `run.json`; `used` the invocations the budget has charged; `tree` what the user's worktree holds
of each path, `repo` whether it is dirty and whether HEAD moved; `live` the workers; `drv` what
each driver is at; `res` what a resume read. A driver observes who is alive, reconciles
(`sdlcReconcileSchedule`), reserves up to the cap it computed, marks running and launches, waits for
its workers, completes, and integrates: it reads HEAD (`LookAtHead`), asks git what is dirty and plans
(`Collect`), copies path by path (`Copy`), records (`Persist`). Workers outlive a driver
(`OrphanEnds`); the user edits and commits at any moment, between any two of these steps too; git may not answer,
and need not name every path that differs (`Unlisted`). `past.late` is what the user wrote or committed since
the last integration read HEAD, with what git did not tell it. `ResumeReads` and `ResumeWrites` are the
unlocked resume.

`SubtaskGraph` — `ValidatePlanContract` and the bound on concurrency, on proposals that get
everything wrong that is looked at, and the order in which the schedule makes subtasks ready.

`PlanApproval` — `saved` (plan, checks and subtasks on disk), `prun` (the digests in `run.json`) and
the gates, approvals and starts that look at them: an implementer that works alone is started by
`StartImplementer`, which compares every digest; a fan-out looks at `subtasks.json` once more (`FanoutLooks`) and
then starts each of its implementers with plan.md as it is by then (`FanoutStarts`). `EditFile` is anybody at any
time. One driver at a time is modelled, and not the host, which is handed an assignment and reads the files itself.

`StageFlow` — `flow` (the parent), `kid` (the child's run), `bill` (steps and children in
`budget.json`), `fjob` (drivers). `AskQuestion` saves the answer, `Pay` reserves the step, `Take`
advances; `Spawn`, `CreateKid`, `LinkKid`, `DriveKid`, `AdoptKid` are the child's three writes, its
drive and its end; `FlowCrash` comes between any two. `ValidStages` is the validation of
`stageflow`, assumed of the constants and evaluated by TLC.

`Delegation` — `par`, `auto` (the parent's and the child's record), `djob` with the copy of
`run.json` each driver works on and writes back.

`WorkerCalls` — `ws` is what changed in the workspace; an invocation is prepared (permissions of its
runtime, the saved diff), captured before and after, repeated or ended; `check` are the
supervisor's checks, each between two captures of the worktree's identity, any of which git may fail: the code
then goes on with a constant identity (`NoGit`) in place of the tree's (`Identity`). What `snapshot.go:74-123`
leaves out of a capture, the paths that git ignores, is no part of `ws`.

`JevCalls` — `brk` is `breaker.json`, `call` what each process is at: refused before anything is
sent, looking at the breaker, attempting, retrying, reporting.

`InjectionReviews` — `policy` is what user, project and environment say (`Effective`, `Denies`,
`Holds` are its operators); `held`, `index`, `allowlist` are the files of the store, `writer` who
holds its lock and before which write.

`Workflows` — `Compile` unrolls loops into layers, with the search that finds their edges back as a recursion over its
own state (edges back are kept by node and label, `GoesBack`, and an edge without a target ends the compiler,
`Targeted`); `st` is the engine's fold, one action per event; `walk` follows the same answers through the workflow as
it was written.

`AgentConfigs` — `file` and `backup` (the sidecar) by component, `command` with the write it is
before; `EditsFile` is the user, who may also move managed entries elsewhere (`stray`), `CommandStops` a crash.
Adapters differ in what they drop of the user's (`Kept`: groups without hooks, values that are no lists, all
of the group that is called jevkit) and in which strays they leave (`StrayKept`, `StrayStripped`).

`SavedRuns` — `disk`, `logs`, `usage`; deletions that plan, check and remove run by run; resumes
that write outside the lock; a watcher that keeps what it once listed.

`Redaction` — the engine's rules in their order on words of lines, the merge of two layers with its
validation, the gate that records before it sends, and `redact add`/`remove` in two steps.

`MCAdaptiveRun`, `MCTreeBudget`, `MCParts` — instances for TLC. `MCParts` instantiates the twelve
modules above together: `part` says which component a behaviour is about, the others stay as they
start (`Fixed` gives them one start), and `PartsView` compares states by the variables of that part.
So one run checks them all without their product.

`AdaptiveRunProofs`, `CandidateProofs` (which builds on it) and `ReviewProofs` (which builds on that),
`TreeBudgetProofs`, `FanoutProofs`, `DelegationProofs` (of `Delegation` and `StageFlow`), `WorkflowProofs` and
`PartsProofs` (of `JevCalls`, `WorkerCalls`, `SavedRuns`, `SubtaskGraph`, `PlanApproval`, `InjectionReviews` and
`AgentConfigs`) — proofs.

## 3. Runs

| run | states | properties | what it shows |
|---|---|---|---|
| `run_core` | 198 k | `RunTypeOK`, `ApprovedByQuorum`, `ApprovedIsUnrejected`, `ApprovedWasVerified`, `RefinesApproval`, `DoneIsFinal` | with every worker outcome, failures, crashes and budget stops, approvals are independent, of a verified and unrejected candidate, and final |
| `run_faults` | 304 k | `ExpertsHeard`, `ApprovedPlanOnly`, `ReviewStageHasWork` | with every seed, two plans, experts on plans and candidates and every fault but drift, no expert and no approval is lost |
| `run_actors` | 53 k | `ApprovedByQuorum`, `ReviewersReadCandidate` | with two drivers, a host and an operator at once, the quorum stays independent and a reviewer's candidate is not replaced under it |
| `run_reviews` | 27 k | `DriftedApprovalNotCounted`, `ReservedIsResolved`, `DrainEnds` | under fairness, reservations are resolved and drains end; an approval of a drifted workspace is not counted |
| `run_lost_phase` | violation | `PhaseRestored` | authorizing a paused verification leaves the run in no stage |
| `run_late_failure` | violation | `RejectionStands` | a sibling's late failure and `--retry-failed` assess a rejected candidate again |
| `run_stale_phase` | violation | `RepliesFit` | a budget phase left by a failure during a drain makes the retried reviews fail |
| `run_budget` | 1.25 M | `BudgetTypeOK`, `LimitsHold`, `ChargedOnce`, `CostIsSum`, `TimeIsUnion`, `ActiveTimeCharged`, `OneDriver` | drivers that crash and race, a host and an extension: no limit is passed, everything is charged once, time is charged for when somebody works (but for a lease per crash), no open invocation has two drivers |
| `run_parts` | 1.39 M | nineteen, below | the twelve modules beside the run, each with its crashes, races and edits |
| `run_spawn` | violation | `ChildGetsTime` | a drive that finds its child linked gives it no time |
| `run_unlocked` | violation | `ApprovalLocks` | a fan-out starts implementers on a plan.md that was edited after the gate |
| `run_offline` | violation | `OfflineExcluded` | a driver that dies before its first beat is charged to the expiry of the invocation |

The properties of `run_parts`:

| module | property | what it shows |
|---|---|---|
| `Fanout` | `SlotsBounded` | no more leases than the run's concurrency, whoever computed the cap when |
| | `OneWorker` | a subtask has one worker, also when a lease is taken from a dead driver (but after a resume that overwrote a newer `run.json`) |
| | `VerifiedComplete` | what is verified holds the work of all subtasks (the same exception) |
| | `EditsKept` | in a repository, integration never writes over what the user had made of a path when it read HEAD (but for what git does not list or does not answer for) |
| `SubtaskGraph` | `GraphFinishes` | a kept graph always has a next subtask until all have succeeded |
| `PlanApproval` | `StartedAsApproved` | work starts on exactly the files that were approved (but for what a fan-out does not compare again and somebody edited after the gate) |
| `StageFlow` | `StepsPaidOnce` | each transition is paid once, whatever crash repeats it (but when two drivers adopt one child) |
| | `ChildCountedOnce` | the child's work is counted once (the same exception) |
| `Delegation` | `OneImplementer` | parent or child implements a plan, not both (but after two drivers overwrote each other) |
| `WorkerCalls` | `WritesNoticed` | a worker that wrote is never taken for one that did not (but one that then loses its login) |
| | `ChecksSawCandidate` | checks that passed saw one candidate (but where git failed for every capture) |
| `JevCalls` | `FailuresOpen`, `OpenStays` | two failures in a row open the breaker; only a reset closes it |
| `InjectionReviews` | `PendingSeen` | the gate sees pending reviews, wherever a resolution stops (but a session's first review whose index was never written) |
| | `ProjectTightens` | a project's file never allows what the user's denies or holds |
| `Workflows` | `RunsFollowAuthored` | the layered run goes where the authored workflow goes, and is cut off only beyond its reroutes (but for loops with several entries, and workflows in which a node labels two edges alike or an edge has no target) |
| `AgentConfigs` | `InstallReversible` | a file's original is there or in its sidecar, wherever commands stop (but for edits after the install, which uninstall documents); it holds the entries of one install (but for those the user moved elsewhere) |
| `SavedRuns` | `TreesWhole` | no run without its parent, no usage without its run, no log lost without a mark, but for what a stopped command had begun or was written late |
| `Redaction` | `SentAsConfigured` | what is recorded and sent shows all but what the configuration hides; edits leave a configuration that loads |

**Bounds.** Three bindings, one under two agent identifiers in `run_core`, two on one runtime:
enough for an author and a quorum of two, and for too few after an exclusion. Quorum 2 and
`MaxConcurrent` 2 are the smallest with parallel reviews and an order between them. Two candidates
(replacement, and no progress when one comes again) and one or two plans. `MaxHandoffs` and
`MaxNoProgress` are the code's 2, so no counter needs another bound. Three or four invocation
identifiers, reused once nobody holds them: the code's are unique, and a holder is a pending
assignment, a running worker, an assessment or the recovery slot; four are one more than the
pending and counted reviews of a candidate in `run_core`. Deadlock checking is off because a run stops: when done, or paused for an operator
with nothing to offer.

`run_budget`: two drivers (symmetric; the run has invariants only) and four reservations: an
implementation, one of a fan-out, a host's review, a child; so two candidates compete for the
single revision and two reservations for the child, each limit is 1 or 2 and one extension
(`MaxLimit`) raises it. A clock of 4 with a lease of 2 and an expiry of 3 is the smallest in which
both run out with time to spare. One crash (`MaxCrashes`), costs of 0 or 1 (`MaxCost`).

`run_parts`: two drivers, interchangeable (all its properties are safety). `Fanout`: two
independent subtasks with a path each and two agents, so both run in parallel or one after the
other; three invocations (`Allowance`) leave one for a retry; two faults (`MaxFaults`: a crash, a
failure, an edit, a commit, git without an answer), one path of two that git does not name; and a further fault only while invocations and faults are fewer than
`MaxEvents` = 3. `StageFlow`: a workflow with every kind of stage and a loop; seven steps and a
grant of two, so the limit is met and extended; two crashes. `Delegation`: two targets, two deaths,
one candidate sent back, a child of two actions. `JevCalls`: three processes, three questions, one
retry: enough for a late success between two failures. `PlanApproval`: two plans, one of which
is a graph to fan out, and one edit (the theorem has any number). `WorkerCalls`: two invocations at once, two edits of the user, up to
two checks. `InjectionReviews`: two sessions, three reviews, one loss; every combination of the
two layers for the policy. `Workflows`: a check and a decision with every two targets of each, after a human, a selection or
work; a loop of joins only; one without loops; labels that coincide and an edge without a target; 0 to 2 reroutes, started with nothing done or with the work of two nodes. `AgentConfigs`: five adapters, one installed binary with and without the guard
(entries of others differ from both), one edit, three commands with it; at least one of the two files
is absent at the start. `SavedRuns`: a run and a child, two deletions, one resume or pruning, one halt.
`Redaction`: two lines of up to three words or one of up to four, secrets one within the other,
no two names in a row, two edits by two editors. `SubtaskGraph`: all dependencies among three subtasks.

**Fairness** (`FairSpec`, `run_reviews` only). `sdlcDriveUntilDone` loops until the run pauses or
is done (weak fairness of `Drive` and of `LaunchReviews` within it), a worker replies or is stopped by its timeout
(`Report`), a cancelled review returns (`CancelReview`), and the driver records a saved review
(`FinishReview`). Nothing is assumed of operators, budgets or crashes, which that run leaves out.

## 4. Proofs

`TypeCorrect` in `AdaptiveRunProofs`: `Spec => []RunTypeOK`, for every enrollment, quorum,
concurrency, set of events and replies, from `StateConstants` and `RunConstants` only. What it
says beyond the types of Go: a reviewer's assignment always targets a candidate and a maker's a plan,
counters stay naturals, a stage restored from one of the saved phases is a stage. `RunTypeOK` is
not quite inductive as a bare record type: `Apply` and `Candidate` need the typing of what they are
given, so there is first one lemma per operator (`PauseType`, `ApplyType`, ...), then
one per group of actions, combined in the last theorem by PTL.

`AdaptiveRunProofs`, `ApprovalIsIndependent`: `Spec => []ApprovedByQuorum` for any enrollment, quorum and
concurrency and all events but `"drift"`, from the constants' assumptions and `Plans \cap Candidates = {}`
(plan.md and patch.diff have different digests). The property speaks of the end only, so the
invariant (`Sound`) says what must hold all along (`Independent`): the reviewers that are pending and those
already counted for the candidate are pairwise of different bindings, and none is its author's.
Assignment establishes it (`AssignSound`), and counting a vote needs it (`TakenCountable`). One thing more
is needed, because `State.apply` in assessment counts whatever is pending: research says "approved"
too, and is no vote only because it targets a plan, which a run that asks for research has
(`ResearchesPlan`). Most steps leave all this alone or only drop reviewers, which is one lemma
(`KeepsSound`). The hypothesis about drift is
needed: `recoverReview` makes a saved review pending again without the checks of an assignment
(`sdlcreview.go:163`). If the driver dies right then, the next one launches that review beside another one
of the same binding, or of a candidate whose author is now the reviewer, and both count: TLC finds it
violated within 22 steps once `"drift"`, `"crash"` and `"failure"` are combined.

`CandidateProofs` is about what the approved candidate is: `ApprovedWasVerified`, `ExpertsHeard`,
`ApprovedIsUnrejected`, `ApprovedPlanOnly`, `ReviewStageHasWork`, the action property `DoneIsFinal`,
and the refinement of `CandidateApproval`. Its hypotheses: one driver at a time and no host beside it
(`"other"` is not an event), no drift, digests of plans and patches differ. Crashes, failures, budget
stops, errors of the router, lost sessions, injection reviews and missing bindings may all happen. Two
drivers falsify three of the properties (section 6), drift one.
None of the properties is inductive, because a run leaves a phase and comes back to it by one of the phases it
saved. So the invariant (`OrderlyRun`, proved in `RunInOrder`) speaks of where a run is *headed*: the stage
it is in, the one a drain returns to, the ones a resume may restore. On top of the invariant of
`ApprovalIsIndependent` it has nine parts, each of which some step of another part needs. A run headed for assessment
has a fit candidate (`FitToJudge`: verified, experts heard, unrejected, of the approved plan); one headed
for verification has no vote that counts yet (`ReadyToVerify`); an approved run has nobody at work
(`ApprovedFinally`); assessors wait until experts have answered (`ExpertsFirst`); a planner or an
implementer works alone (`OneMaker`); a decision about experts that is open belongs to a verification
that was asked for (`OpenDecision`); votes counted and pending never exceed the quorum, and a run headed for
assessment lacks one (`VotesLeft`); a rejection comes before anybody works on the plan or the patch
again (`RejectedBefore`); and which pauses leave which phases (`Outside`). `MovesOrderly` covers the many
steps that only move the run between phases. `RunImplementsApproval` then maps the votes of a run to the
abstract ones: each step of the run either leaves them (a stutter), adds the one just
heard (`Speak`), replaces the candidate and clears them (`Submit`), or drops those of a review that
starts over (`Reconsider`).

`ReviewProofs` is about what reviewers read. `ReviewersRead` (`Spec => []ReviewersReadCandidate` without
`"crash"`; drivers, hosts and drift as they please) follows from `PatchIsCandidate`: no step leaves `patch.diff`
and `run.json` with different candidates (`OnDisk`). A crash between the two writes does; what saves the
reviewers then is that the run still waits for a maker.
`ReviewersReadThroughCrashes` has any crashes, but one driver and no drift: by `OrderlyRun`, where a run wants
a reviewer it has a candidate that is fit, and so on disk (`WantedOnDisk`). `DriftedApprovalsUncounted`
(`Spec => []DriftedApprovalNotCounted`) has drift, failures, injections, lost sessions and budget stops, but one driver
that does not die. Its invariant (`DriftInOrder`) keeps account of identifiers: nobody is reserved or run twice or
after it was counted, and a saved approval is of a reply its driver still holds, if its reviewer
is still at work at all, and is not among the assessments. The hypotheses are exact: TLC violates the first property with a crash and a second driver (the
hazard at `sdlcdrive.go:340`), and the second with a crash (the review that was saved as to be repeated is launched
again beside the one that was counted) or with a host, beside which a budget phase that has become stale makes
the drifted review pending again. These invariants, too, were checked by TLC first.

`TreeBudgetProofs`: `BudgetTypeCorrect`, `LimitsRespected`, `ChargesExact` and `TimeBounded`,
that is `Spec => []I` for `BudgetTypeOK`, `LimitsHold`, `ChargedOnce` and `TimeIsUnion`, for any
limits, drivers, reservations, leases and events, from `BudgetConstants` only. `LimitsHold` alone
is not inductive: a completion adds a revision to the usage, and only because that completion
also ends the hold on one is the sum the same; and it is counted only once because what a run
still waits for has not been completed. So `BudgetInv` adds to the properties
`pending \subseteq b.reserved \ b.completed`, `paid \subseteq b.completed`, and that a driver's job
is reserved. What concerns the ledger alone (`Ledger`) is proved of each operation first
(`TickLedger`, `ReservedLedger`, `CompletedLedger`, `ExtendedLedger`, ...), then one lemma per
action carries `BudgetInv` over it.

`OneDriverEach` (`OneDriver`) and `ChargesTimeWorked` (`ActiveTimeCharged`) need to know who may still beat
for what. `Watched`: an activity is of a reserved invocation that is not complete; the driver that owns one
works, with its lease running; and whoever works on an open invocation owns its activity, so two
cannot. `Hosted`: no driver executes a host's invocation. The two halves of `ActiveTimeCharged` are
strengthened by what a tick may still add. All units that it will charge begin at the checkpoint, so the
latest end of an activity bounds them, and no sum is needed: there is an `m` such that no activity whose worker
has gone ends after `now + m`, and the time charged with `m` added is within the bound (`NotOverCharged`);
and what was worked since the checkpoint is among the units that are sure to be charged
(`NotUnderCharged`). TLC checked these invariants on `run_budget` first.

`CostExact` is `Spec => []CostIsSum` for any number of reservations. `SumFunction` of the community modules is a
recursive function, and the library's theorems about induction take a predicate, which the provers cannot
instantiate. The proofs use its theorem on minimal elements (`WFMin`) instead: if two functions that satisfy
the recursion differed on some finite set, they would on a smallest one (`SumsAgree`); that there is one follows
in the same way (`SumsExist`). `SumOfMore` then says that adding to one member adds as much to the sum,
whatever order `CHOOSE` takes them in, and one lemma per operation of the ledger uses it.

`FanoutProofs`, for any subtasks, dependencies, drivers, candidates, paths, concurrency and bounds. Of the
constants it assumes what `PlanContract` validates: no path is owned by two subtasks
(`plancontract.go:246`). `LeasesBounded` is `FanoutSpec => []SlotsBounded`. The obstacle is that a
driver computes its cap from one reading of the schedule and reserves by it later, when other drivers may
have reserved too. What makes it safe is the order of agents: a reservation takes the first eligible agent
that holds no lease, and never one beyond the run's concurrency. So the invariant (`FanoutInv`) says that
leases have different agents, all among the first `run.concurrency`; then the agent of a lease is an injection
of the leased subtasks into an interval, which bounds their number (`FS_Injection`).

`OneWorkerEach` (`OneWorker`), `VerifiedIsComplete` (`VerifiedComplete`) and `EditsAreKept` (the action property
`EditsKept`) rest on two more invariants. `EditsInv` holds of every behaviour: what the user wrote is
dirty, or in a commit (`EditsSeen`); and a driver that has read HEAD, or that copies, has seen all of it, or it is
among what came since or git did not tell (`IntegratesClean`), so what it has left to write is none
of what the property protects. The copies may take as long as they like: edits and commits in between only add
to what came since.
`WorkInv` holds until a resume has written over a newer `run.json` (`past.lost`): a
subtask that a driver is to start, or a worker works on, is nobody else's (`Claims`; its lease may have been
failed by a driver that thought its owner dead, and since a failed subtask is never tried again
there is no second worker); a run that is to be integrated is done, also the copy of it that a driver read
before (`PendingDone`); what was changed and a driver has not still
to copy is there, its owner's or the user's (`CopiesRest`); and a dirty path holds its owner's work or the user's, or, where workers
write to the project itself, the schedule is one that is never integrated (`WorkThere`). Together these give
`VerifiedDone` in the step that records the integration. Most steps are of one kind: they keep what is
done done and what failed failed (`Settles`), and give drivers jobs that are sound as they
begin (`Calm`); `Quiet` covers them all.
That proof found an error in the property. `VerifiedComplete` had been stated without the exception
`OneWorker` has, and TLC had not contradicted it with three invocations and two faults. It does with four
invocations and three faults: a resume reads a run in which a subtask has timed out, the subtask and the rest
are finished by another driver, which begins to integrate; the resume writes its copy back, the
integration is recorded over it, and what is verified is a schedule whose subtask is pending. The
property now says so.

`PartsProofs`, `ApprovedAsOnDisk`: `PlanSpec => []StartedAsApproved`. Files change at any
time, so nothing about them is invariant; the strengthening (`Recorded`) is about digests: an approved
revision in `run.json` is of contents an operator approved, and a start compares all with the files
in the same step. A fan-out does not: for it the invariant (`GateHeld`) says that from the gate on, whatever nobody
has edited since is as it was approved. The stronger reading, that nothing else can be started at all, is what
`run_unlocked` refutes. `DelegationProofs`, `NeverBoth`: `DelegationSpec => []OneImplementer`
for any drivers; the invariant (`Consistent`) says for each step of a driver what its copy of
`run.json` and the child's record must hold then, and applies until a driver writes an old copy
over a newer one (`dpast.raced`, the property's own exception).

`DelegationProofs`, `TransitionsPaidOnce` and `ChildrenCountedOnce`: `FlowSpec => []StepsPaidOnce` and
`[]ChildCountedOnce` for any authored workflow that `ValidateStages` accepts, any drivers, budgets and deaths.
Neither is inductive. What makes a transition paid once is that the driver inside a section is
alone and its copy is `run.json` (`LockHeld`), and that what is paid is at most what was taken and the
one transition that is saved (`PaidUpTo`); what makes a child counted once is that a driver which adopts holds
the child as it ended (`EndsKnown`), that a parent which counted it has saved its answer or left the
stage (`AdoptedOnce`), and that a second adopter of a counted child was there when the first
adopted, which is what `fpast.other` records (`Rivals`). `Linked` says where a run with a child may be: that is why no
step of ordinary work can take a saved answer from under the child. `PaidUpTo` and `AdoptedOnce` end with the
double adoption the properties except (`fpast.twice`); the rest holds of every behaviour.

`PartsProofs`, `TwoFailuresOpen` and `OnlyResetCloses`:
while the breaker is closed, its count is the number of failures in a row.

`PartsProofs`, `InstallsAreReversible`: `ConfigSpec => []InstallReversible` for any files, adapters and
edits. A command reads, saves the sidecar, writes the file and drops the sidecar in steps of their own, so the
invariant (`ConfigInv`) says what is where at each of them (`CommandSound`), and that an original which is not
in its file is in its sidecar (`OriginalKept`). It needs that what an adapter strips and adds
twice it strips and adds once (`KeptTwice` and its companions), of each adapter with all that it drops. `ReviewsAreSeen`: `ReviewsSpec => []PendingSeen`
for any sessions and reviews; the invariant (`ReviewsInv`) says that whenever no command indexes a
session, its index is nonzero if it has a pending review. That an index is the smallest pending one
of finitely many natural numbers uses the minimum of `WellFoundedInduction`. `ProjectsTighten`: the effective policy is compared with the
user's alone field by field, for all pairs of files.

`PartsProofs`, `WritesAreNoticed` and `ChecksSeeOneCandidate`: `WorkerSpec => []WritesNoticed` and
`[]ChecksSawCandidate` for any number of invocations, checks and writes. The workspace is compared by identity, and
a capture that git failed for equals only another of them, so one that git answered for settles all of them;
the invariant (`WorkerInv`) says that whoever wrote since an invocation began is in the
difference that it will see (`WrittenSince`), and that every check that ended saw what the first one saw
(`ComparedWithFirst`).

`PartsProofs`, `TreesStayWhole`: `SavedSpec => []TreesWhole` for any forest of runs, any number of deletions,
resumes, prunings, halts. The model says of a tree only that it is the least set with its root and the
children of its members, which suffices (`TreeIsLeast`). A deletion lists its tree once and removes run by run long after, while others
do the same to parts of it and new runs are written; so the invariant (`SavedInv`) says that what a deletion
still has to remove comes in an order in which no run goes before the children that can be read, but for those that
are written late (`Orderly`), that whoever removed a run will remove its usage or has stopped (`UsagePaired`),
and that streams without a mark are being pruned or their pruning stopped (`LogsMarked`).

`PartsProofs`, `GraphsFinish`: `GraphSpec => []GraphFinishes` for every finite graph a planner may propose.
If no subtask were ready, each of those left would depend on another of them. That `hasCycle` then finds a cycle
(`CyclesAreFound`) is a theorem about a recursive search whose colours change as it goes: in every
call either fewer names are white or fewer are left to visit (`StepsDown`), so of the states where
a claim fails there is a least (`LeastState`). By that the search is well defined (`SearchIsValid`), and from a state in
which none of the names that depend on each other is black it ends with a cycle found or with none of
them black and none left to visit (`NothingMissed`).

`WorkflowProofs`, `RunsFollow`: `WorkflowSpec => []RunsFollowAuthored` for any finite workflows, reroutes and
attempts; of a workflow it is assumed what validation checks (`WorkflowConstants`: edges lead to nodes of it, or
nowhere where a route has an empty target, and joins, work and selections lead on), and the property is about the
workflows no node of which labels two edges alike. Of one that does, nothing is claimed: an edge
besides the edge back of its label goes back with it (section 5). Two
things are proved.

*What is compiled.* The search of a loop (`classify`) is a recursion over its state: the calls that are open, the edge
each node has come to, the edges back. The invariant of that search (`SearchKept`) says that an edge it has met goes
back, or leads to a node that is done or is open further in (`Above`), that the nodes which are done have no cycle
without the edges back, that edges to the header go back, and that the others lead from it to all that was seen. Each step
keeps this and leaves fewer edges to come to or nodes to leave (`Ahead`), so a least state where the claim fails is
impossible, and the search ends with it for the whole loop (`BackEdgesFound`). Hence the graph has no cycle
(`UnrolledIsAcyclic`: one would stay in one loop, and in the last layer it comes to) and all of it can be reached
(`UnrolledIsReached`, by a node that has the least before it): the errors that `compile.go` keeps as a defence,
`CycleError` and an unreachable node, cannot occur for a workflow that has one entry leading everywhere.

*What is run.* The invariant (`WorkflowKept`) says that the run is at a copy of the node where the walk through the
authored workflow is (`Tracks`): it came to that copy through one copy for each visit, so no node was visited
more often than it has copies (`VisitsBounded`); its layer is at most the number of times it was sent back, if
edges back lead to nodes that every way to them has passed (`BackWasVisited`). `FirstUnsatisfied` and the
walk are recursions that may follow many joins in one step; on an acyclic graph the first ends, and
then both have come to the same node (`EdgeArrives`).

Only model-checked, and why:

- Liveness (`ReservedIsResolved`, `DrainEnds`): the prover has no fairness or ENABLED.
- `SentAsConfigured`: `Redaction` is built from recursive operators, of which nothing can be proved by this prover.
  It is also no statement about all texts: what is left of a secret that overlaps itself or a longer one stays
  (section 5), and the payloads of `run_parts` have no such overlap.

## 5. Disagreements found

1. `sdlcEnsureVerification` (`sdlcverify.go:84`) pauses for authorization without saving the phase
   that authorizing restores (`run_lost_phase`).
2. `sdlcFailAssignment` (`sdlcdrive.go:569`) pauses as `assessor-failed` also when a rejection has
   already sent the run to implementation (`run_late_failure`).
3. `Pause` keeps `BudgetPhase`, which `apply` later prefers to the stage
   (`adaptive.go:331`; `run_stale_phase`).
4. `reserveAssignment` (`sdlcbudget.go:283`) opens every activity as a host's: a driver that dies
   before its first beat is charged to the expiry (30 minutes), though `docs/SDLC.md:455` excludes
   offline time after a crash (`run_offline`).
5. An approval is documented to lock the digests of plan, checks and subtasks (`docs/SDLC.md:477`);
   `runFanoutSubtask` (`sdlcschedule.go:431`) hands on plan.md without comparing it (`run_unlocked`).
6. `sdlcDriveSpawn` (`sdlcspawn.go:63`) computes the time left for a child only on the way to linking
   it; a drive that finds it linked gives it a context that has expired, though `docs/SDLC.md:738`
   says that each resume advances one child action (`run_spawn`).

Also seen while modelling, without a run of its own. None of these is claimed not to happen:

*The run.* `--retry-failed` is documented for a pause on an agent failure (`docs/SDLC.md:565`), but
`failedPauseRole` (`sdlcresume.go:436`) knows only planner, implementer and assessor: a pause on the failure of an
expert has no resume. An injection pause during a drain, or with no phase, resumes into no stage; a session pause
during a drain returns to draining with nothing pending; an implementer that dies during a drain
leaves the drain to `driver-failed`; a driver that dies with the planner pending leaves the run to
the next drive (`sdlcdrive.go:179`); reassessing after `review-recovery-invalid` clears a recorded
rejection; a recovered review becomes pending again without the checks of `Assign`; a pause that
drops several reserved implementers completes one reservation, and the others hold their revisions
for good (`sdlcdrive.go:569`); with two drivers a host's assignment can overtake an open decision on experts;
verification is saved and the flow advanced in two writes, and after a crash between them an authored
stage has no route for "approved".

*Fan-out.* A reserved lease has PID 0, so another driver's reconciliation fails it; an error of one
`Reserve` leaves earlier reservations orphaned; the budget is charged before the schedule agrees; a
stale `pauseFanout` can pause a run that is already verifying; two live writers without worktrees
after a crash; a timed-out subtask can be retried only while another is not terminal, and two
timeouts make `RetryPhase` "paused"; worktrees of dependents start from the source revision, without
the changes of what they depend on; the rework that `docs/SDLC.md` describes has no way back from a
finished schedule; integration drops the error of `git status` (`sdlcintegrate.go:68`), takes its lines for whole
paths although an untracked directory is one line, a rename two entries and an ignored file none, and writes files
(`sdlcintegrate.go:183`) long after it looked: what the user writes there in between, or git does not list, is
overwritten (the exceptions in `EditsKept`); ids padded with blanks pass validation and never become ready (the exception in
`GraphFinishes`); `RepairAssignment` has no caller; a ceiling of zero is ignored by `AdmitCap`.

*Children.* Two drivers and a crash can adopt a child twice (`sdlcspawn.go:179`); a rejected or failed
child is adopted again on every drive; `run.json` is written back without the lock, a second driver's
`createSpawnChild` replaces the child, and a crash before the child's `WriteRun`
(`sdlcdelegate.go:135`) leaves it without the parent's plan and approvals.

*Workers.* A worker that loses its login is rerouted without comparing the workspace
(`worker.go:265`), though `docs/SDLC.md:698` makes an unchanged workspace the condition; saved diffs
(`worker.go:137`) and hooks installed per project appear as drift to parallel reviewers; earlier
receipts are not marked when the candidate changes before a later check. Where git fails a constant stands for
the worktree (`verify.go:58`), and checks that pass may have seen different contents; ignored paths are in no capture.

*Guard and breaker.* No command resets the breaker; cancelled asks count as failures. A crash or the
timeout of a hook between a review's record and its index hides the review until the session's index is
written; a crash between the allow-list and the record leaves content allowed and its review pending.

*Engine* (no command calls it yet). A missing artifact is retried, though `events.go` says it fails the
node without consuming an attempt; edges back are kept by node and label (`compile.go:249`), and a route may be labelled `default` or `next` like the
edge of that name: a forward edge then goes back with it, against `compile.go:22-26`, and cuts the run off early,
or leaves nodes unreachable so that the workflow is refused; a route with an empty target passes validation
(`spec.go:267`) and the compiler panics on it (`compile.go:191`); a loop straight back to an assigned node stops with "no agent
assignment yet"; loops with several entries can be cut off without having been sent back.

*Files.* Edits after an install are lost at uninstall (documented); a crash between a restore and the removal
of its sidecar lets a later uninstall restore it over newer edits; some entries of the user are
dropped by merges: groups without hooks (Claude, Codex, Antigravity), values that are no lists, and for Antigravity
his hooks in the group that is called jevkit (`antigravity_install.go:117`); a managed entry that he moved beside a
hook of his own stays there when Antigravity's is installed again or removed (`antigravity_install.go:152`), and
one under an event that jevkit does not write stays when another adapter's is installed again. An unlocked resume can bring back a deleted
run without its artifacts; a run written after a deletion was planned is left without its parent; a
deletion that stops leaves the usage of what it deleted; logs of checks after a resume are never
pruned; a crash between pruning a stream and its mark looks like an invocation that was never
captured. A known secret that is part of the placeholder makes every match refused; what is left of a
shorter secret that overlaps a longer one stays; the second layer's first default rule id is rejected;
two edits of one file lose one, and edits of both files can give a configuration that does not load.

## 6. Limits of the model

Left out of `AdaptiveRun`: runs with a subtask graph, an authored workflow or an automatic
child, which are modules of their own (`Fanout`, `StageFlow`, `Delegation`); the recovery of reviews saved by old versions; the shortcut for receipts that are still
valid; session strategies and compaction; plan files edited behind the run's back. Whether a budget
is exhausted is nondeterministic at every gate, so that nothing depends on amounts; that the
operator extended too little (and the run pauses again with its phase) is not modelled. A crash
loses the driver's goroutines, never a lock section: sections end in an atomic rename. The one
exception the code has, the artifact written before `run.json`, is a step of `Report`.

Left out of `TreeBudget`: the allowance of steps of each workflow beside that of the tree, a changed
invocation timeout, the supervisor's own activities (same lease, no reservation), ledgers derived
from old runs, warnings. Completing a reservation and saving the run are one action: a crash
between them leaves a pending invocation whose reservation is spent. Time is discrete and the
clock never goes back; a driver that stalls for longer than its lease while its worker runs is
outside `ActiveTimeCharged` (the assumption is in `Advance`). An invocation that somebody already
completed may be launched again by a driver that found it pending before; it is not charged.

Left out of `Fanout`: read-only subtasks, the content of patches, costs, a PID that is used again. A commit takes whole paths, and which paths git does not name is fixed (`Unlisted`). A
driver waits for its workers, so a worker without a driver is one whose driver died. Left out of `StageFlow`
and `Delegation`: what a role and a child do inside (a step with every outcome), costs and time. `WorkerCalls`:
the workspace is the set of changes it holds, of paths that git does not ignore; streams, usage and prompts are left out. `JevCalls`: the
confidences are four classes, waits between retries have no length. `InjectionReviews`: whether an
output is suspicious and a command risky is part of the input. `AgentConfigs`: a file is its
entries and whether its bytes are untouched; JSON that does not parse stops a command before it
writes. `Redaction`: a word stands for what one rule matches; patterns are not read character by
character. `SavedRuns`: an inventory is one step, a deletion one step per run.

The parts are checked beside each other, not composed: no run combines a fan-out with the budget's
ledger (it has a count instead), a child's loop with its parent's, or verification with the integration.

Combinations not claimed, because the property then fails:
`ReviewersReadCandidate` with crashes and two drivers, `ApprovedIsUnrejected` with drift,
`ApprovedByQuorum` with drift and crashes (section 4 tells how),
`ApprovedWasVerified` and `ExpertsHeard` with two drivers, `DoneIsFinal` with two drivers and
failures (a failure recorded after approval by another driver reopens the run).

## 7. Not modelled, and what could follow

Not modelled: specifications, catalogs and journals of workflows (parsing and validation of files);
compaction; the reports of usage and the dashboard, which read only; hooks' protocols, plugins, the
registry, upgrades, the keystore and the MCP server's dispatch, which are sequential I/O. Of the ledger, events
and the records of attempts are left out: `AppendAttempt` (`ledger.go:491`) rewrites its file without
the lock, but nothing reads it back into a decision.

What would add most next: `Fanout` over the ledger of `TreeBudget`; a parent and a child that both are
`AdaptiveRun`; the exceptions of `ApprovedByQuorum` and `ReviewersReadCandidate` (drift and crashes, crashes and a
second actor) as properties of what the code does guarantee then. Section 4 leaves no safety property unproved but
that of `Redaction`, for the reason it gives.
