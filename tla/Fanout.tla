------------------------------- MODULE Fanout -------------------------------
(***************************************************************************)
(* The fan-out of an approved subtask graph (cmd/jevkit/sdlc:              *)
(* sdlcschedule.go, sdlcintegrate.go; internal/sdlc/adaptive: scheduler.go, *)
(* integration.go).  Drivers are processes on one run: each observes which *)
(* leases are alive, reconciles the schedule, admits ready subtasks, runs  *)
(* them, and integrates the changes of all into the project.  run.json is  *)
(* one record; every update under its lock is one action, and so are the   *)
(* reads that decide and the resume that writes without the lock.          *)
(*                                                                         *)
(* What is not here: the tree budget (TreeBudget) but for the number of    *)
(* invocations it allows, read-only subtasks, and content of patches.      *)
(***************************************************************************)
EXTENDS Integers, FiniteSets

CONSTANTS
    Subtasks,    \* subtask ids, ordered as their merge order
    DependsOn,   \* [Subtasks -> SUBSET Subtasks]
    OwnedPaths,  \* [Subtasks -> SUBSET Paths], disjoint
    Paths,       \* paths of the project
    Unlisted,    \* those git status may not name though they differ: ignored, in a directory
                 \* that is listed whole, or renamed
    Drivers,     \* processes that may drive the run
    Candidates,  \* eligible bindings 1 .. n, in the order routing offers them
    MaxConcurrency, \* what the policy allows to run at once
    Allowance,   \* bound of this instance: invocations the budget allows
    MaxFaults,   \* bound of this instance: crashes, failures, commits of the user, and the like
    MaxEvents    \* bound of this instance: invocations and faults together when one more fault comes

ASSUME FanoutConstants ==
    /\ IsFiniteSet(Subtasks) /\ Subtasks \subseteq Int
    /\ DependsOn \in [Subtasks -> SUBSET Subtasks]
    /\ OwnedPaths \in [Subtasks -> SUBSET Paths] /\ Unlisted \subseteq Paths
    /\ \A s, u \in Subtasks : s # u => OwnedPaths[s] \cap OwnedPaths[u] = {} \* plancontract.go:246
    /\ Candidates \in Nat /\ MaxConcurrency \in Nat \ {0} /\ Allowance \in Nat
    /\ "none" \notin Drivers /\ "gone" \notin Drivers /\ MaxFaults \in Nat /\ MaxEvents \in Nat

Terminal == {"succeeded", "failed", "timed-out", "cancelled"}
Failure  == Terminal \ {"succeeded"}
Agents   == 1 .. Candidates

\* SubtaskRecord; inv is the number of the invocation that leases or ran it.
Task == [status : {"pending", "reserved", "running"} \cup Terminal,
         inv : 0 .. Allowance, agent : 0 .. Candidates,
         pid : Drivers \cup {"none", "gone"}, changed : SUBSET Paths]

Unstarted == [status |-> "pending", inv |-> 0, agent |-> 0, pid |-> "none", changed |-> {}]

VARIABLES
    run,  \* run.json: schedule, stage and integration record, and the graph's concurrency
    used, \* invocations charged to the budget
    tree, \* [Paths -> whose content]: Base, User or By(s)
    repo, \* the project: dirty paths, and whether HEAD moved since the plan
    live, \* the workers that run
    drv,  \* what each driver is at
    res,  \* what a resume read
    past  \* history: see NoPast

fanoutVars == <<run, used, tree, repo, live, drv, res, past>>

Base  == <<"base", 0>>
User  == <<"user", 0>>
By(s) == <<"subtask", s>>

Idle == [at |-> "idle", seen |-> {}, cap |-> 0, busy |-> FALSE, ready |-> {}, mine |-> {},
         reason |-> "", todo |-> {}, snap |-> {}]

NoPast == [lost |-> FALSE,    \* a resume wrote over a newer run.json
           late |-> {},       \* paths the user wrote or committed since an integration last
                              \* read HEAD, and those that git did not tell it of
           faults |-> 0]      \* what went wrong so far

FanoutInit ==
    /\ run \in [tasks : {[s \in Subtasks |-> Unstarted]}, concurrency : 1 .. MaxConcurrency,
               git : {"unknown"}, paused : {""}, pending : {FALSE}, integration : {""},
               candidate : {FALSE}, stage : {"implementing"}, retry : {""}]
    /\ used = 0
    /\ tree = [p \in Paths |-> Base]
    /\ repo = [dirty |-> {}, moved |-> FALSE]
    /\ live = {} /\ drv = [d \in Drivers |-> Idle] /\ res = {} /\ past = NoPast
-----------------------------------------------------------------------------
(***************************************************************************)
(* The schedule                                                            *)
(***************************************************************************)

InFlight(t)    == {s \in Subtasks : t[s].status \in {"reserved", "running"}}
Ready(t)       == {s \in Subtasks : /\ t[s].status = "pending"
                                    /\ \A e \in DependsOn[s] : t[e].status = "succeeded"}
AllTerminal(t) == \A s \in Subtasks : t[s].status \in Terminal
HasFailures(t) == \E s \in Subtasks : t[s].status \in Failure
EndedBadly(t)  == AllTerminal(t) /\ HasFailures(t)

\* A reserved subtask has no PID yet: its lease is never seen alive.
SeenAlive(t) == {s \in InFlight(t) : t[s].pid \in Drivers}

\* Mutant of Reconciled: what a dead driver ran is tried again.
ReconciledAgain(t, seen) ==
    [s \in Subtasks |-> IF s \in InFlight(t) /\ <<s, t[s].inv>> \notin seen THEN Unstarted ELSE t[s]]

\* Reconcile: a lease that was not seen alive, or not seen with this owner, failed.
Reconciled(t, seen) ==
    [s \in Subtasks |-> IF s \in InFlight(t) /\ <<s, t[s].inv>> \notin seen
                        THEN [t[s] EXCEPT !.status = "failed", !.pid = "none"] ELSE t[s]]

\* AdmitCap: ceilings that are zero do not count; the budget refuses later.
AdmitCap(t) ==
    LET left   == Allowance - used
        limits == {run.concurrency} \cup {n \in {Candidates, left} : n > 0}
        cap    == (CHOOSE m \in limits : \A n \in limits : m <= n) - Cardinality(InFlight(t))
    IN IF cap < 0 THEN 0 ELSE cap

\* State.Pause; a pause for the budget is one no resume of this model ends.
Paused(r, reason) ==
    [r EXCEPT !.stage = reason,
              !.retry = IF reason # "invocation-timeout" THEN @
                        ELSE IF r.stage = "implementing" THEN "implementing" ELSE "paused"]

\* pauseFanout and pauseDriveError.
PausedFanout(r, reason) ==
    IF reason = "driver-error"
    THEN IF r.stage = "implementing" THEN Paused(r, "implementer-failed")
         ELSE IF r.stage = "verifying" THEN Paused(r, "driver-failed") ELSE r
    ELSE [Paused(r, reason) EXCEPT !.paused = IF @ = "" THEN reason ELSE @]


\* The leases of a process that ended name nobody.
Orphaned(r, d) ==
    LET t == r.tasks
    IN [r EXCEPT !.tasks = [s \in Subtasks |-> IF t[s].pid = d THEN [t[s] EXCEPT !.pid = "gone"]
                                               ELSE t[s]]]

\* The run should be integrated now (sdlcDriveFanout decides it twice).
Integrable(r) == r.pending \/ (EndedBadly(r.tasks) /\ r.integration = "")
-----------------------------------------------------------------------------
(***************************************************************************)
(* A drive: observe, reconcile, admit                                      *)
(***************************************************************************)

FaultWith(late) ==
    /\ past.faults < MaxFaults /\ used + past.faults < MaxEvents
    /\ past' = [past EXCEPT !.faults = @ + 1, !.late = late]

Fault == FaultWith(past.late)

Goes(d, at) == drv' = [drv EXCEPT ![d].at = at]
Rests(d)    == drv' = [drv EXCEPT ![d] = Idle]

PausesFor(d, reason) == drv' = [drv EXCEPT ![d] = [Idle EXCEPT !.at = "pausing", !.reason = reason]]

\* approvedFanoutGraph, ensureFanoutSchedule and the process checks of
\* reconcileFanout.  The first drive finds whether the project is a repository.
Observe(d) ==
    /\ drv[d].at = "idle" /\ run.stage = "implementing"
    /\ \/ run.git # "unknown" /\ UNCHANGED run
       \/ run.git = "unknown" /\ \E g \in {"recorded", "unrecorded"} : run' = [run EXCEPT !.git = g]
    /\ drv' = [drv EXCEPT ![d].at = "observed",
                          ![d].seen = {<<s, run.tasks[s].inv>> : s \in SeenAlive(run.tasks)}]
    /\ UNCHANGED <<used, tree, repo, live, res, past>>

Reconcile(d) ==
    /\ drv[d].at = "observed"
    /\ run' = [run EXCEPT !.tasks = Reconciled(@, drv[d].seen)]
    /\ drv' = [drv EXCEPT ![d] = [Idle EXCEPT !.at = "reconciled"]]
    /\ UNCHANGED <<used, tree, repo, live, res, past>>

\* What a drive does with a schedule that has ended; both ends of a drive.
Concludes(d, r) ==
    IF Integrable(r)
    THEN drv' = [drv EXCEPT ![d] = [Idle EXCEPT !.at = "joining", !.snap = {r}]]
    ELSE IF r.integration = "" \/ r.integration = "applied" THEN PausesFor(d, "fanout-subtask-failed")
    ELSE Rests(d)

Admit(d) ==
    LET t == run.tasks
    IN /\ drv[d].at = "reconciled"
       /\ IF run.paused # "" THEN Rests(d)
          ELSE IF Integrable(run) \/ EndedBadly(t) THEN Concludes(d, run)
          ELSE IF AdmitCap(t) = 0
          THEN IF InFlight(t) # {} THEN Rests(d) ELSE PausesFor(d, "fanout-budget-exhausted")
          ELSE IF Ready(t) = {}
          THEN IF InFlight(t) # {} THEN Rests(d) ELSE PausesFor(d, "fanout-blocked")
          ELSE drv' = [drv EXCEPT ![d] = [Idle EXCEPT !.at = "admitting", !.cap = AdmitCap(t),
                                                      !.ready = Ready(t), !.busy = InFlight(t) # {}]]
       /\ UNCHANGED <<run, used, tree, repo, live, res, past>>

\* The pause is written later than it is decided, over whatever the run is by then.
\* A drive that ends with an error ends its process.
PauseFanout(d) ==
    /\ drv[d].at = "pausing"
    /\ run' = LET r == PausedFanout(run, drv[d].reason)
              IN IF drv[d].reason = "driver-error" THEN Orphaned(r, d) ELSE r
    /\ res' = IF drv[d].reason = "driver-error" THEN {Orphaned(r, d) : r \in res} ELSE res
    /\ Rests(d)
    /\ UNCHANGED <<used, tree, repo, live, past>>
-----------------------------------------------------------------------------
(***************************************************************************)
(* Reservations, one at a time in merge order                              *)
(***************************************************************************)

\* The first candidate no reservation of this drive has.
FreeAgents(d) == Agents \ {m.agent : m \in drv[d].mine}
IsChoice(d, a) == a \in FreeAgents(d) /\ \A b \in FreeAgents(d) : a <= b

IsNext(d, s) == s \in drv[d].ready /\ \A e \in drv[d].ready : s <= e

\* DecideIsolation for a writable subtask: a worktree each, or one after the other.
Isolable(d) == run.git = "recorded" \/ ~drv[d].busy

MayReserve(d) ==
    /\ drv[d].at = "admitting" /\ drv[d].ready # {} /\ Cardinality(drv[d].mine) < drv[d].cap
    /\ FreeAgents(d) # {} /\ Isolable(d)

\* No more ready subtasks, slots, candidates or isolation.
StopAdmitting(d) ==
    /\ drv[d].at = "admitting" /\ ~MayReserve(d)
    /\ IF drv[d].mine = {} THEN Rests(d) ELSE Goes(d, "running")
    /\ UNCHANGED <<run, used, tree, repo, live, res, past>>

\* What is reserved already stays so, with nobody to run it.
WorktreeFails(d) ==
    /\ Fault /\ MayReserve(d) /\ run.git = "recorded"
    /\ run' = [run EXCEPT !.paused = "worktree-create-failed"]
    /\ PausesFor(d, "fanout-isolation-unavailable")
    /\ UNCHANGED <<used, tree, repo, live, res>>

BudgetRefuses(d) ==
    /\ MayReserve(d) /\ used >= Allowance
    /\ IF drv[d].mine # {} THEN Goes(d, "running") ELSE PausesFor(d, "fanout-budget-exhausted")
    /\ UNCHANGED <<run, used, tree, repo, live, res, past>>

\* Mutant of Reservable: any number of subtasks for a binding.
ReservableTwice(t, a) == run.git = "recorded" \/ InFlight(t) = {}

\* Schedule.Reserve: the binding works on one subtask at a time, and a project
\* without worktrees is written by one.
Reservable(t, a) ==
    /\ \A s \in InFlight(t) : t[s].agent # a
    /\ run.git = "recorded" \/ InFlight(t) = {}


\* The budget is charged before the schedule agrees.
Reserve(d, s, a) ==
    LET t == run.tasks
    IN /\ MayReserve(d) /\ IsNext(d, s) /\ IsChoice(d, a) /\ used < Allowance
       /\ used' = used + 1
       /\ \/ /\ \/ run.paused # ""
                \/ s \in Ready(t) /\ ~Reservable(t, a)
             /\ PausesFor(d, "driver-error") /\ UNCHANGED run
          \/ /\ run.paused = "" /\ s \notin Ready(t)
             /\ drv' = [drv EXCEPT ![d].ready = @ \ {s}, ![d].busy = InFlight(t) # {} \/ @]
             /\ UNCHANGED run
          \/ /\ run.paused = "" /\ s \in Ready(t) /\ Reservable(t, a)
             /\ run' = [run EXCEPT !.tasks[s] = [Unstarted EXCEPT !.status = "reserved",
                                                                  !.inv = used + 1, !.agent = a]]
             /\ drv' = [drv EXCEPT ![d].ready = @ \ {s}, ![d].busy = TRUE,
                                   ![d].mine = @ \cup {[sub |-> s, inv |-> used + 1, agent |-> a]},
                                   ![d].cap = IF run.git = "recorded" THEN @ ELSE 1]
       /\ UNCHANGED <<tree, repo, live, res, past>>
-----------------------------------------------------------------------------
(***************************************************************************)
(* Workers: MarkRunning and Complete go by subtask, their errors ignored   *)
(***************************************************************************)

Start(d, m) ==
    /\ drv[d].at = "running" /\ m \in drv[d].mine
    /\ run' = [run EXCEPT !.tasks[m.sub] =
                 IF @.status = "reserved" THEN [@ EXCEPT !.status = "running", !.pid = d] ELSE @]
    /\ live' = live \cup {[sub |-> m.sub, inv |-> m.inv, by |-> d]}
    /\ drv' = [drv EXCEPT ![d].mine = @ \ {m}]
    /\ UNCHANGED <<used, tree, repo, res, past>>

Written(w, c) ==
    IF run.git = "recorded" THEN tree
    ELSE [p \in Paths |-> IF p \in c THEN By(w.sub) ELSE tree[p]]

\* Mutant of Completed: integrates what has ended, failed or not.
CompletedEarly(r, s, status, c) ==
    LET t == [r.tasks EXCEPT ![s].status = status, ![s].pid = "none", ![s].changed = c]
    IN [r EXCEPT !.tasks = t, !.pending = TRUE]

\* Schedule.Complete: whichever invocation of the subtask is in flight.
Completed(r, s, status, c) ==
    LET t == [r.tasks EXCEPT ![s].status = status, ![s].pid = "none", ![s].changed = c]
        q == [r EXCEPT !.tasks = t, !.pending = @ \/ (AllTerminal(t) /\ ~HasFailures(t))]
    IN IF status = "timed-out" THEN [Paused(q, "invocation-timeout") EXCEPT !.paused = "invocation-timeout"]
       ELSE q


Expected(s)   == {<<"succeeded", {}>>, <<"succeeded", OwnedPaths[s]>>}
Unexpected(s) == {<<f, {}>> : f \in Failure} \cup ({<<"succeeded", Paths>>} \ Expected(s))
Outcomes(s)   == Expected(s) \cup Unexpected(s)

\* A cancelled drive returns the error of its context, which pauses nothing.
Answer(w, o) ==
    /\ w \in live /\ w.by \in Drivers /\ o \in Outcomes(w.sub)
    /\ live' = live \ {w} /\ tree' = Written(w, o[2])
    /\ IF o \in Unexpected(w.sub) THEN Fault ELSE UNCHANGED past
    /\ run' = IF w.sub \in InFlight(run.tasks) THEN Completed(run, w.sub, o[1], o[2]) ELSE run
    /\ drv' = IF o[1] = "cancelled" THEN [drv EXCEPT ![w.by].reason = "cancelled"] ELSE drv
    /\ UNCHANGED <<used, repo, res>>

\* sdlcPauseInjectionReview: the reply is dropped, the record still says running.
Drop(w) ==
    /\ Fault /\ w \in live /\ w.by \in Drivers
    /\ live' = live \ {w}
    /\ run' = Paused(run, "injection-review-required")
    /\ drv' = [drv EXCEPT ![w.by].reason = "driver-error"]
    /\ UNCHANGED <<used, tree, repo, res>>

\* wg.Wait has returned.
Join(d) ==
    /\ drv[d].at = "running" /\ drv[d].mine = {} /\ \A w \in live : w.by # d
    /\ IF drv[d].reason = "driver-error" THEN PausesFor(d, "driver-error")
       ELSE IF drv[d].reason = "cancelled" THEN Rests(d)
       ELSE IF Integrable(run) \/ EndedBadly(run.tasks)
       THEN Concludes(d, run)
       ELSE Rests(d)
    /\ UNCHANGED <<run, used, tree, repo, live, res, past>>
-----------------------------------------------------------------------------
(***************************************************************************)
(* Integration, from what the driver read, in the worktree as it is        *)
(***************************************************************************)

\* What git status lists of the files that differ, by their names.
StatusLists ==
    IF run.git = "recorded" THEN {d \in SUBSET repo.dirty : repo.dirty \ Unlisted \subseteq d} ELSE {{}}

\* Mutant of Clean: the user's changes are not looked for.
CleanAll(changes, dirty) == changes

Clean(changes, dirty) == {c \in changes : c[1] \notin dirty}

\* CollectContributions: what the subtasks changed.
Contributions(t) == {c \in Paths \X Subtasks : c[1] \in t[c[2]].changed}

\* PlanIntegration: the outcome, and the files to copy.
Plan(r, moved, dirty) ==
    LET changes == Contributions(r.tasks)
        clean   == Clean(changes, dirty)
        verdict == IF HasFailures(r.tasks) \/ moved
                      \/ \E c \in changes : c[1] \notin OwnedPaths[c[2]] THEN "repair"
                   ELSE IF changes # {} /\ clean = {} THEN "paused"
                   ELSE "pending"
    IN [verdict |-> verdict, todo |-> IF verdict = "pending" THEN clean ELSE {}]

Joins(d) == drv[d].at \in {"looking", "copying"}

\* sdlcIntegrateFanout: one driver at a time holds the activity of the join, and reads HEAD
\* before it lists what is dirty.  A HEAD that git does not tell has not moved.
LookAtHead(d) ==
    /\ drv[d].at = "joining"
    /\ \E r \in drv[d].snap :
         IF r.integration = "applied" THEN Rests(d) /\ UNCHANGED past
         ELSE IF \E e \in Drivers : Joins(e) THEN PausesFor(d, "driver-error") /\ UNCHANGED past
         ELSE \/ /\ drv' = [drv EXCEPT ![d].at = "looking", ![d].reason = IF repo.moved THEN "moved" ELSE ""]
                 /\ past' = [past EXCEPT !.late = Unlisted]
              \/ /\ drv' = [drv EXCEPT ![d].at = "looking", ![d].reason = ""]
                 /\ FaultWith(Unlisted \cup {p \in Paths : tree[p] = User /\ p \notin repo.dirty})
    /\ UNCHANGED <<run, used, tree, repo, live, res>>

\* The plan is made of what is dirty by then; nothing is, if git does not tell.
Collect(d) ==
    /\ drv[d].at = "looking"
    /\ \E r \in drv[d].snap, dirty \in StatusLists \cup {{}} :
         LET p == Plan(r, drv[d].reason = "moved", dirty)
         IN  /\ drv' = [drv EXCEPT ![d] = [Idle EXCEPT !.at = "copying", !.reason = p.verdict, !.todo = p.todo]]
             /\ IF dirty \in StatusLists THEN UNCHANGED past ELSE FaultWith(Paths)
    /\ UNCHANGED <<run, used, tree, repo, live, res>>

\* Without worktrees the files are there already.
Copy(d, c) ==
    /\ drv[d].at = "copying" /\ c \in drv[d].todo
    /\ drv' = [drv EXCEPT ![d].todo = @ \ {c}]
    /\ IF run.git = "recorded"
       THEN tree' = [tree EXCEPT ![c[1]] = By(c[2])] /\ repo' = [repo EXCEPT !.dirty = @ \cup {c[1]}]
       ELSE UNCHANGED <<tree, repo>>
    /\ UNCHANGED <<run, used, live, res, past>>

\* What was copied before it stays.
CopyFails(d) ==
    /\ Fault /\ drv[d].at = "copying" /\ drv[d].todo # {}
    /\ drv' = [drv EXCEPT ![d].todo = {}, ![d].reason = "paused"]
    /\ UNCHANGED <<run, used, tree, repo, live, res>>

Copied(d) == drv[d].todo = {}

\* persistIntegration; ApplyIntegratedCandidate refuses a candidate it has, and a
\* run that has gone on.
Integrated(r) == [r EXCEPT !.integration = "applied", !.pending = FALSE, !.candidate = TRUE,
                           !.stage = "verifying"]

IntegrationPause(v) ==
    IF v = "repair" THEN "fanout-integration-repair" ELSE "fanout-integration-blocked"

Persist(d) ==
    /\ drv[d].at = "copying" /\ Copied(d)
    /\ IF drv[d].reason = "pending"
       THEN IF run.candidate \/ run.stage \in {"verifying", "assessing"}
            THEN PausesFor(d, "driver-error") /\ UNCHANGED run
            ELSE run' = Integrated(run) /\ Rests(d)
       ELSE /\ run' = [Paused(run, IntegrationPause(drv[d].reason))
                         EXCEPT !.integration = drv[d].reason, !.pending = FALSE,
                                !.paused = IntegrationPause(drv[d].reason)]
            /\ Rests(d)
    /\ UNCHANGED <<used, tree, repo, live, res, past>>
-----------------------------------------------------------------------------
(***************************************************************************)
(* Crashes, the user, verification, and a resume                           *)
(***************************************************************************)

\* The process dies, or ends idle; a worker of its own group may live on.
Leave(d) ==
    /\ \/ drv[d].at # "idle" /\ Fault
       \/ drv[d].at = "idle" /\ (\E s \in Subtasks : run.tasks[s].pid = d) /\ UNCHANGED past
    /\ run' = Orphaned(run, d) /\ res' = {Orphaned(r, d) : r \in res} /\ Rests(d)
    /\ \/ live' = {w \in live : w.by # d}
       \/ live' = {IF w.by = d THEN [w EXCEPT !.by = "gone"] ELSE w : w \in live}
    /\ UNCHANGED <<used, tree, repo>>

OrphanEnds(w) ==
    /\ w \in live /\ w.by = "gone"
    /\ live' = live \ {w} /\ tree' = Written(w, OwnedPaths[w.sub])
    /\ UNCHANGED <<run, used, repo, drv, res, past>>

\* At any moment, also while files are copied.
UserEdits(p) ==
    /\ FaultWith(past.late \cup {p})
    /\ tree[p] # User \/ p \notin repo.dirty
    /\ tree' = [tree EXCEPT ![p] = User] /\ repo' = [repo EXCEPT !.dirty = @ \cup {p}]
    /\ UNCHANGED <<run, used, live, drv, res>>

\* Some of what is dirty, or all.
UserCommits(c) ==
    /\ FaultWith(past.late \cup c)
    /\ run.git = "recorded" /\ c # {}
    /\ repo' = [dirty |-> repo.dirty \ c, moved |-> TRUE]
    /\ UNCHANGED <<run, used, tree, live, drv, res>>

\* The checks of the supervisor: assessment, or back to the implementer.
Verify(ok) ==
    /\ run.stage = "verifying"
    /\ run' = [run EXCEPT !.stage = IF ok THEN "assessing" ELSE "implementing"]
    /\ UNCHANGED <<used, tree, repo, live, drv, res, past>>

\* resume --retry-failed reads run.json and writes it back, without the lock.
ResumeReads ==
    /\ res = {}
    /\ run.stage \in {"invocation-timeout", "implementer-failed"}
    /\ res' = {run}
    /\ UNCHANGED <<run, used, tree, repo, live, drv, past>>

Resumed(r) ==
    IF r.stage = "implementer-failed" THEN [r EXCEPT !.stage = "implementing"]
    ELSE [r EXCEPT !.stage = r.retry, !.paused = "",
                   !.tasks = [s \in Subtasks |-> IF @[s].status = "timed-out" THEN Unstarted ELSE @[s]]]

ResumeWrites ==
    /\ \E r \in res :
         /\ run' = Resumed(r)
         /\ past' = [past EXCEPT !.lost = @ \/ r # run]
    /\ res' = {}
    /\ UNCHANGED <<used, tree, repo, live, drv>>

DriverStep(d) ==
    \/ Observe(d) \/ Reconcile(d) \/ Admit(d) \/ PauseFanout(d)
    \/ StopAdmitting(d) \/ WorktreeFails(d) \/ BudgetRefuses(d)
    \/ \E s \in drv[d].ready, a \in Agents : Reserve(d, s, a)
    \/ \E m \in drv[d].mine : Start(d, m)
    \/ Join(d) \/ LookAtHead(d) \/ Collect(d) \/ (\E c \in drv[d].todo : Copy(d, c)) \/ CopyFails(d) \/ Persist(d)

WorkerStep(d) ==
    \E w \in {v \in live : v.by = d} : Drop(w) \/ \E o \in Outcomes(w.sub) : Answer(w, o)

FanoutNext ==
    \/ \E d \in Drivers : DriverStep(d) \/ WorkerStep(d) \/ Leave(d)
    \/ \E w \in live : OrphanEnds(w)
    \/ \E p \in Paths : UserEdits(p)
    \/ \E c \in SUBSET repo.dirty : UserCommits(c)
    \/ ResumeReads \/ ResumeWrites
    \/ \E ok \in BOOLEAN : Verify(ok)

FanoutSpec == FanoutInit /\ [][FanoutNext]_fanoutVars
-----------------------------------------------------------------------------
(***************************************************************************)
(* Correctness                                                             *)
(***************************************************************************)

\* The subtasks that hold a lease never exceed the concurrency the planner's graph
\* was bounded to, whatever drivers admit, die and resume: the cap is computed from
\* one reading of the schedule and used for several later reservations, and a
\* binding leases one subtask at a time (Schedule.Reserve).
SlotsBounded == Cardinality(InFlight(run.tasks)) <= run.concurrency

\* No subtask has two workers at once, not even one whose lease was taken from a
\* driver that died and left its worker running; a resume that writes run.json over
\* a newer one (sdlcresume.go reads it before the lock) is the known exception.
OneWorker == past.lost \/ \A v, w \in live : v.sub = w.sub => v = w

\* A candidate that reaches verification is the work of all subtasks: every path that a
\* subtask changed holds that change, or what the user made of it since.  The resume that
\* writes over a newer run.json is the exception again: it gives back subtasks that are
\* done while a driver integrates them.
VerifiedComplete ==
    run.stage = "verifying" /\ ~past.lost =>
        \A s \in Subtasks : \A p \in run.tasks[s].changed : tree[p] \in {By(s), User}

\* In a repository, no step of the fan-out replaces what the user had written, or committed,
\* before an integration began to look at the project: workers write to worktrees, and an
\* integration copies only to paths that were clean then, in a project whose HEAD had not
\* moved, however long after it copies and whatever else is edited.  What it may replace
\* (`late`) is what the user wrote or committed since it read HEAD, and what git does not list
\* or did not tell (sdlcintegrate.go drops the error of git status, and goes by exact paths).
EditsKept ==
    [][\A p \in Paths : tree[p] = User /\ run.git = "recorded" => tree'[p] = User \/ p \in past.late]_fanoutVars
=============================================================================
