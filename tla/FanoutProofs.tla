---------------------------- MODULE FanoutProofs ----------------------------
(***************************************************************************)
(* The bound on what a fan-out runs at once, who works on a subtask, what  *)
(* integration leaves in the project, and that it keeps the user's edits,  *)
(* proved for any number of subtasks, drivers, candidates, paths, faults   *)
(* and any concurrency.                                                    *)
(***************************************************************************)
EXTENDS Fanout, FiniteSetTheorems, TLAPS

\* The states, reasons and stages that the records of the fan-out name.
Words ==
    {"", "idle", "observed", "reconciled", "admitting", "running", "pausing", "joining", "looking",
     "copying", "moved", "unknown", "recorded", "unrecorded", "pending", "repair", "paused", "applied", "cancelled",
     "implementing", "verifying", "assessing", "driver-error", "driver-failed", "implementer-failed",
     "invocation-timeout", "injection-review-required", "worktree-create-failed",
     "fanout-subtask-failed", "fanout-budget-exhausted", "fanout-blocked",
     "fanout-isolation-unavailable", "fanout-integration-repair", "fanout-integration-blocked"}

RunRec == [tasks : [Subtasks -> Task], concurrency : Nat \ {0}, git : Words, paused : Words,
           pending : BOOLEAN, integration : Words, candidate : BOOLEAN, stage : Words, retry : Words]

Slot == [sub : Subtasks, inv : Nat, agent : Agents]

Job == [at : Words, seen : SUBSET (Subtasks \X Nat), cap : Nat, busy : BOOLEAN,
        ready : SUBSET Subtasks, mine : SUBSET Slot, reason : Words,
        todo : SUBSET (Paths \X Subtasks), snap : SUBSET RunRec]

\* A saved run leases its subtasks to different agents, of the first `concurrency` ones.
Leases(r) ==
    LET t == r.tasks
    IN /\ \A s \in InFlight(t) : t[s].agent \in 1 .. r.concurrency
       /\ \A s, u \in InFlight(t) : t[s].agent = t[u].agent => s = u

\* A driver that admits holds the first agents, no more than its cap.
Admits(j, n) ==
    j.at = "admitting" =>
        /\ j.cap <= n /\ IsFiniteSet(j.mine)
        /\ {m.agent : m \in j.mine} = 1 .. Cardinality(j.mine)

FanoutTypeOK ==
    /\ run \in RunRec /\ res \subseteq RunRec
    /\ used \in Nat
    /\ drv \in [Drivers -> Job]
    /\ live \subseteq [sub : Subtasks, inv : Nat, by : Drivers \cup {"gone"}]

FanoutInv ==
    /\ FanoutTypeOK
    /\ Leases(run)
    /\ \A r \in res : Leases(r) /\ r.concurrency = run.concurrency
    /\ \A d \in Drivers : Admits(drv[d], run.concurrency)

\* q holds the leases of r, or fewer.
Fewer(q, r) ==
    /\ q \in RunRec /\ q.concurrency = r.concurrency
    /\ \A s \in InFlight(q.tasks) : s \in InFlight(r.tasks) /\ q.tasks[s].agent = r.tasks[s].agent

USE FanoutConstants

LEMMA FewerLeases ==
    ASSUME NEW q, NEW r, Fewer(q, r), Leases(r)
    PROVE  Leases(q)
  BY DEF Fewer, Leases

LEMMA SameTasks ==
    ASSUME NEW q \in RunRec, NEW r, q.tasks = r.tasks, q.concurrency = r.concurrency
    PROVE  Fewer(q, r)
  BY DEF Fewer

\* An injection into 1 .. concurrency: agents of leases are different.
LEMMA LeasesBound ==
    ASSUME NEW r \in RunRec, Leases(r)
    PROVE  Cardinality(InFlight(r.tasks)) <= r.concurrency
  <1> DEFINE t == r.tasks
             F == InFlight(t)
             f == [s \in F |-> t[s].agent]
  <1>1. F \subseteq Subtasks
    BY DEF InFlight
  <1>2. IsFiniteSet(1 .. r.concurrency) /\ Cardinality(1 .. r.concurrency) = r.concurrency
    BY FS_Interval DEF RunRec
  <1>3. f \in Injection(F, 1 .. r.concurrency)
    BY DEF Leases, Injection, IsInjective
  <1>4. Cardinality(F) <= Cardinality(1 .. r.concurrency)
    BY <1>2, <1>3, FS_Injection
  <1>5. QED BY <1>2, <1>4
-----------------------------------------------------------------------------
(***************************************************************************)
(* The operators on a saved run                                            *)
(***************************************************************************)

LEMMA PausedFewer ==
    ASSUME NEW r \in RunRec, NEW reason \in Words
    PROVE  Fewer(Paused(r, reason), r)
  <1> DEFINE w == IF reason # "invocation-timeout" THEN r.retry
                  ELSE IF r.stage = "implementing" THEN "implementing" ELSE "paused"
  <1>0. "implementing" \in Words /\ "paused" \in Words
    BY DEF Words
  <1>1. Paused(r, reason) \in RunRec
    <2>1. w \in Words
      BY <1>0 DEF RunRec
    <2>2. Paused(r, reason) = [r EXCEPT !.stage = reason, !.retry = w]
      BY DEF Paused, RunRec
    <2> HIDE DEF w
    <2>3. QED BY <2>1, <2>2 DEF RunRec
  <1>2. QED BY <1>1, SameTasks DEF Paused, RunRec

LEMMA PausedFanoutFewer ==
    ASSUME NEW r \in RunRec, NEW reason \in Words
    PROVE  Fewer(PausedFanout(r, reason), r)
  <1> DEFINE p == Paused(r, reason)
  <1>1. CASE reason = "driver-error"
    <2>1. "implementer-failed" \in Words /\ "driver-failed" \in Words
      BY DEF Words
    <2>2. Fewer(r, r)
      BY SameTasks
    <2>3. CASE r.stage = "implementing"
      <3>1. PausedFanout(r, reason) = Paused(r, "implementer-failed")
        BY <1>1, <2>3 DEF PausedFanout
      <3>2. QED BY <2>1, <3>1, PausedFewer
    <2>4. CASE r.stage = "verifying"
      <3>1. PausedFanout(r, reason) = Paused(r, "driver-failed")
        BY <1>1, <2>4 DEF PausedFanout
      <3>2. QED BY <2>1, <3>1, PausedFewer
    <2>5. CASE r.stage \notin {"implementing", "verifying"}
      BY <1>1, <2>2, <2>5 DEF PausedFanout
    <2>6. QED BY <2>3, <2>4, <2>5
  <1>2. CASE reason # "driver-error"
    <2>1. p \in RunRec /\ p.tasks = r.tasks /\ p.concurrency = r.concurrency
      <3>1. Fewer(p, r)
        BY PausedFewer
      <3>2. p.tasks = r.tasks
        BY DEF Paused, RunRec
      <3>3. QED BY <3>1, <3>2 DEF Fewer
    <2>2. PausedFanout(r, reason) = [p EXCEPT !.paused = IF @ = "" THEN reason ELSE @]
      BY <1>2 DEF PausedFanout
    <2> DEFINE q == [p EXCEPT !.paused = IF @ = "" THEN reason ELSE @]
    <2> HIDE DEF p
    <2>3. q \in RunRec /\ q.tasks = p.tasks /\ q.concurrency = p.concurrency
      BY <2>1 DEF RunRec
    <2>4. QED BY <2>1, <2>2, <2>3, SameTasks
  <1>3. QED BY <1>1, <1>2

\* Changing the tasks of a run to fewer leases.
LEMMA TasksFewer ==
    ASSUME NEW r \in RunRec, NEW t \in [Subtasks -> Task],
           \A s \in InFlight(t) : s \in InFlight(r.tasks) /\ t[s].agent = r.tasks[s].agent
    PROVE  Fewer([r EXCEPT !.tasks = t], r)
  BY DEF Fewer, RunRec

LEMMA OrphanedFewer ==
    ASSUME NEW r \in RunRec, NEW d \in Drivers
    PROVE  Fewer(Orphaned(r, d), r)
  <1> DEFINE t == [s \in Subtasks |-> IF r.tasks[s].pid = d THEN [r.tasks[s] EXCEPT !.pid = "gone"]
                                      ELSE r.tasks[s]]
  <1>1. t \in [Subtasks -> Task]
    BY DEF RunRec, Task
  <1>2. \A s \in InFlight(t) : s \in InFlight(r.tasks) /\ t[s].agent = r.tasks[s].agent
    BY DEF RunRec, Task, InFlight
  <1>3. QED BY <1>1, <1>2, TasksFewer DEF Orphaned

LEMMA ReconciledFewer ==
    ASSUME NEW r \in RunRec, NEW seen
    PROVE  Fewer([r EXCEPT !.tasks = Reconciled(@, seen)], r)
  <1> DEFINE t == Reconciled(r.tasks, seen)
  <1>1. t \in [Subtasks -> Task]
    <2>1. \A s \in Subtasks : [r.tasks[s] EXCEPT !.status = "failed", !.pid = "none"] \in Task
      <3>1. \A u \in Task : [u EXCEPT !.status = "failed", !.pid = "none"] \in Task
        BY DEF Task, Terminal
      <3>2. QED BY <3>1 DEF RunRec
    <2>2. QED BY <2>1 DEF RunRec, Reconciled
  <1>2. \A s \in InFlight(t) : s \in InFlight(r.tasks) /\ t[s].agent = r.tasks[s].agent
    BY DEF RunRec, Task, InFlight, Reconciled
  <1>3. QED BY <1>1, <1>2, TasksFewer

LEMMA CompletedFewer ==
    ASSUME NEW r \in RunRec, NEW s \in Subtasks, NEW status \in Terminal, NEW c \in SUBSET Paths
    PROVE  Fewer(Completed(r, s, status, c), r)
  <1> DEFINE t == [r.tasks EXCEPT ![s].status = status, ![s].pid = "none", ![s].changed = c]
             b == r.pending \/ (AllTerminal(t) /\ ~HasFailures(t))
             q == [r EXCEPT !.tasks = t, !.pending = b]
             y == Paused(q, "invocation-timeout")
             z == [y EXCEPT !.paused = "invocation-timeout"]
  <1>1. t \in [Subtasks -> Task]
    <2>1. \A u \in Task : [u EXCEPT !.status = status, !.pid = "none", !.changed = c] \in Task
      BY DEF Task
    <2>2. t = [r.tasks EXCEPT ![s] = [r.tasks[s] EXCEPT !.status = status, !.pid = "none", !.changed = c]]
      BY DEF RunRec, Task
    <2>3. QED BY <2>1, <2>2 DEF RunRec
  <1>2. \A u \in InFlight(t) : u \in InFlight(r.tasks) /\ t[u].agent = r.tasks[u].agent
    BY DEF RunRec, Task, InFlight, Terminal
  <1>3. b \in BOOLEAN
    BY DEF RunRec, AllTerminal, HasFailures
  <1>4. Completed(r, s, status, c) = IF status = "timed-out" THEN z ELSE q
    BY DEF Completed
  <1> HIDE DEF t, b
  <1>5. q \in RunRec /\ q.tasks = t /\ q.concurrency = r.concurrency
    BY <1>1, <1>3 DEF RunRec
  <1>6. Fewer(q, r)
    BY <1>2, <1>5 DEF Fewer
  <1> HIDE DEF q
  <1>7. y \in RunRec /\ y.tasks = q.tasks /\ y.concurrency = q.concurrency
    <2> DEFINE w == IF q.stage = "implementing" THEN "implementing" ELSE "paused"
    <2>1. y = [q EXCEPT !.stage = "invocation-timeout", !.retry = w]
      BY DEF Paused
    <2>2. w \in Words /\ "invocation-timeout" \in Words
      BY DEF Words
    <2> HIDE DEF w, y
    <2>3. QED BY <1>5, <2>1, <2>2 DEF RunRec
  <1> HIDE DEF y
  <1>8. z \in RunRec /\ z.tasks = q.tasks /\ z.concurrency = q.concurrency
    <2>1. "invocation-timeout" \in Words
      BY DEF Words
    <2>2. QED BY <1>7, <2>1 DEF RunRec
  <1>9. Fewer(z, r)
    BY <1>6, <1>8 DEF Fewer
  <1>10. QED BY <1>4, <1>6, <1>9

LEMMA ResumedFewer ==
    ASSUME NEW r \in RunRec
    PROVE  Fewer(Resumed(r), r)
  <1>1. CASE r.stage = "implementer-failed"
    <2>1. Resumed(r) \in RunRec
      BY ZenonT(60), <1>1 DEF Resumed, RunRec, Words
    <2>2. QED BY <1>1, <2>1, SameTasks DEF Resumed, RunRec
  <1>2. CASE r.stage # "implementer-failed"
    <2> DEFINE t == [s \in Subtasks |-> IF r.tasks[s].status = "timed-out" THEN Unstarted ELSE r.tasks[s]]
    <2>1. Unstarted \in Task
      BY DEF Unstarted, Task
    <2>2. t \in [Subtasks -> Task]
      BY <2>1 DEF RunRec
    <2>3. \A s \in InFlight(t) : s \in InFlight(r.tasks) /\ t[s].agent = r.tasks[s].agent
      BY DEF RunRec, Task, InFlight, Unstarted
    <2>4. Resumed(r) = [r EXCEPT !.stage = r.retry, !.paused = "", !.tasks = t]
      BY <1>2 DEF Resumed, RunRec
    <2> HIDE DEF t
    <2>5. Resumed(r) \in RunRec /\ Resumed(r).tasks = t /\ Resumed(r).concurrency = r.concurrency
      BY ZenonT(60), <2>2, <2>4 DEF RunRec, Words
    <2>6. QED BY <2>3, <2>5 DEF Fewer
  <1>3. QED BY <1>1, <1>2

\* The cap is one reading's share of the concurrency.
LEMMA CapBound ==
    ASSUME run \in RunRec, used \in Nat
    PROVE  AdmitCap(run.tasks) \in Nat /\ AdmitCap(run.tasks) <= run.concurrency
  <1> DEFINE t == run.tasks
             left == Allowance - used
             limits == {run.concurrency} \cup {n \in {Candidates, left} : n > 0}
             low == CHOOSE m \in limits : \A n \in limits : m <= n
  <1>1. run.concurrency \in Nat \ {0} /\ left \in Int
    BY DEF RunRec
  <1>2. \E m \in limits : \A n \in limits : m <= n
    <2> DEFINE c == run.concurrency
    <2>1. limits \subseteq {c, Candidates, left} /\ c \in limits
      OBVIOUS
    <2> HIDE DEF left
    <2>2. CASE Candidates > 0 /\ left > 0
      BY <1>1, <2>2
    <2>3. CASE Candidates > 0 /\ ~(left > 0)
      BY <1>1, <2>3
    <2>4. CASE ~(Candidates > 0) /\ left > 0
      BY <1>1, <2>4
    <2>5. CASE ~(Candidates > 0) /\ ~(left > 0)
      BY <1>1, <2>5
    <2>6. QED BY <2>2, <2>3, <2>4, <2>5
  <1>3. low \in limits /\ low <= run.concurrency
    BY <1>2
  <1>4. low \in Int
    <2>1. limits \subseteq Int
      BY <1>1
    <2> HIDE DEF limits, low
    <2>2. QED BY <1>3, <2>1
  <1>5. Cardinality(InFlight(t)) \in Nat
    <2>1. InFlight(t) \subseteq Subtasks
      BY DEF InFlight
    <2>2. QED BY <2>1, FS_Subset, FS_CardinalityType
  <1> HIDE DEF low
  <1>6. AdmitCap(t) = IF low - Cardinality(InFlight(t)) < 0 THEN 0 ELSE low - Cardinality(InFlight(t))
    BY DEF AdmitCap, low
  <1>7. QED BY <1>1, <1>3, <1>4, <1>5, <1>6
-----------------------------------------------------------------------------
(***************************************************************************)
(* What a step leaves of the invariant when it takes no lease              *)
(***************************************************************************)

DrvOK == drv' \in [Drivers -> Job] /\ \A e \in Drivers : Admits(drv'[e], run.concurrency)

RunOK == /\ Fewer(run', run)
         /\ \A r \in res' : \E q \in res \cup {run} : Fewer(r, q)

LEMMA StepKeeps ==
    ASSUME FanoutInv, RunOK, DrvOK, used' \in Nat,
           live' \subseteq [sub : Subtasks, inv : Nat, by : Drivers \cup {"gone"}]
    PROVE  FanoutInv'
  <1>1. FanoutTypeOK'
    BY DEF RunOK, DrvOK, Fewer, FanoutTypeOK
  <1>2. Leases(run') /\ run'.concurrency = run.concurrency
    BY FewerLeases DEF RunOK, FanoutInv, Fewer
  <1>3. \A r \in res' : Leases(r) /\ r.concurrency = run.concurrency
    <2>1. TAKE r \in res'
    <2>2. PICK q \in res \cup {run} : Fewer(r, q)
      BY DEF RunOK
    <2>3. Leases(q) /\ q.concurrency = run.concurrency
      BY DEF FanoutInv
    <2>4. QED BY <2>2, <2>3, FewerLeases DEF Fewer
  <1>4. QED BY <1>1, <1>2, <1>3 DEF FanoutInv, DrvOK

LEMMA RunSame ==
    ASSUME FanoutInv, run' = run, res' = res
    PROVE  RunOK
  <1>1. \A r \in res \cup {run} : Fewer(r, r)
    BY SameTasks DEF FanoutInv, FanoutTypeOK
  <1>2. QED BY <1>1 DEF RunOK

LEMMA RunFewer ==
    ASSUME FanoutInv, Fewer(run', run), res' = res
    PROVE  RunOK
  <1>1. \A r \in res : Fewer(r, r)
    BY SameTasks DEF FanoutInv, FanoutTypeOK
  <1>2. QED BY <1>1 DEF RunOK

LEMMA DrvSame ==
    ASSUME FanoutInv, drv' = drv
    PROVE  DrvOK
  BY DEF FanoutInv, FanoutTypeOK, DrvOK

LEMMA JobKeeps ==
    ASSUME FanoutInv, NEW d \in Drivers, NEW j \in Job, j.at # "admitting", drv' = [drv EXCEPT ![d] = j]
    PROVE  DrvOK
  BY DEF FanoutInv, FanoutTypeOK, DrvOK, Admits

LEMMA IdleJob ==
    ASSUME NEW at \in Words, NEW reason \in Words
    PROVE  /\ Idle \in Job /\ Idle.at = "idle"
           /\ [Idle EXCEPT !.at = at, !.reason = reason] \in Job
           /\ [Idle EXCEPT !.at = at, !.reason = reason].at = at
  <1>1. "idle" \in Words /\ "" \in Words
    BY DEF Words
  <1>2. Idle \in Job
    BY <1>1 DEF Idle, Job
  <1>3. QED BY <1>2 DEF Idle, Job

LEMMA RestsKeeps ==
    ASSUME FanoutInv, NEW d \in Drivers, Rests(d)
    PROVE  DrvOK
  <1>1. "idle" \in Words
    BY DEF Words
  <1>2. Idle \in Job /\ Idle.at # "admitting"
    BY <1>1, IdleJob
  <1>3. QED BY <1>2, JobKeeps DEF Rests

LEMMA PausesForKeeps ==
    ASSUME FanoutInv, NEW d \in Drivers, NEW reason \in Words, PausesFor(d, reason)
    PROVE  DrvOK
  <1> DEFINE j == [Idle EXCEPT !.at = "pausing", !.reason = reason]
  <1>1. "pausing" \in Words
    BY DEF Words
  <1>2. j \in Job /\ j.at # "admitting"
    BY <1>1, IdleJob
  <1>3. QED BY <1>2, JobKeeps DEF PausesFor

LEMMA GoesKeeps ==
    ASSUME FanoutInv, NEW d \in Drivers, Goes(d, "running")
    PROVE  DrvOK
  <1> DEFINE j == [drv[d] EXCEPT !.at = "running"]
  <1>1. "running" \in Words
    BY DEF Words
  <1>2. j \in Job /\ j.at # "admitting"
    BY <1>1 DEF FanoutInv, FanoutTypeOK, Job
  <1>3. drv' = [drv EXCEPT ![d] = j]
    BY DEF Goes
  <1>4. QED BY <1>2, <1>3, JobKeeps

LEMMA ConcludesKeeps ==
    ASSUME FanoutInv, NEW d \in Drivers, NEW r \in RunRec, Concludes(d, r)
    PROVE  DrvOK
  <1>1. CASE drv' = [drv EXCEPT ![d] = [Idle EXCEPT !.at = "joining", !.snap = {r}]]
    <2> DEFINE j == [Idle EXCEPT !.at = "joining", !.snap = {r}]
    <2>1. "joining" \in Words
      BY DEF Words
    <2>2. Idle \in Job
      BY <2>1, IdleJob
    <2>3. j \in Job /\ j.at # "admitting"
      BY <2>1, <2>2 DEF Job
    <2>4. QED BY <1>1, <2>3, JobKeeps
  <1>2. CASE PausesFor(d, "fanout-subtask-failed")
    <2>1. "fanout-subtask-failed" \in Words
      BY DEF Words
    <2>2. QED BY <1>2, <2>1, PausesForKeeps
  <1>3. CASE Rests(d)
    BY <1>3, RestsKeeps
  <1>4. QED BY <1>1, <1>2, <1>3 DEF Concludes
-----------------------------------------------------------------------------
(***************************************************************************)
(* The actions                                                             *)
(***************************************************************************)

LEMMA ObserveKeeps ==
    ASSUME FanoutInv, NEW d \in Drivers, Observe(d)
    PROVE  FanoutInv'
  <1> DEFINE found == {<<s, run.tasks[s].inv>> : s \in SeenAlive(run.tasks)}
             j == [drv[d] EXCEPT !.at = "observed", !.seen = found]
  <1>1. found \in SUBSET (Subtasks \X Nat)
    BY DEF SeenAlive, InFlight, FanoutInv, FanoutTypeOK, RunRec, Task
  <1>2. DrvOK
    <2>1. "observed" \in Words
      BY DEF Words
    <2>2. drv[d] \in Job
      BY DEF FanoutInv, FanoutTypeOK
    <2>3. drv' = [drv EXCEPT ![d] = j]
      BY DEF Observe, FanoutInv, FanoutTypeOK
    <2> HIDE DEF found
    <2>4. j \in Job /\ j.at # "admitting"
      BY <1>1, <2>1, <2>2 DEF Job
    <2>5. QED BY <2>3, <2>4, JobKeeps
  <1>3. Fewer(run', run)
    <2>1. ASSUME NEW g \in {"recorded", "unrecorded"}, run' = [run EXCEPT !.git = g]
          PROVE  Fewer(run', run)
      <3>1. g \in Words
        BY <2>1 DEF Words
      <3>2. run' \in RunRec /\ run'.tasks = run.tasks /\ run'.concurrency = run.concurrency
        BY <2>1, <3>1 DEF FanoutInv, FanoutTypeOK, RunRec
      <3>3. QED BY <3>2, SameTasks
    <2>2. CASE run' = run
      BY <2>2, SameTasks DEF FanoutInv, FanoutTypeOK
    <2>3. QED BY <2>1, <2>2 DEF Observe
  <1>4. QED BY <1>2, <1>3, RunFewer, StepKeeps DEF Observe, FanoutInv, FanoutTypeOK

LEMMA ReconcileKeeps ==
    ASSUME FanoutInv, NEW d \in Drivers, Reconcile(d)
    PROVE  FanoutInv'
  <1>1. Fewer(run', run)
    BY ReconciledFewer DEF Reconcile, FanoutInv, FanoutTypeOK
  <1>2. DrvOK
    <2> DEFINE j == [Idle EXCEPT !.at = "reconciled"]
    <2>1. "reconciled" \in Words /\ "" \in Words
      BY DEF Words
    <2>2. Idle \in Job
      BY <2>1, IdleJob
    <2>3. j \in Job /\ j.at # "admitting"
      BY <2>1, <2>2 DEF Job
    <2>4. QED BY <2>3, JobKeeps DEF Reconcile
  <1>3. QED BY <1>1, <1>2, RunFewer, StepKeeps DEF Reconcile, FanoutInv, FanoutTypeOK

\* The cap that a drive takes along.
LEMMA AdmitKeeps ==
    ASSUME FanoutInv, NEW d \in Drivers, Admit(d)
    PROVE  FanoutInv'
  <1> DEFINE t == run.tasks
             j == [Idle EXCEPT !.at = "admitting", !.cap = AdmitCap(t), !.ready = Ready(t),
                               !.busy = InFlight(t) # {}]
  <1>1. CASE drv' = [drv EXCEPT ![d] = j]
    <2>1. "admitting" \in Words
      BY DEF Words
    <2>2. Idle \in Job /\ Idle.mine = {}
      BY <2>1, IdleJob DEF Idle
    <2>3. AdmitCap(t) \in Nat /\ AdmitCap(t) <= run.concurrency
      BY CapBound DEF FanoutInv, FanoutTypeOK
    <2>4. Ready(t) \in SUBSET Subtasks /\ (InFlight(t) # {}) \in BOOLEAN
      BY DEF Ready
    <2>5. j \in Job /\ j.cap = AdmitCap(t) /\ j.mine = {}
      <3> DEFINE c == AdmitCap(t)
                 y == Ready(t)
                 b == InFlight(t) # {}
      <3>1. c \in Nat /\ y \in SUBSET Subtasks /\ b \in BOOLEAN
        BY <2>3, <2>4
      <3> HIDE DEF c, y, b
      <3>2. [Idle EXCEPT !.at = "admitting", !.cap = c, !.ready = y, !.busy = b] \in Job
        BY <2>1, <2>2, <3>1 DEF Job
      <3>3. /\ [Idle EXCEPT !.at = "admitting", !.cap = c, !.ready = y, !.busy = b].cap = c
            /\ [Idle EXCEPT !.at = "admitting", !.cap = c, !.ready = y, !.busy = b].mine = {}
        BY <2>2 DEF Job
      <3>4. QED BY <3>2, <3>3 DEF c, y, b
    <2> HIDE DEF j
    <2>6. Admits(j, run.concurrency)
      <3>1. {m.agent : m \in j.mine} = {} /\ IsFiniteSet(j.mine) /\ Cardinality(j.mine) = 0
        BY <2>5, FS_EmptySet
      <3>2. QED BY <2>3, <2>5, <3>1 DEF Admits
    <2>7. DrvOK
      BY <1>1, <2>5, <2>6 DEF DrvOK, FanoutInv, FanoutTypeOK
    <2>8. QED BY <2>7, RunSame, StepKeeps DEF Admit, FanoutInv, FanoutTypeOK
  <1>2. ASSUME NEW reason \in Words, PausesFor(d, reason)
        PROVE  FanoutInv'
    BY <1>2, PausesForKeeps, RunSame, StepKeeps DEF Admit, FanoutInv, FanoutTypeOK
  <1>3. CASE Rests(d)
    BY <1>3, RestsKeeps, RunSame, StepKeeps DEF Admit, FanoutInv, FanoutTypeOK
  <1>4. CASE Concludes(d, run)
    BY <1>4, ConcludesKeeps, RunSame, StepKeeps DEF Admit, FanoutInv, FanoutTypeOK
  <1>5. "fanout-budget-exhausted" \in Words /\ "fanout-blocked" \in Words
    BY DEF Words
  <1>6. \/ drv' = [drv EXCEPT ![d] = j]
        \/ Rests(d) \/ Concludes(d, run)
        \/ PausesFor(d, "fanout-budget-exhausted") \/ PausesFor(d, "fanout-blocked")
    BY DEF Admit
  <1>7. QED BY <1>1, <1>2, <1>3, <1>4, <1>5, <1>6

LEMMA PauseKeeps ==
    ASSUME FanoutInv, NEW d \in Drivers, PauseFanout(d)
    PROVE  FanoutInv'
  <1> DEFINE r == PausedFanout(run, drv[d].reason)
  <1>1. drv[d].reason \in Words /\ run \in RunRec /\ res \subseteq RunRec
    BY DEF FanoutInv, FanoutTypeOK, Job
  <1>2. Fewer(r, run)
    BY <1>1, PausedFanoutFewer
  <1>3. r \in RunRec
    BY <1>2 DEF Fewer
  <1>4. Fewer(Orphaned(r, d), run)
    <2>1. Fewer(Orphaned(r, d), r)
      BY <1>3, OrphanedFewer
    <2>2. QED BY <1>2, <2>1 DEF Fewer
  <1>5. RunOK
    <2>1. CASE drv[d].reason = "driver-error"
      <3>1. run' = Orphaned(r, d) /\ res' = {Orphaned(q, d) : q \in res}
        BY <2>1 DEF PauseFanout
      <3>2. \A q \in res : Fewer(Orphaned(q, d), q)
        BY <1>1, OrphanedFewer
      <3>3. QED BY <1>4, <3>1, <3>2 DEF RunOK
    <2>2. CASE drv[d].reason # "driver-error"
      BY <1>2, <2>2, RunFewer DEF PauseFanout
    <2>3. QED BY <2>1, <2>2
  <1>6. QED BY <1>5, RestsKeeps, StepKeeps DEF PauseFanout, FanoutInv, FanoutTypeOK

LEMMA RefusedKeeps ==
    ASSUME FanoutInv, NEW d \in Drivers, StopAdmitting(d) \/ BudgetRefuses(d) \/ WorktreeFails(d)
    PROVE  FanoutInv'
  <1>0. /\ "fanout-budget-exhausted" \in Words /\ "fanout-isolation-unavailable" \in Words
        /\ "worktree-create-failed" \in Words
    BY DEF Words
  <1>1. CASE StopAdmitting(d) \/ BudgetRefuses(d)
    <2>1. DrvOK
      BY <1>0, <1>1, RestsKeeps, GoesKeeps, PausesForKeeps DEF StopAdmitting, BudgetRefuses
    <2>2. QED BY <1>1, <2>1, RunSame, StepKeeps DEF StopAdmitting, BudgetRefuses, FanoutInv, FanoutTypeOK
  <1>2. CASE WorktreeFails(d)
    <2>1. run' = [run EXCEPT !.paused = "worktree-create-failed"]
      BY <1>2 DEF WorktreeFails
    <2>2. run' \in RunRec /\ run'.tasks = run.tasks /\ run'.concurrency = run.concurrency
      BY <1>0, <2>1 DEF FanoutInv, FanoutTypeOK, RunRec
    <2>3. RunOK
      BY <1>2, <2>2, SameTasks, RunFewer DEF WorktreeFails
    <2>4. DrvOK
      BY <1>0, <1>2, PausesForKeeps DEF WorktreeFails
    <2>5. QED BY <1>2, <2>3, <2>4, StepKeeps DEF WorktreeFails, FanoutInv, FanoutTypeOK
  <1>3. QED BY <1>1, <1>2

\* The lease of a ready subtask: its agent is the first the drive does not have, so it is
\* within the cap, and no other lease has it.
LEMMA ReserveKeeps ==
    ASSUME FanoutInv, NEW d \in Drivers, NEW s \in Subtasks, NEW a \in Agents, Reserve(d, s, a)
    PROVE  FanoutInv'
  <1> DEFINE t == run.tasks
             slot == [sub |-> s, inv |-> used + 1, agent |-> a]
             lease == [Unstarted EXCEPT !.status = "reserved", !.inv = used + 1, !.agent = a]
             n == Cardinality(drv[d].mine)
  <1>1. /\ drv[d] \in Job /\ drv[d].at = "admitting" /\ n < drv[d].cap /\ drv[d].cap <= run.concurrency
        /\ IsFiniteSet(drv[d].mine) /\ {m.agent : m \in drv[d].mine} = 1 .. n
        /\ run.concurrency \in Nat \ {0}
    BY DEF Reserve, MayReserve, FanoutInv, FanoutTypeOK, Admits, RunRec
  <1>2. n \in Nat /\ drv[d].cap \in Nat
    BY <1>1, FS_CardinalityType DEF Job
  <1>3. a = n + 1
    <2>1. FreeAgents(d) = Agents \ (1 .. n)
      BY <1>1 DEF FreeAgents
    <2>2. IsChoice(d, a)
      BY DEF Reserve
    <2> HIDE DEF n
    <2>3. a \in Nat /\ a >= n + 1 /\ a <= Candidates
      BY <1>2, <2>1, <2>2 DEF IsChoice, Agents
    <2>4. n + 1 \in FreeAgents(d)
      BY <1>2, <2>1, <2>3 DEF Agents
    <2>5. a <= n + 1
      BY <2>2, <2>4 DEF IsChoice
    <2>6. QED BY <1>2, <2>3, <2>5
  <1>4. used < Allowance /\ used' = used + 1 /\ used \in Nat /\ live' = live /\ res' = res
    BY DEF Reserve, FanoutInv, FanoutTypeOK
  <1>5. ASSUME run' = run, DrvOK PROVE FanoutInv'
    BY <1>4, <1>5, RunSame, StepKeeps DEF FanoutInv, FanoutTypeOK
  <1>6. CASE PausesFor(d, "driver-error") /\ run' = run
    <2>1. "driver-error" \in Words
      BY DEF Words
    <2>2. QED BY <1>5, <1>6, <2>1, PausesForKeeps
  <1>7. CASE /\ drv' = [drv EXCEPT ![d].ready = @ \ {s}, ![d].busy = InFlight(t) # {} \/ @]
             /\ run' = run
    <2> DEFINE b == InFlight(t) # {} \/ drv[d].busy
               y == drv[d].ready \ {s}
               j == [drv[d] EXCEPT !.ready = y, !.busy = b]
    <2>1. b \in BOOLEAN /\ y \in SUBSET Subtasks
      BY <1>1 DEF Job
    <2>2. drv' = [drv EXCEPT ![d] = j]
      BY <1>1, <1>7 DEF FanoutInv, FanoutTypeOK, Job
    <2> HIDE DEF b, y
    <2>3. j \in Job /\ j.cap = drv[d].cap /\ j.mine = drv[d].mine
      BY <1>1, <2>1 DEF Job
    <2> HIDE DEF j, n
    <2>4. Admits(j, run.concurrency)
      BY <1>1, <2>3 DEF Admits, n
    <2>5. DrvOK
      BY <2>2, <2>3, <2>4 DEF DrvOK, FanoutInv, FanoutTypeOK
    <2>6. QED BY <1>5, <1>7, <2>5
  <1>8. CASE /\ s \in Ready(t) /\ Reservable(t, a)
             /\ run' = [run EXCEPT !.tasks[s] = lease]
             /\ drv' = [drv EXCEPT ![d].ready = @ \ {s}, ![d].busy = TRUE,
                                   ![d].mine = @ \cup {slot},
                                   ![d].cap = IF run.git = "recorded" THEN @ ELSE 1]
    <2>1. lease \in Task /\ lease.agent = a /\ lease.status = "reserved"
      <3>1. used + 1 \in 0 .. Allowance /\ a \in 0 .. Candidates
        BY <1>4 DEF Agents
      <3>2. QED BY <3>1 DEF Unstarted, Task
    <2>2. run \in RunRec
      BY DEF FanoutInv, FanoutTypeOK
    <2>3. slot \in Slot /\ slot.agent = a
      BY <1>4 DEF Slot
    <2> HIDE DEF lease, slot
    <2> DEFINE v == [t EXCEPT ![s] = lease]
    <2>4. v \in [Subtasks -> Task] /\ run' = [run EXCEPT !.tasks = v]
      BY <1>8, <2>1, <2>2 DEF RunRec
    <2>5. run' \in RunRec /\ run'.tasks = v /\ run'.concurrency = run.concurrency
      BY <2>2, <2>4 DEF RunRec
    <2>6. InFlight(v) = InFlight(t) \cup {s}
      BY <2>1, <2>2 DEF InFlight, RunRec
    <2>7. \A u \in InFlight(t) : t[u].agent # a /\ u # s
      BY <1>8 DEF Reservable, Ready, InFlight
    <2>8. Leases(run')
      <3>1. a \in 1 .. run.concurrency
        BY <1>1, <1>2, <1>3
      <3>2. Leases(run)
        BY DEF FanoutInv
      <3>3. \A u \in InFlight(v) : v[u].agent = IF u = s THEN a ELSE t[u].agent
        BY <2>1, <2>2, <2>6 DEF InFlight, RunRec
      <3> HIDE DEF v
      <3>4. \A u \in InFlight(v) : v[u].agent \in 1 .. run.concurrency
        BY <2>6, <3>1, <3>2, <3>3 DEF Leases
      <3>5. \A u, w \in InFlight(v) : v[u].agent = v[w].agent => u = w
        BY <2>6, <2>7, <3>2, <3>3 DEF Leases
      <3>6. QED BY <2>5, <3>4, <3>5 DEF Leases
    <2>9. drv' \in [Drivers -> Job] /\ \A e \in Drivers : Admits(drv'[e], run.concurrency)
      <3> DEFINE c == IF run.git = "recorded" THEN drv[d].cap ELSE 1
                 y == drv[d].ready \ {s}
                 z == drv[d].mine \cup {slot}
                 j == [drv[d] EXCEPT !.ready = y, !.busy = TRUE, !.mine = z, !.cap = c]
      <3>1. c \in Nat /\ c <= run.concurrency
        BY <1>1, <1>2
      <3>2. y \in SUBSET Subtasks /\ z \in SUBSET Slot
        BY <1>1, <2>3 DEF Job
      <3>3. drv' = [drv EXCEPT ![d] = j]
        BY <1>1, <1>8 DEF FanoutInv, FanoutTypeOK, Job
      <3>4. slot \notin drv[d].mine
        BY <1>1, <1>2, <1>3, <2>3
      <3>5. IsFiniteSet(z) /\ Cardinality(z) = n + 1
        BY <1>1, <3>4, FS_AddElement
      <3>6. {m.agent : m \in z} = {m.agent : m \in drv[d].mine} \cup {a}
        BY <2>3
      <3> HIDE DEF c, y, z, n
      <3>7. {m.agent : m \in z} = 1 .. Cardinality(z)
        <4>1. (1 .. n) \cup {n + 1} = 1 .. (n + 1)
          BY <1>2
        <4>2. QED BY <1>1, <1>3, <3>5, <3>6, <4>1
      <3>8. j \in Job /\ j.cap = c /\ j.mine = z
        BY <1>1, <3>1, <3>2 DEF Job
      <3> HIDE DEF j
      <3>9. Admits(j, run.concurrency)
        BY <3>1, <3>5, <3>7, <3>8 DEF Admits
      <3>10. QED BY <3>3, <3>8, <3>9 DEF FanoutInv, FanoutTypeOK
    <2>10. FanoutTypeOK'
      BY <1>4, <2>5, <2>9 DEF FanoutInv, FanoutTypeOK
    <2>11. QED BY <1>4, <2>5, <2>8, <2>9, <2>10 DEF FanoutInv
  <1>9. QED BY <1>6, <1>7, <1>8 DEF Reserve

LEMMA StartKeeps ==
    ASSUME FanoutInv, NEW d \in Drivers, NEW m \in drv[d].mine, Start(d, m)
    PROVE  FanoutInv'
  <1>1. drv[d] \in Job /\ m \in Slot /\ run \in RunRec
    BY DEF FanoutInv, FanoutTypeOK, Job
  <1>2. m.sub \in Subtasks /\ m.inv \in Nat
    BY <1>1 DEF Slot
  <1>3. Fewer(run', run)
    <2> DEFINE s == m.sub
               u == IF run.tasks[s].status = "reserved"
                    THEN [run.tasks[s] EXCEPT !.status = "running", !.pid = d] ELSE run.tasks[s]
               t == [run.tasks EXCEPT ![s] = u]
    <2>1. u \in Task /\ u.agent = run.tasks[s].agent
      <3>1. \A x \in Task : /\ [x EXCEPT !.status = "running", !.pid = d] \in Task
                            /\ [x EXCEPT !.status = "running", !.pid = d].agent = x.agent
        BY DEF Task
      <3>2. run.tasks[s] \in Task
        BY <1>1, <1>2 DEF RunRec
      <3>3. QED BY <3>1, <3>2
    <2>2. u.status \in {"reserved", "running"} => run.tasks[s].status \in {"reserved", "running"}
      BY <1>1, <1>2 DEF RunRec, Task
    <2>3. run' = [run EXCEPT !.tasks = t]
      BY <1>1, <1>2 DEF Start, RunRec
    <2> HIDE DEF u
    <2>4. t \in [Subtasks -> Task]
      BY <1>1, <1>2, <2>1 DEF RunRec
    <2>5. \A e \in InFlight(t) : e \in InFlight(run.tasks) /\ t[e].agent = run.tasks[e].agent
      BY <1>1, <1>2, <2>1, <2>2 DEF RunRec, InFlight
    <2>6. QED BY <1>1, <2>3, <2>4, <2>5, TasksFewer
  <1>4. DrvOK
    <2> DEFINE z == drv[d].mine \ {m}
               j == [drv[d] EXCEPT !.mine = z]
    <2>1. z \in SUBSET Slot
      BY <1>1 DEF Job
    <2>2. j \in Job /\ j.at # "admitting"
      BY <1>1, <2>1 DEF Job, Start
    <2>3. drv' = [drv EXCEPT ![d] = j]
      BY <1>1 DEF Start
    <2>4. QED BY <2>2, <2>3, JobKeeps
  <1>5. live' \subseteq [sub : Subtasks, inv : Nat, by : Drivers \cup {"gone"}]
    BY <1>2 DEF Start, FanoutInv, FanoutTypeOK
  <1>6. QED BY <1>3, <1>4, <1>5, RunFewer, StepKeeps DEF Start, FanoutInv, FanoutTypeOK

\* What the end of a worker says about its driver, which admits nothing new by it.
LEMMA ReasonKeeps ==
    ASSUME FanoutInv, NEW d \in Drivers, NEW reason \in Words, drv' = [drv EXCEPT ![d].reason = reason]
    PROVE  DrvOK
  <1> DEFINE j == [drv[d] EXCEPT !.reason = reason]
  <1>1. drv[d] \in Job /\ Admits(drv[d], run.concurrency)
    BY DEF FanoutInv, FanoutTypeOK
  <1>2. j \in Job /\ j.at = drv[d].at /\ j.cap = drv[d].cap /\ j.mine = drv[d].mine
    BY <1>1 DEF Job
  <1>3. drv' = [drv EXCEPT ![d] = j]
    OBVIOUS
  <1> HIDE DEF j
  <1>4. Admits(j, run.concurrency)
    BY <1>1, <1>2 DEF Admits
  <1>5. QED BY <1>2, <1>3, <1>4 DEF DrvOK, FanoutInv, FanoutTypeOK

LEMMA WorkerKeeps ==
    ASSUME FanoutInv, NEW w \in live, Drop(w) \/ \E o \in Outcomes(w.sub) : Answer(w, o)
    PROVE  FanoutInv'
  <1>0. /\ "cancelled" \in Words /\ "driver-error" \in Words /\ "injection-review-required" \in Words
        /\ w.sub \in Subtasks /\ run \in RunRec
    BY DEF Words, FanoutInv, FanoutTypeOK
  <1>1. CASE Drop(w)
    <2>1. Fewer(run', run)
      BY <1>0, <1>1, PausedFewer DEF Drop
    <2>2. DrvOK
      BY <1>0, <1>1, ReasonKeeps DEF Drop
    <2>3. QED BY <1>1, <2>1, <2>2, RunFewer, StepKeeps DEF Drop, FanoutInv, FanoutTypeOK
  <1>2. ASSUME NEW o \in Outcomes(w.sub), Answer(w, o) PROVE FanoutInv'
    <2>1. o[1] \in Terminal /\ o[2] \in SUBSET Paths
      <3>1. OwnedPaths[w.sub] \in SUBSET Paths /\ "succeeded" \in Terminal /\ Failure \subseteq Terminal
        BY <1>0 DEF Terminal, Failure
      <3>2. /\ <<"succeeded", {}>>[1] = "succeeded" /\ <<"succeeded", {}>>[2] = {}
            /\ <<"succeeded", Paths>>[1] = "succeeded" /\ <<"succeeded", Paths>>[2] = Paths
            /\ <<"succeeded", OwnedPaths[w.sub]>>[1] = "succeeded"
            /\ <<"succeeded", OwnedPaths[w.sub]>>[2] = OwnedPaths[w.sub]
            /\ \A f \in Failure : <<f, {}>>[1] = f /\ <<f, {}>>[2] = {}
        OBVIOUS
      <3>3. \/ o = <<"succeeded", {}>> \/ o = <<"succeeded", OwnedPaths[w.sub]>> \/ o = <<"succeeded", Paths>>
            \/ \E f \in Failure : o = <<f, {}>>
        BY DEF Outcomes, Expected, Unexpected
      <3>4. QED BY <3>1, <3>2, <3>3
    <2>2. Fewer(run', run)
      BY <1>0, <1>2, <2>1, CompletedFewer, SameTasks DEF Answer
    <2>3. DrvOK
      BY <1>0, <1>2, ReasonKeeps, DrvSame DEF Answer
    <2>4. QED BY <1>2, <2>2, <2>3, RunFewer, StepKeeps DEF Answer, FanoutInv, FanoutTypeOK
  <1>3. QED BY <1>1, <1>2

LEMMA JoinKeeps ==
    ASSUME FanoutInv, NEW d \in Drivers, Join(d)
    PROVE  FanoutInv'
  <1>1. "driver-error" \in Words /\ run \in RunRec
    BY DEF Words, FanoutInv, FanoutTypeOK
  <1>2. PausesFor(d, "driver-error") \/ Rests(d) \/ Concludes(d, run)
    BY DEF Join
  <1>3. DrvOK
    BY <1>1, <1>2, PausesForKeeps, RestsKeeps, ConcludesKeeps
  <1>4. QED BY <1>3, RunSame, StepKeeps DEF Join, FanoutInv, FanoutTypeOK

LEMMA LookAtHeadKeeps ==
    ASSUME FanoutInv, NEW d \in Drivers, LookAtHead(d)
    PROVE  FanoutInv'
  <1>1. "driver-error" \in Words /\ "looking" \in Words /\ "moved" \in Words /\ "" \in Words /\ drv[d] \in Job
    BY DEF Words, FanoutInv, FanoutTypeOK
  <1>2. DrvOK
    <2>1. PICK moved \in {"", "moved"} :
            \/ Rests(d) \/ PausesFor(d, "driver-error")
            \/ drv' = [drv EXCEPT ![d].at = "looking", ![d].reason = moved]
      BY DEF LookAtHead
    <2>2. CASE drv' = [drv EXCEPT ![d].at = "looking", ![d].reason = moved]
      <3> DEFINE j == [drv[d] EXCEPT !.at = "looking", !.reason = moved]
      <3>1. j \in Job /\ j.at # "admitting"
        BY <1>1 DEF Job
      <3>2. drv' = [drv EXCEPT ![d] = j]
        BY <2>2 DEF FanoutInv, FanoutTypeOK
      <3>3. QED BY <3>1, <3>2, JobKeeps
    <2>3. QED BY <1>1, <2>1, <2>2, RestsKeeps, PausesForKeeps
  <1>3. QED BY <1>2, RunSame, StepKeeps DEF LookAtHead, FanoutInv, FanoutTypeOK

\* The files that a plan names are paths of the project.
LEMMA PlanIs ==
    ASSUME NEW r \in RunRec, NEW moved \in BOOLEAN, NEW dirty
    PROVE  LET n == Plan(r, moved, dirty)
           IN  /\ n.verdict \in {"repair", "paused", "pending"} /\ n.todo \in SUBSET (Paths \X Subtasks)
               /\ n.todo = IF n.verdict = "pending" THEN Clean(Contributions(r.tasks), dirty) ELSE {}
               /\ n.verdict = "pending" => /\ ~HasFailures(r.tasks) /\ ~moved
                                           /\ \A c \in Contributions(r.tasks) : c[1] \in OwnedPaths[c[2]]
  BY DEF Plan, Contributions, Clean

LEMMA CollectKeeps ==
    ASSUME FanoutInv, NEW d \in Drivers, Collect(d)
    PROVE  FanoutInv'
  <1>1. "copying" \in Words /\ "" \in Words /\ {"repair", "paused", "pending"} \subseteq Words
    BY DEF Words
  <1>2. DrvOK
    <2>1. PICK r \in drv[d].snap, dirty \in StatusLists \cup {{}} :
            LET n == Plan(r, drv[d].reason = "moved", dirty)
            IN  drv' = [drv EXCEPT ![d] = [Idle EXCEPT !.at = "copying", !.reason = n.verdict, !.todo = n.todo]]
      BY DEF Collect
    <2> DEFINE n == Plan(r, drv[d].reason = "moved", dirty)
               j == [Idle EXCEPT !.at = "copying", !.reason = n.verdict, !.todo = n.todo]
    <2>2. n.verdict \in Words /\ n.todo \in SUBSET (Paths \X Subtasks)
      <3>1. r \in RunRec /\ (drv[d].reason = "moved") \in BOOLEAN
        BY DEF FanoutInv, FanoutTypeOK, Job
      <3>2. n.verdict \in {"repair", "paused", "pending"} /\ n.todo \in SUBSET (Paths \X Subtasks)
        BY <3>1, PlanIs
      <3>3. QED BY <1>1, <3>2
    <2>3. Idle \in Job
      BY <1>1, IdleJob
    <2> HIDE DEF n
    <2>4. j \in Job /\ j.at # "admitting"
      BY <1>1, <2>2, <2>3 DEF Job
    <2>5. drv' = [drv EXCEPT ![d] = j]
      BY <2>1 DEF n
    <2>6. QED BY <2>4, <2>5, JobKeeps
  <1>3. QED BY <1>2, RunSame, StepKeeps DEF Collect, FanoutInv, FanoutTypeOK

LEMMA CopyKeeps ==
    ASSUME FanoutInv, NEW d \in Drivers, CopyFails(d) \/ \E c \in drv[d].todo : Copy(d, c)
    PROVE  FanoutInv'
  <1>1. drv[d] \in Job
    BY DEF FanoutInv, FanoutTypeOK
  <1>2. CASE CopyFails(d)
    <2> DEFINE j == [drv[d] EXCEPT !.todo = {}, !.reason = "paused"]
    <2>1. "paused" \in Words
      BY DEF Words
    <2>2. j \in Job /\ j.at # "admitting"
      BY <1>1, <1>2, <2>1 DEF Job, CopyFails
    <2>3. drv' = [drv EXCEPT ![d] = j]
      BY <1>1, <1>2 DEF CopyFails, FanoutInv, FanoutTypeOK, Job
    <2>4. DrvOK
      BY <2>2, <2>3, JobKeeps
    <2>5. QED BY <1>2, <2>4, RunSame, StepKeeps DEF CopyFails, FanoutInv, FanoutTypeOK
  <1>3. ASSUME NEW c \in drv[d].todo, Copy(d, c) PROVE FanoutInv'
    <2> DEFINE z == drv[d].todo \ {c}
               j == [drv[d] EXCEPT !.todo = z]
    <2>1. z \in SUBSET (Paths \X Subtasks)
      BY <1>1 DEF Job
    <2>2. j \in Job /\ j.at # "admitting"
      BY <1>1, <1>3, <2>1 DEF Job, Copy
    <2>3. drv' = [drv EXCEPT ![d] = j]
      BY <1>1, <1>3 DEF Copy
    <2>4. DrvOK
      BY <2>2, <2>3, JobKeeps
    <2>5. QED BY <1>3, <2>4, RunSame, StepKeeps DEF Copy, FanoutInv, FanoutTypeOK
  <1>4. QED BY <1>2, <1>3

LEMMA PersistKeeps ==
    ASSUME FanoutInv, NEW d \in Drivers, Persist(d)
    PROVE  FanoutInv'
  <1>0. /\ run \in RunRec /\ drv[d].reason \in Words /\ "driver-error" \in Words
        /\ IntegrationPause(drv[d].reason) \in Words /\ "applied" \in Words /\ "verifying" \in Words
    BY DEF FanoutInv, FanoutTypeOK, Job, Words, IntegrationPause
  <1>1. CASE drv[d].reason = "pending" /\ PausesFor(d, "driver-error") /\ run' = run
    <2>1. DrvOK
      BY <1>0, <1>1, PausesForKeeps
    <2>2. QED BY <1>1, <2>1, RunSame, StepKeeps DEF Persist, FanoutInv, FanoutTypeOK
  <1>2. CASE Rests(d) /\ run' = Integrated(run)
    <2>1. run' \in RunRec /\ run'.tasks = run.tasks /\ run'.concurrency = run.concurrency
      BY <1>0, <1>2 DEF Integrated, RunRec
    <2>2. RunOK
      BY <2>1, SameTasks, RunFewer DEF Persist
    <2>3. QED BY <1>2, <2>2, RestsKeeps, StepKeeps DEF Persist, FanoutInv, FanoutTypeOK
  <1>3. CASE /\ Rests(d)
             /\ run' = [Paused(run, IntegrationPause(drv[d].reason))
                          EXCEPT !.integration = drv[d].reason, !.pending = FALSE,
                                 !.paused = IntegrationPause(drv[d].reason)]
    <2> DEFINE p == Paused(run, IntegrationPause(drv[d].reason))
               q == IntegrationPause(drv[d].reason)
    <2>1. Fewer(p, run)
      BY <1>0, PausedFewer
    <2>2. p \in RunRec
      BY <2>1 DEF Fewer
    <2>3. run' = [p EXCEPT !.integration = drv[d].reason, !.pending = FALSE, !.paused = q]
      BY <1>3
    <2> HIDE DEF p, q
    <2>4. run' \in RunRec /\ run'.tasks = p.tasks /\ run'.concurrency = p.concurrency
      BY <1>0, <2>2, <2>3 DEF RunRec, q
    <2>5. Fewer(run', run)
      BY <2>1, <2>4 DEF Fewer
    <2>6. RunOK
      BY <2>5, RunFewer DEF Persist
    <2>7. QED BY <1>3, <2>6, RestsKeeps, StepKeeps DEF Persist, FanoutInv, FanoutTypeOK
  <1>4. QED BY <1>1, <1>2, <1>3 DEF Persist

LEMMA LeaveKeeps ==
    ASSUME FanoutInv, NEW d \in Drivers, Leave(d)
    PROVE  FanoutInv'
  <1>1. run \in RunRec /\ res \subseteq RunRec
    BY DEF FanoutInv, FanoutTypeOK
  <1>2. RunOK
    BY <1>1, OrphanedFewer DEF Leave, RunOK
  <1>3. live' \subseteq [sub : Subtasks, inv : Nat, by : Drivers \cup {"gone"}]
    BY DEF Leave, FanoutInv, FanoutTypeOK
  <1>4. QED BY <1>2, <1>3, RestsKeeps, StepKeeps DEF Leave, FanoutInv, FanoutTypeOK

LEMMA OthersKeep ==
    ASSUME FanoutInv,
           \/ \E w \in live : OrphanEnds(w)
           \/ \E p \in Paths : UserEdits(p)
           \/ \E c \in SUBSET repo.dirty : UserCommits(c)
           \/ ResumeReads \/ ResumeWrites
           \/ \E ok \in BOOLEAN : Verify(ok)
    PROVE  FanoutInv'
  <1>0. run \in RunRec /\ res \subseteq RunRec
    BY DEF FanoutInv, FanoutTypeOK
  <1>1. DrvOK /\ used' \in Nat
    BY DrvSame DEF OrphanEnds, UserEdits, UserCommits, ResumeReads, ResumeWrites, Verify, FanoutInv, FanoutTypeOK
  <1>2. live' \subseteq [sub : Subtasks, inv : Nat, by : Drivers \cup {"gone"}]
    BY DEF OrphanEnds, UserEdits, UserCommits, ResumeReads, ResumeWrites, Verify, FanoutInv, FanoutTypeOK
  <1>3. CASE (\E w \in live : OrphanEnds(w)) \/ (\E p \in Paths : UserEdits(p))
             \/ \E c \in SUBSET repo.dirty : UserCommits(c)
    BY <1>1, <1>2, <1>3, RunSame, StepKeeps DEF OrphanEnds, UserEdits, UserCommits
  <1>4. CASE ResumeReads
    <2>1. Fewer(run, run)
      BY <1>0, SameTasks
    <2>2. RunOK
      BY <1>4, <2>1 DEF ResumeReads, RunOK
    <2>3. QED BY <1>1, <1>2, <2>2, StepKeeps
  <1>5. CASE ResumeWrites
    <2>1. PICK r \in res : run' = Resumed(r)
      BY <1>5 DEF ResumeWrites
    <2>2. Fewer(run', r) /\ Leases(r) /\ r.concurrency = run.concurrency
      BY <1>0, <2>1, ResumedFewer DEF FanoutInv
    <2>3. Leases(run') /\ run' \in RunRec /\ run'.concurrency = run.concurrency
      BY <2>2, FewerLeases DEF Fewer
    <2>4. drv' = drv /\ res' = {}
      BY <1>5 DEF ResumeWrites
    <2>5. QED BY <1>1, <1>2, <2>3, <2>4 DEF FanoutInv, FanoutTypeOK
  <1>6. ASSUME NEW ok \in BOOLEAN, Verify(ok) PROVE FanoutInv'
    <2>1. "assessing" \in Words /\ "implementing" \in Words
      BY DEF Words
    <2>2. run' \in RunRec /\ run'.tasks = run.tasks /\ run'.concurrency = run.concurrency
      BY <1>0, <1>6, <2>1 DEF Verify, RunRec
    <2>3. RunOK
      BY <1>6, <2>2, SameTasks, RunFewer DEF Verify
    <2>4. QED BY <1>1, <1>2, <2>3, StepKeeps
  <1>7. QED BY <1>3, <1>4, <1>5, <1>6
-----------------------------------------------------------------------------
LEMMA FanoutStart == FanoutInit => FanoutInv
  <1> SUFFICES ASSUME FanoutInit PROVE FanoutInv
    OBVIOUS
  <1>1. /\ "" \in Words /\ "idle" \in Words /\ "unknown" \in Words /\ "implementing" \in Words
    BY DEF Words
  <1>2. Unstarted \in Task
    BY DEF Unstarted, Task
  <1>3. run \in RunRec /\ run.tasks = [s \in Subtasks |-> Unstarted]
    <2> DEFINE t == [s \in Subtasks |-> Unstarted]
    <2>1. t \in [Subtasks -> Task]
      BY <1>2
    <2>2. run \in [tasks : {t}, concurrency : 1 .. MaxConcurrency, git : {"unknown"}, paused : {""},
                   pending : {FALSE}, integration : {""}, candidate : {FALSE}, stage : {"implementing"},
                   retry : {""}]
      BY DEF FanoutInit
    <2> HIDE DEF t
    <2>3. /\ run = [tasks |-> t, concurrency |-> run.concurrency, git |-> "unknown", paused |-> "",
                   pending |-> FALSE, integration |-> "", candidate |-> FALSE, stage |-> "implementing",
                   retry |-> ""]
          /\ run.concurrency \in 1 .. MaxConcurrency
      BY <2>2
    <2>4. run.concurrency \in Nat \ {0}
      <3>1. run.concurrency \in 1 .. MaxConcurrency
        BY <2>3
      <3>2. QED BY <3>1
    <2>5. run \in RunRec
      <3> DEFINE n == run.concurrency
      <3>1. n \in Nat \ {0}
        BY <2>4
      <3>2. [tasks |-> t, concurrency |-> n, git |-> "unknown", paused |-> "", pending |-> FALSE,
             integration |-> "", candidate |-> FALSE, stage |-> "implementing", retry |-> ""] \in RunRec
        <4> HIDE DEF n
        <4>1. QED BY <1>1, <2>1, <3>1 DEF RunRec
      <3>3. QED BY <2>3, <3>2
    <2>6. run.tasks \in {t}
      BY <2>2
    <2>7. QED BY <2>5, <2>6 DEF t
  <1>4. Leases(run)
    <2>1. InFlight(run.tasks) = {}
      BY <1>3 DEF InFlight, Unstarted
    <2>2. QED BY <2>1 DEF Leases
  <1>5. Idle \in Job /\ Idle.at # "admitting"
    BY <1>1, IdleJob
  <1>6. drv = [d \in Drivers |-> Idle] /\ res = {} /\ live = {} /\ used = 0
    BY DEF FanoutInit
  <1>7. QED BY <1>3, <1>4, <1>5, <1>6 DEF FanoutInv, FanoutTypeOK, Admits

LEMMA FanoutStep == FanoutInv /\ [FanoutNext]_fanoutVars => FanoutInv'
  <1> SUFFICES ASSUME FanoutInv, [FanoutNext]_fanoutVars PROVE FanoutInv'
    OBVIOUS
  <1>1. CASE UNCHANGED fanoutVars
    BY <1>1, RunSame, DrvSame, StepKeeps DEF fanoutVars, FanoutInv, FanoutTypeOK
  <1>2. ASSUME NEW d \in Drivers, DriverStep(d) PROVE FanoutInv'
    <2>1. drv[d].ready \subseteq Subtasks
      BY DEF FanoutInv, FanoutTypeOK, Job
    <2>2. QED BY <1>2, <2>1, ObserveKeeps, ReconcileKeeps, AdmitKeeps, PauseKeeps, RefusedKeeps, ReserveKeeps,
                 StartKeeps, JoinKeeps, LookAtHeadKeeps, CollectKeeps, CopyKeeps, PersistKeeps DEF DriverStep
  <1>3. ASSUME NEW d \in Drivers, WorkerStep(d) PROVE FanoutInv'
    BY <1>3, WorkerKeeps DEF WorkerStep
  <1>4. QED BY <1>1, <1>2, <1>3, LeaveKeeps, OthersKeep DEF FanoutNext

\* sdlcDriveFanout, Schedule.Reserve and AdmitCap: whatever drivers admit, die and resume, and
\* though a cap is computed from one reading and used for several later reservations, no more
\* subtasks hold leases than the graph's concurrency.  The agents are why: a drive takes the
\* first ones, and an agent has one lease.
THEOREM LeasesBounded == FanoutSpec => []SlotsBounded
  <1>1. FanoutInv => SlotsBounded
    BY LeasesBound DEF FanoutInv, FanoutTypeOK, SlotsBounded
  <1>2. QED BY FanoutStart, FanoutStep, <1>1, PTL DEF FanoutSpec
-----------------------------------------------------------------------------
(***************************************************************************)
(* Who works on a subtask, and what integration leaves in the project      *)
(***************************************************************************)

FanoutShape ==
    /\ tree \in [Paths -> {Base, User} \cup {By(s) : s \in Subtasks}]
    /\ repo \in [dirty : SUBSET Paths, moved : BOOLEAN]
    /\ past \in [lost : BOOLEAN, late : SUBSET Paths, faults : Nat]

\* Nothing has happened before the first drive has looked at the project, and what
\* it found stays.
GitKept ==
    /\ run.git = "unknown" =>
          /\ run.stage = "implementing" /\ live = {} /\ res = {}
          /\ \A d \in Drivers : drv[d] = Idle
          /\ \A s \in Subtasks : run.tasks[s] = Unstarted
          /\ \A p \in repo.dirty : tree[p] = User
    /\ \A r \in res : r.git = run.git

\* What the user wrote is dirty, or in a commit that integration sees.
EditsSeen == \A p \in Paths : tree[p] = User => p \in repo.dirty \/ repo.moved

\* A driver that looked at HEAD sees of the user's files that are clean that HEAD has moved,
\* or will not know of them.
LooksClean(j, late) ==
    /\ Unlisted \subseteq late
    /\ j.reason # "moved" => \A p \in Paths : tree[p] = User => p \in repo.dirty \cup late

\* A driver that copies has only files to write that the user did not, or too late.
CopiesClean(j, late) == \A c \in j.todo : tree[c[1]] = User => c[1] \in late

IntegratesClean ==
    run.git = "recorded" =>
        \A d \in Drivers : /\ drv[d].at = "looking" => LooksClean(drv[d], past.late)
                           /\ drv[d].at = "copying" => CopiesClean(drv[d], past.late)

\* A driver with workers waits for them, and none pauses a run to be verified.
DriversWait ==
    /\ \A w \in live : w.by \in Drivers => drv[w.by].at = "running"
    /\ \A d \in Drivers : drv[d].reason # "verifying"
    /\ \A r \in res \cup {run} : r.retry # "verifying"

EditsInv == FanoutShape /\ GitKept /\ EditsSeen /\ IntegratesClean /\ DriversWait

\* A subtask that somebody has still to start, or works on, is nobody else's.
Claims ==
    /\ \A d \in Drivers : \A m \in drv[d].mine : run.tasks[m.sub].status \in {"reserved", "failed"}
    /\ \A w \in live : run.tasks[w.sub].status \in {"running", "failed"}
    /\ \A d, e \in Drivers : \A m \in drv[d].mine : \A n \in drv[e].mine : m.sub = n.sub => d = e /\ m = n
    /\ \A d \in Drivers : \A m \in drv[d].mine : \A w \in live : m.sub # w.sub
    /\ \A v, w \in live : v.sub = w.sub => v = w

AllDone(t) == \A s \in Subtasks : t[s].status = "succeeded"
InScope(t) == \A s \in Subtasks : t[s].changed \subseteq OwnedPaths[s]

\* These schedules are never integrated.
Doomed(t) ==
    \E u \in Subtasks : \/ t[u].status = "failed"
                        \/ t[u].status = "succeeded" /\ ~(t[u].changed \subseteq OwnedPaths[u])

\* A driver that has read the run it is to integrate.
HasRead(j) == j.at \in {"joining", "looking"}

\* A run that is to be integrated is done, also the one that a driver has read.
PendingDone ==
    /\ run.pending => AllDone(run.tasks)
    /\ \A d \in Drivers : HasRead(drv[d]) =>
          \A r \in drv[d].snap : ~HasFailures(r.tasks) =>
              /\ AllDone(r.tasks) /\ AllDone(run.tasks)
              /\ \A s \in Subtasks : r.tasks[s].changed = run.tasks[s].changed

\* The paths that hold what their owner made of them, or the user.
Taken(have) == {p \in Paths : have[p] = User \/ \E s \in Subtasks : p \in OwnedPaths[s] /\ have[p] = By(s)}

\* What a driver does not copy any more is its owner's, or the user's.
PlanSound(j, r, taken) ==
    IF j.reason # "pending" THEN j.todo = {}
    ELSE /\ AllDone(r.tasks) /\ InScope(r.tasks)
         /\ \A c \in j.todo : c[1] \in r.tasks[c[2]].changed
         /\ r.git = "recorded" =>
               \A s \in Subtasks : \A p \in r.tasks[s].changed : <<p, s>> \in j.todo \/ p \in taken

CopiesRest == \A d \in Drivers : drv[d].at = "copying" => PlanSound(drv[d], run, Taken(tree))

Work(t, s, have) == \A p \in t[s].changed : have[p] \in {By(s), User}

\* In a repository, what is dirty is the user's or of the subtask that owns it; elsewhere
\* each worker writes to the project itself.
WorkThere ==
    /\ run.git = "recorded" => repo.dirty \subseteq Taken(tree)
    /\ run.git # "recorded" =>
          \/ Doomed(run.tasks)
          \/ \A s \in Subtasks : run.tasks[s].status = "succeeded" => Work(run.tasks, s, tree)

VerifiedDone ==
    run.stage = "verifying" =>
        /\ AllDone(run.tasks) /\ InScope(run.tasks)
        /\ \A s \in Subtasks : Work(run.tasks, s, tree)

WorkInv == past.lost \/ (Claims /\ PendingDone /\ CopiesRest /\ WorkThere /\ VerifiedDone)

(***************************************************************************)
(* What most steps leave as it was                                         *)
(***************************************************************************)

\* A job that reads the run, or plans to copy, as the run and the project are now.
ReadsNow(j) ==
    \A r \in j.snap : ~HasFailures(r.tasks) => past.lost \/ (r.tasks = run.tasks /\ AllDone(run.tasks))

PlansNow(j) ==
    /\ run.git = "recorded" => CopiesClean(j, past'.late)
    /\ past.lost \/ PlanSound(j, run, Taken(tree))

\* A job that is what it was, or is sound as it begins.
Calm(j, old) ==
    /\ HasRead(j) => (HasRead(old) /\ j.snap = old.snap) \/ ReadsNow(j)
    /\ j.at = "looking" =>
          \/ old.at = "looking" /\ j.reason = old.reason
          \/ run.git = "recorded" => LooksClean(j, past'.late)
    /\ j.at = "copying" =>
          \/ old.at = "copying" /\ j.reason = old.reason /\ j.todo = old.todo
          \/ PlansNow(j)
    /\ j.reason # "verifying"

JobsCalm == \A e \in Drivers : Calm(drv'[e], drv[e])

JobsFewer == \A e \in Drivers : drv'[e].mine \subseteq drv[e].mine

\* A run in which what is done stays done, and what failed stays failed.
Follows(q, r) ==
    /\ q.git = r.git /\ q.retry # "verifying"
    /\ q.pending => r.pending
    /\ \A s \in Subtasks :
          /\ q.tasks[s].status = "succeeded" <=> r.tasks[s].status = "succeeded"
          /\ r.tasks[s].status = "succeeded" => q.tasks[s].changed = r.tasks[s].changed
          /\ r.tasks[s].status = "failed" => q.tasks[s].status = "failed"

NotVerifying(q, r) == q.stage = "verifying" => r.stage = "verifying"

\* One that somebody still starts, or works on, stays so or fails.
Steady(q, r) ==
    \A s \in Subtasks :
        /\ r.tasks[s].status \in {"reserved", "failed"} => q.tasks[s].status \in {"reserved", "failed"}
        /\ r.tasks[s].status \in {"running", "failed"} => q.tasks[s].status \in {"running", "failed"}

Settles(q, r) == Follows(q, r) /\ NotVerifying(q, r) /\ Steady(q, r)

WorkersFewer ==
    /\ \A w \in live' : \E v \in live : v.sub = w.sub
    /\ (\A v, w \in live : v.sub = w.sub => v = w) => (\A v, w \in live' : v.sub = w.sub => v = w)

\* Elsewhere than in a repository, a worker may write to the project.
TreeSafe ==
    /\ tree' \in [Paths -> {Base, User} \cup {By(s) : s \in Subtasks}]
    /\ \A p \in Paths : tree'[p] = User => tree[p] = User
    /\ run.git = "recorded" => tree' = tree

Waits == \A w \in live' : w.by \in Drivers => drv'[w.by].at = "running"

ResKept == \A r \in res' : r.git = run.git /\ r.retry # "verifying"

\* What a driver that integrates did not know of stays so.
LatesKept == past.late \subseteq past'.late \/ \A e \in Drivers : ~Joins(e)

PastKept ==
    past' \in [lost : BOOLEAN, late : SUBSET Paths, faults : Nat] /\ past'.lost = past.lost /\ LatesKept

Kept == EditsInv' /\ WorkInv'

LEMMA Owners ==
    /\ \A s : By(s) # User /\ By(s) # Base
    /\ \A s, u : By(s) = By(u) => s = u
    /\ Base # User
  BY DEF By, User, Base

LEMMA ClaimTypes ==
    ASSUME FanoutInv
    PROVE  /\ \A e \in Drivers : \A m \in drv[e].mine : m.sub \in Subtasks
           /\ \A w \in live : w.sub \in Subtasks
  BY DEF FanoutInv, FanoutTypeOK, Job, Slot

LEMMA ClaimsKept ==
    ASSUME FanoutInv, FanoutInv', Claims, WorkersFewer, Steady(run', run), JobsFewer
    PROVE  Claims'
  <1>1. /\ \A e \in Drivers : \A m \in drv[e].mine : m.sub \in Subtasks
        /\ \A w \in live : w.sub \in Subtasks
    BY ClaimTypes
  <1>2. \A d \in Drivers : \A m \in drv'[d].mine : run'.tasks[m.sub].status \in {"reserved", "failed"}
    BY <1>1 DEF Claims, Steady, JobsFewer
  <1>3. \A w \in live' : run'.tasks[w.sub].status \in {"running", "failed"}
    BY <1>1 DEF Claims, Steady, WorkersFewer
  <1>4. \A d, e \in Drivers : \A m \in drv'[d].mine : \A n \in drv'[e].mine : m.sub = n.sub => d = e /\ m = n
    BY DEF Claims, JobsFewer
  <1>5. \A d \in Drivers : \A m \in drv'[d].mine : \A w \in live' : m.sub # w.sub
    BY DEF Claims, WorkersFewer, JobsFewer
  <1>6. \A v, w \in live' : v.sub = w.sub => v = w
    BY DEF Claims, WorkersFewer
  <1>7. QED BY <1>2, <1>3, <1>4, <1>5, <1>6 DEF Claims

\* The rest of what integration relies on.
Joined == PendingDone /\ CopiesRest /\ WorkThere /\ VerifiedDone

LEMMA JobsKept ==
    ASSUME FanoutInv, FanoutInv', ~past.lost, Joined, Follows(run', run),
           run.git = "recorded" => Taken(tree) \subseteq Taken(tree'), JobsCalm
    PROVE  PendingDone' /\ CopiesRest'
  <1> DEFINE t == run.tasks
             u == run'.tasks
  <1>1. AllDone(t) => AllDone(u)
    BY DEF AllDone, Follows
  <1>2. AllDone(t) => \A s \in Subtasks : u[s].changed = t[s].changed
    BY DEF AllDone, Follows
  <1>3. PendingDone'
    <2>1. run'.pending => AllDone(u)
      BY <1>1 DEF Joined, PendingDone, Follows
    <2>2. ASSUME NEW d \in Drivers, HasRead(drv'[d]), NEW r \in drv'[d].snap, ~HasFailures(r.tasks)
          PROVE  /\ AllDone(r.tasks) /\ AllDone(u)
                 /\ \A s \in Subtasks : r.tasks[s].changed = u[s].changed
      <3>1. CASE HasRead(drv[d]) /\ r \in drv[d].snap
        <4>1. /\ AllDone(r.tasks) /\ AllDone(t)
              /\ \A s \in Subtasks : r.tasks[s].changed = t[s].changed
          BY <2>2, <3>1 DEF Joined, PendingDone
        <4>2. QED BY <1>1, <1>2, <4>1
      <3>2. CASE ReadsNow(drv'[d])
        <4>1. r.tasks = t /\ AllDone(t)
          BY <2>2, <3>2 DEF ReadsNow
        <4>2. QED BY <1>1, <1>2, <4>1
      <3>3. QED BY <2>2, <3>1, <3>2 DEF JobsCalm, Calm
    <2>3. QED BY <2>1, <2>2 DEF PendingDone, AllDone
  <1>4. CopiesRest'
    <2> SUFFICES ASSUME NEW d \in Drivers, drv'[d].at = "copying"
                 PROVE  PlanSound(drv'[d], run', Taken(tree'))
      BY DEF CopiesRest
    <2>1. PlanSound(drv'[d], run, Taken(tree))
      BY DEF JobsCalm, Calm, PlansNow, Joined, CopiesRest, PlanSound
    <2>2. CASE drv'[d].reason # "pending"
      BY <2>1, <2>2 DEF PlanSound
    <2>3. CASE drv'[d].reason = "pending"
      <3>1. /\ AllDone(t) /\ InScope(t)
            /\ \A c \in drv'[d].todo : c[1] \in t[c[2]].changed
            /\ run.git = "recorded" =>
                   \A s \in Subtasks : \A p \in t[s].changed : <<p, s>> \in drv'[d].todo \/ p \in Taken(tree)
        BY <2>1, <2>3 DEF PlanSound
      <3>2. \A c \in drv'[d].todo : c[2] \in Subtasks
        BY DEF FanoutInv, FanoutTypeOK, Job
      <3>3. InScope(u)
        BY <1>2, <3>1 DEF InScope
      <3>4. run'.git = run.git
        BY DEF Follows
      <3>5. \A c \in drv'[d].todo : c[1] \in u[c[2]].changed
        BY <1>2, <3>1, <3>2
      <3>6. run'.git = "recorded" =>
               \A s \in Subtasks : \A p \in u[s].changed : <<p, s>> \in drv'[d].todo \/ p \in Taken(tree')
        BY <1>2, <3>1, <3>4
      <3>7. QED BY <1>1, <2>3, <3>1, <3>3, <3>5, <3>6 DEF PlanSound
    <2>4. QED BY <2>2, <2>3
  <1>5. QED BY <1>3, <1>4

LEMMA WorkKept ==
    ASSUME Joined, Follows(run', run), tree' = tree, repo' = repo
    PROVE  WorkThere'
  <1> DEFINE t == run.tasks
             u == run'.tasks
  <1>1. run'.git = run.git
    BY DEF Follows
  <1>2. Doomed(t) => Doomed(u)
    BY DEF Doomed, Follows
  <1>3. \A s \in Subtasks : t[s].status = "succeeded" /\ Work(t, s, tree) => Work(u, s, tree')
    BY DEF Work, Follows
  <1>4. run.git # "recorded" => Doomed(t) \/ \A s \in Subtasks : t[s].status = "succeeded" => Work(t, s, tree)
    BY DEF Joined, WorkThere
  <1>5. run'.git # "recorded" => Doomed(u) \/ \A s \in Subtasks : u[s].status = "succeeded" => Work(u, s, tree')
    BY <1>1, <1>2, <1>3, <1>4 DEF Follows
  <1>6. run'.git = "recorded" => repo'.dirty \subseteq Taken(tree')
    BY <1>1 DEF Joined, WorkThere
  <1>7. QED BY <1>5, <1>6 DEF WorkThere, Doomed, Work

LEMMA VerifiedKept ==
    ASSUME Joined, Follows(run', run), NotVerifying(run', run), tree' = tree
    PROVE  VerifiedDone'
  <1> DEFINE t == run.tasks
             u == run'.tasks
  <1>1. CASE run'.stage # "verifying"
    BY <1>1 DEF VerifiedDone
  <1>2. CASE run'.stage = "verifying"
    <2>1. AllDone(t) /\ InScope(t) /\ \A s \in Subtasks : Work(t, s, tree)
      BY <1>2 DEF NotVerifying, Joined, VerifiedDone
    <2>2. AllDone(u) /\ \A s \in Subtasks : u[s].changed = t[s].changed
      BY <2>1 DEF AllDone, Follows
    <2>3. InScope(u)
      BY <2>1, <2>2 DEF InScope
    <2>4. \A s \in Subtasks : Work(u, s, tree')
      BY <2>1, <2>2 DEF Work
    <2>5. QED BY <2>2, <2>3, <2>4 DEF VerifiedDone, AllDone, InScope, Work
  <1>3. QED BY <1>1, <1>2

LEMMA EditsQuiet ==
    ASSUME EditsInv, run.git # "unknown", run'.git = run.git, run'.retry # "verifying",
           JobsCalm, Waits, ResKept, past' \in [lost : BOOLEAN, late : SUBSET Paths, faults : Nat], LatesKept, TreeSafe,
           repo' = repo
    PROVE  EditsInv'
  <1>1. FanoutShape'
    BY DEF EditsInv, FanoutShape, TreeSafe
  <1>2. GitKept'
    BY DEF GitKept, ResKept
  <1>3. EditsSeen'
    BY DEF EditsInv, EditsSeen, TreeSafe
  <1>4. IntegratesClean'
    <2> SUFFICES ASSUME NEW d \in Drivers, run.git = "recorded"
                 PROVE  /\ drv'[d].at = "looking" => LooksClean(drv'[d], past'.late)
                        /\ drv'[d].at = "copying" => CopiesClean(drv'[d], past'.late)
      BY DEF IntegratesClean, LooksClean, CopiesClean, TreeSafe
    <2>1. CASE drv'[d].at = "looking"
      <3>1. CASE drv[d].at = "looking" /\ drv'[d].reason = drv[d].reason
        <4>1. past.late \subseteq past'.late /\ LooksClean(drv[d], past.late)
          BY <3>1 DEF EditsInv, IntegratesClean, LatesKept, Joins
        <4>2. QED BY <2>1, <3>1, <4>1 DEF LooksClean
      <3>2. QED BY <2>1, <3>1 DEF JobsCalm, Calm
    <2>2. CASE drv'[d].at = "copying"
      <3>1. CASE drv[d].at = "copying" /\ drv'[d].todo = drv[d].todo
        <4>1. past.late \subseteq past'.late /\ CopiesClean(drv[d], past.late)
          BY <3>1 DEF EditsInv, IntegratesClean, LatesKept, Joins
        <4>2. QED BY <2>2, <3>1, <4>1 DEF CopiesClean
      <3>2. QED BY <2>2, <3>1 DEF JobsCalm, Calm, PlansNow
    <2>3. QED BY <2>1, <2>2
  <1>5. DriversWait'
    BY DEF DriversWait, Waits, ResKept, JobsCalm, Calm
  <1>6. QED BY <1>1, <1>2, <1>3, <1>4, <1>5 DEF EditsInv

LEMMA TreeStays ==
    ASSUME EditsInv, tree' = tree
    PROVE  TreeSafe
  BY DEF TreeSafe, EditsInv, FanoutShape

\* A step that copies, joins and writes nothing.
LEMMA Quiet ==
    ASSUME FanoutInv, FanoutInv', EditsInv, WorkInv, run.git # "unknown",
           Settles(run', run), JobsCalm, JobsFewer, Waits, WorkersFewer, ResKept, PastKept,
           tree' = tree, repo' = repo
    PROVE  Kept
  <1>1. EditsInv'
    BY EditsQuiet, TreeStays DEF Settles, Follows, PastKept
  <1>2. ASSUME past.lost PROVE WorkInv'
    BY <1>2 DEF PastKept, WorkInv
  <1>3. ASSUME ~past.lost PROVE WorkInv'
    <2>1. Claims /\ Joined
      BY <1>3 DEF WorkInv, Joined
    <2>2. Claims'
      BY <2>1, ClaimsKept DEF Settles
    <2>3. Joined'
      BY <1>3, <2>1, JobsKept, WorkKept, VerifiedKept DEF Joined, Settles
    <2>4. QED BY <2>2, <2>3 DEF WorkInv, Joined
  <1>4. QED BY <1>1, <1>2, <1>3 DEF Kept

LEMMA GitKnown ==
    ASSUME EditsInv, NEW d \in Drivers, drv[d].at # "idle"
    PROVE  run.git # "unknown"
  <1>1. Idle.at = "idle"
    BY DEF Idle
  <1>2. run.git = "unknown" => drv[d] = Idle
    BY DEF EditsInv, GitKept
  <1>3. QED BY <1>1, <1>2

LEMMA FaultKeeps ==
    ASSUME EditsInv, NEW late \in SUBSET Paths, FaultWith(late), past.late \subseteq late \/ \A e \in Drivers : ~Joins(e)
    PROVE  PastKept /\ past'.late = late
  <1>1. past \in [lost : BOOLEAN, late : SUBSET Paths, faults : Nat]
    BY DEF EditsInv, FanoutShape
  <1>2. past' = [past EXCEPT !.faults = past.faults + 1, !.late = late] /\ past.faults + 1 \in Nat
    BY <1>1 DEF FaultWith
  <1>3. QED BY <1>1, <1>2 DEF PastKept, LatesKept

LEMMA PastStays ==
    ASSUME EditsInv, Fault \/ past' = past
    PROVE  PastKept
  <1>1. past \in [lost : BOOLEAN, late : SUBSET Paths, faults : Nat]
    BY DEF EditsInv, FanoutShape
  <1>2. CASE past' = past
    BY <1>1, <1>2 DEF PastKept, LatesKept
  <1>3. CASE Fault
    BY <1>1, <1>3, FaultKeeps DEF Fault
  <1>4. QED BY <1>2, <1>3

LEMMA ResStays ==
    ASSUME EditsInv, res' = res
    PROVE  ResKept
  BY DEF EditsInv, GitKept, DriversWait, ResKept

LEMMA RunStays ==
    ASSUME EditsInv
    PROVE  Settles(run, run)
  BY DEF EditsInv, DriversWait, Settles, Follows, NotVerifying, Steady

LEMMA WorkersStay ==
    ASSUME live' = live
    PROVE  WorkersFewer
  BY DEF WorkersFewer

\* A driver takes a job that is no more than what it had.
LEMMA DriverQuiet ==
    ASSUME FanoutInv, FanoutInv', EditsInv, WorkInv, NEW d \in Drivers, NEW j,
           drv' = [drv EXCEPT ![d] = j], Calm(j, drv[d]), j.mine \subseteq drv[d].mine, run.git # "unknown",
           j.at = "running" \/ drv[d].at # "running" \/ \A w \in live : w.by # d,
           Settles(run', run), ResKept, PastKept,
           live' = live, tree' = tree, repo' = repo
    PROVE  Kept
  <1>1. drv'[d] = j /\ \A e \in Drivers \ {d} : drv'[e] = drv[e]
    BY DEF FanoutInv, FanoutTypeOK
  <1>2. JobsCalm
    <2>1. \A e \in Drivers : Calm(drv[e], drv[e])
      BY DEF Calm, HasRead, EditsInv, DriversWait
    <2>2. QED BY <1>1, <2>1 DEF JobsCalm
  <1>3. Waits
    BY <1>1 DEF Waits, EditsInv, DriversWait
  <1>4. JobsFewer
    BY <1>1 DEF JobsFewer
  <1>5. QED BY <1>2, <1>3, <1>4, WorkersStay, Quiet

LEMMA RestCalm ==
    ASSUME NEW old, NEW reason, NEW at \in Words \ {"joining", "looking", "copying"}, reason # "verifying"
    PROVE  /\ Calm(Idle, old) /\ Idle.at = "idle" /\ Idle.mine = {}
           /\ [Idle EXCEPT !.at = at, !.reason = reason].mine = {}
           /\ Calm([Idle EXCEPT !.at = at, !.reason = reason], old)
           /\ [Idle EXCEPT !.at = at, !.reason = reason].at = at
  BY DEF Calm, HasRead, Idle
-----------------------------------------------------------------------------
(***************************************************************************)
(* What the operators on a run leave of it                                 *)
(***************************************************************************)
LEMMA PausedSettles ==
    ASSUME NEW r \in RunRec, NEW reason \in Words \ {"verifying"}, r.retry # "verifying"
    PROVE  /\ Settles(Paused(r, reason), r)
           /\ Paused(r, reason).tasks = r.tasks
  <1> DEFINE w == IF reason # "invocation-timeout" THEN r.retry
                  ELSE IF r.stage = "implementing" THEN "implementing" ELSE "paused"
  <1>1. Paused(r, reason) = [r EXCEPT !.stage = reason, !.retry = w]
    BY DEF Paused, RunRec
  <1>2. w # "verifying"
    OBVIOUS
  <1> HIDE DEF w
  <1>3. QED BY <1>1, <1>2 DEF Settles, Follows, NotVerifying, Steady, RunRec

LEMMA PausedFanoutSettles ==
    ASSUME NEW r \in RunRec, NEW reason \in Words \ {"verifying"}, r.retry # "verifying"
    PROVE  Settles(PausedFanout(r, reason), r)
  <1>0. "implementer-failed" \in Words \ {"verifying"} /\ "driver-failed" \in Words \ {"verifying"}
    BY DEF Words
  <1>1. CASE reason = "driver-error"
    <2>1. \/ PausedFanout(r, reason) = r
          \/ PausedFanout(r, reason) = Paused(r, "implementer-failed")
          \/ PausedFanout(r, reason) = Paused(r, "driver-failed")
      BY <1>1 DEF PausedFanout
    <2>2. Settles(r, r)
      BY DEF Settles, Follows, NotVerifying, Steady
    <2>3. QED BY <1>0, <2>1, <2>2, PausedSettles
  <1>2. CASE reason # "driver-error"
    <2> DEFINE p == Paused(r, reason)
               q == [p EXCEPT !.paused = IF @ = "" THEN reason ELSE @]
    <2>1. Settles(p, r)
      BY PausedSettles
    <2>2. p \in RunRec
      BY PausedFewer DEF Fewer
    <2>3. PausedFanout(r, reason) = q
      BY <1>2 DEF PausedFanout
    <2> HIDE DEF p
    <2>4. q.git = p.git /\ q.retry = p.retry /\ q.pending = p.pending /\ q.stage = p.stage /\ q.tasks = p.tasks
      BY <2>2 DEF RunRec
    <2> HIDE DEF q
    <2>5. Settles(q, r)
      BY <2>1, <2>4 DEF Settles, Follows, NotVerifying, Steady
    <2>6. QED BY <2>3, <2>5
  <1>3. QED BY <1>1, <1>2

LEMMA OrphanedSettles ==
    ASSUME NEW r \in RunRec, NEW d \in Drivers, r.retry # "verifying"
    PROVE  /\ Settles(Orphaned(r, d), r)
           /\ Orphaned(r, d).retry = r.retry /\ Orphaned(r, d).git = r.git
  <1> DEFINE t == [s \in Subtasks |-> IF r.tasks[s].pid = d THEN [r.tasks[s] EXCEPT !.pid = "gone"]
                                      ELSE r.tasks[s]]
  <1>1. \A s \in Subtasks : t[s].status = r.tasks[s].status /\ t[s].changed = r.tasks[s].changed
    BY DEF RunRec, Task
  <1>2. Orphaned(r, d) = [r EXCEPT !.tasks = t]
    BY DEF Orphaned
  <1> HIDE DEF t
  <1>3. QED BY <1>1, <1>2 DEF Settles, Follows, NotVerifying, Steady, RunRec

LEMMA ReconciledSettles ==
    ASSUME NEW r \in RunRec, NEW seen, r.retry # "verifying"
    PROVE  LET q == [r EXCEPT !.tasks = Reconciled(@, seen)]
           IN  Settles(q, r)
  <1> DEFINE t == Reconciled(r.tasks, seen)
  <1>1. \A s \in Subtasks :
           /\ t[s].changed = r.tasks[s].changed
           /\ \/ t[s].status = r.tasks[s].status
              \/ r.tasks[s].status \in {"reserved", "running"} /\ t[s].status = "failed"
    BY DEF RunRec, Task, Reconciled, InFlight
  <1> HIDE DEF t
  <1>2. [r EXCEPT !.tasks = t].tasks = t
    BY DEF RunRec
  <1>3. Settles([r EXCEPT !.tasks = t], r)
    BY <1>1, <1>2 DEF Settles, Follows, NotVerifying, Steady, RunRec
  <1>4. QED BY <1>3 DEF t

LEMMA SettlesTwice ==
    ASSUME NEW o, NEW q, NEW r, Settles(o, q), Settles(q, r)
    PROVE  Settles(o, r)
  BY DEF Settles, Follows, NotVerifying, Steady
-----------------------------------------------------------------------------
(***************************************************************************)
(* The steps that only decide, fail or forget                              *)
(***************************************************************************)
Before == FanoutInv /\ FanoutInv' /\ EditsInv /\ WorkInv

\* A driver that comes to rest, or is to pause the run.
LEMMA RestsQuiet ==
    ASSUME Before, NEW d \in Drivers, NEW reason, reason # "verifying",
           Rests(d) \/ PausesFor(d, reason), drv[d].at # "idle",
           drv[d].at # "running" \/ \A w \in live : w.by # d,
           Settles(run', run), ResKept, PastKept,
           live' = live, tree' = tree, repo' = repo
    PROVE  Kept
  <1>1. run.git # "unknown"
    BY GitKnown DEF Before
  <1>2. "pausing" \in Words \ {"joining", "looking", "copying"}
    BY DEF Words
  <1>3. CASE Rests(d)
    BY <1>1, <1>2, <1>3, RestCalm, DriverQuiet DEF Before, Rests
  <1>4. CASE PausesFor(d, reason)
    <2> DEFINE j == [Idle EXCEPT !.at = "pausing", !.reason = reason]
    <2>1. Calm(j, drv[d]) /\ j.mine = {}
      BY <1>2, RestCalm
    <2>2. drv' = [drv EXCEPT ![d] = j]
      BY <1>4 DEF PausesFor
    <2> HIDE DEF j
    <2>3. QED BY <1>1, <2>1, <2>2, DriverQuiet DEF Before
  <1>5. QED BY <1>3, <1>4

LEMMA ReconcileQuiet ==
    ASSUME Before, NEW d \in Drivers, Reconcile(d)
    PROVE  Kept
  <1> DEFINE j == [Idle EXCEPT !.at = "reconciled"]
  <1>1. run.git # "unknown" /\ drv[d].at = "observed"
    BY GitKnown DEF Before, Reconcile
  <1>2. Calm(j, drv[d]) /\ j.mine = {}
    BY DEF Calm, HasRead, Idle
  <1>3. Settles(run', run)
    BY ReconciledSettles DEF Reconcile, Before, FanoutInv, FanoutTypeOK, EditsInv, DriversWait
  <1>4. drv' = [drv EXCEPT ![d] = j] /\ ResKept /\ PastKept
    BY ResStays, PastStays DEF Reconcile, Before
  <1> HIDE DEF j
  <1>5. QED BY <1>1, <1>2, <1>3, <1>4, DriverQuiet DEF Before, Reconcile

LEMMA PauseQuiet ==
    ASSUME Before, NEW d \in Drivers, PauseFanout(d)
    PROVE  Kept
  <1> DEFINE r == PausedFanout(run, drv[d].reason)
  <1>1. /\ run \in RunRec /\ res \subseteq RunRec /\ drv[d].reason \in Words \ {"verifying"}
        /\ \A q \in res \cup {run} : q.retry # "verifying"
        /\ \A q \in res : q.git = run.git
    BY DEF Before, FanoutInv, FanoutTypeOK, Job, EditsInv, DriversWait, GitKept
  <1>2. Settles(r, run)
    BY <1>1, PausedFanoutSettles
  <1>3. Settles(Orphaned(r, d), run)
    <2>1. r \in RunRec
      BY <1>1, PausedFanoutFewer DEF Fewer
    <2>2. r.retry # "verifying"
      BY <1>2 DEF Settles, Follows
    <2>3. Settles(Orphaned(r, d), r)
      BY <2>1, <2>2, OrphanedSettles
    <2> HIDE DEF r
    <2>4. QED BY <1>2, <2>3, SettlesTwice
  <1>4. Settles(run', run)
    <2>1. run' = r \/ run' = Orphaned(r, d)
      BY DEF PauseFanout
    <2> HIDE DEF r
    <2>2. QED BY <1>2, <1>3, <2>1
  <1>5. ResKept
    <2>1. CASE res' = res
      BY <2>1, ResStays DEF Before
    <2>2. CASE res' = {Orphaned(q, d) : q \in res}
      BY <1>1, <2>2, OrphanedSettles DEF ResKept
    <2>3. QED BY <2>1, <2>2 DEF PauseFanout
  <1>6. PastKept
    BY PastStays DEF PauseFanout, Before
  <1>7. QED BY <1>4, <1>5, <1>6, RestsQuiet DEF PauseFanout

LEMMA RefusedQuiet ==
    ASSUME Before, NEW d \in Drivers, StopAdmitting(d) \/ BudgetRefuses(d) \/ WorktreeFails(d)
    PROVE  Kept
  <1>1. /\ drv[d].at = "admitting" /\ ResKept /\ PastKept /\ run \in RunRec
        /\ run.git # "unknown" /\ run.retry # "verifying"
    BY ResStays, PastStays, GitKnown DEF StopAdmitting, BudgetRefuses, WorktreeFails, MayReserve, Before, FanoutInv,
       FanoutTypeOK, EditsInv, DriversWait
  <1>2. Settles(run', run)
    <2>1. CASE run' = run
      BY <2>1, RunStays DEF Before
    <2>2. CASE run' = [run EXCEPT !.paused = "worktree-create-failed"]
      BY <1>1, <2>2 DEF Settles, Follows, NotVerifying, Steady, RunRec
    <2>3. QED BY <2>1, <2>2 DEF StopAdmitting, BudgetRefuses, WorktreeFails
  <1>3. live' = live /\ tree' = tree /\ repo' = repo
    BY DEF StopAdmitting, BudgetRefuses, WorktreeFails
  <1>4. CASE Rests(d) \/ PausesFor(d, "fanout-budget-exhausted") \/ PausesFor(d, "fanout-isolation-unavailable")
    BY <1>1, <1>2, <1>3, <1>4, RestsQuiet
  <1>5. CASE Goes(d, "running")
    <2> DEFINE j == [drv[d] EXCEPT !.at = "running"]
    <2>1. drv[d] \in Job /\ drv[d].reason # "verifying"
      BY DEF Before, FanoutInv, FanoutTypeOK, EditsInv, DriversWait
    <2>2. Calm(j, drv[d]) /\ j.at = "running" /\ j.mine = drv[d].mine
      BY <2>1 DEF Calm, HasRead, Job
    <2>3. drv' = [drv EXCEPT ![d] = j]
      BY <1>5 DEF Goes
    <2> HIDE DEF j
    <2>4. QED BY <1>1, <1>2, <1>3, <2>2, <2>3, DriverQuiet DEF Before
  <1>6. QED BY <1>4, <1>5 DEF StopAdmitting, BudgetRefuses, WorktreeFails

LEMMA CopyFailsQuiet ==
    ASSUME Before, NEW d \in Drivers, CopyFails(d)
    PROVE  Kept
  <1> DEFINE j == [drv[d] EXCEPT !.todo = {}, !.reason = "paused"]
  <1>1. drv[d].at = "copying" /\ ResKept /\ PastKept /\ run.git # "unknown" /\ drv[d] \in Job
    BY ResStays, PastStays, GitKnown DEF CopyFails, Before, FanoutInv, FanoutTypeOK
  <1>2. Calm(j, drv[d]) /\ j.mine = drv[d].mine
    BY <1>1 DEF Calm, HasRead, PlansNow, PlanSound, CopiesClean, Job
  <1>3. drv' = [drv EXCEPT ![d] = j]
    BY <1>1 DEF CopyFails, Before, FanoutInv, FanoutTypeOK, Job
  <1>4. Settles(run', run)
    BY RunStays DEF CopyFails, Before
  <1> HIDE DEF j
  <1>5. QED BY <1>1, <1>2, <1>3, <1>4, DriverQuiet DEF Before, CopyFails

LEMMA LeaveQuiet ==
    ASSUME Before, NEW d \in Drivers, Leave(d)
    PROVE  Kept
  <1>1. /\ run \in RunRec /\ res \subseteq RunRec
        /\ \A q \in res \cup {run} : q.retry # "verifying"
        /\ \A q \in res : q.git = run.git
    BY DEF Before, FanoutInv, FanoutTypeOK, EditsInv, DriversWait, GitKept
  <1>2. run.git # "unknown"
    <2>1. CASE drv[d].at # "idle"
      BY <2>1, GitKnown DEF Before
    <2>2. CASE \E s \in Subtasks : run.tasks[s].pid = d
      <3>1. Unstarted.pid = "none" /\ d # "none"
        BY DEF Unstarted
      <3>2. QED BY <2>2, <3>1 DEF Before, EditsInv, GitKept
    <2>3. QED BY <2>1, <2>2 DEF Leave
  <1>3. Settles(run', run)
    BY <1>1, OrphanedSettles DEF Leave
  <1>4. ResKept
    BY <1>1, OrphanedSettles DEF ResKept, Leave
  <1>5. PastKept
    BY PastStays DEF Leave, Before
  <1>6. WorkersFewer
    <2>1. CASE live' = {w \in live : w.by # d}
      BY <2>1 DEF WorkersFewer
    <2>2. CASE live' = {IF w.by = d THEN [w EXCEPT !.by = "gone"] ELSE w : w \in live}
      <3> DEFINE g(w) == IF w.by = d THEN [w EXCEPT !.by = "gone"] ELSE w
      <3>1. \A w \in live : g(w).sub = w.sub
        BY DEF Before, FanoutInv, FanoutTypeOK
      <3>2. live' = {g(w) : w \in live}
        BY <2>2
      <3> HIDE DEF g
      <3>3. QED BY <3>1, <3>2 DEF WorkersFewer
    <2>3. QED BY <2>1, <2>2 DEF Leave
  <1>7. \A w \in live' : w.by # d /\ (w.by \in Drivers => \E v \in live : v.by = w.by)
    <2>1. "gone" \notin Drivers
      OBVIOUS
    <2>2. CASE live' = {w \in live : w.by # d}
      BY <2>2
    <2>3. CASE live' = {IF w.by = d THEN [w EXCEPT !.by = "gone"] ELSE w : w \in live}
      <3> DEFINE g(w) == IF w.by = d THEN [w EXCEPT !.by = "gone"] ELSE w
      <3>1. \A w \in live : g(w).by = IF w.by = d THEN "gone" ELSE w.by
        BY DEF Before, FanoutInv, FanoutTypeOK
      <3>2. live' = {g(w) : w \in live}
        BY <2>3
      <3> HIDE DEF g
      <3>3. QED BY <2>1, <3>1, <3>2
    <2>4. QED BY <2>2, <2>3 DEF Leave
  <1>8. drv' = [drv EXCEPT ![d] = Idle] /\ drv \in [Drivers -> Job]
    BY DEF Leave, Rests, Before, FanoutInv, FanoutTypeOK
  <1>9. Waits
    BY <1>7, <1>8 DEF Waits, Before, EditsInv, DriversWait
  <1>10. JobsCalm
    <2>1. "idle" \in Words \ {"joining", "looking", "copying"}
      BY DEF Words
    <2>2. \A e \in Drivers : Calm(drv[e], drv[e])
      BY DEF Calm, HasRead, Before, EditsInv, DriversWait
    <2>3. QED BY <1>8, <2>1, <2>2, RestCalm DEF JobsCalm
  <1>11. JobsFewer
    BY <1>8 DEF JobsFewer, Idle
  <1>12. QED BY <1>2, <1>3, <1>4, <1>5, <1>6, <1>9, <1>10, <1>11, Quiet DEF Before, Leave

\* A reply that is dropped leaves its lease as it is.
LEMMA DropQuiet ==
    ASSUME Before, NEW w \in live, Drop(w)
    PROVE  Kept
  <1> DEFINE d == w.by
             j == [drv[d] EXCEPT !.reason = "driver-error"]
  <1>1. d \in Drivers /\ run \in RunRec /\ drv \in [Drivers -> Job] /\ drv[d].at = "running"
    BY DEF Drop, Before, FanoutInv, FanoutTypeOK, EditsInv, DriversWait
  <1>2. run.git # "unknown"
    BY <1>1, GitKnown DEF Before
  <1>3. Settles(run', run)
    <2>1. "injection-review-required" \in Words \ {"verifying"}
      BY DEF Words
    <2>2. QED BY <1>1, <2>1, PausedSettles DEF Drop, Before, EditsInv, DriversWait
  <1>4. /\ drv' = [drv EXCEPT ![d] = j] /\ ResKept /\ PastKept
        /\ live' = live \ {w} /\ tree' = tree /\ repo' = repo
    BY ResStays, PastStays DEF Drop, Before
  <1>5. Calm(j, drv[d]) /\ j.at = "running" /\ j.mine = drv[d].mine
    BY <1>1 DEF Calm, HasRead, Job
  <1> HIDE DEF j, d
  <1>6. JobsCalm
    <2>1. \A e \in Drivers : Calm(drv[e], drv[e])
      BY DEF Calm, HasRead, Before, EditsInv, DriversWait
    <2>2. QED BY <1>1, <1>4, <1>5, <2>1 DEF JobsCalm
  <1>7. Waits
    BY <1>1, <1>4, <1>5 DEF Waits, Before, EditsInv, DriversWait
  <1>8. WorkersFewer
    BY <1>4 DEF WorkersFewer
  <1>9. JobsFewer
    BY <1>1, <1>4, <1>5 DEF JobsFewer
  <1>10. QED BY <1>2, <1>3, <1>4, <1>6, <1>7, <1>8, <1>9, Quiet DEF Before
-----------------------------------------------------------------------------
(***************************************************************************)
(* A drive: observing, admitting, and deciding to integrate                *)
(***************************************************************************)
LEMMA ObserveKeepsWork ==
    ASSUME Before, NEW d \in Drivers, Observe(d)
    PROVE  Kept
  <1> DEFINE found == {<<s, run.tasks[s].inv>> : s \in SeenAlive(run.tasks)}
             j == [drv[d] EXCEPT !.at = "observed", !.seen = found]
  <1>1. /\ drv[d] \in Job /\ drv \in [Drivers -> Job] /\ run \in RunRec /\ drv[d].at = "idle"
        /\ drv[d].reason # "verifying" /\ ResKept /\ PastKept
    BY ResStays, PastStays DEF Observe, Before, FanoutInv, FanoutTypeOK, EditsInv, DriversWait
  <1>2. drv' = [drv EXCEPT ![d] = j]
    BY DEF Observe, Before, FanoutInv, FanoutTypeOK
  <1> HIDE DEF found
  <1>3. Calm(j, drv[d]) /\ j.mine = drv[d].mine /\ j.reason = drv[d].reason /\ j.at = "observed"
    BY <1>1 DEF Calm, HasRead, Job
  <1> HIDE DEF j
  <1>4. CASE run.git # "unknown"
    <2>1. run' = run /\ drv[d].at # "running"
      BY <1>1, <1>4 DEF Observe
    <2>2. QED BY <1>1, <1>2, <1>3, <1>4, <2>1, RunStays, DriverQuiet DEF Before, Observe
  <1>5. CASE run.git = "unknown"
    <2>1. /\ run.stage = "implementing" /\ live = {} /\ res = {} /\ drv[d] = Idle
          /\ \A e \in Drivers : drv[e] = Idle
          /\ \A s \in Subtasks : run.tasks[s] = Unstarted
          /\ \A p \in repo.dirty : tree[p] = User
      BY <1>5 DEF Before, EditsInv, GitKept
    <2>2. PICK g \in {"recorded", "unrecorded"} : run' = [run EXCEPT !.git = g]
      BY <1>5 DEF Observe
    <2>3. /\ run'.git = g /\ run'.tasks = run.tasks /\ run'.stage = "implementing" /\ run'.retry = run.retry
          /\ run'.pending = run.pending
      BY <1>1, <2>1, <2>2 DEF RunRec
    <2>4. live' = {} /\ res' = {} /\ tree' = tree /\ repo' = repo
      BY <2>1 DEF Observe
    <2>5. Idle.mine = {} /\ Idle.at = "idle" /\ Idle.reason = ""
      BY DEF Idle
    <2>6. \A e \in Drivers : /\ drv'[e].mine = {} /\ drv'[e].at \in {"idle", "observed"}
                               /\ drv'[e].reason = ""
      BY <1>1, <1>2, <1>3, <2>1, <2>5
    <2>7. EditsInv'
      <3>1. FanoutShape'
        BY <1>1, <2>4 DEF Before, EditsInv, FanoutShape, PastKept
      <3>2. GitKept'
        BY <2>3, <2>4 DEF GitKept
      <3>3. EditsSeen'
        BY <2>4 DEF Before, EditsInv, EditsSeen
      <3>4. IntegratesClean'
        BY <2>6 DEF IntegratesClean
      <3>5. DriversWait'
        BY ZenonT(60), <2>3, <2>4, <2>6 DEF Before, EditsInv, DriversWait
      <3>6. QED BY <3>1, <3>2, <3>3, <3>4, <3>5 DEF EditsInv
    <2>8. ASSUME ~past.lost PROVE WorkInv'
      <3>1. Claims'
        BY <2>4, <2>6 DEF Claims
      <3>2. PendingDone'
        BY <2>3, <2>6, <2>8 DEF PendingDone, HasRead, AllDone, Before, WorkInv
      <3>3. CopiesRest'
        BY <2>6 DEF CopiesRest
      <3>4. WorkThere'
        <4>1. Unstarted.status # "succeeded"
          BY DEF Unstarted
        <4>2. repo'.dirty \subseteq Taken(tree')
          BY <2>1, <2>4 DEF Taken, Before, EditsInv, FanoutShape
        <4>3. QED BY <2>1, <2>3, <2>4, <4>1, <4>2 DEF WorkThere
      <3>5. VerifiedDone'
        BY <2>3 DEF VerifiedDone
      <3>6. QED BY <3>1, <3>2, <3>3, <3>4, <3>5 DEF WorkInv
    <2>9. ASSUME past.lost PROVE WorkInv'
      BY <1>1, <2>9 DEF PastKept, WorkInv
    <2>10. QED BY <2>7, <2>8, <2>9 DEF Kept
  <1>6. QED BY <1>4, <1>5

\* What is to be integrated is done.
LEMMA ConcludesQuiet ==
    ASSUME Before, NEW d \in Drivers, Concludes(d, run), drv[d].at # "idle",
           drv[d].at # "running" \/ \A w \in live : w.by # d,
           UNCHANGED <<run, tree, repo, live, res, past>>
    PROVE  Kept
  <1>1. run.git # "unknown" /\ ResKept /\ PastKept /\ Settles(run', run)
    BY GitKnown, ResStays, PastStays, RunStays DEF Before
  <1>2. CASE Rests(d) \/ PausesFor(d, "fanout-subtask-failed")
    BY <1>1, <1>2, RestsQuiet
  <1>3. CASE Integrable(run) /\ drv' = [drv EXCEPT ![d] = [Idle EXCEPT !.at = "joining", !.snap = {run}]]
    <2> DEFINE j == [Idle EXCEPT !.at = "joining", !.snap = {run}]
    <2>1. j.mine = {} /\ j.at = "joining" /\ j.snap = {run} /\ j.reason = ""
      BY DEF Idle
    <2>2. ~HasFailures(run.tasks) => past.lost \/ AllDone(run.tasks)
      BY <1>3 DEF Integrable, EndedBadly, Before, WorkInv, PendingDone
    <2>3. drv' = [drv EXCEPT ![d] = j]
      BY <1>3
    <2> HIDE DEF j
    <2>4. Calm(j, drv[d])
      BY <2>1, <2>2 DEF Calm, HasRead, ReadsNow
    <2>5. QED BY <1>1, <2>1, <2>3, <2>4, DriverQuiet DEF Before
  <1>4. QED BY <1>2, <1>3 DEF Concludes

LEMMA AdmitQuiet ==
    ASSUME Before, NEW d \in Drivers, Admit(d)
    PROVE  Kept
  <1> DEFINE t == run.tasks
             j == [Idle EXCEPT !.at = "admitting", !.cap = AdmitCap(t), !.ready = Ready(t),
                               !.busy = InFlight(t) # {}]
  <1>1. /\ drv[d].at = "reconciled" /\ UNCHANGED <<run, tree, repo, live, res, past>>
        /\ run.git # "unknown" /\ ResKept /\ PastKept /\ Settles(run', run)
    BY GitKnown, ResStays, PastStays, RunStays DEF Admit, Before
  <1>2. CASE Concludes(d, run)
    BY <1>1, <1>2, ConcludesQuiet
  <1>3. CASE Rests(d) \/ PausesFor(d, "fanout-budget-exhausted") \/ PausesFor(d, "fanout-blocked")
    BY <1>1, <1>3, RestsQuiet
  <1>4. CASE drv' = [drv EXCEPT ![d] = j]
    <2>1. j.mine = {} /\ j.at = "admitting" /\ j.reason = ""
      BY DEF Idle
    <2> HIDE DEF j
    <2>2. Calm(j, drv[d])
      BY <2>1 DEF Calm, HasRead
    <2>3. QED BY <1>1, <1>4, <2>1, <2>2, DriverQuiet DEF Before
  <1>5. QED BY <1>2, <1>3, <1>4 DEF Admit

LEMMA JoinQuiet ==
    ASSUME Before, NEW d \in Drivers, Join(d)
    PROVE  Kept
  <1>1. /\ drv[d].at = "running" /\ \A w \in live : w.by # d
        /\ UNCHANGED <<run, tree, repo, live, res, past>>
        /\ ResKept /\ PastKept /\ Settles(run', run)
    BY ResStays, PastStays, RunStays DEF Join, Before
  <1>2. PausesFor(d, "driver-error") \/ Rests(d) \/ Concludes(d, run)
    BY DEF Join
  <1>3. CASE Concludes(d, run)
    BY <1>1, <1>3, ConcludesQuiet
  <1>4. CASE PausesFor(d, "driver-error") \/ Rests(d)
    BY <1>1, <1>4, RestsQuiet
  <1>5. QED BY <1>2, <1>3, <1>4

\* Nobody integrates when a driver begins to: what it will not know of is the user's files
\* that are clean, if HEAD does not tell, and those that git does not list.
LEMMA LookAtHeadQuiet ==
    ASSUME Before, NEW d \in Drivers, LookAtHead(d)
    PROVE  Kept
  <1>1. /\ drv[d].at = "joining" /\ UNCHANGED <<run, tree, repo, live, res>> /\ drv[d].reason # "verifying"
        /\ run.git # "unknown" /\ ResKept /\ Settles(run', run) /\ drv[d] \in Job
    BY GitKnown, ResStays, RunStays DEF LookAtHead, Before, FanoutInv, FanoutTypeOK, EditsInv, DriversWait
  <1>2. CASE past' = past /\ (Rests(d) \/ PausesFor(d, "driver-error"))
    BY <1>1, <1>2, PastStays, RestsQuiet DEF Before
  <1>3. ASSUME NEW why \in {"", "moved"}, drv' = [drv EXCEPT ![d].at = "looking", ![d].reason = why],
               PastKept, run.git = "recorded" => LooksClean([drv[d] EXCEPT !.at = "looking", !.reason = why], past'.late)
        PROVE  Kept
    <2> DEFINE j == [drv[d] EXCEPT !.at = "looking", !.reason = why]
    <2>1. j.at = "looking" /\ j.reason = why /\ j.snap = drv[d].snap /\ j.mine = drv[d].mine
      BY <1>1 DEF Job
    <2>2. drv' = [drv EXCEPT ![d] = j]
      BY <1>3 DEF Before, FanoutInv, FanoutTypeOK
    <2>3. run.git = "recorded" => LooksClean(j, past'.late)
      BY <1>3
    <2> HIDE DEF j
    <2>4. Calm(j, drv[d])
      BY <1>1, <1>3, <2>1, <2>3 DEF Calm, HasRead
    <2>5. QED BY <1>1, <1>3, <2>1, <2>2, <2>4, DriverQuiet DEF Before
  <1>4. CASE /\ drv' = [drv EXCEPT ![d].at = "looking", ![d].reason = IF repo.moved THEN "moved" ELSE ""]
             /\ past' = [past EXCEPT !.late = Unlisted] /\ \A e \in Drivers : ~Joins(e)
    <2> DEFINE why == IF repo.moved THEN "moved" ELSE ""
    <2>1. PastKept /\ past'.late = Unlisted
      BY <1>4 DEF Before, EditsInv, FanoutShape, PastKept, LatesKept
    <2>2. why \in {"", "moved"} /\ (why # "moved" => ~repo.moved)
      OBVIOUS
    <2>3. drv' = [drv EXCEPT ![d].at = "looking", ![d].reason = why]
      BY <1>4
    <2> HIDE DEF why
    <2>4. LooksClean([drv[d] EXCEPT !.at = "looking", !.reason = why], past'.late)
      BY <1>1, <2>1, <2>2 DEF LooksClean, Job, Before, EditsInv, EditsSeen
    <2>5. QED BY <1>3, <2>1, <2>2, <2>3, <2>4
  <1>5. CASE /\ drv' = [drv EXCEPT ![d].at = "looking", ![d].reason = ""]
             /\ FaultWith(Unlisted \cup {p \in Paths : tree[p] = User /\ p \notin repo.dirty})
             /\ \A e \in Drivers : ~Joins(e)
    <2> DEFINE unseen == Unlisted \cup {p \in Paths : tree[p] = User /\ p \notin repo.dirty}
    <2>1. unseen \in SUBSET Paths
      OBVIOUS
    <2>2. FaultWith(unseen)
      BY <1>5
    <2>3. /\ Unlisted \subseteq unseen
          /\ \A p \in Paths : tree[p] = User => p \in repo.dirty \cup unseen
      OBVIOUS
    <2> HIDE DEF unseen
    <2>4. PastKept /\ past'.late = unseen
      BY <1>5, <2>1, <2>2, FaultKeeps DEF Before
    <2>5. LooksClean([drv[d] EXCEPT !.at = "looking", !.reason = ""], past'.late)
      BY <2>3, <2>4 DEF LooksClean
    <2>6. QED BY <1>3, <1>5, <2>4, <2>5
  <1>6. QED BY <1>2, <1>4, <1>5 DEF LookAtHead

\* What integration plans: every path in scope that it does not find dirty.  The user's files
\* are dirty, and listed, or ones it cannot know of.
LEMMA CollectQuiet ==
    ASSUME Before, NEW d \in Drivers, Collect(d)
    PROVE  Kept
  <1>1. /\ drv[d].at = "looking" /\ UNCHANGED <<run, tree, repo, live, res>>
        /\ run.git # "unknown" /\ ResKept /\ Settles(run', run) /\ drv[d].snap \subseteq RunRec
        /\ repo \in [dirty : SUBSET Paths, moved : BOOLEAN]
        /\ past \in [lost : BOOLEAN, late : SUBSET Paths, faults : Nat]
    BY GitKnown, ResStays, RunStays DEF Collect, Before, FanoutInv, FanoutTypeOK, Job, EditsInv, FanoutShape
  <1>2. PICK r \in drv[d].snap, dirty \in StatusLists \cup {{}} :
          LET n == Plan(r, drv[d].reason = "moved", dirty)
          IN  /\ drv' = [drv EXCEPT ![d] = [Idle EXCEPT !.at = "copying", !.reason = n.verdict, !.todo = n.todo]]
              /\ IF dirty \in StatusLists THEN UNCHANGED past ELSE FaultWith(Paths)
    BY DEF Collect
  <1> DEFINE n == Plan(r, drv[d].reason = "moved", dirty)
             changes == Contributions(r.tasks)
             j == [Idle EXCEPT !.at = "copying", !.reason = n.verdict, !.todo = n.todo]
  <1>3. PastKept /\ past'.late = IF dirty \in StatusLists THEN past.late ELSE Paths
    <2>1. CASE dirty \in StatusLists
      BY <1>2, <2>1, PastStays DEF Before
    <2>2. CASE dirty \notin StatusLists
      BY <1>1, <1>2, <2>2, FaultKeeps DEF Before
    <2>3. QED BY <2>1, <2>2
  <1>4. dirty \subseteq repo.dirty /\ (run.git = "recorded" /\ dirty \in StatusLists => repo.dirty \ Unlisted \subseteq dirty)
    BY DEF StatusLists
  <1>5. /\ n.verdict \in {"repair", "paused", "pending"}
        /\ n.todo = IF n.verdict = "pending" THEN {c \in changes : c[1] \notin dirty} ELSE {}
        /\ n.verdict = "pending" => /\ ~HasFailures(r.tasks) /\ drv[d].reason # "moved"
                                    /\ \A c \in changes : c[1] \in OwnedPaths[c[2]]
    <2> DEFINE moved == drv[d].reason = "moved"
    <2>1. moved \in BOOLEAN /\ r \in RunRec
      BY <1>1
    <2> HIDE DEF moved
    <2>2. LET m == Plan(r, moved, dirty)
          IN  /\ m.verdict \in {"repair", "paused", "pending"}
              /\ m.todo = IF m.verdict = "pending" THEN Clean(changes, dirty) ELSE {}
              /\ m.verdict = "pending" => /\ ~HasFailures(r.tasks) /\ ~moved
                                          /\ \A c \in changes : c[1] \in OwnedPaths[c[2]]
      BY <2>1, PlanIs
    <2>3. QED BY <2>2 DEF moved, Clean
  <1>6. drv' = [drv EXCEPT ![d] = j]
    BY <1>2
  <1>7. j.mine = {} /\ j.at = "copying" /\ j.reason = n.verdict /\ j.todo = n.todo
    BY DEF Idle
  <1> HIDE DEF j, n
  <1>8. run.git = "recorded" => CopiesClean(j, past'.late)
    <2> SUFFICES ASSUME run.git = "recorded", NEW c \in j.todo, tree[c[1]] = User PROVE c[1] \in past'.late
      BY DEF CopiesClean
    <2>1. /\ c[1] \notin dirty /\ c[1] \in Paths /\ drv[d].reason # "moved"
      BY <1>5, <1>7 DEF Contributions
    <2>2. c[1] \in repo.dirty \cup past.late /\ Unlisted \subseteq past.late
      BY <1>1, <2>1 DEF Before, EditsInv, IntegratesClean, LooksClean
    <2>3. QED BY <1>3, <1>4, <2>1, <2>2
  <1>9. ASSUME ~past.lost PROVE PlanSound(j, run, Taken(tree))
    <2>1. CASE n.verdict # "pending"
      BY <1>5, <1>7, <2>1 DEF PlanSound
    <2>2. CASE n.verdict = "pending"
      <3>1. /\ AllDone(run.tasks)
            /\ \A s \in Subtasks : r.tasks[s].changed = run.tasks[s].changed
        BY <1>1, <1>5, <1>9, <2>2 DEF Before, WorkInv, PendingDone, HasRead
      <3>2. \A s \in Subtasks : r.tasks[s].changed \subseteq Paths
        BY <1>1 DEF RunRec, Task
      <3>3. \A s \in Subtasks : \A p \in run.tasks[s].changed : <<p, s>> \in changes
        BY <3>1, <3>2 DEF Contributions
      <3>4. InScope(run.tasks)
        <4>1. ASSUME NEW s \in Subtasks, NEW p \in run.tasks[s].changed PROVE p \in OwnedPaths[s]
          <5>1. <<p, s>> \in changes
            BY <3>3
          <5>2. <<p, s>>[1] \in OwnedPaths[<<p, s>>[2]]
            BY <1>5, <2>2, <5>1
          <5>3. QED BY <5>2
        <4>2. QED BY <4>1 DEF InScope
      <3>5. \A c \in j.todo : c[1] \in run.tasks[c[2]].changed
        BY <1>5, <1>7, <3>1 DEF Contributions
      <3>6. run.git = "recorded" => \A s \in Subtasks : \A p \in run.tasks[s].changed :
                                        <<p, s>> \in j.todo \/ p \in Taken(tree)
        <4>1. run.git = "recorded" => dirty \subseteq Taken(tree)
          BY <1>4, <1>9 DEF Before, WorkInv, WorkThere
        <4>2. QED BY <1>5, <1>7, <2>2, <3>3, <4>1
      <3>7. QED BY <1>7, <2>2, <3>1, <3>4, <3>5, <3>6 DEF PlanSound
    <2>3. QED BY <2>1, <2>2
  <1>10. Calm(j, drv[d])
    BY <1>5, <1>7, <1>8, <1>9 DEF Calm, HasRead, PlansNow
  <1>11. QED BY <1>1, <1>3, <1>6, <1>7, <1>10, DriverQuiet DEF Before
-----------------------------------------------------------------------------
(***************************************************************************)
(* Leases and workers                                                      *)
(***************************************************************************)
LEMMA Together ==
    ASSUME WorkInv, EditsInv', PastKept, ~past.lost /\ Claims /\ Joined => Claims' /\ Joined'
    PROVE  Kept
  BY DEF WorkInv, PastKept, Kept, Joined

\* A run with work to do is not to be integrated.
LEMMA NotDone ==
    ASSUME Joined, ~AllDone(run.tasks)
    PROVE  /\ ~run.pending /\ run.stage # "verifying"
           /\ \A d \in Drivers : HasRead(drv[d]) => \A r \in drv[d].snap : HasFailures(r.tasks)
           /\ \A d \in Drivers : drv[d].at = "copying" => drv[d].reason # "pending" /\ drv[d].todo = {}
  BY DEF Joined, PendingDone, CopiesRest, PlanSound, VerifiedDone

LEMMA ReserveKeepsWork ==
    ASSUME Before, NEW d \in Drivers, NEW s \in Subtasks, NEW a \in Agents, Reserve(d, s, a)
    PROVE  Kept
  <1> DEFINE t == run.tasks
             slot == [sub |-> s, inv |-> used + 1, agent |-> a]
             lease == [Unstarted EXCEPT !.status = "reserved", !.inv = used + 1, !.agent = a]
  <1>1. /\ drv[d].at = "admitting" /\ UNCHANGED <<tree, repo, live, res, past>>
        /\ drv[d] \in Job /\ drv \in [Drivers -> Job] /\ run \in RunRec /\ drv[d].reason # "verifying"
        /\ run.git # "unknown" /\ ResKept /\ PastKept /\ Settles(run, run) /\ run.retry # "verifying"
    BY GitKnown, ResStays, PastStays, RunStays DEF Reserve, MayReserve, Before, FanoutInv, FanoutTypeOK, EditsInv,
       DriversWait
  <1>2. CASE PausesFor(d, "driver-error") /\ run' = run
    BY <1>1, <1>2, RestsQuiet
  <1>3. CASE /\ drv' = [drv EXCEPT ![d].ready = @ \ {s}, ![d].busy = InFlight(t) # {} \/ @]
             /\ run' = run
    <2> DEFINE b == InFlight(t) # {} \/ drv[d].busy
               y == drv[d].ready \ {s}
               j == [drv[d] EXCEPT !.ready = y, !.busy = b]
    <2>1. drv' = [drv EXCEPT ![d] = j]
      BY <1>1, <1>3 DEF Job
    <2> HIDE DEF b, y
    <2>2. j.mine = drv[d].mine /\ j.at = "admitting" /\ j.reason = drv[d].reason
      BY <1>1 DEF Job
    <2> HIDE DEF j
    <2>3. Calm(j, drv[d])
      BY <1>1, <2>2 DEF Calm, HasRead
    <2>4. QED BY <1>1, <1>3, <2>1, <2>2, <2>3, DriverQuiet DEF Before
  <1>4. CASE /\ s \in Ready(t) /\ run' = [run EXCEPT !.tasks[s] = lease]
             /\ drv' = [drv EXCEPT ![d].ready = @ \ {s}, ![d].busy = TRUE,
                                   ![d].mine = @ \cup {slot},
                                   ![d].cap = IF run.git = "recorded" THEN @ ELSE 1]
    <2> DEFINE c == IF run.git = "recorded" THEN drv[d].cap ELSE 1
               y == drv[d].ready \ {s}
               z == drv[d].mine \cup {slot}
               j == [drv[d] EXCEPT !.ready = y, !.busy = TRUE, !.mine = z, !.cap = c]
    <2>1. drv' = [drv EXCEPT ![d] = j]
      BY <1>1, <1>4 DEF Job
    <2> HIDE DEF c, y
    <2>2. j.mine = z /\ j.at = "admitting" /\ j.reason = drv[d].reason
      BY <1>1 DEF Job
    <2> HIDE DEF j
    <2>3. JobsCalm
      <3>1. Calm(j, drv[d]) /\ \A e \in Drivers : Calm(drv[e], drv[e])
        BY <1>1, <2>2 DEF Calm, HasRead, Before, EditsInv, DriversWait
      <3>2. QED BY <1>1, <2>1, <3>1 DEF JobsCalm
    <2>4. Waits
      BY <1>1, <2>1 DEF Waits, Before, EditsInv, DriversWait
    <2>5. t[s].status = "pending" /\ lease.status = "reserved" /\ slot.sub = s
      BY <1>4 DEF Ready, Unstarted
    <2> HIDE DEF lease, slot
    <2>6. /\ run'.tasks = [t EXCEPT ![s] = lease] /\ run'.git = run.git /\ run'.retry = run.retry
          /\ run'.pending = run.pending /\ run'.stage = run.stage
      BY <1>1, <1>4 DEF RunRec
    <2>7. \A u \in Subtasks : run'.tasks[u] = IF u = s THEN lease ELSE t[u]
      BY <1>1, <2>6 DEF RunRec
    <2>8. Follows(run', run) /\ NotVerifying(run', run)
      BY <1>1, <2>5, <2>6, <2>7 DEF Follows, NotVerifying
    <2>9. EditsInv'
      BY <1>1, <2>3, <2>4, <2>6, EditsQuiet, TreeStays DEF Before, PastKept
    <2>10. ASSUME ~past.lost, Claims, Joined PROVE Claims' /\ Joined'
      <3>1. Joined'
        BY <1>1, <2>3, <2>8, <2>10, JobsKept, WorkKept, VerifiedKept DEF Joined, Before
      <3>2. /\ \A e \in Drivers : \A m \in drv[e].mine : m.sub \in Subtasks /\ m.sub # s
            /\ \A w \in live : w.sub \in Subtasks /\ w.sub # s
        <4>1. /\ \A e \in Drivers : \A m \in drv[e].mine : t[m.sub].status \in {"reserved", "failed"}
              /\ \A w \in live : t[w.sub].status \in {"running", "failed"}
          BY <2>10 DEF Claims
        <4>2. QED BY <2>5, <4>1, ClaimTypes DEF Before
      <3>3. \A e \in Drivers : drv'[e].mine = IF e = d THEN drv[e].mine \cup {slot} ELSE drv[e].mine
        BY <1>1, <2>1, <2>2
      <3>4. live' = live
        BY <1>1
      <3> HIDE DEF z
      <3>5. \A e \in Drivers : \A m \in drv'[e].mine : run'.tasks[m.sub].status \in {"reserved", "failed"}
        <4>1. ASSUME NEW e \in Drivers, NEW m \in drv'[e].mine
              PROVE  run'.tasks[m.sub].status \in {"reserved", "failed"}
          <5>1. CASE m \in drv[e].mine
            <6>1. t[m.sub].status \in {"reserved", "failed"}
              BY <2>10, <5>1 DEF Claims
            <6>2. m.sub \in Subtasks /\ m.sub # s
              BY <3>2, <5>1
            <6>3. QED BY <2>7, <6>1, <6>2
          <5>2. CASE m = slot
            BY <2>5, <2>7, <5>2
          <5>3. QED BY <3>3, <4>1, <5>1, <5>2
        <4>2. QED BY <4>1
      <3>6. \A w \in live' : run'.tasks[w.sub].status \in {"running", "failed"}
        BY <2>7, <2>10, <3>2, <3>4 DEF Claims
      <3>7. \A e, f \in Drivers : \A m \in drv'[e].mine : \A n \in drv'[f].mine :
               m.sub = n.sub => e = f /\ m = n
        <4>1. ASSUME NEW e \in Drivers, NEW f \in Drivers, NEW m \in drv'[e].mine, NEW n \in drv'[f].mine,
                     m.sub = n.sub
              PROVE  e = f /\ m = n
          <5>1. CASE m \in drv[e].mine /\ n \in drv[f].mine
            BY <2>10, <4>1, <5>1 DEF Claims
          <5>2. CASE m \notin drv[e].mine
            <6>1. e = d /\ m = slot /\ n.sub = s
              BY <2>5, <3>3, <4>1, <5>2
            <6>2. n \notin drv[f].mine
              BY <3>2, <6>1
            <6>3. QED BY <3>3, <6>1, <6>2
          <5>3. CASE n \notin drv[f].mine
            <6>1. f = d /\ n = slot /\ m.sub = s
              BY <2>5, <3>3, <4>1, <5>3
            <6>2. m \notin drv[e].mine
              BY <3>2, <6>1
            <6>3. QED BY <3>3, <6>1, <6>2
          <5>4. QED BY <5>1, <5>2, <5>3
        <4>2. QED BY <4>1
      <3>8. \A e \in Drivers : \A m \in drv'[e].mine : \A w \in live' : m.sub # w.sub
        <4>1. \A e \in Drivers : \A m \in drv[e].mine : \A w \in live : m.sub # w.sub
          BY <2>10 DEF Claims
        <4>2. QED BY <2>5, <3>2, <3>3, <3>4, <4>1
      <3>9. \A v, w \in live' : v.sub = w.sub => v = w
        BY <2>10, <3>4 DEF Claims
      <3>10. Claims'
        BY <3>5, <3>6, <3>7, <3>8, <3>9 DEF Claims
      <3>11. QED BY <3>1, <3>10
    <2>11. QED BY <1>1, <2>9, <2>10, Together DEF Before
  <1>5. QED BY <1>2, <1>3, <1>4 DEF Reserve

\* A reservation that its driver starts is a worker's, whatever became of its lease.
LEMMA StartKeepsWork ==
    ASSUME Before, NEW d \in Drivers, NEW m \in drv[d].mine, Start(d, m)
    PROVE  Kept
  <1> DEFINE t == run.tasks
             s == m.sub
             v == [sub |-> m.sub, inv |-> m.inv, by |-> d]
             u == IF t[s].status = "reserved" THEN [t[s] EXCEPT !.status = "running", !.pid = d] ELSE t[s]
             z == drv[d].mine \ {m}
             j == [drv[d] EXCEPT !.mine = z]
  <1>1. /\ drv[d].at = "running" /\ UNCHANGED <<tree, repo, res, past>>
        /\ drv[d] \in Job /\ drv \in [Drivers -> Job] /\ run \in RunRec /\ drv[d].reason # "verifying"
        /\ run.git # "unknown" /\ ResKept /\ PastKept /\ run.retry # "verifying"
        /\ live' = live \cup {v} /\ s \in Subtasks
    BY GitKnown, ResStays, PastStays DEF Start, Before, FanoutInv, FanoutTypeOK, EditsInv, DriversWait, Job, Slot
  <1>2. t[s] \in Task
    BY <1>1 DEF RunRec
  <1>3. drv' = [drv EXCEPT ![d] = j] /\ run' = [run EXCEPT !.tasks[s] = u]
    BY <1>1 DEF Start, RunRec
  <1>4. j.mine = z /\ j.at = "running" /\ j.reason = drv[d].reason
    BY <1>1 DEF Job
  <1>5. /\ u.changed = t[s].changed
        /\ u.status = IF t[s].status = "reserved" THEN "running" ELSE t[s].status
    BY <1>2 DEF Task
  <1>6. v.sub = s /\ v.by = d
    OBVIOUS
  <1> HIDE DEF j, u, v
  <1>7. JobsCalm
    <2>1. Calm(j, drv[d]) /\ \A e \in Drivers : Calm(drv[e], drv[e])
      BY <1>1, <1>4 DEF Calm, HasRead, Before, EditsInv, DriversWait
    <2>2. QED BY <1>1, <1>3, <2>1 DEF JobsCalm
  <1>8. Waits
    BY <1>1, <1>3, <1>4, <1>6 DEF Waits, Before, EditsInv, DriversWait
  <1>9. /\ run'.tasks = [t EXCEPT ![s] = u] /\ run'.git = run.git /\ run'.retry = run.retry
        /\ run'.pending = run.pending /\ run'.stage = run.stage
    BY <1>1, <1>3 DEF RunRec
  <1>10. \A x \in Subtasks : run'.tasks[x] = IF x = s THEN u ELSE t[x]
    BY <1>1, <1>9 DEF RunRec
  <1>11. Follows(run', run) /\ NotVerifying(run', run)
    BY <1>1, <1>5, <1>9, <1>10 DEF Follows, NotVerifying
  <1>12. EditsInv'
    BY <1>1, <1>7, <1>8, <1>9, EditsQuiet, TreeStays DEF Before, PastKept
  <1>13. ASSUME ~past.lost, Claims, Joined PROVE Claims' /\ Joined'
    <2>1. Joined'
      BY <1>1, <1>7, <1>11, <1>13, JobsKept, WorkKept, VerifiedKept DEF Joined, Before
    <2>2. \A e \in Drivers : drv'[e].mine = IF e = d THEN drv[e].mine \ {m} ELSE drv[e].mine
      BY <1>1, <1>3, <1>4
    <2>3. /\ \A e \in Drivers : \A n \in drv'[e].mine : n \in drv[e].mine /\ n.sub \in Subtasks /\ n.sub # s
          /\ \A w \in live : w.sub \in Subtasks /\ w.sub # s
      <3>1. /\ \A e \in Drivers : \A n \in drv[e].mine : n.sub = s => e = d /\ n = m
            /\ \A w \in live : w.sub # s
        BY <1>13 DEF Claims
      <3>2. QED BY <2>2, <3>1, ClaimTypes DEF Before
    <2>4. u.status \in {"running", "failed"}
      BY <1>5, <1>13 DEF Claims
    <2>5. \A e \in Drivers : \A n \in drv'[e].mine : run'.tasks[n.sub].status \in {"reserved", "failed"}
      BY <1>10, <1>13, <2>3 DEF Claims
    <2>6. \A w \in live' : run'.tasks[w.sub].status \in {"running", "failed"}
      <3>1. \A w \in live : run.tasks[w.sub].status \in {"running", "failed"}
        BY <1>13 DEF Claims
      <3>2. \A w \in live : run'.tasks[w.sub] = run.tasks[w.sub]
        BY <1>10, <2>3
      <3>3. run'.tasks[v.sub] = u
        BY <1>1, <1>6, <1>10
      <3>4. \A w \in live' : w \in live \/ w = v
        BY <1>1
      <3>5. QED BY <2>4, <3>1, <3>2, <3>3, <3>4
    <2>7. \A e, f \in Drivers : \A n \in drv'[e].mine : \A o \in drv'[f].mine : n.sub = o.sub => e = f /\ n = o
      BY <1>13, <2>3 DEF Claims
    <2>8. \A e \in Drivers : \A n \in drv'[e].mine : \A w \in live' : n.sub # w.sub
      BY <1>1, <1>6, <1>13, <2>3 DEF Claims
    <2>9. \A x, w \in live' : x.sub = w.sub => x = w
      BY <1>1, <1>6, <1>13, <2>3 DEF Claims
    <2>10. Claims'
      BY <2>5, <2>6, <2>7, <2>8, <2>9 DEF Claims
    <2>11. QED BY <2>1, <2>10
  <1>14. QED BY <1>1, <1>12, <1>13, Together DEF Before

LEMMA OutcomeIs ==
    ASSUME NEW s \in Subtasks, NEW o \in Outcomes(s)
    PROVE  /\ o[1] \in Terminal /\ o[2] \in SUBSET Paths
           /\ o[2] = {} \/ (o[1] = "succeeded" /\ o[2] \in {OwnedPaths[s], Paths})
  <1>1. OwnedPaths[s] \in SUBSET Paths /\ "succeeded" \in Terminal /\ Failure \subseteq Terminal
    BY DEF Terminal, Failure
  <1>2. CASE o = <<"succeeded", {}>>
    BY <1>1, <1>2
  <1>3. CASE o = <<"succeeded", OwnedPaths[s]>>
    BY <1>1, <1>3
  <1>4. CASE o = <<"succeeded", Paths>>
    BY <1>1, <1>4
  <1>5. ASSUME NEW f \in Failure, o = <<f, {}>>
        PROVE  o[1] \in Terminal /\ o[2] \in SUBSET Paths /\ o[2] = {}
    BY <1>1, <1>5
  <1>6. \/ o = <<"succeeded", {}>> \/ o = <<"succeeded", OwnedPaths[s]>> \/ o = <<"succeeded", Paths>>
        \/ \E f \in Failure : o = <<f, {}>>
    BY DEF Outcomes, Expected, Unexpected
  <1>7. QED BY <1>2, <1>3, <1>4, <1>5, <1>6

\* What Completed makes of a run.
Ended(q, r, s, status, c) ==
    /\ \A u \in Subtasks :
          /\ q.tasks[u].status = IF u = s THEN status ELSE r.tasks[u].status
          /\ q.tasks[u].changed = IF u = s THEN c ELSE r.tasks[u].changed
    /\ q.git = r.git /\ q.retry \in {r.retry, "implementing", "paused"}
    /\ q.stage \in {r.stage, "invocation-timeout"}
    /\ q.pending => r.pending \/ (AllTerminal(q.tasks) /\ ~HasFailures(q.tasks))

LEMMA CompletedIs ==
    ASSUME NEW r \in RunRec, NEW s \in Subtasks, NEW status \in Terminal, NEW c \in SUBSET Paths
    PROVE  Ended(Completed(r, s, status, c), r, s, status, c)
  <1> DEFINE t == [r.tasks EXCEPT ![s].status = status, ![s].pid = "none", ![s].changed = c]
             b == r.pending \/ (AllTerminal(t) /\ ~HasFailures(t))
             n == [r EXCEPT !.tasks = t, !.pending = b]
             y == Paused(n, "invocation-timeout")
             z == [y EXCEPT !.paused = "invocation-timeout"]
             q == Completed(r, s, status, c)
  <1>1. q = IF status = "timed-out" THEN z ELSE n
    BY DEF Completed
  <1>2. \A u \in Subtasks : /\ t[u].status = IF u = s THEN status ELSE r.tasks[u].status
                            /\ t[u].changed = IF u = s THEN c ELSE r.tasks[u].changed
    <2> DEFINE v == [r.tasks[s] EXCEPT !.status = status, !.pid = "none", !.changed = c]
    <2>1. r.tasks \in [Subtasks -> Task]
      BY DEF RunRec
    <2>2. t = [r.tasks EXCEPT ![s] = v]
      BY <2>1 DEF Task
    <2>3. r.tasks[s] \in Task
      BY <2>1
    <2>4. v.status = status /\ v.changed = c
      BY <2>3 DEF Task
    <2> HIDE DEF v, t
    <2>5. \A u \in Subtasks : t[u] = IF u = s THEN v ELSE r.tasks[u]
      BY <2>1, <2>2
    <2>6. QED BY <2>4, <2>5
  <1> HIDE DEF t
  <1>3. n.tasks = t /\ n.git = r.git /\ n.retry = r.retry /\ n.stage = r.stage /\ n.pending = b
    BY DEF RunRec
  <1>4. DOMAIN n = DOMAIN r
    OBVIOUS
  <1> HIDE DEF b, n
  <1>5. /\ y.tasks = n.tasks /\ y.git = n.git /\ y.retry \in {"implementing", "paused"}
        /\ y.stage = "invocation-timeout" /\ y.pending = n.pending /\ DOMAIN y = DOMAIN n
    <2>1. y = [n EXCEPT !.stage = "invocation-timeout",
                        !.retry = IF n.stage = "implementing" THEN "implementing" ELSE "paused"]
      BY DEF Paused
    <2> HIDE DEF y
    <2>2. QED BY <1>4, <2>1 DEF RunRec
  <1> HIDE DEF y
  <1>6. /\ z.tasks = y.tasks /\ z.git = y.git /\ z.retry = y.retry /\ z.stage = y.stage /\ z.pending = y.pending
    BY <1>4, <1>5 DEF RunRec
  <1> HIDE DEF z
  <1>7. b => r.pending \/ (AllTerminal(t) /\ ~HasFailures(t))
    BY DEF b
  <1>8. /\ q.tasks = t /\ q.git = r.git /\ q.retry \in {r.retry, "implementing", "paused"}
        /\ q.stage \in {r.stage, "invocation-timeout"} /\ q.pending = b
    BY <1>1, <1>3, <1>5, <1>6
  <1> HIDE DEF q
  <1>9. Ended(q, r, s, status, c)
    BY <1>2, <1>7, <1>8 DEF Ended
  <1>10. QED BY <1>9 DEF q

LEMMA WrittenSafe ==
    ASSUME EditsInv, NEW w, w.sub \in Subtasks, NEW c \in SUBSET Paths, tree' = Written(w, c)
    PROVE  TreeSafe
  <1>1. tree \in [Paths -> {Base, User} \cup {By(s) : s \in Subtasks}]
    BY DEF EditsInv, FanoutShape
  <1>2. CASE run.git = "recorded"
    BY <1>1, <1>2 DEF Written, TreeSafe
  <1>3. CASE run.git # "recorded"
    <2>1. tree' = [p \in Paths |-> IF p \in c THEN By(w.sub) ELSE tree[p]]
      BY <1>3 DEF Written
    <2>2. By(w.sub) \in {By(s) : s \in Subtasks}
      OBVIOUS
    <2>3. QED BY <1>1, <1>3, <2>1, <2>2, Owners DEF TreeSafe
  <1>4. QED BY <1>2, <1>3

\* In its own scope a worker overwrites the work of another only if that one left its own.
LEMMA WrittenInScope ==
    ASSUME FanoutInv, Joined, NEW s \in Subtasks, run.git # "recorded", run.tasks[s].status # "succeeded",
           NEW c, c \subseteq OwnedPaths[s], tree' = [p \in Paths |-> IF p \in c THEN By(s) ELSE tree[p]]
    PROVE  Doomed(run.tasks) \/ \A u \in Subtasks : run.tasks[u].status = "succeeded" => Work(run.tasks, u, tree')
  <1> DEFINE t == run.tasks
  <1> SUFFICES ASSUME ~Doomed(t), NEW u \in Subtasks, t[u].status = "succeeded", NEW p \in t[u].changed
               PROVE  tree'[p] \in {By(u), User}
    BY DEF Work
  <1>1. tree[p] \in {By(u), User}
    BY DEF Joined, WorkThere, Work
  <1>2. p \in OwnedPaths[u] /\ p \in Paths
    BY DEF Doomed, FanoutInv, FanoutTypeOK, RunRec, Task
  <1>3. p \notin OwnedPaths[s]
    BY <1>2
  <1>4. QED BY <1>1, <1>2, <1>3

\* What is alive is nobody's that succeeded, so an answer is the only one of its subtask.
LEMMA AnswerKeepsWork ==
    ASSUME Before, NEW w \in live, NEW o \in Outcomes(w.sub), Answer(w, o)
    PROVE  Kept
  <1> DEFINE d == w.by
             s == w.sub
             t == run.tasks
             u == run'.tasks
             j == [drv[d] EXCEPT !.reason = "cancelled"]
  <1>1. /\ d \in Drivers /\ s \in Subtasks /\ run \in RunRec /\ drv \in [Drivers -> Job] /\ drv[d].at = "running"
        /\ run.git # "unknown" /\ ResKept /\ PastKept /\ run.retry # "verifying"
        /\ live' = live \ {w} /\ tree' = Written(w, o[2]) /\ repo' = repo
    BY ResStays, PastStays, GitKnown DEF Answer, Before, FanoutInv, FanoutTypeOK, EditsInv, DriversWait
  <1>2. /\ o[1] \in Terminal /\ o[2] \in SUBSET Paths
        /\ o[2] = {} \/ (o[1] = "succeeded" /\ o[2] \in {OwnedPaths[s], Paths})
    BY <1>1, OutcomeIs
  <1>3. /\ \A e \in Drivers : drv'[e] = drv[e] \/ (e = d /\ drv'[e] = j)
    BY <1>1 DEF Answer
  <1>4. j.mine = drv[d].mine /\ j.at = "running" /\ j.reason = "cancelled"
    BY <1>1 DEF Job
  <1> HIDE DEF j, d
  <1>5. JobsCalm /\ JobsFewer
    <2>1. \A e \in Drivers : Calm(drv[e], drv[e])
      BY DEF Calm, HasRead, Before, EditsInv, DriversWait
    <2>2. Calm(j, drv[d])
      BY <1>4 DEF Calm, HasRead
    <2>3. QED BY <1>3, <1>4, <2>1, <2>2 DEF JobsCalm, JobsFewer
  <1>6. Waits
    BY <1>1, <1>3, <1>4 DEF Waits, Before, EditsInv, DriversWait
  <1>7. TreeSafe
    BY <1>1, <1>2, WrittenSafe DEF Before
  <1>8. \/ run' = run /\ s \notin InFlight(t)
        \/ Ended(run', run, s, o[1], o[2]) /\ s \in InFlight(t)
    <2>1. Ended(Completed(run, s, o[1], o[2]), run, s, o[1], o[2])
      BY <1>1, <1>2, CompletedIs
    <2>2. run' = IF s \in InFlight(t) THEN Completed(run, s, o[1], o[2]) ELSE run
      BY DEF Answer
    <2>3. QED BY <2>1, <2>2
  <1>9. run'.git = run.git /\ run'.retry # "verifying"
    <2>1. CASE run' = run
      BY <1>1, <2>1
    <2>2. CASE Ended(run', run, s, o[1], o[2])
      BY <1>1, <1>2, <2>2 DEF Ended
    <2>3. QED BY <1>8, <2>1, <2>2
  <1>10. EditsInv'
    BY <1>1, <1>5, <1>6, <1>7, <1>9, EditsQuiet DEF Before, PastKept
  <1>11. ASSUME ~past.lost, Claims, Joined PROVE Claims' /\ Joined'
    <2>1. t[s].status \in {"running", "failed"}
      BY <1>11 DEF Claims
    <2>2. ~AllDone(t)
      BY <1>1, <2>1 DEF AllDone
    <2>3. /\ \A e \in Drivers : \A m \in drv'[e].mine : m \in drv[e].mine /\ m.sub \in Subtasks /\ m.sub # s
          /\ \A v \in live' : v \in live /\ v.sub \in Subtasks /\ v.sub # s
      <3>1. /\ \A e \in Drivers : \A m \in drv[e].mine : m.sub # s
            /\ \A v \in live : v.sub = s => v = w
        BY <1>11 DEF Claims
      <3>2. QED BY <1>1, <1>5, <3>1, ClaimTypes DEF Before, JobsFewer
    <2>4. \A x \in Subtasks \ {s} : u[x].status = t[x].status /\ u[x].changed = t[x].changed
      BY <1>1, <1>2, <1>8 DEF Ended
    <2>5. Claims'
      <3>0. /\ \A e \in Drivers : \A m \in drv[e].mine : t[m.sub].status \in {"reserved", "failed"}
            /\ \A v \in live : t[v.sub].status \in {"running", "failed"}
        BY <1>11 DEF Claims
      <3>1. \A e \in Drivers : \A m \in drv'[e].mine : u[m.sub].status \in {"reserved", "failed"}
        BY <2>3, <2>4, <3>0
      <3>2. \A v \in live' : u[v.sub].status \in {"running", "failed"}
        BY <2>3, <2>4, <3>0
      <3>3. \A e, f \in Drivers : \A m \in drv'[e].mine : \A n \in drv'[f].mine : m.sub = n.sub => e = f /\ m = n
        BY <1>11, <2>3 DEF Claims
      <3>4. \A e \in Drivers : \A m \in drv'[e].mine : \A v \in live' : m.sub # v.sub
        BY <1>11, <2>3 DEF Claims
      <3>5. \A v, x \in live' : v.sub = x.sub => v = x
        BY <1>11, <2>3 DEF Claims
      <3>6. QED BY <3>1, <3>2, <3>3, <3>4, <3>5 DEF Claims
    <2>6. PendingDone'
      <3>1. run'.pending => AllDone(u)
        <4>1. CASE run' = run
          BY <1>11, <2>2, <4>1, NotDone
        <4>2. CASE Ended(run', run, s, o[1], o[2])
          <5>1. run'.pending => AllTerminal(u) /\ ~HasFailures(u)
            BY <1>1, <1>2, <1>11, <2>2, <4>2, NotDone DEF Ended
          <5>2. AllTerminal(u) /\ ~HasFailures(u) => AllDone(u)
            BY DEF AllTerminal, HasFailures, Failure, AllDone
          <5>3. QED BY <5>1, <5>2
        <4>3. QED BY <1>8, <4>1, <4>2
      <3>2. ASSUME NEW e \in Drivers, HasRead(drv'[e]) PROVE \A r \in drv'[e].snap : HasFailures(r.tasks)
        BY <1>3, <1>4, <1>11, <2>2, <3>2, NotDone DEF HasRead
      <3>3. QED BY <3>1, <3>2 DEF PendingDone, AllDone
    <2>7. CopiesRest'
      <3>1. ASSUME NEW e \in Drivers, drv'[e].at = "copying" PROVE drv'[e].reason # "pending" /\ drv'[e].todo = {}
        BY <1>3, <1>4, <1>11, <2>2, <3>1, NotDone
      <3>2. QED BY <3>1 DEF CopiesRest, PlanSound
    <2>8. VerifiedDone'
      <3>1. run'.stage \in {run.stage, "invocation-timeout"}
        BY <1>1, <1>2, <1>8 DEF Ended
      <3>2. QED BY <1>11, <2>2, <3>1, NotDone DEF VerifiedDone
    <2>9. WorkThere'
      <3>1. CASE run.git = "recorded"
        <4>1. tree' = tree
          BY <1>7, <3>1 DEF TreeSafe
        <4>2. QED BY <1>1, <1>9, <1>11, <3>1, <4>1 DEF WorkThere, Joined
      <3>2. CASE run.git # "recorded"
        <4>1. tree' = [p \in Paths |-> IF p \in o[2] THEN By(s) ELSE tree[p]]
          BY <1>1, <3>2 DEF Written
        <4>2. CASE s \notin InFlight(t)
          <5>1. t[s].status = "failed" /\ run' = run
            BY <1>1, <1>8, <2>1, <4>2 DEF InFlight
          <5>2. Doomed(u)
            BY <1>1, <5>1 DEF Doomed
          <5>3. QED BY <1>9, <3>2, <5>2 DEF WorkThere, Doomed
        <4>3. CASE s \in InFlight(t)
          <5>1. t[s].status = "running" /\ Ended(run', run, s, o[1], o[2])
            BY <1>1, <1>8, <2>1, <4>3 DEF InFlight
          <5>2. u[s].status = o[1] /\ u[s].changed = o[2]
            BY <1>1, <1>2, <5>1 DEF Ended
          <5>3. CASE o[1] = "succeeded" /\ ~(o[2] \subseteq OwnedPaths[s])
            <6>1. Doomed(u)
              BY <1>1, <5>2, <5>3 DEF Doomed
            <6>2. QED BY <1>9, <3>2, <6>1 DEF WorkThere, Doomed
          <5>4. CASE o[2] \subseteq OwnedPaths[s]
            <6>1. Doomed(t) \/ \A x \in Subtasks : t[x].status = "succeeded" => Work(t, x, tree')
              <7> DEFINE c == o[2]
              <7>1. c \subseteq OwnedPaths[s] /\ tree' = [p \in Paths |-> IF p \in c THEN By(s) ELSE tree[p]]
                BY <4>1, <5>4
              <7>2. FanoutInv /\ Joined /\ s \in Subtasks /\ run.git # "recorded" /\ run.tasks[s].status # "succeeded"
                BY <1>1, <1>11, <3>2, <5>1 DEF Before
              <7> HIDE DEF c
              <7>3. QED BY <7>1, <7>2, WrittenInScope
            <6>2. Doomed(t) => Doomed(u)
              BY <2>4, <5>1 DEF Doomed
            <6>3. \A x \in Subtasks \ {s} : t[x].status = "succeeded" /\ Work(t, x, tree') => Work(u, x, tree')
              BY <2>4 DEF Work
            <6>4. Work(u, s, tree')
              BY <1>2, <4>1, <5>2 DEF Work
            <6>5. Doomed(u) \/ \A x \in Subtasks : u[x].status = "succeeded" => Work(u, x, tree')
              BY <2>4, <6>1, <6>2, <6>3, <6>4
            <6>6. QED BY <1>9, <3>2, <6>5 DEF WorkThere, Doomed, Work
          <5>5. QED BY <1>2, <5>3, <5>4
        <4>4. QED BY <4>2, <4>3
      <3>3. QED BY <3>1, <3>2
    <2>10. QED BY <2>5, <2>6, <2>7, <2>8, <2>9 DEF Joined
  <1>12. QED BY <1>1, <1>10, <1>11, Together DEF Before

\* The worker of a driver that died.
LEMMA OrphanKeepsWork ==
    ASSUME Before, NEW w \in live, OrphanEnds(w)
    PROVE  Kept
  <1> DEFINE s == w.sub
             t == run.tasks
  <1>1. /\ s \in Subtasks /\ run \in RunRec /\ run' = run /\ drv' = drv /\ repo' = repo
        /\ ResKept /\ PastKept /\ Settles(run, run) /\ run.git # "unknown" /\ run.retry # "verifying"
        /\ live' = live \ {w} /\ tree' = Written(w, OwnedPaths[s]) /\ OwnedPaths[s] \in SUBSET Paths
    BY ResStays, PastStays, RunStays DEF OrphanEnds, Before, FanoutInv, FanoutTypeOK, EditsInv, DriversWait, GitKept
  <1>2. JobsCalm /\ JobsFewer /\ Waits
    BY <1>1 DEF JobsCalm, JobsFewer, Calm, Waits, Before, EditsInv, DriversWait
  <1>3. WorkersFewer /\ TreeSafe
    BY <1>1, WrittenSafe DEF WorkersFewer, Before
  <1>4. EditsInv'
    BY <1>1, <1>2, <1>3, EditsQuiet DEF Before, PastKept
  <1>5. ASSUME ~past.lost, Claims, Joined PROVE Claims' /\ Joined'
    <2>1. Claims'
      BY <1>1, <1>2, <1>3, <1>5, ClaimsKept DEF Settles, Before
    <2>2. PendingDone' /\ CopiesRest'
      <3>1. run.git = "recorded" => tree' = tree
        BY <1>3 DEF TreeSafe
      <3>2. QED BY <1>1, <1>2, <1>5, <3>1, JobsKept DEF Settles, Before
    <2>3. t[s].status \in {"running", "failed"}
      BY <1>5 DEF Claims
    <2>4. VerifiedDone'
      <3>1. ~AllDone(t)
        BY <1>1, <2>3 DEF AllDone
      <3>2. QED BY <1>1, <1>5, <3>1, NotDone DEF VerifiedDone
    <2>5. WorkThere'
      <3>1. CASE run.git = "recorded"
        <4>1. tree' = tree
          BY <1>3, <3>1 DEF TreeSafe
        <4>2. QED BY <1>1, <1>5, <3>1, <4>1 DEF WorkThere, Joined
      <3>2. CASE run.git # "recorded"
        <4>1. tree' = [p \in Paths |-> IF p \in OwnedPaths[s] THEN By(s) ELSE tree[p]]
          BY <1>1, <3>2 DEF Written
        <4>2. Doomed(t) \/ \A x \in Subtasks : t[x].status = "succeeded" => Work(t, x, tree')
          <5> DEFINE c == OwnedPaths[s]
          <5>1. c \subseteq OwnedPaths[s] /\ tree' = [p \in Paths |-> IF p \in c THEN By(s) ELSE tree[p]]
            BY <4>1
          <5>2. FanoutInv /\ Joined /\ s \in Subtasks /\ run.git # "recorded" /\ run.tasks[s].status # "succeeded"
            BY <1>1, <1>5, <2>3, <3>2 DEF Before
          <5> HIDE DEF c
          <5>3. QED BY <5>1, <5>2, WrittenInScope
        <4>3. QED BY <1>1, <3>2, <4>2 DEF WorkThere, Doomed, Work
      <3>3. QED BY <3>1, <3>2
    <2>6. QED BY <2>1, <2>2, <2>4, <2>5 DEF Joined
  <1>6. QED BY <1>1, <1>4, <1>5, Together DEF Before
-----------------------------------------------------------------------------
(***************************************************************************)
(* Integration: copying, and the record of what was integrated             *)
(***************************************************************************)

\* A file that is copied is its subtask's, and dirty.
LEMMA CopyKeepsWork ==
    ASSUME Before, NEW d \in Drivers, NEW c \in drv[d].todo, Copy(d, c)
    PROVE  Kept
  <1> DEFINE z == drv[d].todo \ {c}
             j == [drv[d] EXCEPT !.todo = z]
             t == run.tasks
  <1>1. /\ drv[d].at = "copying" /\ UNCHANGED <<run, live, res, past>>
        /\ drv[d] \in Job /\ drv \in [Drivers -> Job] /\ drv[d].reason # "verifying"
        /\ run.git # "unknown" /\ ResKept /\ PastKept /\ Settles(run', run)
    BY GitKnown, ResStays, PastStays, RunStays DEF Copy, Before, FanoutInv, FanoutTypeOK, EditsInv, DriversWait
  <1>2. c[1] \in Paths /\ c[2] \in Subtasks /\ c = <<c[1], c[2]>>
    BY <1>1 DEF Job
  <1>3. drv' = [drv EXCEPT ![d] = j]
    BY <1>1 DEF Copy
  <1>4. j.mine = drv[d].mine /\ j.at = "copying" /\ j.reason = drv[d].reason /\ j.todo = z /\ j.snap = drv[d].snap
    BY <1>1 DEF Job
  <1> HIDE DEF j
  <1>5. run.git = "recorded" =>
            \A e \in Drivers : /\ drv[e].at = "looking" => LooksClean(drv[e], past.late)
                               /\ drv[e].at = "copying" => CopiesClean(drv[e], past.late)
    BY DEF Before, EditsInv, IntegratesClean
  <1>6. ~past.lost => \A e \in Drivers : drv[e].at = "copying" => PlanSound(drv[e], run, Taken(tree))
    BY DEF Before, WorkInv, CopiesRest
  <1>7. CASE run.git # "recorded"
    <2>1. tree' = tree /\ repo' = repo
      BY <1>7 DEF Copy
    <2>2. ~past.lost => PlanSound(j, run, Taken(tree))
      BY <1>1, <1>4, <1>6, <1>7 DEF PlanSound
    <2>3. Calm(j, drv[d])
      BY <1>1, <1>4, <1>7, <2>2 DEF Calm, HasRead, PlansNow
    <2>4. QED BY <1>1, <1>3, <1>4, <2>1, <2>3, DriverQuiet DEF Before
  <1>8. CASE run.git = "recorded"
    <2>1. tree' = [tree EXCEPT ![c[1]] = By(c[2])] /\ repo' = [repo EXCEPT !.dirty = repo.dirty \cup {c[1]}]
      BY <1>8 DEF Copy
    <2>2. /\ tree \in [Paths -> {Base, User} \cup {By(s) : s \in Subtasks}]
          /\ repo \in [dirty : SUBSET Paths, moved : BOOLEAN]
      BY DEF Before, EditsInv, FanoutShape
    <2>3. \A p \in Paths : tree'[p] = IF p = c[1] THEN By(c[2]) ELSE tree[p]
      BY <1>2, <2>1, <2>2
    <2>4. repo'.dirty = repo.dirty \cup {c[1]} /\ repo'.moved = repo.moved
      BY <2>1, <2>2
    <2>5. \A e \in Drivers : drv'[e] = IF e = d THEN j ELSE drv[e]
      BY <1>1, <1>3
    <2>6. EditsInv'
      <3>1. FanoutShape'
        <4>1. By(c[2]) \in {By(s) : s \in Subtasks}
          BY <1>2
        <4>2. tree' \in [Paths -> {Base, User} \cup {By(s) : s \in Subtasks}]
          BY <1>2, <2>1, <2>2, <4>1
        <4>3. repo' \in [dirty : SUBSET Paths, moved : BOOLEAN]
          BY <1>2, <2>1, <2>2
        <4>4. QED BY <1>1, <4>2, <4>3 DEF FanoutShape, PastKept
      <3>2. GitKept'
        BY <1>1 DEF GitKept, ResKept
      <3>3. EditsSeen'
        BY <2>3, <2>4, Owners DEF Before, EditsInv, EditsSeen
      <3>4. IntegratesClean'
        <4>1. ASSUME NEW e \in Drivers, drv'[e].at = "looking" PROVE LooksClean(drv[e], past.late)'
          <5>1. LooksClean(drv[e], past.late) /\ drv'[e] = drv[e]
            BY <1>4, <1>5, <1>8, <2>5, <4>1
          <5>2. QED BY <1>1, <2>3, <2>4, <5>1, Owners DEF LooksClean
        <4>2. ASSUME NEW e \in Drivers, drv'[e].at = "copying", NEW x \in drv'[e].todo, tree'[x[1]] = User
              PROVE  x[1] \in past'.late
          <5>1. drv[e].at = "copying" /\ x \in drv[e].todo
            BY <1>1, <1>4, <2>5, <4>2
          <5>2. x[1] \in Paths
            BY <1>1, <5>1 DEF Job
          <5>3. QED BY <1>1, <1>5, <1>8, <2>3, <4>2, <5>1, <5>2, Owners DEF CopiesClean
        <4>3. QED BY <1>1, <4>1, <4>2 DEF IntegratesClean, CopiesClean
      <3>5. DriversWait'
        BY <1>1, <1>4, <2>5 DEF Before, EditsInv, DriversWait
      <3>6. QED BY <3>1, <3>2, <3>3, <3>4, <3>5 DEF EditsInv
    <2>7. ASSUME ~past.lost, Claims, Joined PROVE Claims' /\ Joined'
      <3>1. drv[d].reason = "pending" /\ AllDone(t) /\ InScope(t) /\ c[1] \in t[c[2]].changed
        BY <1>1, <1>6, <2>7 DEF PlanSound
      <3>2. c[1] \in OwnedPaths[c[2]]
        BY <1>2, <3>1 DEF InScope
      <3>3. Taken(tree) \cup {c[1]} \subseteq Taken(tree')
        BY <1>2, <2>3, <3>2 DEF Taken
      <3>9. Claims'
        <4>1. Steady(run', run) /\ WorkersFewer /\ JobsFewer
          BY <1>1, <1>4, <2>5, WorkersStay DEF Settles, JobsFewer
        <4>2. QED BY <2>7, <4>1, ClaimsKept DEF Before
      <3>4. PendingDone'
        BY <1>1, <1>4, <2>5, <2>7 DEF Joined, PendingDone, HasRead, AllDone
      <3>5. CopiesRest'
        <4>1. ASSUME NEW e \in Drivers, drv'[e].at = "copying" PROVE PlanSound(drv'[e], run, Taken(tree'))
          <5>1. drv[e].at = "copying" /\ drv'[e].reason = drv[e].reason /\ PlanSound(drv[e], run, Taken(tree))
            BY <1>1, <1>4, <1>6, <2>5, <2>7, <4>1
          <5>2. drv'[e].todo \subseteq drv[e].todo /\ drv[e].todo \ {c} \subseteq drv'[e].todo
            BY <1>4, <2>5
          <5>3. CASE drv[e].reason # "pending"
            BY <5>1, <5>2, <5>3 DEF PlanSound
          <5>4. CASE drv[e].reason = "pending"
            <6>1. \A s \in Subtasks : \A p \in t[s].changed : <<p, s>> \in drv'[e].todo \/ p \in Taken(tree')
              <7>1. \A s \in Subtasks : \A p \in t[s].changed : <<p, s>> \in drv[e].todo \/ p \in Taken(tree)
                BY <1>8, <5>1, <5>4 DEF PlanSound
              <7>2. \A s \in Subtasks : \A p \in t[s].changed : <<p, s>> = c => p = c[1]
                BY <1>2
              <7>3. QED BY <3>3, <5>2, <7>1, <7>2
            <6>2. QED BY <5>1, <5>2, <5>4, <6>1 DEF PlanSound
          <5>5. QED BY <5>3, <5>4
        <4>2. QED BY <1>1, <4>1 DEF CopiesRest, PlanSound, AllDone, InScope
      <3>6. WorkThere'
        BY <1>1, <1>8, <2>4, <2>7, <3>3 DEF Joined, WorkThere
      <3>7. VerifiedDone'
        <4>1. ASSUME NEW s \in Subtasks, Work(t, s, tree) PROVE Work(t, s, tree')
          <5>1. ASSUME NEW p \in t[s].changed PROVE tree'[p] \in {By(s), User}
            <6>1. p \in OwnedPaths[s] /\ p \in Paths
              BY <3>1 DEF InScope
            <6>2. p = c[1] => s = c[2]
              BY <1>2, <3>2, <6>1
            <6>3. QED BY <2>3, <4>1, <5>1, <6>1, <6>2 DEF Work
          <5>2. QED BY <5>1 DEF Work
        <4>2. QED BY <1>1, <2>7, <4>1 DEF Joined, VerifiedDone, AllDone, InScope, Work
      <3>8. QED BY <3>9, <3>4, <3>5, <3>6, <3>7 DEF Joined
    <2>8. QED BY <1>1, <2>6, <2>7, Together DEF Before
  <1>9. QED BY <1>7, <1>8

\* Everything that was planned is copied, or was dirty: then it is the owner's, or the user's.
LEMMA PersistKeepsWork ==
    ASSUME Before, NEW d \in Drivers, Persist(d)
    PROVE  Kept
  <1> DEFINE t == run.tasks
  <1>1. /\ drv[d].at = "copying" /\ drv[d].todo = {} /\ UNCHANGED <<tree, repo, live, res, past>>
        /\ drv[d] \in Job /\ drv \in [Drivers -> Job] /\ run \in RunRec /\ run.retry # "verifying"
        /\ run.git # "unknown" /\ ResKept /\ PastKept /\ Settles(run, run)
    BY GitKnown, ResStays, PastStays, RunStays DEF Persist, Copied, Before, FanoutInv, FanoutTypeOK, EditsInv,
       DriversWait
  <1>2. CASE PausesFor(d, "driver-error") /\ run' = run
    BY <1>1, <1>2, RestsQuiet
  <1>3. CASE drv[d].reason = "pending" /\ run' = Integrated(run) /\ Rests(d)
    <2>1. /\ run'.tasks = t /\ run'.git = run.git /\ run'.retry = run.retry /\ run'.pending = FALSE
          /\ run'.stage = "verifying"
      BY <1>1, <1>3 DEF Integrated, RunRec
    <2>2. Follows(run', run) /\ Steady(run', run)
      BY <1>1, <2>1 DEF Follows, Steady
    <2>3. \A e \in Drivers : drv'[e] = IF e = d THEN Idle ELSE drv[e]
      BY <1>1, <1>3 DEF Rests
    <2>4. JobsCalm
      <3>1. "idle" \in Words \ {"joining", "looking", "copying"}
        BY DEF Words
      <3>2. Calm(Idle, drv[d]) /\ \A e \in Drivers : Calm(drv[e], drv[e])
        BY <3>1, RestCalm DEF Calm, HasRead, Before, EditsInv, DriversWait
      <3>3. QED BY <2>3, <3>2 DEF JobsCalm
    <2>5. Waits
      BY <1>1, <2>3 DEF Waits, Before, EditsInv, DriversWait
    <2>6. JobsFewer
      <3>1. Idle.mine = {}
        BY DEF Idle
      <3>2. QED BY <2>3, <3>1 DEF JobsFewer
    <2>7. EditsInv'
      BY <1>1, <2>1, <2>4, <2>5, EditsQuiet, TreeStays DEF Before, PastKept
    <2>8. ASSUME ~past.lost, Claims, Joined PROVE Claims' /\ Joined'
      <3>1. Claims'
        BY <1>1, <2>2, <2>6, <2>8, WorkersStay, ClaimsKept DEF Before
      <3>2. PendingDone' /\ CopiesRest'
        BY <1>1, <2>2, <2>4, <2>8, JobsKept DEF Before
      <3>3. WorkThere'
        BY <1>1, <2>2, <2>8, WorkKept
      <3>4. PlanSound(drv[d], run, Taken(tree))
        BY <1>1, <2>8 DEF Joined, CopiesRest
      <3>5. /\ AllDone(t) /\ InScope(t)
            /\ run.git = "recorded" => \A s \in Subtasks : \A p \in t[s].changed : p \in Taken(tree)
        BY <1>1, <1>3, <3>4 DEF PlanSound
      <3>6. \A s \in Subtasks : Work(t, s, tree)
        <4>1. CASE run.git = "recorded"
          <5>1. ASSUME NEW s \in Subtasks, NEW p \in t[s].changed PROVE tree[p] \in {By(s), User}
            <6>1. p \in OwnedPaths[s] /\ p \in Taken(tree)
              BY <3>5, <4>1 DEF InScope
            <6>2. tree[p] = User \/ \E u \in Subtasks : p \in OwnedPaths[u] /\ tree[p] = By(u)
              BY <6>1 DEF Taken
            <6>3. \A u \in Subtasks : p \in OwnedPaths[u] => u = s
              BY <6>1
            <6>4. QED BY <6>2, <6>3
          <5>2. QED BY <5>1 DEF Work
        <4>2. CASE run.git # "recorded"
          <5>1. ~Doomed(t)
            BY <3>5 DEF Doomed, AllDone, InScope
          <5>2. QED BY <2>8, <3>5, <4>2, <5>1 DEF Joined, WorkThere, AllDone
        <4>3. QED BY <4>1, <4>2
      <3>7. VerifiedDone'
        BY <1>1, <2>1, <3>5, <3>6 DEF VerifiedDone, AllDone, InScope, Work
      <3>8. QED BY <3>1, <3>2, <3>3, <3>7 DEF Joined
    <2>9. QED BY <1>1, <2>7, <2>8, Together DEF Before
  <1>4. CASE /\ run' = [Paused(run, IntegrationPause(drv[d].reason))
                          EXCEPT !.integration = drv[d].reason, !.pending = FALSE,
                                 !.paused = IntegrationPause(drv[d].reason)]
             /\ Rests(d)
    <2> DEFINE why == IntegrationPause(drv[d].reason)
               p == Paused(run, why)
    <2>1. why \in Words \ {"verifying"}
      BY DEF IntegrationPause, Words
    <2> HIDE DEF why
    <2>2. Settles(p, run) /\ p.tasks = t
      BY <1>1, <2>1, PausedSettles
    <2>3. p \in RunRec
      BY <1>1, <2>1, PausedFewer DEF Fewer
    <2>4. run' = [p EXCEPT !.integration = drv[d].reason, !.pending = FALSE, !.paused = why]
      BY <1>4 DEF why
    <2> HIDE DEF p
    <2>5. /\ run'.git = p.git /\ run'.retry = p.retry /\ run'.pending = FALSE /\ run'.stage = p.stage
          /\ run'.tasks = p.tasks
      BY <2>3, <2>4 DEF RunRec
    <2>6. Settles(run', run)
      BY <2>2, <2>5 DEF Settles, Follows, NotVerifying, Steady
    <2>7. QED BY <1>1, <1>4, <2>6, RestsQuiet
  <1>5. QED BY <1>2, <1>3, <1>4 DEF Persist
-----------------------------------------------------------------------------
(***************************************************************************)
(* The user, verification, and a resume                                    *)
(***************************************************************************)

\* Also while a driver integrates, which may not know of it.
LEMMA UserEditsKeepsWork ==
    ASSUME Before, NEW q \in Paths, UserEdits(q)
    PROVE  Kept
  <1> DEFINE t == run.tasks
  <1>1. /\ UNCHANGED <<run, live, drv, res>>
        /\ tree' = [tree EXCEPT ![q] = User] /\ repo' = [repo EXCEPT !.dirty = repo.dirty \cup {q}]
        /\ tree \in [Paths -> {Base, User} \cup {By(s) : s \in Subtasks}]
        /\ repo \in [dirty : SUBSET Paths, moved : BOOLEAN]
        /\ past.late \cup {q} \in SUBSET Paths
    BY DEF UserEdits, Before, EditsInv, FanoutShape
  <1>2. \A p \in Paths : tree'[p] = IF p = q THEN User ELSE tree[p]
    BY <1>1
  <1>3. repo'.dirty = repo.dirty \cup {q} /\ repo'.moved = repo.moved /\ repo.dirty \subseteq Paths
    BY <1>1
  <1>4. PastKept /\ past'.late = past.late \cup {q}
    BY <1>1, FaultKeeps DEF UserEdits, Before
  <1>5. Taken(tree) \cup {q} \subseteq Taken(tree')
    BY <1>2 DEF Taken
  <1>6. EditsInv'
    <2>1. FanoutShape'
      BY <1>1, <1>4 DEF FanoutShape, PastKept
    <2>2. GitKept'
      BY <1>1, <1>2, <1>3 DEF Before, EditsInv, GitKept
    <2>3. EditsSeen'
      BY <1>2, <1>3 DEF Before, EditsInv, EditsSeen
    <2>4. IntegratesClean'
      <3> SUFFICES ASSUME run.git = "recorded", NEW d \in Drivers
                   PROVE  /\ drv[d].at = "looking" => LooksClean(drv[d], past.late)'
                          /\ drv[d].at = "copying" => CopiesClean(drv[d], past.late)'
        BY <1>1 DEF IntegratesClean, LooksClean, CopiesClean
      <3>1. drv[d].at = "looking" => LooksClean(drv[d], past.late)'
        BY <1>1, <1>2, <1>3, <1>4 DEF Before, EditsInv, IntegratesClean, LooksClean
      <3>2. drv[d].at = "copying" => CopiesClean(drv[d], past.late)'
        <4>1. \A c \in drv[d].todo : c[1] \in Paths
          BY DEF Before, FanoutInv, FanoutTypeOK, Job
        <4>2. QED BY <1>1, <1>2, <1>4, <4>1 DEF Before, EditsInv, IntegratesClean, CopiesClean
      <3>3. QED BY <3>1, <3>2
    <2>5. DriversWait'
      BY <1>1 DEF DriversWait, Before, EditsInv
    <2>6. QED BY <2>1, <2>2, <2>3, <2>4, <2>5 DEF EditsInv
  <1>7. ASSUME ~past.lost, Claims, Joined PROVE Claims' /\ Joined'
    <2>1. Claims'
      BY <1>1, <1>7 DEF Claims
    <2>2. PendingDone'
      BY <1>1, <1>7 DEF Joined, PendingDone, AllDone, HasRead
    <2>3. CopiesRest'
      BY <1>1, <1>5, <1>7 DEF Joined, CopiesRest, PlanSound, AllDone, InScope
    <2>4. ASSUME NEW s \in Subtasks, Work(t, s, tree) PROVE Work(t, s, tree')
      <3>1. t[s].changed \subseteq Paths
        BY DEF Before, FanoutInv, FanoutTypeOK, RunRec, Task
      <3>2. QED BY <1>2, <2>4, <3>1 DEF Work
    <2>5. WorkThere'
      <3>1. CASE run.git = "recorded"
        BY <1>1, <1>3, <1>5, <1>7, <3>1 DEF Joined, WorkThere
      <3>2. CASE run.git # "recorded"
        <4>1. Doomed(t) \/ \A s \in Subtasks : t[s].status = "succeeded" => Work(t, s, tree')
          BY <1>7, <2>4, <3>2 DEF Joined, WorkThere
        <4>2. QED BY <1>1, <3>2, <4>1 DEF WorkThere, Doomed, Work
      <3>3. QED BY <3>1, <3>2
    <2>6. VerifiedDone'
      BY <1>1, <1>7, <2>4 DEF Joined, VerifiedDone, AllDone, InScope, Work
    <2>7. QED BY <2>1, <2>2, <2>3, <2>5, <2>6 DEF Joined
  <1>8. QED BY <1>1, <1>4, <1>6, <1>7, Together DEF Before

\* What the user commits is not dirty any more, and the HEAD a driver has read not the one there is.
LEMMA UserCommitsKeepsWork ==
    ASSUME Before, NEW c \in SUBSET repo.dirty, UserCommits(c)
    PROVE  Kept
  <1>1. /\ UNCHANGED <<run, live, drv, res, tree>> /\ run.git = "recorded"
        /\ repo \in [dirty : SUBSET Paths, moved : BOOLEAN] /\ past.late \cup c \in SUBSET Paths
    BY DEF UserCommits, Before, EditsInv, FanoutShape
  <1>2. /\ repo'.dirty = repo.dirty \ c /\ repo'.moved = TRUE
        /\ repo' \in [dirty : SUBSET Paths, moved : BOOLEAN]
    BY <1>1 DEF UserCommits
  <1>3. PastKept /\ past'.late = past.late \cup c
    BY <1>1, FaultKeeps DEF UserCommits, Before
  <1>4. EditsInv'
    <2>1. FanoutShape'
      BY <1>1, <1>2, <1>3 DEF FanoutShape, PastKept, Before, EditsInv
    <2>2. GitKept'
      BY <1>1 DEF Before, EditsInv, GitKept
    <2>3. EditsSeen'
      BY <1>2 DEF EditsSeen
    <2>4. IntegratesClean'
      BY <1>1, <1>2, <1>3 DEF IntegratesClean, LooksClean, CopiesClean, Before, EditsInv
    <2>5. DriversWait'
      BY <1>1 DEF DriversWait, Before, EditsInv
    <2>6. QED BY <2>1, <2>2, <2>3, <2>4, <2>5 DEF EditsInv
  <1>5. ASSUME ~past.lost, Claims, Joined PROVE Claims' /\ Joined'
    <2>1. Claims'
      BY <1>1, <1>5 DEF Claims
    <2>2. PendingDone' /\ CopiesRest'
      BY <1>1, <1>5 DEF Joined, PendingDone, HasRead, CopiesRest, PlanSound, Taken, AllDone, InScope
    <2>3. WorkThere' /\ VerifiedDone'
      BY <1>1, <1>2, <1>5 DEF Joined, WorkThere, Taken, VerifiedDone, AllDone, InScope, Work
    <2>4. QED BY <2>1, <2>2, <2>3 DEF Joined
  <1>6. QED BY <1>1, <1>3, <1>4, <1>5, Together DEF Before

LEMMA JobsStay ==
    ASSUME EditsInv, drv' = drv, live' = live
    PROVE  JobsCalm /\ JobsFewer /\ Waits /\ WorkersFewer
  <1>1. JobsCalm
    BY DEF JobsCalm, Calm, EditsInv, DriversWait
  <1>2. JobsFewer /\ Waits /\ WorkersFewer
    BY DEF JobsFewer, Waits, WorkersFewer, EditsInv, DriversWait
  <1>3. QED BY <1>1, <1>2

LEMMA VerifyKeepsWork ==
    ASSUME Before, NEW ok \in BOOLEAN, Verify(ok)
    PROVE  Kept
  <1>1. /\ UNCHANGED <<tree, repo, live, drv, res, past>> /\ run \in RunRec /\ ResKept /\ PastKept
        /\ Settles(run, run) /\ run.retry # "verifying" /\ run.stage = "verifying"
    BY ResStays, PastStays, RunStays DEF Verify, Before, FanoutInv, FanoutTypeOK, EditsInv, DriversWait
  <1>2. run.git # "unknown"
    BY <1>1 DEF Before, EditsInv, GitKept
  <1>3. Settles(run', run)
    BY <1>1 DEF Verify, RunRec, Settles, Follows, NotVerifying, Steady
  <1>4. QED BY <1>1, <1>2, <1>3, JobsStay, Quiet DEF Before

LEMMA ResumeReadsKeepsWork ==
    ASSUME Before, ResumeReads
    PROVE  Kept
  <1>1. /\ UNCHANGED <<run, tree, repo, live, drv, past>> /\ PastKept
        /\ Settles(run', run) /\ run.retry # "verifying" /\ run.stage # "implementing" /\ res' = {run}
    BY PastStays, RunStays DEF ResumeReads, Before, EditsInv, DriversWait
  <1>2. run.git # "unknown"
    BY <1>1 DEF Before, EditsInv, GitKept
  <1>3. ResKept
    BY <1>1 DEF ResKept
  <1>4. QED BY <1>1, <1>2, <1>3, JobsStay, Quiet DEF Before

LEMMA ResumedSettles ==
    ASSUME NEW r \in RunRec, r.retry # "verifying"
    PROVE  Settles(Resumed(r), r) /\ Resumed(r).retry = r.retry /\ Resumed(r).git = r.git
  <1> DEFINE t == [s \in Subtasks |-> IF r.tasks[s].status = "timed-out" THEN Unstarted ELSE r.tasks[s]]
             q == [r EXCEPT !.stage = "implementing"]
             p == [r EXCEPT !.stage = r.retry, !.paused = "", !.tasks = t]
  <1>1. CASE r.stage = "implementer-failed"
    <2>1. Resumed(r) = q
      BY <1>1 DEF Resumed
    <2>2. q.tasks = r.tasks /\ q.git = r.git /\ q.retry = r.retry /\ q.pending = r.pending /\ q.stage = "implementing"
      BY DEF RunRec
    <2> HIDE DEF q
    <2>3. QED BY <2>1, <2>2 DEF Settles, Follows, NotVerifying, Steady
  <1>2. CASE r.stage # "implementer-failed"
    <2>1. Resumed(r) = p
      BY <1>2 DEF Resumed, RunRec
    <2>2. \A s \in Subtasks : \/ t[s] = r.tasks[s]
                              \/ r.tasks[s].status = "timed-out" /\ t[s].status = "pending"
      BY DEF Unstarted
    <2> HIDE DEF t
    <2>3. p.tasks = t /\ p.git = r.git /\ p.retry = r.retry /\ p.pending = r.pending /\ p.stage = r.retry
      BY DEF RunRec
    <2> HIDE DEF p
    <2>4. QED BY <2>1, <2>2, <2>3 DEF Settles, Follows, NotVerifying, Steady
  <1>3. QED BY <1>1, <1>2

\* What it read may be older than the run: that is the loss the history records.
LEMMA ResumeWritesKeepsWork ==
    ASSUME Before, ResumeWrites
    PROVE  Kept
  <1>1. PICK r \in res : run' = Resumed(r) /\ past' = [past EXCEPT !.lost = past.lost \/ r # run]
    BY DEF ResumeWrites
  <1>2. /\ UNCHANGED <<tree, repo, live, drv>> /\ res' = {} /\ ResKept
        /\ r \in RunRec /\ run \in RunRec /\ r.git = run.git /\ r.retry # "verifying" /\ run.git # "unknown"
        /\ past \in [lost : BOOLEAN, late : SUBSET Paths, faults : Nat]
    BY DEF ResumeWrites, ResKept, Before, FanoutInv, FanoutTypeOK, EditsInv, FanoutShape, GitKept, DriversWait
  <1>3. /\ past' \in [lost : BOOLEAN, late : SUBSET Paths, faults : Nat] /\ LatesKept
        /\ past'.lost = (past.lost \/ r # run)
    <2> DEFINE b == past.lost \/ r # run
    <2>1. b \in BOOLEAN /\ past' = [past EXCEPT !.lost = b]
      BY <1>1
    <2> HIDE DEF b
    <2>2. past' \in [lost : BOOLEAN, late : SUBSET Paths, faults : Nat] /\ past'.lost = b /\ LatesKept
      BY <1>2, <2>1 DEF LatesKept
    <2>3. QED BY <2>2 DEF b
  <1>4. Settles(run', r) /\ run'.retry # "verifying" /\ run'.git = run.git
    BY <1>1, <1>2, ResumedSettles
  <1>5. JobsCalm /\ JobsFewer /\ Waits /\ WorkersFewer
    BY <1>2, JobsStay DEF Before
  <1>6. CASE r = run
    BY <1>2, <1>3, <1>4, <1>5, <1>6, Quiet DEF Before, PastKept
  <1>7. CASE r # run
    <2>1. EditsInv'
      BY <1>2, <1>3, <1>4, <1>5, EditsQuiet, TreeStays DEF Before
    <2>2. QED BY <1>3, <1>7, <2>1 DEF Kept, WorkInv
  <1>8. QED BY <1>6, <1>7
-----------------------------------------------------------------------------
LEMMA WorkStart == FanoutInit => EditsInv /\ WorkInv
  <1> SUFFICES ASSUME FanoutInit PROVE EditsInv /\ WorkInv
    OBVIOUS
  <1>1. /\ tree = [p \in Paths |-> Base] /\ repo = [dirty |-> {}, moved |-> FALSE]
        /\ live = {} /\ drv = [d \in Drivers |-> Idle] /\ res = {}
    BY DEF FanoutInit
  <1>2. /\ run.git = "unknown" /\ run.stage = "implementing" /\ run.pending = FALSE /\ run.retry = ""
        /\ \A s \in Subtasks : run.tasks[s] = Unstarted
    BY DEF FanoutInit
  <1>3. Idle.at = "idle" /\ Idle.mine = {} /\ Idle.reason = ""
    BY DEF Idle
  <1>4. EditsInv
    <2>1. past \in [lost : BOOLEAN, late : SUBSET Paths, faults : Nat]
      BY DEF FanoutInit, NoPast
    <2>2. FanoutShape
      BY <1>1, <2>1 DEF FanoutShape
    <2>3. GitKept
      BY <1>1, <1>2 DEF GitKept
    <2>4. EditsSeen
      BY <1>1, Owners DEF EditsSeen
    <2>5. IntegratesClean /\ DriversWait
      BY <1>1, <1>2, <1>3 DEF IntegratesClean, DriversWait
    <2>6. QED BY <2>2, <2>3, <2>4, <2>5 DEF EditsInv
  <1>5. Claims
    BY <1>1, <1>3 DEF Claims
  <1>6. PendingDone /\ CopiesRest
    BY <1>1, <1>2, <1>3 DEF PendingDone, HasRead, CopiesRest
  <1>7. WorkThere
    <2>1. Unstarted.status # "succeeded"
      BY DEF Unstarted
    <2>2. QED BY <1>1, <1>2, <2>1 DEF WorkThere
  <1>8. VerifiedDone
    BY <1>2 DEF VerifiedDone
  <1>9. QED BY <1>4, <1>5, <1>6, <1>7, <1>8 DEF WorkInv

LEMMA WorkStep == FanoutInv /\ FanoutInv' /\ EditsInv /\ WorkInv /\ [FanoutNext]_fanoutVars => EditsInv' /\ WorkInv'
  <1> SUFFICES ASSUME Before, [FanoutNext]_fanoutVars PROVE Kept
    BY DEF Before, Kept
  <1>1. CASE UNCHANGED fanoutVars
    <2>1. EditsInv'
      BY <1>1 DEF fanoutVars, Before, EditsInv, FanoutShape, GitKept, EditsSeen, IntegratesClean, LooksClean,
         CopiesClean, DriversWait
    <2>2. WorkInv'
      <3>1. ASSUME Claims PROVE Claims'
        BY <1>1, <3>1 DEF fanoutVars, Claims
      <3>2. ASSUME PendingDone PROVE PendingDone'
        BY <1>1, <3>2 DEF fanoutVars, PendingDone, HasRead, AllDone
      <3>3. ASSUME CopiesRest PROVE CopiesRest'
        BY <1>1, <3>3 DEF fanoutVars, CopiesRest, PlanSound, Taken, AllDone, InScope
      <3>4. ASSUME WorkThere PROVE WorkThere'
        BY <1>1, <3>4 DEF fanoutVars, WorkThere, Taken, Doomed, Work
      <3>5. ASSUME VerifiedDone PROVE VerifiedDone'
        BY <1>1, <3>5 DEF fanoutVars, VerifiedDone, AllDone, InScope, Work
      <3>6. QED BY <1>1, <3>1, <3>2, <3>3, <3>4, <3>5 DEF fanoutVars, Before, WorkInv
    <2>3. QED BY <2>1, <2>2 DEF Kept
  <1>2. ASSUME NEW d \in Drivers, DriverStep(d) PROVE Kept
    <2>1. drv[d].ready \subseteq Subtasks
      BY DEF Before, FanoutInv, FanoutTypeOK, Job
    <2>2. QED BY <1>2, <2>1, ObserveKeepsWork, ReconcileQuiet, AdmitQuiet, PauseQuiet, RefusedQuiet,
                 ReserveKeepsWork, StartKeepsWork, JoinQuiet, LookAtHeadQuiet, CollectQuiet, CopyKeepsWork, CopyFailsQuiet,
                 PersistKeepsWork DEF DriverStep
  <1>3. ASSUME NEW d \in Drivers, WorkerStep(d) PROVE Kept
    BY <1>3, DropQuiet, AnswerKeepsWork DEF WorkerStep
  <1>4. QED BY <1>1, <1>2, <1>3, LeaveQuiet, OrphanKeepsWork, UserEditsKeepsWork, UserCommitsKeepsWork,
               VerifyKeepsWork, ResumeReadsKeepsWork, ResumeWritesKeepsWork DEF FanoutNext

LEMMA WorkInvariant == FanoutSpec => [](FanoutInv /\ EditsInv /\ WorkInv)
  BY FanoutStart, FanoutStep, WorkStart, WorkStep, PTL DEF FanoutSpec

\* Drivers that die and resume, MarkRunning whose error is ignored: whatever drivers do, a
\* subtask has one worker, a driver that reserved it or one that another driver gave up.
THEOREM OneWorkerEach == FanoutSpec => []OneWorker
  <1>1. WorkInv => OneWorker
    BY DEF WorkInv, Claims, OneWorker
  <1>2. QED BY WorkInvariant, <1>1, PTL

\* persistIntegration: the candidate that goes to verification has the work of every subtask,
\* however drivers, the user and workers of dead drivers took turns before.
THEOREM VerifiedIsComplete == FanoutSpec => []VerifiedComplete
  <1>1. WorkInv => VerifiedComplete
    BY DEF WorkInv, VerifiedDone, Work, VerifiedComplete
  <1>2. QED BY WorkInvariant, <1>1, PTL

\* PlanIntegration looks at the project, and Copy writes later, while the user may edit and
\* commit: what the user had in a repository before the integration looked at it stays, if git
\* told of it, also when a resume has given back what was done.
THEOREM EditsAreKept == FanoutSpec => EditsKept
  <1> DEFINE Stays == \A p \in Paths : tree[p] = User /\ run.git = "recorded" => tree'[p] = User \/ p \in past.late
  <1>1. FanoutInv /\ EditsInv /\ [FanoutNext]_fanoutVars => [Stays]_fanoutVars
    <2> SUFFICES ASSUME FanoutInv, EditsInv, FanoutNext, run.git = "recorded" PROVE Stays
      BY DEF Stays
    <2>1. tree' = tree => Stays
      OBVIOUS
    <2>2. tree \in [Paths -> {Base, User} \cup {By(s) : s \in Subtasks}]
      BY DEF EditsInv, FanoutShape
    <2>3. ASSUME NEW d \in Drivers, NEW c \in drv[d].todo, Copy(d, c) PROVE Stays
      <3>1. tree[c[1]] = User => c[1] \in past.late
        BY <2>3 DEF Copy, EditsInv, IntegratesClean, CopiesClean
      <3>2. c[1] \in Paths
        BY DEF FanoutInv, FanoutTypeOK, Job
      <3>3. tree' = [tree EXCEPT ![c[1]] = By(c[2])]
        BY <2>3 DEF Copy
      <3>4. QED BY <2>2, <3>1, <3>2, <3>3
    <2>4. ASSUME NEW d \in Drivers, DriverStep(d), ~\E c \in drv[d].todo : Copy(d, c) PROVE tree' = tree
      BY <2>4 DEF DriverStep, Observe, Reconcile, Admit, PauseFanout, StopAdmitting, WorktreeFails, BudgetRefuses,
         Reserve, Start, Join, LookAtHead, Collect, CopyFails, Persist
    <2>5. ASSUME NEW d \in Drivers, WorkerStep(d) PROVE tree' = tree
      BY <2>5 DEF WorkerStep, Drop, Answer, Written
    <2>6. ASSUME NEW q \in Paths, UserEdits(q) PROVE Stays
      BY <2>2, <2>6 DEF UserEdits
    <2>7. CASE (\E c \in SUBSET repo.dirty : UserCommits(c)) \/ ResumeReads \/ ResumeWrites \/ \E ok \in BOOLEAN : Verify(ok)
      BY <2>7 DEF UserCommits, ResumeReads, ResumeWrites, Verify
    <2>8. CASE (\E d \in Drivers : Leave(d)) \/ \E w \in live : OrphanEnds(w)
      BY <2>8 DEF Leave, OrphanEnds, Written
    <2> HIDE DEF Stays
    <2>9. QED BY <2>1, <2>3, <2>4, <2>5, <2>6, <2>7, <2>8 DEF FanoutNext
  <1>2. QED BY WorkInvariant, <1>1, PTL DEF FanoutSpec, EditsKept
=============================================================================
