----------------------------- MODULE TreeBudget -----------------------------
(***************************************************************************)
(* The budget of a tree of runs (internal/sdlc/ledger/budget.go and its    *)
(* callers in cmd/jevkit/sdlc): one ledger under the root, updated under   *)
(* its own lock by every driver and host of the tree.  Each update is one  *)
(* action.  The driver that holds an invocation beats to keep the time it  *)
(* works charged; a crashed one stops.                                     *)
(*                                                                         *)
(* Time is counted in whole units of the clock, which never goes back.     *)
(* A driver that executes several reviews at once is several drivers here. *)
(***************************************************************************)
EXTENDS Integers, FiniteSets, Functions

CONSTANTS
    Drivers,       \* executions of an invocation
    Ids,           \* reservations: invocations, children, transitions
    KindOf,        \* [Ids -> Kinds]: what each is reserved as
    HostIds,       \* the invocations a host executes itself
    InitialLimits, \* [Keys -> Nat], 0: unlimited
    Grants,        \* extensions an operator may give
    MaxLimit,      \* bound of this instance on extended limits
    MaxNow,        \* bound of this instance on the clock
    MaxCrashes,    \* bound of this instance on crashes
    MaxCost,       \* bound of this instance on the cost an invocation reports
    Lease,         \* how long a beat lasts: 15 s in the code
    Invocation,    \* InvocationSeconds
    None,
    Gone,          \* the owner of a dead driver's activity: owners are never reused
    Events         \* the events of this instance, see AllEvents

AllEvents ==
    {"crash", \* a driver dies while its worker runs
     "early", \* a driver dies between reserving and launching
     "race"}  \* several drivers launch what a run has pending

Keys  == {"assignments", "revisions", "children", "steps", "seconds", "cost"}
Kinds == {"assignment", "revision", "fanout", "child", "step", "work"}

\* Limits of seconds and cost may be overshot by what was admitted.
Counted == {"assignments", "revisions", "children", "steps"}
\* Limits that enrollment requires to be positive.
AlwaysLimited == {"assignments", "revisions", "children", "seconds"}

ASSUME BudgetConstants ==
    /\ IsFiniteSet(Ids)
    /\ KindOf \in [Ids -> Kinds \ {"work"}]
    /\ HostIds \subseteq Ids
    /\ InitialLimits \in [Keys -> Nat]
    /\ \A k \in AlwaysLimited : InitialLimits[k] > 0
    /\ Grants \subseteq [Keys -> Nat]
    /\ MaxLimit \in Nat /\ MaxNow \in Nat /\ MaxCrashes \in Nat /\ MaxCost \in Nat
    /\ Lease \in Nat \ {0} /\ Invocation \in Nat \ {0}
    /\ Events \subseteq AllEvents
    /\ None \notin Drivers /\ Gone \notin Drivers /\ None # Gone

Owner    == Drivers \cup {Gone, None}
Activity == [id : Ids, owner : Owner, seen : Nat, until : Nat, host : BOOLEAN]
Idle     == [at |-> "idle", id |-> None]
Job      == {Idle} \cup [at : {"admitted", "working"}, id : Ids]

VARIABLES
    b,       \* budget.json
    now,     \* the clock
    pending, \* the assignments the runs of the tree record
    job,     \* what each driver is at
    worked,  \* history: units of time in which somebody was at work
    crashes, \* history: drivers that died while their worker ran
    early,   \* history: drivers that died before they launched it
    paid     \* history: accepted candidates, each paid for by a revision

vars == <<b, now, pending, job, worked, crashes, early, paid>>

Budget ==
    [limits : [Keys -> Nat], usage : [Keys -> Nat],
     reserved : SUBSET Ids, completed : SUBSET Ids,  \* Reservations
     charged : [Ids -> Nat],                         \* Reservation.CostUSD
     activities : SUBSET Activity,                   \* Activities, one of each id
     checkpoint : Nat]

BudgetTypeOK ==
    /\ b \in Budget
    /\ now \in Nat /\ worked \in Nat /\ crashes \in Nat /\ early \in Nat
    /\ pending \subseteq Ids /\ paid \subseteq Ids
    /\ job \in [Drivers -> Job]

NewBudget ==
    [limits |-> InitialLimits, usage |-> [k \in Keys |-> 0],
     reserved |-> {}, completed |-> {}, charged |-> [i \in Ids |-> 0],
     activities |-> {}, checkpoint |-> 0]

\* initialBudget, for a root that starts with its defaults saved: nothing used.
Init ==
    /\ b = NewBudget /\ now = 0 /\ pending = {}
    /\ job = [d \in Drivers |-> Idle]
    /\ worked = 0 /\ crashes = 0 /\ early = 0 /\ paid = {}
-----------------------------------------------------------------------------
(***************************************************************************)
(* The ledger                                                              *)
(***************************************************************************)

\* Mutant of CountsUntil: a driver that died is charged until somebody looks.
CountsOn(a, t) == IF t <= a.until \/ ~a.host THEN t ELSE a.until

\* Until when an activity counts at time t: a beat that stopped counts to the
\* last beat seen, an invocation of a host to its expiry.
CountsUntil(a, t) == IF t <= a.until THEN t ELSE IF a.host THEN a.until ELSE a.seen

\* The units since the checkpoint in which some activity was going on.  All of
\* them begin at the checkpoint, so that the code adds the latest end.
ActiveUnits(c, t) ==
    {u \in c.checkpoint .. t - 1 : \E a \in c.activities : u < CountsUntil(a, t)}

\* Mutant of Tick: every activity is charged by itself.
TickEach(c, t) ==
    [c EXCEPT !.usage["seconds"] =
                  @ + Cardinality(c.activities) * Cardinality(ActiveUnits(c, t)),
              !.checkpoint = t,
              !.activities = {a \in @ : t <= a.until}]

\* Tick
Tick(c, t) ==
    [c EXCEPT !.usage["seconds"] = @ + Cardinality(ActiveUnits(c, t)),
              !.checkpoint = t,
              !.activities = {a \in @ : t <= a.until}]

TakesRevision == {i \in Ids : KindOf[i] \in {"revision", "fanout"}}
Assignments   == {i \in Ids : KindOf[i] \in {"assignment", "revision", "fanout"}}

\* Mutant of Held: an admitted candidate counts once it is accepted.
HeldNothing(c) == c.reserved \cap {}

\* ReservedRevisions: the candidates that admitted work may still bring.
Held(c) == (c.reserved \ c.completed) \cap TakesRevision

\* What admission compares with a limit.
Used(c, k) == c.usage[k] + IF k = "revisions" THEN Cardinality(Held(c)) ELSE 0

Consulted(kind) ==
    {"seconds", "cost"}
    \cup CASE kind = "assignment" -> {"assignments"}
           [] kind = "revision"   -> {"assignments", "revisions"}
           [] kind = "fanout"     -> {"assignments", "revisions", "children"}
           [] kind = "child"      -> {"children"}
           [] kind = "step"       -> {"steps"}
           [] kind = "work"       -> {}

Blockers(c, kind) ==
    {k \in Consulted(kind) : c.limits[k] > 0 /\ Used(c, k) >= c.limits[k]}

\* What a reservation charges at once; a revision is charged when it is made.
Charges(kind) == Consulted(kind) \ {"seconds", "cost", "revisions"}

\* Mutant of Reserved: charging again what was charged before.
ReservedAnew(c, i) ==
    [c EXCEPT !.usage = [k \in Keys |-> @[k] + IF k \in Charges(KindOf[i]) THEN 1 ELSE 0],
              !.reserved = @ \cup {i},
              !.completed = IF i \in Assignments THEN @ ELSE @ \cup {i}]

\* Reserve, once admitted: nothing for what is reserved already.
Reserved(c, i) ==
    IF i \in c.reserved THEN c
    ELSE [c EXCEPT !.usage = [k \in Keys |-> @[k] + IF k \in Charges(KindOf[i]) THEN 1 ELSE 0],
                   !.reserved = @ \cup {i},
                   !.completed = IF i \in Assignments THEN @ ELSE @ \cup {i}]

\* reserveAssignment: the time from the reservation on is charged like a
\* host's, until a driver beats for it.
Dispatched(c, i) ==
    LET r == Reserved(c, i)
    IN [r EXCEPT !.activities = @ \cup
          {[id |-> i, owner |-> None, seen |-> now, until |-> now + Invocation, host |-> TRUE]}]

Without(activities, i) == {a \in activities : a.id # i}

\* What a report of cost adds to what was charged for i before.
Extra(c, i, cost) == IF cost > c.charged[i] THEN cost - c.charged[i] ELSE 0

\* Mutant of Costed: the total grows by the whole report.
CostedInFull(c, i, cost) ==
    [c EXCEPT !.usage = [k \in Keys |-> @[k] + IF k = "cost" THEN cost ELSE 0],
              !.charged[i] = @ + Extra(c, i, cost)]

\* Usage reported before the result, or with it.
Costed(c, i, cost) ==
    [c EXCEPT !.usage = [k \in Keys |-> @[k] + IF k = "cost" THEN Extra(c, i, cost) ELSE 0],
              !.charged[i] = @ + Extra(c, i, cost)]

\* Mutant of Made: a revision that was not made is given back, though it was
\* not charged.
MadeOrReturned(c, i, changed) ==
    IF i \in c.completed THEN 0
    ELSE IF changed THEN 1 ELSE IF i \in TakesRevision THEN 0 - 1 ELSE 0

\* The revision that a completion charges: none again for a later one.
Made(c, i, changed) == IF changed /\ i \notin c.completed THEN 1 ELSE 0

\* Complete
Completed(c, i, changed, cost) ==
    [Costed(c, i, cost) EXCEPT
        !.usage = [k \in Keys |-> @[k] + IF k = "revisions" THEN Made(c, i, changed) ELSE 0],
        !.reserved = @ \cup {i}, !.completed = @ \cup {i},
        !.activities = Without(@, i)]

\* Extend: an unlimited allowance of steps or cost stays unlimited.
Extended(c, add) ==
    [c EXCEPT !.limits = [k \in Keys |->
        IF k \in {"steps", "cost"} /\ @[k] = 0 THEN 0 ELSE @[k] + add[k]]]

\* The lease of d on invocation i.
Owns(c, d, i) == \E a \in c.activities : a.id = i /\ a.owner = d

\* Mutant of Foreign: whoever comes takes the invocation over.
NobodyForeign(c, d, i) == FALSE

\* Another driver's lease is still running.
Foreign(c, d, i) ==
    \E a \in c.activities : a.id = i /\ ~a.host /\ a.owner # d /\ now < a.until

Beating(c, d, i) ==
    [c EXCEPT !.activities = Without(@, i) \cup
        {[id |-> i, owner |-> d, seen |-> now, until |-> now + Lease, host |-> FALSE]}]

\* updateOwnedBudget: the driver's own lease is renewed before time is charged.
Ticked(c, d, i) == Tick(IF Owns(c, d, i) THEN Beating(c, d, i) ELSE c, now)

\* beat, when it is not refused; nothing once the invocation is completed.
Beaten(c, d, i) ==
    LET t == Ticked(c, d, i) IN IF i \in t.completed THEN t ELSE Beating(t, d, i)
-----------------------------------------------------------------------------
(***************************************************************************)
(* Its users.  Every update charges the time until now first.              *)
(***************************************************************************)
Current == Tick(b, now)

\* budgetGate without consequence: the run pauses, or another step follows.
Gate ==
    /\ b' = Current
    /\ UNCHANGED <<now, pending, job, worked, crashes, early, paid>>

\* sdlcAssignNextLocked and ReserveFanoutSlot: the ledger first, then run.json.
Admits(i) ==
    /\ i \in Assignments \ (b.reserved \cup pending)
    /\ Blockers(Current, KindOf[i]) = {}
    /\ b' = Dispatched(Current, i)

Admit(d, i) ==
    /\ job[d] = Idle /\ i \notin HostIds
    /\ Admits(i)
    /\ \/ /\ pending' = pending \cup {i}
          /\ job' = [job EXCEPT ![d] = [at |-> "admitted", id |-> i]]
          /\ UNCHANGED early
       \/ /\ "early" \in Events /\ crashes + early < MaxCrashes
          /\ early' = early + 1
          /\ UNCHANGED <<pending, job>>
    /\ UNCHANGED <<now, worked, crashes, paid>>

HostAdmit(i) ==
    /\ i \in HostIds /\ Admits(i)
    /\ pending' = pending \cup {i}
    /\ UNCHANGED <<now, job, worked, crashes, early, paid>>

\* sdlcDriveParallelReviews: a driver finds assignments pending, among them
\* those of a driver that died, or of one that is still at work.
Take(d, i) ==
    /\ job[d] = Idle /\ i \in pending \ HostIds
    /\ "race" \in Events \/ \A e \in Drivers : job[e].id # i
    /\ job' = [job EXCEPT ![d] = [at |-> "admitted", id |-> i]]
    /\ UNCHANGED <<b, now, pending, worked, crashes, early, paid>>

\* budgetActivity: the first beat, unless another driver's lease is running.
Launch(d) ==
    /\ job[d].at = "admitted"
    /\ LET i == job[d].id
       IN IF ~(i \in b.completed) /\ Foreign(Ticked(b, d, i), d, i)
          THEN job' = [job EXCEPT ![d] = Idle] /\ UNCHANGED b
          ELSE job' = [job EXCEPT ![d].at = "working"] /\ b' = Beaten(b, d, i)
    /\ UNCHANGED <<now, pending, worked, crashes, early, paid>>

\* A later beat; the ticker ignores its errors.
Beat(d) ==
    /\ job[d].at = "working"
    /\ LET i == job[d].id
       IN /\ i \in b.completed \/ ~Foreign(Ticked(b, d, i), d, i)
          /\ b' = Beaten(b, d, i)
    /\ UNCHANGED <<now, pending, job, worked, crashes, early, paid>>

\* saveInvocationUsage: what a reply cost is charged before its result.
ReportUsage(d) ==
    /\ job[d].at = "working"
    /\ \E cost \in 1 .. MaxCost : b' = Costed(Current, job[d].id, cost)
    /\ UNCHANGED <<now, pending, job, worked, crashes, early, paid>>

\* The result is recorded, as a new candidate if an implementer brings one and
\* is still waited for; then the beats stop.
Finish(d) ==
    /\ job[d].at = "working"
    /\ \E cost \in 0 .. MaxCost, changed \in BOOLEAN :
         LET i == job[d].id
         IN /\ changed => i \in pending \cap TakesRevision
            /\ b' = Completed(Current, i, changed, cost)
            /\ pending' = pending \ {i}
            /\ paid' = IF changed THEN paid \cup {i} ELSE paid
    /\ job' = [job EXCEPT ![d] = Idle]
    /\ UNCHANGED <<now, worked, crashes, early>>

HostReport(i) ==
    /\ i \in HostIds \cap b.reserved
    /\ \E cost \in 0 .. MaxCost, changed \in BOOLEAN :
         /\ changed => i \in pending \cap TakesRevision
         /\ b' = Completed(Current, i, changed, cost)
         /\ pending' = pending \ {i}
         /\ paid' = IF changed THEN paid \cup {i} ELSE paid
    /\ UNCHANGED <<now, job, worked, crashes, early>>

\* sdlcFailAssignment and pauseSessionRecovery: the pause drops all that this
\* run of the tree has pending.
Fail(d) ==
    /\ job[d].at = "working"
    /\ b' = Completed(Current, job[d].id, FALSE, 0)
    /\ \E siblings \in SUBSET pending : pending' = pending \ (siblings \cup {job[d].id})
    /\ job' = [job EXCEPT ![d] = Idle]
    /\ UNCHANGED <<now, worked, crashes, early, paid>>

\* The driver is interrupted: the beats stop, the reservation stays open.
Abandon(d) ==
    /\ job[d].at = "working"
    /\ LET t == Ticked(b, d, job[d].id)
       IN b' = IF Owns(t, d, job[d].id) THEN [t EXCEPT !.activities = Without(@, job[d].id)] ELSE t
    /\ job' = [job EXCEPT ![d] = Idle]
    /\ UNCHANGED <<now, pending, worked, crashes, early, paid>>

Crash(d) ==
    /\ crashes + early < MaxCrashes
    /\ \/ /\ "crash" \in Events /\ job[d].at = "working"
          /\ crashes' = crashes + 1 /\ UNCHANGED early
       \/ /\ "early" \in Events /\ job[d].at = "admitted"
          /\ early' = early + 1 /\ UNCHANGED crashes
    /\ job' = [job EXCEPT ![d] = Idle]
    /\ b' = [b EXCEPT !.activities =
                {IF a.owner = d THEN [a EXCEPT !.owner = Gone] ELSE a : a \in @}]
    /\ UNCHANGED <<now, pending, worked, paid>>

\* chargeTree of a child, and the transition of advanceBudgetFlow: paid for
\* under an identifier of their own, which a retry after a crash repeats.
Charge(i) ==
    /\ i \notin Assignments
    /\ i \in b.reserved \/ Blockers(Current, KindOf[i]) = {}
    /\ b' = Reserved(Current, i)
    /\ UNCHANGED <<now, pending, job, worked, crashes, early, paid>>

\* extendBudget
Extend ==
    /\ \E add \in Grants :
         /\ \A k \in Keys : b.limits[k] + add[k] <= MaxLimit
         /\ b' = Extended(Current, add)
    /\ UNCHANGED <<now, pending, job, worked, crashes, early, paid>>

\* Somebody executes an invocation nobody has completed.
AtWork ==
    \/ \E d \in Drivers : job[d] # Idle /\ job[d].id \notin b.completed
    \/ \E a \in b.activities : a.id \in HostIds /\ now < a.until

\* A live driver beats before its lease runs out, and launches at once.
Advance ==
    /\ now < MaxNow
    /\ \A d \in Drivers : job[d].at # "admitted"
    /\ \A a \in b.activities : a.owner \in Drivers => now + 1 < a.until
    /\ now' = now + 1
    /\ worked' = worked + IF AtWork THEN 1 ELSE 0
    /\ UNCHANGED <<b, pending, job, crashes, early, paid>>

Next ==
    \/ Gate \/ Extend \/ Advance
    \/ \E i \in Ids : HostAdmit(i) \/ HostReport(i) \/ Charge(i)
    \/ \E d \in Drivers :
          \/ Launch(d) \/ Beat(d) \/ ReportUsage(d) \/ Finish(d) \/ Fail(d) \/ Abandon(d) \/ Crash(d)
          \/ \E i \in Ids : Admit(d, i) \/ Take(d, i)

Spec == Init /\ [][Next]_vars
-----------------------------------------------------------------------------
(***************************************************************************)
(* Properties                                                              *)
(***************************************************************************)

\* No limited count is passed, whoever admits and in whatever order results
\* arrive: candidates that admitted work may still bring are counted before
\* they are made (Blockers, ReservedRevisions).
LimitsHold ==
    \A k \in Counted : b.limits[k] > 0 => Used(b, k) <= b.limits[k]

\* Everything is charged once, however often it is reserved, completed or
\* retried: the counts are the numbers of reservations and of candidates.
ChargedOnce ==
    /\ \A k \in {"assignments", "children", "steps"} :
          b.usage[k] = Cardinality({i \in b.reserved : k \in Charges(KindOf[i])})
    /\ b.usage["revisions"] = Cardinality(paid)

\* The cost of the tree is that of its reservations, each at the highest report:
\* usage saved with a reply is not charged again with its result (Complete).
CostIsSum == b.usage["cost"] = SumFunction(b.charged)

\* Overlapping workers count once: never more time than has passed (Tick).
TimeIsUnion == b.usage["seconds"] <= b.checkpoint /\ b.checkpoint <= now

\* What the tree would be charged now.
ChargedTime == Current.usage["seconds"]

\* The charged time is the union of the intervals in which somebody worked,
\* but for a lease per crash, and for the expiry of an invocation per crash
\* before its launch (Tick, updateOwnedBudget, budgetActivity).
ActiveTimeCharged ==
    /\ ChargedTime <= worked + Lease * crashes + Invocation * early
    /\ worked <= ChargedTime + Lease * crashes

\* After a crash, time in which nobody works is not charged, beyond the lease
\* of the driver that died ("offline time after the last checkpoint is excluded").
OfflineExcluded == ChargedTime <= worked + Lease * (crashes + early)

\* Two live drivers never execute one open invocation at a time (beat).
OneDriver ==
    \A d, e \in Drivers :
        d # e /\ job[d].at = "working" /\ job[e].at = "working" /\ job[d].id = job[e].id
            => job[d].id \in b.completed
=============================================================================
