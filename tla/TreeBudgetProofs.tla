-------------------------- MODULE TreeBudgetProofs --------------------------
(***************************************************************************)
(* Proofs about TreeBudget: its ledger is well-formed, no limited count is *)
(* passed, everything is charged once, the cost is the sum of what was     *)
(* reported, one driver at a time executes an open invocation, and the     *)
(* time charged is the time worked.                                        *)
(*                                                                         *)
(* What the ledger keeps is stated of any budget c (Ledger) and proved of  *)
(* each operation; the steps of the specification only apply operations.   *)
(***************************************************************************)
EXTENDS TreeBudget, FiniteSetTheorems, WellFoundedInduction, TLAPS

Numbered == {"assignments", "children", "steps"}
Charging(S, k) == {i \in S : k \in Charges(KindOf[i])}

\* What every operation on a ledger keeps.
Ledger(c) ==
    /\ c \in Budget
    /\ \A k \in AlwaysLimited : c.limits[k] > 0
    /\ c.completed \subseteq c.reserved
    /\ \A k \in Counted : c.limits[k] > 0 => Used(c, k) <= c.limits[k]
    /\ \A k \in Numbered : c.usage[k] = Cardinality(Charging(c.reserved, k))

\* Counts, limits and reservations are those of c; only time passed.
SameCounts(c, d) ==
    /\ d \in Budget
    /\ d.limits = c.limits /\ d.reserved = c.reserved /\ d.completed = c.completed
    /\ d.charged = c.charged
    /\ \A k \in Keys \ {"seconds"} : d.usage[k] = c.usage[k]

\* Kinds of reservations charge only what they consult.
LEMMA ChargesFacts ==
    ASSUME NEW kind \in Kinds
    PROVE  /\ Consulted(kind) \subseteq Keys
           /\ Charges(kind) \subseteq Numbered
           /\ Charges(kind) \subseteq Consulted(kind)
           /\ kind \in {"revision", "fanout"} <=> "revisions" \in Consulted(kind)
BY DEF Kinds, Consulted, Charges, Keys, Numbered

\* Sets of reservations are finite.
LEMMA FiniteIds ==
    ASSUME BudgetConstants, NEW S \in SUBSET Ids
    PROVE  IsFiniteSet(S) /\ Cardinality(S) \in Nat
BY FS_Subset, FS_CardinalityType DEF BudgetConstants

\* A ledger stays one when only time passes (Tick, beats, ends of activities).
LEMMA SameLedger ==
    ASSUME NEW c, NEW d, Ledger(c), SameCounts(c, d)
    PROVE  Ledger(d)
<1>1. Held(d) = Held(c)
  BY DEF SameCounts, Held
<1>2. \A k \in Counted : Used(d, k) = Used(c, k)
  BY <1>1 DEF SameCounts, Used, Counted, Keys
<1>3. \A k \in Numbered : d.usage[k] = c.usage[k]
  BY DEF SameCounts, Numbered, Keys
<1> QED
  BY <1>2, <1>3 DEF Ledger, SameCounts

\* The units charged by Tick lie between the checkpoint and now.
LEMMA UnitsBounded ==
    ASSUME NEW c \in Budget, NEW t \in Nat, c.checkpoint <= t
    PROVE  /\ Cardinality(ActiveUnits(c, t)) \in Nat
           /\ Cardinality(ActiveUnits(c, t)) <= t - c.checkpoint
<1> DEFINE I == c.checkpoint .. t - 1
<1>1. c.checkpoint \in Nat
  BY DEF Budget
<1>2. IsFiniteSet(I) /\ Cardinality(I) = t - c.checkpoint
  <2>1. c.checkpoint \in Int /\ t - 1 \in Int
    BY <1>1
  <2>2. /\ IsFiniteSet(I)
        /\ Cardinality(I) = IF c.checkpoint > t - 1 THEN 0 ELSE (t - 1) - c.checkpoint + 1
    BY <2>1, FS_Interval, Zenon
  <2> QED
    BY <1>1, <2>2
<1>3. ActiveUnits(c, t) \in SUBSET I
  BY DEF ActiveUnits
<1>4. IsFiniteSet(ActiveUnits(c, t)) /\ Cardinality(ActiveUnits(c, t)) <= Cardinality(I)
  BY <1>2, <1>3, FS_Subset
<1> HIDE DEF I
<1> QED
  BY <1>2, <1>4, FS_CardinalityType

\* Tick charges time, at most what has passed, and nothing else.
LEMMA TickFacts ==
    ASSUME NEW c \in Budget, NEW t \in Nat, c.checkpoint <= t
    PROVE  /\ SameCounts(c, Tick(c, t))
           /\ Tick(c, t).checkpoint = t
           /\ c.usage["seconds"] <= c.checkpoint => Tick(c, t).usage["seconds"] <= t
<1> DEFINE n == Cardinality(ActiveUnits(c, t))
<1>1. n \in Nat /\ n <= t - c.checkpoint
  BY UnitsBounded
<1> HIDE DEF n
<1>2. /\ c.usage \in [Keys -> Nat] /\ c.limits \in [Keys -> Nat]
      /\ c.activities \in SUBSET Activity /\ c.checkpoint \in Nat
  BY DEF Budget
<1>3. Tick(c, t) = [c EXCEPT !.usage = [c.usage EXCEPT !["seconds"] = @ + n],
                             !.checkpoint = t,
                             !.activities = {a \in c.activities : t <= a.until}]
  BY DEF Tick, n, Budget
<1>4. [c.usage EXCEPT !["seconds"] = @ + n] \in [Keys -> Nat]
  BY <1>1, <1>2 DEF Keys
<1>5. Tick(c, t) \in Budget
  BY <1>2, <1>3, <1>4 DEF Budget
<1>6. SameCounts(c, Tick(c, t))
  BY <1>2, <1>3, <1>5 DEF SameCounts, Budget
<1>7. /\ Tick(c, t).checkpoint = t
      /\ Tick(c, t).usage["seconds"] = c.usage["seconds"] + n
  BY <1>2, <1>3 DEF Budget, Keys
<1>8. c.usage["seconds"] \in Nat
  BY <1>2 DEF Keys
<1> QED
  BY <1>1, <1>2, <1>6, <1>7, <1>8

\* What Tick leaves is a ledger again.
LEMMA TickLedger ==
    ASSUME NEW c, Ledger(c), NEW t \in Nat, c.checkpoint <= t
    PROVE  Ledger(Tick(c, t)) /\ SameCounts(c, Tick(c, t))
BY TickFacts, SameLedger DEF Ledger

\* A beat changes the activities only.
LEMMA BeatingFacts ==
    ASSUME NEW c \in Budget, NEW d \in Drivers, NEW i \in Ids, now \in Nat, BudgetConstants
    PROVE  /\ SameCounts(c, Beating(c, d, i))
           /\ Beating(c, d, i).checkpoint = c.checkpoint
           /\ Beating(c, d, i).usage = c.usage
<1> DEFINE A == Without(c.activities, i) \cup
        {[id |-> i, owner |-> d, seen |-> now, until |-> now + Lease, host |-> FALSE]}
<1>1. Beating(c, d, i) = [c EXCEPT !.activities = A]
  BY DEF Beating, Budget
<1>2. A \in SUBSET Activity
  <2>1. now + Lease \in Nat
    BY DEF BudgetConstants
  <2>2. [id |-> i, owner |-> d, seen |-> now, until |-> now + Lease, host |-> FALSE]
           \in Activity
    BY <2>1 DEF Activity, Owner
  <2>3. Without(c.activities, i) \subseteq Activity
    BY DEF Without, Budget
  <2> QED
    BY <2>2, <2>3
<1> HIDE DEF A
<1>3. [c EXCEPT !.activities = A] \in Budget
  BY <1>2 DEF Budget
<1> QED
  BY <1>1, <1>3 DEF SameCounts, Budget

\* So does the end of an activity.
LEMMA WithoutFacts ==
    ASSUME NEW c \in Budget, NEW i
    PROVE  LET e == [c EXCEPT !.activities = Without(@, i)]
           IN SameCounts(c, e) /\ e.checkpoint = c.checkpoint /\ e.usage = c.usage
BY DEF SameCounts, Budget, Without

\* What time does to a ledger is all that an update does first.
LEMMA TickedFacts ==
    ASSUME NEW c, Ledger(c), now \in Nat, c.checkpoint <= now, BudgetConstants,
           NEW d \in Drivers, NEW i \in Ids
    PROVE  /\ Ledger(Ticked(c, d, i)) /\ SameCounts(c, Ticked(c, d, i))
           /\ Ticked(c, d, i).checkpoint = now
           /\ c.usage["seconds"] <= c.checkpoint => Ticked(c, d, i).usage["seconds"] <= now
<1> DEFINE e == IF Owns(c, d, i) THEN Beating(c, d, i) ELSE c
<1>1. SameCounts(c, e) /\ e.checkpoint = c.checkpoint /\ e.usage = c.usage
  BY BeatingFacts DEF Ledger, SameCounts
<1>2. Ledger(e)
  BY <1>1, SameLedger
<1>3. Ticked(c, d, i) = Tick(e, now)
  BY DEF Ticked
<1> HIDE DEF e
<1>4. /\ SameCounts(e, Tick(e, now)) /\ Tick(e, now).checkpoint = now
      /\ e.usage["seconds"] <= e.checkpoint => Tick(e, now).usage["seconds"] <= now
  BY <1>1, <1>2, TickFacts DEF Ledger
<1>5. Ledger(Tick(e, now))
  BY <1>2, <1>4, SameLedger
<1>6. SameCounts(c, Tick(e, now))
  BY <1>1, <1>4 DEF SameCounts
<1> QED
  BY <1>1, <1>3, <1>4, <1>5, <1>6

LEMMA BeatenFacts ==
    ASSUME NEW c, Ledger(c), now \in Nat, c.checkpoint <= now, BudgetConstants,
           NEW d \in Drivers, NEW i \in Ids
    PROVE  /\ Ledger(Beaten(c, d, i)) /\ SameCounts(c, Beaten(c, d, i))
           /\ Beaten(c, d, i).checkpoint = now
           /\ c.usage["seconds"] <= c.checkpoint => Beaten(c, d, i).usage["seconds"] <= now
<1> DEFINE t == Ticked(c, d, i)
<1>1. /\ Ledger(t) /\ SameCounts(c, t) /\ t.checkpoint = now
      /\ c.usage["seconds"] <= c.checkpoint => t.usage["seconds"] <= now
  BY TickedFacts
<1>2. Beaten(c, d, i) = IF i \in t.completed THEN t ELSE Beating(t, d, i)
  BY DEF Beaten
<1> HIDE DEF t
<1>3. SameCounts(t, Beating(t, d, i)) /\ Beating(t, d, i).checkpoint = t.checkpoint
      /\ Beating(t, d, i).usage = t.usage
  BY <1>1, BeatingFacts DEF Ledger
<1>4. Ledger(Beating(t, d, i)) /\ SameCounts(c, Beating(t, d, i))
  BY <1>1, <1>3, SameLedger DEF SameCounts
<1> QED
  BY <1>1, <1>2, <1>3, <1>4

-----------------------------------------------------------------------------
(***************************************************************************)
(* Reservations, completions, extensions                                   *)
(***************************************************************************)

\* What a reservation of i makes of c: r charges it, and nothing else differs.
Reserves(c, i, r) ==
    /\ r \in Budget
    /\ r.limits = c.limits /\ r.reserved = c.reserved \cup {i}
    /\ r.completed = IF i \in Assignments THEN c.completed ELSE c.completed \cup {i}
    /\ r.checkpoint = c.checkpoint
    /\ \A k \in Keys : r.usage[k] = c.usage[k] + IF k \in Charges(KindOf[i]) THEN 1 ELSE 0

LEMMA ReservedParts ==
    ASSUME NEW c \in Budget, NEW i \in Ids \ c.reserved, BudgetConstants
    PROVE  Reserves(c, i, Reserved(c, i))
<1> DEFINE U == [k \in Keys |-> c.usage[k] + IF k \in Charges(KindOf[i]) THEN 1 ELSE 0]
           R == c.reserved \cup {i}
           C == IF i \in Assignments THEN c.completed ELSE c.completed \cup {i}
<1>1. U \in [Keys -> Nat]
  BY DEF Budget
<1>2. R \in SUBSET Ids /\ C \in SUBSET Ids
  BY DEF Budget
<1>3. Reserved(c, i) = [c EXCEPT !.usage = U, !.reserved = R, !.completed = C]
  BY DEF Reserved, Budget
<1>4. \A k \in Keys : U[k] = c.usage[k] + IF k \in Charges(KindOf[i]) THEN 1 ELSE 0
  OBVIOUS
<1> HIDE DEF U, R, C
<1>5. [c EXCEPT !.usage = U, !.reserved = R, !.completed = C] \in Budget
  BY <1>1, <1>2 DEF Budget
<1>6. /\ Reserved(c, i).limits = c.limits /\ Reserved(c, i).reserved = R
      /\ Reserved(c, i).completed = C /\ Reserved(c, i).usage = U
      /\ Reserved(c, i).checkpoint = c.checkpoint
  BY <1>3 DEF Budget
<1> QED
  BY <1>3, <1>4, <1>5, <1>6 DEF R, C, Reserves

\* Adding a reservation adds one to the counts of what it charges.
LEMMA ChargingMore ==
    ASSUME BudgetConstants, NEW S \in SUBSET Ids, NEW i \in Ids \ S, NEW k
    PROVE  Cardinality(Charging(S \cup {i}, k)) =
              Cardinality(Charging(S, k)) + IF k \in Charges(KindOf[i]) THEN 1 ELSE 0
<1>1. Charging(S, k) \in SUBSET Ids /\ i \notin Charging(S, k)
  BY DEF Charging
<1>2. IsFiniteSet(Charging(S, k)) /\ Cardinality(Charging(S, k)) \in Nat
  BY <1>1, FiniteIds
<1>3. CASE k \in Charges(KindOf[i])
  <2>1. Charging(S \cup {i}, k) = Charging(S, k) \cup {i}
    BY <1>3 DEF Charging
  <2> QED
    BY <1>1, <1>2, <1>3, <2>1, FS_AddElement
<1>4. CASE k \notin Charges(KindOf[i])
  <2>1. Charging(S \cup {i}, k) = Charging(S, k)
    BY <1>4 DEF Charging
  <2> QED
    BY <1>2, <1>4, <2>1
<1> QED
  BY <1>3, <1>4

\* An admitted reservation keeps the limits, because admission counted what
\* admitted work may still bring; one that exists already changes nothing.
LEMMA ReservedLedger ==
    ASSUME NEW c, Ledger(c), NEW i \in Ids, BudgetConstants,
           i \in c.reserved \/ Blockers(c, KindOf[i]) = {}
    PROVE  /\ Ledger(Reserved(c, i))
           /\ Reserved(c, i).checkpoint = c.checkpoint
           /\ Reserved(c, i).usage["seconds"] = c.usage["seconds"]
           /\ Reserved(c, i).usage["revisions"] = c.usage["revisions"]
           /\ Reserved(c, i).reserved = c.reserved \cup {i}
           /\ Reserved(c, i).completed \subseteq c.completed \cup {i}
           /\ i \in Assignments \/ i \in c.reserved
                => Reserved(c, i).completed = c.completed
<1>1. CASE i \in c.reserved
  BY <1>1 DEF Reserved
<1>2. CASE i \notin c.reserved
  <2> DEFINE r == Reserved(c, i)
  <2>1. KindOf[i] \in Kinds /\ c \in Budget
    BY DEF BudgetConstants, Ledger
  <2>0. r = Reserved(c, i) /\ i \in Ids \ c.reserved
    BY <1>2
  <2> HIDE DEF r
  <2>2. Reserves(c, i, r)
    BY <2>0, <2>1, ReservedParts
  <2>3. /\ Charges(KindOf[i]) \subseteq Numbered
        /\ Charges(KindOf[i]) \subseteq Consulted(KindOf[i])
        /\ KindOf[i] \in {"revision", "fanout"} <=> "revisions" \in Consulted(KindOf[i])
    BY <2>1, ChargesFacts
  <2>4. c.usage \in [Keys -> Nat] /\ c.limits \in [Keys -> Nat]
        /\ c.reserved \in SUBSET Ids /\ c.completed \in SUBSET Ids
    BY <2>1 DEF Budget
  <2>5. \A k \in Numbered : r.usage[k] = Cardinality(Charging(r.reserved, k))
    BY <1>2, <2>2, <2>4, ChargingMore DEF Reserves, Ledger, Numbered, Keys
  <2>6. \A k \in Counted : k \in Consulted(KindOf[i]) /\ c.limits[k] > 0
           => Used(c, k) < c.limits[k]
    <3> SUFFICES ASSUME NEW k \in Counted, k \in Consulted(KindOf[i]), c.limits[k] > 0
                 PROVE  Used(c, k) < c.limits[k]
      OBVIOUS
    <3>1. ~(Used(c, k) >= c.limits[k])
      BY <1>2 DEF Blockers
    <3>2. Cardinality(Held(c)) \in Nat
      BY <2>4, FiniteIds DEF Held
    <3>3. Used(c, k) \in Nat /\ c.limits[k] \in Nat
      BY <2>4, <3>2 DEF Used, Counted, Keys
    <3> QED
      BY <3>1, <3>3
  <2>7. \A k \in Numbered : c.limits[k] > 0 => Used(r, k) <= c.limits[k]
    <3> SUFFICES ASSUME NEW k \in Numbered, c.limits[k] > 0
                 PROVE  Used(r, k) <= c.limits[k]
      OBVIOUS
    <3>1. k \in Counted /\ k \in Keys /\ k # "revisions"
      BY DEF Numbered, Counted, Keys
    <3>2. Used(r, k) = r.usage[k] + 0 /\ Used(c, k) = c.usage[k] + 0
      BY <3>1 DEF Used
    <3>3. c.usage[k] \in Nat /\ c.limits[k] \in Nat /\ c.usage[k] <= c.limits[k]
      BY <2>4, <3>1, <3>2 DEF Ledger
    <3>4. CASE k \in Charges(KindOf[i])
      BY <2>2, <2>3, <2>6, <3>1, <3>2, <3>3, <3>4 DEF Reserves
    <3>5. CASE k \notin Charges(KindOf[i])
      BY <2>2, <3>1, <3>2, <3>3, <3>5 DEF Reserves
    <3> QED
      BY <3>4, <3>5
  <2>8. r.usage["revisions"] = c.usage["revisions"] /\ r.usage["seconds"] = c.usage["seconds"]
    <3>1. "revisions" \notin Charges(KindOf[i]) /\ "seconds" \notin Charges(KindOf[i])
      BY DEF Charges
    <3>2. c.usage["revisions"] \in Nat /\ c.usage["seconds"] \in Nat
          /\ "revisions" \in Keys /\ "seconds" \in Keys
      BY <2>4 DEF Keys
    <3> QED
      BY <2>2, <3>1, <3>2 DEF Reserves
  <2>9. c.limits["revisions"] > 0 => Used(r, "revisions") <= c.limits["revisions"]
    <3>1. IsFiniteSet(Held(c)) /\ Cardinality(Held(c)) \in Nat
      BY <2>4, FiniteIds DEF Held
    <3>2. Used(r, "revisions") = c.usage["revisions"] + Cardinality(Held(r))
          /\ Used(c, "revisions") = c.usage["revisions"] + Cardinality(Held(c))
      BY <2>8 DEF Used
    <3>3. c.usage["revisions"] \in Nat /\ c.limits["revisions"] \in Nat
      BY <2>4 DEF Keys
    <3>4. CASE i \in TakesRevision
      <4>1. Held(r) = Held(c) \cup {i} /\ i \notin Held(c)
        BY <1>2, <2>2, <2>4, <3>4 DEF Reserves, Held, TakesRevision, Assignments, Ledger
      <4>2. Cardinality(Held(r)) = Cardinality(Held(c)) + 1
        BY <3>1, <4>1, FS_AddElement
      <4>3. "revisions" \in Consulted(KindOf[i])
        BY <2>3, <3>4 DEF TakesRevision
      <4>4. c.limits["revisions"] > 0 => Used(c, "revisions") < c.limits["revisions"]
        BY <2>6, <4>3 DEF Counted
      <4> QED
        BY <3>1, <3>2, <3>3, <4>2, <4>4
    <3>5. CASE i \notin TakesRevision
      <4>1. Held(r) = Held(c)
        BY <2>2, <3>5 DEF Reserves, Held
      <4> QED
        BY <3>2, <4>1 DEF Ledger, Counted
    <3> QED
      BY <3>4, <3>5
  <2>10. r.completed \subseteq r.reserved
    BY <2>2 DEF Reserves, Ledger
  <2>11. Ledger(r)
    <3>1. \A k \in Counted : c.limits[k] > 0 => Used(r, k) <= c.limits[k]
      BY <2>7, <2>9 DEF Counted, Numbered
    <3> QED
      BY <2>2, <2>5, <2>10, <3>1 DEF Reserves, Ledger
  <2> QED
    BY <1>2, <2>0, <2>2, <2>8, <2>11 DEF Reserves
<1> QED
  BY <1>1, <1>2

\* Dispatching is reserving, and an activity more.
LEMMA DispatchedLedger ==
    ASSUME NEW c, Ledger(c), NEW i \in Ids \ c.reserved, i \in Assignments,
           BudgetConstants, now \in Nat, Blockers(c, KindOf[i]) = {}
    PROVE  /\ Ledger(Dispatched(c, i))
           /\ Dispatched(c, i).checkpoint = c.checkpoint
           /\ Dispatched(c, i).usage["seconds"] = c.usage["seconds"]
           /\ Dispatched(c, i).usage["revisions"] = c.usage["revisions"]
           /\ Dispatched(c, i).reserved = c.reserved \cup {i}
           /\ Dispatched(c, i).completed = c.completed
<1> DEFINE r == Reserved(c, i)
           a == [id |-> i, owner |-> None, seen |-> now, until |-> now + Invocation,
                 host |-> TRUE]
           e == [r EXCEPT !.activities = @ \cup {a}]
<1>1. Dispatched(c, i) = e
  BY DEF Dispatched
<1>2. /\ Ledger(r) /\ r.checkpoint = c.checkpoint
      /\ r.usage["seconds"] = c.usage["seconds"]
      /\ r.usage["revisions"] = c.usage["revisions"]
      /\ r.reserved = c.reserved \cup {i} /\ r.completed = c.completed
  BY ReservedLedger
<1> HIDE DEF r
<1>3. a \in Activity
  BY DEF Activity, Owner, BudgetConstants
<1> HIDE DEF a
<1>4. r \in Budget
  BY <1>2 DEF Ledger
<1>5. SameCounts(r, e) /\ e.checkpoint = r.checkpoint /\ e.usage = r.usage
  BY <1>3, <1>4 DEF SameCounts, Budget
<1>6. Ledger(e)
  BY <1>2, <1>5, SameLedger
<1> QED
  BY <1>1, <1>2, <1>5, <1>6 DEF SameCounts

\* A report of cost changes no count.
LEMMA CostedFacts ==
    ASSUME NEW c, Ledger(c), NEW i \in Ids, NEW cost \in Nat
    PROVE  /\ Ledger(Costed(c, i, cost))
           /\ Costed(c, i, cost).limits = c.limits
           /\ Costed(c, i, cost).reserved = c.reserved
           /\ Costed(c, i, cost).completed = c.completed
           /\ Costed(c, i, cost).activities = c.activities
           /\ Costed(c, i, cost).checkpoint = c.checkpoint
           /\ Costed(c, i, cost).usage["seconds"] = c.usage["seconds"]
           /\ Costed(c, i, cost).usage["revisions"] = c.usage["revisions"]
<1> DEFINE x == Extra(c, i, cost)
           U == [k \in Keys |-> c.usage[k] + IF k = "cost" THEN x ELSE 0]
           G == [c.charged EXCEPT ![i] = @ + x]
           e == [c EXCEPT !.usage = U, !.charged = G]
<1>1. /\ c \in Budget /\ c.usage \in [Keys -> Nat] /\ c.limits \in [Keys -> Nat]
      /\ c.charged \in [Ids -> Nat]
  BY DEF Ledger, Budget
<1>2. Costed(c, i, cost) = e
  BY <1>1 DEF Costed, Budget
<1>3. x \in Nat
  BY <1>1 DEF Extra
<1> HIDE DEF x
<1>4. U \in [Keys -> Nat] /\ G \in [Ids -> Nat]
  BY <1>1, <1>3
<1>5. \A k \in Keys \ {"cost"} : U[k] = c.usage[k]
  BY <1>1, <1>3
<1> HIDE DEF U, G
<1>6. /\ e \in Budget /\ e.usage = U /\ e.limits = c.limits /\ e.activities = c.activities
      /\ e.reserved = c.reserved /\ e.completed = c.completed
      /\ e.checkpoint = c.checkpoint
  BY <1>1, <1>4 DEF Budget
<1> HIDE DEF e
<1>7. \A k \in Counted : Used(e, k) = Used(c, k)
  BY <1>5, <1>6 DEF Used, Held, Counted, Keys
<1>8. \A k \in Numbered : e.usage[k] = c.usage[k]
  BY <1>5, <1>6 DEF Numbered, Keys
<1>9. Ledger(e)
  BY <1>6, <1>7, <1>8 DEF Ledger
<1>10. U["seconds"] = c.usage["seconds"] /\ U["revisions"] = c.usage["revisions"]
  BY <1>5 DEF Keys
<1> QED
  BY <1>2, <1>6, <1>9, <1>10

\* A completion charges the candidate that was held for it, and only once.
LEMMA CompletedLedger ==
    ASSUME NEW c0, Ledger(c0), NEW i \in c0.reserved, NEW changed \in BOOLEAN,
           NEW cost \in Nat, changed => i \in TakesRevision, BudgetConstants
    PROVE  /\ Ledger(Completed(c0, i, changed, cost))
           /\ Completed(c0, i, changed, cost).checkpoint = c0.checkpoint
           /\ Completed(c0, i, changed, cost).usage["seconds"] = c0.usage["seconds"]
           /\ Completed(c0, i, changed, cost).usage["revisions"] =
                 c0.usage["revisions"] + IF changed /\ i \notin c0.completed THEN 1 ELSE 0
           /\ Completed(c0, i, changed, cost).reserved = c0.reserved
           /\ Completed(c0, i, changed, cost).completed = c0.completed \cup {i}
<1> DEFINE c == Costed(c0, i, cost)
           made == Made(c0, i, changed)
           U == [k \in Keys |-> c.usage[k] + IF k = "revisions" THEN made ELSE 0]
           R == c.reserved \cup {i}
           D == c.completed \cup {i}
           A == Without(c.activities, i)
           e == [c EXCEPT !.usage = U, !.reserved = R, !.completed = D, !.activities = A]
<1>0. i \in Ids
  BY DEF Ledger, Budget
<1>1. /\ Ledger(c) /\ c.reserved = c0.reserved /\ c.completed = c0.completed
      /\ c.checkpoint = c0.checkpoint /\ c.usage["seconds"] = c0.usage["seconds"]
      /\ c.usage["revisions"] = c0.usage["revisions"]
  BY <1>0, CostedFacts
<1>2. Completed(c0, i, changed, cost) = e
  <2>1. c \in Budget
    BY <1>1 DEF Ledger
  <2> QED
    BY <2>1 DEF Completed, Budget
<1>3. made \in Nat /\ made = IF changed /\ i \notin c.completed THEN 1 ELSE 0
  BY <1>1 DEF Made
<1> HIDE DEF c, made
<1>4. /\ c \in Budget /\ c.usage \in [Keys -> Nat] /\ c.limits \in [Keys -> Nat]
      /\ c.reserved \in SUBSET Ids /\ c.completed \in SUBSET Ids
      /\ c.activities \in SUBSET Activity
  BY <1>1 DEF Ledger, Budget
<1>5. U \in [Keys -> Nat] /\ A \in SUBSET Activity /\ R = c.reserved /\ D \in SUBSET Ids
  BY <1>0, <1>1, <1>3, <1>4 DEF Without
<1>6. /\ U["revisions"] = c.usage["revisions"] + made
      /\ \A k \in Keys \ {"revisions"} : U[k] = c.usage[k]
  BY <1>3, <1>4 DEF Keys
<1> HIDE DEF U, A, R
<1>7. /\ e \in Budget /\ e.usage = U /\ e.limits = c.limits
      /\ e.reserved = c.reserved /\ e.completed = c.completed \cup {i}
      /\ e.checkpoint = c.checkpoint
  BY <1>4, <1>5 DEF Budget
<1> HIDE DEF e, D
<1>8. c.usage["revisions"] \in Nat /\ IsFiniteSet(Held(c)) /\ Cardinality(Held(c)) \in Nat
  BY <1>4, FiniteIds DEF Keys, Held
<1>9. Cardinality(Held(e)) \in Nat /\ made + Cardinality(Held(e)) <= Cardinality(Held(c))
  <2>1. CASE i \in Held(c)
    <3>1. Held(e) = Held(c) \ {i}
      BY <1>7 DEF Held
    <3>2. Cardinality(Held(e)) = Cardinality(Held(c)) - 1 /\ IsFiniteSet(Held(e))
      BY <1>8, <2>1, <3>1, FS_RemoveElement
    <3> QED
      BY <1>3, <1>8, <3>2, FS_CardinalityType
  <2>2. CASE i \notin Held(c)
    <3>1. Held(e) = Held(c) /\ made = 0
      BY <1>1, <1>3, <1>7, <2>2 DEF Held
    <3> QED
      BY <1>8, <3>1
  <2> QED
    BY <2>1, <2>2
<1>10. \A k \in Counted : e.limits[k] > 0 => Used(e, k) <= e.limits[k]
  <2>1. CASE c.limits["revisions"] > 0
    <3>1. c.usage["revisions"] + Cardinality(Held(c)) <= c.limits["revisions"]
      BY <1>1, <2>1 DEF Ledger, Used, Counted
    <3>2. Used(e, "revisions") = c.usage["revisions"] + made + Cardinality(Held(e))
      BY <1>6, <1>7 DEF Used
    <3>3. c.limits["revisions"] \in Nat
      BY <1>4 DEF Keys
    <3> QED
      <4>1. Used(e, "revisions") <= e.limits["revisions"]
        BY <1>3, <1>7, <1>8, <1>9, <3>1, <3>2, <3>3
      <4>2. \A k \in Numbered : Used(e, k) = Used(c, k)
        BY <1>6, <1>7 DEF Used, Numbered, Keys
      <4> QED
        BY <1>1, <1>7, <4>1, <4>2 DEF Ledger, Counted, Numbered
  <2>2. CASE ~(c.limits["revisions"] > 0)
    <3>1. \A k \in Numbered : Used(e, k) = Used(c, k)
      BY <1>6, <1>7 DEF Used, Numbered, Keys
    <3> QED
      BY <1>1, <1>7, <2>2, <3>1 DEF Ledger, Counted, Numbered
  <2> QED
    BY <2>1, <2>2
<1>11. \A k \in Numbered : e.usage[k] = Cardinality(Charging(e.reserved, k))
  BY <1>1, <1>6, <1>7 DEF Ledger, Numbered, Keys
<1>12. Ledger(e)
  BY <1>1, <1>7, <1>10, <1>11 DEF Ledger
<1>13. U["seconds"] = c.usage["seconds"]
  BY <1>6 DEF Keys
<1> QED
  BY <1>1, <1>2, <1>3, <1>6, <1>7, <1>12, <1>13

\* An extension raises limits only, and what has no limit gets none.
LEMMA ExtendedLedger ==
    ASSUME NEW c, Ledger(c), NEW add \in [Keys -> Nat], BudgetConstants
    PROVE  /\ Ledger(Extended(c, add))
           /\ Extended(c, add).checkpoint = c.checkpoint
           /\ Extended(c, add).usage = c.usage
           /\ Extended(c, add).reserved = c.reserved
           /\ Extended(c, add).completed = c.completed
<1> DEFINE L == [k \in Keys |-> IF k \in {"steps", "cost"} /\ c.limits[k] = 0 THEN 0
                                ELSE c.limits[k] + add[k]]
           e == [c EXCEPT !.limits = L]
<1>1. /\ c \in Budget /\ c.limits \in [Keys -> Nat] /\ c.usage \in [Keys -> Nat]
      /\ c.reserved \in SUBSET Ids
  BY DEF Ledger, Budget
<1>2. Extended(c, add) = e
  BY <1>1 DEF Extended, Budget
<1>3. L \in [Keys -> Nat]
  BY <1>1
<1>4. \A k \in Keys : L[k] \in Nat /\ c.limits[k] \in Nat /\ L[k] >= c.limits[k]
  BY <1>1
<1>5. \A k \in Keys : L[k] > 0 => c.limits[k] > 0
  <2>1. \A k \in AlwaysLimited : c.limits[k] > 0
    BY DEF Ledger
  <2> QED
    BY <1>1, <2>1 DEF Keys, AlwaysLimited
<1> HIDE DEF L
<1>6. /\ e \in Budget /\ e.limits = L /\ e.usage = c.usage /\ e.reserved = c.reserved
      /\ e.completed = c.completed /\ e.checkpoint = c.checkpoint
  BY <1>1, <1>3 DEF Budget
<1> HIDE DEF e
<1>7. \A k \in Keys : Used(e, k) = Used(c, k)
  BY <1>6 DEF Used, Held
<1>8. Cardinality(Held(c)) \in Nat
  BY <1>1, FiniteIds DEF Held
<1>9. \A k \in Keys : Used(c, k) \in Nat
  BY <1>1, <1>8 DEF Used
<1>10. \A k \in Counted : L[k] > 0 => Used(e, k) <= L[k]
  <2> SUFFICES ASSUME NEW k \in Counted, L[k] > 0 PROVE Used(e, k) <= L[k]
    OBVIOUS
  <2>1. k \in Keys
    BY DEF Counted, Keys
  <2>2. Used(c, k) <= c.limits[k]
    BY <1>5, <2>1 DEF Ledger
  <2> QED
    BY <1>4, <1>7, <1>9, <2>1, <2>2
<1>11. \A k \in AlwaysLimited : L[k] > 0
  <2>1. AlwaysLimited \subseteq Keys
    BY DEF AlwaysLimited, Keys
  <2> QED
    BY <1>4, <2>1 DEF Ledger
<1>12. Ledger(e)
  BY <1>6, <1>10, <1>11 DEF Ledger
<1> QED
  BY <1>2, <1>6, <1>12
-----------------------------------------------------------------------------
(***************************************************************************)
(* The steps of the tree                                                   *)
(***************************************************************************)

\* What the ledger and its users agree on.  LimitsHold and ChargedOnce need
\* that what is pending has not been completed: a candidate that is charged
\* has a revision held for it, and is charged once.
BudgetInv ==
    /\ BudgetTypeOK
    /\ Ledger(b)
    /\ pending \subseteq b.reserved \ b.completed
    /\ paid \subseteq b.completed
    /\ \A d \in Drivers : job[d] # Idle => job[d].id \in b.reserved
    /\ b.usage["revisions"] = Cardinality(paid)
    /\ TimeIsUnion

\* A step that only lets time pass on the ledger, and moves drivers.
LEMMA OnlyTimePasses ==
    ASSUME BudgetInv, Ledger(b'), SameCounts(b, b'), TimeIsUnion',
           pending' = pending, paid' = paid,
           now' \in Nat, worked' \in Nat, crashes' \in Nat, early' \in Nat,
           job' \in [Drivers -> Job],
           \A d \in Drivers : job'[d] # Idle => job'[d].id \in b.reserved
    PROVE  BudgetInv'
<1>1. BudgetTypeOK'
  BY DEF BudgetInv, BudgetTypeOK, SameCounts
<1>2. b'.reserved = b.reserved /\ b'.completed = b.completed
      /\ b'.usage["revisions"] = b.usage["revisions"]
  BY DEF SameCounts, Keys
<1> QED
  BY <1>1, <1>2 DEF BudgetInv

\* What every update begins with.
LEMMA CurrentFacts ==
    ASSUME BudgetInv, BudgetConstants
    PROVE  /\ Ledger(Current) /\ SameCounts(b, Current)
           /\ Current.checkpoint = now /\ Current.usage["seconds"] <= now
           /\ Current.reserved = b.reserved /\ Current.completed = b.completed
           /\ Current.usage["revisions"] = Cardinality(paid)
<1>1. now \in Nat /\ b \in Budget /\ b.checkpoint <= now /\ Ledger(b)
      /\ b.usage["seconds"] <= b.checkpoint
  BY DEF BudgetInv, BudgetTypeOK, TimeIsUnion
<1>2. /\ SameCounts(b, Current) /\ Current.checkpoint = now
      /\ Current.usage["seconds"] <= now
  BY <1>1, TickFacts DEF Current
<1>3. Ledger(Current)
  BY <1>1, <1>2, SameLedger
<1>4. "revisions" \in Keys \ {"seconds"}
  BY DEF Keys
<1> QED
  BY <1>2, <1>3, <1>4 DEF SameCounts, BudgetInv

\* A driver that is not idle is at a reservation.
LEMMA JobFacts ==
    ASSUME BudgetInv, NEW d \in Drivers, job[d].at \in {"admitted", "working"}
    PROVE  /\ job[d] \in Job /\ job[d].id \in Ids
           /\ job[d].id \in b.reserved
           /\ [at |-> "working", id |-> job[d].id] \in Job
<1>1. job[d] \in Job /\ b \in Budget
  BY DEF BudgetInv, BudgetTypeOK
<1>2. job[d] # Idle
  BY DEF Idle
<1>3. job[d].id \in Ids
  BY <1>1, <1>2 DEF Job
<1> QED
  BY <1>1, <1>2, <1>3 DEF BudgetInv, Job

LEMMA GateStep ==
    ASSUME BudgetInv, BudgetConstants, Gate
    PROVE  BudgetInv'
<1>1. /\ Ledger(b') /\ SameCounts(b, b')
      /\ b'.checkpoint = now /\ b'.usage["seconds"] <= now
  BY CurrentFacts DEF Gate
<1>2. TimeIsUnion'
  BY <1>1 DEF TimeIsUnion, Gate, BudgetInv, BudgetTypeOK
<1> QED
  BY <1>1, <1>2, OnlyTimePasses DEF Gate, BudgetInv, BudgetTypeOK

LEMMA TakeStep ==
    ASSUME BudgetInv, BudgetConstants, NEW d \in Drivers, NEW i \in Ids, Take(d, i)
    PROVE  BudgetInv'
<1>1. i \in b.reserved /\ [at |-> "admitted", id |-> i] \in Job
  BY DEF Take, BudgetInv, Job
<1>2. /\ job' \in [Drivers -> Job]
      /\ \A e \in Drivers : job'[e] # Idle => job'[e].id \in b.reserved
  BY <1>1 DEF Take, BudgetInv, BudgetTypeOK
<1>3. b' = b /\ now' = now /\ TimeIsUnion'
  BY DEF Take, BudgetInv, TimeIsUnion
<1>4. SameCounts(b, b')
  BY <1>3 DEF SameCounts, BudgetInv, BudgetTypeOK
<1> QED
  BY <1>2, <1>3, <1>4, OnlyTimePasses DEF Take, BudgetInv, BudgetTypeOK

LEMMA AdvanceStep ==
    ASSUME BudgetInv, BudgetConstants, Advance
    PROVE  BudgetInv'
<1>1. now' \in Nat /\ now <= now' /\ worked' \in Nat
  BY DEF Advance, BudgetInv, BudgetTypeOK
<1>2. b' = b /\ SameCounts(b, b') /\ b.checkpoint \in Nat /\ now \in Nat
  BY DEF Advance, SameCounts, BudgetInv, BudgetTypeOK, Budget
<1>3. TimeIsUnion'
  BY <1>1, <1>2 DEF BudgetInv, TimeIsUnion
<1> QED
  BY <1>1, <1>2, <1>3, OnlyTimePasses DEF Advance, BudgetInv, BudgetTypeOK

\* Beats of the driver's own.
LEMMA BeatsKeep ==
    ASSUME BudgetInv, BudgetConstants, NEW d \in Drivers, NEW i \in Ids, now' = now,
           b' \in {Ticked(b, d, i), Beaten(b, d, i)}
    PROVE  Ledger(b') /\ SameCounts(b, b') /\ TimeIsUnion'
<1>1. now \in Nat /\ b.checkpoint <= now /\ Ledger(b) /\ b.usage["seconds"] <= b.checkpoint
  BY DEF BudgetInv, BudgetTypeOK, TimeIsUnion
<1>2. /\ Ledger(b') /\ SameCounts(b, b') /\ b'.checkpoint = now
      /\ b'.usage["seconds"] <= now
  BY <1>1, TickedFacts, BeatenFacts
<1> QED
  BY <1>1, <1>2 DEF TimeIsUnion

LEMMA LaunchStep ==
    ASSUME BudgetInv, BudgetConstants, NEW d \in Drivers, Launch(d)
    PROVE  BudgetInv'
<1>1. job[d].id \in Ids /\ job[d].id \in b.reserved /\ Idle \in Job
      /\ [at |-> "working", id |-> job[d].id] \in Job
  BY JobFacts DEF Launch, Job
<1>2. \/ job' = [job EXCEPT ![d] = Idle] /\ b' = b
      \/ job' = [job EXCEPT ![d].at = "working"] /\ b' = Beaten(b, d, job[d].id)
  BY DEF Launch
<1>3. job \in [Drivers -> Job] /\ now' = now
  BY DEF BudgetInv, BudgetTypeOK, Launch
<1>4. job[d] \in Job
  BY <1>3
<1>5. [job[d] EXCEPT !.at = "working"] = [at |-> "working", id |-> job[d].id]
  BY <1>4 DEF Job, Idle
<1>6. /\ job' \in [Drivers -> Job]
      /\ \A e \in Drivers : job'[e] # Idle => job'[e].id \in b.reserved
  <2>1. CASE job' = [job EXCEPT ![d] = Idle]
    BY <1>1, <1>3, <2>1 DEF BudgetInv
  <2>2. CASE job' = [job EXCEPT ![d].at = "working"]
    <3>1. job' = [job EXCEPT ![d] = [at |-> "working", id |-> job[d].id]]
      BY <1>3, <1>5, <2>2
    <3> QED
      BY <1>1, <1>3, <3>1 DEF BudgetInv
  <2> QED
    BY <1>2, <2>1, <2>2
<1>7. Ledger(b') /\ SameCounts(b, b') /\ TimeIsUnion'
  <2>1. CASE b' = b
    BY <1>3, <2>1 DEF BudgetInv, BudgetTypeOK, SameCounts, TimeIsUnion
  <2>2. CASE b' = Beaten(b, d, job[d].id)
    BY <1>1, <1>3, <2>2, BeatsKeep
  <2> QED
    BY <1>2, <2>1, <2>2
<1> QED
  BY <1>6, <1>7, OnlyTimePasses DEF Launch, BudgetInv, BudgetTypeOK

LEMMA BeatStep ==
    ASSUME BudgetInv, BudgetConstants, NEW d \in Drivers, Beat(d)
    PROVE  BudgetInv'
<1>1. job[d].id \in Ids /\ b' = Beaten(b, d, job[d].id) /\ now' = now
  BY JobFacts DEF Beat
<1>2. Ledger(b') /\ SameCounts(b, b') /\ TimeIsUnion'
  BY <1>1, BeatsKeep
<1> QED
  BY <1>2, OnlyTimePasses DEF Beat, BudgetInv, BudgetTypeOK

LEMMA AbandonStep ==
    ASSUME BudgetInv, BudgetConstants, NEW d \in Drivers, Abandon(d)
    PROVE  BudgetInv'
<1> DEFINE t == Ticked(b, d, job[d].id)
           e == [t EXCEPT !.activities = Without(@, job[d].id)]
<1>1. /\ job[d].id \in Ids /\ now' = now /\ now \in Nat
      /\ b.checkpoint <= now /\ Ledger(b) /\ b.usage["seconds"] <= b.checkpoint
  BY JobFacts DEF Abandon, BudgetInv, BudgetTypeOK, TimeIsUnion
<1>2. /\ Ledger(t) /\ SameCounts(b, t) /\ t.checkpoint = now /\ t.usage["seconds"] <= now
  BY <1>1, TickedFacts
<1>3. b' = e \/ b' = t
  BY DEF Abandon
<1> HIDE DEF t
<1>4. SameCounts(t, e) /\ e.checkpoint = t.checkpoint /\ e.usage = t.usage
  BY <1>2, WithoutFacts DEF Ledger
<1> HIDE DEF e
<1>5. Ledger(e) /\ SameCounts(b, e)
  BY <1>2, <1>4, SameLedger DEF SameCounts
<1>6. Ledger(b') /\ SameCounts(b, b') /\ TimeIsUnion'
  BY <1>1, <1>2, <1>3, <1>4, <1>5 DEF TimeIsUnion
<1>7. /\ job' \in [Drivers -> Job]
      /\ \A f \in Drivers : job'[f] # Idle => job'[f].id \in b.reserved
  BY DEF Abandon, BudgetInv, BudgetTypeOK, Job
<1> QED
  BY <1>6, <1>7, OnlyTimePasses DEF Abandon, BudgetInv, BudgetTypeOK

LEMMA CrashStep ==
    ASSUME BudgetInv, BudgetConstants, NEW d \in Drivers, Crash(d)
    PROVE  BudgetInv'
<1> DEFINE A == {IF a.owner = d THEN [a EXCEPT !.owner = Gone] ELSE a : a \in b.activities}
<1>1. b \in Budget /\ Ledger(b) /\ b' = [b EXCEPT !.activities = A]
  BY DEF Crash, BudgetInv, BudgetTypeOK
<1>2. A \in SUBSET Activity
  <2>1. \A a \in Activity : [a EXCEPT !.owner = Gone] \in Activity
    BY DEF Activity, Owner
  <2> QED
    BY <1>1, <2>1 DEF Budget
<1> HIDE DEF A
<1>3. SameCounts(b, b') /\ b'.checkpoint = b.checkpoint /\ b'.usage = b.usage
  BY <1>1, <1>2 DEF SameCounts, Budget
<1>4. Ledger(b')
  BY <1>1, <1>3, SameLedger
<1>5. TimeIsUnion'
  BY <1>3 DEF Crash, BudgetInv, TimeIsUnion
<1>6. /\ job' \in [Drivers -> Job]
      /\ \A f \in Drivers : job'[f] # Idle => job'[f].id \in b.reserved
  BY DEF Crash, BudgetInv, BudgetTypeOK, Job
<1>7. crashes' \in Nat /\ early' \in Nat
  BY DEF Crash, BudgetInv, BudgetTypeOK
<1> QED
  BY <1>3, <1>4, <1>5, <1>6, <1>7, OnlyTimePasses DEF Crash, BudgetInv, BudgetTypeOK

\* Whatever is dispatched was never reserved, so that it is not completed.
LEMMA AdmitsKeeps ==
    ASSUME BudgetInv, BudgetConstants, NEW i \in Ids, Admits(i), now' = now
    PROVE  /\ Ledger(b') /\ b'.reserved = b.reserved \cup {i}
           /\ b'.completed = b.completed /\ i \notin b.completed
           /\ b'.usage["revisions"] = Cardinality(paid)
           /\ TimeIsUnion'
<1>1. /\ i \in Assignments /\ i \notin b.reserved /\ b' = Dispatched(Current, i)
      /\ Blockers(Current, KindOf[i]) = {}
  BY DEF Admits
<1>2. /\ Ledger(Current) /\ Current.checkpoint = now /\ Current.usage["seconds"] <= now
      /\ Current.reserved = b.reserved /\ Current.completed = b.completed
      /\ Current.usage["revisions"] = Cardinality(paid)
  BY CurrentFacts
<1>3. now \in Nat /\ b.completed \subseteq b.reserved
  BY DEF BudgetInv, BudgetTypeOK, Ledger
<1>4. /\ Ledger(b') /\ b'.checkpoint = now /\ b'.usage["seconds"] <= now
      /\ b'.usage["revisions"] = Cardinality(paid)
      /\ b'.reserved = b.reserved \cup {i} /\ b'.completed = b.completed
  BY <1>1, <1>2, <1>3, DispatchedLedger
<1> QED
  BY <1>1, <1>3, <1>4 DEF TimeIsUnion

LEMMA AdmitStep ==
    ASSUME BudgetInv, BudgetConstants, NEW d \in Drivers, NEW i \in Ids, Admit(d, i)
    PROVE  BudgetInv'
<1>1. /\ Ledger(b') /\ b'.reserved = b.reserved \cup {i}
      /\ b'.completed = b.completed /\ i \notin b.completed
      /\ b'.usage["revisions"] = Cardinality(paid)
      /\ TimeIsUnion'
  BY AdmitsKeeps DEF Admit
<1>2. [at |-> "admitted", id |-> i] \in Job
  BY DEF Job
<1>3. /\ pending' \in SUBSET Ids /\ pending' \subseteq pending \cup {i}
      /\ job' \in [Drivers -> Job] /\ early' \in Nat
      /\ \A e \in Drivers : job'[e] # Idle => job'[e].id \in b.reserved \cup {i}
  BY <1>2 DEF Admit, BudgetInv, BudgetTypeOK
<1>4. BudgetTypeOK'
  BY <1>1, <1>3 DEF Admit, BudgetInv, BudgetTypeOK, Ledger
<1> QED
  BY <1>1, <1>3, <1>4 DEF Admit, BudgetInv

LEMMA HostAdmitStep ==
    ASSUME BudgetInv, BudgetConstants, NEW i \in Ids, HostAdmit(i)
    PROVE  BudgetInv'
<1>1. /\ Ledger(b') /\ b'.reserved = b.reserved \cup {i}
      /\ b'.completed = b.completed /\ i \notin b.completed
      /\ b'.usage["revisions"] = Cardinality(paid)
      /\ TimeIsUnion'
  BY AdmitsKeeps DEF HostAdmit
<1>2. BudgetTypeOK'
  BY <1>1 DEF HostAdmit, BudgetInv, BudgetTypeOK, Ledger
<1> QED
  BY <1>1, <1>2 DEF HostAdmit, BudgetInv

\* A completion: what it brings has been waited for, and is paid for once.
LEMMA CompletesKeeps ==
    ASSUME BudgetInv, BudgetConstants, NEW i \in b.reserved, NEW changed \in BOOLEAN,
           NEW cost \in Nat, changed => i \in pending \cap TakesRevision,
           b' = Completed(Current, i, changed, cost),
           pending' \subseteq pending \ {i},
           paid' = IF changed THEN paid \cup {i} ELSE paid,
           now' = now, worked' = worked, crashes' = crashes, early' = early,
           job' \in [Drivers -> Job],
           \A d \in Drivers : job'[d] # Idle => job'[d].id \in b.reserved
    PROVE  BudgetInv'
<1>1. /\ Ledger(Current) /\ Current.checkpoint = now /\ Current.usage["seconds"] <= now
      /\ Current.reserved = b.reserved /\ Current.completed = b.completed
      /\ Current.usage["revisions"] = Cardinality(paid)
  BY CurrentFacts
<1>2. changed => i \in TakesRevision
  OBVIOUS
<1>3. /\ Ledger(b') /\ b'.checkpoint = now /\ b'.usage["seconds"] <= now
      /\ b'.usage["revisions"] =
           Cardinality(paid) + IF changed /\ i \notin b.completed THEN 1 ELSE 0
      /\ b'.reserved = b.reserved /\ b'.completed = b.completed \cup {i}
  BY <1>1, <1>2, CompletedLedger
<1>4. paid \in SUBSET Ids /\ i \in Ids /\ now \in Nat
  BY DEF BudgetInv, BudgetTypeOK, Budget
<1>5. IsFiniteSet(paid) /\ Cardinality(paid) \in Nat
  BY <1>4, FiniteIds
<1>6. b'.usage["revisions"] = Cardinality(paid')
  <2>1. CASE changed
    <3>1. i \notin b.completed /\ i \notin paid
      BY <2>1 DEF BudgetInv
    <3> QED
      BY <1>3, <1>5, <2>1, <3>1, FS_AddElement
  <2>2. CASE ~changed
    BY <1>3, <1>5, <2>2
  <2> QED
    BY <2>1, <2>2
<1>7. TimeIsUnion'
  BY <1>3, <1>4 DEF TimeIsUnion
<1>8. BudgetTypeOK'
  BY <1>3, <1>4 DEF BudgetInv, BudgetTypeOK, Ledger
<1>9. pending' \subseteq b'.reserved \ b'.completed /\ paid' \subseteq b'.completed
  BY <1>3 DEF BudgetInv
<1> QED
  BY <1>3, <1>6, <1>7, <1>8, <1>9 DEF BudgetInv

LEMMA FinishStep ==
    ASSUME BudgetInv, BudgetConstants, NEW d \in Drivers, Finish(d)
    PROVE  BudgetInv'
<1>1. job[d].id \in b.reserved
  BY JobFacts DEF Finish
<1>2. /\ job' \in [Drivers -> Job]
      /\ \A e \in Drivers : job'[e] # Idle => job'[e].id \in b.reserved
  BY DEF Finish, BudgetInv, BudgetTypeOK, Job
<1>3. PICK cost \in 0 .. MaxCost, changed \in BOOLEAN :
        /\ changed => job[d].id \in pending \cap TakesRevision
        /\ b' = Completed(Current, job[d].id, changed, cost)
        /\ pending' = pending \ {job[d].id}
        /\ paid' = IF changed THEN paid \cup {job[d].id} ELSE paid
  BY DEF Finish
<1>4. cost \in Nat
  BY <1>3 DEF BudgetConstants
<1> QED
  BY <1>1, <1>2, <1>3, <1>4, CompletesKeeps DEF Finish

LEMMA HostReportStep ==
    ASSUME BudgetInv, BudgetConstants, NEW i \in Ids, HostReport(i)
    PROVE  BudgetInv'
<1>1. i \in b.reserved
  BY DEF HostReport
<1>2. /\ job' \in [Drivers -> Job]
      /\ \A e \in Drivers : job'[e] # Idle => job'[e].id \in b.reserved
  BY DEF HostReport, BudgetInv, BudgetTypeOK
<1>3. PICK cost \in 0 .. MaxCost, changed \in BOOLEAN :
        /\ changed => i \in pending \cap TakesRevision
        /\ b' = Completed(Current, i, changed, cost)
        /\ pending' = pending \ {i}
        /\ paid' = IF changed THEN paid \cup {i} ELSE paid
  BY DEF HostReport
<1>4. cost \in Nat
  BY <1>3 DEF BudgetConstants
<1> QED
  BY <1>1, <1>2, <1>3, <1>4, CompletesKeeps DEF HostReport

LEMMA ReportUsageStep ==
    ASSUME BudgetInv, BudgetConstants, NEW d \in Drivers, ReportUsage(d)
    PROVE  BudgetInv'
<1>1. /\ Ledger(Current) /\ Current.checkpoint = now /\ Current.usage["seconds"] <= now
      /\ Current.reserved = b.reserved /\ Current.completed = b.completed
      /\ Current.usage["revisions"] = Cardinality(paid)
  BY CurrentFacts
<1>2. PICK cost \in 1 .. MaxCost : b' = Costed(Current, job[d].id, cost)
  BY DEF ReportUsage
<1>3. cost \in Nat /\ job[d].id \in Ids
  <2>1. cost \in Nat
    BY <1>2 DEF BudgetConstants
  <2>2. job[d].id \in Ids
    BY JobFacts DEF ReportUsage
  <2> QED
    BY <2>1, <2>2
<1>4. /\ Ledger(b') /\ b'.checkpoint = now /\ b'.usage["seconds"] <= now
      /\ b'.usage["revisions"] = Cardinality(paid)
      /\ b'.reserved = b.reserved /\ b'.completed = b.completed
  BY <1>1, <1>2, <1>3, CostedFacts
<1>5. TimeIsUnion'
  BY <1>4 DEF ReportUsage, TimeIsUnion, BudgetInv, BudgetTypeOK
<1>6. BudgetTypeOK'
  BY <1>4 DEF ReportUsage, BudgetInv, BudgetTypeOK, Ledger
<1> QED
  BY <1>4, <1>5, <1>6 DEF ReportUsage, BudgetInv

LEMMA FailStep ==
    ASSUME BudgetInv, BudgetConstants, NEW d \in Drivers, Fail(d)
    PROVE  BudgetInv'
<1>1. job[d].id \in b.reserved
  BY JobFacts DEF Fail
<1>2. /\ job' \in [Drivers -> Job]
      /\ \A e \in Drivers : job'[e] # Idle => job'[e].id \in b.reserved
  BY DEF Fail, BudgetInv, BudgetTypeOK, Job
<1>3. /\ b' = Completed(Current, job[d].id, FALSE, 0)
      /\ pending' \subseteq pending \ {job[d].id} /\ paid' = paid
  BY DEF Fail
<1> QED
  BY <1>1, <1>2, <1>3, CompletesKeeps DEF Fail

\* A charge of something that is no assignment touches no pending one.
LEMMA ChargeStep ==
    ASSUME BudgetInv, BudgetConstants, NEW i \in Ids, Charge(i)
    PROVE  BudgetInv'
<1>1. /\ Ledger(Current) /\ Current.checkpoint = now /\ Current.usage["seconds"] <= now
      /\ Current.reserved = b.reserved /\ Current.completed = b.completed
      /\ Current.usage["revisions"] = Cardinality(paid)
  BY CurrentFacts
<1>2. /\ b' = Reserved(Current, i) /\ i \notin Assignments
      /\ i \in Current.reserved \/ Blockers(Current, KindOf[i]) = {}
  BY <1>1 DEF Charge
<1>3. /\ Ledger(b') /\ b'.checkpoint = now /\ b'.usage["seconds"] <= now
      /\ b'.usage["revisions"] = Cardinality(paid)
      /\ b'.reserved = b.reserved \cup {i}
      /\ b'.completed \subseteq b.completed \cup {i}
      /\ i \in b.reserved => b'.completed = b.completed
  BY <1>1, <1>2, ReservedLedger
<1>4. b.completed \subseteq b'.completed
  BY <1>1, <1>2 DEF Reserved, BudgetInv, Ledger, Budget
<1>5. now \in Nat /\ pending' = pending /\ paid' = paid /\ job' = job /\ now' = now
  BY DEF Charge, BudgetInv, BudgetTypeOK
<1>6. TimeIsUnion'
  BY <1>3, <1>5 DEF TimeIsUnion
<1>7. BudgetTypeOK'
  BY <1>3 DEF Charge, BudgetInv, BudgetTypeOK, Ledger
<1>8. pending' \subseteq b'.reserved \ b'.completed
  BY <1>3, <1>5 DEF BudgetInv
<1> QED
  BY <1>3, <1>4, <1>5, <1>6, <1>7, <1>8 DEF BudgetInv

LEMMA ExtendStep ==
    ASSUME BudgetInv, BudgetConstants, Extend
    PROVE  BudgetInv'
<1>1. /\ Ledger(Current) /\ Current.checkpoint = now /\ Current.usage["seconds"] <= now
      /\ Current.reserved = b.reserved /\ Current.completed = b.completed
      /\ Current.usage["revisions"] = Cardinality(paid)
  BY CurrentFacts
<1>2. PICK add \in Grants : b' = Extended(Current, add)
  BY DEF Extend
<1>3. add \in [Keys -> Nat]
  BY <1>2 DEF BudgetConstants
<1>4. /\ Ledger(b') /\ b'.checkpoint = now /\ b'.usage = Current.usage
      /\ b'.reserved = b.reserved /\ b'.completed = b.completed
  BY <1>1, <1>2, <1>3, ExtendedLedger
<1>5. TimeIsUnion'
  BY <1>1, <1>4 DEF Extend, TimeIsUnion, BudgetInv, BudgetTypeOK
<1>6. BudgetTypeOK'
  BY <1>4 DEF Extend, BudgetInv, BudgetTypeOK, Ledger
<1> QED
  BY <1>1, <1>4, <1>5, <1>6 DEF Extend, BudgetInv

-----------------------------------------------------------------------------
\* The empty ledger.
LEMMA InitBudget ==
    ASSUME BudgetConstants, Init
    PROVE  BudgetInv
<1>1. /\ b \in Budget /\ b.reserved = {} /\ b.completed = {} /\ b.limits = InitialLimits
      /\ b.checkpoint = 0 /\ \A k \in Keys : b.usage[k] = 0
  BY DEF Init, NewBudget, Budget, BudgetConstants
<1>2. Held(b) = {} /\ \A k \in Numbered : Charging(b.reserved, k) = {}
  BY <1>1 DEF Held, Charging
<1>3. Cardinality({}) = 0
  BY FS_EmptySet
<1>4. \A k \in Counted : Used(b, k) = 0
  BY <1>1, <1>2, <1>3 DEF Used, Counted, Keys
<1>5. \A k \in Keys : b.limits[k] \in Nat
  BY <1>1 DEF Budget
<1>6. \A k \in Counted : b.limits[k] > 0 => Used(b, k) <= b.limits[k]
  BY <1>4, <1>5 DEF Counted, Keys
<1>7. \A k \in Numbered : b.usage[k] = Cardinality(Charging(b.reserved, k))
  BY <1>1, <1>2, <1>3 DEF Numbered, Keys
<1>8. Ledger(b)
  BY <1>1, <1>6, <1>7 DEF Ledger, BudgetConstants
<1>9. BudgetTypeOK
  BY <1>1 DEF Init, BudgetTypeOK, Job
<1>10. TimeIsUnion /\ b.usage["revisions"] = Cardinality(paid)
  BY <1>1, <1>3 DEF Init, TimeIsUnion, Keys
<1> QED
  BY <1>1, <1>8, <1>9, <1>10 DEF BudgetInv, Init

LEMMA NextBudget ==
    ASSUME BudgetInv, BudgetConstants, [Next]_vars
    PROVE  BudgetInv'
<1>1. CASE Gate \/ Extend \/ Advance
  BY <1>1, GateStep, ExtendStep, AdvanceStep
<1>2. CASE \E i \in Ids : HostAdmit(i) \/ HostReport(i) \/ Charge(i)
  BY <1>2, HostAdmitStep, HostReportStep, ChargeStep
<1>3. CASE \E d \in Drivers : Launch(d) \/ Beat(d) \/ ReportUsage(d) \/ Finish(d) \/ Fail(d)
                              \/ Abandon(d) \/ Crash(d)
  BY <1>3, LaunchStep, BeatStep, ReportUsageStep, FinishStep, FailStep, AbandonStep, CrashStep
<1>4. CASE \E d \in Drivers, i \in Ids : Admit(d, i) \/ Take(d, i)
  BY <1>4, AdmitStep, TakeStep
<1>5. CASE UNCHANGED vars
  BY <1>5 DEF vars, BudgetInv, BudgetTypeOK, TimeIsUnion
<1> QED
  BY <1>1, <1>2, <1>3, <1>4, <1>5 DEF Next

LEMMA BudgetInvariant == Spec => []BudgetInv
<1>1. Init => BudgetInv
  BY InitBudget, BudgetConstants
<1>2. BudgetInv /\ [Next]_vars => BudgetInv'
  BY NextBudget, BudgetConstants
<1> QED
  BY <1>1, <1>2, PTL DEF Spec

\* The ledger of a tree is well-formed, whatever its limits, its drivers and
\* its reservations (budget.go).
THEOREM BudgetTypeCorrect == Spec => []BudgetTypeOK
<1>1. BudgetInv => BudgetTypeOK
  BY DEF BudgetInv
<1> QED
  BY <1>1, BudgetInvariant, PTL

\* No limited count is ever passed, in any order of admissions and results,
\* with crashes and duplicated executions: Blockers counts what Reserve holds.
THEOREM LimitsRespected == Spec => []LimitsHold
<1>1. BudgetInv => LimitsHold
  BY DEF BudgetInv, Ledger, LimitsHold
<1> QED
  BY <1>1, BudgetInvariant, PTL

\* Every reservation and every accepted candidate is charged exactly once
\* (Reserve, Complete).
THEOREM ChargesExact == Spec => []ChargedOnce
<1>1. BudgetInv => ChargedOnce
  BY DEF BudgetInv, Ledger, ChargedOnce, Numbered, Charging
<1> QED
  BY <1>1, BudgetInvariant, PTL

\* A tree is never charged more time than has passed, however many of its
\* drivers and hosts work at once (Tick).
THEOREM TimeBounded == Spec => []TimeIsUnion
<1>1. BudgetInv => TimeIsUnion
  BY DEF BudgetInv
<1> QED
  BY <1>1, BudgetInvariant, PTL

-----------------------------------------------------------------------------
(***************************************************************************)
(* Who is at work, and the time it is charged                              *)
(*                                                                         *)
(* The activities of the ledger are watched by drivers: an open invocation *)
(* that is executed has one activity, its driver's, whose lease runs.  So  *)
(* the units that are charged are those somebody worked in, but for what   *)
(* activities that nobody watches any more still count.                    *)
(***************************************************************************)

Pulse(d, i) ==
    [id |-> i, owner |-> d, seen |-> now, until |-> now + Lease, host |-> FALSE]
Dispatch(i) ==
    [id |-> i, owner |-> None, seen |-> now, until |-> now + Invocation, host |-> TRUE]

\* The activities a tick leaves, and the time charged once it has ticked.
Kept    == {x \in b.activities : now <= x.until}
Charged == b.usage["seconds"] + Cardinality(ActiveUnits(b, now))

\* What each activity is: a beat of a driver, or a reservation before it.
Leased(x) ==
    /\ x.seen <= now
    /\ x.owner # None <=> ~x.host
    /\ x.until <= x.seen + IF x.host THEN Invocation ELSE Lease

Working(d, x) == job[d] = [at |-> "working", id |-> x.id] /\ now < x.until

Watched ==
    /\ \A x, y \in b.activities : x.id = y.id => x = y
    /\ \A x \in b.activities : x.id \in b.reserved /\ x.id \notin b.completed
    /\ \A x \in b.activities : Leased(x)
    /\ \A x \in b.activities : x.owner \in Drivers => Working(x.owner, x)
    /\ \A d \in Drivers : job[d].at = "working" /\ job[d].id \notin b.completed =>
          \E x \in b.activities : x.id = job[d].id /\ x.owner = d

\* Every update charges the time until now, and leaves the activities A.
Updates(A) ==
    /\ b'.checkpoint = now /\ b'.usage["seconds"] = Charged /\ b'.activities = A

LEMMA ActivityFacts ==
    ASSUME BudgetInv, NEW x \in b.activities
    PROVE  /\ x.id \in Ids /\ x.owner \in Owner /\ x.seen \in Nat /\ x.until \in Nat
           /\ x.host \in BOOLEAN
BY DEF BudgetInv, BudgetTypeOK, Budget, Activity

LEMMA TickParts ==
    ASSUME NEW c \in Budget, NEW t \in Nat
    PROVE  /\ Tick(c, t).checkpoint = t
           /\ Tick(c, t).usage["seconds"] = c.usage["seconds"] + Cardinality(ActiveUnits(c, t))
           /\ Tick(c, t).activities = {x \in c.activities : t <= x.until}
           /\ Tick(c, t).completed = c.completed
<1> DEFINE n == Cardinality(ActiveUnits(c, t))
<1> HIDE DEF n
<1>1. c.usage \in [Keys -> Nat]
  BY DEF Budget
<1>2. Tick(c, t) = [c EXCEPT !.usage = [c.usage EXCEPT !["seconds"] = @ + n],
                             !.checkpoint = t,
                             !.activities = {a \in c.activities : t <= a.until}]
  BY DEF Tick, n, Budget
<1>3. [c.usage EXCEPT !["seconds"] = @ + n]["seconds"] = c.usage["seconds"] + n
  BY <1>1 DEF Keys
<1> QED
  BY <1>2, <1>3 DEF Budget, n

LEMMA CurrentParts ==
    ASSUME BudgetInv
    PROVE  /\ Current \in Budget
           /\ Current.checkpoint = now /\ Current.usage["seconds"] = Charged
           /\ Current.activities = Kept
<1>1. b \in Budget /\ now \in Nat /\ b.checkpoint <= now
  BY DEF BudgetInv, BudgetTypeOK, TimeIsUnion
<1>2. Tick(b, now) \in Budget
  BY <1>1, TickFacts DEF SameCounts
<1> QED
  BY <1>1, <1>2, TickParts DEF Current, Charged, Kept

LEMMA ReservedActivities ==
    ASSUME NEW c \in Budget, NEW i \in Ids
    PROVE  Reserved(c, i).activities = c.activities
BY DEF Reserved, Budget

LEMMA DispatchedActivities ==
    ASSUME NEW c \in Budget, NEW i \in Ids
    PROVE  Dispatched(c, i).activities = c.activities \cup {Dispatch(i)}
<1> DEFINE r == Reserved(c, i)
<1>1. r.activities = c.activities
  BY ReservedActivities
<1>2. [r EXCEPT !.activities = r.activities \cup {Dispatch(i)}].activities
         = r.activities \cup {Dispatch(i)}
  BY DEF Reserved, Budget
<1>3. Dispatched(c, i) = [r EXCEPT !.activities = r.activities \cup {Dispatch(i)}]
  BY DEF Dispatched, Dispatch
<1> QED
  BY <1>1, <1>2, <1>3

LEMMA CompletedActivities ==
    ASSUME NEW c, Ledger(c), NEW i \in Ids, NEW changed, NEW cost \in Nat
    PROVE  Completed(c, i, changed, cost).activities = Without(c.activities, i)
<1> DEFINE e == Costed(c, i, cost)
<1>1. Ledger(e) /\ e.activities = c.activities
  BY CostedFacts
<1> HIDE DEF e
<1>2. Completed(c, i, changed, cost) =
        [e EXCEPT !.usage = [k \in Keys |-> e.usage[k] + IF k = "revisions" THEN Made(c, i, changed) ELSE 0],
                  !.reserved = e.reserved \cup {i}, !.completed = e.completed \cup {i},
                  !.activities = Without(e.activities, i)]
  BY <1>1 DEF Completed, e, Ledger, Budget
<1> QED
  BY <1>1, <1>2 DEF Ledger, Budget

LEMMA ExtendedActivities ==
    ASSUME NEW c \in Budget, NEW add
    PROVE  Extended(c, add).activities = c.activities
BY DEF Extended, Budget

\* A driver's own beat counts to the present, as it did before.
LEMMA OwnBeatUnits ==
    ASSUME BudgetInv, Watched, BudgetConstants, NEW d \in Drivers, NEW i \in Ids, Owns(b, d, i)
    PROVE  ActiveUnits(Beating(b, d, i), now) = ActiveUnits(b, now)
<1>1. /\ b \in Budget /\ now \in Nat /\ b.checkpoint \in Nat /\ Lease \in Nat \ {0}
  BY DEF BudgetInv, BudgetTypeOK, Budget, BudgetConstants
<1>2. /\ Beating(b, d, i).checkpoint = b.checkpoint
      /\ Beating(b, d, i).activities = Without(b.activities, i) \cup {Pulse(d, i)}
  BY <1>1 DEF Beating, Budget, Pulse
<1>3. PICK y \in b.activities : y.id = i /\ y.owner = d
  BY DEF Owns
<1>4. now < y.until /\ y.until \in Nat
  BY <1>3, ActivityFacts DEF Watched, Working
<1>5. CountsUntil(y, now) = now /\ CountsUntil(Pulse(d, i), now) = now
  BY <1>1, <1>4 DEF CountsUntil, Pulse
<1>6. b.activities = Without(b.activities, i) \cup {y}
  BY <1>3 DEF Watched, Without
<1>7. \A u : (\E x \in b.activities : u < CountsUntil(x, now)) <=>
             (\E x \in Without(b.activities, i) \cup {Pulse(d, i)} : u < CountsUntil(x, now))
  <2> HIDE DEF Pulse
  <2> QED
    BY <1>5, <1>6
<1> QED
  BY <1>2, <1>7 DEF ActiveUnits

LEMMA TickedParts ==
    ASSUME BudgetInv, Watched, BudgetConstants, NEW d \in Drivers, NEW i \in Ids
    PROVE  /\ Ticked(b, d, i).checkpoint = now
           /\ Ticked(b, d, i).usage["seconds"] = Charged
           /\ Ticked(b, d, i).completed = b.completed
           /\ Ticked(b, d, i).activities =
                 IF Owns(b, d, i) THEN Without(Kept, i) \cup {Pulse(d, i)} ELSE Kept
<1>1. b \in Budget /\ now \in Nat /\ Lease \in Nat
  BY DEF BudgetInv, BudgetTypeOK, BudgetConstants
<1>2. CASE Owns(b, d, i)
  <2> DEFINE e == Beating(b, d, i)
  <2>1. /\ SameCounts(b, e) /\ e.usage = b.usage
    BY <1>1, BeatingFacts
  <2>2. e.activities = Without(b.activities, i) \cup {Pulse(d, i)}
    BY <1>1 DEF Beating, Budget, Pulse
  <2>3. ActiveUnits(e, now) = ActiveUnits(b, now)
    BY <1>2, OwnBeatUnits
  <2>4. Ticked(b, d, i) = Tick(e, now)
    BY <1>2 DEF Ticked
  <2> HIDE DEF e
  <2>5. e \in Budget /\ e.completed = b.completed
    BY <2>1 DEF SameCounts
  <2>6. /\ Tick(e, now).checkpoint = now
        /\ Tick(e, now).usage["seconds"] = e.usage["seconds"] + Cardinality(ActiveUnits(e, now))
        /\ Tick(e, now).activities = {x \in e.activities : now <= x.until}
        /\ Tick(e, now).completed = e.completed
    BY <1>1, <2>5, TickParts
  <2>7. {x \in e.activities : now <= x.until} = Without(Kept, i) \cup {Pulse(d, i)}
    BY <1>1, <2>2 DEF Kept, Without, Pulse
  <2> QED
    BY <1>2, <2>1, <2>3, <2>4, <2>5, <2>6, <2>7 DEF Charged
<1>3. CASE ~Owns(b, d, i)
  BY <1>1, <1>3, TickParts DEF Ticked, Charged, Kept
<1> QED
  BY <1>2, <1>3

LEMMA BeatenParts ==
    ASSUME BudgetInv, Watched, BudgetConstants, NEW d \in Drivers, NEW i \in Ids
    PROVE  /\ Beaten(b, d, i).checkpoint = now
           /\ Beaten(b, d, i).usage["seconds"] = Charged
           /\ Beaten(b, d, i).activities =
                 IF i \in b.completed THEN Kept ELSE Without(Kept, i) \cup {Pulse(d, i)}
<1> DEFINE t == Ticked(b, d, i)
<1>1. /\ t.checkpoint = now /\ t.usage["seconds"] = Charged /\ t.completed = b.completed
      /\ t.activities = IF Owns(b, d, i) THEN Without(Kept, i) \cup {Pulse(d, i)} ELSE Kept
  BY TickedParts
<1>2. t \in Budget /\ Beaten(b, d, i) = IF i \in t.completed THEN t ELSE Beating(t, d, i)
  <2>1. Ledger(t)
    BY TickedFacts DEF BudgetInv, BudgetTypeOK, TimeIsUnion
  <2> QED
    BY <2>1 DEF Ledger, Beaten
<1>3. /\ Beating(t, d, i).checkpoint = t.checkpoint /\ Beating(t, d, i).usage = t.usage
      /\ Beating(t, d, i).activities = Without(t.activities, i) \cup {Pulse(d, i)}
  BY <1>2 DEF Beating, Budget, Pulse
<1> HIDE DEF t
<1>4. i \in b.completed => ~Owns(b, d, i)
  BY DEF Owns, Watched
<1>5. Without(t.activities, i) = Without(Kept, i)
  BY <1>1 DEF Without, Pulse
<1> QED
  BY <1>1, <1>2, <1>3, <1>4, <1>5

-----------------------------------------------------------------------------
\* The activity of a driver is kept while its lease runs.
LEMMA OwnedKept ==
    ASSUME BudgetInv, Watched, NEW x \in b.activities, x.owner \in Drivers
    PROVE  x \in Kept /\ job[x.owner] = [at |-> "working", id |-> x.id]
BY ActivityFacts DEF Watched, Working, Kept, BudgetInv, BudgetTypeOK

\* Activities end, drivers stop: whoever goes on keeps its activity.
LEMMA WatchedEnds ==
    ASSUME BudgetInv, Watched, now' = now,
           b'.activities \subseteq b.activities,
           \A x \in b'.activities : x.id \in b'.reserved /\ x.id \notin b'.completed,
           \A x \in b'.activities : x.owner \in Drivers => job'[x.owner] = job[x.owner],
           \A d \in Drivers : job'[d].at = "working" /\ job'[d].id \notin b'.completed =>
               /\ job'[d] = job[d] /\ job[d].id \notin b.completed
               /\ \A x \in b.activities : x.id = job[d].id /\ x.owner = d => x \in b'.activities
    PROVE  Watched'
<1>1. \A x, y \in b'.activities : x.id = y.id => x = y
  BY DEF Watched
<1>2. \A x \in b'.activities : Leased(x)'
  BY DEF Watched, Leased
<1>3. \A x \in b'.activities : x.owner \in Drivers => Working(x.owner, x)'
  BY DEF Watched, Working
<1>4. \A d \in Drivers : job'[d].at = "working" /\ job'[d].id \notin b'.completed =>
          \E x \in b'.activities : x.id = job'[d].id /\ x.owner = d
  BY DEF Watched
<1> QED
  BY <1>1, <1>2, <1>3, <1>4 DEF Watched

\* An activity of a new reservation.
LEMMA WatchedAdmits ==
    ASSUME BudgetInv, Watched, BudgetConstants, now' = now, NEW i \in Ids \ b.reserved,
           b'.activities = Kept \cup {Dispatch(i)},
           b'.reserved = b.reserved \cup {i}, b'.completed = b.completed,
           \A d \in Drivers : job'[d] = job[d] \/ (job[d] = Idle /\ job'[d].at = "admitted")
    PROVE  Watched'
<1>0. /\ now \in Nat /\ Invocation \in Nat /\ None \notin Drivers
      /\ b.completed \subseteq b.reserved
  BY DEF BudgetInv, BudgetTypeOK, BudgetConstants, Ledger
<1>1. \A x \in Kept : x \in b.activities /\ x.id # i
  BY DEF Watched, Kept
<1>2. /\ Dispatch(i).id = i /\ Dispatch(i).owner = None /\ Leased(Dispatch(i))
  BY <1>0 DEF Dispatch, Leased
<1> HIDE DEF Dispatch
<1>3. \A x, y \in b'.activities : x.id = y.id => x = y
  BY <1>1, <1>2 DEF Watched
<1>4. \A x \in b'.activities : x.id \in b'.reserved /\ x.id \notin b'.completed
  BY <1>0, <1>1, <1>2 DEF Watched
<1>5. \A x \in b'.activities : Leased(x)'
  BY <1>1, <1>2 DEF Watched, Leased
<1>6. \A x \in b'.activities : x.owner \in Drivers => Working(x.owner, x)'
  <2> SUFFICES ASSUME NEW x \in b'.activities, x.owner \in Drivers
               PROVE  Working(x.owner, x)'
    OBVIOUS
  <2>1. x \in b.activities
    BY <1>0, <1>1, <1>2
  <2>2. Working(x.owner, x)
    BY <2>1 DEF Watched
  <2> QED
    BY <2>2 DEF Working, Idle
<1>7. \A d \in Drivers : job'[d].at = "working" /\ job'[d].id \notin b'.completed =>
          \E x \in b'.activities : x.id = job'[d].id /\ x.owner = d
  <2> SUFFICES ASSUME NEW d \in Drivers, job'[d].at = "working", job'[d].id \notin b'.completed
               PROVE  \E x \in b'.activities : x.id = job'[d].id /\ x.owner = d
    OBVIOUS
  <2>1. job'[d] = job[d]
    OBVIOUS
  <2>2. PICK x \in b.activities : x.id = job[d].id /\ x.owner = d
    BY <2>1 DEF Watched
  <2> QED
    BY <2>1, <2>2, OwnedKept
<1> QED
  BY <1>3, <1>4, <1>5, <1>6, <1>7 DEF Watched

\* A beat of a driver that nobody else's lease kept out.
LEMMA WatchedBeats ==
    ASSUME BudgetInv, Watched, BudgetConstants, now' = now, NEW d \in Drivers,
           job'[d] = [at |-> "working", id |-> job[d].id],
           job[d].id \in b.reserved, job[d].id \notin b.completed,
           b'.activities = Without(Kept, job[d].id) \cup {Pulse(d, job[d].id)},
           b'.reserved = b.reserved, b'.completed = b.completed,
           \A e \in Drivers \ {d} : job'[e] = job[e],
           \A x \in b.activities : x.id = job[d].id => x.owner \notin Drivers \ {d}
    PROVE  Watched'
<1> DEFINE i == job[d].id
           p == Pulse(d, i)
           A == Without(Kept, i)
<1>0. /\ now \in Nat /\ Lease \in Nat \ {0} /\ None \notin Drivers
  BY DEF BudgetInv, BudgetTypeOK, BudgetConstants
<1>1. \A x \in A : x \in b.activities /\ x.id # i /\ x.owner # d
  <2>1. \A x \in A : x \in b.activities /\ x.id # i
    BY DEF Without, Kept
  <2>2. \A x \in b.activities : x.owner = d => x.id = i
    <3> SUFFICES ASSUME NEW x \in b.activities, x.owner = d PROVE x.id = i
      OBVIOUS
    <3>1. job[d] = [at |-> "working", id |-> x.id]
      BY OwnedKept
    <3> QED
      BY <3>1
  <2> QED
    BY <2>1, <2>2
<1>2. /\ p.id = i /\ p.owner = d /\ Leased(p) /\ now < p.until
  BY <1>0 DEF Pulse, Leased
<1>3. b'.activities = A \cup {p}
  OBVIOUS
<1>4. \A x \in b.activities : x.owner \in Drivers \ {d} => x \in A
  BY OwnedKept DEF Without
<1> HIDE DEF p, A
<1>5. \A x, y \in b'.activities : x.id = y.id => x = y
  BY <1>1, <1>2, <1>3 DEF Watched
<1>6. \A x \in b'.activities : x.id \in b'.reserved /\ x.id \notin b'.completed
  BY <1>1, <1>2, <1>3 DEF Watched
<1>7. \A x \in b'.activities : Leased(x)'
  BY <1>1, <1>2, <1>3 DEF Watched, Leased
<1>8. \A x \in b'.activities : x.owner \in Drivers => Working(x.owner, x)'
  BY <1>1, <1>2, <1>3 DEF Watched, Working
<1>9. \A e \in Drivers : job'[e].at = "working" /\ job'[e].id \notin b'.completed =>
          \E x \in b'.activities : x.id = job'[e].id /\ x.owner = e
  BY <1>2, <1>3, <1>4 DEF Watched
<1> QED
  BY <1>5, <1>6, <1>7, <1>8, <1>9 DEF Watched

\* Foreign leases of a beaten ledger are those of the ledger before.
LEMMA ForeignFacts ==
    ASSUME BudgetInv, Watched, BudgetConstants, NEW d \in Drivers, NEW i \in Ids
    PROVE  Foreign(Ticked(b, d, i), d, i) <=> Foreign(b, d, i)
<1>1. Ticked(b, d, i).activities =
         IF Owns(b, d, i) THEN Without(Kept, i) \cup {Pulse(d, i)} ELSE Kept
  BY TickedParts
<1>2. CASE Owns(b, d, i)
  BY <1>1, <1>2 DEF Foreign, Owns, Watched, Without, Pulse
<1>3. CASE ~Owns(b, d, i)
  <2>1. \A x \in b.activities : now < x.until => x \in Kept
    BY ActivityFacts DEF Kept, BudgetInv, BudgetTypeOK
  <2> QED
    BY <1>1, <1>3, <2>1 DEF Foreign, Kept
<1> QED
  BY <1>2, <1>3

-----------------------------------------------------------------------------
\* What is kept is open.
LEMMA OpenKept ==
    ASSUME Watched
    PROVE  \A x \in Kept : x.id \in b.reserved /\ x.id \notin b.completed
BY DEF Watched, Kept

\* An update that ends no work.
LEMMA WatchedPasses ==
    ASSUME BudgetInv, Watched, now' = now, job' = job, b'.activities = Kept,
           b.reserved \subseteq b'.reserved, b.completed \subseteq b'.completed,
           \A x \in Kept : x.id \notin b'.completed
    PROVE  Watched'
<1>1. Kept \subseteq b.activities
  BY DEF Kept
<1>2. \A x \in b'.activities : x.id \in b'.reserved /\ x.id \notin b'.completed
  BY <1>1 DEF Watched
<1>3. \A d \in Drivers : job'[d].at = "working" /\ job'[d].id \notin b'.completed =>
               /\ job'[d] = job[d] /\ job[d].id \notin b.completed
               /\ \A x \in b.activities : x.id = job[d].id /\ x.owner = d => x \in b'.activities
  BY OwnedKept
<1> QED
  BY <1>1, <1>2, <1>3, WatchedEnds

\* The steps, one by one: what they charge, and who is at work after them.
LEMMA GateWatched ==
    ASSUME BudgetInv, Watched, BudgetConstants, Gate
    PROVE  Updates(Kept) /\ Watched'
<1>1. /\ b' = Current /\ job' = job /\ now' = now
      /\ b'.reserved = b.reserved /\ b'.completed = b.completed
  BY CurrentFacts DEF Gate
<1>2. Updates(Kept)
  BY <1>1, CurrentParts DEF Updates
<1>3. Watched'
  BY <1>1, <1>2, WatchedPasses, OpenKept DEF Updates
<1> QED
  BY <1>2, <1>3

LEMMA ExtendWatched ==
    ASSUME BudgetInv, Watched, BudgetConstants, Extend
    PROVE  Updates(Kept) /\ Watched'
<1>1. PICK add \in Grants : b' = Extended(Current, add)
  BY DEF Extend
<1>2. add \in [Keys -> Nat] /\ Ledger(Current)
  BY <1>1, CurrentFacts DEF BudgetConstants
<1>3. /\ b'.usage = Current.usage /\ b'.checkpoint = Current.checkpoint
      /\ b'.reserved = b.reserved /\ b'.completed = b.completed
  BY <1>1, <1>2, CurrentFacts, ExtendedLedger
<1>4. b'.activities = Kept /\ job' = job /\ now' = now
  BY <1>1, CurrentParts, ExtendedActivities DEF Extend
<1>5. Updates(Kept)
  BY <1>3, <1>4, CurrentParts DEF Updates
<1>6. Watched'
  BY <1>3, <1>4, WatchedPasses, OpenKept
<1> QED
  BY <1>5, <1>6

LEMMA ReportUsageWatched ==
    ASSUME BudgetInv, Watched, BudgetConstants, NEW d \in Drivers, ReportUsage(d)
    PROVE  Updates(Kept) /\ Watched'
<1>1. PICK cost \in 1 .. MaxCost : b' = Costed(Current, job[d].id, cost)
  BY DEF ReportUsage
<1>2. cost \in Nat
  BY <1>1 DEF BudgetConstants
<1>3. job[d].id \in Ids /\ Ledger(Current)
  BY JobFacts, CurrentFacts DEF ReportUsage
<1>4. /\ b'.usage["seconds"] = Current.usage["seconds"] /\ b'.checkpoint = Current.checkpoint
      /\ b'.reserved = b.reserved /\ b'.completed = b.completed
      /\ b'.activities = Current.activities
  BY <1>1, <1>2, <1>3, CurrentFacts, CostedFacts
<1>5. Updates(Kept)
  BY <1>4, CurrentParts DEF Updates
<1>6. job' = job /\ now' = now
  BY DEF ReportUsage
<1>7. Watched'
  BY <1>4, <1>5, <1>6, WatchedPasses, OpenKept DEF Updates
<1> QED
  BY <1>5, <1>7

LEMMA ChargeWatched ==
    ASSUME BudgetInv, Watched, BudgetConstants, NEW i \in Ids, Charge(i)
    PROVE  Updates(Kept) /\ Watched'
<1>1. /\ b' = Reserved(Current, i) /\ job' = job /\ now' = now
      /\ i \in Current.reserved \/ Blockers(Current, KindOf[i]) = {}
  BY CurrentFacts DEF Charge
<1>2. /\ b'.usage["seconds"] = Current.usage["seconds"] /\ b'.checkpoint = Current.checkpoint
      /\ b'.reserved = b.reserved \cup {i} /\ b'.completed \subseteq b.completed \cup {i}
      /\ i \in b.reserved => b'.completed = b.completed
  BY <1>1, CurrentFacts, ReservedLedger
<1>3. b'.activities = Kept
  BY <1>1, CurrentParts, ReservedActivities
<1>4. b.completed \subseteq b'.completed
  BY <1>1, CurrentFacts DEF Reserved, Ledger, Budget
<1>5. Updates(Kept)
  BY <1>2, <1>3, CurrentParts DEF Updates
<1>6. Watched'
  BY <1>1, <1>2, <1>3, <1>4, WatchedPasses, OpenKept
<1> QED
  BY <1>5, <1>6

LEMMA AdmitsWatched ==
    ASSUME BudgetInv, Watched, BudgetConstants, NEW i \in Ids, Admits(i), now' = now,
           \A d \in Drivers : job'[d] = job[d] \/ (job[d] = Idle /\ job'[d].at = "admitted")
    PROVE  Updates(Kept \cup {Dispatch(i)}) /\ Watched'
<1>1. /\ i \in Assignments /\ i \notin b.reserved /\ b' = Dispatched(Current, i)
      /\ Blockers(Current, KindOf[i]) = {} /\ now \in Nat
  BY DEF Admits, BudgetInv, BudgetTypeOK
<1>2. /\ b'.usage["seconds"] = Current.usage["seconds"] /\ b'.checkpoint = Current.checkpoint
      /\ b'.reserved = b.reserved \cup {i} /\ b'.completed = b.completed
  BY <1>1, CurrentFacts, DispatchedLedger
<1>3. b'.activities = Kept \cup {Dispatch(i)}
  BY <1>1, CurrentParts, DispatchedActivities
<1>4. Updates(Kept \cup {Dispatch(i)})
  BY <1>2, <1>3, CurrentParts DEF Updates
<1>5. Watched'
  BY <1>1, <1>2, <1>3, WatchedAdmits
<1> QED
  BY <1>4, <1>5

\* The driver that ends i, or loses it, goes idle; its activity ends with it.
LEMMA CompletesWatched ==
    ASSUME BudgetInv, Watched, BudgetConstants, NEW i \in b.reserved, NEW changed \in BOOLEAN,
           NEW cost \in Nat, changed => i \in TakesRevision,
           b' = Completed(Current, i, changed, cost), now' = now,
           \A d \in Drivers : job'[d] = job[d] \/ (job[d].id = i /\ job'[d] = Idle)
    PROVE  Updates(Without(Kept, i)) /\ Watched'
<1>1. /\ b'.usage["seconds"] = Current.usage["seconds"] /\ b'.checkpoint = Current.checkpoint
      /\ b'.reserved = b.reserved /\ b'.completed = b.completed \cup {i}
  BY CurrentFacts, CompletedLedger
<1>2. b'.activities = Without(Kept, i)
  BY CurrentFacts, CurrentParts, CompletedActivities DEF BudgetInv, BudgetTypeOK, Budget
<1>3. Updates(Without(Kept, i))
  BY <1>1, <1>2, CurrentParts DEF Updates
<1>4. \A x \in Without(Kept, i) : x \in b.activities /\ x.id # i
  BY DEF Without, Kept
<1>5. \A x \in Without(Kept, i) : x.owner \in Drivers => job'[x.owner] = job[x.owner]
  <2> SUFFICES ASSUME NEW x \in Without(Kept, i), x.owner \in Drivers
               PROVE  job'[x.owner] = job[x.owner]
    OBVIOUS
  <2>1. job[x.owner] = [at |-> "working", id |-> x.id] /\ x.id # i
    BY <1>4, OwnedKept
  <2> QED
    BY <2>1
<1>6. \A d \in Drivers : job'[d].at = "working" /\ job'[d].id \notin b'.completed =>
               /\ job'[d] = job[d] /\ job[d].id \notin b.completed
               /\ \A x \in b.activities : x.id = job[d].id /\ x.owner = d => x \in b'.activities
  <2> SUFFICES ASSUME NEW d \in Drivers, job'[d].at = "working", job'[d].id \notin b'.completed
               PROVE  /\ job'[d] = job[d] /\ job[d].id \notin b.completed
                      /\ \A x \in b.activities : x.id = job[d].id /\ x.owner = d
                              => x \in b'.activities
    OBVIOUS
  <2>1. job'[d] = job[d]
    BY DEF Idle
  <2>2. job[d].id \notin b.completed /\ job[d].id # i
    BY <1>1, <2>1
  <2>3. \A x \in b.activities : x.id = job[d].id /\ x.owner = d => x \in Without(Kept, i)
    BY <2>2, OwnedKept DEF Without
  <2> QED
    BY <1>2, <2>1, <2>2, <2>3
<1>7. \A x \in b'.activities : x.id \in b'.reserved /\ x.id \notin b'.completed
  BY <1>1, <1>2, <1>4 DEF Watched
<1>8. b'.activities \subseteq b.activities
  BY <1>2, <1>4
<1>9. Watched'
  BY <1>2, <1>5, <1>6, <1>7, <1>8, WatchedEnds
<1> QED
  BY <1>3, <1>9

LEMMA FinishWatched ==
    ASSUME BudgetInv, Watched, BudgetConstants, NEW d \in Drivers, Finish(d)
    PROVE  Updates(Without(Kept, job[d].id)) /\ Watched'
<1>1. job[d].id \in b.reserved /\ now' = now
  BY JobFacts DEF Finish
<1>2. \A e \in Drivers : job'[e] = job[e] \/ (job[e].id = job[d].id /\ job'[e] = Idle)
  <2>1. job' = [job EXCEPT ![d] = Idle] /\ job \in [Drivers -> Job]
    BY DEF Finish, BudgetInv, BudgetTypeOK
  <2> QED
    BY <2>1
<1>3. PICK cost \in 0 .. MaxCost, changed \in BOOLEAN :
        /\ changed => job[d].id \in pending \cap TakesRevision
        /\ b' = Completed(Current, job[d].id, changed, cost)
  BY DEF Finish
<1>4. cost \in Nat
  BY <1>3 DEF BudgetConstants
<1> QED
  BY <1>1, <1>2, <1>3, <1>4, CompletesWatched

LEMMA HostReportWatched ==
    ASSUME BudgetInv, Watched, BudgetConstants, NEW i \in Ids, HostReport(i)
    PROVE  Updates(Without(Kept, i)) /\ Watched'
<1>1. i \in b.reserved /\ now' = now /\ job' = job
  BY DEF HostReport
<1>2. PICK cost \in 0 .. MaxCost, changed \in BOOLEAN :
        /\ changed => i \in pending \cap TakesRevision
        /\ b' = Completed(Current, i, changed, cost)
  BY DEF HostReport
<1>3. cost \in Nat /\ (changed => i \in TakesRevision)
  BY <1>2 DEF BudgetConstants
<1>4. \A d \in Drivers : job'[d] = job[d] \/ (job[d].id = i /\ job'[d] = Idle)
  BY <1>1
<1> HIDE DEF Idle
<1> QED
  BY <1>1, <1>2, <1>3, <1>4, CompletesWatched

LEMMA FailWatched ==
    ASSUME BudgetInv, Watched, BudgetConstants, NEW d \in Drivers, Fail(d)
    PROVE  Updates(Without(Kept, job[d].id)) /\ Watched'
<1>1. job[d].id \in b.reserved /\ now' = now /\ b' = Completed(Current, job[d].id, FALSE, 0)
  BY JobFacts DEF Fail
<1>2. \A e \in Drivers : job'[e] = job[e] \/ (job[e].id = job[d].id /\ job'[e] = Idle)
  <2>1. job' = [job EXCEPT ![d] = Idle] /\ job \in [Drivers -> Job]
    BY DEF Fail, BudgetInv, BudgetTypeOK
  <2> QED
    BY <2>1
<1> QED
  BY <1>1, <1>2, CompletesWatched

LEMMA AbandonWatched ==
    ASSUME BudgetInv, Watched, BudgetConstants, NEW d \in Drivers, Abandon(d)
    PROVE  Updates(Without(Kept, job[d].id)) /\ Watched'
<1> DEFINE i == job[d].id
           t == Ticked(b, d, i)
<1>1. /\ i \in Ids /\ i \in b.reserved /\ now' = now /\ now \in Nat /\ job[d].at = "working"
      /\ job \in [Drivers -> Job] /\ job' = [job EXCEPT ![d] = Idle]
  BY JobFacts DEF Abandon, BudgetInv, BudgetTypeOK
<1>2. /\ t.checkpoint = now /\ t.usage["seconds"] = Charged
      /\ t.activities = IF Owns(b, d, i) THEN Without(Kept, i) \cup {Pulse(d, i)} ELSE Kept
  BY <1>1, TickedParts
<1>3. Ledger(t) /\ t.reserved = b.reserved /\ t.completed = b.completed
  BY <1>1, TickedFacts DEF BudgetInv, BudgetTypeOK, TimeIsUnion, SameCounts
<1>4. b' = IF Owns(t, d, i) THEN [t EXCEPT !.activities = Without(t.activities, i)] ELSE t
  BY DEF Abandon
<1>5. ~Owns(b, d, i) => i \in b.completed
  BY <1>1 DEF Watched, Owns
<1>6. CASE Owns(b, d, i)
  <2>1. Owns(t, d, i)
    <3>1. Pulse(d, i) \in t.activities
      BY <1>2, <1>6
    <3>2. Pulse(d, i).id = i /\ Pulse(d, i).owner = d
      BY DEF Pulse
    <3> QED
      BY <3>1, <3>2 DEF Owns
  <2>2. /\ b'.activities = Without(t.activities, i) /\ b'.reserved = b.reserved
        /\ b'.completed = b.completed /\ b'.checkpoint = now /\ b'.usage = t.usage
    BY <1>2, <1>3, <1>4, <2>1 DEF Ledger, Budget
  <2>3. Without(t.activities, i) = Without(Kept, i)
    BY <1>2, <1>6 DEF Without, Pulse
  <2> QED
    <3>1. Updates(Without(Kept, i))
      BY <1>2, <2>2, <2>3 DEF Updates
    <3>2. PICK y \in b.activities : y.id = i /\ y.owner = d
      BY <1>6 DEF Owns
    <3>3. \A x \in Without(Kept, i) : x \in b.activities /\ x.id # i
      BY DEF Without, Kept
    <3>4. \A x \in Without(Kept, i) : x.owner \in Drivers => job'[x.owner] = job[x.owner]
      <4> SUFFICES ASSUME NEW x \in Without(Kept, i), x.owner \in Drivers
                   PROVE  job'[x.owner] = job[x.owner]
        OBVIOUS
      <4>1. job[x.owner] = [at |-> "working", id |-> x.id] /\ x.id # i
        BY <3>3, OwnedKept
      <4> QED
        BY <1>1, <4>1
    <3>5. \A e \in Drivers : job'[e].at = "working" /\ job'[e].id \notin b'.completed =>
               /\ job'[e] = job[e] /\ job[e].id \notin b.completed
               /\ \A x \in b.activities : x.id = job[e].id /\ x.owner = e => x \in b'.activities
      <4> SUFFICES ASSUME NEW e \in Drivers, job'[e].at = "working", job'[e].id \notin b'.completed
                   PROVE  /\ job'[e] = job[e] /\ job[e].id \notin b.completed
                          /\ \A x \in b.activities : x.id = job[e].id /\ x.owner = e
                                  => x \in b'.activities
        OBVIOUS
      <4>1. job'[e] = job[e] /\ e # d
        BY <1>1 DEF Idle
      <4>2. job[e].id \notin b.completed
        BY <2>2, <4>1
      <4>3. \A x \in b.activities : x.id = job[e].id /\ x.owner = e => x.id # i
        BY <3>2, <4>1 DEF Watched
      <4>4. \A x \in b.activities : x.id = job[e].id /\ x.owner = e => x \in Without(Kept, i)
        BY <4>3, OwnedKept DEF Without
      <4> QED
        BY <2>2, <2>3, <4>1, <4>2, <4>4
    <3>6. \A x \in b'.activities : x.id \in b'.reserved /\ x.id \notin b'.completed
      BY <2>2, <2>3, <3>3 DEF Watched
    <3>7. b'.activities \subseteq b.activities
      BY <2>2, <2>3, <3>3
    <3>8. Watched'
      BY <1>1, <2>2, <2>3, <3>4, <3>5, <3>6, <3>7, WatchedEnds
    <3> QED
      BY <3>1, <3>8
<1>7. CASE ~Owns(b, d, i)
  <2>1. ~Owns(t, d, i) /\ \A x \in b.activities : x.id # i
    BY <1>2, <1>5, <1>7 DEF Owns, Kept, Watched
  <2>2. b' = t /\ Without(Kept, i) = Kept
    BY <1>4, <2>1 DEF Without, Kept
  <2>3. Updates(Without(Kept, i))
    BY <1>2, <1>7, <2>2 DEF Updates
  <2>4. \A x \in b.activities : x.owner \in Drivers => x.owner # d
    <3> SUFFICES ASSUME NEW x \in b.activities, x.owner = d PROVE FALSE
      OBVIOUS
    <3>1. job[d] = [at |-> "working", id |-> x.id]
      BY OwnedKept
    <3> QED
      BY <2>1, <3>1
  <2>5. \A e \in Drivers : job'[e].at = "working" => job'[e] = job[e]
    BY <1>1 DEF Idle
  <2>6. b'.activities = Kept /\ Kept \subseteq b.activities
    BY <1>2, <1>7, <2>2 DEF Kept
  <2>7. \A x \in b'.activities : x.id \in b'.reserved /\ x.id \notin b'.completed
    BY <1>3, <2>2, <2>6 DEF Watched
  <2>8. \A x \in b'.activities : x.owner \in Drivers => job'[x.owner] = job[x.owner]
    BY <1>1, <2>4, <2>6
  <2>9. \A e \in Drivers : job'[e].at = "working" /\ job'[e].id \notin b'.completed =>
               /\ job'[e] = job[e] /\ job[e].id \notin b.completed
               /\ \A x \in b.activities : x.id = job[e].id /\ x.owner = e => x \in b'.activities
    <3> SUFFICES ASSUME NEW e \in Drivers, job'[e].at = "working", job'[e].id \notin b'.completed
                 PROVE  /\ job'[e] = job[e] /\ job[e].id \notin b.completed
                        /\ \A x \in b.activities : x.id = job[e].id /\ x.owner = e
                              => x \in b'.activities
      OBVIOUS
    <3>1. job'[e] = job[e] /\ job[e].id \notin b.completed
      BY <1>3, <2>2, <2>5
    <3> QED
      BY <2>6, <3>1, OwnedKept
  <2>10. Watched'
    BY <1>1, <2>6, <2>7, <2>8, <2>9, WatchedEnds
  <2> QED
    BY <2>3, <2>10
<1> QED
  BY <1>6, <1>7

\* A driver that beats for i, or finds it completed: nobody else's runs.
LEMMA BeatsWatched ==
    ASSUME BudgetInv, Watched, BudgetConstants, NEW d \in Drivers,
           job[d].at \in {"admitted", "working"},
           b' = Beaten(b, d, job[d].id), now' = now,
           job' = [job EXCEPT ![d] = [at |-> "working", id |-> job[d].id]],
           job[d].id \in b.completed \/ ~Foreign(b, d, job[d].id)
    PROVE  /\ Watched'
           /\ job[d].id \in b.completed => Updates(Kept)
           /\ job[d].id \notin b.completed =>
                 Updates(Without(Kept, job[d].id) \cup {Pulse(d, job[d].id)})
<1> DEFINE i == job[d].id
<1>1. /\ i \in Ids /\ i \in b.reserved /\ now \in Nat /\ job \in [Drivers -> Job]
  BY JobFacts DEF BudgetInv, BudgetTypeOK
<1>2. /\ b'.checkpoint = now /\ b'.usage["seconds"] = Charged
      /\ b'.activities = IF i \in b.completed THEN Kept
                         ELSE Without(Kept, i) \cup {Pulse(d, i)}
  BY <1>1, BeatenParts
<1>3. b'.reserved = b.reserved /\ b'.completed = b.completed
  BY <1>1, BeatenFacts DEF BudgetInv, BudgetTypeOK, TimeIsUnion, SameCounts
<1>4. /\ job'[d] = [at |-> "working", id |-> i]
      /\ \A e \in Drivers \ {d} : job'[e] = job[e]
  BY <1>1
<1> HIDE DEF i
<1>5. CASE i \notin b.completed
  <2>1. \A x \in b.activities : x.id = i => x.owner \notin Drivers \ {d}
    <3> SUFFICES ASSUME NEW x \in b.activities, x.id = i, x.owner \in Drivers, x.owner # d
                 PROVE  FALSE
      OBVIOUS
    <3>1. now < x.until
      BY DEF Watched, Working
    <3>2. ~x.host
      BY DEF Watched, Leased, BudgetConstants
    <3> QED
      BY <1>5, <3>1, <3>2 DEF Foreign, i
  <2> QED
    BY <1>1, <1>2, <1>3, <1>4, <1>5, <2>1, WatchedBeats DEF Updates, i
<1>6. CASE i \in b.completed
  <2>1. \A x \in b.activities : x.owner \in Drivers => x.owner # d
    <3> SUFFICES ASSUME NEW x \in b.activities, x.owner = d PROVE FALSE
      OBVIOUS
    <3>0. job[x.owner] = [at |-> "working", id |-> x.id]
      BY OwnedKept
    <3>1. job[d] = [at |-> "working", id |-> x.id]
      BY <3>0
    <3> QED
      BY <1>6, <3>1 DEF Watched, i
  <2>2. b'.activities = Kept /\ Kept \subseteq b.activities
    BY <1>2, <1>6 DEF Kept
  <2>3. \A x \in b'.activities : x.id \in b'.reserved /\ x.id \notin b'.completed
    BY <1>3, <2>2 DEF Watched
  <2>4. \A x \in b'.activities : x.owner \in Drivers => job'[x.owner] = job[x.owner]
    BY <1>4, <2>1, <2>2
  <2>5. \A e \in Drivers : job'[e].at = "working" /\ job'[e].id \notin b'.completed =>
               /\ job'[e] = job[e] /\ job[e].id \notin b.completed
               /\ \A x \in b.activities : x.id = job[e].id /\ x.owner = e => x \in b'.activities
    <3> SUFFICES ASSUME NEW e \in Drivers, job'[e].id \notin b'.completed
                 PROVE  /\ job'[e] = job[e] /\ job[e].id \notin b.completed
                        /\ \A x \in b.activities : x.id = job[e].id /\ x.owner = e
                              => x \in b'.activities
      OBVIOUS
    <3>1. e # d
      BY <1>3, <1>4, <1>6
    <3>2. job'[e] = job[e] /\ job[e].id \notin b.completed
      BY <1>3, <1>4, <3>1
    <3> QED
      BY <2>2, <3>2, OwnedKept
  <2>6. Watched'
    BY <2>2, <2>3, <2>4, <2>5, WatchedEnds
  <2> QED
    BY <1>2, <1>6, <2>6 DEF Updates, i
<1> QED
  BY <1>5, <1>6

LEMMA LaunchWatched ==
    ASSUME BudgetInv, Watched, BudgetConstants, NEW d \in Drivers, Launch(d)
    PROVE  /\ Watched'
           /\ \/ b' = b /\ Foreign(b, d, job[d].id) /\ job' = [job EXCEPT ![d] = Idle]
              \/ /\ job' = [job EXCEPT ![d] = [at |-> "working", id |-> job[d].id]]
                 /\ job[d].id \in b.completed => Updates(Kept)
                 /\ job[d].id \notin b.completed =>
                       Updates(Without(Kept, job[d].id) \cup {Pulse(d, job[d].id)})
<1>1. /\ job[d].at = "admitted" /\ now' = now /\ job[d].id \in Ids
      /\ job \in [Drivers -> Job]
  BY JobFacts DEF Launch, BudgetInv, BudgetTypeOK
<1>2. Foreign(Ticked(b, d, job[d].id), d, job[d].id) <=> Foreign(b, d, job[d].id)
  BY <1>1, ForeignFacts
<1>3. CASE ~(job[d].id \in b.completed) /\ Foreign(b, d, job[d].id)
  <2>1. job' = [job EXCEPT ![d] = Idle] /\ b' = b
    BY <1>2, <1>3 DEF Launch
  <2>2. \A x \in b.activities : x.owner \in Drivers => job'[x.owner] = job[x.owner]
    <3> SUFFICES ASSUME NEW x \in b.activities, x.owner \in Drivers
                 PROVE  job'[x.owner] = job[x.owner]
      OBVIOUS
    <3>0. job[x.owner] = [at |-> "working", id |-> x.id]
      BY OwnedKept
    <3>1. job[x.owner].at = "working"
      BY <3>0
    <3> QED
      BY <1>1, <2>1, <3>1
  <2>3. \A e \in Drivers : job'[e].at = "working" => job'[e] = job[e]
    BY <1>1, <2>1 DEF Idle
  <2>4. Watched'
    BY <1>1, <2>1, <2>2, <2>3, WatchedEnds DEF Watched
  <2> QED
    BY <1>3, <2>1, <2>4
<1>4. CASE job[d].id \in b.completed \/ ~Foreign(b, d, job[d].id)
  <2>1. job' = [job EXCEPT ![d].at = "working"] /\ b' = Beaten(b, d, job[d].id)
    BY <1>2, <1>4 DEF Launch
  <2>2. [job[d] EXCEPT !.at = "working"] = [at |-> "working", id |-> job[d].id]
    BY <1>1 DEF Job, Idle
  <2>3. job' = [job EXCEPT ![d] = [at |-> "working", id |-> job[d].id]]
    BY <1>1, <2>1, <2>2
  <2> QED
    BY <1>1, <1>4, <2>1, <2>3, BeatsWatched
<1> QED
  BY <1>3, <1>4

LEMMA BeatWatched ==
    ASSUME BudgetInv, Watched, BudgetConstants, NEW d \in Drivers, Beat(d)
    PROVE  /\ Watched'
           /\ job[d].id \in b.completed => Updates(Kept)
           /\ job[d].id \notin b.completed =>
                 Updates(Without(Kept, job[d].id) \cup {Pulse(d, job[d].id)})
<1>1. /\ job[d].at = "working" /\ now' = now /\ job[d].id \in Ids /\ job' = job
      /\ job \in [Drivers -> Job] /\ b' = Beaten(b, d, job[d].id)
  BY JobFacts DEF Beat, BudgetInv, BudgetTypeOK
<1>2. job[d].id \in b.completed \/ ~Foreign(b, d, job[d].id)
  BY <1>1, ForeignFacts DEF Beat
<1>3. job[d] = [at |-> "working", id |-> job[d].id]
  <2>1. job[d] \in Job /\ job[d] # Idle
    BY <1>1 DEF Idle
  <2> QED
    BY <1>1, <2>1 DEF Job
<1>4. job' = [job EXCEPT ![d] = [at |-> "working", id |-> job[d].id]]
  BY <1>1, <1>3
<1> QED
  BY <1>1, <1>2, <1>4, BeatsWatched

LEMMA AdmitWatched ==
    ASSUME BudgetInv, Watched, BudgetConstants, NEW d \in Drivers, NEW i \in Ids, Admit(d, i)
    PROVE  Updates(Kept \cup {Dispatch(i)}) /\ Watched'
<1>1. /\ Admits(i) /\ now' = now /\ job[d] = Idle /\ job \in [Drivers -> Job]
      /\ job' = job \/ job' = [job EXCEPT ![d] = [at |-> "admitted", id |-> i]]
  BY DEF Admit, BudgetInv, BudgetTypeOK
<1>2. \A e \in Drivers : job'[e] = job[e] \/ (job[e] = Idle /\ job'[e].at = "admitted")
  BY <1>1
<1> QED
  BY <1>1, <1>2, AdmitsWatched

LEMMA HostAdmitWatched ==
    ASSUME BudgetInv, Watched, BudgetConstants, NEW i \in Ids, HostAdmit(i)
    PROVE  Updates(Kept \cup {Dispatch(i)}) /\ Watched'
<1>1. Admits(i) /\ now' = now /\ job' = job
  BY DEF HostAdmit
<1>2. \A e \in Drivers : job'[e] = job[e] \/ (job[e] = Idle /\ job'[e].at = "admitted")
  BY <1>1
<1> QED
  BY <1>1, <1>2, AdmitsWatched

LEMMA TakeWatched ==
    ASSUME BudgetInv, Watched, BudgetConstants, NEW d \in Drivers, NEW i \in Ids, Take(d, i)
    PROVE  Watched'
<1>1. /\ job[d] = Idle /\ b' = b /\ now' = now /\ job \in [Drivers -> Job]
      /\ job' = [job EXCEPT ![d] = [at |-> "admitted", id |-> i]]
  BY DEF Take, BudgetInv, BudgetTypeOK
<1>2. \A x \in b.activities : x.owner \in Drivers => job'[x.owner] = job[x.owner]
  <2> SUFFICES ASSUME NEW x \in b.activities, x.owner \in Drivers
               PROVE  job'[x.owner] = job[x.owner]
    OBVIOUS
  <2>0. job[x.owner] = [at |-> "working", id |-> x.id]
    BY OwnedKept
  <2>1. job[x.owner].at = "working"
    BY <2>0
  <2> QED
    BY <1>1, <2>1 DEF Idle
<1>3. \A e \in Drivers : job'[e].at = "working" => job'[e] = job[e]
  BY <1>1
<1> QED
  BY <1>1, <1>2, <1>3, WatchedEnds DEF Watched

\* A clock that advances leaves every lease of a live driver running.
LEMMA AdvanceWatched ==
    ASSUME BudgetInv, Watched, BudgetConstants, Advance
    PROVE  Watched'
<1>1. b' = b /\ job' = job /\ now' = now + 1 /\ now \in Nat
  BY DEF Advance, BudgetInv, BudgetTypeOK
<1>2. \A x \in b.activities : Leased(x)'
  BY <1>1, ActivityFacts DEF Watched, Leased
<1>3. \A x \in b.activities : x.owner \in Drivers => Working(x.owner, x)'
  BY <1>1 DEF Watched, Working, Advance
<1> QED
  BY <1>1, <1>2, <1>3 DEF Watched

\* The activity of a driver that dies is nobody's.
LEMMA CrashWatched ==
    ASSUME BudgetInv, Watched, BudgetConstants, NEW d \in Drivers, Crash(d)
    PROVE  Watched'
<1> DEFINE G(x) == IF x.owner = d THEN [x EXCEPT !.owner = Gone] ELSE x
<1>1. /\ b \in Budget /\ job \in [Drivers -> Job] /\ now' = now
      /\ job' = [job EXCEPT ![d] = Idle] /\ Gone \notin Drivers /\ None # Gone
      /\ None \notin Drivers
  BY DEF Crash, BudgetInv, BudgetTypeOK, BudgetConstants
<1>2. /\ b'.activities = {G(x) : x \in b.activities}
      /\ b'.reserved = b.reserved /\ b'.completed = b.completed
  BY <1>1 DEF Crash, Budget
<1>3. \A x \in b.activities :
         /\ G(x).id = x.id /\ G(x).seen = x.seen /\ G(x).until = x.until /\ G(x).host = x.host
         /\ G(x).owner = IF x.owner = d THEN Gone ELSE x.owner
         /\ x.owner # d => G(x) = x
  BY <1>1 DEF Budget, Activity
<1> HIDE DEF G
<1>4. \A x, y \in b'.activities : x.id = y.id => x = y
  <2> SUFFICES ASSUME NEW x \in b.activities, NEW y \in b.activities, G(x).id = G(y).id
               PROVE  G(x) = G(y)
    BY <1>2
  <2> QED
    BY <1>3 DEF Watched
<1>5. \A x \in b'.activities : x.id \in b'.reserved /\ x.id \notin b'.completed
  BY <1>2, <1>3 DEF Watched
<1>6. \A x \in b'.activities : Leased(x)'
  <2> SUFFICES ASSUME NEW x \in b.activities PROVE Leased(G(x))'
    BY <1>2
  <2>1. Leased(x)
    BY DEF Watched
  <2>2. G(x).owner # None <=> x.owner # None
    BY <1>1, <1>3
  <2> QED
    BY <1>1, <1>3, <2>1, <2>2 DEF Leased
<1>7. \A x \in b'.activities : x.owner \in Drivers => Working(x.owner, x)'
  <2> SUFFICES ASSUME NEW x \in b.activities, G(x).owner \in Drivers
               PROVE  Working(G(x).owner, G(x))'
    BY <1>2
  <2>1. x.owner # d /\ G(x) = x
    BY <1>1, <1>3
  <2>2. Working(x.owner, x)
    BY <2>1 DEF Watched
  <2> QED
    BY <1>1, <2>1, <2>2 DEF Working
<1>8. \A e \in Drivers : job'[e].at = "working" /\ job'[e].id \notin b'.completed =>
          \E x \in b'.activities : x.id = job'[e].id /\ x.owner = e
  <2> SUFFICES ASSUME NEW e \in Drivers, job'[e].at = "working", job'[e].id \notin b'.completed
               PROVE  \E x \in b'.activities : x.id = job'[e].id /\ x.owner = e
    OBVIOUS
  <2>1. e # d /\ job'[e] = job[e]
    BY <1>1 DEF Idle
  <2>2. PICK x \in b.activities : x.id = job[e].id /\ x.owner = e
    BY <1>2, <2>1 DEF Watched
  <2>3. G(x) = x
    BY <1>3, <2>1, <2>2
  <2> QED
    BY <1>2, <2>1, <2>2, <2>3
<1> QED
  BY <1>4, <1>5, <1>6, <1>7, <1>8 DEF Watched

LEMMA NextWatched ==
    ASSUME BudgetInv, Watched, BudgetConstants, [Next]_vars
    PROVE  Watched'
<1>1. CASE Gate \/ Extend \/ Advance
  BY <1>1, GateWatched, ExtendWatched, AdvanceWatched
<1>2. CASE \E i \in Ids : HostAdmit(i) \/ HostReport(i) \/ Charge(i)
  BY <1>2, HostAdmitWatched, HostReportWatched, ChargeWatched
<1>3. CASE \E d \in Drivers : Launch(d) \/ Beat(d) \/ ReportUsage(d) \/ Finish(d) \/ Fail(d)
                              \/ Abandon(d) \/ Crash(d)
  BY <1>3, LaunchWatched, BeatWatched, ReportUsageWatched, FinishWatched, FailWatched,
     AbandonWatched, CrashWatched
<1>4. CASE \E d \in Drivers, i \in Ids : Admit(d, i) \/ Take(d, i)
  BY <1>4, AdmitWatched, TakeWatched
<1>5. CASE UNCHANGED vars
  BY <1>5 DEF vars, Watched, Leased, Working
<1> QED
  BY <1>1, <1>2, <1>3, <1>4, <1>5 DEF Next

LEMMA WatchedInvariant == Spec => [](BudgetInv /\ Watched)
<1>1. Init => BudgetInv /\ Watched
  <2>1. Init => BudgetInv
    BY InitBudget, BudgetConstants
  <2>2. Init => Watched
    BY DEF Init, NewBudget, Watched, Idle
  <2> QED
    BY <2>1, <2>2
<1>2. BudgetInv /\ Watched /\ [Next]_vars => (BudgetInv /\ Watched)'
  BY NextBudget, NextWatched, BudgetConstants
<1> QED
  BY <1>1, <1>2, PTL DEF Spec

\* An open invocation is executed by one driver at a time, whatever the races
\* and the crashes: whoever works on it owns its one activity, and a beat or a
\* launch is refused while another's lease runs (beat, budgetActivity).
THEOREM OneDriverEach == Spec => []OneDriver
<1>1. Watched => OneDriver
  BY DEF Watched, OneDriver
<1> QED
  BY <1>1, WatchedInvariant, PTL

-----------------------------------------------------------------------------
\* No driver executes what a host does.
Hosted ==
    /\ \A d \in Drivers : job[d] # Idle => job[d].id \notin HostIds
    /\ \A x \in b.activities : x.id \in HostIds => x.owner = None

LEMMA HostedJobs ==
    ASSUME BudgetInv, Hosted, [Next]_vars
    PROVE  \A d \in Drivers : job'[d] # Idle => job'[d].id \notin HostIds
<1>1. job \in [Drivers -> Job] /\ \A d \in Drivers : job[d] # Idle => job[d].id \notin HostIds
  BY DEF BudgetInv, BudgetTypeOK, Hosted
<1>2. CASE job' = job
  BY <1>1, <1>2
<1>3. ASSUME NEW d \in Drivers, job' = [job EXCEPT ![d] = Idle]
      PROVE  \A e \in Drivers : job'[e] # Idle => job'[e].id \notin HostIds
  BY <1>1, <1>3
<1>4. ASSUME NEW d \in Drivers, NEW i \in Ids \ HostIds,
             job' = [job EXCEPT ![d] = [at |-> "admitted", id |-> i]]
      PROVE  \A e \in Drivers : job'[e] # Idle => job'[e].id \notin HostIds
  BY <1>1, <1>4
<1>5. ASSUME NEW d \in Drivers, job[d].at = "admitted", job' = [job EXCEPT ![d].at = "working"]
      PROVE  \A e \in Drivers : job'[e] # Idle => job'[e].id \notin HostIds
  <2>1. job[d] # Idle
    BY <1>5 DEF Idle
  <2>2. job'[d].id = job[d].id
    BY <1>1, <1>5, <2>1 DEF Job
  <2> QED
    BY <1>1, <1>5, <2>1, <2>2
<1>6. CASE Gate \/ Extend \/ Advance \/ UNCHANGED vars
  BY <1>2, <1>6 DEF Gate, Extend, Advance, vars
<1>7. ASSUME NEW i \in Ids, HostAdmit(i) \/ HostReport(i) \/ Charge(i)
      PROVE  \A e \in Drivers : job'[e] # Idle => job'[e].id \notin HostIds
  BY <1>2, <1>7 DEF HostAdmit, HostReport, Charge
<1>8. ASSUME NEW d \in Drivers, Beat(d) \/ ReportUsage(d) \/ Finish(d) \/ Fail(d)
                                \/ Abandon(d) \/ Crash(d)
      PROVE  \A e \in Drivers : job'[e] # Idle => job'[e].id \notin HostIds
  <2>1. job' = job \/ job' = [job EXCEPT ![d] = Idle]
    BY <1>8 DEF Beat, ReportUsage, Finish, Fail, Abandon, Crash
  <2> QED
    BY <1>2, <1>3, <2>1
<1>9. ASSUME NEW d \in Drivers, Launch(d)
      PROVE  \A e \in Drivers : job'[e] # Idle => job'[e].id \notin HostIds
  <2>1. /\ job[d].at = "admitted"
        /\ job' = [job EXCEPT ![d].at = "working"] \/ job' = [job EXCEPT ![d] = Idle]
    BY <1>9 DEF Launch
  <2> QED
    BY <1>3, <1>5, <2>1
<1>10. ASSUME NEW d \in Drivers, NEW i \in Ids, Admit(d, i) \/ Take(d, i)
       PROVE  \A e \in Drivers : job'[e] # Idle => job'[e].id \notin HostIds
  <2>1. /\ i \notin HostIds
        /\ job' = job \/ job' = [job EXCEPT ![d] = [at |-> "admitted", id |-> i]]
    BY <1>10 DEF Admit, Take
  <2> QED
    BY <1>2, <1>4, <2>1
<1> QED
  BY <1>6, <1>7, <1>8, <1>9, <1>10 DEF Next

LEMMA HostedActivities ==
    ASSUME BudgetInv, Watched, Hosted, BudgetConstants, [Next]_vars
    PROVE  \A x \in b'.activities : x.id \in HostIds => x.owner = None
<1>1. \A x \in b.activities : x.id \in HostIds => x.owner = None
  BY DEF Hosted
<1>2. /\ \A x \in Kept : x.id \in HostIds => x.owner = None
      /\ \A i : \A x \in Without(Kept, i) : x.id \in HostIds => x.owner = None
  BY <1>1 DEF Kept, Without
<1>3. \A i : Dispatch(i).owner = None
  BY DEF Dispatch
<1>4. \A d \in Drivers : job[d].at \in {"admitted", "working"} =>
         Pulse(d, job[d].id).id \notin HostIds
  BY DEF Hosted, Idle, Pulse
<1> HIDE DEF Dispatch, Pulse
<1>5. CASE Gate \/ Extend \/ Advance \/ UNCHANGED vars
  <2>1. b' = b \/ Updates(Kept)
    BY <1>5, GateWatched, ExtendWatched DEF Advance, vars
  <2> QED
    BY <1>1, <1>2, <2>1 DEF Updates
<1>6. ASSUME NEW i \in Ids, HostAdmit(i) \/ HostReport(i) \/ Charge(i)
      PROVE  \A x \in b'.activities : x.id \in HostIds => x.owner = None
  <2>1. Updates(Kept) \/ Updates(Without(Kept, i)) \/ Updates(Kept \cup {Dispatch(i)})
    BY <1>6, HostAdmitWatched, HostReportWatched, ChargeWatched
  <2> QED
    BY <1>2, <1>3, <2>1 DEF Updates
<1>7. ASSUME NEW d \in Drivers, ReportUsage(d) \/ Finish(d) \/ Fail(d) \/ Abandon(d)
      PROVE  \A x \in b'.activities : x.id \in HostIds => x.owner = None
  <2>1. Updates(Kept) \/ Updates(Without(Kept, job[d].id))
    BY <1>7, ReportUsageWatched, FinishWatched, FailWatched, AbandonWatched
  <2> QED
    BY <1>2, <2>1 DEF Updates
<1>8. ASSUME NEW d \in Drivers, Launch(d) \/ Beat(d)
      PROVE  \A x \in b'.activities : x.id \in HostIds => x.owner = None
  <2>1. b' = b \/ Updates(Kept)
        \/ Updates(Without(Kept, job[d].id) \cup {Pulse(d, job[d].id)})
    BY <1>8, LaunchWatched, BeatWatched
  <2>2. job[d].at \in {"admitted", "working"}
    BY <1>8 DEF Launch, Beat
  <2> QED
    BY <1>1, <1>2, <1>4, <2>1, <2>2 DEF Updates
<1>9. ASSUME NEW d \in Drivers, NEW i \in Ids, Admit(d, i) \/ Take(d, i)
      PROVE  \A x \in b'.activities : x.id \in HostIds => x.owner = None
  <2>1. b' = b \/ Updates(Kept \cup {Dispatch(i)})
    BY <1>9, AdmitWatched DEF Take
  <2> QED
    BY <1>1, <1>2, <1>3, <2>1 DEF Updates
<1>10. ASSUME NEW d \in Drivers, Crash(d)
       PROVE  \A x \in b'.activities : x.id \in HostIds => x.owner = None
  <2>1. b'.activities = {IF x.owner = d THEN [x EXCEPT !.owner = Gone] ELSE x : x \in b.activities}
    BY <1>10 DEF Crash, BudgetInv, BudgetTypeOK, Budget
  <2>2. \A x \in b.activities : x.owner = d => x.id \notin HostIds
    BY <1>1 DEF BudgetConstants
  <2>3. \A x \in b.activities : [x EXCEPT !.owner = Gone].id = x.id
    BY DEF BudgetInv, BudgetTypeOK, Budget, Activity
  <2> QED
    BY <1>1, <2>1, <2>2, <2>3
<1> QED
  BY <1>5, <1>6, <1>7, <1>8, <1>9, <1>10 DEF Next

-----------------------------------------------------------------------------
(***************************************************************************)
(* The time that is charged                                                *)
(*                                                                         *)
(* What is charged beyond the time worked is what orphans, the activities  *)
(* nobody watches any more, may still bring: all of them begin at the      *)
(* checkpoint, so that the latest end bounds it.  What is worked and not   *)
(* charged is what a dead driver worked after its last beat.               *)
(***************************************************************************)

Orphan(x) ==
    \/ x.owner = Gone
    \/ /\ x.owner = None /\ x.id \notin HostIds
       /\ \A d \in Drivers : job[d] # [at |-> "admitted", id |-> x.id]

\* The charge now, with all that orphans may add to it.
NotOverCharged ==
    \E m \in Nat :
        /\ \A x \in b.activities : Orphan(x) => x.until <= now + m
        /\ Charged + m <= worked + Lease * crashes + Invocation * early

\* The units that stay charged when the leases of dead drivers run out.
SureUnits(c, t) ==
    {u \in c.checkpoint .. t - 1 :
        \E x \in c.activities : u < IF x.owner = Gone THEN x.seen ELSE CountsUntil(x, t)}

NotUnderCharged ==
    worked <= b.usage["seconds"] + Cardinality(SureUnits(b, now)) + Lease * crashes

TimeInv == BudgetInv /\ Watched /\ Hosted /\ NotOverCharged /\ NotUnderCharged

\* The numbers of the time invariant.
LEMMA TimeNumbers ==
    ASSUME BudgetInv, BudgetConstants
    PROVE  /\ b.usage["seconds"] \in Nat /\ b.checkpoint \in Nat /\ now \in Nat
           /\ b.checkpoint <= now /\ worked \in Nat /\ crashes \in Nat /\ early \in Nat
           /\ Lease \in Nat \ {0} /\ Invocation \in Nat \ {0}
           /\ Lease * crashes \in Nat /\ Invocation * early \in Nat
           /\ Lease * (crashes + 1) = Lease * crashes + Lease
           /\ Invocation * (early + 1) = Invocation * early + Invocation
<1>1. /\ b.usage["seconds"] \in Nat /\ b.checkpoint \in Nat /\ now \in Nat
      /\ b.checkpoint <= now /\ worked \in Nat /\ crashes \in Nat /\ early \in Nat
  BY DEF BudgetInv, BudgetTypeOK, TimeIsUnion, Budget, Keys
<1>2. Lease \in Nat \ {0} /\ Invocation \in Nat \ {0}
  BY DEF BudgetConstants
<1>3. \A l, n \in Nat : l * n \in Nat /\ l * (n + 1) = l * n + l
  OBVIOUS
<1> QED
  BY <1>1, <1>2, <1>3

\* Units that are charged are finitely many.
LEMMA UnitSets ==
    ASSUME NEW from \in Nat, NEW t \in Nat, NEW U, U \subseteq from .. t - 1
    PROVE  IsFiniteSet(U) /\ Cardinality(U) \in Nat
<1>1. IsFiniteSet(from .. t - 1)
  BY FS_Interval
<1> QED
  BY <1>1, FS_Subset, FS_CardinalityType

LEMMA ActiveSets ==
    ASSUME BudgetInv, NEW t \in Nat
    PROVE  /\ IsFiniteSet(ActiveUnits(b, t)) /\ Cardinality(ActiveUnits(b, t)) \in Nat
           /\ IsFiniteSet(SureUnits(b, t)) /\ Cardinality(SureUnits(b, t)) \in Nat
<1>1. b.checkpoint \in Nat
  BY DEF BudgetInv, BudgetTypeOK, Budget
<1>2. ActiveUnits(b, t) \subseteq b.checkpoint .. t - 1 /\ SureUnits(b, t) \subseteq b.checkpoint .. t - 1
  BY DEF ActiveUnits, SureUnits
<1> QED
  BY <1>1, <1>2, UnitSets

\* What is sure is charged.
LEMMA SureIsActive ==
    ASSUME BudgetInv, Watched, BudgetConstants
    PROVE  /\ SureUnits(b, now) \subseteq ActiveUnits(b, now)
           /\ Cardinality(SureUnits(b, now)) <= Cardinality(ActiveUnits(b, now))
<1>1. SureUnits(b, now) \subseteq ActiveUnits(b, now)
  <2> SUFFICES ASSUME NEW u \in SureUnits(b, now) PROVE u \in ActiveUnits(b, now)
    OBVIOUS
  <2>1. PICK x \in b.activities : u < IF x.owner = Gone THEN x.seen ELSE CountsUntil(x, now)
    BY DEF SureUnits
  <2>2. u \in b.checkpoint .. now - 1 /\ u < now /\ now \in Nat /\ b.checkpoint \in Nat
    BY TimeNumbers DEF SureUnits
  <2>3. x.owner = Gone => ~x.host
    BY DEF Watched, Leased, BudgetConstants
  <2>4. u < CountsUntil(x, now)
    BY <2>1, <2>2, <2>3 DEF CountsUntil
  <2> QED
    BY <2>2, <2>4 DEF ActiveUnits
<1>2. now \in Nat
  BY TimeNumbers
<1> QED
  BY <1>1, <1>2, ActiveSets, FS_Subset

\* After an update nothing is left to charge.
LEMMA UpdatedUnits ==
    ASSUME BudgetInv, BudgetConstants, NEW A, Updates(A), now' = now
    PROVE  /\ Charged' = Charged
           /\ Cardinality(SureUnits(b, now)') = 0 /\ b'.usage["seconds"] = Charged
<1>1. now \in Nat
  BY TimeNumbers
<1>2. b'.checkpoint = now /\ b'.usage["seconds"] = Charged
  BY DEF Updates
<1>3. now .. now - 1 = {}
  BY <1>1
<1>4. ActiveUnits(b, now)' = {} /\ SureUnits(b, now)' = {}
  BY <1>2, <1>3 DEF ActiveUnits, SureUnits
<1>5. Cardinality({}) = 0
  BY FS_EmptySet
<1>6. Charged \in Nat
  BY <1>1, TimeNumbers, ActiveSets DEF Charged
<1>7. Charged' = b'.usage["seconds"] + Cardinality(ActiveUnits(b, now)')
  BY DEF Charged
<1> QED
  BY <1>2, <1>4, <1>5, <1>6, <1>7

\* An update that orphans no activity.
LEMMA UpdateKeepsTime ==
    ASSUME TimeInv, BudgetConstants, NEW A, Updates(A), now' = now,
           worked' = worked, crashes' = crashes, early' = early,
           \A x \in A : Orphan(x)' => x \in b.activities /\ Orphan(x)
    PROVE  NotOverCharged' /\ NotUnderCharged'
<1>1. /\ Charged' = Charged /\ Cardinality(SureUnits(b, now)') = 0
      /\ b'.usage["seconds"] = Charged /\ b'.activities = A
  BY UpdatedUnits DEF TimeInv, Updates
<1>2. NotOverCharged'
  <2>1. PICK m \in Nat : /\ \A x \in b.activities : Orphan(x) => x.until <= now + m
                         /\ Charged + m <= worked + Lease * crashes + Invocation * early
    BY DEF TimeInv, NotOverCharged
  <2>2. \A x \in b'.activities : Orphan(x)' => x.until <= now' + m
    BY <1>1, <2>1
  <2>3. Charged' + m <= worked' + Lease * crashes' + Invocation * early'
    BY <1>1, <2>1
  <2> QED
    BY <2>2, <2>3 DEF NotOverCharged
<1>3. NotUnderCharged'
  <2>1. /\ b.usage["seconds"] \in Nat /\ worked \in Nat /\ Lease * crashes \in Nat /\ now \in Nat
    BY TimeNumbers DEF TimeInv
  <2>2. Cardinality(SureUnits(b, now)) \in Nat /\ Cardinality(ActiveUnits(b, now)) \in Nat
        /\ Cardinality(SureUnits(b, now)) <= Cardinality(ActiveUnits(b, now))
    BY <2>1, ActiveSets, SureIsActive DEF TimeInv
  <2>3. worked <= b.usage["seconds"] + Cardinality(SureUnits(b, now)) + Lease * crashes
    BY DEF TimeInv, NotUnderCharged
  <2>4. Charged = b.usage["seconds"] + Cardinality(ActiveUnits(b, now))
    BY DEF Charged
  <2>5. worked' <= b'.usage["seconds"] + 0 + Lease * crashes'
    BY <1>1, <2>1, <2>2, <2>3, <2>4
  <2> QED
    BY <1>1, <2>5 DEF NotUnderCharged
<1> QED
  BY <1>2, <1>3

\* Orphans when no driver gives an admitted invocation up.
LEMMA OrphansStay ==
    ASSUME NEW x, \A d \in Drivers : job[d].at = "admitted" => job'[d] = job[d], Orphan(x)'
    PROVE  Orphan(x)
BY DEF Orphan

\* Most steps are updates that give nothing up.
LEMMA PlainUpdate ==
    ASSUME TimeInv, BudgetConstants, NEW A, Updates(A), A \subseteq b.activities, now' = now,
           worked' = worked, crashes' = crashes, early' = early,
           \A d \in Drivers : job[d].at = "admitted" => job'[d] = job[d]
    PROVE  NotOverCharged' /\ NotUnderCharged'
<1>1. \A x \in A : Orphan(x)' => x \in b.activities /\ Orphan(x)
  BY OrphansStay
<1> QED
  BY <1>1, UpdateKeepsTime

LEMMA KeptWithin ==
    /\ Kept \subseteq b.activities
    /\ \A i : Without(Kept, i) \subseteq b.activities /\ \A x \in Without(Kept, i) : x.id # i
BY DEF Kept, Without

\* A driver that is at work is not at an admission.
LEMMA WorkingGivesUp ==
    ASSUME BudgetInv, NEW d \in Drivers, job[d].at = "working", job' = [job EXCEPT ![d] = Idle]
    PROVE  \A e \in Drivers : job[e].at = "admitted" => job'[e] = job[e]
BY DEF BudgetInv, BudgetTypeOK

LEMMA CallersTime ==
    ASSUME TimeInv, BudgetConstants, NEW d \in Drivers,
           ReportUsage(d) \/ Finish(d) \/ Fail(d) \/ Abandon(d)
    PROVE  NotOverCharged' /\ NotUnderCharged'
<1>1. CASE ReportUsage(d)
  <2>1. /\ Updates(Kept) /\ now' = now /\ worked' = worked /\ crashes' = crashes
        /\ early' = early /\ job' = job
    BY <1>1, ReportUsageWatched DEF ReportUsage, TimeInv
  <2> QED
    BY <2>1, PlainUpdate, KeptWithin
<1>2. CASE Finish(d) \/ Fail(d) \/ Abandon(d)
  <2>1. Updates(Without(Kept, job[d].id))
    BY <1>2, FinishWatched, FailWatched, AbandonWatched DEF TimeInv
  <2>2. /\ now' = now /\ worked' = worked /\ crashes' = crashes /\ early' = early
        /\ job[d].at = "working" /\ job' = [job EXCEPT ![d] = Idle]
    BY <1>2 DEF Finish, Fail, Abandon
  <2>3. \A e \in Drivers : job[e].at = "admitted" => job'[e] = job[e]
    BY <2>2, WorkingGivesUp DEF TimeInv
  <2>4. Without(Kept, job[d].id) \subseteq b.activities
    BY KeptWithin
  <2> QED
    BY <2>1, <2>2, <2>3, <2>4, PlainUpdate
<1> QED
  BY <1>1, <1>2

LEMMA LedgerTime ==
    ASSUME TimeInv, BudgetConstants,
           Gate \/ Extend \/ \E i \in Ids : Charge(i) \/ HostReport(i)
    PROVE  NotOverCharged' /\ NotUnderCharged'
<1>1. \E A : Updates(A) /\ A \subseteq b.activities
  <2>1. CASE Gate \/ Extend
    BY <2>1, GateWatched, ExtendWatched, KeptWithin DEF TimeInv
  <2>2. ASSUME NEW i \in Ids, Charge(i) PROVE \E A : Updates(A) /\ A \subseteq b.activities
    BY <2>2, ChargeWatched, KeptWithin DEF TimeInv
  <2>3. ASSUME NEW i \in Ids, HostReport(i) PROVE \E A : Updates(A) /\ A \subseteq b.activities
    <3>1. Updates(Without(Kept, i))
      BY <2>3, HostReportWatched DEF TimeInv
    <3> QED
      BY <3>1, KeptWithin
  <2> QED
    BY <2>1, <2>2, <2>3
<1>2. /\ now' = now /\ worked' = worked /\ crashes' = crashes /\ early' = early /\ job' = job
  BY DEF Gate, Extend, Charge, HostReport
<1>3. PICK A : Updates(A) /\ A \subseteq b.activities
  BY <1>1
<1> QED
  BY <1>2, <1>3, PlainUpdate

\* A beat replaces what was left of the invocation's reservation.
LEMMA BeatTime ==
    ASSUME TimeInv, BudgetConstants, NEW d \in Drivers, NEW i,
           now' = now, worked' = worked, crashes' = crashes, early' = early,
           job \in [Drivers -> Job], job[d].id = i,
           job' = [job EXCEPT ![d] = [at |-> "working", id |-> i]],
           i \in b.completed => Updates(Kept),
           i \notin b.completed => Updates(Without(Kept, i) \cup {Pulse(d, i)})
    PROVE  NotOverCharged' /\ NotUnderCharged'
<1>1. \A x : Orphan(x)' /\ x.id # i => Orphan(x)
  BY DEF Orphan
<1>2. \A x : x = Pulse(d, i) => ~Orphan(x)'
  BY DEF Orphan, Pulse, BudgetConstants
<1>3. CASE i \in b.completed
  <2>1. \A x \in Kept : x \in b.activities /\ x.id # i
    BY <1>3, OpenKept, KeptWithin DEF TimeInv
  <2>2. Updates(Kept)
    BY <1>3
  <2>3. \A x \in Kept : Orphan(x)' => x \in b.activities /\ Orphan(x)
    BY <1>1, <2>1
  <2> QED
    BY <2>2, <2>3, UpdateKeepsTime
<1>4. CASE i \notin b.completed
  <2> DEFINE A == Without(Kept, i) \cup {Pulse(d, i)}
  <2>1. Updates(A)
    BY <1>4
  <2>2. \A x \in A : Orphan(x)' => x \in b.activities /\ Orphan(x)
    <3> SUFFICES ASSUME NEW x \in A, Orphan(x)' PROVE x \in b.activities /\ Orphan(x)
      OBVIOUS
    <3>1. x \in Without(Kept, i)
      BY <1>2
    <3> QED
      BY <1>1, <3>1, KeptWithin
  <2> HIDE DEF A
  <2> QED
    BY <2>1, <2>2, UpdateKeepsTime
<1> QED
  BY <1>3, <1>4

LEMMA BeatersTime ==
    ASSUME TimeInv, BudgetConstants, NEW d \in Drivers, Launch(d) \/ Beat(d)
    PROVE  NotOverCharged' /\ NotUnderCharged'
<1>1. /\ now' = now /\ worked' = worked /\ crashes' = crashes /\ early' = early
      /\ job \in [Drivers -> Job]
  BY DEF Launch, Beat, TimeInv, BudgetInv, BudgetTypeOK
<1>2. CASE Beat(d)
  <2>1. /\ job[d].id \in b.completed => Updates(Kept)
        /\ job[d].id \notin b.completed =>
              Updates(Without(Kept, job[d].id) \cup {Pulse(d, job[d].id)})
    BY <1>2, BeatWatched DEF TimeInv
  <2>2. job[d] = [at |-> "working", id |-> job[d].id]
    <3>1. job[d] \in Job /\ job[d] # Idle /\ job[d].at = "working"
      BY <1>1, <1>2 DEF Beat, Idle
    <3> QED
      BY <3>1 DEF Job
  <2>3. job' = [job EXCEPT ![d] = [at |-> "working", id |-> job[d].id]]
    BY <1>1, <1>2, <2>2 DEF Beat
  <2> QED
    BY <1>1, <2>1, <2>3, BeatTime
<1>3. CASE Launch(d)
  <2>1. \/ b' = b /\ Foreign(b, d, job[d].id) /\ job' = [job EXCEPT ![d] = Idle]
        \/ /\ job' = [job EXCEPT ![d] = [at |-> "working", id |-> job[d].id]]
           /\ job[d].id \in b.completed => Updates(Kept)
           /\ job[d].id \notin b.completed =>
                 Updates(Without(Kept, job[d].id) \cup {Pulse(d, job[d].id)})
    BY <1>3, LaunchWatched DEF TimeInv
  <2>2. CASE /\ job' = [job EXCEPT ![d] = [at |-> "working", id |-> job[d].id]]
             /\ job[d].id \in b.completed => Updates(Kept)
             /\ job[d].id \notin b.completed =>
                   Updates(Without(Kept, job[d].id) \cup {Pulse(d, job[d].id)})
    BY <1>1, <2>2, BeatTime
  <2>3. CASE b' = b /\ Foreign(b, d, job[d].id) /\ job' = [job EXCEPT ![d] = Idle]
    <3>1. PICK y \in b.activities : y.id = job[d].id /\ ~y.host
      BY <2>3 DEF Foreign
    <3>2. \A x \in b.activities : Orphan(x)' => Orphan(x)
      <4> SUFFICES ASSUME NEW x \in b.activities, Orphan(x)' PROVE Orphan(x)
        OBVIOUS
      <4>1. CASE x.owner = Gone
        BY <4>1 DEF Orphan
      <4>2. CASE x.owner = None
        <5>1. x.host
          BY <4>2 DEF TimeInv, Watched, Leased
        <5>2. x.id # job[d].id
          BY <3>1, <5>1 DEF TimeInv, Watched
        <5> QED
          BY <1>1, <2>3, <4>2, <5>2 DEF Orphan
      <4> QED
        BY <4>1, <4>2 DEF Orphan
    <3>3. Charged' = Charged /\ SureUnits(b, now)' = SureUnits(b, now)
      BY <1>1, <2>3 DEF Charged, ActiveUnits, SureUnits
    <3>4. NotOverCharged'
      <4>1. PICK m \in Nat : /\ \A x \in b.activities : Orphan(x) => x.until <= now + m
                             /\ Charged + m <= worked + Lease * crashes + Invocation * early
        BY DEF TimeInv, NotOverCharged
      <4>2. \A x \in b'.activities : Orphan(x)' => x.until <= now' + m
        BY <1>1, <2>3, <3>2, <4>1
      <4>3. Charged' + m <= worked' + Lease * crashes' + Invocation * early'
        BY <1>1, <3>3, <4>1
      <4> QED
        BY <4>2, <4>3 DEF NotOverCharged
    <3>5. NotUnderCharged'
      BY <1>1, <2>3, <3>3 DEF TimeInv, NotUnderCharged
    <3> QED
      BY <3>4, <3>5
  <2> QED
    BY <2>1, <2>2, <2>3
<1> QED
  BY <1>2, <1>3

\* A reservation is watched by its driver, or is a host's, or the driver dies
\* and leaves it an orphan until its expiry.
LEMMA AdmitTime ==
    ASSUME TimeInv, BudgetConstants, NEW d \in Drivers, NEW i \in Ids, Admit(d, i)
    PROVE  NotOverCharged' /\ NotUnderCharged'
<1> DEFINE A == Kept \cup {Dispatch(i)}
<1>1. Updates(A) /\ now' = now /\ worked' = worked /\ crashes' = crashes
  BY AdmitWatched DEF TimeInv, Admit
<1>2. /\ Dispatch(i).id = i /\ Dispatch(i).owner = None
      /\ Dispatch(i).until = now + Invocation
  BY DEF Dispatch
<1>3. job[d] = Idle /\ job \in [Drivers -> Job] /\ None # Gone
  BY DEF Admit, TimeInv, BudgetInv, BudgetTypeOK, BudgetConstants
<1> HIDE DEF Dispatch
<1>4. CASE job' = [job EXCEPT ![d] = [at |-> "admitted", id |-> i]] /\ early' = early
  <2>1. \A x : x = Dispatch(i) => ~Orphan(x)'
    BY <1>2, <1>3, <1>4 DEF Orphan
  <2>2. \A e \in Drivers : job[e].at = "admitted" => job'[e] = job[e]
    BY <1>3, <1>4 DEF Idle
  <2>3. \A x \in A : Orphan(x)' => x \in b.activities /\ Orphan(x)
    <3> SUFFICES ASSUME NEW x \in A, Orphan(x)' PROVE x \in b.activities /\ Orphan(x)
      OBVIOUS
    <3>1. x \in Kept
      BY <2>1
    <3> QED
      BY <2>2, <3>1, KeptWithin, OrphansStay
  <2> HIDE DEF A
  <2> QED
    BY <1>1, <1>4, <2>3, UpdateKeepsTime
<1>5. CASE job' = job /\ early' = early + 1
  <2>1. /\ Charged' = Charged /\ Cardinality(SureUnits(b, now)') = 0
        /\ b'.usage["seconds"] = Charged /\ b'.activities = A
    BY <1>1, UpdatedUnits DEF TimeInv, Updates
  <2>2. PICK m \in Nat : /\ \A x \in b.activities : Orphan(x) => x.until <= now + m
                         /\ Charged + m <= worked + Lease * crashes + Invocation * early
    BY DEF TimeInv, NotOverCharged
  <2>3. /\ now \in Nat /\ worked \in Nat /\ early \in Nat
        /\ Invocation \in Nat \ {0} /\ b.usage["seconds"] \in Nat
        /\ Lease * crashes \in Nat /\ Invocation * early \in Nat
        /\ Invocation * (early + 1) = Invocation * early + Invocation
    BY TimeNumbers DEF TimeInv
  <2>4. Cardinality(ActiveUnits(b, now)) \in Nat /\ Cardinality(SureUnits(b, now)) \in Nat
        /\ Cardinality(SureUnits(b, now)) <= Cardinality(ActiveUnits(b, now))
    BY <2>3, ActiveSets, SureIsActive DEF TimeInv
  <2>5. Charged \in Nat /\ worked <= Charged + Lease * crashes
    BY <2>3, <2>4 DEF Charged, TimeInv, NotUnderCharged
  <2>6. \A x \in b'.activities : Orphan(x)' => x.until <= now' + (m + Invocation)
    <3> SUFFICES ASSUME NEW x \in A, Orphan(x)' PROVE x.until <= now + (m + Invocation)
      BY <1>1, <2>1
    <3>1. CASE x = Dispatch(i)
      BY <1>2, <2>2, <2>3, <3>1
    <3>2. CASE x \in Kept
      <4>1. x \in b.activities /\ Orphan(x)
        BY <1>5, <3>2, KeptWithin, OrphansStay
      <4>2. x.until \in Nat /\ x.until <= now + m
        BY <2>2, <4>1, ActivityFacts DEF TimeInv
      <4> QED
        BY <2>2, <2>3, <4>2
    <3> QED
      BY <3>1, <3>2
  <2>7. Charged' + (m + Invocation) <= worked' + Lease * crashes' + Invocation * early'
    BY <1>1, <1>5, <2>1, <2>2, <2>3, <2>5
  <2>8. m + Invocation \in Nat
    BY <2>2, <2>3
  <2>9. NotOverCharged'
    BY <2>6, <2>7, <2>8 DEF NotOverCharged
  <2>10. worked' <= b'.usage["seconds"] + 0 + Lease * crashes'
    BY <1>1, <2>1, <2>3, <2>5
  <2> QED
    BY <2>1, <2>9, <2>10 DEF NotUnderCharged
<1> QED
  BY <1>4, <1>5 DEF Admit

LEMMA HostAdmitTime ==
    ASSUME TimeInv, BudgetConstants, NEW i \in Ids, HostAdmit(i)
    PROVE  NotOverCharged' /\ NotUnderCharged'
<1> DEFINE A == Kept \cup {Dispatch(i)}
<1>1. /\ Updates(A) /\ now' = now /\ worked' = worked /\ crashes' = crashes
      /\ early' = early /\ job' = job
  BY HostAdmitWatched DEF TimeInv, HostAdmit
<1>2. \A x : x = Dispatch(i) => ~Orphan(x)'
  BY DEF HostAdmit, Dispatch, Orphan, BudgetConstants
<1>3. \A x \in A : Orphan(x)' => x \in b.activities /\ Orphan(x)
  <2> SUFFICES ASSUME NEW x \in A, Orphan(x)' PROVE x \in b.activities /\ Orphan(x)
    OBVIOUS
  <2>1. x \in Kept
    BY <1>2
  <2> QED
    BY <1>1, <2>1, KeptWithin, OrphansStay
<1> HIDE DEF A
<1> QED
  BY <1>1, <1>3, UpdateKeepsTime

\* Taking an orphan up makes none.
LEMMA TakeTime ==
    ASSUME TimeInv, BudgetConstants, NEW d \in Drivers, NEW i \in Ids, Take(d, i)
    PROVE  NotOverCharged' /\ NotUnderCharged'
<1>1. /\ b' = b /\ now' = now /\ worked' = worked /\ crashes' = crashes /\ early' = early
      /\ job[d] = Idle /\ job' = [job EXCEPT ![d] = [at |-> "admitted", id |-> i]]
      /\ job \in [Drivers -> Job]
  BY DEF Take, TimeInv, BudgetInv, BudgetTypeOK
<1>2. \A e \in Drivers : job[e].at = "admitted" => job'[e] = job[e]
  BY <1>1 DEF Idle
<1>3. Charged' = Charged /\ SureUnits(b, now)' = SureUnits(b, now)
  BY <1>1 DEF Charged, ActiveUnits, SureUnits
<1>4. NotOverCharged'
  <2>1. PICK m \in Nat : /\ \A x \in b.activities : Orphan(x) => x.until <= now + m
                         /\ Charged + m <= worked + Lease * crashes + Invocation * early
    BY DEF TimeInv, NotOverCharged
  <2>2. \A x \in b'.activities : Orphan(x)' => x.until <= now' + m
    BY <1>1, <1>2, <2>1, OrphansStay
  <2>3. Charged' + m <= worked' + Lease * crashes' + Invocation * early'
    BY <1>1, <1>3, <2>1
  <2> QED
    BY <2>2, <2>3 DEF NotOverCharged
<1>5. NotUnderCharged'
  BY <1>1, <1>3 DEF TimeInv, NotUnderCharged
<1> QED
  BY <1>4, <1>5

\* What a driver that dies leaves: its activity is an orphan for a lease, and
\* what it worked since its last beat may be lost.
LEMMA CrashUnits ==
    ASSUME TimeInv, BudgetConstants, NEW d \in Drivers, Crash(d)
    PROVE  /\ Charged' = Charged
           /\ \A x \in b'.activities : x.owner = Gone =>
                 x.until <= now + Lease
                 \/ (\E y \in b.activities : y.owner = Gone /\ y.until = x.until)
           /\ \A x \in b'.activities : x.owner = None => x \in b.activities
           /\ \/ Cardinality(SureUnits(b, now)) <= Cardinality(SureUnits(b, now)') + Lease
              \/ SureUnits(b, now)' = SureUnits(b, now)
           /\ job[d].at = "admitted" => b'.activities = b.activities
<1> DEFINE G(x) == IF x.owner = d THEN [x EXCEPT !.owner = Gone] ELSE x
<1>1. /\ b \in Budget /\ now' = now /\ Gone \notin Drivers /\ None # Gone
      /\ None \notin Drivers /\ BudgetInv /\ Watched
  BY DEF Crash, TimeInv, BudgetInv, BudgetTypeOK, BudgetConstants
<1>2. /\ b'.activities = {G(x) : x \in b.activities}
      /\ b'.usage = b.usage /\ b'.checkpoint = b.checkpoint
  BY <1>1 DEF Crash, Budget
<1>3. \A x \in b.activities :
         /\ G(x).id = x.id /\ G(x).seen = x.seen /\ G(x).until = x.until /\ G(x).host = x.host
         /\ G(x).owner = IF x.owner = d THEN Gone ELSE x.owner
         /\ x.owner # d => G(x) = x
  BY <1>1 DEF Budget, Activity
<1>4. /\ now \in Nat /\ b.checkpoint \in Nat /\ Lease \in Nat \ {0}
  BY <1>1, TimeNumbers
<1> HIDE DEF G
<1>5. \A x \in b.activities : CountsUntil(G(x), now) = CountsUntil(x, now)
  BY <1>3 DEF CountsUntil
<1>6. ActiveUnits(b, now)' = ActiveUnits(b, now)
  <2>1. \A u : (\E x \in b'.activities : u < CountsUntil(x, now)) <=>
               (\E x \in b.activities : u < CountsUntil(x, now))
    BY <1>2, <1>5
  <2> QED
    BY <1>1, <1>2, <2>1 DEF ActiveUnits
<1>7. Charged' = Charged
  BY <1>2, <1>6 DEF Charged
<1>8. \A y \in b.activities : y.owner = d =>
         /\ y.until <= now + Lease /\ now <= y.seen + Lease
         /\ y.seen \in Nat /\ y.until \in Nat
  <2> SUFFICES ASSUME NEW y \in b.activities, y.owner = d
               PROVE  /\ y.until <= now + Lease /\ now <= y.seen + Lease
                      /\ y.seen \in Nat /\ y.until \in Nat
    OBVIOUS
  <2>1. y.seen \in Nat /\ y.until \in Nat
    BY <1>1, ActivityFacts
  <2>2. Working(y.owner, y) /\ Leased(y)
    BY <1>1 DEF Watched
  <2> QED
    BY <1>1, <1>4, <2>1, <2>2 DEF Working, Leased
<1>9. \A x \in b'.activities : x.owner = Gone =>
         x.until <= now + Lease
         \/ (\E y \in b.activities : y.owner = Gone /\ y.until = x.until)
  <2> SUFFICES ASSUME NEW y \in b.activities, G(y).owner = Gone
               PROVE  G(y).until <= now + Lease
                      \/ (\E z \in b.activities : z.owner = Gone /\ z.until = G(y).until)
    BY <1>2
  <2>1. CASE y.owner = d
    BY <1>3, <1>8, <2>1
  <2>2. CASE y.owner # d
    BY <1>3, <2>2
  <2> QED
    BY <2>1, <2>2
<1>10. \A x \in b'.activities : x.owner = None => x \in b.activities
  BY <1>1, <1>2, <1>3
<1>11. CASE \A y \in b.activities : y.owner # d
  <2>1. b'.activities = b.activities
    BY <1>2, <1>3, <1>11
  <2>2. SureUnits(b, now)' = SureUnits(b, now)
    BY <1>1, <1>2, <2>1 DEF SureUnits
  <2> QED
    BY <1>7, <1>9, <1>10, <2>1, <2>2
<1>12. ASSUME NEW y \in b.activities, y.owner = d
       PROVE  /\ Cardinality(SureUnits(b, now)) <= Cardinality(SureUnits(b, now)') + Lease
              /\ job[d].at # "admitted"
  <2> DEFINE S == SureUnits(b, now)
             T == SureUnits(b, now)'
             I == y.seen .. now - 1
  <2>1. job[d] = [at |-> "working", id |-> y.id]
    <3>1. job[y.owner] = [at |-> "working", id |-> y.id]
      BY <1>1, <1>12, OwnedKept
    <3> QED
      BY <1>12, <3>1
  <2>2. \A z \in b.activities : z.owner = d => z = y
    <3> SUFFICES ASSUME NEW z \in b.activities, z.owner = d PROVE z = y
      OBVIOUS
    <3>1. job[z.owner] = [at |-> "working", id |-> z.id]
      BY <1>1, OwnedKept
    <3>2. z.id = y.id
      BY <2>1, <3>1
    <3> QED
      BY <1>1, <3>2 DEF Watched
  <2>3. y.seen \in Nat /\ now <= y.seen + Lease
    BY <1>8, <1>12
  <2>4. T = {u \in b.checkpoint .. now - 1 : \E x \in b'.activities :
                u < IF x.owner = Gone THEN x.seen ELSE CountsUntil(x, now)}
    BY <1>1, <1>2 DEF SureUnits
  <2>5. S \subseteq T \cup I
    <3> SUFFICES ASSUME NEW u \in S, u \notin I PROVE u \in T
      OBVIOUS
    <3>1. PICK x \in b.activities : u < IF x.owner = Gone THEN x.seen ELSE CountsUntil(x, now)
      BY DEF SureUnits
    <3>2. u \in b.checkpoint .. now - 1 /\ u \in Int /\ u < y.seen
      BY <1>4, <2>3 DEF SureUnits
    <3>3. G(x) \in b'.activities
      BY <1>2
    <3>4. CASE x.owner = d
      <4>1. G(x).owner = Gone /\ G(x).seen = y.seen
        BY <1>3, <2>2, <3>4
      <4> QED
        BY <2>4, <3>2, <3>3, <4>1
    <3>5. CASE x.owner # d
      BY <1>3, <2>4, <3>1, <3>2, <3>3, <3>5
    <3> QED
      BY <3>4, <3>5
  <2>6. T \subseteq b.checkpoint .. now - 1
    BY <2>4
  <2>7. IsFiniteSet(T) /\ Cardinality(T) \in Nat
    BY <1>4, <2>6, UnitSets
  <2>8. IsFiniteSet(I) /\ Cardinality(I) \in Nat /\ Cardinality(I) <= Lease
    <3>1. y.seen \in Int /\ now - 1 \in Int
      BY <1>4, <2>3
    <3>2. /\ IsFiniteSet(I)
          /\ Cardinality(I) = IF y.seen > now - 1 THEN 0 ELSE (now - 1) - y.seen + 1
      BY <3>1, FS_Interval, Zenon
    <3> HIDE DEF I
    <3> QED
      BY <1>4, <2>3, <3>2
  <2> HIDE DEF S, T, I
  <2>9. /\ IsFiniteSet(T \cup I)
        /\ Cardinality(T \cup I) = Cardinality(T) + Cardinality(I) - Cardinality(T \cap I)
    BY <2>7, <2>8, FS_Union
  <2>10. Cardinality(T \cap I) \in Nat
    BY <2>7, FS_Intersection, FS_CardinalityType
  <2>11. Cardinality(S) <= Cardinality(T \cup I) /\ Cardinality(S) \in Nat
    BY <2>5, <2>9, FS_Subset, FS_CardinalityType
  <2>12. Cardinality(S) <= Cardinality(T) + Lease
    BY <1>4, <2>7, <2>8, <2>9, <2>10, <2>11
  <2> QED
    BY <2>1, <2>12 DEF S, T
<1> QED
  BY <1>7, <1>9, <1>10, <1>11, <1>12

LEMMA CrashTime ==
    ASSUME TimeInv, BudgetConstants, NEW d \in Drivers, Crash(d)
    PROVE  NotOverCharged' /\ NotUnderCharged'
<1>1. /\ now' = now /\ worked' = worked /\ job' = [job EXCEPT ![d] = Idle]
      /\ job \in [Drivers -> Job] /\ b'.usage = b.usage /\ BudgetInv /\ Watched
  BY DEF Crash, TimeInv, BudgetInv, BudgetTypeOK, Budget
<1>2. /\ Charged' = Charged
      /\ \A x \in b'.activities : x.owner = Gone =>
            x.until <= now + Lease
            \/ (\E y \in b.activities : y.owner = Gone /\ y.until = x.until)
      /\ \A x \in b'.activities : x.owner = None => x \in b.activities
      /\ \/ Cardinality(SureUnits(b, now)) <= Cardinality(SureUnits(b, now)') + Lease
         \/ SureUnits(b, now)' = SureUnits(b, now)
      /\ job[d].at = "admitted" => b'.activities = b.activities
  BY CrashUnits
<1>3. /\ b.usage["seconds"] \in Nat /\ now \in Nat /\ worked \in Nat
      /\ crashes \in Nat /\ early \in Nat
      /\ Lease \in Nat \ {0} /\ Invocation \in Nat \ {0}
      /\ Lease * crashes \in Nat /\ Invocation * early \in Nat
      /\ Lease * (crashes + 1) = Lease * crashes + Lease
      /\ Invocation * (early + 1) = Invocation * early + Invocation
  BY <1>1, TimeNumbers
<1>4. Cardinality(ActiveUnits(b, now)) \in Nat /\ Cardinality(SureUnits(b, now)) \in Nat
  BY <1>1, <1>3, ActiveSets
<1>5. Charged \in Nat
  BY <1>3, <1>4 DEF Charged
<1>6. PICK m \in Nat : /\ \A x \in b.activities : Orphan(x) => x.until <= now + m
                       /\ Charged + m <= worked + Lease * crashes + Invocation * early
  BY DEF TimeInv, NotOverCharged
<1>7. worked <= b.usage["seconds"] + Cardinality(SureUnits(b, now)) + Lease * crashes
  BY DEF TimeInv, NotUnderCharged
<1>8. BudgetInv'
  BY <1>1, CrashStep
<1>9. Cardinality(SureUnits(b, now)') \in Nat
  <2>1. SureUnits(b, now)' \subseteq b'.checkpoint .. now - 1
    BY <1>1 DEF SureUnits
  <2>2. b'.checkpoint \in Nat
    BY <1>8 DEF BudgetInv, BudgetTypeOK, Budget
  <2> QED
    BY <1>3, <2>1, <2>2, UnitSets
<1>10. CASE job[d].at = "working" /\ crashes' = crashes + 1 /\ early' = early
  <2>1. \A e \in Drivers : job[e].at = "admitted" => job'[e] = job[e]
    BY <1>1, <1>10, WorkingGivesUp
  <2>2. \A x \in b'.activities : Orphan(x)' => x.until <= now' + (m + Lease)
    <3> SUFFICES ASSUME NEW x \in b'.activities, Orphan(x)'
                 PROVE  x.until <= now + (m + Lease)
      BY <1>1
    <3>1. CASE x.owner = Gone
      <4>1. CASE x.until <= now + Lease
        <5>1. x.until \in Nat
          BY <1>8 DEF BudgetInv, BudgetTypeOK, Budget, Activity
        <5> QED
          BY <1>3, <1>6, <4>1, <5>1
      <4>2. ASSUME NEW y \in b.activities, y.owner = Gone, y.until = x.until
            PROVE  x.until <= now + (m + Lease)
        <5>1. Orphan(y) /\ y.until \in Nat
          BY <1>1, <4>2, ActivityFacts DEF Orphan
        <5> QED
          BY <1>3, <1>6, <4>2, <5>1
      <4> QED
        BY <1>2, <3>1, <4>1, <4>2
    <3>2. CASE x.owner = None
      <4>1. x \in b.activities /\ Orphan(x)
        BY <1>2, <2>1, <3>2, OrphansStay
      <4>2. x.until \in Nat
        BY <1>1, <4>1, ActivityFacts
      <4> QED
        BY <1>3, <1>6, <4>1, <4>2
    <3> QED
      BY <3>1, <3>2 DEF Orphan
  <2>3. Charged' + (m + Lease) <= worked' + Lease * crashes' + Invocation * early'
    BY <1>1, <1>2, <1>3, <1>5, <1>6, <1>10
  <2>4. NotOverCharged'
    BY <1>3, <1>6, <2>2, <2>3 DEF NotOverCharged
  <2>5. worked' <= b'.usage["seconds"] + Cardinality(SureUnits(b, now)') + Lease * crashes'
    BY <1>1, <1>2, <1>3, <1>4, <1>7, <1>9, <1>10
  <2> QED
    BY <2>4, <2>5 DEF NotUnderCharged
<1>11. CASE job[d].at = "admitted" /\ early' = early + 1 /\ crashes' = crashes
  <2>1. b'.activities = b.activities
    BY <1>2, <1>11
  <2>2. \A x \in b'.activities : Orphan(x)' => x.until <= now' + (m + Invocation)
    <3> SUFFICES ASSUME NEW x \in b.activities, Orphan(x)'
                 PROVE  x.until <= now + (m + Invocation)
      BY <1>1, <2>1
    <3>1. x.until \in Nat /\ x.seen \in Nat
      BY <1>1, ActivityFacts
    <3>2. CASE x.owner = Gone
      <4>1. x.until <= now + m
        BY <1>6, <3>2 DEF Orphan
      <4> QED
        BY <1>3, <1>6, <3>1, <4>1
    <3>3. CASE x.owner = None
      <4>1. x.host /\ Leased(x)
        BY <1>1, <3>3 DEF Watched, Leased
      <4> QED
        BY <1>3, <1>6, <3>1, <4>1 DEF Leased
    <3> QED
      BY <3>2, <3>3 DEF Orphan
  <2>3. Charged' + (m + Invocation) <= worked' + Lease * crashes' + Invocation * early'
    BY <1>1, <1>2, <1>3, <1>5, <1>6, <1>11
  <2>4. NotOverCharged'
    BY <1>3, <1>6, <2>2, <2>3 DEF NotOverCharged
  <2>5. SureUnits(b, now)' = SureUnits(b, now)
    BY <1>1, <2>1 DEF SureUnits, Crash, TimeInv, BudgetInv, BudgetTypeOK, Budget
  <2>6. worked' <= b'.usage["seconds"] + Cardinality(SureUnits(b, now)') + Lease * crashes'
    BY <1>1, <1>7, <1>11, <2>5
  <2> QED
    BY <2>4, <2>6 DEF NotUnderCharged
<1> QED
  BY <1>10, <1>11 DEF Crash

\* A unit of the clock is charged once; none is charged when no activity runs.
LEMMA AdvanceUnits ==
    ASSUME TimeInv, BudgetConstants
    PROVE  /\ Cardinality(ActiveUnits(b, now + 1)) <= Cardinality(ActiveUnits(b, now)) + 1
           /\ (\A x \in b.activities : ~(now < x.until)) =>
                 Cardinality(ActiveUnits(b, now + 1)) <= Cardinality(ActiveUnits(b, now))
<1>1. /\ now \in Nat /\ now + 1 \in Nat /\ b.checkpoint \in Nat /\ b.checkpoint <= now
      /\ BudgetInv /\ Watched
  BY TimeNumbers DEF TimeInv
<1>2. /\ IsFiniteSet(ActiveUnits(b, now)) /\ Cardinality(ActiveUnits(b, now)) \in Nat
      /\ IsFiniteSet(ActiveUnits(b, now + 1))
  BY <1>1, ActiveSets
<1>3. \A x \in b.activities : x.seen \in Nat /\ x.until \in Nat /\ x.seen <= now
  BY <1>1, ActivityFacts DEF Watched, Leased
<1>4. ActiveUnits(b, now + 1) \subseteq ActiveUnits(b, now) \cup {now}
  <2> SUFFICES ASSUME NEW u \in ActiveUnits(b, now + 1), u # now
               PROVE  u \in ActiveUnits(b, now)
    OBVIOUS
  <2>1. PICK x \in b.activities : u < CountsUntil(x, now + 1)
    BY DEF ActiveUnits
  <2>2. u \in b.checkpoint .. now /\ u < now
    BY <1>1 DEF ActiveUnits
  <2>3. u < CountsUntil(x, now)
    BY <1>1, <1>3, <2>1, <2>2 DEF CountsUntil
  <2> QED
    BY <1>1, <2>2, <2>3 DEF ActiveUnits
<1>5. (\A x \in b.activities : ~(now < x.until)) => ActiveUnits(b, now + 1) \subseteq ActiveUnits(b, now)
  <2> SUFFICES ASSUME \A x \in b.activities : ~(now < x.until),
                      NEW u \in ActiveUnits(b, now + 1)
               PROVE  u \in ActiveUnits(b, now)
    OBVIOUS
  <2>1. PICK x \in b.activities : u < CountsUntil(x, now + 1)
    BY DEF ActiveUnits
  <2>2. x.until <= now
    BY <1>1, <1>3
  <2>3. u # now
    BY <1>1, <1>3, <2>1, <2>2 DEF CountsUntil
  <2> QED
    BY <1>4, <2>3
<1>6. /\ IsFiniteSet(ActiveUnits(b, now) \cup {now})
      /\ Cardinality(ActiveUnits(b, now) \cup {now}) <= Cardinality(ActiveUnits(b, now)) + 1
  <2>1. CASE now \in ActiveUnits(b, now)
    <3>1. ActiveUnits(b, now) \cup {now} = ActiveUnits(b, now)
      BY <2>1
    <3>2. /\ IsFiniteSet(ActiveUnits(b, now) \cup {now})
          /\ Cardinality(ActiveUnits(b, now) \cup {now}) = Cardinality(ActiveUnits(b, now))
      BY <1>2, <3>1, Zenon
    <3> QED
      BY <1>2, <3>2
  <2>2. CASE now \notin ActiveUnits(b, now)
    <3>1. /\ IsFiniteSet(ActiveUnits(b, now) \cup {now})
          /\ Cardinality(ActiveUnits(b, now) \cup {now}) = Cardinality(ActiveUnits(b, now)) + 1
      BY <1>2, <2>2, FS_AddElement
    <3> QED
      BY <1>2, <3>1
  <2> QED
    BY <2>1, <2>2
<1>7. Cardinality(ActiveUnits(b, now + 1)) <= Cardinality(ActiveUnits(b, now) \cup {now})
  BY <1>4, <1>6, FS_Subset
<1>8. /\ Cardinality(ActiveUnits(b, now + 1)) \in Nat
      /\ Cardinality(ActiveUnits(b, now) \cup {now}) \in Nat
  BY <1>2, <1>6, FS_CardinalityType
<1>9. (\A x \in b.activities : ~(now < x.until)) =>
         Cardinality(ActiveUnits(b, now + 1)) <= Cardinality(ActiveUnits(b, now))
  BY <1>2, <1>5, FS_Subset
<1> QED
  BY <1>2, <1>6, <1>7, <1>8, <1>9

\* A unit in which somebody works is sure to be charged.
LEMMA AdvanceSure ==
    ASSUME TimeInv, BudgetConstants, Advance
    PROVE  Cardinality(SureUnits(b, now + 1)) >=
              Cardinality(SureUnits(b, now)) + IF AtWork THEN 1 ELSE 0
<1>1. /\ now \in Nat /\ now + 1 \in Nat /\ b.checkpoint \in Nat /\ b.checkpoint <= now
      /\ BudgetInv /\ Watched
  BY TimeNumbers DEF TimeInv
<1>2. /\ IsFiniteSet(SureUnits(b, now)) /\ Cardinality(SureUnits(b, now)) \in Nat
      /\ IsFiniteSet(SureUnits(b, now + 1)) /\ Cardinality(SureUnits(b, now + 1)) \in Nat
  BY <1>1, ActiveSets
<1>3. \A x \in b.activities : x.seen \in Nat /\ x.until \in Nat /\ x.owner \in Owner
                              /\ (x.owner = None => x.host) /\ (x.owner # None => ~x.host)
  BY <1>1, ActivityFacts DEF Watched, Leased
<1>4. \A x \in b.activities : x.owner \in Drivers => now + 1 < x.until
  BY DEF Advance
<1>5. SureUnits(b, now) \subseteq SureUnits(b, now + 1)
  <2> SUFFICES ASSUME NEW u \in SureUnits(b, now) PROVE u \in SureUnits(b, now + 1)
    OBVIOUS
  <2>1. PICK x \in b.activities : u < IF x.owner = Gone THEN x.seen ELSE CountsUntil(x, now)
    BY DEF SureUnits
  <2>2. u \in b.checkpoint .. now /\ u < now
    BY <1>1 DEF SureUnits
  <2>3. u < IF x.owner = Gone THEN x.seen ELSE CountsUntil(x, now + 1)
    <3>1. CASE x.owner = Gone
      BY <2>1, <3>1
    <3>2. CASE x.owner # Gone /\ x.owner \in Drivers
      BY <1>1, <1>3, <1>4, <2>2, <3>2 DEF CountsUntil
    <3>3. CASE x.owner # Gone /\ x.owner = None
      BY <1>1, <1>3, <2>1, <2>2, <3>3 DEF CountsUntil
    <3> QED
      BY <1>3, <3>1, <3>2, <3>3 DEF Owner
  <2> QED
    BY <1>1, <2>2, <2>3 DEF SureUnits
<1>6. now \notin SureUnits(b, now)
  BY <1>1 DEF SureUnits
<1>7. CASE ~AtWork
  BY <1>2, <1>5, <1>7, FS_Subset
<1>8. CASE AtWork
  <2>1. PICK x \in b.activities : x.owner # Gone /\ now + 1 <= x.until
    <3>1. ASSUME NEW d \in Drivers, job[d] # Idle, job[d].id \notin b.completed
          PROVE  \E x \in b.activities : x.owner # Gone /\ now + 1 <= x.until
      <4>1. job[d] \in Job /\ job[d].at # "admitted"
        BY <1>1 DEF BudgetInv, BudgetTypeOK, Advance
      <4>2. job[d].at = "working"
        BY <3>1, <4>1 DEF Job
      <4>3. PICK x \in b.activities : x.id = job[d].id /\ x.owner = d
        BY <1>1, <3>1, <4>2 DEF Watched
      <4>4. now + 1 <= x.until
        BY <1>1, <1>3, <1>4, <4>3
      <4> QED
        BY <4>3, <4>4 DEF BudgetConstants
    <3>2. ASSUME NEW x \in b.activities, x.id \in HostIds, now < x.until
          PROVE  \E y \in b.activities : y.owner # Gone /\ now + 1 <= y.until
      <4>1. x.owner # Gone
        BY <3>2 DEF TimeInv, Hosted, BudgetConstants
      <4> QED
        BY <1>1, <1>3, <3>2, <4>1
    <3> QED
      BY <1>8, <3>1, <3>2 DEF AtWork
  <2>2. now < CountsUntil(x, now + 1)
    BY <1>1, <1>3, <2>1 DEF CountsUntil
  <2>3. now \in SureUnits(b, now + 1)
    BY <1>1, <2>1, <2>2 DEF SureUnits
  <2>4. SureUnits(b, now) \cup {now} \subseteq SureUnits(b, now + 1)
    BY <1>5, <2>3
  <2>5. Cardinality(SureUnits(b, now) \cup {now}) = Cardinality(SureUnits(b, now)) + 1
    BY <1>2, <1>6, FS_AddElement
  <2>6. Cardinality(SureUnits(b, now) \cup {now}) <= Cardinality(SureUnits(b, now + 1))
    BY <1>2, <2>4, FS_Subset
  <2> QED
    BY <1>2, <1>8, <2>5, <2>6
<1> QED
  BY <1>7, <1>8

\* The clock: time that is charged is worked, or an orphan's.
LEMMA AdvanceTime ==
    ASSUME TimeInv, BudgetConstants, Advance
    PROVE  NotOverCharged' /\ NotUnderCharged'
<1>1. /\ b' = b /\ job' = job /\ now' = now + 1 /\ crashes' = crashes /\ early' = early
      /\ worked' = worked + (IF AtWork THEN 1 ELSE 0)
  BY DEF Advance
<1>2. /\ b.usage["seconds"] \in Nat /\ now \in Nat /\ now + 1 \in Nat /\ worked \in Nat
      /\ Lease * crashes \in Nat /\ Invocation * early \in Nat
      /\ BudgetInv /\ Watched
  BY TimeNumbers DEF TimeInv
<1>3. /\ Cardinality(ActiveUnits(b, now)) \in Nat /\ Cardinality(SureUnits(b, now)) \in Nat
      /\ Cardinality(ActiveUnits(b, now + 1)) \in Nat
      /\ Cardinality(SureUnits(b, now + 1)) \in Nat
  BY <1>2, ActiveSets
<1>4. ActiveUnits(b, now)' = ActiveUnits(b, now + 1) /\ SureUnits(b, now)' = SureUnits(b, now + 1)
  BY <1>1 DEF ActiveUnits, SureUnits
<1>5. Charged' = b.usage["seconds"] + Cardinality(ActiveUnits(b, now + 1))
  BY <1>1, <1>4 DEF Charged
<1>6. NotUnderCharged'
  <2>1. worked <= b.usage["seconds"] + Cardinality(SureUnits(b, now)) + Lease * crashes
    BY DEF TimeInv, NotUnderCharged
  <2>2. Cardinality(SureUnits(b, now + 1)) >=
           Cardinality(SureUnits(b, now)) + IF AtWork THEN 1 ELSE 0
    BY AdvanceSure
  <2> DEFINE n == IF AtWork THEN 1 ELSE 0
  <2>3. n \in Nat
    OBVIOUS
  <2> HIDE DEF n
  <2>4. worked' = worked + n /\ Cardinality(SureUnits(b, now + 1)) >= Cardinality(SureUnits(b, now)) + n
    BY <1>1, <2>2 DEF n
  <2>5. worked' <= b.usage["seconds"] + Cardinality(SureUnits(b, now + 1)) + Lease * crashes
    BY <1>2, <1>3, <2>1, <2>3, <2>4
  <2> QED
    BY <1>1, <1>4, <2>5 DEF NotUnderCharged
<1>7. PICK m \in Nat : /\ \A x \in b.activities : Orphan(x) => x.until <= now + m
                       /\ Charged + m <= worked + Lease * crashes + Invocation * early
  BY DEF TimeInv, NotOverCharged
<1>8. Charged = b.usage["seconds"] + Cardinality(ActiveUnits(b, now))
  BY DEF Charged
<1>9. /\ Cardinality(ActiveUnits(b, now + 1)) <= Cardinality(ActiveUnits(b, now)) + 1
      /\ (\A x \in b.activities : ~(now < x.until)) =>
            Cardinality(ActiveUnits(b, now + 1)) <= Cardinality(ActiveUnits(b, now))
  BY AdvanceUnits
<1>10. \A x \in b.activities : Orphan(x)' => Orphan(x)
  BY <1>1, OrphansStay
<1>11. \A x \in b.activities : x.until \in Nat
  BY <1>2, ActivityFacts
<1>12. CASE AtWork
  <2>1. \A x \in b'.activities : Orphan(x)' => x.until <= now' + m
    BY <1>1, <1>2, <1>7, <1>10, <1>11
  <2>2. Charged' + m <= worked' + Lease * crashes' + Invocation * early'
    BY <1>1, <1>2, <1>3, <1>5, <1>7, <1>8, <1>9, <1>12
  <2> QED
    BY <1>6, <2>1, <2>2 DEF NotOverCharged
<1>13. CASE ~AtWork /\ \A x \in b.activities : ~(now < x.until)
  <2>1. \A x \in b'.activities : Orphan(x)' => x.until <= now' + m
    BY <1>1, <1>2, <1>7, <1>10, <1>11
  <2>2. Charged' + m <= worked' + Lease * crashes' + Invocation * early'
    BY <1>1, <1>2, <1>3, <1>5, <1>7, <1>8, <1>9, <1>13
  <2> QED
    BY <1>6, <2>1, <2>2 DEF NotOverCharged
<1>14. ASSUME ~AtWork, NEW y \in b.activities, now < y.until
       PROVE  NotOverCharged'
  <2>1. Orphan(y)
    <3>1. y.owner \in Owner /\ y.id \in Ids
      BY <1>2, ActivityFacts
    <3>2. CASE y.owner \in Drivers
      <4>1. job[y.owner] = [at |-> "working", id |-> y.id] /\ y.id \notin b.completed
        BY <1>2, <3>2, OwnedKept DEF Watched
      <4>2. AtWork
        BY <3>2, <4>1 DEF AtWork, Idle
      <4> QED
        BY <1>14, <4>2
    <3>3. CASE y.owner = None
      <4>1. y.id \notin HostIds
        BY <1>14 DEF AtWork
      <4>2. \A d \in Drivers : job[d] # [at |-> "admitted", id |-> y.id]
        BY DEF Advance
      <4> QED
        BY <3>3, <4>1, <4>2 DEF Orphan
    <3> QED
      BY <3>1, <3>2, <3>3 DEF Owner, Orphan
  <2>2. m \in Nat \ {0}
    BY <1>2, <1>7, <1>11, <1>14, <2>1
  <2>3. m - 1 \in Nat
    BY <2>2
  <2>4. \A x \in b'.activities : Orphan(x)' => x.until <= now' + (m - 1)
    BY <1>1, <1>2, <1>7, <1>10, <1>11
  <2>5. worked' = worked
    BY <1>1, <1>2, <1>14
  <2>6. Charged' + (m - 1) <= worked' + Lease * crashes' + Invocation * early'
    BY <1>1, <1>2, <1>3, <1>5, <1>7, <1>8, <1>9, <2>5
  <2> QED
    BY <2>3, <2>4, <2>6 DEF NotOverCharged
<1> QED
  BY <1>6, <1>12, <1>13, <1>14

LEMMA TimeInvariant == Spec => []TimeInv
<1>1. Init => TimeInv
  <2> SUFFICES ASSUME Init PROVE TimeInv
    OBVIOUS
  <2>1. BudgetInv
    BY InitBudget, BudgetConstants
  <2>2. Watched /\ Hosted
    BY DEF Init, NewBudget, Watched, Hosted, Idle
  <2>3. /\ b.activities = {} /\ b.usage["seconds"] = 0 /\ worked = 0
        /\ crashes = 0 /\ early = 0
    BY DEF Init, NewBudget, Keys
  <2>4. ActiveUnits(b, now) = {} /\ SureUnits(b, now) = {} /\ Cardinality({}) = 0
    BY <2>3, FS_EmptySet DEF ActiveUnits, SureUnits
  <2>5. Lease * 0 = 0 /\ Invocation * 0 = 0
    BY BudgetConstants DEF BudgetConstants
  <2>6. NotUnderCharged
    BY <2>3, <2>4, <2>5 DEF NotUnderCharged
  <2>7. Charged + 0 <= worked + Lease * crashes + Invocation * early
    BY <2>3, <2>4, <2>5 DEF Charged
  <2>8. NotOverCharged
    BY <2>3, <2>7 DEF NotOverCharged
  <2> QED
    BY <2>1, <2>2, <2>6, <2>8 DEF TimeInv
<1>2. TimeInv /\ [Next]_vars => TimeInv'
  <2> SUFFICES ASSUME TimeInv, [Next]_vars PROVE TimeInv'
    OBVIOUS
  <2>1. BudgetInv' /\ Watched'
    BY NextBudget, NextWatched, BudgetConstants DEF TimeInv
  <2>2. Hosted'
    BY HostedJobs, HostedActivities, BudgetConstants DEF TimeInv, Hosted, Idle
  <2>3. NotOverCharged' /\ NotUnderCharged'
    <3>1. CASE Gate \/ Extend \/ Advance
      BY <3>1, LedgerTime, AdvanceTime, BudgetConstants
    <3>2. CASE \E i \in Ids : HostAdmit(i) \/ HostReport(i) \/ Charge(i)
      BY <3>2, LedgerTime, HostAdmitTime, BudgetConstants
    <3>3. CASE \E d \in Drivers : Launch(d) \/ Beat(d) \/ ReportUsage(d) \/ Finish(d)
                                  \/ Fail(d) \/ Abandon(d) \/ Crash(d)
      BY <3>3, BeatersTime, CallersTime, CrashTime, BudgetConstants
    <3>4. CASE \E d \in Drivers, i \in Ids : Admit(d, i) \/ Take(d, i)
      BY <3>4, AdmitTime, TakeTime, BudgetConstants
    <3>5. CASE UNCHANGED vars
      BY <3>5 DEF vars, TimeInv, NotOverCharged, NotUnderCharged, Charged, Orphan,
                  ActiveUnits, SureUnits
    <3> QED
      BY <3>1, <3>2, <3>3, <3>4, <3>5 DEF Next
  <2> QED
    BY <2>1, <2>2, <2>3 DEF TimeInv
<1> QED
  BY <1>1, <1>2, PTL DEF Spec

\* Whatever overlaps, races and dies: what a tree is charged is the time in
\* which somebody worked, but for a lease for each driver that died while its
\* worker ran, and an expiry for each that died before the launch (Tick,
\* updateOwnedBudget, budgetActivity).
THEOREM ChargesTimeWorked == Spec => []ActiveTimeCharged
<1>1. TimeInv => ActiveTimeCharged
  <2> SUFFICES ASSUME TimeInv PROVE ActiveTimeCharged
    OBVIOUS
  <2>1. /\ b.usage["seconds"] \in Nat /\ now \in Nat /\ worked \in Nat
        /\ Lease * crashes \in Nat /\ Invocation * early \in Nat /\ BudgetInv /\ Watched
    BY TimeNumbers, BudgetConstants DEF TimeInv
  <2>2. ChargedTime = Charged
    BY <2>1, CurrentParts DEF ChargedTime
  <2>3. /\ Cardinality(ActiveUnits(b, now)) \in Nat /\ Cardinality(SureUnits(b, now)) \in Nat
        /\ Cardinality(SureUnits(b, now)) <= Cardinality(ActiveUnits(b, now))
    BY <2>1, ActiveSets, SureIsActive, BudgetConstants
  <2>4. Charged = b.usage["seconds"] + Cardinality(ActiveUnits(b, now))
    BY DEF Charged
  <2>5. Charged <= worked + Lease * crashes + Invocation * early
    <3>1. PICK m \in Nat : Charged + m <= worked + Lease * crashes + Invocation * early
      BY DEF TimeInv, NotOverCharged
    <3> QED
      BY <2>1, <2>3, <2>4, <3>1
  <2>6. worked <= Charged + Lease * crashes
    BY <2>1, <2>3, <2>4 DEF TimeInv, NotUnderCharged
  <2> QED
    BY <2>2, <2>5, <2>6 DEF ActiveTimeCharged
<1> QED
  BY <1>1, TimeInvariant, PTL
-----------------------------------------------------------------------------
(***************************************************************************)
(* Sums                                                                    *)
(*                                                                         *)
(* SumFunction is recursive and takes the elements of its domain in an     *)
(* order it chooses.  No induction theorem of the library can be applied   *)
(* here, so that each fact is shown of a smallest subset that violates it. *)
(***************************************************************************)

\* SumFunction takes the elements of a set in an order of its own.
Chosen(s) == CHOOSE x \in s : TRUE
SumsTo(f, it, S) ==
    it = [s \in SUBSET S |-> IF s = {} THEN 0 ELSE f[Chosen(s)] + it[s \ {Chosen(s)}]]
SumsOf(f, S) == CHOOSE it : SumsTo(f, it, S)

\* SumFunction(f) is the last of the sums over the subsets of DOMAIN f.
LEMMA SumIsRecursive ==
    ASSUME NEW f
    PROVE  SumFunction(f) = SumsOf(f, DOMAIN f)[DOMAIN f]
BY DEF SumFunction, SumFunctionOnSet, FoldFunctionOnSet, MapThenFoldSet, SumsOf, SumsTo, Chosen

\* What some subset of a finite set is, a smallest one is.
LEMMA SmallestSubset ==
    ASSUME NEW S, IsFiniteSet(S), NEW B, B \subseteq SUBSET S, B # {}
    PROVE  \E T \in B : \A U \in B : U \subseteq T => U = T
<1>1. IsWellFoundedOn(StrictSubsetOrdering(S), SUBSET S)
  BY FS_StrictSubsetOrderingWellFounded, FS_FiniteSubsetsOfFinite
<1>2. PICK T \in B : \A U \in B : ~ (<<U, T>> \in StrictSubsetOrdering(S))
  BY <1>1, WFMin
<1> QED
  BY <1>2 DEF StrictSubsetOrdering

\* What is taken is an element, and less remains.
LEMMA ChosenIsMember ==
    ASSUME NEW s, s # {}
    PROVE  Chosen(s) \in s /\ s \ {Chosen(s)} # s
BY DEF Chosen

\* Two functions that sum f agree on whatever subsets both are defined for.
LEMMA SumsAgree ==
    ASSUME NEW S, IsFiniteSet(S), NEW f, NEW T \in SUBSET S, NEW U \in SUBSET S, NEW g, NEW h,
           SumsTo(f, g, T), SumsTo(f, h, U)
    PROVE  \A s \in SUBSET (T \cap U) : g[s] = h[s]
<1> DEFINE B == {s \in SUBSET (T \cap U) : g[s] # h[s]}
<1>1. SUFFICES ASSUME B # {} PROVE FALSE
  OBVIOUS
<1>2. B \subseteq SUBSET S
  OBVIOUS
<1>3. PICK s \in B : \A u \in B : u \subseteq s => u = s
  <2> HIDE DEF B
  <2> QED BY <1>1, <1>2, SmallestSubset
<1>4. /\ g[s] = IF s = {} THEN 0 ELSE f[Chosen(s)] + g[s \ {Chosen(s)}]
      /\ h[s] = IF s = {} THEN 0 ELSE f[Chosen(s)] + h[s \ {Chosen(s)}]
  BY DEF SumsTo
<1>5. s # {}
  BY <1>4
<1>6. s \ {Chosen(s)} \notin B
  BY <1>3, <1>5, ChosenIsMember
<1> QED
  BY <1>4, <1>5, <1>6

\* There is a function that sums f over the subsets of a finite set.
LEMMA SumsExist ==
    ASSUME NEW S, IsFiniteSet(S), NEW f
    PROVE  SumsTo(f, SumsOf(f, S), S)
<1> DEFINE B == {T \in SUBSET S : ~ \E it : SumsTo(f, it, T)}
<1>1. SUFFICES ASSUME B # {} PROVE FALSE
  <2>1. \E it : SumsTo(f, it, S)
    BY <1>1
  <2> QED
    BY <2>1 DEF SumsOf
<1>2. PICK T \in B : \A U \in B : U \subseteq T => U = T
  <2>1. B \subseteq SUBSET S
    OBVIOUS
  <2> HIDE DEF B
  <2> QED BY <1>1, <2>1, SmallestSubset
<1>3. \A u \in SUBSET T : u # T => SumsTo(f, SumsOf(f, u), u)
  <2> SUFFICES ASSUME NEW u \in SUBSET T, u # T PROVE SumsTo(f, SumsOf(f, u), u)
    OBVIOUS
  <2>1. \E it : SumsTo(f, it, u)
    BY <1>2
  <2> QED
    BY <2>1 DEF SumsOf
<1> DEFINE it == [s \in SUBSET T |-> IF s = {} THEN 0
                    ELSE f[Chosen(s)] + SumsOf(f, s \ {Chosen(s)})[s \ {Chosen(s)}]]
<1>4. \A u \in SUBSET T : u # T => it[u] = SumsOf(f, u)[u]
  <2> SUFFICES ASSUME NEW u \in SUBSET T, u # T PROVE it[u] = SumsOf(f, u)[u]
    OBVIOUS
  <2> DEFINE w == u \ {Chosen(u)}
  <2>1. it[u] = IF u = {} THEN 0 ELSE f[Chosen(u)] + SumsOf(f, w)[w]
    OBVIOUS
  <2>2. SumsOf(f, u)[u] = IF u = {} THEN 0 ELSE f[Chosen(u)] + SumsOf(f, u)[w]
    BY <1>3 DEF SumsTo
  <2>3. CASE u = {}
    BY <2>1, <2>2, <2>3
  <2>4. CASE u # {}
    <3>1. w \in SUBSET T /\ w # T /\ w \subseteq u
      OBVIOUS
    <3>2. SumsTo(f, SumsOf(f, u), u) /\ SumsTo(f, SumsOf(f, w), w)
      BY <1>3, <3>1
    <3>3. u \in SUBSET S /\ w \in SUBSET S /\ w \in SUBSET (u \cap w)
      BY <1>2
    <3>4. SumsOf(f, u)[w] = SumsOf(f, w)[w]
      <4> HIDE DEF w, it
      <4> QED BY <3>2, <3>3, SumsAgree
    <3> QED
      BY <2>1, <2>2, <2>4, <3>4
  <2> QED
    BY <2>3, <2>4
<1>5. SumsTo(f, it, T)
  <2>1. \A s \in SUBSET T : s # {} =>
           it[s \ {Chosen(s)}] = SumsOf(f, s \ {Chosen(s)})[s \ {Chosen(s)}]
    <3> HIDE DEF it
    <3> QED BY <1>4, ChosenIsMember
  <2> QED
    BY <2>1 DEF SumsTo
<1> QED
  BY <1>2, <1>5

\* A sum of numbers is a number.
LEMMA SumIsNat ==
    ASSUME NEW S, IsFiniteSet(S), NEW f \in [S -> Nat]
    PROVE  SumFunction(f) \in Nat
<1> DEFINE g == SumsOf(f, S)
           B == {s \in SUBSET S : g[s] \notin Nat}
<1>1. SumFunction(f) = g[S]
  BY SumIsRecursive
<1>2. SumsTo(f, g, S)
  BY SumsExist
<1> HIDE DEF g
<1>3. SUFFICES ASSUME B # {} PROVE FALSE
  BY <1>1
<1>4. PICK s \in B : \A u \in B : u \subseteq s => u = s
  <2>1. B \subseteq SUBSET S
    OBVIOUS
  <2> HIDE DEF B
  <2> QED BY <1>3, <2>1, SmallestSubset
<1>5. g[s] = IF s = {} THEN 0 ELSE f[Chosen(s)] + g[s \ {Chosen(s)}]
  BY <1>2 DEF SumsTo
<1>6. s # {} => Chosen(s) \in s /\ s \ {Chosen(s)} \notin B
  BY <1>4, ChosenIsMember
<1> QED
  BY <1>5, <1>6

\* A sum of zeros is zero.
LEMMA SumOfNothing ==
    ASSUME NEW S, IsFiniteSet(S)
    PROVE  SumFunction([i \in S |-> 0]) = 0
<1> DEFINE f == [i \in S |-> 0]
           g == SumsOf(f, S)
           B == {s \in SUBSET S : g[s] # 0}
<1>1. SumFunction(f) = g[S]
  BY SumIsRecursive
<1>2. SumsTo(f, g, S)
  BY SumsExist
<1>3. \A i \in S : f[i] = 0
  OBVIOUS
<1> HIDE DEF g, f
<1>4. SUFFICES ASSUME B # {} PROVE FALSE
  BY <1>1 DEF f
<1>5. PICK s \in B : \A u \in B : u \subseteq s => u = s
  <2>1. B \subseteq SUBSET S
    OBVIOUS
  <2> HIDE DEF B
  <2> QED BY <1>4, <2>1, SmallestSubset
<1>6. g[s] = IF s = {} THEN 0 ELSE f[Chosen(s)] + g[s \ {Chosen(s)}]
  BY <1>2 DEF SumsTo
<1>7. s # {} => Chosen(s) \in s /\ s \ {Chosen(s)} \notin B
  BY <1>5, ChosenIsMember
<1> QED
  BY <1>3, <1>6, <1>7

\* What is added to one number is added to the sum, whatever order it takes.
LEMMA SumOfMore ==
    ASSUME NEW S, IsFiniteSet(S), NEW f \in [S -> Nat], NEW i \in S, NEW n \in Nat
    PROVE  SumFunction([f EXCEPT ![i] = @ + n]) = SumFunction(f) + n
<1> DEFINE e == [f EXCEPT ![i] = @ + n]
           g == SumsOf(f, S)
           h == SumsOf(e, S)
           More(s) == IF i \in s THEN n ELSE 0
           B == {s \in SUBSET S : ~ (g[s] \in Nat /\ h[s] = g[s] + More(s))}
<1>1. SumFunction(f) = g[S] /\ SumFunction(e) = h[S]
  <2>1. DOMAIN f = S /\ DOMAIN e = S
    OBVIOUS
  <2> QED
    BY <2>1, SumIsRecursive
<1>2. SumsTo(f, g, S) /\ SumsTo(e, h, S)
  BY SumsExist
<1>3. \A j \in S : f[j] \in Nat /\ e[j] = f[j] + More({j})
  OBVIOUS
<1> HIDE DEF g, h, e
<1>4. SUFFICES ASSUME B # {} PROVE FALSE
  <2>1. g[S] \in Nat /\ h[S] = g[S] + More(S)
    BY <1>4
  <2> QED
    BY <1>1, <2>1 DEF e
<1>5. PICK s \in B : \A u \in B : u \subseteq s => u = s
  <2>1. B \subseteq SUBSET S
    OBVIOUS
  <2> HIDE DEF B
  <2> QED BY <1>4, <2>1, SmallestSubset
<1>6. /\ g[s] = IF s = {} THEN 0 ELSE f[Chosen(s)] + g[s \ {Chosen(s)}]
      /\ h[s] = IF s = {} THEN 0 ELSE e[Chosen(s)] + h[s \ {Chosen(s)}]
  BY <1>2 DEF SumsTo
<1>7. CASE s = {}
  BY <1>5, <1>6, <1>7
<1>8. CASE s # {}
  <2> DEFINE x == Chosen(s)
             u == s \ {x}
  <2>1. x \in s /\ x \in S /\ u \notin B /\ u \in SUBSET S
    BY <1>5, <1>8, ChosenIsMember
  <2>2. g[u] \in Nat /\ h[u] = g[u] + More(u)
    BY <2>1
  <2>3. f[x] \in Nat /\ e[x] = f[x] + More({x})
    BY <1>3, <2>1
  <2>4. More(s) = More({x}) + More(u) /\ More({x}) \in Nat /\ More(u) \in Nat
    <3>1. x \in s
      BY <2>1
    <3> HIDE DEF x
    <3> QED BY <3>1
  <2>5. g[s] = f[x] + g[u] /\ h[s] = e[x] + h[u]
    BY <1>6, <1>8
  <2>6. g[s] \in Nat /\ h[s] = g[s] + More(s)
    <3> HIDE DEF x, u, More
    <3> QED BY <2>2, <2>3, <2>4, <2>5
  <2> QED
    BY <1>5, <2>6
<1> QED
  BY <1>7, <1>8

-----------------------------------------------------------------------------
(***************************************************************************)
(* The cost of the tree                                                    *)
(***************************************************************************)

\* CostIsSum, of any budget.
Summed(c) == c.usage["cost"] = SumFunction(c.charged)

\* No cost was charged between c and d.
SameCost(c, d) == d.charged = c.charged /\ d.usage["cost"] = c.usage["cost"]

\* What charges no cost keeps the sum.
LEMMA CostIsKept ==
    ASSUME NEW c, NEW d, Summed(c), SameCounts(c, d) \/ SameCost(c, d)
    PROVE  Summed(d)
BY DEF Summed, SameCounts, SameCost, Keys

\* Reservations charge no cost.
LEMMA ReservedCost ==
    ASSUME NEW c \in Budget, NEW i \in Ids, BudgetConstants
    PROVE  SameCost(c, Reserved(c, i)) /\ SameCost(c, Dispatched(c, i))
<1> DEFINE U == [k \in Keys |-> c.usage[k] + IF k \in Charges(KindOf[i]) THEN 1 ELSE 0]
           r == Reserved(c, i)
<1>1. c.usage["cost"] \in Nat /\ "cost" \in Keys /\ "cost" \notin Charges(KindOf[i])
  BY DEF Budget, Keys, Charges
<1>2. U["cost"] = c.usage["cost"]
  BY <1>1
<1>3. i \notin c.reserved => r.usage = U /\ r.charged = c.charged
  BY DEF Reserved, Budget
<1>4. SameCost(c, r)
  <2>1. i \in c.reserved => r = c
    BY DEF Reserved
  <2> HIDE DEF U, r
  <2> QED
    BY <1>2, <1>3, <2>1 DEF SameCost
<1>5. SameCost(r, Dispatched(c, i))
  BY DEF SameCost, Dispatched
<1> QED
  BY <1>4, <1>5 DEF SameCost

\* A report adds to the total what it adds to the charge of its reservation.
LEMMA CostedSum ==
    ASSUME NEW c \in Budget, NEW i \in Ids, NEW cost \in Nat, Summed(c), BudgetConstants
    PROVE  Summed(Costed(c, i, cost))
<1> DEFINE x == Extra(c, i, cost)
           U == [k \in Keys |-> c.usage[k] + IF k = "cost" THEN x ELSE 0]
           G == [c.charged EXCEPT ![i] = @ + x]
<1>1. c.usage \in [Keys -> Nat] /\ c.charged \in [Ids -> Nat] /\ "cost" \in Keys
  BY DEF Budget, Keys
<1>2. Costed(c, i, cost).usage = U /\ Costed(c, i, cost).charged = G
  BY <1>1 DEF Costed, Budget
<1>3. x \in Nat
  BY <1>1 DEF Extra
<1> HIDE DEF x
<1>4. U["cost"] = c.usage["cost"] + x
  BY <1>1
<1>5. SumFunction(G) = SumFunction(c.charged) + x
  BY <1>1, <1>3, SumOfMore DEF BudgetConstants
<1> QED
  BY <1>2, <1>4, <1>5 DEF Summed

\* So does the report that comes with a result.
LEMMA CompletedSum ==
    ASSUME NEW c, Ledger(c), NEW i \in Ids, NEW cost \in Nat, NEW changed \in BOOLEAN,
           Summed(c), BudgetConstants
    PROVE  Summed(Completed(c, i, changed, cost))
<1> DEFINE e == Costed(c, i, cost)
           made == Made(c, i, changed)
           U == [k \in Keys |-> e.usage[k] + IF k = "revisions" THEN made ELSE 0]
<1>1. e \in Budget /\ Summed(e)
  BY CostedFacts, CostedSum DEF Ledger
<1>2. Completed(c, i, changed, cost).usage = U /\ Completed(c, i, changed, cost).charged = e.charged
  BY <1>1 DEF Completed, Budget
<1> HIDE DEF e
<1>3. U["cost"] = e.usage["cost"]
  BY <1>1 DEF Budget, Keys
<1> HIDE DEF U
<1> QED
  BY <1>1, <1>2, <1>3 DEF Summed

\* Beats charge no cost.
LEMMA BeatsCost ==
    ASSUME BudgetInv, BudgetConstants, NEW d \in Drivers, NEW i \in Ids
    PROVE  SameCost(b, Ticked(b, d, i)) /\ SameCost(b, Beaten(b, d, i))
<1>1. now \in Nat /\ b.checkpoint <= now /\ Ledger(b)
  BY DEF BudgetInv, BudgetTypeOK, TimeIsUnion
<1>2. SameCounts(b, Ticked(b, d, i)) /\ SameCounts(b, Beaten(b, d, i))
  BY <1>1, TickedFacts, BeatenFacts
<1> QED
  BY <1>2 DEF SameCounts, SameCost, Keys

\* Every step keeps the sum.
LEMMA CostStep ==
    ASSUME BudgetInv, BudgetConstants, Summed(b), [Next]_vars
    PROVE  Summed(b')
<1>1. Ledger(Current) /\ SameCounts(b, Current) /\ Current \in Budget /\ Summed(Current)
      /\ Current.reserved = b.reserved
  BY CurrentFacts, CostIsKept DEF Ledger
<1>2. b.reserved \subseteq Ids
  BY DEF BudgetInv, BudgetTypeOK, Budget
<1>3. CASE b' = b
  BY <1>3
<1>4. CASE Gate
  BY <1>1, <1>4 DEF Gate
<1>5. CASE Extend
  <2>1. PICK add \in Grants : b' = Extended(Current, add)
    BY <1>5 DEF Extend
  <2>2. SameCost(Current, b')
    BY <2>1 DEF Extended, SameCost
  <2> QED
    BY <1>1, <2>2, CostIsKept
<1>6. ASSUME NEW i \in Ids, Admits(i) \/ Charge(i)
      PROVE  Summed(b')
  <2>1. b' = Dispatched(Current, i) \/ b' = Reserved(Current, i)
    BY <1>6 DEF Admits, Charge
  <2>2. SameCost(Current, b')
    BY <1>1, <2>1, ReservedCost
  <2> QED
    BY <1>1, <2>2, CostIsKept
<1>7. ASSUME NEW i \in Ids, HostReport(i)
      PROVE  Summed(b')
  <2>1. PICK cost \in 0 .. MaxCost, changed \in BOOLEAN : b' = Completed(Current, i, changed, cost)
    BY <1>7 DEF HostReport
  <2>2. cost \in Nat
    BY <2>1 DEF BudgetConstants
  <2> QED
    BY <1>1, <2>1, <2>2, CompletedSum
<1>8. ASSUME NEW d \in Drivers, Launch(d) \/ Beat(d) \/ Abandon(d)
      PROVE  Summed(b')
  <2> DEFINE i == job[d].id
             t == Ticked(b, d, i)
  <2>1. i \in Ids
    BY <1>8, JobFacts DEF Launch, Beat, Abandon
  <2>2. SameCost(b, t) /\ SameCost(b, Beaten(b, d, i))
    BY <2>1, BeatsCost
  <2>3. SameCost(t, [t EXCEPT !.activities = Without(@, i)])
    BY DEF SameCost
  <2>4. \/ b' = b \/ b' = Beaten(b, d, i) \/ b' = t
        \/ b' = [t EXCEPT !.activities = Without(@, i)]
    BY <1>8 DEF Launch, Beat, Abandon
  <2> HIDE DEF t
  <2>5. b' = b \/ SameCost(b, b')
    BY <2>2, <2>3, <2>4 DEF SameCost
  <2> QED
    BY <2>5, CostIsKept
<1>9. ASSUME NEW d \in Drivers, ReportUsage(d)
      PROVE  Summed(b')
  <2>1. PICK cost \in 1 .. MaxCost : b' = Costed(Current, job[d].id, cost)
    BY <1>9 DEF ReportUsage
  <2>2. cost \in Nat
    BY <2>1 DEF BudgetConstants
  <2>3. job[d].id \in Ids
    BY <1>9, JobFacts DEF ReportUsage
  <2> QED
    BY <1>1, <2>1, <2>2, <2>3, CostedSum
<1>10. ASSUME NEW d \in Drivers, Finish(d) \/ Fail(d)
       PROVE  Summed(b')
  <2>1. job[d].id \in Ids
    BY <1>10, JobFacts DEF Finish, Fail
  <2>2. \E cost \in Nat, changed \in BOOLEAN : b' = Completed(Current, job[d].id, changed, cost)
    <3>1. CASE Finish(d)
      <4>1. PICK cost \in 0 .. MaxCost, changed \in BOOLEAN :
                b' = Completed(Current, job[d].id, changed, cost)
        BY <3>1 DEF Finish
      <4>2. cost \in Nat
        BY <4>1 DEF BudgetConstants
      <4> QED
        BY <4>1, <4>2
    <3>2. CASE Fail(d)
      <4>1. b' = Completed(Current, job[d].id, FALSE, 0)
        BY <3>2 DEF Fail
      <4> QED
        BY <4>1
    <3> QED
      BY <1>10, <3>1, <3>2
  <2> QED
    BY <1>1, <2>1, <2>2, CompletedSum
<1>11. ASSUME NEW d \in Drivers, Crash(d)
       PROVE  Summed(b')
  <2>1. SameCost(b, b')
    BY <1>11 DEF Crash, SameCost
  <2> QED
    BY <2>1, CostIsKept
<1>12. CASE \E i \in Ids : HostAdmit(i) \/ HostReport(i) \/ Charge(i)
  BY <1>6, <1>7, <1>12 DEF HostAdmit
<1>13. CASE \E d \in Drivers : Launch(d) \/ Beat(d) \/ ReportUsage(d) \/ Finish(d) \/ Fail(d)
                               \/ Abandon(d) \/ Crash(d)
  BY <1>8, <1>9, <1>10, <1>11, <1>13
<1>14. CASE \E d \in Drivers, i \in Ids : Admit(d, i) \/ Take(d, i)
  BY <1>3, <1>6, <1>14 DEF Admit, Take
<1>15. CASE Advance \/ UNCHANGED vars
  BY <1>3, <1>15 DEF Advance, vars
<1> QED
  BY <1>4, <1>5, <1>12, <1>13, <1>14, <1>15 DEF Next

\* The cost of a tree is the sum of what its reservations reported at most, for
\* any number of them: a usage saved with a reply and reported again with its
\* result, by whichever driver, is charged once (Complete, saveInvocationUsage).
THEOREM CostExact == Spec => []CostIsSum
<1>1. Init => Summed(b)
  <2> SUFFICES ASSUME Init PROVE Summed(b)
    OBVIOUS
  <2>1. b.usage["cost"] = 0 /\ b.charged = [i \in Ids |-> 0]
    BY DEF Init, NewBudget, Keys
  <2> QED
    BY <2>1, BudgetConstants, SumOfNothing DEF Summed, BudgetConstants
<1>2. BudgetInv /\ Summed(b) /\ [Next]_vars => Summed(b)'
  BY CostStep, BudgetConstants
<1>3. Summed(b) => CostIsSum
  BY DEF Summed, CostIsSum
<1> QED
  BY <1>1, <1>2, <1>3, BudgetInvariant, PTL DEF Spec
=============================================================================
