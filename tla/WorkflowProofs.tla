--------------------------- MODULE WorkflowProofs ---------------------------
(***************************************************************************)
(* Proofs about Workflows: every workflow with one entry, a target for     *)
(* each edge, and no node that labels two edges alike compiles, to a graph *)
(* without cycles all of which can be reached, and a run of it is where    *)
(* the same answers lead in the workflow as authored, until its reroutes   *)
(* are used up.  For any workflows, reroutes and attempts.                 *)
(***************************************************************************)
EXTENDS Workflows, FiniteSetTheorems, WellFoundedInduction, TLAPS

\* Among subsets of a finite set one has no smaller one (instead of an induction).
LEMMA SmallestSubset ==
    ASSUME NEW S, IsFiniteSet(S), NEW B, B \subseteq SUBSET S, B # {}
    PROVE  \E T \in B : \A U \in B : U \subseteq T => U = T
<1>1. IsWellFoundedOn(StrictSubsetOrdering(S), SUBSET S)
  BY FS_StrictSubsetOrderingWellFounded, FS_FiniteSubsetsOfFinite
<1>2. PICK T \in B : \A U \in B : ~ (<<U, T>> \in StrictSubsetOrdering(S))
  BY <1>1, WFMin
<1> QED
  BY <1>2 DEF StrictSubsetOrdering

-----------------------------------------------------------------------------
\* A function that repeats a step until it halts: what it answers from a state.
Repeats(f, S, halts, out, step) ==
    f = [s \in S |-> IF s \in halts THEN out[s] ELSE f[step[s]]]

\* There is one, whether the repetition ends or not.
LEMMA RepetitionExists ==
    ASSUME NEW S, NEW halts, halts \subseteq S, NEW step \in [S -> S], NEW out
    PROVE  \E f : Repeats(f, S, halts, out, step)
<1> DEFINE Closed(T) == \A y \in T : y \notin halts => step[y] \in T
           Orbit(s) == {x \in S : \A T \in SUBSET S : s \in T /\ Closed(T) => x \in T}
           End(s) == Orbit(s) \cap halts
           f == [s \in S |-> out[CHOOSE h : h \in End(s)]]
<1>1. ASSUME NEW s \in halts PROVE (CHOOSE h : h \in End(s)) = s
  <2>1. Closed({s}) /\ s \in S
    OBVIOUS
  <2>2. Orbit(s) \subseteq {s} /\ s \in Orbit(s)
    <3>1. {s} \in SUBSET S /\ s \in {s}
      BY <2>1
    <3>2. \A x \in Orbit(s) : x \in {s}
      <4> HIDE DEF Closed
      <4> QED BY <2>1, <3>1
    <3>3. s \in S /\ \A T \in SUBSET S : s \in T /\ Closed(T) => s \in T
      BY <2>1
    <3> HIDE DEF Closed
    <3> QED BY <3>2, <3>3
  <2>4. \A h : h \in End(s) <=> h = s
    BY <2>2
  <2> QED
    BY <2>4
<1>2. ASSUME NEW s \in S, s \notin halts PROVE End(s) = End(step[s])
  <2>1. step[s] \in S
    OBVIOUS
  <2>2. ASSUME NEW x \in Orbit(step[s]) PROVE x \in Orbit(s)
    BY <1>2, <2>2
  <2>3. ASSUME NEW x \in Orbit(s), x # s PROVE x \in Orbit(step[s])
    <3> SUFFICES ASSUME NEW T \in SUBSET S, step[s] \in T, Closed(T) PROVE x \in T
      OBVIOUS
    <3>1. Closed(T \cup {s})
      OBVIOUS
    <3>2. T \cup {s} \in SUBSET S
      OBVIOUS
    <3>3. x \in T \cup {s}
      BY <2>3, <3>1, <3>2
    <3> QED
      BY <2>3, <3>3
  <2> QED
    BY <1>2, <2>2, <2>3
<1>3. ASSUME NEW s \in S PROVE f[s] = IF s \in halts THEN out[s] ELSE f[step[s]]
  <2>1. step[s] \in S
    OBVIOUS
  <2>2. f[s] = out[CHOOSE h : h \in End(s)] /\ f[step[s]] = out[CHOOSE h : h \in End(step[s])]
    BY <2>1
  <2> HIDE DEF f, End
  <2> QED
    BY <1>1, <1>2, <2>2
<1>4. f = [s \in S |-> f[s]]
  OBVIOUS
<1> HIDE DEF f
<1>5. f = [s \in S |-> IF s \in halts THEN out[s] ELSE f[step[s]]]
  BY <1>3, <1>4
<1> QED
  BY <1>5 DEF Repeats

-----------------------------------------------------------------------------
(***************************************************************************)
(* What can be reached.                                                    *)
(***************************************************************************)
MoreOf(S, next) == S \cup UNION {next[n] : n \in S}
Grows(g, next) == g = [S \in SUBSET DOMAIN next |-> IF MoreOf(S, next) = S THEN S ELSE g[MoreOf(S, next)]]

LEMMA ReachableGrows ==
    ASSUME NEW from, NEW next
    PROVE  Reachable(from, next) = (CHOOSE g : Grows(g, next))[from]
BY DEF Reachable, Grows, MoreOf

\* Closed under the edges.
ClosedUnder(T, next) == \A n \in T : next[n] \subseteq T

\* Reachable is the least set with these nodes that no edge leaves.
LEMMA ReachableIsLeast ==
    ASSUME NEW D, IsFiniteSet(D), NEW next \in [D -> SUBSET D], NEW from \in SUBSET D
    PROVE  /\ from \subseteq Reachable(from, next)
           /\ Reachable(from, next) \subseteq D
           /\ ClosedUnder(Reachable(from, next), next)
           /\ \A T \in SUBSET D : from \subseteq T /\ ClosedUnder(T, next) => Reachable(from, next) \subseteq T
<1> DEFINE step == [S \in SUBSET D |-> MoreOf(S, next)]
           halts == {S \in SUBSET D : MoreOf(S, next) = S}
           out == [S \in SUBSET D |-> S]
           g == CHOOSE f : Grows(f, next)
<1>1. DOMAIN next = D
  OBVIOUS
<1>2. \A S \in SUBSET D : MoreOf(S, next) \in SUBSET D /\ S \subseteq MoreOf(S, next)
  BY DEF MoreOf
<1>3. \E f : Grows(f, next)
  <2>1. step \in [SUBSET D -> SUBSET D] /\ halts \subseteq SUBSET D
    BY <1>2
  <2>2. PICK f : Repeats(f, SUBSET D, halts, out, step)
    <3> HIDE DEF step, halts, out
    <3> QED BY <2>1, RepetitionExists
  <2>3. f = [S \in SUBSET D |-> IF S \in halts THEN out[S] ELSE f[step[S]]]
    BY <2>2 DEF Repeats
  <2>4. \A S \in SUBSET D : (IF S \in halts THEN out[S] ELSE f[step[S]])
                              = (IF MoreOf(S, next) = S THEN S ELSE f[MoreOf(S, next)])
    OBVIOUS
  <2>5. f = [S \in SUBSET D |-> IF MoreOf(S, next) = S THEN S ELSE f[MoreOf(S, next)]]
    <3> HIDE DEF step, halts, out
    <3> QED BY <2>3, <2>4
  <2> QED
    BY <1>1, <2>5 DEF Grows
<1>4. Grows(g, next)
  BY <1>3
<1> HIDE DEF g
<1>5. \A S \in SUBSET D : g[S] = IF MoreOf(S, next) = S THEN S ELSE g[MoreOf(S, next)]
  BY <1>1, <1>4 DEF Grows
<1> DEFINE Right(S) == /\ S \subseteq g[S] /\ g[S] \subseteq D /\ ClosedUnder(g[S], next)
                       /\ \A T \in SUBSET D : S \subseteq T /\ ClosedUnder(T, next) => g[S] \subseteq T
           Wrong == {U \in SUBSET D : ~Right(D \ U)}
<1>6. Wrong = {}
  <2> SUFFICES ASSUME Wrong # {} PROVE FALSE
    OBVIOUS
  <2>1. Wrong \subseteq SUBSET D
    OBVIOUS
  <2>2. PICK U \in Wrong : \A V \in Wrong : V \subseteq U => V = U
    <3> HIDE DEF Wrong
    <3> QED BY <2>1, SmallestSubset
  <2> DEFINE S == D \ U
             M == MoreOf(S, next)
  <2>3. S \in SUBSET D /\ ~Right(S) /\ M \in SUBSET D /\ S \subseteq M
    BY <1>2
  <2>4. CASE M = S
    <3>1. g[S] = S
      BY <1>5, <2>3, <2>4
    <3>2. ClosedUnder(S, next)
      BY <2>4 DEF MoreOf, ClosedUnder
    <3> QED
      BY <2>3, <3>1, <3>2
  <2>5. CASE M # S
    <3>1. g[S] = g[M]
      BY <1>5, <2>3, <2>5
    <3>2. Right(M)
      <4>1. D \ M \subseteq U /\ D \ M # U /\ D \ (D \ M) = M /\ D \ M \in SUBSET D
        BY <2>3, <2>5
      <4>2. D \ M \notin Wrong
        BY <2>2, <4>1
      <4> HIDE DEF Right, M
      <4> QED BY <4>1, <4>2
    <3>3. \A T \in SUBSET D : S \subseteq T /\ ClosedUnder(T, next) => M \subseteq T
      BY DEF MoreOf, ClosedUnder
    <3> HIDE DEF M, S
    <3> QED
      BY <2>3, <3>1, <3>2, <3>3
  <2> QED
    BY <2>4, <2>5
<1>7. Right(from)
  <2>1. D \ from \notin Wrong /\ D \ (D \ from) = from
    BY <1>6
  <2> HIDE DEF Right
  <2> QED BY <2>1
<1> QED
  BY <1>7, ReachableGrows DEF g

\* What comes after a node: transitively, by a last step, and no more than that.
LEMMA AfterFacts ==
    ASSUME NEW D, IsFiniteSet(D), NEW next \in [D -> SUBSET D], NEW n \in D
    PROVE  /\ next[n] \subseteq Reachable(next[n], next) /\ Reachable(next[n], next) \subseteq D
           /\ ClosedUnder(Reachable(next[n], next), next)
           /\ \A m \in Reachable(next[n], next) : Reachable(next[m], next) \subseteq Reachable(next[n], next)
           /\ \A T \in SUBSET D : next[n] \subseteq T /\ ClosedUnder(T, next) => Reachable(next[n], next) \subseteq T
           /\ \A m \in Reachable(next[n], next) : \E k \in {n} \cup Reachable(next[n], next) : m \in next[k]
<1> DEFINE R(m) == Reachable(next[m], next)
<1>1. \A m \in D : /\ next[m] \subseteq R(m) /\ R(m) \subseteq D /\ ClosedUnder(R(m), next)
                   /\ \A T \in SUBSET D : next[m] \subseteq T /\ ClosedUnder(T, next) => R(m) \subseteq T
  <2> TAKE m \in D
  <2>1. next[m] \in SUBSET D
    OBVIOUS
  <2> QED
    BY <2>1, ReachableIsLeast
<1> HIDE DEF R
<1>2. ASSUME NEW m \in R(n) PROVE R(m) \subseteq R(n)
  <2>1. m \in D /\ next[m] \subseteq R(n) /\ R(n) \in SUBSET D
    BY <1>1 DEF ClosedUnder
  <2> QED
    BY <1>1, <2>1
<1>3. ASSUME NEW m \in R(n), \A k \in {n} \cup R(n) : m \notin next[k] PROVE FALSE
  <2>1. next[n] \subseteq R(n) \ {m} /\ ClosedUnder(R(n) \ {m}, next) /\ R(n) \ {m} \in SUBSET D
    BY <1>1, <1>3 DEF ClosedUnder
  <2>2. R(n) \subseteq R(n) \ {m}
    BY <1>1, <2>1
  <2> QED
    BY <2>2
<1>4. /\ next[n] \subseteq R(n) /\ R(n) \subseteq D /\ ClosedUnder(R(n), next)
      /\ \A m \in R(n) : R(m) \subseteq R(n)
      /\ \A T \in SUBSET D : next[n] \subseteq T /\ ClosedUnder(T, next) => R(n) \subseteq T
      /\ \A m \in R(n) : \E k \in {n} \cup R(n) : m \in next[k]
  BY <1>1, <1>2, <1>3
<1> QED
  BY <1>4 DEF R

-----------------------------------------------------------------------------
(***************************************************************************)
(* The workflow as authored, its loops, and the copies they are given.     *)
(***************************************************************************)
\* Those the theorem speaks of: every edge has a target, and a label of its own.
Usual == {w \in Workflows : Targeted(w) /\ Labelled(w)}

LEMMA WorkflowFacts ==
    ASSUME NEW w \in Usual
    PROVE  /\ IsFiniteSet(NodesOf(w)) /\ NodesOf(w) \subseteq Nat
           /\ w.reroutes \in Nat /\ w.attempts \in Nat \ {0}
           /\ \A n \in NodesOf(w) :
                /\ w.edges[n] \in Seq(NodesOf(w)) /\ DOMAIN w.edges[n] = 1 .. Len(w.edges[n])
                /\ Len(w.edges[n]) \in Nat
                /\ \A i \in DOMAIN w.edges[n] : w.edges[n][i] \in NodesOf(w) /\ w.edges[n][i] \in TargetsOf(w, n)
                /\ TargetsOf(w, n) \subseteq NodesOf(w) /\ Leads(w)[n] = TargetsOf(w, n)
                /\ w.kind[n] \in {"join", "work", "select"} => 1 \in DOMAIN w.edges[n]
           /\ Leads(w) \in [NodesOf(w) -> SUBSET NodesOf(w)]
<1>0. w.edges \in Seq(Seq({0} \cup NodesOf(w))) /\ w.reroutes \in Nat /\ w.attempts \in Nat \ {0}
  BY WorkflowConstants DEF Usual, NodesOf
<1>1. w.edges \in Seq(Seq(NodesOf(w))) /\ w.reroutes \in Nat /\ w.attempts \in Nat \ {0}
  <2>1. NodesOf(w) = 1 .. Len(w.edges) /\ Len(w.edges) \in Nat /\ w.edges = [n \in NodesOf(w) |-> w.edges[n]]
    BY <1>0 DEF NodesOf
  <2>2. ASSUME NEW n \in NodesOf(w) PROVE w.edges[n] \in Seq(NodesOf(w))
    <3>1. w.edges[n] \in Seq({0} \cup NodesOf(w))
      BY <1>0, <2>1
    <3>2. \A i \in DOMAIN w.edges[n] : w.edges[n][i] \in NodesOf(w)
      BY <3>1 DEF Usual, Targeted, TargetsOf
    <3>3. w.edges[n] \in [1 .. Len(w.edges[n]) -> NodesOf(w)] /\ Len(w.edges[n]) \in Nat
      BY <3>1, <3>2
    <3> QED BY <3>3 DEF Seq
  <2>3. w.edges \in [1 .. Len(w.edges) -> Seq(NodesOf(w))]
    BY <2>1, <2>2
  <2> QED BY <1>0, <2>1, <2>3 DEF Seq
<1>2. NodesOf(w) = 1 .. Len(w.edges) /\ Len(w.edges) \in Nat
  BY <1>1 DEF NodesOf
<1>3. IsFiniteSet(NodesOf(w)) /\ NodesOf(w) \subseteq Nat
  BY <1>2, FS_Interval
<1>4. ASSUME NEW n \in NodesOf(w)
      PROVE  /\ w.edges[n] \in Seq(NodesOf(w)) /\ DOMAIN w.edges[n] = 1 .. Len(w.edges[n])
             /\ Len(w.edges[n]) \in Nat
             /\ \A i \in DOMAIN w.edges[n] : w.edges[n][i] \in NodesOf(w) /\ w.edges[n][i] \in TargetsOf(w, n)
             /\ TargetsOf(w, n) \subseteq NodesOf(w) /\ Leads(w)[n] = TargetsOf(w, n)
             /\ w.kind[n] \in {"join", "work", "select"} => 1 \in DOMAIN w.edges[n]
  <2>1. w.edges[n] \in Seq(NodesOf(w))
    BY <1>1, <1>2
  <2>2. DOMAIN w.edges[n] = 1 .. Len(w.edges[n]) /\ Len(w.edges[n]) \in Nat
    BY <2>1
  <2>3. \A i \in DOMAIN w.edges[n] : w.edges[n][i] \in NodesOf(w)
    BY <2>1
  <2>4. w.edges[n] # <<>> => 1 \in DOMAIN w.edges[n]
    BY <2>1
  <2>5. w.kind[n] \in {"join", "work", "select"} => w.edges[n] # <<>>
    BY WorkflowConstants DEF Usual, NodesOf
  <2> QED
    BY <2>1, <2>2, <2>3, <2>4, <2>5 DEF TargetsOf, Leads
<1> QED
  BY <1>1, <1>3, <1>4 DEF Leads

\* After is transitive, and least.
LEMMA AuthoredAfter ==
    ASSUME NEW w \in Usual, NEW n \in NodesOf(w)
    PROVE  /\ TargetsOf(w, n) \subseteq After(w, n) /\ After(w, n) \subseteq NodesOf(w)
           /\ \A m \in After(w, n) : TargetsOf(w, m) \subseteq After(w, n) /\ After(w, m) \subseteq After(w, n)
           /\ \A T \in SUBSET NodesOf(w) :
                TargetsOf(w, n) \subseteq T /\ (\A m \in T : TargetsOf(w, m) \subseteq T) => After(w, n) \subseteq T
           /\ \A m \in After(w, n) : \E k \in {n} \cup After(w, n) : m \in TargetsOf(w, k)
<1> DEFINE D == NodesOf(w)
           next == Leads(w)
<1>1. IsFiniteSet(D) /\ next \in [D -> SUBSET D] /\ \A m \in D : next[m] = TargetsOf(w, m)
  BY WorkflowFacts
<1>2. \A m \in D : After(w, m) = Reachable(next[m], next)
  BY <1>1 DEF After
<1> HIDE DEF D, next
<1>3. n \in D
  BY DEF D
<1>4. /\ next[n] \subseteq After(w, n) /\ After(w, n) \subseteq D
      /\ ClosedUnder(After(w, n), next)
      /\ \A m \in After(w, n) : Reachable(next[m], next) \subseteq After(w, n)
      /\ \A T \in SUBSET D : next[n] \subseteq T /\ ClosedUnder(T, next) => After(w, n) \subseteq T
      /\ \A m \in After(w, n) : \E k \in {n} \cup After(w, n) : m \in next[k]
  <2>1. After(w, n) = Reachable(next[n], next)
    BY <1>2, <1>3
  <2>2. IsFiniteSet(D) /\ next \in [D -> SUBSET D]
    BY <1>1
  <2>3. /\ next[n] \subseteq Reachable(next[n], next) /\ Reachable(next[n], next) \subseteq D
        /\ ClosedUnder(Reachable(next[n], next), next)
        /\ \A m \in Reachable(next[n], next) : Reachable(next[m], next) \subseteq Reachable(next[n], next)
        /\ \A T \in SUBSET D : next[n] \subseteq T /\ ClosedUnder(T, next) => Reachable(next[n], next) \subseteq T
        /\ \A m \in Reachable(next[n], next) : \E k \in {n} \cup Reachable(next[n], next) : m \in next[k]
    BY <1>3, <2>2, AfterFacts
  <2> QED
    BY <2>1, <2>3
<1>5. \A T \in SUBSET D : ClosedUnder(T, next) <=> \A m \in T : TargetsOf(w, m) \subseteq T
  BY <1>1 DEF ClosedUnder
<1>6. \A m \in {n} \cup After(w, n) : m \in D
  BY <1>3, <1>4
<1>7. /\ TargetsOf(w, n) \subseteq After(w, n) /\ After(w, n) \subseteq D
      /\ \A m \in After(w, n) : TargetsOf(w, m) \subseteq After(w, n) /\ After(w, m) \subseteq After(w, n)
      /\ \A m \in After(w, n) : \E k \in {n} \cup After(w, n) : m \in TargetsOf(w, k)
  BY <1>1, <1>2, <1>3, <1>4, <1>5, <1>6
<1>8. \A T \in SUBSET D :
        TargetsOf(w, n) \subseteq T /\ (\A m \in T : TargetsOf(w, m) \subseteq T) => After(w, n) \subseteq T
  BY <1>1, <1>3, <1>4, <1>5
<1> QED
  BY <1>7, <1>8 DEF D

\* A loop is one of all its nodes.
LEMMA LoopFacts ==
    ASSUME NEW w \in Usual, NEW n \in NodesOf(w)
    PROVE  /\ LoopOf(w, n) \subseteq NodesOf(w)
           /\ \A m \in LoopOf(w, n) : n \in LoopOf(w, n) /\ LoopOf(w, m) = LoopOf(w, n)
           /\ LoopOf(w, n) # {} => n \in LoopOf(w, n)
<1>1. \A m \in NodesOf(w) :
        After(w, m) \subseteq NodesOf(w) /\ \A k \in After(w, m) : After(w, k) \subseteq After(w, m)
  BY AuthoredAfter
<1>2. \A m \in NodesOf(w), k \in NodesOf(w) : k \in LoopOf(w, m) <=> (k \in After(w, m) /\ m \in After(w, k))
  BY <1>1 DEF LoopOf
<1>3. \A m \in NodesOf(w) : LoopOf(w, m) \subseteq NodesOf(w)
  BY <1>1 DEF LoopOf
<1> QED
  BY <1>1, <1>2, <1>3

\* Among natural numbers one is the least.
LEMMA LeastNumber ==
    ASSUME NEW S \in SUBSET Nat, S # {}
    PROVE  Min(S) \in S /\ \A y \in S : Min(S) <= y
<1>1. PICK x \in S : \A y \in S : ~ (<<y, x>> \in OpToRel(<, Nat))
  BY NatLessThanWellFounded, WFMin, Zenon
<1>2. ASSUME NEW y \in S PROVE x <= y
  <2>1. ~ (<<y, x>> \in OpToRel(<, Nat))
    BY <1>1
  <2>2. ~ (y < x)
    BY <2>1 DEF OpToRel
  <2> QED
    BY <2>2
<1> QED
  BY <1>2 DEF Min

\* The header of a loop is on it.
LEMMA HeaderIsInLoop ==
    ASSUME NEW w \in Usual, NEW loop \in SUBSET NodesOf(w), loop # {}
    PROVE  HeaderOf(w, loop) \in loop
<1> DEFINE entered == {n \in loop : \E m \in NodesOf(w) \ loop : n \in TargetsOf(w, m)}
           from == IF entered = {} THEN loop ELSE entered
<1>1. from \in SUBSET Nat /\ from # {} /\ from \subseteq loop
  BY WorkflowFacts
<1>2. Min(from) \in from
  <2> HIDE DEF from
  <2> QED BY <1>1, LeastNumber
<1>3. HeaderOf(w, loop) = IF EntryOf(w) \in loop THEN EntryOf(w) ELSE Min(from)
  BY DEF HeaderOf
<1> HIDE DEF from
<1> QED
  BY <1>1, <1>2, <1>3

\* What Compile makes: copies of the nodes, and what ends a loop that is used up.
Copies(w) == UNION {{<<n, c>> : c \in Layers(w, n)} : n \in NodesOf(w)}
LoopNodes(w) == {n \in NodesOf(w) : LoopOf(w, n) # {}}
Overflows(w) == {Overflow(w, LoopOf(w, n)) : n \in LoopNodes(w)}
BackOf(w, n) == IF LoopOf(w, n) = {} THEN {} ELSE BackEdges(w, LoopOf(w, n))
CopyNext(w, x, i) == Rewritten(w, LoopOf(w, x[1]), BackOf(w, x[1]), x[1], x[2], i)

LEMMA CopyFacts ==
    ASSUME NEW w \in Usual
    PROVE  /\ \A n \in NodesOf(w) : \A c \in Layers(w, n) : <<n, c>> \in Copies(w)
           /\ \A n \in NodesOf(w) : Layers(w, n) \subseteq 0 .. w.reroutes /\ 0 \in Layers(w, n)
           /\ \A x \in Copies(w) : x = <<x[1], x[2]>> /\ x[1] \in NodesOf(w) /\ x[2] \in Layers(w, x[1])
                                   /\ x[2] \in 0 .. w.reroutes
           /\ \A x \in Overflows(w) : x = <<x[1], -1>> /\ x[2] = -1 /\ x[1] \in NodesOf(w) /\ x \notin Copies(w)
           /\ \A n \in LoopNodes(w) : Overflow(w, LoopOf(w, n)) \in Overflows(w)
           /\ IsFiniteSet(Copies(w) \cup Overflows(w))
<1>1. w.reroutes \in Nat /\ IsFiniteSet(NodesOf(w)) /\ NodesOf(w) \subseteq Nat
  BY WorkflowFacts
<1>2. \A n \in NodesOf(w) : Layers(w, n) \subseteq 0 .. w.reroutes /\ 0 \in Layers(w, n)
  BY <1>1 DEF Layers
<1>3. \A n \in NodesOf(w) : \A c \in Layers(w, n) : <<n, c>> \in Copies(w)
  BY DEF Copies
<1>4. ASSUME NEW x \in Copies(w)
      PROVE  x = <<x[1], x[2]>> /\ x[1] \in NodesOf(w) /\ x[2] \in Layers(w, x[1]) /\ x[2] \in 0 .. w.reroutes
  <2>1. PICK n \in NodesOf(w) : \E c \in Layers(w, n) : x = <<n, c>>
    BY DEF Copies
  <2> QED
    BY <1>2, <2>1
<1>5. ASSUME NEW x \in Overflows(w)
      PROVE  x = <<x[1], -1>> /\ x[2] = -1 /\ x[1] \in NodesOf(w) /\ x \notin Copies(w)
  <2>1. PICK n \in LoopNodes(w) : x = Overflow(w, LoopOf(w, n))
    BY DEF Overflows
  <2>2. HeaderOf(w, LoopOf(w, n)) \in NodesOf(w)
    <3>1. LoopOf(w, n) \in SUBSET NodesOf(w) /\ LoopOf(w, n) # {}
      BY <2>1, LoopFacts DEF LoopNodes
    <3> QED BY <3>1, HeaderIsInLoop
  <2>3. x = <<HeaderOf(w, LoopOf(w, n)), -1>>
    BY <2>1 DEF Overflow
  <2>4. x[2] = -1 /\ -1 \notin 0 .. w.reroutes
    BY <1>1, <2>3
  <2> QED
    BY <1>4, <2>2, <2>3, <2>4
<1>6. IsFiniteSet(Copies(w) \cup Overflows(w))
  <2> DEFINE Both == NodesOf(w) \X (0 .. w.reroutes)
             Ends == NodesOf(w) \X {-1}
  <2>1. IsFiniteSet(0 .. w.reroutes) /\ IsFiniteSet({-1})
    <3>1. 0 \in Int /\ w.reroutes \in Int
      BY <1>1
    <3>2. IsFiniteSet(0 .. w.reroutes)
      BY <3>1, FS_Interval
    <3>3. IsFiniteSet({-1})
      BY FS_Singleton, Zenon
    <3> QED BY <3>2, <3>3
  <2>2. IsFiniteSet(Both) /\ IsFiniteSet(Ends)
    BY <1>1, <2>1, FS_Product
  <2>3. IsFiniteSet(Both \cup Ends)
    BY <2>2, FS_Union
  <2>4. Copies(w) \cup Overflows(w) \in SUBSET (Both \cup Ends)
    <3>1. Copies(w) \subseteq Both
      BY <1>4
    <3>2. Overflows(w) \subseteq Ends
      BY <1>5
    <3> QED BY <3>1, <3>2
  <2> QED
    BY <2>3, <2>4, FS_Subset
<1> QED
  BY <1>2, <1>3, <1>4, <1>5, <1>6 DEF Overflows

\* An edge with a label of its own goes back if it is one that does.
LEMMA BackByLabel ==
    ASSUME NEW w \in Usual, NEW n \in NodesOf(w), NEW i \in DOMAIN w.edges[n], NEW back
    PROVE  GoesBack(w, back, n, i) <=> <<n, i>> \in back
<1>1. \A j \in DOMAIN w.edges[n] : w.labels[n][j] = w.labels[n][i] => j = i
  BY DEF Usual, Labelled
<1> QED
  BY <1>1 DEF GoesBack

\* Where an edge of a copy leads.
LEMMA CopyNextFacts ==
    ASSUME NEW w \in Usual, NEW x \in Copies(w), NEW i \in DOMAIN w.edges[x[1]]
    PROVE  LET n == x[1]
               c == x[2]
               t == w.edges[n][i]
               z == CopyNext(w, x, i)
           IN  \/ t \notin LoopOf(w, n) /\ z = <<t, 0>> /\ z \in Copies(w)
               \/ t \in LoopOf(w, n) /\ <<n, i>> \notin BackOf(w, n) /\ z = <<t, c>> /\ z \in Copies(w)
               \/ t \in LoopOf(w, n) /\ <<n, i>> \in BackOf(w, n) /\ c < w.reroutes /\ z = <<t, c + 1>> /\ z \in Copies(w)
               \/ t \in LoopOf(w, n) /\ <<n, i>> \in BackOf(w, n) /\ c = w.reroutes
                    /\ z = Overflow(w, LoopOf(w, n)) /\ z \in Overflows(w)
<1> DEFINE n == x[1]
           c == x[2]
           t == w.edges[n][i]
           z == CopyNext(w, x, i)
<1>1. n \in NodesOf(w) /\ c \in Layers(w, n) /\ c \in 0 .. w.reroutes /\ w.reroutes \in Nat
  BY CopyFacts, WorkflowFacts
<1>2. t \in NodesOf(w) /\ <<t, 0>> \in Copies(w)
  BY <1>1, WorkflowFacts, CopyFacts
<1>3. z = IF t \notin LoopOf(w, n) THEN <<t, 0>>
          ELSE IF <<n, i>> \in BackOf(w, n)
               THEN (IF c = w.reroutes THEN Overflow(w, LoopOf(w, n)) ELSE <<t, c + 1>>) ELSE <<t, c>>
  BY BackByLabel, <1>1 DEF CopyNext, Rewritten, NextLayer
<1>4. ASSUME t \in LoopOf(w, n)
      PROVE  /\ Layers(w, t) = 0 .. w.reroutes
             /\ Overflow(w, LoopOf(w, n)) \in Overflows(w)
  <2>1. LoopOf(w, n) # {} /\ LoopOf(w, t) # {}
    BY <1>1, <1>4, LoopFacts
  <2> QED
    BY <1>1, <2>1, CopyFacts DEF Layers, LoopNodes
<1>5. \A d \in 0 .. w.reroutes : t \in LoopOf(w, n) => <<t, d>> \in Copies(w)
  BY <1>2, <1>4, CopyFacts
<1>6. c < w.reroutes => c + 1 \in 0 .. w.reroutes
  BY <1>1
<1> HIDE DEF t, z, n, c
<1>7. \/ t \notin LoopOf(w, n) /\ z = <<t, 0>> /\ z \in Copies(w)
      \/ t \in LoopOf(w, n) /\ <<n, i>> \notin BackOf(w, n) /\ z = <<t, c>> /\ z \in Copies(w)
      \/ t \in LoopOf(w, n) /\ <<n, i>> \in BackOf(w, n) /\ c < w.reroutes /\ z = <<t, c + 1>> /\ z \in Copies(w)
      \/ t \in LoopOf(w, n) /\ <<n, i>> \in BackOf(w, n) /\ c = w.reroutes
           /\ z = Overflow(w, LoopOf(w, n)) /\ z \in Overflows(w)
  <2>1. CASE t \notin LoopOf(w, n)
    BY <1>2, <1>3, <2>1
  <2>2. CASE t \in LoopOf(w, n) /\ <<n, i>> \notin BackOf(w, n)
    BY <1>1, <1>3, <1>5, <2>2
  <2>3. CASE t \in LoopOf(w, n) /\ <<n, i>> \in BackOf(w, n) /\ c = w.reroutes
    BY <1>3, <1>4, <2>3
  <2>4. CASE t \in LoopOf(w, n) /\ <<n, i>> \in BackOf(w, n) /\ c # w.reroutes
    BY <1>1, <1>3, <1>5, <1>6, <2>4
  <2> QED
    BY <2>1, <2>2, <2>3, <2>4
<1> QED
  BY <1>7 DEF t, z, n, c

\* The graph of copies.
LEMMA UnrolledFacts ==
    ASSUME NEW w \in Usual
    PROVE  LET succ == Unrolled(w)
           IN  /\ DOMAIN succ = Copies(w) \cup Overflows(w)
               /\ \A x \in Overflows(w) : succ[x] = <<>> /\ LeadsCopies(succ)[x] = {}
               /\ \A x \in Copies(w) : /\ DOMAIN succ[x] = DOMAIN w.edges[x[1]]
                                       /\ \A i \in DOMAIN w.edges[x[1]] : succ[x][i] = CopyNext(w, x, i)
                                       /\ LeadsCopies(succ)[x] = {CopyNext(w, x, i) : i \in DOMAIN w.edges[x[1]]}
               /\ LeadsCopies(succ) \in [DOMAIN succ -> SUBSET DOMAIN succ]
<1> DEFINE succ == Unrolled(w)
           D == Copies(w) \cup Overflows(w)
           loop == [n \in NodesOf(w) |-> LoopOf(w, n)]
           back == [n \in NodesOf(w) |-> IF loop[n] = {} THEN {} ELSE BackEdges(w, loop[n])]
           copies == UNION {{<<n, c>> : c \in Layers(w, n)} : n \in NodesOf(w)}
           over == {Overflow(w, loop[n]) : n \in {m \in NodesOf(w) : loop[m] # {}}}
<1>1. succ = [x \in copies \cup over |->
                IF x \in over THEN <<>>
                ELSE [i \in DOMAIN w.edges[x[1]] |-> Rewritten(w, loop[x[1]], back[x[1]], x[1], x[2], i)]]
  BY DEF Unrolled
<1>2. copies = Copies(w) /\ over = Overflows(w)
  <2>1. {m \in NodesOf(w) : loop[m] # {}} = LoopNodes(w) /\ \A m \in LoopNodes(w) : loop[m] = LoopOf(w, m)
    BY DEF LoopNodes
  <2> QED
    BY <2>1 DEF Copies, Overflows
<1>3. \A n \in NodesOf(w) : loop[n] = LoopOf(w, n) /\ back[n] = BackOf(w, n)
  BY DEF BackOf
<1> HIDE DEF succ, loop, back, copies, over
<1>4. DOMAIN succ = D /\ \A x \in Overflows(w) : succ[x] = <<>>
  BY <1>1, <1>2
<1>5. ASSUME NEW x \in Copies(w)
      PROVE  DOMAIN succ[x] = DOMAIN w.edges[x[1]] /\ \A i \in DOMAIN w.edges[x[1]] : succ[x][i] = CopyNext(w, x, i)
  <2>1. x[1] \in NodesOf(w) /\ x \notin Overflows(w)
    BY CopyFacts
  <2>2. succ[x] = [i \in DOMAIN w.edges[x[1]] |-> Rewritten(w, loop[x[1]], back[x[1]], x[1], x[2], i)]
    BY <1>1, <1>2, <2>1
  <2> QED
    BY <1>3, <2>1, <2>2 DEF CopyNext
<1>6. \A x \in Overflows(w) : LeadsCopies(succ)[x] = {}
  BY <1>4 DEF LeadsCopies
<1>7. \A x \in Copies(w) : LeadsCopies(succ)[x] = {CopyNext(w, x, i) : i \in DOMAIN w.edges[x[1]]}
  BY <1>4, <1>5 DEF LeadsCopies
<1>8. \A x \in D : LeadsCopies(succ)[x] \in SUBSET D
  <2>1. \A x \in Copies(w) : \A i \in DOMAIN w.edges[x[1]] : CopyNext(w, x, i) \in D
    BY CopyNextFacts
  <2> QED
    BY <1>6, <1>7, <2>1
<1>9. LeadsCopies(succ) \in [DOMAIN succ -> SUBSET DOMAIN succ]
  BY <1>4, <1>8 DEF LeadsCopies
<1> QED
  BY <1>4, <1>5, <1>6, <1>7, <1>9 DEF succ

\* After, among the copies.
LEMMA CopiesAfter ==
    ASSUME NEW w \in Usual, NEW x \in DOMAIN Unrolled(w)
    PROVE  LET succ == Unrolled(w)
               leads == LeadsCopies(succ)
           IN  /\ leads[x] \subseteq AfterCopy(succ, x) /\ AfterCopy(succ, x) \subseteq DOMAIN succ
               /\ \A y \in AfterCopy(succ, x) : leads[y] \subseteq AfterCopy(succ, x)
                                                /\ AfterCopy(succ, y) \subseteq AfterCopy(succ, x)
               /\ \A T \in SUBSET DOMAIN succ :
                    leads[x] \subseteq T /\ (\A y \in T : leads[y] \subseteq T) => AfterCopy(succ, x) \subseteq T
<1> DEFINE succ == Unrolled(w)
           D == DOMAIN succ
           next == LeadsCopies(succ)
<1>1. IsFiniteSet(D) /\ next \in [D -> SUBSET D] /\ x \in D
  <2>1. D = Copies(w) \cup Overflows(w) /\ next \in [D -> SUBSET D]
    BY UnrolledFacts
  <2>2. IsFiniteSet(Copies(w) \cup Overflows(w))
    BY CopyFacts
  <2> QED BY <2>1, <2>2
<1>2. \A y : AfterCopy(succ, y) = Reachable(next[y], next)
  BY DEF AfterCopy
<1> HIDE DEF succ, D, next
<1>3. /\ next[x] \subseteq Reachable(next[x], next) /\ Reachable(next[x], next) \subseteq D
      /\ ClosedUnder(Reachable(next[x], next), next)
      /\ \A m \in Reachable(next[x], next) : Reachable(next[m], next) \subseteq Reachable(next[x], next)
      /\ \A T \in SUBSET D : next[x] \subseteq T /\ ClosedUnder(T, next) => Reachable(next[x], next) \subseteq T
  BY <1>1, AfterFacts
<1>4. /\ next[x] \subseteq AfterCopy(succ, x) /\ AfterCopy(succ, x) \subseteq D
      /\ \A y \in AfterCopy(succ, x) : next[y] \subseteq AfterCopy(succ, x)
                                       /\ AfterCopy(succ, y) \subseteq AfterCopy(succ, x)
      /\ \A T \in SUBSET D : next[x] \subseteq T /\ (\A y \in T : next[y] \subseteq T) => AfterCopy(succ, x) \subseteq T
  BY <1>2, <1>3 DEF ClosedUnder
<1> QED
  BY <1>4 DEF D, next, succ

-----------------------------------------------------------------------------
(***************************************************************************)
(* A run and the walk through the workflow as authored.                    *)
(***************************************************************************)
WalksOf(w) == [at : NodesOf(w), visits : [NodesOf(w) -> Nat], back : Nat]
Acyclic(w) == \A x \in DOMAIN Unrolled(w) : x \notin AfterCopy(Unrolled(w), x)
CopiesOf(V, n) == {x \in V : x[1] = n}

\* The copies that a run came to, on the way to the copy y.
CameBy(w, V, y) == y \in V /\ \A x \in V : x = y \/ y \in AfterCopy(Unrolled(w), x)

\* The walk v came to what the run came to that is at y: it was sent back as often as there are
\* layers behind it, and there is a way to y around every node it did not come to.
Tracks(w, y, v) ==
    /\ y \in Copies(w) /\ v \in WalksOf(w) /\ v.at = y[1]
    /\ \E V \in SUBSET Copies(w) :
          CameBy(w, V, y) /\ \A n \in NodesOf(w) : v.visits[n] = Cardinality(CopiesOf(V, n))
    /\ Reducible(w) => v.back >= y[2]
    /\ \A t \in NodesOf(w) : v.visits[t] = 0 => y[1] \in Reachable({EntryOf(w)} \ {t}, Around(w, t))

LEMMA ComesType ==
    ASSUME NEW w \in Usual, NEW v, v.visits \in [NodesOf(w) -> Nat], v.back \in Nat, NEW t \in NodesOf(w)
    PROVE  /\ Comes(v, t) \in WalksOf(w) /\ Comes(v, t).at = t
           /\ \A n \in NodesOf(w) : Comes(v, t).visits[n] = IF n = t THEN v.visits[n] + 1 ELSE v.visits[n]
           /\ Comes(v, t).back = v.back + (IF v.visits[t] > 0 THEN 1 ELSE 0)
BY DEF Comes, WalksOf

\* It came to a node in as many copies as there are layers, at most.
LEMMA VisitsBounded ==
    ASSUME NEW w \in Usual, NEW V \in SUBSET Copies(w), NEW n \in NodesOf(w)
    PROVE  IsFiniteSet(CopiesOf(V, n)) /\ Cardinality(CopiesOf(V, n)) \in Nat
           /\ Cardinality(CopiesOf(V, n)) <= w.reroutes + 1
<1> DEFINE C == CopiesOf(V, n)
           f == [x \in C |-> x[2]]
<1>1. w.reroutes \in Nat /\ \A x \in C : x = <<n, x[2]>> /\ x[2] \in 0 .. w.reroutes
  BY WorkflowFacts, CopyFacts DEF CopiesOf
<1>2. f \in Injection(C, 0 .. w.reroutes)
  BY <1>1 DEF Injection, IsInjective
<1>3. IsFiniteSet(0 .. w.reroutes) /\ Cardinality(0 .. w.reroutes) = w.reroutes + 1
  <2>1. 0 \in Int /\ w.reroutes \in Int
    BY <1>1
  <2>2. /\ IsFiniteSet(0 .. w.reroutes)
        /\ Cardinality(0 .. w.reroutes) = IF 0 > w.reroutes THEN 0 ELSE w.reroutes - 0 + 1
    BY <2>1, FS_Interval
  <2>3. ~(0 > w.reroutes) /\ w.reroutes - 0 + 1 = w.reroutes + 1
    BY <1>1
  <2> QED BY <2>2, <2>3
<1> HIDE DEF C, f
<1>4. IsFiniteSet(C) /\ Cardinality(C) <= w.reroutes + 1
  BY <1>2, <1>3, FS_Injection
<1>5. Cardinality(C) \in Nat
  BY <1>4, FS_CardinalityType
<1> QED
  BY <1>4, <1>5 DEF C

\* A way around a node goes on along every edge that does not lead to it.
LEMMA AroundGoesOn ==
    ASSUME NEW w \in Usual, NEW t \in NodesOf(w), NEW from \in SUBSET NodesOf(w)
    PROVE  /\ from \subseteq Reachable(from, Around(w, t)) /\ Reachable(from, Around(w, t)) \subseteq NodesOf(w)
           /\ \A n \in Reachable(from, Around(w, t)) : TargetsOf(w, n) \ {t} \subseteq Reachable(from, Around(w, t))
<1>1. Around(w, t) \in [NodesOf(w) -> SUBSET NodesOf(w)]
  BY WorkflowFacts DEF Around
<1>2. IsFiniteSet(NodesOf(w))
  BY WorkflowFacts
<1>3. /\ from \subseteq Reachable(from, Around(w, t)) /\ Reachable(from, Around(w, t)) \subseteq NodesOf(w)
      /\ ClosedUnder(Reachable(from, Around(w, t)), Around(w, t))
  BY <1>1, <1>2, ReachableIsLeast
<1> QED
  BY <1>3 DEF ClosedUnder, Around

\* A loop entered at its header only was come to at the end of an edge back before.
LEMMA BackWasVisited ==
    ASSUME NEW w \in Usual, Reducible(w), NEW y, NEW v, Tracks(w, y, v),
           NEW i \in DOMAIN w.edges[y[1]], <<y[1], i>> \in BackOf(w, y[1])
    PROVE  v.visits[w.edges[y[1]][i]] > 0
<1> DEFINE n == y[1]
           t == w.edges[n][i]
<1>1. n \in NodesOf(w) /\ t \in NodesOf(w) /\ v.visits[t] \in Nat
  BY CopyFacts, WorkflowFacts DEF Tracks, WalksOf
<1>2. LoopOf(w, n) # {} /\ <<n, i>> \in BackEdges(w, LoopOf(w, n))
  BY DEF BackOf
<1>3. n = t \/ n \notin Reachable({EntryOf(w)} \ {t}, Around(w, t))
  <2>1. \A e \in BackEdges(w, LoopOf(w, n)) :
          e[1] = w.edges[e[1]][e[2]]
            \/ e[1] \notin Reachable({EntryOf(w)} \ {w.edges[e[1]][e[2]]}, Around(w, w.edges[e[1]][e[2]]))
    BY <1>1, <1>2 DEF Reducible
  <2>2. <<n, i>>[1] = n /\ <<n, i>>[2] = i
    OBVIOUS
  <2> QED
    BY <1>2, <2>1, <2>2
<1>4. CASE n = t
  <2>1. PICK V \in SUBSET Copies(w) : y \in V /\ v.visits[t] = Cardinality(CopiesOf(V, t))
    BY <1>1 DEF Tracks, CameBy
  <2>2. y \in CopiesOf(V, t) /\ IsFiniteSet(CopiesOf(V, t))
    BY <1>1, <1>4, <2>1, VisitsBounded DEF CopiesOf
  <2>3. Cardinality(CopiesOf(V, t)) # 0
    BY <2>2, FS_EmptySet
  <2> QED
    BY <1>1, <2>1, <2>3
<1>5. CASE n \notin Reachable({EntryOf(w)} \ {t}, Around(w, t))
  BY <1>1, <1>5 DEF Tracks
<1> QED
  BY <1>3, <1>4, <1>5

\* One edge on, the walk still tracks the run, or the run is cut off.
LEMMA EdgeIsTracked ==
    ASSUME NEW w \in Usual, Acyclic(w), EntryOf(w) \in NodesOf(w),
           NEW y, NEW v, Tracks(w, y, v), NEW i \in DOMAIN w.edges[y[1]]
    PROVE  LET t == w.edges[y[1]][i]
               z == CopyNext(w, y, i)
           IN  /\ z \in AfterCopy(Unrolled(w), y) /\ Comes(v, t) \in WalksOf(w)
               /\ z \in Copies(w) => Tracks(w, z, Comes(v, t))
               /\ z \in Overflows(w) => (Reducible(w) => Comes(v, t).back > w.reroutes)
               /\ z \in Copies(w) \cup Overflows(w)
<1> DEFINE n == y[1]
           t == w.edges[n][i]
           z == CopyNext(w, y, i)
           u == Comes(v, t)
           succ == Unrolled(w)
<1>1. /\ y \in Copies(w) /\ n \in NodesOf(w) /\ t \in NodesOf(w) /\ t \in TargetsOf(w, n)
      /\ y[2] \in 0 .. w.reroutes /\ w.reroutes \in Nat /\ v \in WalksOf(w)
  BY CopyFacts, WorkflowFacts DEF Tracks
<1>2. z \in Copies(w) \cup Overflows(w)
  BY <1>1, CopyNextFacts
<1>3. DOMAIN succ = Copies(w) \cup Overflows(w) /\ z \in LeadsCopies(succ)[y]
  <2>1. DOMAIN succ = Copies(w) \cup Overflows(w)
    BY UnrolledFacts
  <2>2. LeadsCopies(succ)[y] = {CopyNext(w, y, j) : j \in DOMAIN w.edges[y[1]]}
    BY <1>1, UnrolledFacts
  <2> QED BY <2>1, <2>2
<1>4. z \in AfterCopy(succ, y)
  BY <1>1, <1>3, CopiesAfter
<1>5. /\ u \in WalksOf(w) /\ u.at = t
      /\ \A m \in NodesOf(w) : u.visits[m] = IF m = t THEN v.visits[m] + 1 ELSE v.visits[m]
      /\ u.back = v.back + (IF v.visits[t] > 0 THEN 1 ELSE 0)
  <2>1. t \in NodesOf(w) /\ v.visits \in [NodesOf(w) -> Nat] /\ v.back \in Nat
    BY <1>1 DEF WalksOf
  <2> HIDE DEF t
  <2> QED BY <2>1, ComesType
<1>6. v.back \in Nat /\ \A m \in NodesOf(w) : v.visits[m] \in Nat
  BY <1>1 DEF WalksOf
<1>7. <<n, i>> \in BackOf(w, n) /\ Reducible(w) => u.back = v.back + 1
  BY <1>5, BackWasVisited
<1>8. /\ z \in Copies(w) => z[1] = t
      /\ z \in Copies(w) => (Reducible(w) => u.back >= z[2])
      /\ z \in Overflows(w) => (Reducible(w) => u.back > w.reroutes)
  <2>1. Reducible(w) => v.back >= y[2]
    BY DEF Tracks
  <2>2. u.back \in Nat /\ u.back >= v.back
    BY <1>5, <1>6
  <2>a. \A x \in Copies(w) : x \notin Overflows(w)
    BY CopyFacts
  <2>b. \A c : <<t, c>>[1] = t /\ <<t, c>>[2] = c
    OBVIOUS
  <2>3. CASE z = <<t, 0>> /\ z \in Copies(w)
    BY <2>2, <2>3, <2>a, <2>b
  <2>4. CASE z = <<t, y[2]>> /\ z \in Copies(w)
    BY <1>1, <1>6, <2>1, <2>2, <2>4, <2>a, <2>b
  <2>5. CASE z = <<t, y[2] + 1>> /\ z \in Copies(w) /\ <<n, i>> \in BackOf(w, n)
    BY <1>1, <1>6, <1>7, <2>1, <2>5, <2>a, <2>b
  <2>6. CASE z \in Overflows(w) /\ <<n, i>> \in BackOf(w, n) /\ y[2] = w.reroutes
    BY <1>1, <1>6, <1>7, <2>1, <2>6, <2>a
  <2>7. \/ z = <<t, 0>> /\ z \in Copies(w)
        \/ z = <<t, y[2]>> /\ z \in Copies(w)
        \/ z = <<t, y[2] + 1>> /\ z \in Copies(w) /\ <<n, i>> \in BackOf(w, n)
        \/ z \in Overflows(w) /\ <<n, i>> \in BackOf(w, n) /\ y[2] = w.reroutes
    BY <1>1, CopyNextFacts
  <2> HIDE DEF z, t, u, n
  <2> QED
    BY <2>3, <2>4, <2>5, <2>6, <2>7
<1>9. ASSUME z \in Copies(w) PROVE Tracks(w, z, u)
  <2>1. PICK V \in SUBSET Copies(w) :
          CameBy(w, V, y) /\ \A m \in NodesOf(w) : v.visits[m] = Cardinality(CopiesOf(V, m))
    BY DEF Tracks
  <2> DEFINE W == V \cup {z}
  <2>2. CameBy(w, W, z)
    <3>1. \A x \in V : x \in DOMAIN succ
      BY <1>3
    <3>2. ASSUME NEW x \in V PROVE z \in AfterCopy(succ, x)
      <4>1. x = y \/ y \in AfterCopy(succ, x)
        BY <2>1 DEF CameBy
      <4>2. y \in AfterCopy(succ, x) => AfterCopy(succ, y) \subseteq AfterCopy(succ, x)
        BY <3>1, CopiesAfter
      <4> QED BY <1>4, <4>1, <4>2
    <3> QED
      BY <3>2 DEF CameBy
  <2>3. z \notin V
    <3>1. ASSUME z \in V PROVE FALSE
      <4>1. z = y \/ y \in AfterCopy(succ, z)
        BY <2>1, <3>1 DEF CameBy
      <4>2. z \in DOMAIN succ /\ z \notin AfterCopy(succ, z) /\ y \notin AfterCopy(succ, y)
        BY <1>1, <1>2, <1>3 DEF Acyclic
      <4>3. y \in AfterCopy(succ, z) => AfterCopy(succ, y) \subseteq AfterCopy(succ, z)
        BY <4>2, CopiesAfter
      <4> QED BY <1>4, <4>1, <4>2, <4>3
    <3> QED BY <3>1
  <2>4. ASSUME NEW m \in NodesOf(w) PROVE u.visits[m] = Cardinality(CopiesOf(W, m))
    <3>1. IsFiniteSet(CopiesOf(V, m)) /\ z \notin CopiesOf(V, m)
      BY <2>3, VisitsBounded DEF CopiesOf
    <3>2. CASE m = t
      <4>1. CopiesOf(W, m) = CopiesOf(V, m) \cup {z}
        BY <1>8, <1>9, <3>2 DEF CopiesOf
      <4>2. Cardinality(CopiesOf(W, m)) = Cardinality(CopiesOf(V, m)) + 1
        BY <3>1, <4>1, FS_AddElement
      <4> QED BY <1>5, <2>1, <3>2, <4>2
    <3>3. CASE m # t
      <4>1. CopiesOf(W, m) = CopiesOf(V, m)
        BY <1>8, <1>9, <3>3 DEF CopiesOf
      <4> QED BY <1>5, <2>1, <3>3, <4>1
    <3> QED BY <3>2, <3>3
  <2>5. ASSUME NEW s \in NodesOf(w), u.visits[s] = 0
        PROVE  t \in Reachable({EntryOf(w)} \ {s}, Around(w, s))
    <3>1. s # t /\ v.visits[s] = 0
      BY <1>5, <1>6, <2>5
    <3>2. n \in Reachable({EntryOf(w)} \ {s}, Around(w, s))
      BY <3>1 DEF Tracks
    <3>3. {EntryOf(w)} \ {s} \in SUBSET NodesOf(w)
      OBVIOUS
    <3>4. TargetsOf(w, n) \ {s} \subseteq Reachable({EntryOf(w)} \ {s}, Around(w, s))
      BY <3>2, <3>3, AroundGoesOn
    <3> QED BY <1>1, <3>1, <3>4
  <2>6. W \in SUBSET Copies(w) /\ z[1] = t
    BY <1>8, <1>9
  <2> HIDE DEF W, z, u
  <2> QED
    BY <1>5, <1>8, <1>9, <2>2, <2>4, <2>5, <2>6 DEF Tracks
<1> QED
  BY <1>2, <1>4, <1>5, <1>8, <1>9

-----------------------------------------------------------------------------
(***************************************************************************)
(* What a run passes, among the copies and in the workflow as authored.    *)
(***************************************************************************)
Compiling == spec \in Usual /\ dag.succ = Unrolled(spec) /\ Acyclic(spec) /\ EntryOf(spec) \in NodesOf(spec)
Passing(x, seeded) == Kind(x) # "terminal" /\ Passes(x[1], seeded)

\* What is passed leads on.
LEMMA PassingLeadsOn ==
    ASSUME Compiling, NEW seeded, NEW x \in DOMAIN dag.succ, Passing(x, seeded)
    PROVE  /\ x \in Copies(spec) /\ 1 \in DOMAIN spec.edges[x[1]]
           /\ dag.succ[x][1] = CopyNext(spec, x, 1) /\ dag.succ[x][1] \in DOMAIN dag.succ
<1>1. DOMAIN dag.succ = Copies(spec) \cup Overflows(spec)
  BY UnrolledFacts DEF Compiling
<1>2. x \in Copies(spec)
  BY <1>1, CopyFacts DEF Compiling, Passing, Kind
<1>3. x[1] \in NodesOf(spec) /\ spec.kind[x[1]] \in {"join", "work"}
  BY <1>2, CopyFacts DEF Compiling, Passing, Passes
<1>4. 1 \in DOMAIN spec.edges[x[1]]
  BY <1>3, WorkflowFacts DEF Compiling
<1>5. dag.succ[x][1] = CopyNext(spec, x, 1)
  <2>1. spec \in Usual /\ dag.succ = Unrolled(spec)
    BY DEF Compiling
  <2>2. Unrolled(spec)[x][1] = CopyNext(spec, x, 1)
    <3>1. \A y \in Copies(spec) : \A i \in DOMAIN spec.edges[y[1]] : Unrolled(spec)[y][i] = CopyNext(spec, y, i)
      BY <2>1, UnrolledFacts
    <3> QED BY <1>2, <1>4, <3>1
  <2> QED BY <2>1, <2>2
<1>6. CopyNext(spec, x, 1) \in Copies(spec) \cup Overflows(spec)
  BY <1>2, <1>4, CopyNextFacts DEF Compiling
<1> QED
  BY <1>1, <1>2, <1>4, <1>5, <1>6

\* FirstUnsatisfied satisfies its recursion.
LEMMA FirstIsRecursive ==
    ASSUME Compiling, NEW seeded, NEW x \in DOMAIN dag.succ
    PROVE  FirstUnsatisfied(x, seeded) =
             IF Passing(x, seeded) THEN FirstUnsatisfied(dag.succ[x][1], seeded) ELSE x
<1> DEFINE S == DOMAIN dag.succ
           step == [y \in S |-> IF Passing(y, seeded) THEN dag.succ[y][1] ELSE y]
           halts == {y \in S : ~Passing(y, seeded)}
           out == [y \in S |-> y]
           Firsts(f) == f = [y \in S |-> IF Passing(y, seeded) THEN f[dag.succ[y][1]] ELSE y]
           first == CHOOSE f : Firsts(f)
<1>1. \A y \in S : Passing(y, seeded) => dag.succ[y][1] \in S
  BY PassingLeadsOn
<1>2. \E f : Firsts(f)
  <2>1. step \in [S -> S] /\ halts \subseteq S
    BY <1>1
  <2>2. PICK f : Repeats(f, S, halts, out, step)
    <3> HIDE DEF step, halts, out, S
    <3> QED BY <2>1, RepetitionExists
  <2>3. f = [y \in S |-> IF y \in halts THEN out[y] ELSE f[step[y]]]
    BY <2>2 DEF Repeats
  <2>4. \A y \in S : (IF y \in halts THEN out[y] ELSE f[step[y]])
                       = (IF Passing(y, seeded) THEN f[dag.succ[y][1]] ELSE y)
    OBVIOUS
  <2> HIDE DEF step, halts, out, S
  <2> QED
    BY <2>3, <2>4
<1>3. Firsts(first)
  <2> HIDE DEF Firsts
  <2> QED BY <1>2
<1>4. \A y : FirstUnsatisfied(y, seeded) = first[y]
  BY DEF FirstUnsatisfied, Passing
<1> HIDE DEF first
<1>5. first[x] = IF Passing(x, seeded) THEN first[dag.succ[x][1]] ELSE x
  BY <1>3
<1> QED
  BY <1>4, <1>5

\* What walks from u on.
Paces(f, seeded) ==
    f = [u \in Walks |-> IF Passes(u.at, seeded) /\ u.visits[u.at] <= spec.reroutes + 1
                         THEN f[Comes(u, spec.edges[u.at][1])] ELSE u]
WalkedFrom(u, seeded) == (CHOOSE f : Paces(f, seeded))[u]

LEMMA WalkedIs ==
    ASSUME NEW v, NEW n, NEW seeded
    PROVE  Walked(v, n, seeded) = WalkedFrom(Comes(v, n), seeded)
BY DEF Walked, WalkedFrom, Paces

GoesOn(u, seeded) == Passes(u.at, seeded) /\ u.visits[u.at] <= spec.reroutes + 1

\* Walked satisfies its recursion.
LEMMA WalkedIsRecursive ==
    ASSUME Compiling, NEW seeded, NEW u \in Walks
    PROVE  /\ WalkedFrom(u, seeded) =
                IF GoesOn(u, seeded) THEN WalkedFrom(Comes(u, spec.edges[u.at][1]), seeded) ELSE u
           /\ GoesOn(u, seeded) => spec.edges[u.at][1] \in NodesOf(spec) /\ Comes(u, spec.edges[u.at][1]) \in Walks
<1> DEFINE to(v) == Comes(v, spec.edges[v.at][1])
           step == [v \in Walks |-> IF GoesOn(v, seeded) THEN to(v) ELSE v]
           halts == {v \in Walks : ~GoesOn(v, seeded)}
           out == [v \in Walks |-> v]
           walked == CHOOSE f : Paces(f, seeded)
<1>1. ASSUME NEW v \in Walks, GoesOn(v, seeded)
      PROVE  spec.edges[v.at][1] \in NodesOf(spec) /\ to(v) \in Walks
  <2>1. v.at \in NodesOf(spec) /\ v.visits \in [NodesOf(spec) -> Nat] /\ v.back \in Nat
    BY DEF Walks
  <2>2. spec.kind[v.at] \in {"join", "work"}
    BY <1>1 DEF GoesOn, Passes
  <2>3. spec.edges[v.at][1] \in NodesOf(spec)
    BY <2>1, <2>2, WorkflowFacts DEF Compiling
  <2>4. to(v) \in WalksOf(spec)
    BY <2>1, <2>3, ComesType DEF Compiling
  <2> QED
    BY <2>3, <2>4 DEF Walks, WalksOf
<1>2. \E f : Paces(f, seeded)
  <2>1. step \in [Walks -> Walks] /\ halts \subseteq Walks
    <3> HIDE DEF to
    <3> QED BY <1>1
  <2>2. PICK f : Repeats(f, Walks, halts, out, step)
    <3> HIDE DEF step, halts, out
    <3> QED BY <2>1, RepetitionExists
  <2>3. f = [v \in Walks |-> IF v \in halts THEN out[v] ELSE f[step[v]]]
    BY <2>2 DEF Repeats
  <2>4. \A v \in Walks : (IF v \in halts THEN out[v] ELSE f[step[v]])
                           = (IF GoesOn(v, seeded) THEN f[to(v)] ELSE v)
    <3> HIDE DEF to
    <3> QED OBVIOUS
  <2>5. f = [v \in Walks |-> IF GoesOn(v, seeded) THEN f[to(v)] ELSE v]
    <3> HIDE DEF step, halts, out, to
    <3> QED BY <2>3, <2>4
  <2> QED
    BY <2>5 DEF Paces, GoesOn
<1>3. Paces(walked, seeded)
  BY <1>2
<1>4. \A v : WalkedFrom(v, seeded) = walked[v]
  BY DEF WalkedFrom
<1> HIDE DEF walked
<1>5. walked[u] = IF GoesOn(u, seeded) THEN walked[to(u)] ELSE u
  BY <1>3 DEF Paces, GoesOn
<1> QED
  BY <1>1, <1>4, <1>5

\* A walk is never sent back less often.
LEMMA BackGrows ==
    ASSUME Compiling, NEW seeded, NEW u \in Walks
    PROVE  WalkedFrom(u, seeded).back >= u.back /\ WalkedFrom(u, seeded).back \in Nat
<1> DEFINE to(v) == Comes(v, spec.edges[v.at][1])
           Turns == 0 .. spec.reroutes + 1
           All == NodesOf(spec) \X Turns
           Left(v) == {p \in All : ~(p[2] < v.visits[p[1]])}
           Good(v) == WalkedFrom(v, seeded).back >= v.back /\ WalkedFrom(v, seeded).back \in Nat
           Bad == {v \in Walks : ~Good(v)}
           Lefts == {Left(v) : v \in Bad}
<1>1. spec.reroutes \in Nat /\ IsFiniteSet(All)
  <2>1. spec.reroutes \in Nat /\ IsFiniteSet(NodesOf(spec))
    BY WorkflowFacts DEF Compiling
  <2>2. 0 \in Int /\ spec.reroutes + 1 \in Int
    BY <2>1
  <2>3. IsFiniteSet(Turns)
    BY <2>2, FS_Interval
  <2> QED
    BY <2>1, <2>3, FS_Product
<1>2. ASSUME NEW v \in Walks
      PROVE  /\ WalkedFrom(v, seeded) = IF GoesOn(v, seeded) THEN WalkedFrom(to(v), seeded) ELSE v
             /\ v.back \in Nat
             /\ GoesOn(v, seeded) =>
                  /\ to(v) \in Walks /\ to(v).back >= v.back /\ to(v).back \in Nat
                  /\ to(v).at \in NodesOf(spec)
                  /\ \A n \in NodesOf(spec) : to(v).visits[n] = IF n = to(v).at THEN v.visits[n] + 1 ELSE v.visits[n]
  <2>1. /\ WalkedFrom(v, seeded) = IF GoesOn(v, seeded) THEN WalkedFrom(to(v), seeded) ELSE v
        /\ GoesOn(v, seeded) => spec.edges[v.at][1] \in NodesOf(spec) /\ to(v) \in Walks
    BY WalkedIsRecursive
  <2>2. v.visits \in [NodesOf(spec) -> Nat] /\ v.back \in Nat
    BY DEF Walks
  <2>3. ASSUME NEW t \in NodesOf(spec)
        PROVE  /\ Comes(v, t).at = t
               /\ \A n \in NodesOf(spec) : Comes(v, t).visits[n] = IF n = t THEN v.visits[n] + 1 ELSE v.visits[n]
               /\ Comes(v, t).back >= v.back /\ Comes(v, t).back \in Nat
    <3>1. /\ Comes(v, t).at = t
          /\ \A n \in NodesOf(spec) : Comes(v, t).visits[n] = IF n = t THEN v.visits[n] + 1 ELSE v.visits[n]
          /\ Comes(v, t).back = v.back + (IF v.visits[t] > 0 THEN 1 ELSE 0)
      BY <2>2, ComesType DEF Compiling
    <3> QED
      BY <2>2, <3>1
  <2> QED
    BY <2>1, <2>2, <2>3
<1> HIDE DEF to
<1>3. Bad = {}
  <2> SUFFICES ASSUME Bad # {} PROVE FALSE
    OBVIOUS
  <2>1. Lefts \subseteq SUBSET All /\ Lefts # {}
    <3>1. \A v : Left(v) \in SUBSET All
      OBVIOUS
    <3> HIDE DEF Left, All, Bad
    <3> QED BY <3>1
  <2>2. PICK L \in Lefts : \A M \in Lefts : M \subseteq L => M = L
    <3> HIDE DEF Lefts, All
    <3> QED BY <1>1, <2>1, SmallestSubset
  <2>3. PICK v \in Bad : L = Left(v)
    BY <2>2
  <2>4. GoesOn(v, seeded)
    BY <1>2, <2>3
  <2> DEFINE z == to(v)
  <2>5. /\ z \in Walks /\ z.back >= v.back /\ z.back \in Nat /\ v.back \in Nat /\ z.at \in NodesOf(spec)
        /\ WalkedFrom(v, seeded) = WalkedFrom(z, seeded)
        /\ \A n \in NodesOf(spec) : z.visits[n] = IF n = z.at THEN v.visits[n] + 1 ELSE v.visits[n]
    BY <1>2, <2>3, <2>4
  <2>6. \A n \in NodesOf(spec) : v.visits[n] \in Nat
    BY <2>3 DEF Walks
  <2> HIDE DEF z
  <2>7. z \in Bad
    <3>1. ASSUME Good(z) PROVE Good(v)
      BY <2>5, <3>1
    <3> QED BY <2>3, <2>5, <3>1
  <2>8. CASE v.visits[z.at] <= spec.reroutes + 1
    <3>1. <<z.at, v.visits[z.at]>> \in Left(v) /\ <<z.at, v.visits[z.at]>> \notin Left(z)
      BY <1>1, <2>5, <2>6, <2>8
    <3>2. \A p \in Left(z) : p \in Left(v)
      BY <2>5, <2>6
    <3>3. Left(z) \in Lefts
      BY <2>7
    <3> HIDE DEF Left, Lefts
    <3> QED BY <2>2, <2>3, <3>1, <3>2, <3>3
  <2>9. CASE ~(v.visits[z.at] <= spec.reroutes + 1)
    <3>1. ~GoesOn(z, seeded)
      BY <1>1, <2>5, <2>6, <2>9 DEF GoesOn
    <3>2. Good(z)
      BY <1>2, <2>5, <3>1
    <3> QED BY <2>7, <3>2
  <2> QED
    BY <2>8, <2>9
<1> QED
  BY <1>3

\* Where the run and the walk arrive when all that is to be passed is passed.
Arrives(x, y, u, seeded) ==
    /\ y \in DOMAIN dag.succ /\ ~Passing(y, seeded)
    /\ y = x \/ y \in AfterCopy(Unrolled(spec), x)
    /\ y \in Copies(spec) => Tracks(spec, y, u)
    /\ y \in Overflows(spec) => (Reducible(spec) => u.back > spec.reroutes)

\* A run that is cut off stays, and the walk goes on from where it was sent back too often.
LEMMA CutOffArrives ==
    ASSUME Compiling, NEW seeded, NEW x \in Overflows(spec), NEW v \in Walks,
           Reducible(spec) => v.back > spec.reroutes
    PROVE  Arrives(x, FirstUnsatisfied(x, seeded), WalkedFrom(v, seeded), seeded)
<1>1. x \in DOMAIN dag.succ /\ x \notin Copies(spec) /\ x[2] = -1
  <2>1. spec \in Usual /\ DOMAIN Unrolled(spec) = Copies(spec) \cup Overflows(spec)
    BY UnrolledFacts DEF Compiling
  <2> QED
    BY <2>1, CopyFacts DEF Compiling
<1>2. ~Passing(x, seeded)
  BY <1>1 DEF Passing, Kind
<1>3. FirstUnsatisfied(x, seeded) = x
  BY <1>1, <1>2, FirstIsRecursive
<1>4. WalkedFrom(v, seeded).back >= v.back /\ WalkedFrom(v, seeded).back \in Nat
  BY BackGrows
<1>5. v.back \in Nat /\ spec.reroutes \in Nat
  BY WorkflowFacts DEF Walks, Compiling
<1> QED
  BY <1>1, <1>2, <1>3, <1>4, <1>5 DEF Arrives

\* The run and the walk pass the same.
LEMMA PassingTracked ==
    ASSUME Compiling, NEW seeded, NEW x, NEW v, Tracks(spec, x, v)
    PROVE  Arrives(x, FirstUnsatisfied(x, seeded), WalkedFrom(v, seeded), seeded)
<1> DEFINE D == DOMAIN dag.succ
           A(z) == AfterCopy(Unrolled(spec), z)
           Right(z) == \A u : Tracks(spec, z, u) =>
                          Arrives(z, FirstUnsatisfied(z, seeded), WalkedFrom(u, seeded), seeded)
           Wrong == {z \in D : ~Right(z)}
           Afters == {A(z) : z \in Wrong}
<1>1. /\ spec \in Usual /\ dag.succ = Unrolled(spec) /\ D = Copies(spec) \cup Overflows(spec)
      /\ IsFiniteSet(D) /\ Acyclic(spec) /\ EntryOf(spec) \in NodesOf(spec)
  <2>1. spec \in Usual /\ dag.succ = Unrolled(spec) /\ Acyclic(spec) /\ EntryOf(spec) \in NodesOf(spec)
    BY DEF Compiling
  <2>2. DOMAIN Unrolled(spec) = Copies(spec) \cup Overflows(spec)
    BY <2>1, UnrolledFacts
  <2>3. IsFiniteSet(Copies(spec) \cup Overflows(spec))
    BY <2>1, CopyFacts
  <2> QED
    BY <2>1, <2>2, <2>3
<1>2. \A z \in D : A(z) \in SUBSET D /\ z \notin A(z) /\ \A y \in A(z) : A(y) \subseteq A(z)
  <2>1. \A z \in DOMAIN Unrolled(spec) :
          A(z) \subseteq DOMAIN Unrolled(spec) /\ \A y \in A(z) : A(y) \subseteq A(z)
    BY <1>1, CopiesAfter
  <2> QED
    BY <1>1, <2>1 DEF Acyclic
<1>3. Wrong = {}
  <2> SUFFICES ASSUME Wrong # {} PROVE FALSE
    OBVIOUS
  <2>1. Afters \subseteq SUBSET D /\ Afters # {}
    <3> HIDE DEF A, D
    <3> QED BY <1>2
  <2>2. PICK L \in Afters : \A M \in Afters : M \subseteq L => M = L
    <3> HIDE DEF Afters, D
    <3> QED BY <1>1, <2>1, SmallestSubset
  <2>3. PICK z \in Wrong : L = A(z)
    BY <2>2
  <2>4. PICK u : Tracks(spec, z, u) /\ ~Arrives(z, FirstUnsatisfied(z, seeded), WalkedFrom(u, seeded), seeded)
    BY <2>3
  <2>5. z \in D /\ z \in Copies(spec) /\ u \in Walks /\ u.at = z[1] /\ z[2] # -1
        /\ z \notin Overflows(spec)
    BY <1>1, <2>3, <2>4, CopyFacts DEF Tracks, Walks, WalksOf
  <2>6. GoesOn(u, seeded) <=> Passing(z, seeded)
    <3>1. Kind(z) = spec.kind[z[1]]
      BY <2>5 DEF Kind
    <3>2. Passes(u.at, seeded) <=> Passing(z, seeded)
      BY <2>5, <3>1 DEF Passing, Passes
    <3>3. u.visits[u.at] <= spec.reroutes + 1
      <4>1. z[1] \in NodesOf(spec)
        BY <1>1, <2>5, CopyFacts
      <4>2. PICK V \in SUBSET Copies(spec) : u.visits[z[1]] = Cardinality(CopiesOf(V, z[1]))
        BY <2>4, <4>1 DEF Tracks
      <4> QED
        BY <1>1, <2>5, <4>1, <4>2, VisitsBounded
    <3> QED
      BY <3>2, <3>3 DEF GoesOn
  <2>7. CASE ~Passing(z, seeded)
    <3>1. FirstUnsatisfied(z, seeded) = z /\ WalkedFrom(u, seeded) = u
      BY <2>5, <2>6, <2>7, FirstIsRecursive, WalkedIsRecursive
    <3> QED
      BY <2>4, <2>5, <2>7, <3>1 DEF Arrives
  <2>8. CASE Passing(z, seeded)
    <3> DEFINE z2 == dag.succ[z][1]
               u2 == Comes(u, spec.edges[u.at][1])
    <3>1. /\ FirstUnsatisfied(z, seeded) = FirstUnsatisfied(z2, seeded)
          /\ WalkedFrom(u, seeded) = WalkedFrom(u2, seeded) /\ u2 \in Walks
      BY <2>5, <2>6, <2>8, FirstIsRecursive, WalkedIsRecursive
    <3>2. 1 \in DOMAIN spec.edges[z[1]] /\ z2 = CopyNext(spec, z, 1) /\ z2 \in D
      BY <2>5, <2>8, PassingLeadsOn
    <3>3. /\ z2 \in A(z)
          /\ z2 \in Copies(spec) => Tracks(spec, z2, u2)
          /\ z2 \in Overflows(spec) => (Reducible(spec) => u2.back > spec.reroutes)
      BY <1>1, <2>4, <2>5, <3>2, EdgeIsTracked
    <3> HIDE DEF z2, u2
    <3>4. Arrives(z2, FirstUnsatisfied(z2, seeded), WalkedFrom(u2, seeded), seeded)
      <4>1. CASE z2 \in Copies(spec)
        <5>1. z2 \notin Wrong
          <6>1. A(z2) \subseteq A(z) /\ z2 \notin A(z2)
            BY <1>2, <2>5, <3>2, <3>3
          <6>2. z2 \in Wrong => A(z2) \in Afters
            OBVIOUS
          <6> HIDE DEF A, Wrong, Afters
          <6> QED BY <2>2, <2>3, <3>3, <6>1, <6>2
        <5> QED
          BY <3>2, <3>3, <4>1, <5>1
      <4>2. CASE z2 \in Overflows(spec)
        BY <3>1, <3>3, <4>2, CutOffArrives
      <4> QED
        BY <1>1, <3>2, <4>1, <4>2
    <3>5. A(z2) \subseteq A(z)
      BY <1>2, <2>5, <3>3
    <3>6. Arrives(z, FirstUnsatisfied(z2, seeded), WalkedFrom(u2, seeded), seeded)
      BY <3>3, <3>4, <3>5 DEF Arrives
    <3> QED
      BY <2>4, <3>1, <3>6
  <2> QED
    BY <2>7, <2>8
<1>4. x \in D
  BY <1>1 DEF Tracks
<1> QED
  BY <1>3, <1>4

\* Along an edge, and past what is to be passed after it.
LEMMA EdgeArrives ==
    ASSUME Compiling, NEW x, NEW v, Tracks(spec, x, v), NEW i \in DOMAIN spec.edges[x[1]]
    PROVE  LET z == dag.succ[x][i]
               y == FirstUnsatisfied(z, {})
           IN  /\ z = CopyNext(spec, x, i) /\ z \in DOMAIN dag.succ
               /\ y \in AfterCopy(Unrolled(spec), x)
               /\ Arrives(z, y, Walked(v, spec.edges[x[1]][i], {}), {})
<1> DEFINE z == CopyNext(spec, x, i)
           t == spec.edges[x[1]][i]
           y == FirstUnsatisfied(z, {})
           u == Comes(v, t)
<1>1. spec \in Usual /\ dag.succ = Unrolled(spec) /\ Acyclic(spec) /\ EntryOf(spec) \in NodesOf(spec)
  BY DEF Compiling
<1>2. x \in Copies(spec)
  BY DEF Tracks
<1>3. DOMAIN dag.succ = Copies(spec) \cup Overflows(spec) /\ dag.succ[x][i] = z
  <2>1. DOMAIN Unrolled(spec) = Copies(spec) \cup Overflows(spec)
    BY <1>1, UnrolledFacts
  <2>2. Unrolled(spec)[x][i] = z
    BY <1>1, <1>2, UnrolledFacts
  <2> QED BY <1>1, <2>1, <2>2
<1>4. /\ z \in AfterCopy(Unrolled(spec), x) /\ u \in WalksOf(spec)
      /\ z \in Copies(spec) => Tracks(spec, z, u)
      /\ z \in Overflows(spec) => (Reducible(spec) => u.back > spec.reroutes)
      /\ z \in Copies(spec) \cup Overflows(spec)
  BY <1>1, EdgeIsTracked
<1>5. Walked(v, t, {}) = WalkedFrom(u, {}) /\ u \in Walks
  BY <1>4, WalkedIs DEF Walks, WalksOf
<1> HIDE DEF z, t, u
<1>6. Arrives(z, y, WalkedFrom(u, {}), {})
  <2>1. CASE z \in Copies(spec)
    BY <1>4, <2>1, PassingTracked
  <2>2. CASE z \in Overflows(spec)
    BY <1>4, <1>5, <2>2, CutOffArrives
  <2> QED
    BY <1>4, <2>1, <2>2
<1>7. AfterCopy(Unrolled(spec), z) \subseteq AfterCopy(Unrolled(spec), x)
  BY <1>1, <1>2, <1>3, <1>4, CopiesAfter
<1>8. y \in AfterCopy(Unrolled(spec), x)
  BY <1>4, <1>6, <1>7 DEF Arrives
<1>9. z \in DOMAIN dag.succ
  BY <1>3, <1>4
<1> QED
  BY <1>3, <1>5, <1>6, <1>8, <1>9 DEF z, t, y

-----------------------------------------------------------------------------
(***************************************************************************)
(* The run.                                                                *)
(***************************************************************************)
IsState(s) ==
    s = [current |-> s.current, status |-> s.status, error |-> s.error, attempts |-> s.attempts,
         assigned |-> s.assigned, supervised |-> s.supervised]

\* Two updates of a state.
LEMMA StateUpdates ==
    ASSUME NEW s, IsState(s), NEW a, NEW b
    PROVE  /\ [[s EXCEPT !.status = a] EXCEPT !.attempts = b]
                = [current |-> s.current, status |-> a, error |-> s.error, attempts |-> b,
                   assigned |-> s.assigned, supervised |-> s.supervised]
           /\ [[s EXCEPT !.assigned = a] EXCEPT !.supervised = b]
                = [current |-> s.current, status |-> s.status, error |-> s.error, attempts |-> s.attempts,
                   assigned |-> a, supervised |-> b]
<1>1. ASSUME NEW c, NEW t, NEW e, NEW n, NEW g, NEW u,
             s = [current |-> c, status |-> t, error |-> e, attempts |-> n, assigned |-> g, supervised |-> u]
      PROVE  /\ [[s EXCEPT !.status = a] EXCEPT !.attempts = b]
                  = [current |-> c, status |-> a, error |-> e, attempts |-> b, assigned |-> g, supervised |-> u]
             /\ [[s EXCEPT !.assigned = a] EXCEPT !.supervised = b]
                  = [current |-> c, status |-> t, error |-> e, attempts |-> n, assigned |-> a, supervised |-> b]
  <2>1. /\ [s EXCEPT !.status = a]
             = [current |-> c, status |-> a, error |-> e, attempts |-> n, assigned |-> g, supervised |-> u]
        /\ [s EXCEPT !.assigned = a]
             = [current |-> c, status |-> t, error |-> e, attempts |-> n, assigned |-> a, supervised |-> u]
    BY <1>1
  <2>2. ASSUME NEW r, r = [current |-> c, status |-> a, error |-> e, attempts |-> n, assigned |-> g, supervised |-> u]
        PROVE  [r EXCEPT !.attempts = b]
                 = [current |-> c, status |-> a, error |-> e, attempts |-> b, assigned |-> g, supervised |-> u]
    BY <2>2
  <2>3. ASSUME NEW r, r = [current |-> c, status |-> t, error |-> e, attempts |-> n, assigned |-> a, supervised |-> u]
        PROVE  [r EXCEPT !.supervised = b]
                 = [current |-> c, status |-> t, error |-> e, attempts |-> n, assigned |-> a, supervised |-> b]
    BY <2>3
  <2> QED
    BY <2>1, <2>2, <2>3
<1> QED
  BY <1>1 DEF IsState

\* What was tried, as often as is allowed: copies that the run came to on the way to y.
Tried(attempts, y) ==
    /\ attempts \in [DOMAIN dag.succ -> Nat]
    /\ \A x \in DOMAIN dag.succ :
          /\ attempts[x] <= spec.attempts
          /\ attempts[x] > 0 => x = y \/ y \in AfterCopy(Unrolled(spec), x)

WorkflowKept ==
    /\ spec \in Usual /\ dag = Compiled(spec) /\ IsState(st)
    /\ st.status = "new" => walk.visits = [n \in NodesOf(spec) |-> 0] /\ walk.back = 0
    /\ st.status # "new" =>
         /\ Compiling /\ dag.ok
         /\ st.current \in DOMAIN dag.succ
         /\ st.current \in Copies(spec) => Tracks(spec, st.current, walk)
         /\ st.current \in Overflows(spec) =>
              st.status # "running" /\ (Reducible(spec) => walk.back > spec.reroutes)
         /\ Tried(st.attempts, st.current)

LEMMA WorkflowStarts == WorkflowInit /\ spec \in Usual => WorkflowKept
BY DEF WorkflowInit, WorkflowKept, IsState

\* What compiles has no cycle, and one entry.
LEMMA CompiledFacts ==
    ASSUME spec \in Usual, dag = Compiled(spec), dag.ok
    PROVE  Compiling /\ dag.entry = <<EntryOf(spec), 0>> /\ dag.entry \in Copies(spec)
<1>1. Cardinality(Entries(spec)) = 1
  BY DEF Compiled, Usual
<1>2. dag = [ok |-> /\ \A x \in DOMAIN Unrolled(spec) : x \notin AfterCopy(Unrolled(spec), x)
                    /\ {<<EntryOf(spec), 0>>} \cup AfterCopy(Unrolled(spec), <<EntryOf(spec), 0>>)
                         = DOMAIN Unrolled(spec),
             succ |-> Unrolled(spec), entry |-> <<EntryOf(spec), 0>>]
  BY <1>1 DEF Compiled, Usual
<1>3. Acyclic(spec) /\ dag.succ = Unrolled(spec) /\ dag.entry = <<EntryOf(spec), 0>>
  BY <1>2 DEF Acyclic
<1>4. EntryOf(spec) \in NodesOf(spec)
  <2>1. Entries(spec) # {} /\ Entries(spec) \subseteq NodesOf(spec)
    <3>1. Entries(spec) = {} => Cardinality(Entries(spec)) = 0
      BY FS_EmptySet
    <3> QED BY <1>1, <3>1 DEF Entries
  <2> QED
    BY <2>1 DEF EntryOf
<1>5. <<EntryOf(spec), 0>> \in Copies(spec)
  BY <1>4, CopyFacts
<1> QED
  BY <1>3, <1>4, <1>5 DEF Compiling

\* enter, at a copy that the run came to.
LEMMA EnterFacts ==
    ASSUME NEW s, IsState(s), NEW x, ~Enter(s, x).error
    PROVE  LET y == FirstUnsatisfied(x, {})
               e == Enter(s, x)
           IN  /\ IsState(e) /\ e.current = y /\ e.status \in {s.status, "terminal"}
               /\ Kind(y) = "terminal" => e.status = "terminal"
               /\ e.attempts = s.attempts \/ e.attempts = [s.attempts EXCEPT ![y] = @ + 1]
<1> DEFINE y == FirstUnsatisfied(x, {})
           e == Enter(s, x)
           there == [s EXCEPT !.current = y]
           Made(status, attempts) == [current |-> y, status |-> status, error |-> s.error, attempts |-> attempts,
                                      assigned |-> s.assigned, supervised |-> s.supervised]
<1>1. e = IF Kind(y) = "terminal" THEN [there EXCEPT !.status = "terminal"]
          ELSE IF Kind(y) = "work" /\ ~HasAgent(s, y) THEN [there EXCEPT !.error = TRUE]
          ELSE IF Kind(y) \in {"work", "check"} THEN [there EXCEPT !.attempts[y] = @ + 1]
          ELSE there
  BY DEF Enter
<1>2. ~e.error
  OBVIOUS
<1>3. there = Made(s.status, s.attempts)
  BY DEF IsState
<1> HIDE DEF y, e, there
<1>4. /\ [there EXCEPT !.status = "terminal"] = Made("terminal", s.attempts)
      /\ [there EXCEPT !.error = TRUE].error = TRUE
      /\ [there EXCEPT !.attempts[y] = @ + 1] = Made(s.status, [s.attempts EXCEPT ![y] = @ + 1])
  BY <1>3
<1>5. \/ e = Made("terminal", s.attempts)
      \/ Kind(y) # "terminal" /\ e = Made(s.status, s.attempts)
      \/ Kind(y) # "terminal" /\ e = Made(s.status, [s.attempts EXCEPT ![y] = @ + 1])
  <2> HIDE DEF Made
  <2> QED BY <1>1, <1>2, <1>3, <1>4
<1>6. \A status, attempts :
        LET m == Made(status, attempts)
        IN  IsState(m) /\ m.current = y /\ m.status = status /\ m.attempts = attempts
  BY DEF IsState
<1>7. /\ IsState(e) /\ e.current = y /\ e.status \in {s.status, "terminal"}
      /\ Kind(y) = "terminal" => e.status = "terminal"
      /\ e.attempts = s.attempts \/ e.attempts = [s.attempts EXCEPT ![y] = @ + 1]
  <2> HIDE DEF Made
  <2> QED BY <1>5, <1>6
<1> QED
  BY <1>7 DEF y, e

\* A copy that is entered was not tried before.
LEMMA EntersUntried ==
    ASSUME Compiling, NEW attempts, NEW x, Tried(attempts, x), NEW y \in DOMAIN dag.succ,
           x \in DOMAIN dag.succ, y \in AfterCopy(Unrolled(spec), x)
    PROVE  Tried(attempts, y) /\ Tried([attempts EXCEPT ![y] = @ + 1], y)
<1> DEFINE A(z) == AfterCopy(Unrolled(spec), z)
<1>1. /\ dag.succ = Unrolled(spec) /\ spec.attempts \in Nat \ {0}
      /\ \A z \in DOMAIN dag.succ : z \notin A(z) /\ \A p \in A(z) : A(p) \subseteq A(z)
  <2>1. spec \in Usual /\ dag.succ = Unrolled(spec) /\ Acyclic(spec)
    BY DEF Compiling
  <2>2. \A z \in DOMAIN Unrolled(spec) : \A p \in A(z) : A(p) \subseteq A(z)
    BY <2>1, CopiesAfter
  <2>3. spec.attempts \in Nat \ {0}
    BY <2>1, WorkflowFacts
  <2> QED
    BY <2>1, <2>2, <2>3 DEF Acyclic
<1> HIDE DEF A
<1>2. /\ attempts \in [DOMAIN dag.succ -> Nat]
      /\ \A z \in DOMAIN dag.succ : attempts[z] <= spec.attempts /\ (attempts[z] > 0 => z = x \/ x \in A(z))
      /\ y \in A(x)
  BY DEF Tried, A
<1>3. \A z \in DOMAIN dag.succ : attempts[z] > 0 => y \in A(z)
  BY <1>1, <1>2
<1>4. attempts[y] = 0
  BY <1>1, <1>2, <1>3
<1>5. Tried(attempts, y)
  BY <1>2, <1>3 DEF Tried, A
<1> DEFINE more == [attempts EXCEPT ![y] = @ + 1]
<1>6. more \in [DOMAIN dag.succ -> Nat] /\ more[y] = 1 /\ \A z \in DOMAIN dag.succ : z # y => more[z] = attempts[z]
  BY <1>2, <1>4
<1> HIDE DEF more
<1>7. Tried(more, y)
  BY <1>1, <1>2, <1>3, <1>6 DEF Tried, A
<1> QED
  BY <1>5, <1>7 DEF more

\* A run that goes to y keeps the invariant.
LEMMA MovesKeep ==
    ASSUME WorkflowKept, st.status # "new", Compiling, dag.ok, UNCHANGED <<spec, dag>>, IsState(st'), st'.status # "new",
           NEW x, NEW y, st'.current = y, Arrives(x, y, walk', {}),
           Kind(y) = "terminal" => st'.status = "terminal", Tried(st'.attempts, y)
    PROVE  WorkflowKept'
<1>1. spec \in Usual /\ dag = Compiled(spec)
  BY DEF WorkflowKept
<1>2. Compiling' /\ dag'.ok
  BY DEF Compiling
<1>3. y \in DOMAIN dag.succ /\ (y \in Copies(spec) => Tracks(spec, y, walk'))
      /\ (y \in Overflows(spec) => (Reducible(spec) => walk'.back > spec.reroutes))
  BY DEF Arrives
<1>4. y \in Overflows(spec) => st'.status = "terminal"
  BY <1>1, CopyFacts DEF Kind
<1>5. Tried(st.attempts, st.current)'
  BY DEF Tried
<1> QED
  BY <1>1, <1>2, <1>3, <1>4, <1>5 DEF WorkflowKept

\* A running run is at a copy, whose edges are those of its node.
LEMMA RunningFacts ==
    ASSUME WorkflowKept, st.status = "running"
    PROVE  /\ Compiling /\ dag.ok /\ st.current \in Copies(spec) /\ st.current \in DOMAIN dag.succ
           /\ Tracks(spec, st.current, walk) /\ Tried(st.attempts, st.current)
           /\ DOMAIN dag.succ[st.current] = DOMAIN spec.edges[st.current[1]]
           /\ Kind(st.current) \in {"work", "select"} => 1 \in DOMAIN spec.edges[st.current[1]]
<1>1. /\ Compiling /\ dag.ok /\ st.current \in DOMAIN dag.succ /\ st.current \notin Overflows(spec)
      /\ st.current \in Copies(spec) => Tracks(spec, st.current, walk)
      /\ Tried(st.attempts, st.current)
  BY DEF WorkflowKept
<1>2. spec \in Usual /\ dag.succ = Unrolled(spec)
  BY <1>1 DEF Compiling
<1>3. st.current \in Copies(spec)
  <2>1. DOMAIN Unrolled(spec) = Copies(spec) \cup Overflows(spec)
    BY <1>2, UnrolledFacts
  <2> QED BY <1>1, <1>2, <2>1
<1>4. DOMAIN dag.succ[st.current] = DOMAIN spec.edges[st.current[1]]
  <2>1. DOMAIN Unrolled(spec)[st.current] = DOMAIN spec.edges[st.current[1]]
    BY <1>2, <1>3, UnrolledFacts
  <2> QED BY <1>2, <2>1
<1>5. Kind(st.current) \in {"work", "select"} => 1 \in DOMAIN spec.edges[st.current[1]]
  <2>1. st.current[1] \in NodesOf(spec)
    BY <1>2, <1>3, CopyFacts
  <2>2. Kind(st.current) \in {"work", "select"} => spec.kind[st.current[1]] \in {"work", "select"}
    BY DEF Kind
  <2> QED BY <1>2, <2>1, <2>2, WorkflowFacts
<1> QED
  BY <1>1, <1>3, <1>4, <1>5

LEMMA FollowsKeeps ==
    ASSUME WorkflowKept, st.status = "running", NEW s, IsState(s), s.status = "running", s.attempts = st.attempts,
           NEW i \in DOMAIN dag.succ[st.current], Follows(s, i)
    PROVE  WorkflowKept'
<1> DEFINE x == st.current
           z == dag.succ[x][i]
           y == FirstUnsatisfied(z, {})
           e == Enter(s, z)
<1>1. /\ Compiling /\ dag.ok /\ x \in DOMAIN dag.succ
      /\ Tracks(spec, x, walk) /\ Tried(st.attempts, x) /\ i \in DOMAIN spec.edges[x[1]]
  BY RunningFacts
<1>2. ~e.error /\ st' = e /\ walk' = Walked(walk, spec.edges[x[1]][i], {}) /\ UNCHANGED <<spec, dag>>
  BY DEF Follows, Becomes
<1>3. y \in AfterCopy(Unrolled(spec), x) /\ Arrives(z, y, walk', {})
  BY <1>1, <1>2, EdgeArrives
<1>4. /\ IsState(e) /\ e.current = y /\ e.status \in {s.status, "terminal"}
      /\ Kind(y) = "terminal" => e.status = "terminal"
      /\ e.attempts = s.attempts \/ e.attempts = [s.attempts EXCEPT ![y] = @ + 1]
  BY <1>2, EnterFacts
<1>5. y \in DOMAIN dag.succ
  BY <1>3 DEF Arrives
<1>6. Tried(st.attempts, y) /\ Tried([st.attempts EXCEPT ![y] = @ + 1], y)
  BY <1>1, <1>3, <1>5, EntersUntried
<1> HIDE DEF e, y, z
<1>7. Tried(e.attempts, y)
  BY <1>4, <1>6
<1>8. e.status # "new" /\ st.status # "new"
  BY <1>4
<1> QED
  BY <1>1, <1>2, <1>3, <1>4, <1>7, <1>8, MovesKeep

\* A walk that begins tracks a run that begins.
LEMMA WalkBegins ==
    ASSUME Compiling, NEW v, v.visits = [n \in NodesOf(spec) |-> 0], v.back = 0
    PROVE  Tracks(spec, <<EntryOf(spec), 0>>, Comes(v, EntryOf(spec)))
<1> DEFINE E == EntryOf(spec)
           x == <<E, 0>>
           u == Comes(v, E)
<1>1. spec \in Usual /\ E \in NodesOf(spec)
  BY DEF Compiling
<1>2. x \in Copies(spec) /\ x[1] = E /\ x[2] = 0
  BY <1>1, CopyFacts
<1>3. /\ u \in WalksOf(spec) /\ u.at = E
      /\ \A n \in NodesOf(spec) : u.visits[n] = IF n = E THEN v.visits[n] + 1 ELSE v.visits[n]
      /\ u.back = v.back + (IF v.visits[E] > 0 THEN 1 ELSE 0)
  <2>1. v.visits \in [NodesOf(spec) -> Nat] /\ v.back \in Nat
    OBVIOUS
  <2> QED
    BY <1>1, <2>1, ComesType
<1>4. u.back = 0 /\ \A n \in NodesOf(spec) : u.visits[n] = IF n = E THEN 1 ELSE 0
  BY <1>1, <1>3
<1>5. CameBy(spec, {x}, x)
  BY DEF CameBy
<1>6. ASSUME NEW n \in NodesOf(spec) PROVE u.visits[n] = Cardinality(CopiesOf({x}, n))
  <2>1. CopiesOf({x}, n) = IF n = E THEN {x} ELSE {}
    BY <1>2 DEF CopiesOf
  <2>2. Cardinality({x}) = 1 /\ Cardinality({}) = 0
    BY FS_Singleton, FS_EmptySet
  <2> QED
    BY <1>4, <2>1, <2>2
<1>7. ASSUME NEW t \in NodesOf(spec), u.visits[t] = 0
      PROVE  E \in Reachable({E} \ {t}, Around(spec, t))
  <2>1. t # E /\ {E} \ {t} \in SUBSET NodesOf(spec)
    BY <1>1, <1>4, <1>7
  <2>2. {E} \ {t} \subseteq Reachable({E} \ {t}, Around(spec, t))
    BY <1>1, <2>1, AroundGoesOn
  <2> QED
    BY <2>1, <2>2
<1>8. {x} \in SUBSET Copies(spec)
  BY <1>2
<1>9. u.at = x[1] /\ u.back >= x[2]
  BY <1>2, <1>3, <1>4
<1>10. \A t \in NodesOf(spec) : u.visits[t] = 0 => x[1] \in Reachable({EntryOf(spec)} \ {t}, Around(spec, t))
  BY <1>2, <1>7
<1> HIDE DEF u, x
<1>11. Tracks(spec, x, u)
  BY <1>2, <1>3, <1>5, <1>6, <1>8, <1>9, <1>10 DEF Tracks
<1> QED
  BY <1>11 DEF u, x

LEMMA NewRunKeeps ==
    ASSUME WorkflowKept, NEW seeded, NewRun(seeded)
    PROVE  WorkflowKept'
<1> DEFINE untried == [p \in DOMAIN dag.succ |-> 0]
           fresh == [[st EXCEPT !.status = "running"] EXCEPT !.attempts = untried]
           x == <<EntryOf(spec), 0>>
           y == FirstUnsatisfied(x, seeded)
           e == Enter(fresh, y)
<1>1. st.status = "new" /\ dag.ok /\ spec \in Usual /\ dag = Compiled(spec) /\ IsState(st)
      /\ walk.visits = [n \in NodesOf(spec) |-> 0] /\ walk.back = 0
  BY DEF NewRun, WorkflowKept
<1>2. Compiling /\ dag.entry = x /\ x \in Copies(spec)
  BY <1>1, CompiledFacts
<1>3. ~e.error /\ st' = e /\ walk' = Walked(walk, EntryOf(spec), seeded) /\ UNCHANGED <<spec, dag>>
  BY <1>2 DEF NewRun, Becomes
<1>4. IsState(fresh) /\ fresh.status = "running" /\ fresh.attempts = [p \in DOMAIN dag.succ |-> 0]
  <2>1. fresh = [current |-> st.current, status |-> "running", error |-> st.error,
                 attempts |-> untried, assigned |-> st.assigned, supervised |-> st.supervised]
    <3>1. fresh = [[st EXCEPT !.status = "running"] EXCEPT !.attempts = untried]
      OBVIOUS
    <3>2. IsState(st)
      BY <1>1
    <3> HIDE DEF untried, fresh
    <3> QED BY <3>1, <3>2, StateUpdates
  <2> HIDE DEF fresh
  <2> QED BY <2>1 DEF IsState
<1>5. Arrives(x, y, walk', seeded)
  <2>1. Tracks(spec, x, Comes(walk, EntryOf(spec)))
    BY <1>1, <1>2, WalkBegins
  <2>2. Arrives(x, y, WalkedFrom(Comes(walk, EntryOf(spec)), seeded), seeded)
    BY <1>2, <2>1, PassingTracked
  <2> QED
    BY <1>3, <2>2, WalkedIs
<1>6. y \in DOMAIN dag.succ /\ ~Passing(y, seeded)
  BY <1>5 DEF Arrives
<1>7. ~Passing(y, {}) /\ FirstUnsatisfied(y, {}) = y
  <2>1. ~Passing(y, {})
    BY <1>6 DEF Passing, Passes
  <2> QED
    BY <1>2, <1>6, <2>1, FirstIsRecursive
<1> HIDE DEF fresh, e, y
<1>8. /\ IsState(e) /\ e.current = y /\ e.status \in {"running", "terminal"}
      /\ Kind(y) = "terminal" => e.status = "terminal"
      /\ e.attempts = fresh.attempts \/ e.attempts = [fresh.attempts EXCEPT ![y] = @ + 1]
  <2>1. ~Enter(fresh, y).error
    BY <1>3 DEF e
  <2> QED
    BY <1>4, <1>7, <2>1, EnterFacts DEF e
<1>9. Tried(e.attempts, y)
  <2>1. spec.attempts \in Nat \ {0}
    BY <1>1, WorkflowFacts
  <2> QED
    BY <1>4, <1>6, <1>8, <2>1 DEF Tried
<1>10. Compiling' /\ dag'.ok /\ Tried(st.attempts, st.current)'
  BY <1>1, <1>2, <1>3, <1>8, <1>9 DEF Compiling, Tried
<1>11. /\ y \in Copies(spec) => Tracks(spec, y, walk')
       /\ y \in Overflows(spec) => (Reducible(spec) => walk'.back > spec.reroutes)
  BY <1>5 DEF Arrives
<1>12. y \in Overflows(spec) => e.status = "terminal"
  BY <1>1, <1>8, CopyFacts DEF Kind
<1> QED
  BY <1>1, <1>3, <1>6, <1>8, <1>10, <1>11, <1>12 DEF WorkflowKept

\* The run stays where it is: it ends, or tries once more.
LEMMA StaysKeeps ==
    ASSUME WorkflowKept, st.status = "running", UNCHANGED <<spec, dag, walk>>,
           \/ st' = Finishes(st, "failed")
           \/ st' = [st EXCEPT !.attempts[st.current] = @ + 1] /\ st.attempts[st.current] < spec.attempts
    PROVE  WorkflowKept'
<1>1. /\ Compiling /\ dag.ok /\ st.current \in Copies(spec) /\ st.current \in DOMAIN dag.succ
      /\ Tracks(spec, st.current, walk) /\ Tried(st.attempts, st.current)
  BY RunningFacts
<1>2. spec \in Usual /\ dag = Compiled(spec) /\ IsState(st)
  BY DEF WorkflowKept
<1>3. /\ IsState(st') /\ st'.current = st.current /\ st'.status \in {"running", "failed"}
      /\ \/ st'.attempts = st.attempts
         \/ /\ st'.attempts = [st.attempts EXCEPT ![st.current] = @ + 1]
            /\ st.attempts[st.current] < spec.attempts
  BY <1>2 DEF IsState, Finishes
<1>4. Tried(st'.attempts, st.current)
  <2>1. spec.attempts \in Nat
    BY <1>2, WorkflowFacts
  <2> QED
    BY <1>1, <1>3, <2>1 DEF Tried
<1>5. Compiling' /\ dag'.ok /\ Tried(st.attempts, st.current)'
  BY <1>1, <1>3, <1>4 DEF Compiling, Tried
<1>6. st.current \notin Overflows(spec)
  BY <1>1, <1>2, CopyFacts
<1> QED
  BY <1>1, <1>2, <1>3, <1>5, <1>6 DEF WorkflowKept

LEMMA WorkflowStep == WorkflowKept /\ [WorkflowNext]_workflowVars => WorkflowKept'
<1> SUFFICES ASSUME WorkflowKept, [WorkflowNext]_workflowVars PROVE WorkflowKept'
  OBVIOUS
<1>1. ASSUME NEW seeded \in Seeded, NewRun(seeded) PROVE WorkflowKept'
  BY <1>1, NewRunKeeps
<1>2. ASSUME st.status = "running", RetryOrFinish PROVE WorkflowKept'
  <2>1. spec.attempts \in Nat \ {0} /\ IsState(st) /\ Tried(st.attempts, st.current) /\ st.current \in DOMAIN dag.succ
    BY <1>2, WorkflowFacts, RunningFacts DEF WorkflowKept
  <2>2. CASE st.attempts[st.current] < LimitAt(st.current)
    <3>1. st.attempts[st.current] < spec.attempts
      BY <2>1, <2>2 DEF LimitAt, Tried
    <3>2. st' = [st EXCEPT !.attempts[st.current] = @ + 1] /\ UNCHANGED <<spec, dag, walk>>
      BY <1>2, <2>2 DEF RetryOrFinish, Becomes
    <3> QED
      BY <1>2, <3>1, <3>2, StaysKeeps
  <2>3. CASE ~(st.attempts[st.current] < LimitAt(st.current))
    <3>1. st' = Finishes(st, "failed") /\ UNCHANGED <<spec, dag, walk>>
      BY <1>2, <2>3 DEF RetryOrFinish, Becomes
    <3> QED
      BY <1>2, <3>1, StaysKeeps
  <2> QED
    BY <2>2, <2>3
<1>3. ASSUME st.status = "running", Becomes(Finishes(st, "failed"), walk) PROVE WorkflowKept'
  BY <1>3, StaysKeeps DEF Becomes
<1>4. ASSUME st.status = "running", NEW i \in DOMAIN dag.succ[st.current], Follows(st, i) PROVE WorkflowKept'
  <2>1. IsState(st)
    BY DEF WorkflowKept
  <2> QED
    BY <1>4, <2>1, FollowsKeeps
<1>5. ASSUME NEW done \in BOOLEAN, NEW costed \in BOOLEAN, WorkCompleted(done, costed) PROVE WorkflowKept'
  <2>1. st.status = "running" /\ Kind(st.current) = "work"
    BY <1>5 DEF WorkCompleted, At
  <2>2. 1 \in DOMAIN dag.succ[st.current]
    BY <2>1, RunningFacts
  <2>3. RetryOrFinish \/ Becomes(Finishes(st, "failed"), walk) \/ Follows(st, 1)
    BY <1>5 DEF WorkCompleted
  <2> QED
    BY <1>2, <1>3, <1>4, <2>1, <2>2, <2>3
<1>6. ASSUME NEW route, CommandCompleted(route) PROVE WorkflowKept'
  <2>1. st.status = "running" /\ (RetryOrFinish \/ (route \in DOMAIN dag.succ[st.current] /\ Follows(st, route)))
    BY <1>6 DEF CommandCompleted, At
  <2> QED
    BY <1>2, <1>4, <2>1
<1>7. ASSUME NEW route, Routed(route) PROVE WorkflowKept'
  BY <1>4, <1>7 DEF Routed, At
<1>8. ASSUME NEW decision, SelectDecided(decision) PROVE WorkflowKept'
  <2>1. st.status = "running" /\ Kind(st.current) = "select"
    BY <1>8 DEF SelectDecided, At
  <2>2. 1 \in DOMAIN dag.succ[st.current]
    BY <2>1, RunningFacts
  <2> DEFINE to == dag.succ[st.current][1]
             s == [[st EXCEPT !.assigned = @ \cup {to}]
                     EXCEPT !.supervised = IF decision = "gather" THEN @ \cup {to} ELSE @ \ {to}]
  <2>3. Follows(s, 1)
    BY <1>8 DEF SelectDecided
  <2>4. IsState(s) /\ s.status = "running" /\ s.attempts = st.attempts
    <3>1. IsState(st)
      BY DEF WorkflowKept
    <3>2. s = [current |-> st.current, status |-> st.status, error |-> st.error, attempts |-> st.attempts,
               assigned |-> st.assigned \cup {to},
               supervised |-> IF decision = "gather" THEN st.supervised \cup {to} ELSE st.supervised \ {to}]
      <4>1. s = [[st EXCEPT !.assigned = st.assigned \cup {to}]
                   EXCEPT !.supervised = IF decision = "gather" THEN st.supervised \cup {to} ELSE st.supervised \ {to}]
        BY <3>1 DEF IsState
      <4> HIDE DEF s
      <4> QED BY <3>1, <4>1, StateUpdates
    <3> HIDE DEF s
    <3> QED BY <2>1, <3>2 DEF IsState
  <2> HIDE DEF s
  <2> QED
    BY <2>1, <2>2, <2>3, <2>4, FollowsKeeps
<1>9. ASSUME BudgetExceeded PROVE WorkflowKept'
  BY <1>3, <1>9 DEF BudgetExceeded
<1>10. ASSUME UNCHANGED workflowVars PROVE WorkflowKept'
  BY <1>10 DEF workflowVars, WorkflowKept, Compiling, Tried
<1> QED
  BY <1>1, <1>5, <1>6, <1>7, <1>8, <1>9, <1>10 DEF WorkflowNext

\* What is kept says where a run is.
LEMMA KeptFollows == WorkflowKept /\ st.status # "new" => OnTheWay /\ CutOffLate
<1> SUFFICES ASSUME WorkflowKept, st.status # "new" PROVE OnTheWay /\ CutOffLate
  OBVIOUS
<1>1. /\ Compiling /\ st.current \in DOMAIN dag.succ /\ Tried(st.attempts, st.current)
      /\ st.current \in Copies(spec) => Tracks(spec, st.current, walk)
      /\ st.current \in Overflows(spec) => (Reducible(spec) => walk.back > spec.reroutes)
  BY DEF WorkflowKept
<1>2. spec \in Usual /\ dag.succ = Unrolled(spec)
  BY <1>1 DEF Compiling
<1>3. DOMAIN dag.succ = Copies(spec) \cup Overflows(spec)
  BY <1>2, UnrolledFacts
<1>4. CASE st.current \in Copies(spec)
  <2>1. st.current[2] # -1 /\ st.current[1] = walk.at
    <3>1. st.current[2] \in 0 .. spec.reroutes /\ spec.reroutes \in Nat
      BY <1>2, <1>4, CopyFacts, WorkflowFacts
    <3> QED BY <1>1, <1>4, <3>1 DEF Tracks
  <2>2. ASSUME NEW n \in NodesOf(spec) PROVE walk.visits[n] <= spec.reroutes + 1
    <3>1. PICK V \in SUBSET Copies(spec) : walk.visits[n] = Cardinality(CopiesOf(V, n))
      BY <1>1, <1>4 DEF Tracks
    <3> QED
      BY <1>2, <3>1, VisitsBounded
  <2>3. \A x \in DOMAIN dag.succ : st.attempts[x] <= spec.attempts
    BY <1>1 DEF Tried
  <2> QED
    BY <2>1, <2>2, <2>3 DEF OnTheWay, CutOffLate
<1>5. CASE st.current \in Overflows(spec)
  BY <1>1, <1>2, <1>5, CopyFacts DEF OnTheWay, CutOffLate
<1> QED
  BY <1>1, <1>3, <1>4, <1>5

-----------------------------------------------------------------------------
(***************************************************************************)
(* The search of a loop, and which edges it takes for edges back.          *)
(***************************************************************************)
TopOf(s) == s.open[Len(s.open)]

\* One step of it, by what it meets.
SearchStep(w, loop, s, z) ==
    LET n == TopOf(s)
        i == s.at[n]
        t == w.edges[n][i]
    IN  \/ i > Len(w.edges[n]) /\ z.open = SubSeq(s.open, 1, Len(s.open) - 1) /\ z.at = s.at /\ z.back = s.back
        \/ /\ ~(i > Len(w.edges[n]))
           /\ \/ /\ t \notin loop \/ s.at[t] # 0
                 /\ t \in loop => \A k \in DOMAIN s.open : s.open[k] # t
                 /\ z.open = s.open /\ z.at = [s.at EXCEPT ![n] = i + 1] /\ z.back = s.back
              \/ /\ t \in loop /\ \E k \in DOMAIN s.open : s.open[k] = t
                 /\ z.open = s.open /\ z.at = [s.at EXCEPT ![n] = i + 1] /\ z.back = s.back \cup {<<n, i>>}
              \/ /\ t \in loop /\ s.at[t] = 0 /\ \A k \in DOMAIN s.open : s.open[k] # t
                 /\ z.open = Append(s.open, t)
                 /\ z.at = [[s.at EXCEPT ![n] = i + 1] EXCEPT ![t] = 1] /\ z.back = s.back

LEMMA SearchedCases ==
    ASSUME NEW w, NEW loop, NEW s
    PROVE  LET z == Searched(w, loop, s) IN SearchStep(w, loop, s, z) /\ z = SearchAt(z.open, z.at, z.back)
<1> DEFINE n == TopOf(s)
           i == s.at[n]
           t == w.edges[n][i]
           z == Searched(w, loop, s)
           on == [s.at EXCEPT ![n] = i + 1]
           popped == SubSeq(s.open, 1, Len(s.open) - 1)
           pushed == Append(s.open, t)
<1>1. z = IF i > Len(w.edges[n]) THEN SearchAt(popped, s.at, s.back)
          ELSE IF t \notin loop THEN SearchAt(s.open, on, s.back)
          ELSE IF \E k \in DOMAIN s.open : s.open[k] = t THEN SearchAt(s.open, on, s.back \cup {<<n, i>>})
          ELSE IF s.at[t] = 0 THEN SearchAt(pushed, [on EXCEPT ![t] = 1], s.back)
          ELSE SearchAt(s.open, on, s.back)
  BY DEF Searched, TopOf
<1>2. \A p, q, r : LET m == SearchAt(p, q, r)
                   IN  m.open = p /\ m.at = q /\ m.back = r /\ m = SearchAt(m.open, m.at, m.back)
  BY DEF SearchAt
<1> HIDE DEF z, n, i, t, on, popped, pushed
<1>3. /\ z = SearchAt(z.open, z.at, z.back)
      /\ \/ i > Len(w.edges[n]) /\ z.open = popped /\ z.at = s.at /\ z.back = s.back
         \/ /\ ~(i > Len(w.edges[n]))
            /\ \/ /\ t \notin loop \/ s.at[t] # 0
                  /\ t \in loop => \A k \in DOMAIN s.open : s.open[k] # t
                  /\ z.open = s.open /\ z.at = on /\ z.back = s.back
               \/ /\ t \in loop /\ \E k \in DOMAIN s.open : s.open[k] = t
                  /\ z.open = s.open /\ z.at = on /\ z.back = s.back \cup {<<n, i>>}
               \/ /\ t \in loop /\ s.at[t] = 0 /\ \A k \in DOMAIN s.open : s.open[k] # t
                  /\ z.open = pushed
                  /\ z.at = [on EXCEPT ![t] = 1] /\ z.back = s.back
  <2>1. CASE i > Len(w.edges[n])
    BY <1>1, <1>2, <2>1
  <2>2. CASE ~(i > Len(w.edges[n])) /\ t \notin loop
    BY <1>1, <1>2, <2>2
  <2>3. CASE ~(i > Len(w.edges[n])) /\ t \in loop /\ \E k \in DOMAIN s.open : s.open[k] = t
    BY <1>1, <1>2, <2>3
  <2>4. CASE ~(i > Len(w.edges[n])) /\ t \in loop /\ s.at[t] = 0 /\ \A k \in DOMAIN s.open : s.open[k] # t
    BY <1>1, <1>2, <2>4
  <2>5. CASE ~(i > Len(w.edges[n])) /\ t \in loop /\ s.at[t] # 0 /\ \A k \in DOMAIN s.open : s.open[k] # t
    BY <1>1, <1>2, <2>5
  <2> QED
    BY <2>1, <2>2, <2>3, <2>4, <2>5
<1> QED
  BY <1>3 DEF SearchStep, z, n, i, t, on, popped, pushed

\* The edges of a loop; of these the search has met some.  Nodes it has left are done.
InnerEdges(w, loop) == {e \in loop \X Nat : e[2] \in DOMAIN w.edges[e[1]] /\ w.edges[e[1]][e[2]] \in loop}
To(w, e) == w.edges[e[1]][e[2]]
Met(w, loop, s) == {e \in InnerEdges(w, loop) : e[2] < s.at[e[1]]}
IsOpen(s, n) == \E k \in DOMAIN s.open : s.open[k] = n
SeenNodes(loop, s) == {n \in loop : s.at[n] # 0}
DoneNodes(loop, s) == {n \in loop : s.at[n] # 0 /\ ~IsOpen(s, n)}
Above(s, m, n) == \E j, k \in DOMAIN s.open : j < k /\ s.open[j] = m /\ s.open[k] = n

\* What is known of edges among the nodes C: without those that go back, one of the nodes has
\* none into C.
WithoutCycle(w, C, edges, back) == \E m \in C : \A e \in edges : e[1] = m /\ To(w, e) \in C => e \in back
Carries(w, R, edges) == \A e \in edges : e[1] \in R => To(w, e) \in R

SearchKept(w, loop, s) ==
    /\ s \in SearchStates(loop)
    /\ \A j, k \in DOMAIN s.open : s.open[j] = s.open[k] => j = k
    /\ \A k \in DOMAIN s.open : s.at[s.open[k]] # 0
    /\ \A n \in DoneNodes(loop, s) : s.at[n] > Len(w.edges[n])
    /\ s.back \subseteq Met(w, loop, s)
    /\ \A e \in Met(w, loop, s) \ s.back : To(w, e) \in DoneNodes(loop, s) \/ Above(s, e[1], To(w, e))
    /\ \A e \in s.back : s.at[To(w, e)] # 0
    /\ \A C \in SUBSET DoneNodes(loop, s) : C # {} => WithoutCycle(w, C, Met(w, loop, s), s.back)
    /\ s.open # <<>> => s.open[1] = HeaderOf(w, loop)
    /\ s.at[HeaderOf(w, loop)] # 0
    /\ \A e \in Met(w, loop, s) : To(w, e) = HeaderOf(w, loop) => e \in s.back
    /\ \A R \in SUBSET loop :
          HeaderOf(w, loop) \in R /\ Carries(w, R, Met(w, loop, s) \ s.back) => SeenNodes(loop, s) \subseteq R

\* What is left of a search: edges to come to, and nodes to leave.
Ahead(w, loop, s) ==
    {e \in loop \X Nat : e[2] \in DOMAIN w.edges[e[1]] /\ s.at[e[1]] <= e[2]}
      \cup {e \in loop \X {0} : s.at[e[1]] = 0 \/ IsOpen(s, e[1])}

Loops(w) == {loop \in SUBSET NodesOf(w) : loop # {}}

\* A sequence without its last element.
LEMMA AllButLast ==
    ASSUME NEW S, NEW q \in Seq(S), q # <<>>
    PROVE  LET p == SubSeq(q, 1, Len(q) - 1)
           IN  p \in Seq(S) /\ DOMAIN p = 1 .. Len(q) - 1 /\ \A k \in 1 .. Len(q) - 1 : p[k] = q[k]
<1> DEFINE L == Len(q)
           p == SubSeq(q, 1, L - 1)
<1>1. L \in Nat /\ L > 0 /\ DOMAIN q = 1 .. L /\ \A k \in 1 .. L : q[k] \in S
  OBVIOUS
<1>2. Len(p) = L - 1 /\ DOMAIN p = 1 .. L - 1 /\ p \in Seq(S)
  BY <1>1
<1>3. \A k \in 1 .. L - 1 : p[k] = q[k]
  <2>1. SUFFICES ASSUME NEW k \in 1 .. L - 1 PROVE p[k] = q[k]
    OBVIOUS
  <2>2. k \in 1 .. Len(p) /\ k + 1 - 1 = k /\ p[k] = q[1 + k - 1]
    BY <1>1, <1>2
  <2> QED BY <1>1, <2>2
<1> QED BY <1>2, <1>3

LEMMA SearchPops ==
    ASSUME NEW w \in Usual, NEW loop \in Loops(w), NEW s, SearchKept(w, loop, s), s.open # <<>>,
           NEW z, TopOf(s) \in loop, s.at[TopOf(s)] > Len(w.edges[TopOf(s)]),
           z = SearchAt(SubSeq(s.open, 1, Len(s.open) - 1), s.at, s.back)
    PROVE  /\ SearchKept(w, loop, z)
           /\ Ahead(w, loop, z) \subseteq Ahead(w, loop, s) /\ Ahead(w, loop, z) # Ahead(w, loop, s)
<1> DEFINE n == TopOf(s)
           h == HeaderOf(w, loop)
           L == Len(s.open)
<1>0. z.open = SubSeq(s.open, 1, Len(s.open) - 1) /\ z.at = s.at /\ z.back = s.back
  BY DEF SearchAt
<1>1. s.open \in Seq(loop) /\ L \in Nat /\ L > 0 /\ DOMAIN s.open = 1 .. L /\ s.at \in [loop -> Nat]
      /\ s.back \in SUBSET (loop \X Nat)
  BY DEF SearchKept, SearchStates
<1>2. z.open \in Seq(loop) /\ DOMAIN z.open = 1 .. L - 1 /\ \A k \in 1 .. L - 1 : z.open[k] = s.open[k]
  <2>1. \A q \in Seq(loop) : q # <<>> =>
          LET p == SubSeq(q, 1, Len(q) - 1)
          IN  p \in Seq(loop) /\ DOMAIN p = 1 .. Len(q) - 1 /\ \A k \in 1 .. Len(q) - 1 : p[k] = q[k]
    BY AllButLast
  <2>2. s.open \in Seq(loop) /\ s.open # <<>>
    BY <1>1
  <2> DEFINE q == s.open
             p == SubSeq(q, 1, Len(q) - 1)
  <2>3. p \in Seq(loop) /\ DOMAIN p = 1 .. Len(q) - 1 /\ \A k \in 1 .. Len(q) - 1 : p[k] = q[k]
    <3> HIDE DEF q
    <3> QED BY <2>1, <2>2 DEF q
  <2>4. z.open = p
    BY <1>0
  <2> HIDE DEF p
  <2> QED
    BY <2>3, <2>4
<1>3. z \in SearchStates(loop)
  BY <1>0, <1>1, <1>2 DEF SearchStates, SearchAt
<1>4. \A m : IsOpen(z, m) <=> IsOpen(s, m) /\ m # n
  <2>1. n = s.open[L] /\ L \in DOMAIN s.open
    BY <1>1 DEF TopOf
  <2>2. \A k \in 1 .. L : s.open[k] = n <=> k = L
    BY <1>1, <2>1 DEF SearchKept
  <2> HIDE DEF n, L
  <2>3. \A k : k \in 1 .. L - 1 <=> k \in 1 .. L /\ k # L
    BY <1>1
  <2>4. \A m : IsOpen(z, m) <=> \E k \in 1 .. L - 1 : s.open[k] = m
    BY <1>2 DEF IsOpen
  <2>5. \A m : IsOpen(s, m) <=> \E k \in 1 .. L : s.open[k] = m
    BY <1>1 DEF IsOpen
  <2> QED
    BY <2>2, <2>3, <2>4, <2>5
<1>5. IsOpen(s, n) /\ s.at[n] # 0
  <2>1. n = s.open[L] /\ L \in DOMAIN s.open
    BY <1>1 DEF TopOf
  <2> QED
    BY <2>1 DEF IsOpen, SearchKept
<1>6. Met(w, loop, z) = Met(w, loop, s) /\ SeenNodes(loop, z) = SeenNodes(loop, s)
      /\ DoneNodes(loop, z) = DoneNodes(loop, s) \cup {n}
  BY <1>0, <1>4, <1>5 DEF Met, SeenNodes, DoneNodes
<1> HIDE DEF n, h, L
<1>7. \A m \in DoneNodes(loop, z) : z.at[m] > Len(w.edges[m])
  BY <1>0, <1>6 DEF SearchKept, n
<1>8. ASSUME NEW e \in Met(w, loop, s) \ s.back
      PROVE  To(w, e) \in DoneNodes(loop, z) \/ Above(z, e[1], To(w, e))
  <2>1. To(w, e) \in DoneNodes(loop, s) \/ Above(s, e[1], To(w, e))
    BY DEF SearchKept
  <2>2. ASSUME NEW j \in DOMAIN s.open, NEW k \in DOMAIN s.open, j < k, s.open[j] = e[1], s.open[k] = To(w, e)
        PROVE  To(w, e) = n \/ Above(z, e[1], To(w, e))
    <3>1. CASE k = L
      BY <2>2, <3>1 DEF n, TopOf, L
    <3>2. CASE k # L
      <4>1. j \in 1 .. L - 1 /\ k \in 1 .. L - 1
        BY <1>1, <2>2, <3>2
      <4> QED
        BY <1>2, <2>2, <4>1 DEF Above
    <3> QED
      BY <3>1, <3>2
  <2> QED
    BY <1>6, <2>1, <2>2 DEF Above
<1>9. ASSUME NEW C \in SUBSET DoneNodes(loop, z), C # {}
      PROVE  WithoutCycle(w, C, Met(w, loop, s), s.back)
  <2>1. ASSUME NEW e \in Met(w, loop, s), To(w, e) = n, e[1] \in DoneNodes(loop, s) \cup {n} PROVE e \in s.back
    <3>1. SUFFICES ASSUME e \notin s.back PROVE FALSE
      OBVIOUS
    <3>2. To(w, e) \notin DoneNodes(loop, s)
      BY <1>5, <2>1 DEF DoneNodes
    <3>3. PICK j \in DOMAIN s.open, k \in DOMAIN s.open : j < k /\ s.open[j] = e[1] /\ s.open[k] = n
      BY <2>1, <3>1, <3>2 DEF SearchKept, Above
    <3>4. IsOpen(s, e[1])
      BY <3>3 DEF IsOpen
    <3>5. e[1] = n
      BY <2>1, <3>4 DEF DoneNodes
    <3>6. j = k
      BY <3>3, <3>5 DEF SearchKept
    <3> QED
      BY <1>1, <3>3, <3>6
  <2>2. CASE C = {n}
    BY <2>1, <2>2 DEF WithoutCycle
  <2>3. CASE C # {n}
    <3>1. C \ {n} \in SUBSET DoneNodes(loop, s) /\ C \ {n} # {}
      BY <1>6, <1>9, <2>3
    <3>2. WithoutCycle(w, C \ {n}, Met(w, loop, s), s.back)
      BY <3>1 DEF SearchKept
    <3> QED
      BY <2>1, <3>1, <3>2 DEF WithoutCycle
  <2> QED
    BY <2>2, <2>3
<1>10. z.open # <<>> => z.open[1] = h
  <2>1. z.open # <<>> => 1 \in 1 .. L - 1
    BY <1>1, <1>2
  <2> QED
    BY <1>2, <2>1 DEF SearchKept, h
<1>11. SearchKept(w, loop, z)
  <2>1. /\ \A j, k \in DOMAIN z.open : z.open[j] = z.open[k] => j = k
        /\ \A k \in DOMAIN z.open : z.at[z.open[k]] # 0
    <3>1. \A k \in 1 .. L - 1 : k \in 1 .. L
      BY <1>1
    <3>2. \A k \in DOMAIN z.open : k \in DOMAIN s.open /\ z.open[k] = s.open[k]
      BY <1>1, <1>2, <3>1
    <3> QED BY <1>0, <3>2 DEF SearchKept
  <2>2. /\ z.back \subseteq Met(w, loop, z)
        /\ \A e \in z.back : z.at[To(w, e)] # 0
        /\ z.at[h] # 0
        /\ \A e \in Met(w, loop, z) : To(w, e) = h => e \in z.back
        /\ \A R \in SUBSET loop :
              h \in R /\ Carries(w, R, Met(w, loop, z) \ z.back) => SeenNodes(loop, z) \subseteq R
    BY <1>0, <1>6 DEF SearchKept, h
  <2> QED
    BY <1>0, <1>3, <1>6, <1>7, <1>8, <1>9, <1>10, <2>1, <2>2 DEF SearchKept, h
<1>12. Ahead(w, loop, z) \subseteq Ahead(w, loop, s)
  BY <1>0, <1>4 DEF Ahead
<1>13. <<n, 0>> \in Ahead(w, loop, s) /\ <<n, 0>> \notin Ahead(w, loop, z)
  <2>1. n \in loop /\ DOMAIN w.edges[n] = 1 .. Len(w.edges[n])
    BY WorkflowFacts DEF n, Loops
  <2>2. <<n, 0>> \in loop \X {0} /\ <<n, 0>>[1] = n /\ <<n, 0>>[2] = 0 /\ 0 \notin DOMAIN w.edges[n]
    BY <2>1
  <2> QED
    BY <1>0, <1>4, <1>5, <2>2 DEF Ahead
<1> QED
  BY <1>11, <1>12, <1>13

\* The search of n meets its i-th edge, to t.
EdgeMet(loop, s, n, i, t, z) ==
    \/ /\ t \notin loop \/ s.at[t] # 0
       /\ t \in loop => ~IsOpen(s, t)
       /\ z.open = s.open /\ z.at = [s.at EXCEPT ![n] = i + 1] /\ z.back = s.back
    \/ /\ t \in loop /\ IsOpen(s, t)
       /\ z.open = s.open /\ z.at = [s.at EXCEPT ![n] = i + 1] /\ z.back = s.back \cup {<<n, i>>}
    \/ /\ t \in loop /\ s.at[t] = 0 /\ ~IsOpen(s, t)
       /\ z.open = Append(s.open, t)
       /\ z.at = [[s.at EXCEPT ![n] = i + 1] EXCEPT ![t] = 1] /\ z.back = s.back

\* What an edge met adds.
LEMMA SearchMeets ==
    ASSUME NEW w \in Usual, NEW loop \in Loops(w), NEW s, SearchKept(w, loop, s), s.open # <<>>,
           NEW i, i = s.at[TopOf(s)], ~(i > Len(w.edges[TopOf(s)])),
           NEW t, t = w.edges[TopOf(s)][i],
           NEW z, z = SearchAt(z.open, z.at, z.back),
           EdgeMet(loop, s, TopOf(s), i, t, z)
    PROVE  /\ SearchKept(w, loop, z)
           /\ Ahead(w, loop, z) \subseteq Ahead(w, loop, s) /\ Ahead(w, loop, z) # Ahead(w, loop, s)
<1> DEFINE n == TopOf(s)
           h == HeaderOf(w, loop)
           L == Len(s.open)
           e == <<n, i>>
           Skips == (t \in loop => t \in DoneNodes(loop, s)) /\ z.open = s.open /\ z.back = s.back
                    /\ \A m \in loop : z.at[m] = IF m = n THEN i + 1 ELSE s.at[m]
           Backs == t \in loop /\ IsOpen(s, t) /\ z.open = s.open /\ z.back = s.back \cup {e}
                    /\ \A m \in loop : z.at[m] = IF m = n THEN i + 1 ELSE s.at[m]
           Opens == t \in loop /\ s.at[t] = 0 /\ z.open = Append(s.open, t) /\ z.back = s.back
                    /\ \A m \in loop : z.at[m] = IF m = n THEN i + 1 ELSE IF m = t THEN 1 ELSE s.at[m]
<1>1. /\ s.open \in Seq(loop) /\ L \in Nat /\ L > 0 /\ DOMAIN s.open = 1 .. L /\ s.at \in [loop -> Nat]
      /\ s.back \in SUBSET (loop \X Nat)
  BY DEF SearchKept, SearchStates
<1> HIDE DEF Skips, Backs, Opens, L
<1>2. n = s.open[L] /\ L \in DOMAIN s.open /\ n \in loop /\ IsOpen(s, n) /\ s.at[n] # 0
  <2>1. n = s.open[L] /\ L \in DOMAIN s.open
    <3>1. n = s.open[L]
      BY DEF TopOf, L
    <3>2. L \in 1 .. L
      BY <1>1
    <3> QED BY <1>1, <3>1, <3>2
  <2> HIDE DEF n
  <2>2. n \in loop /\ IsOpen(s, n)
    BY <1>1, <2>1 DEF IsOpen
  <2>3. s.at[n] # 0
    BY <2>1 DEF SearchKept
  <2> QED
    BY <2>1, <2>2, <2>3
<1>3. /\ i \in DOMAIN w.edges[n] /\ i \in Nat /\ i > 0 /\ e \in loop \X Nat /\ n \in NodesOf(w)
      /\ i = s.at[n] /\ t = w.edges[n][i]
  <2>1. n \in NodesOf(w) /\ DOMAIN w.edges[n] = 1 .. Len(w.edges[n]) /\ Len(w.edges[n]) \in Nat
    BY <1>2, WorkflowFacts DEF Loops
  <2>2. i \in Nat /\ i # 0
    BY <1>1, <1>2
  <2>3. i = s.at[n] /\ ~(i > Len(w.edges[n]))
    OBVIOUS
  <2> HIDE DEF n
  <2>4. i \in DOMAIN w.edges[n] /\ i > 0
    BY <2>1, <2>2, <2>3
  <2> QED
    BY <1>2, <2>1, <2>2, <2>3, <2>4 DEF n
<1>4. e[1] = n /\ e[2] = i /\ e = <<n, i>> /\ To(w, e) = t
  BY DEF To
<1> HIDE DEF n, e, h
<1>5. z.at \in [loop -> Nat] /\ (Skips \/ Backs \/ Opens)
  <2>1. EdgeMet(loop, s, n, i, t, z)
    BY DEF n
  <2> DEFINE on == [s.at EXCEPT ![n] = i + 1]
  <2>5. on \in [loop -> Nat] /\ \A m \in loop : on[m] = IF m = n THEN i + 1 ELSE s.at[m]
    <3> DEFINE at == s.at
    <3>1. at \in [loop -> Nat] /\ n \in loop /\ i + 1 \in Nat
      <4>1. i \in Nat => i + 1 \in Nat
        OBVIOUS
      <4> QED BY <1>1, <1>2, <1>3, <4>1
    <3> HIDE DEF at
    <3>2. [at EXCEPT ![n] = i + 1] \in [loop -> Nat]
          /\ \A m \in loop : [at EXCEPT ![n] = i + 1][m] = IF m = n THEN i + 1 ELSE at[m]
      BY <3>1
    <3> QED BY <3>2 DEF at
  <2>6. t \in loop /\ t # n => [on EXCEPT ![t] = 1] \in [loop -> Nat]
          /\ \A m \in loop : [on EXCEPT ![t] = 1][m] = IF m = n THEN i + 1 ELSE IF m = t THEN 1 ELSE s.at[m]
    <3> HIDE DEF on
    <3>1. SUFFICES ASSUME t \in loop, t # n
                   PROVE  [on EXCEPT ![t] = 1] \in [loop -> Nat]
          /\ \A m \in loop : [on EXCEPT ![t] = 1][m] = IF m = n THEN i + 1 ELSE IF m = t THEN 1 ELSE s.at[m]
      OBVIOUS
    <3>2. \A m \in loop : [on EXCEPT ![t] = 1][m] = IF m = t THEN 1 ELSE on[m]
      BY <2>5
    <3>3. [on EXCEPT ![t] = 1] \in [loop -> Nat]
      BY <2>5
    <3> QED BY <2>5, <3>1, <3>2, <3>3
  <2>2. CASE /\ t \notin loop \/ s.at[t] # 0
             /\ t \in loop => ~IsOpen(s, t)
             /\ z.open = s.open /\ z.at = [s.at EXCEPT ![n] = i + 1] /\ z.back = s.back
    <3>1. z.at \in [loop -> Nat] /\ \A m \in loop : z.at[m] = IF m = n THEN i + 1 ELSE s.at[m]
      BY <2>2, <2>5
    <3> QED BY <2>2, <3>1 DEF DoneNodes, Skips
  <2>3. CASE /\ t \in loop /\ IsOpen(s, t)
             /\ z.open = s.open /\ z.at = [s.at EXCEPT ![n] = i + 1] /\ z.back = s.back \cup {<<n, i>>}
    <3>1. z.at \in [loop -> Nat] /\ \A m \in loop : z.at[m] = IF m = n THEN i + 1 ELSE s.at[m]
      BY <2>3, <2>5
    <3> QED BY <2>3, <3>1 DEF Backs, e
  <2>4. CASE /\ t \in loop /\ s.at[t] = 0 /\ ~IsOpen(s, t)
             /\ z.open = Append(s.open, t)
             /\ z.at = [[s.at EXCEPT ![n] = i + 1] EXCEPT ![t] = 1] /\ z.back = s.back
    <3>1. z.at \in [loop -> Nat]
          /\ \A m \in loop : z.at[m] = IF m = n THEN i + 1 ELSE IF m = t THEN 1 ELSE s.at[m]
      <4>1. t # n
        BY <1>2, <2>4
      <4> QED BY <2>4, <2>6, <4>1
    <3> QED BY <2>4, <3>1 DEF Opens
  <2> QED
    BY <2>1, <2>2, <2>3, <2>4 DEF EdgeMet
<1>51. /\ Skips => (t \in loop => t \in DoneNodes(loop, s)) /\ z.open = s.open /\ z.back = s.back
       /\ Backs => t \in loop /\ IsOpen(s, t) /\ z.open = s.open /\ z.back = s.back \cup {e}
       /\ Opens => z.open = Append(s.open, t) /\ z.back = s.back
  BY DEF Skips, Backs, Opens
<1>52. \A m \in loop : z.at[m] = IF m = n THEN i + 1 ELSE IF Opens /\ m = t THEN 1 ELSE s.at[m]
  <2>1. CASE Skips \/ Backs
    <3>1. \A m \in loop : z.at[m] = IF m = n THEN i + 1 ELSE s.at[m]
      BY <2>1 DEF Skips, Backs
    <3>2. \A m \in loop : Opens /\ m = t => s.at[m] = 0
      BY DEF Opens
    <3>3. Opens => FALSE
      <4>1. Opens => t \in loop /\ s.at[t] = 0 /\ Len(z.open) = L + 1 /\ z.open = Append(s.open, t)
        BY <1>1 DEF Opens, L
      <4>2. z.open = s.open
        BY <2>1 DEF Skips, Backs
      <4> QED BY <1>1, <4>1, <4>2 DEF L
    <3> QED BY <3>1, <3>3
  <2>2. CASE Opens
    BY <2>2 DEF Opens
  <2> QED BY <1>5, <2>1, <2>2
<1>6. Opens => t \in loop /\ t # n /\ ~IsOpen(s, t) /\ t # h /\ s.at[t] = 0
  <2>1. Opens => t \in loop /\ s.at[t] = 0
    BY DEF Opens
  <2>2. s.at[n] # 0 /\ s.at[h] # 0 /\ \A m : IsOpen(s, m) => s.at[m] # 0
    BY <1>2 DEF SearchKept, IsOpen, h
  <2> QED BY <2>1, <2>2
<1>7. Met(w, loop, z) = Met(w, loop, s) \cup (IF t \in loop THEN {e} ELSE {}) /\ e \notin Met(w, loop, s)
  <2>1. \A f \in InnerEdges(w, loop) : f[1] \in loop /\ f[2] \in Nat /\ f = <<f[1], f[2]>> /\ f[2] > 0
    <3> TAKE f \in InnerEdges(w, loop)
    <3>1. f[1] \in NodesOf(w) /\ f[1] \in loop /\ f[2] \in DOMAIN w.edges[f[1]] /\ f = <<f[1], f[2]>>
      BY DEF InnerEdges, Loops
    <3> QED BY <3>1, WorkflowFacts
  <2>2. e \in InnerEdges(w, loop) <=> t \in loop
    BY <1>3, <1>4 DEF InnerEdges
  <2>3. \A f \in InnerEdges(w, loop) : f[2] < z.at[f[1]] <=> f[2] < s.at[f[1]] \/ f = e
    <3> TAKE f \in InnerEdges(w, loop)
    <3>1. f[1] \in loop /\ f[2] \in Nat /\ f = <<f[1], f[2]>> /\ f[2] > 0 /\ s.at[f[1]] \in Nat
      BY <1>1, <2>1
    <3>2. CASE f[1] = n
      <4>1. z.at[f[1]] = i + 1 /\ s.at[f[1]] = i
        BY <1>2, <1>3, <1>52, <3>2, <3>1
      <4>2. f = e <=> f[2] = i
        BY <1>4, <3>1, <3>2
      <4> QED
        BY <1>3, <3>1, <4>1, <4>2
    <3>3. CASE f[1] # n
      <4>1. f # e
        BY <1>4, <3>3
      <4>2. z.at[f[1]] = s.at[f[1]] \/ (z.at[f[1]] = 1 /\ s.at[f[1]] = 0)
        BY <1>6, <1>52, <3>1, <3>3
      <4> QED
        BY <3>1, <4>1, <4>2
    <3> QED
      BY <3>2, <3>3
  <2>4. ~(e[2] < s.at[e[1]])
    BY <1>3, <1>4
  <2> HIDE DEF e
  <2> QED
    BY <2>2, <2>3, <2>4 DEF Met
<1>8. /\ SeenNodes(loop, z) = SeenNodes(loop, s) \cup (IF Opens THEN {t} ELSE {})
      /\ \A m \in loop : s.at[m] # 0 => z.at[m] # 0
  <2>1. \A m \in loop : z.at[m] # 0 <=> s.at[m] # 0 \/ (Opens /\ m = t)
    <3> TAKE m \in loop
    <3>1. CASE m = n
      <4>1. z.at[n] = i + 1 /\ i + 1 # 0 /\ s.at[n] # 0
        <5>1. z.at[n] = i + 1
          BY <1>2, <1>52
        <5>2. i + 1 # 0
          BY <1>3
        <5> QED BY <1>2, <5>1, <5>2
      <4> QED BY <3>1, <4>1
    <3>2. CASE m # n /\ Opens /\ m = t
      BY <1>52, <3>2
    <3>3. CASE m # n /\ ~(Opens /\ m = t)
      BY <1>52, <3>3
    <3> QED BY <3>1, <3>2, <3>3
  <2>2. Opens => t \in loop
    BY <1>6
  <2> QED
    BY <2>1, <2>2 DEF SeenNodes
<1>9. /\ z.open \in Seq(loop)
      /\ \A j, k \in DOMAIN z.open : z.open[j] = z.open[k] => j = k
      /\ \A k \in DOMAIN z.open : z.at[z.open[k]] # 0
      /\ \A m : IsOpen(z, m) <=> IsOpen(s, m) \/ (Opens /\ m = t)
      /\ \A m, k : Above(s, m, k) => Above(z, m, k)
      /\ Opens => Above(z, n, t)
      /\ z.open # <<>> => z.open[1] = h
  <2>1. /\ \A j, k \in DOMAIN s.open : s.open[j] = s.open[k] => j = k
        /\ \A k \in DOMAIN s.open : s.open[k] \in loop /\ s.at[s.open[k]] # 0
        /\ s.open[1] = h
    BY <1>1 DEF SearchKept, h
  <2>2. CASE Opens
    <3>1. /\ z.open \in Seq(loop) /\ DOMAIN z.open = 1 .. L + 1 /\ z.open[L + 1] = t
          /\ \A k \in 1 .. L : z.open[k] = s.open[k]
      <4> DEFINE q == s.open
      <4>1. q \in Seq(loop) /\ z.open = Append(q, t) /\ t \in loop
        BY <1>1, <1>51, <1>6, <2>2
      <4>2. Len(q) = L /\ \A k \in 1 .. L : s.open[k] = q[k]
        BY DEF L
      <4> HIDE DEF q
      <4>3. z.open \in Seq(loop) /\ Len(z.open) = L + 1 /\ z.open[L + 1] = t /\ \A k \in 1 .. L : z.open[k] = q[k]
        BY <1>1, <4>1, <4>2
      <4> QED BY <4>2, <4>3
    <3>2. \A k : k \in 1 .. L + 1 <=> k \in 1 .. L \/ k = L + 1
      BY <1>1
    <3>3. \A k \in 1 .. L : s.open[k] # t /\ k < L + 1
      BY <1>1, <1>6, <2>2 DEF IsOpen
    <3>4. L \in 1 .. L /\ 1 \in 1 .. L
      BY <1>1
    <3>5. \A j, k \in DOMAIN z.open : z.open[j] = z.open[k] => j = k
      <4>1. SUFFICES ASSUME NEW j \in 1 .. L + 1, NEW k \in 1 .. L + 1, z.open[j] = z.open[k] PROVE j = k
        BY <3>1
      <4>2. CASE j \in 1 .. L /\ k \in 1 .. L
        BY <1>1, <2>1, <3>1, <4>1, <4>2
      <4>3. CASE j = L + 1 \/ k = L + 1
        BY <3>1, <3>2, <3>3, <4>1, <4>3
      <4> QED BY <3>2, <4>2, <4>3
    <3>6. \A m : IsOpen(z, m) <=> IsOpen(s, m) \/ m = t
      BY <1>1, <3>1, <3>2 DEF IsOpen
    <3>7. \A m, k : Above(s, m, k) => Above(z, m, k)
      BY <1>1, <3>1, <3>2 DEF Above
    <3>8. Above(z, n, t)
      BY <1>2, <3>1, <3>2, <3>3, <3>4 DEF Above
    <3>9. \A k \in DOMAIN z.open : z.at[z.open[k]] # 0
      <4>1. \A k \in 1 .. L : z.at[z.open[k]] # 0
        BY <1>1, <1>8, <2>1, <3>1
      <4>2. z.at[t] # 0
        BY <1>6, <1>52, <2>2
      <4> QED BY <3>1, <3>2, <4>1, <4>2
    <3>10. z.open[1] = h
      BY <2>1, <3>1, <3>4
    <3> QED BY <2>2, <3>1, <3>5, <3>6, <3>7, <3>8, <3>9, <3>10
  <2>3. CASE ~Opens
    <3>1. z.open = s.open
      BY <1>5, <1>51, <2>3
    <3>2. /\ \A m : IsOpen(z, m) <=> IsOpen(s, m)
          /\ \A m, k : Above(s, m, k) => Above(z, m, k)
      BY <3>1 DEF IsOpen, Above
    <3> QED BY <1>1, <1>8, <2>1, <2>3, <3>1, <3>2
  <2> QED
    BY <2>2, <2>3
<1>10. DoneNodes(loop, z) = DoneNodes(loop, s) /\ n \notin DoneNodes(loop, s)
  <2>1. \A m \in loop : z.at[m] # 0 <=> s.at[m] # 0 \/ (Opens /\ m = t)
    BY <1>8 DEF SeenNodes
  <2>2. Opens => s.at[t] = 0
    BY <1>6
  <2> QED
    BY <1>2, <1>9, <2>1, <2>2 DEF DoneNodes
<1>11. \A m \in DoneNodes(loop, z) : z.at[m] > Len(w.edges[m])
  <2>1. \A m \in DoneNodes(loop, s) : m \in loop /\ m # n /\ s.at[m] # 0 /\ s.at[m] > Len(w.edges[m])
    BY <1>10 DEF SearchKept, DoneNodes
  <2>2. \A m \in loop : m # n /\ s.at[m] # 0 => z.at[m] = s.at[m]
    BY <1>6, <1>52
  <2> QED BY <1>10, <2>1, <2>2
<1>12. z.back \subseteq Met(w, loop, z) /\ \A f \in z.back : z.at[To(w, f)] # 0
  <2>1. s.back \subseteq Met(w, loop, s) /\ \A f \in s.back : To(w, f) \in loop /\ s.at[To(w, f)] # 0
    BY DEF SearchKept, Met, InnerEdges, To
  <2>2. \A f \in s.back : z.at[To(w, f)] # 0
    BY <1>8, <2>1
  <2>3. Backs => s.at[t] # 0 /\ z.at[t] # 0
    <3>1. IsOpen(s, t) => s.at[t] # 0
      BY DEF SearchKept, IsOpen
    <3> QED BY <1>8, <1>51, <3>1
  <2> QED BY <1>4, <1>5, <1>51, <1>7, <2>1, <2>2, <2>3
<1>13. ASSUME NEW f \in Met(w, loop, z) \ z.back
       PROVE  To(w, f) \in DoneNodes(loop, z) \/ Above(z, f[1], To(w, f))
  <2>1. CASE f = e
    <3>1. t \in loop /\ ~Backs
      BY <1>7, <1>13, <1>51, <2>1
    <3> QED BY <1>4, <1>5, <1>51, <1>9, <1>10, <2>1, <3>1
  <2>2. CASE f # e
    <3>1. f \in Met(w, loop, s) \ s.back
      BY <1>5, <1>51, <1>7, <1>13, <2>2
    <3>2. To(w, f) \in DoneNodes(loop, s) \/ Above(s, f[1], To(w, f))
      BY <3>1 DEF SearchKept
    <3> QED BY <1>9, <1>10, <3>2
  <2> QED BY <2>1, <2>2
<1>14. s.back \subseteq z.back /\ Met(w, loop, s) \subseteq Met(w, loop, z)
       /\ Met(w, loop, s) \ s.back \subseteq Met(w, loop, z) \ z.back
  BY <1>5, <1>51, <1>7
<1>15. ASSUME NEW C \in SUBSET DoneNodes(loop, z), C # {}
       PROVE  WithoutCycle(w, C, Met(w, loop, z), z.back)
  <2>1. WithoutCycle(w, C, Met(w, loop, s), s.back) /\ n \notin C
    BY <1>10, <1>15 DEF SearchKept
  <2> QED
    BY <1>4, <1>7, <1>14, <2>1 DEF WithoutCycle
<1>16. h \in loop /\ IsOpen(s, h)
  <2>1. s.open[1] = h /\ 1 \in DOMAIN s.open /\ s.open[1] \in loop
    BY <1>1 DEF SearchKept, h
  <2> QED BY <2>1 DEF IsOpen
<1>17. \A f \in Met(w, loop, z) : To(w, f) = h => f \in z.back
  <2>1. \A f \in Met(w, loop, s) : To(w, f) = h => f \in s.back
    BY DEF SearchKept, h
  <2>2. t = h => e \in z.back
    BY <1>5, <1>51, <1>6, <1>16 DEF DoneNodes
  <2> QED BY <1>4, <1>7, <1>14, <2>1, <2>2
<1>18. ASSUME NEW R \in SUBSET loop, h \in R, Carries(w, R, Met(w, loop, z) \ z.back)
       PROVE  SeenNodes(loop, z) \subseteq R
  <2>1. SeenNodes(loop, s) \subseteq R
    <3>1. Carries(w, R, Met(w, loop, s) \ s.back)
      BY <1>14, <1>18 DEF Carries
    <3> QED BY <1>18, <3>1 DEF SearchKept, h
  <2>2. Opens => t \in R
    <3>1. n \in R
      BY <1>2, <2>1 DEF SeenNodes
    <3>2. Opens => e \in Met(w, loop, z) \ z.back
      <4>1. s.back \subseteq Met(w, loop, s)
        BY DEF SearchKept
      <4> QED BY <1>51, <1>6, <1>7, <4>1
    <3> QED
      BY <1>4, <1>18, <3>1, <3>2 DEF Carries
  <2> QED BY <1>8, <2>1, <2>2
<1>19. z \in SearchStates(loop)
  <2>1. z.back \in SUBSET (loop \X Nat)
    BY <1>1, <1>3, <1>5, <1>51
  <2> QED
    BY <1>5, <1>9, <2>1 DEF SearchStates, SearchAt
<1>20. z.at[h] # 0
  BY <1>8, <1>16 DEF SearchKept, h
<1>21. SearchKept(w, loop, z)
  BY <1>9, <1>11, <1>12, <1>13, <1>15, <1>17, <1>18, <1>19, <1>20 DEF SearchKept, h
<1>22. Ahead(w, loop, z) \subseteq Ahead(w, loop, s)
  <2>1. \A m \in loop : s.at[m] \in Nat /\ z.at[m] \in Nat
    BY <1>1, <1>5
  <2>2. ASSUME NEW f \in loop \X Nat, f[2] \in DOMAIN w.edges[f[1]], z.at[f[1]] <= f[2] PROVE s.at[f[1]] <= f[2]
    <3>1. f[1] \in loop /\ f[2] \in Nat
      BY <2>2
    <3>2. s.at[f[1]] <= z.at[f[1]] 
      <4>1. \A m \in loop : s.at[m] <= z.at[m]
        <5> TAKE m \in loop
        <5>1. s.at[n] = i
          BY <1>2 DEF n
        <5>2. Opens => s.at[t] = 0
          BY <1>6
        <5> QED BY <1>3, <1>52, <2>1, <5>1, <5>2
      <4> QED BY <3>1, <4>1
    <3> QED BY <2>1, <2>2, <3>1, <3>2
  <2>3. ASSUME NEW m \in loop, z.at[m] = 0 \/ IsOpen(z, m) PROVE s.at[m] = 0 \/ IsOpen(s, m)
    BY <1>6, <1>8, <1>9, <2>3
  <2> QED
    BY <2>2, <2>3 DEF Ahead
<1>23. e \in Ahead(w, loop, s) /\ e \notin Ahead(w, loop, z)
  <2>1. s.at[n] = i /\ z.at[n] = i + 1
    <3>1. s.at[n] = i
      BY <1>2 DEF n
    <3> QED BY <1>2, <1>52, <3>1
  <2>2. e[1] = n /\ e[2] = i /\ i \in DOMAIN w.edges[n] /\ e \in loop \X Nat /\ e \notin loop \X {0}
    <3>1. e \notin loop \X {0}
      BY <1>3 DEF e
    <3> QED BY <1>3, <1>4, <3>1
  <2>3. i <= i /\ ~(i + 1 <= i)
    BY <1>3
  <2> QED
    BY <2>1, <2>2, <2>3 DEF Ahead
<1> QED
  BY <1>21, <1>22, <1>23

\* What a search finds: edges back without which the loop has no cycle, to the header all of
\* them, while the others lead from the header to every node.
GoodBack(w, loop, back) ==
    /\ \A C \in SUBSET loop : C # {} => WithoutCycle(w, C, InnerEdges(w, loop), back)
    /\ \A e \in InnerEdges(w, loop) : To(w, e) = HeaderOf(w, loop) => e \in back
    /\ \A R \in SUBSET loop :
          HeaderOf(w, loop) \in R /\ Carries(w, R, InnerEdges(w, loop) \ back) => R = loop

Connected(w, loop) ==
    \A R \in SUBSET loop : HeaderOf(w, loop) \in R /\ Carries(w, R, InnerEdges(w, loop)) => R = loop

LEMMA SearchEnds ==
    ASSUME NEW w \in Usual, NEW loop \in Loops(w), Connected(w, loop),
           NEW s, SearchKept(w, loop, s), s.open = <<>>
    PROVE  GoodBack(w, loop, s.back)
<1> DEFINE h == HeaderOf(w, loop)
<1>1. \A m : ~IsOpen(s, m)
  BY DEF IsOpen
<1>2. DoneNodes(loop, s) = SeenNodes(loop, s) /\ \A m, k : ~Above(s, m, k)
  BY <1>1 DEF DoneNodes, SeenNodes, Above
<1>3. ASSUME NEW e \in InnerEdges(w, loop), e[1] \in SeenNodes(loop, s) PROVE e \in Met(w, loop, s)
  <2>1. s.at[e[1]] > Len(w.edges[e[1]]) /\ s.at[e[1]] \in Nat
    BY <1>2, <1>3 DEF SearchKept, SearchStates, SeenNodes
  <2>2. e[2] \in DOMAIN w.edges[e[1]] /\ e[1] \in NodesOf(w)
    BY DEF InnerEdges, Loops
  <2>3. e[2] \in 1 .. Len(w.edges[e[1]]) /\ Len(w.edges[e[1]]) \in Nat
    BY <2>2, WorkflowFacts
  <2>4. e[2] < s.at[e[1]]
    BY <2>1, <2>3
  <2> QED
    BY <2>4 DEF Met
<1>4. SeenNodes(loop, s) = loop
  <2>1. h \in SeenNodes(loop, s)
    BY HeaderIsInLoop DEF SearchKept, SeenNodes, Loops
  <2>2. ASSUME NEW e \in InnerEdges(w, loop), e[1] \in SeenNodes(loop, s) PROVE To(w, e) \in SeenNodes(loop, s)
    <3>1. e \in Met(w, loop, s) /\ To(w, e) \in loop
      BY <1>3, <2>2 DEF InnerEdges, To
    <3> QED
      BY <1>2, <3>1 DEF SearchKept, SeenNodes
  <2>3. SeenNodes(loop, s) \in SUBSET loop
    BY DEF SeenNodes
  <2> QED
    BY <2>1, <2>2, <2>3 DEF Connected, Carries
<1>5. Met(w, loop, s) = InnerEdges(w, loop)
  <2>1. \A e \in InnerEdges(w, loop) : e[1] \in loop
    BY DEF InnerEdges
  <2> QED
    BY <1>3, <1>4, <2>1 DEF Met
<1>6. DoneNodes(loop, s) = loop
  BY <1>2, <1>4
<1> QED
  <2>1. \A C \in SUBSET loop : C # {} => WithoutCycle(w, C, InnerEdges(w, loop), s.back)
    BY <1>5, <1>6 DEF SearchKept
  <2>2. \A e \in InnerEdges(w, loop) : To(w, e) = h => e \in s.back
    BY <1>5 DEF SearchKept
  <2>3. \A R \in SUBSET loop :
          h \in R /\ Carries(w, R, InnerEdges(w, loop) \ s.back) => R = loop
    BY <1>4, <1>5 DEF SearchKept
  <2> QED
    BY <2>1, <2>2, <2>3 DEF GoodBack

LEMMA SearchStarts ==
    ASSUME NEW w \in Usual, NEW loop \in Loops(w)
    PROVE  LET h == HeaderOf(w, loop)
           IN  SearchKept(w, loop, SearchAt(<<h>>, [n \in loop |-> IF n = h THEN 1 ELSE 0], {}))
<1> DEFINE h == HeaderOf(w, loop)
           at == [n \in loop |-> IF n = h THEN 1 ELSE 0]
           s == SearchAt(<<h>>, at, {})
<1>1. h \in loop
  BY HeaderIsInLoop DEF Loops
<1>2. s.open = <<h>> /\ s.at = at /\ s.back = {}
  BY DEF SearchAt
<1>3. s \in SearchStates(loop)
  BY <1>1 DEF SearchStates, SearchAt
<1>4. at[h] = 1 /\ \A n \in loop : at[n] = IF n = h THEN 1 ELSE 0
  BY <1>1
<1> HIDE DEF h, at, s
<1>5. DOMAIN s.open = {1} /\ s.open[1] = h
  BY <1>2
<1>6. \A m : IsOpen(s, m) <=> m = h
  BY <1>5 DEF IsOpen
<1>7. DoneNodes(loop, s) = {} /\ SeenNodes(loop, s) = {h}
  BY <1>1, <1>2, <1>4, <1>6 DEF DoneNodes, SeenNodes
<1>8. Met(w, loop, s) = {}
  <2>1. SUFFICES ASSUME NEW e \in Met(w, loop, s) PROVE FALSE
    OBVIOUS
  <2>2. e[1] \in loop /\ e[1] \in NodesOf(w) /\ e[2] \in DOMAIN w.edges[e[1]] /\ e[2] < at[e[1]]
    BY <1>2 DEF Met, InnerEdges, Loops
  <2>3. e[2] \in 1 .. Len(w.edges[e[1]]) /\ at[e[1]] \in {0, 1}
    BY <1>4, <2>2, WorkflowFacts
  <2> QED
    BY <2>2, <2>3
<1>9. SearchKept(w, loop, s)
  BY <1>2, <1>3, <1>4, <1>5, <1>7, <1>8 DEF SearchKept, h
<1> QED
  BY <1>9 DEF s, at, h

\* A step of the search keeps all that, and brings it nearer to its end.
LEMMA SearchGoes ==
    ASSUME NEW w \in Usual, NEW loop \in Loops(w), NEW s, SearchKept(w, loop, s), s.open # <<>>
    PROVE  LET z == Searched(w, loop, s)
           IN  /\ SearchKept(w, loop, z)
               /\ Ahead(w, loop, z) \subseteq Ahead(w, loop, s) /\ Ahead(w, loop, z) # Ahead(w, loop, s)
<1> DEFINE z == Searched(w, loop, s)
           n == TopOf(s)
           i == s.at[n]
           t == w.edges[n][i]
<1>1. SearchStep(w, loop, s, z) /\ z = SearchAt(z.open, z.at, z.back)
  BY SearchedCases
<1>2. n \in loop
  BY DEF SearchKept, SearchStates, TopOf
<1> HIDE DEF z
<1>3. CASE i > Len(w.edges[n])
  <2>1. z = SearchAt(SubSeq(s.open, 1, Len(s.open) - 1), s.at, s.back)
    BY <1>1, <1>3 DEF SearchStep
  <2> QED
    BY <1>2, <1>3, <2>1, SearchPops DEF z
<1>4. CASE ~(i > Len(w.edges[n]))
  <2>1. EdgeMet(loop, s, n, i, t, z)
    BY <1>1, <1>4 DEF SearchStep, EdgeMet, IsOpen
  <2> QED
    BY <1>1, <1>4, <2>1, SearchMeets DEF z
<1> QED
  BY <1>3, <1>4

\* What a search answers.
Searches(f, w, loop) ==
    f = [s \in SearchStates(loop) |-> IF s.open = <<>> THEN s.back ELSE f[Searched(w, loop, s)]]

LEMMA SearchedType ==
    ASSUME NEW w, NEW loop, NEW s \in SearchStates(loop), s.open # <<>>
    PROVE  Searched(w, loop, s) \in SearchStates(loop)
<1> DEFINE z == Searched(w, loop, s)
           n == TopOf(s)
           i == s.at[n]
           t == w.edges[n][i]
           on == [s.at EXCEPT ![n] = i + 1]
           popped == SubSeq(s.open, 1, Len(s.open) - 1)
           pushed == Append(s.open, t)
<1>1. SearchStep(w, loop, s, z) /\ z = SearchAt(z.open, z.at, z.back)
  BY SearchedCases
<1>2. s.open \in Seq(loop) /\ s.at \in [loop -> Nat] /\ s.back \in SUBSET (loop \X Nat)
  BY DEF SearchStates
<1>3. n \in loop /\ i \in Nat
  BY <1>2 DEF TopOf
<1> HIDE DEF n
<1>4. /\ on \in [loop -> Nat]
      /\ t \in loop => [on EXCEPT ![t] = 1] \in [loop -> Nat]
      /\ s.back \cup {<<n, i>>} \in SUBSET (loop \X Nat)
  <2>1. on \in [loop -> Nat]
    BY <1>2, <1>3
  <2> HIDE DEF on, i, t
  <2> QED
    BY <1>2, <1>3, <2>1
<1>5. popped \in Seq(loop)
  BY <1>2, AllButLast
<1>6. t \in loop => pushed \in Seq(loop)
  BY <1>2
<1>7. /\ z.open \in {s.open, popped} \/ (t \in loop /\ z.open = pushed)
      /\ z.at \in {s.at, on} \/ (t \in loop /\ z.at = [on EXCEPT ![t] = 1])
      /\ z.back \in {s.back, s.back \cup {<<n, i>>}}
  <2> HIDE DEF z
  <2> QED
    BY <1>1 DEF SearchStep, n
<1>8. z.open \in Seq(loop) /\ z.at \in [loop -> Nat] /\ z.back \in SUBSET (loop \X Nat)
  <2> HIDE DEF z, popped, pushed, on, t, i
  <2> QED
    BY <1>2, <1>4, <1>5, <1>6, <1>7
<1> HIDE DEF z
<1>9. z \in SearchStates(loop)
  BY <1>1, <1>8 DEF SearchAt, SearchStates
<1> QED
  BY <1>9 DEF z

LEMMA SearchAnswers ==
    ASSUME NEW w, NEW loop
    PROVE  \E f : Searches(f, w, loop)
<1> DEFINE S == SearchStates(loop)
           halts == {s \in S : s.open = <<>>}
           out == [s \in S |-> s.back]
           step == [s \in S |-> IF s.open = <<>> THEN s ELSE Searched(w, loop, s)]
<1>1. step \in [S -> S] /\ halts \subseteq S
  BY SearchedType
<1>2. PICK f : Repeats(f, S, halts, out, step)
  <2> HIDE DEF step, halts, out, S
  <2> QED BY <1>1, RepetitionExists
<1>3. f = [s \in S |-> IF s \in halts THEN out[s] ELSE f[step[s]]]
  BY <1>2 DEF Repeats
<1>4. \A s \in S : (IF s \in halts THEN out[s] ELSE f[step[s]])
                     = (IF s.open = <<>> THEN s.back ELSE f[Searched(w, loop, s)])
  OBVIOUS
<1>5. f = [s \in S |-> IF s.open = <<>> THEN s.back ELSE f[Searched(w, loop, s)]]
  <2> HIDE DEF step, halts, out, S
  <2> QED BY <1>3, <1>4
<1> QED
  BY <1>5 DEF Searches

LEMMA AheadIsFinite ==
    ASSUME NEW w \in Usual, NEW loop \in Loops(w)
    PROVE  \E P : IsFiniteSet(P) /\ \A s : Ahead(w, loop, s) \subseteq P
<1> DEFINE Of(n) == {n} \X (0 .. Len(w.edges[n]))
           P == UNION {Of(n) : n \in loop}
<1>1. IsFiniteSet(loop)
  BY WorkflowFacts, FS_Subset DEF Loops
<1>2. \A n \in loop : IsFiniteSet(Of(n))
  <2> TAKE n \in loop
  <2>1. Len(w.edges[n]) \in Int /\ 0 \in Int
    BY WorkflowFacts DEF Loops
  <2>2. IsFiniteSet(0 .. Len(w.edges[n]))
    BY <2>1, FS_Interval
  <2>3. IsFiniteSet({n})
    BY FS_Singleton, Zenon
  <2> QED
    BY <2>2, <2>3, FS_Product
<1>3. IsFiniteSet({Of(n) : n \in loop})
  <2> HIDE DEF Of
  <2> DEFINE g == [n \in loop |-> Of(n)]
  <2>1. g \in Surjection(loop, {Of(n) : n \in loop})
    BY DEF Surjection
  <2> QED
    BY <1>1, <2>1, FS_Surjection
<1>4. IsFiniteSet(P)
  <2> HIDE DEF Of
  <2> QED
    BY <1>2, <1>3, FS_UNION
<1>5. ASSUME NEW s, NEW e \in Ahead(w, loop, s) PROVE e \in P
  <2>1. e[1] \in loop /\ e = <<e[1], e[2]>> /\ (e[2] \in DOMAIN w.edges[e[1]] \/ e[2] = 0)
    BY DEF Ahead
  <2>2. e[2] \in 0 .. Len(w.edges[e[1]])
    <3>1. DOMAIN w.edges[e[1]] = 1 .. Len(w.edges[e[1]]) /\ Len(w.edges[e[1]]) \in Nat
      BY <2>1, WorkflowFacts DEF Loops
    <3> QED BY <2>1, <3>1
  <2>3. e \in Of(e[1])
    BY <2>1, <2>2
  <2> QED
    BY <2>1, <2>3
<1> HIDE DEF P
<1> QED
  BY <1>4, <1>5

LEMMA BackEdgesFound ==
    ASSUME NEW w \in Usual, NEW loop \in Loops(w), Connected(w, loop)
    PROVE  GoodBack(w, loop, BackEdges(w, loop))
<1> DEFINE f == CHOOSE g : Searches(g, w, loop)
           h == HeaderOf(w, loop)
           start == SearchAt(<<h>>, [n \in loop |-> IF n = h THEN 1 ELSE 0], {})
<1>1. BackEdges(w, loop) = f[start]
  BY DEF BackEdges, Searches
<1>2. Searches(f, w, loop)
  BY SearchAnswers
<1>3. SearchKept(w, loop, start)
  BY SearchStarts
<1> HIDE DEF f, start
<1>4. \A s \in SearchStates(loop) : f[s] = IF s.open = <<>> THEN s.back ELSE f[Searched(w, loop, s)]
  BY <1>2 DEF Searches
<1>5. PICK P : IsFiniteSet(P) /\ \A s : Ahead(w, loop, s) \subseteq P
  BY AheadIsFinite
<1> DEFINE Wrong(s) == SearchKept(w, loop, s) /\ ~GoodBack(w, loop, f[s])
           Bad == {A \in SUBSET P : \E s \in SearchStates(loop) : Wrong(s) /\ A = Ahead(w, loop, s)}
<1>6. Bad = {}
  <2> SUFFICES ASSUME Bad # {} PROVE FALSE
    OBVIOUS
  <2>1. PICK A \in Bad : \A B \in Bad : B \subseteq A => B = A
    <3>1. Bad \subseteq SUBSET P
      OBVIOUS
    <3> HIDE DEF Bad
    <3> QED BY <1>5, <3>1, SmallestSubset
  <2>2. PICK s \in SearchStates(loop) : Wrong(s) /\ A = Ahead(w, loop, s)
    OBVIOUS
  <2>3. CASE s.open = <<>>
    BY <1>4, <2>2, <2>3, SearchEnds
  <2>4. CASE s.open # <<>>
    <3> DEFINE z == Searched(w, loop, s)
    <3>1. SearchKept(w, loop, z) /\ Ahead(w, loop, z) \subseteq A /\ Ahead(w, loop, z) # A
      BY <2>2, <2>4, SearchGoes
    <3>2. f[s] = f[z]
      BY <1>4, <2>4
    <3> HIDE DEF z
    <3>3. z \in SearchStates(loop)
      BY <3>1 DEF SearchKept
    <3>4. Ahead(w, loop, z) \in Bad
      BY <1>5, <2>2, <3>1, <3>2, <3>3
    <3> QED
      BY <2>1, <3>1, <3>4
  <2> QED
    BY <2>3, <2>4
<1>7. start \in SearchStates(loop)
  BY <1>3 DEF SearchKept
<1> QED
  BY <1>1, <1>3, <1>5, <1>6, <1>7

LEMMA LoopIsConnected ==
    ASSUME NEW w \in Usual, NEW n \in LoopNodes(w)
    PROVE  LoopOf(w, n) \in Loops(w) /\ Connected(w, LoopOf(w, n))
<1> DEFINE loop == LoopOf(w, n)
           h == HeaderOf(w, loop)
<1>1. loop \in Loops(w) /\ n \in NodesOf(w)
  BY LoopFacts DEF Loops, LoopNodes
<1>2. h \in loop /\ h \in NodesOf(w) /\ LoopOf(w, h) = loop
  BY <1>1, HeaderIsInLoop, LoopFacts DEF Loops
<1> HIDE DEF loop, h
<1>3. SUFFICES ASSUME NEW R \in SUBSET loop, h \in R, Carries(w, R, InnerEdges(w, loop))
               PROVE  loop \subseteq R
  BY <1>1 DEF Connected, loop, h
<1>4. loop = {m \in After(w, h) : h \in After(w, m)}
  BY <1>2 DEF LoopOf
<1> DEFINE T == R \cup {k \in NodesOf(w) : h \notin After(w, k)}
<1>5. T \in SUBSET NodesOf(w)
  BY <1>1 DEF Loops
<1>6. ASSUME NEW m \in T, NEW k \in TargetsOf(w, m) PROVE k \in T
  <2>0. m \in NodesOf(w)
    BY <1>5
  <2>1. k \in After(w, m) /\ k \in NodesOf(w) /\ After(w, k) \subseteq After(w, m)
    BY <2>0, AuthoredAfter
  <2>2. CASE m \in R /\ k \in loop
    <3>1. PICK i \in DOMAIN w.edges[m] : k = w.edges[m][i]
      BY DEF TargetsOf
    <3>2. <<m, i>> \in InnerEdges(w, loop) /\ <<m, i>>[1] = m /\ To(w, <<m, i>>) = k
      <4>1. i \in Nat
        BY <2>0, WorkflowFacts
      <4> QED BY <2>2, <3>1, <4>1 DEF InnerEdges, To
    <3> QED
      BY <1>3, <2>2, <3>2 DEF Carries
  <2>3. CASE m \in R /\ k \notin loop
    <3>1. m \in After(w, h)
      BY <1>3, <1>4, <2>3
    <3>2. k \in After(w, h)
      BY <1>2, <2>1, <3>1, AuthoredAfter
    <3> QED
      BY <1>4, <2>1, <2>3, <3>2
  <2>4. CASE m \notin R
    BY <2>1, <2>4
  <2> QED
    BY <2>2, <2>3, <2>4
<1>7. After(w, h) \subseteq T
  <2>1. TargetsOf(w, h) \subseteq T
    BY <1>3, <1>6
  <2> HIDE DEF T
  <2> QED
    BY <1>2, <1>5, <1>6, <2>1, AuthoredAfter
<1> QED
  BY <1>4, <1>7

-----------------------------------------------------------------------------
(***************************************************************************)
(* What is compiled has no cycle, and all of it can be reached.            *)
(***************************************************************************)
\* What comes after a copy begins with one of its edges.
LEMMA FirstEdge ==
    ASSUME NEW w \in Usual, NEW x \in DOMAIN Unrolled(w), NEW y \in AfterCopy(Unrolled(w), x)
    PROVE  \E z \in LeadsCopies(Unrolled(w))[x] : y = z \/ y \in AfterCopy(Unrolled(w), z)
<1> DEFINE succ == Unrolled(w)
           D == DOMAIN succ
           leads == LeadsCopies(succ)
           T == {y2 \in D : \E z \in leads[x] : y2 = z \/ y2 \in AfterCopy(succ, z)}
<1>1. leads \in [D -> SUBSET D]
  BY UnrolledFacts
<1>2. \A z \in D : /\ leads[z] \subseteq AfterCopy(succ, z) /\ AfterCopy(succ, z) \subseteq D
                   /\ \A v \in AfterCopy(succ, z) : leads[v] \subseteq AfterCopy(succ, z)
                   /\ \A U \in SUBSET D : leads[z] \subseteq U /\ (\A v \in U : leads[v] \subseteq U)
                                            => AfterCopy(succ, z) \subseteq U
  BY CopiesAfter
<1> HIDE DEF succ, D, leads
<1>3. x \in D /\ y \in AfterCopy(succ, x)
  BY DEF D, succ
<1>4. leads[x] \subseteq D
  BY <1>1, <1>3
<1>5. T \in SUBSET D /\ leads[x] \subseteq T
  BY <1>4
<1>6. ASSUME NEW v \in T PROVE leads[v] \subseteq T
  <2>1. PICK z \in leads[x] : v = z \/ v \in AfterCopy(succ, z)
    OBVIOUS
  <2>2. leads[v] \subseteq AfterCopy(succ, z) /\ leads[v] \subseteq D
    BY <1>1, <1>2, <1>4, <2>1
  <2> QED
    BY <2>2
<1>7. AfterCopy(succ, x) \subseteq T
  <2> HIDE DEF T
  <2> QED BY <1>2, <1>3, <1>5, <1>6
<1> QED
  BY <1>3, <1>7 DEF succ, D, leads

\* Copies follow each other as the nodes do that they are copies of.
LEMMA CopiesFollow ==
    ASSUME NEW w \in Usual, NEW x \in Copies(w), NEW y \in Copies(w), y \in AfterCopy(Unrolled(w), x)
    PROVE  y[1] \in After(w, x[1])
<1> DEFINE succ == Unrolled(w)
           D == DOMAIN succ
           leads == LeadsCopies(succ)
           T == {z \in D : z \in Copies(w) => z[1] \in After(w, x[1])}
<1>1. D = Copies(w) \cup Overflows(w) /\ x[1] \in NodesOf(w)
  BY UnrolledFacts, CopyFacts
<1>2. ASSUME NEW z \in Copies(w), NEW v \in leads[z], v \in Copies(w) PROVE v[1] \in TargetsOf(w, z[1])
  <2>1. PICK i \in DOMAIN w.edges[z[1]] : v = CopyNext(w, z, i)
    <3>1. leads[z] = {CopyNext(w, z, i) : i \in DOMAIN w.edges[z[1]]}
      BY UnrolledFacts
    <3> QED BY <1>2, <3>1
  <2>2. v \notin Overflows(w)
    BY <1>2, CopyFacts
  <2> DEFINE t == w.edges[z[1]][i]
  <2>3. v \in {<<t, 0>>, <<t, z[2]>>, <<t, z[2] + 1>>}
    <3>1. \/ v \in {<<t, 0>>, <<t, z[2]>>, <<t, z[2] + 1>>}
          \/ v \in Overflows(w)
      BY <2>1, CopyNextFacts
    <3> QED BY <2>2, <3>1
  <2>4. v[1] = t
    BY <2>3
  <2> QED
    BY <2>4 DEF TargetsOf
<1>3. \A z \in D : leads[z] \subseteq D
  BY UnrolledFacts
<1>4. \A z \in Overflows(w) : leads[z] = {}
  BY UnrolledFacts
<1>5. leads[x] \subseteq T
  <2>1. TargetsOf(w, x[1]) \subseteq After(w, x[1])
    BY <1>1, AuthoredAfter
  <2>2. x \in D
    BY <1>1
  <2> HIDE DEF leads, D
  <2> QED
    BY <1>2, <1>3, <2>1, <2>2
<1>6. ASSUME NEW z \in T PROVE leads[z] \subseteq T
  <2>1. CASE z \in Copies(w)
    <3>1. TargetsOf(w, z[1]) \subseteq After(w, x[1])
      BY <1>1, <2>1, AuthoredAfter
    <3> HIDE DEF leads, D
    <3> QED
      BY <1>2, <1>3, <2>1, <3>1
  <2>2. CASE z \notin Copies(w)
    BY <1>1, <1>4, <2>2
  <2> QED
    BY <2>1, <2>2
<1>7. AfterCopy(succ, x) \subseteq T
  <2>1. x \in D /\ T \in SUBSET D
    BY <1>1
  <2> HIDE DEF T
  <2> QED BY <1>5, <1>6, <2>1, CopiesAfter
<1> QED
  BY <1>7

\* A cycle would stay in one loop; where it stays in the last layer it comes to, it has an
\* edge that does not go back, from a node that has none.
LEMMA UnrolledIsAcyclic ==
    ASSUME NEW w \in Usual
    PROVE  Acyclic(w)
<1> DEFINE succ == Unrolled(w)
           D == DOMAIN succ
           leads == LeadsCopies(succ)
<1>1. SUFFICES ASSUME NEW x \in D, x \in AfterCopy(succ, x) PROVE FALSE
  BY DEF Acyclic
<1>2. D = Copies(w) \cup Overflows(w) /\ leads \in [D -> SUBSET D]
      /\ \A z \in Overflows(w) : leads[z] = {}
  BY UnrolledFacts
<1>3. \A z \in D : /\ leads[z] \subseteq AfterCopy(succ, z) /\ AfterCopy(succ, z) \subseteq D
                   /\ \A v \in AfterCopy(succ, z) : leads[v] \subseteq AfterCopy(succ, z)
  BY CopiesAfter
<1>4. \A z \in D : \A y \in AfterCopy(succ, z) : \E v \in leads[z] : y = v \/ y \in AfterCopy(succ, v)
  BY FirstEdge
<1> DEFINE Cycle == {y \in AfterCopy(succ, x) : x \in AfterCopy(succ, y)}
<1>5. ASSUME NEW y \in Cycle PROVE \E v \in leads[y] : v \in Cycle
  <2>1. y \in D /\ x \in AfterCopy(succ, y) /\ leads[y] \subseteq AfterCopy(succ, x)
    BY <1>1, <1>3
  <2>2. PICK v \in leads[y] : x = v \/ x \in AfterCopy(succ, v)
    BY <1>4, <2>1
  <2> QED
    BY <1>1, <2>1, <2>2
<1> HIDE DEF succ, D, leads
<1>6. Cycle \subseteq Copies(w) /\ x \in Cycle
  BY <1>1, <1>2, <1>3, <1>5
<1> DEFINE loop == LoopOf(w, x[1])
           Togo == {w.reroutes - y[2] : y \in Cycle}
<1>7. \A y \in Cycle : y[1] \in loop /\ y[1] \in NodesOf(w) /\ y = <<y[1], y[2]>> /\ y[2] \in 0 .. w.reroutes
  <2>1. \A y \in Cycle : y[1] \in After(w, x[1]) /\ x[1] \in After(w, y[1])
    BY <1>6, CopiesFollow DEF succ
  <2> QED
    BY <1>6, <2>1, CopyFacts DEF LoopOf
<1> HIDE DEF Cycle
<1>8. PICK y \in Cycle : \A v \in Cycle : v[2] <= y[2]
  <2>1. Togo \in SUBSET Nat /\ Togo # {}
    BY <1>6, <1>7, WorkflowFacts
  <2>2. Min(Togo) \in Togo /\ \A d \in Togo : Min(Togo) <= d
    <3> HIDE DEF Togo
    <3> QED BY <2>1, LeastNumber
  <2>3. PICK y \in Cycle : Min(Togo) = w.reroutes - y[2]
    BY <2>2
  <2>4. \A v \in Cycle : w.reroutes - y[2] <= w.reroutes - v[2]
    BY <2>2, <2>3
  <2> QED
    <3>1. w.reroutes \in Int /\ \A v \in Cycle : v[2] \in Int
      BY <1>7, WorkflowFacts
    <3>2. \A a, b \in Int : w.reroutes - a <= w.reroutes - b => b <= a
      BY <3>1
    <3> QED
      BY <2>4, <3>1, <3>2
<1> DEFINE c == y[2]
           C == {v[1] : v \in {u \in Cycle : u[2] = c}}
           back == BackEdges(w, loop)
<1>9. x[1] \in LoopNodes(w) /\ \A m \in loop : LoopOf(w, m) = loop /\ BackOf(w, m) = back
  <2>1. x[1] \in NodesOf(w) /\ loop # {}
    BY <1>6, <1>7
  <2>2. \A m \in loop : LoopOf(w, m) = loop
    BY <2>1, LoopFacts
  <2> QED
    BY <2>1, <2>2 DEF LoopNodes, BackOf
<1>10. GoodBack(w, loop, back)
  BY <1>9, LoopIsConnected, BackEdgesFound
<1> HIDE DEF loop, back
<1>11. C \in SUBSET loop /\ C # {} /\ \A m : m \in C <=> <<m, c>> \in Cycle
  <2>1. \A m : m \in C => <<m, c>> \in Cycle /\ m \in loop
    BY <1>7
  <2>2. \A m : <<m, c>> \in Cycle => m \in C
    OBVIOUS
  <2>3. y[1] \in C
    OBVIOUS
  <2> QED
    BY <2>1, <2>2, <2>3
<1>12. PICK m \in C : \A e \in InnerEdges(w, loop) : e[1] = m /\ To(w, e) \in C => e \in back
  <2> HIDE DEF C
  <2> QED BY <1>10, <1>11 DEF GoodBack, WithoutCycle
<1> HIDE DEF C, c
<1>13. <<m, c>> \in Cycle /\ <<m, c>> \in Copies(w) /\ m \in loop /\ m \in NodesOf(w)
  <2>1. <<m, c>> \in Cycle
    BY <1>11
  <2> QED BY <1>6, <1>7, <2>1
<1>14. PICK v \in leads[<<m, c>>] : v \in Cycle
  BY <1>5, <1>13
<1>15. PICK i \in DOMAIN w.edges[m] : v = CopyNext(w, <<m, c>>, i)
  <2>1. leads[<<m, c>>] = {CopyNext(w, <<m, c>>, i) : i \in DOMAIN w.edges[m]}
    BY <1>13, UnrolledFacts DEF leads, succ
  <2> QED BY <1>14, <2>1
<1> DEFINE t == w.edges[m][i]
<1>16. \/ t \notin loop /\ v = <<t, 0>>
       \/ t \in loop /\ <<m, i>> \notin back /\ v = <<t, c>>
       \/ t \in loop /\ <<m, i>> \in back /\ v = <<t, c + 1>>
       \/ v \in Overflows(w)
  <2>1. LoopOf(w, m) = loop /\ BackOf(w, m) = back
    BY <1>9, <1>13
  <2>2. LET q == <<m, c>>
        IN  \/ t \notin LoopOf(w, m) /\ v = <<t, 0>>
            \/ t \in LoopOf(w, m) /\ <<m, i>> \notin BackOf(w, m) /\ v = <<t, c>>
            \/ t \in LoopOf(w, m) /\ <<m, i>> \in BackOf(w, m) /\ v = <<t, c + 1>>
            \/ v \in Overflows(w)
    BY <1>13, <1>15, CopyNextFacts
  <2> QED BY <2>1, <2>2
<1> HIDE DEF t
<1>17. v[1] \in loop /\ v[2] <= c /\ v \notin Overflows(w) /\ c \in Nat
  <2>1. v[1] \in loop /\ v[2] <= c /\ v \in Copies(w)
    BY <1>6, <1>7, <1>8, <1>14 DEF c
  <2>2. c \in Nat
    BY <1>7 DEF c
  <2> QED BY <2>1, <2>2, CopyFacts
<1>18. t \in loop /\ <<m, i>> \notin back /\ v = <<t, c>>
  BY <1>16, <1>17
<1>19. <<m, i>> \in InnerEdges(w, loop) /\ To(w, <<m, i>>) = t
  <2>1. i \in Nat
    BY <1>13, WorkflowFacts
  <2> QED
    BY <1>13, <1>18, <2>1 DEF InnerEdges, To, t
<1>20. t \in C
  BY <1>11, <1>14, <1>18
<1> QED
  BY <1>12, <1>18, <1>19, <1>20

\* One entry, from which there is a way to every node.
OneEntry(w) == Cardinality(Entries(w)) = 1 /\ {EntryOf(w)} \cup After(w, EntryOf(w)) = NodesOf(w)

LEMMA EntryFacts ==
    ASSUME NEW w \in Usual, OneEntry(w)
    PROVE  /\ EntryOf(w) \in NodesOf(w) /\ LoopOf(w, EntryOf(w)) = {} /\ <<EntryOf(w), 0>> \in Copies(w)
           /\ \A n \in NodesOf(w) : EntryOf(w) \notin LoopOf(w, n)
<1> DEFINE E == EntryOf(w)
<1>1. E \in Entries(w)
  <2>1. Entries(w) = {} => Cardinality(Entries(w)) = 0
    BY FS_EmptySet
  <2> QED
    BY <2>1 DEF OneEntry, EntryOf
<1>2. E \in NodesOf(w) /\ \A n \in NodesOf(w) : E \notin TargetsOf(w, n)
  BY <1>1 DEF Entries
<1>3. ASSUME NEW n \in NodesOf(w) PROVE E \notin After(w, n)
  <2>1. After(w, n) \subseteq NodesOf(w) /\ \A m \in After(w, n) : \E k \in {n} \cup After(w, n) : m \in TargetsOf(w, k)
    BY AuthoredAfter
  <2> HIDE DEF E
  <2> QED
    BY <1>2, <2>1
<1>4. \A n \in NodesOf(w) : E \notin LoopOf(w, n)
  BY <1>3 DEF LoopOf
<1>5. LoopOf(w, E) = {}
  BY <1>2, <1>4, LoopFacts
<1> QED
  BY <1>2, <1>4, <1>5, CopyFacts

\* The rest of the workflow leads to the header of a loop, and so does an edge back.
LEMMA HeaderIsEntered ==
    ASSUME NEW w \in Usual, OneEntry(w), NEW n \in LoopNodes(w)
    PROVE  LET loop == LoopOf(w, n)
               h == HeaderOf(w, loop)
           IN  /\ h \in loop
               /\ \E k \in NodesOf(w) \ loop : h \in TargetsOf(w, k)
               /\ \E k \in loop : h \in TargetsOf(w, k)
<1> DEFINE E == EntryOf(w)
           loop == LoopOf(w, n)
           h == HeaderOf(w, loop)
           entered == {m \in loop : \E k \in NodesOf(w) \ loop : m \in TargetsOf(w, k)}
           from == IF entered = {} THEN loop ELSE entered
<1>1. n \in NodesOf(w) /\ loop \in SUBSET NodesOf(w) /\ n \in loop
      /\ \A m \in loop : LoopOf(w, m) = loop
  BY LoopFacts DEF LoopNodes
<1>2. E \notin loop /\ E \in NodesOf(w) /\ {E} \cup After(w, E) = NodesOf(w)
  BY <1>1, EntryFacts DEF OneEntry
<1> HIDE DEF E
<1>3. entered # {}
  <2> SUFFICES ASSUME entered = {} PROVE FALSE
    OBVIOUS
  <2> HIDE DEF loop
  <2>1. \A k \in NodesOf(w) \ loop : TargetsOf(w, k) \subseteq NodesOf(w) \ loop
    BY WorkflowFacts
  <2>2. After(w, E) \subseteq NodesOf(w) \ loop
    <3>1. TargetsOf(w, E) \subseteq NodesOf(w) \ loop
      BY <1>2, <2>1
    <3>2. NodesOf(w) \ loop \in SUBSET NodesOf(w)
      OBVIOUS
    <3> QED BY <1>2, <2>1, <3>1, <3>2, AuthoredAfter
  <2> QED
    BY <1>1, <1>2, <2>2
<1>4. h \in entered
  <2>1. h = Min(entered)
    BY <1>2, <1>3 DEF HeaderOf, E
  <2>2. entered \in SUBSET Nat
    BY <1>1, WorkflowFacts
  <2> HIDE DEF entered, h
  <2> QED
    BY <1>3, <2>1, <2>2, LeastNumber
<1> HIDE DEF loop, h
<1>5. h \in loop /\ \E k \in NodesOf(w) \ loop : h \in TargetsOf(w, k)
  BY <1>4
<1>6. \E k \in loop : h \in TargetsOf(w, k)
  <2>1. loop = {m \in After(w, h) : h \in After(w, m)} /\ h \in NodesOf(w)
    BY <1>1, <1>5 DEF LoopOf
  <2>2. h \in After(w, h)
    BY <1>5, <2>1
  <2>3. PICK k \in {h} \cup After(w, h) : h \in TargetsOf(w, k)
    BY <2>1, <2>2, AuthoredAfter
  <2>4. k \in NodesOf(w)
    BY <2>1, AuthoredAfter
  <2>5. h \in After(w, k)
    BY <2>3, <2>4, AuthoredAfter
  <2> QED
    BY <1>5, <2>1, <2>3, <2>5
<1> QED
  BY <1>5, <1>6 DEF loop, h

\* From the header in the first layer every copy of a loop can be reached, and its end.
LEMMA LoopIsReached ==
    ASSUME NEW w \in Usual, OneEntry(w), NEW n \in LoopNodes(w), NEW V,
           <<HeaderOf(w, LoopOf(w, n)), 0>> \in V,
           \A x \in Copies(w) : x \in V => \A i \in DOMAIN w.edges[x[1]] : CopyNext(w, x, i) \in V
    PROVE  /\ \A m \in LoopOf(w, n) : \A c \in 0 .. w.reroutes : <<m, c>> \in V
           /\ Overflow(w, LoopOf(w, n)) \in V
<1> DEFINE loop == LoopOf(w, n)
           h == HeaderOf(w, loop)
           back == BackEdges(w, loop)
<1>1. GoodBack(w, loop, back) /\ loop \in SUBSET NodesOf(w) /\ h \in loop /\ w.reroutes \in Nat
  BY LoopIsConnected, BackEdgesFound, HeaderIsInLoop, WorkflowFacts DEF Loops
<1>2. \A m \in loop : LoopOf(w, m) = loop /\ BackOf(w, m) = back /\ \A c \in 0 .. w.reroutes : <<m, c>> \in Copies(w)
  <2>1. n \in NodesOf(w)
    BY DEF LoopNodes
  <2>2. \A m \in loop : LoopOf(w, m) = loop /\ m \in NodesOf(w)
    BY <1>1, <2>1, LoopFacts
  <2> QED
    BY <2>2, CopyFacts DEF Layers, BackOf
<1>3. PICK k \in loop : h \in TargetsOf(w, k)
  BY HeaderIsEntered
<1> HIDE DEF loop, h, back
<1>4. ASSUME NEW e \in InnerEdges(w, loop), NEW c \in 0 .. w.reroutes, <<e[1], c>> \in V
      PROVE  /\ e \notin back => <<To(w, e), c>> \in V
             /\ e \in back /\ c < w.reroutes => <<To(w, e), c + 1>> \in V
             /\ e \in back /\ c = w.reroutes => Overflow(w, loop) \in V
  <2> DEFINE m == e[1]
             i == e[2]
             t == To(w, e)
             x == <<m, c>>
             z == CopyNext(w, x, i)
  <2>1. m \in loop /\ i \in DOMAIN w.edges[m] /\ t \in loop /\ e = <<m, i>> /\ t = w.edges[m][i]
    BY DEF InnerEdges, To
  <2>2. x \in Copies(w) /\ LoopOf(w, m) = loop /\ BackOf(w, m) = back
    BY <1>2, <2>1
  <2>3. z \in V
    <3>1. x[1] = m
      OBVIOUS
    <3> QED BY <1>4, <2>1, <2>2, <3>1
  <2>4. z = IF t \notin loop THEN <<t, 0>>
            ELSE IF <<m, i>> \in back THEN (IF c = w.reroutes THEN Overflow(w, loop) ELSE <<t, c + 1>>) ELSE <<t, c>>
    <3>1. x[1] = m /\ x[2] = c
      OBVIOUS
    <3>2. GoesBack(w, back, m, i) <=> <<m, i>> \in back
      <4>1. m \in NodesOf(w)
        BY <1>1, <2>1
      <4> QED BY <2>1, <4>1, BackByLabel
    <3> QED BY <2>1, <2>2, <3>1, <3>2 DEF CopyNext, Rewritten, NextLayer
  <2>5. c = w.reroutes \/ c < w.reroutes
    BY <1>1
  <2>6. c < w.reroutes => c # w.reroutes
    BY <1>1
  <2> HIDE DEF m, i, t, x, z
  <2>7. /\ e \notin back => <<t, c>> \in V
        /\ e \in back /\ c < w.reroutes => <<t, c + 1>> \in V
        /\ e \in back /\ c = w.reroutes => Overflow(w, loop) \in V
    BY <2>1, <2>3, <2>4, <2>6
  <2> QED
    BY <2>7 DEF t
<1>5. PICK f \in InnerEdges(w, loop) : f[1] \in loop /\ To(w, f) = h /\ f \in back
  <2>1. PICK i \in DOMAIN w.edges[k] : w.edges[k][i] = h
    BY <1>3 DEF TargetsOf
  <2>2. i \in Nat
    BY <1>1, <1>3, <2>1, WorkflowFacts
  <2>3. <<k, i>> \in InnerEdges(w, loop) /\ To(w, <<k, i>>) = h /\ <<k, i>>[1] = k
    BY <1>1, <1>3, <2>1, <2>2 DEF InnerEdges, To
  <2>4. <<k, i>> \in back
    BY <1>1, <2>3 DEF GoodBack, h
  <2> QED
    BY <1>3, <2>3, <2>4
<1>6. ASSUME NEW c \in 0 .. w.reroutes, <<h, c>> \in V PROVE \A m \in loop : <<m, c>> \in V
  <2> DEFINE R == {m \in loop : <<m, c>> \in V}
  <2>1. h \in R /\ R \in SUBSET loop
    BY <1>1, <1>6
  <2>2. Carries(w, R, InnerEdges(w, loop) \ back)
    <3>1. \A e \in InnerEdges(w, loop) : To(w, e) \in loop
      BY DEF InnerEdges, To
    <3> QED
      BY <1>4, <3>1 DEF Carries
  <2>3. R = loop
    <3> HIDE DEF R
    <3> QED BY <1>1, <2>1, <2>2 DEF GoodBack, h
  <2> QED
    BY <2>3
<1> DEFINE S == {c \in 0 .. w.reroutes : <<h, c>> \notin V}
<1>7. S = {}
  <2> SUFFICES ASSUME S # {} PROVE FALSE
    OBVIOUS
  <2> DEFINE c == Min(S)
  <2>1. c \in S /\ \A d \in S : c <= d
    <3>1. S \in SUBSET Nat
      OBVIOUS
    <3> HIDE DEF S
    <3> QED BY <3>1, LeastNumber
  <2> HIDE DEF c
  <2>2. c \in 0 .. w.reroutes /\ <<h, c>> \notin V
    BY <2>1
  <2>3. c # 0
    BY <2>2 DEF h, loop
  <2>4. c - 1 \in 0 .. w.reroutes /\ c - 1 < w.reroutes /\ ~(c <= c - 1) /\ (c - 1) + 1 = c
    BY <1>1, <2>2, <2>3
  <2>5. c - 1 \notin S
    BY <2>1, <2>4
  <2>6. <<h, c - 1>> \in V
    BY <2>4, <2>5
  <2>7. <<f[1], c - 1>> \in V
    BY <1>5, <1>6, <2>4, <2>6
  <2>8. <<h, (c - 1) + 1>> \in V
    BY <1>4, <1>5, <2>4, <2>7
  <2> QED
    BY <2>2, <2>4, <2>8
<1>8. \A m \in loop : \A c \in 0 .. w.reroutes : <<m, c>> \in V
  BY <1>6, <1>7
<1>9. Overflow(w, loop) \in V
  <2>1. w.reroutes \in 0 .. w.reroutes
    BY <1>1
  <2>2. <<f[1], w.reroutes>> \in V
    BY <1>5, <1>8, <2>1
  <2> QED
    BY <1>4, <1>5, <2>1, <2>2
<1> QED
  BY <1>8, <1>9 DEF loop

\* A node and what leads to it: among nodes one of whose copies is not reached, one has the
\* least of these, and what leads to it from before is reached.
Leading(w, n) == {k \in NodesOf(w) : k = n \/ n \in After(w, k)}

LEMMA UnrolledIsReached ==
    ASSUME NEW w \in Usual, OneEntry(w)
    PROVE  {<<EntryOf(w), 0>>} \cup AfterCopy(Unrolled(w), <<EntryOf(w), 0>>) = DOMAIN Unrolled(w)
<1> DEFINE E == EntryOf(w)
           succ == Unrolled(w)
           D == DOMAIN succ
           V == {<<E, 0>>} \cup AfterCopy(succ, <<E, 0>>)
           Left == {n \in NodesOf(w) : \E c \in Layers(w, n) : <<n, c>> \notin V}
<1>1. D = Copies(w) \cup Overflows(w) /\ <<E, 0>> \in D
  BY UnrolledFacts, EntryFacts
<1>2. V \subseteq D /\ \A x \in V : LeadsCopies(succ)[x] \subseteq V
  <2>1. /\ LeadsCopies(succ)[<<E, 0>>] \subseteq AfterCopy(succ, <<E, 0>>) /\ AfterCopy(succ, <<E, 0>>) \subseteq D
        /\ \A y \in AfterCopy(succ, <<E, 0>>) : LeadsCopies(succ)[y] \subseteq AfterCopy(succ, <<E, 0>>)
    BY <1>1, CopiesAfter
  <2> HIDE DEF succ, D, E
  <2> QED BY <1>1, <2>1
<1>3. \A x \in Copies(w) : x \in V => \A i \in DOMAIN w.edges[x[1]] : CopyNext(w, x, i) \in V
  <2>1. \A x \in Copies(w) : LeadsCopies(succ)[x] = {CopyNext(w, x, i) : i \in DOMAIN w.edges[x[1]]}
    BY UnrolledFacts
  <2> HIDE DEF succ, V
  <2> QED BY <1>2, <2>1
<1>4. E \in NodesOf(w) /\ LoopOf(w, E) = {} /\ {E} \cup After(w, E) = NodesOf(w) /\ <<E, 0>> \in V
  BY EntryFacts DEF OneEntry
<1> HIDE DEF V, E, succ, D
\* An edge that leaves a node on no loop with its target, all of whose copies are reached.
<1>5. ASSUME NEW k \in NodesOf(w) \ Left, NEW n \in TargetsOf(w, k), n \notin LoopOf(w, k) PROVE <<n, 0>> \in V
  <2>1. PICK i \in DOMAIN w.edges[k] : w.edges[k][i] = n
    BY DEF TargetsOf
  <2>2. <<k, 0>> \in Copies(w) /\ <<k, 0>> \in V
    BY CopyFacts
  <2>3. CopyNext(w, <<k, 0>>, i) \in V
    <3>1. <<k, 0>>[1] = k
      OBVIOUS
    <3> QED BY <1>3, <2>1, <2>2, <3>1
  <2>4. CopyNext(w, <<k, 0>>, i) = <<n, 0>>
    <3>1. <<k, 0>>[1] = k
      OBVIOUS
    <3> QED BY <1>5, <2>1, <3>1 DEF CopyNext, Rewritten
  <2> QED
    BY <2>3, <2>4
<1>6. \A n \in NodesOf(w) : After(w, n) \subseteq NodesOf(w) /\ TargetsOf(w, n) \subseteq After(w, n)
                           /\ \A m \in After(w, n) : After(w, m) \subseteq After(w, n)
  BY AuthoredAfter
<1>7. \A n \in NodesOf(w) : LoopOf(w, n) = {m \in After(w, n) : n \in After(w, m)}
  BY DEF LoopOf
<1>8. ASSUME NEW n \in Left, \A k \in NodesOf(w) : n \in After(w, k) /\ k \notin {n} \cup After(w, n) => k \notin Left
      PROVE  FALSE
  <2>1. CASE LoopOf(w, n) = {}
    <3>1. Layers(w, n) = {0} /\ <<n, 0>> \notin V
      BY <2>1 DEF Layers
    <3>2. n \in After(w, E)
      BY <1>4, <3>1
    <3>3. PICK k \in {E} \cup After(w, E) : n \in TargetsOf(w, k)
      BY <1>4, <3>2, AuthoredAfter
    <3>4. k \in NodesOf(w) /\ n \in After(w, k)
      BY <1>4, <1>6, <3>3
    <3>5. n \notin After(w, n) /\ k \notin {n} \cup After(w, n) /\ n \notin LoopOf(w, k)
      <4>1. n \notin After(w, n)
        BY <1>7, <2>1
      <4>2. k \notin {n} \cup After(w, n)
        BY <1>6, <3>4, <4>1
      <4> QED BY <1>7, <3>4, <4>1, <4>2
    <3> QED
      BY <1>5, <1>8, <3>1, <3>3, <3>4, <3>5
  <2>2. CASE LoopOf(w, n) # {}
    <3> DEFINE loop == LoopOf(w, n)
               h == HeaderOf(w, loop)
    <3>1. n \in LoopNodes(w) /\ n \in loop /\ \A m \in loop : LoopOf(w, m) = loop
      BY <2>2, LoopFacts DEF LoopNodes
    <3>2. h \in loop /\ \E k \in NodesOf(w) \ loop : h \in TargetsOf(w, k)
      BY <3>1, HeaderIsEntered
    <3> HIDE DEF h
    <3>3. PICK k \in NodesOf(w) \ loop : h \in TargetsOf(w, k)
      BY <3>2
    <3>4. h \in NodesOf(w) /\ h \in After(w, k) /\ n \in After(w, h) /\ h \in After(w, n)
      BY <1>6, <1>7, <3>1, <3>2, <3>3
    <3>5. n \in After(w, k) /\ k \notin {n} \cup After(w, n) /\ h \notin LoopOf(w, k)
      <4>1. n \in After(w, k)
        BY <1>6, <3>4
      <4>2. k \notin {n} \cup After(w, n)
        BY <1>7, <3>1, <3>3, <4>1
      <4>3. k \notin After(w, h)
        BY <1>6, <3>4, <4>2
      <4> QED BY <1>7, <4>1, <4>2, <4>3
    <3>6. <<h, 0>> \in V
      BY <1>5, <1>8, <3>3, <3>5
    <3>7. \A c \in 0 .. w.reroutes : <<n, c>> \in V
      BY <1>3, <3>1, <3>6, LoopIsReached DEF h
    <3> QED
      BY <2>2, <3>7 DEF Layers
  <2> QED
    BY <2>1, <2>2
<1>9. Left = {}
  <2> SUFFICES ASSUME Left # {} PROVE FALSE
    OBVIOUS
  <2> DEFINE B == {L \in SUBSET NodesOf(w) : \E n \in Left : L = Leading(w, n)}
  <2>1. \A n \in Left : Leading(w, n) \in SUBSET NodesOf(w) /\ n \in NodesOf(w)
    BY DEF Leading
  <2>2. PICK L \in B : \A U \in B : U \subseteq L => U = L
    <3>1. B \subseteq SUBSET NodesOf(w) /\ B # {}
      BY <2>1
    <3> HIDE DEF B
    <3> QED BY <3>1, WorkflowFacts, SmallestSubset
  <2>3. PICK n \in Left : L = Leading(w, n)
    OBVIOUS
  <2>4. ASSUME NEW k \in NodesOf(w), n \in After(w, k), k \notin {n} \cup After(w, n), k \in Left PROVE FALSE
    <3>1. Leading(w, k) \subseteq L
      BY <1>6, <2>3, <2>4 DEF Leading
    <3>2. n \in L /\ n \notin Leading(w, k)
      BY <2>1, <2>3, <2>4 DEF Leading
    <3>3. Leading(w, k) \in B
      BY <2>1, <2>4
    <3> QED
      BY <2>2, <3>1, <3>2, <3>3
  <2> HIDE DEF Left
  <2> QED
    BY <1>8, <2>3, <2>4
<1>10. Copies(w) \subseteq V
  <2> SUFFICES ASSUME NEW x \in Copies(w) PROVE x \in V
    OBVIOUS
  <2>1. x = <<x[1], x[2]>> /\ x[1] \in NodesOf(w) /\ x[2] \in Layers(w, x[1])
    BY CopyFacts
  <2>2. <<x[1], x[2]>> \in V
    BY <1>9, <2>1
  <2> QED
    BY <2>1, <2>2
<1>11. Overflows(w) \subseteq V
  <2>1. SUFFICES ASSUME NEW n \in LoopNodes(w) PROVE Overflow(w, LoopOf(w, n)) \in V
    BY DEF Overflows
  <2> DEFINE h == HeaderOf(w, LoopOf(w, n))
  <2>2. LoopOf(w, n) \in SUBSET NodesOf(w) /\ LoopOf(w, n) # {}
    BY LoopIsConnected DEF Loops
  <2>3. h \in NodesOf(w)
    BY <2>2, HeaderIsInLoop
  <2> HIDE DEF h
  <2>4. <<h, 0>> \in V
    BY <1>10, <2>3, CopyFacts
  <2> QED
    BY <1>3, <2>4, LoopIsReached DEF h
<1> QED
  BY <1>1, <1>2, <1>10, <1>11 DEF V, D, succ, E

\* Every workflow with one entry, from which all its nodes can be reached, compiles.
LEMMA OneEntryCompiles ==
    ASSUME NEW w \in Usual, OneEntry(w)
    PROVE  Compiled(w).ok
<1>1. \A x \in DOMAIN Unrolled(w) : x \notin AfterCopy(Unrolled(w), x)
  BY UnrolledIsAcyclic DEF Acyclic
<1> DEFINE succ == Unrolled(w)
           entry == <<EntryOf(w), 0>>
<1>2. Compiled(w) = [ok |-> /\ \A x \in DOMAIN succ : x \notin AfterCopy(succ, x)
                            /\ {entry} \cup AfterCopy(succ, entry) = DOMAIN succ,
                     succ |-> succ, entry |-> entry]
  BY DEF Compiled, OneEntry, Usual
<1>3. {entry} \cup AfterCopy(succ, entry) = DOMAIN succ
  BY UnrolledIsReached
<1> HIDE DEF succ, entry
<1> QED
  BY <1>1, <1>2, <1>3 DEF succ

\* An edge without a target: nothing is compiled, and no run begins.
Untargeted == ~Targeted(spec) => ~dag.ok /\ st.status = "new"

\* RunsFollowAuthored: every workflow with one entry, no node of which labels two edges alike or
\* leaves an edge without a target, compiles, and a run of what it was compiled to is where the
\* same answers lead in the workflow as authored, until its reroutes are used up
\* (compile.Compile, engine.NewRunAt and the engine's events).
THEOREM RunsFollow == WorkflowSpec => []RunsFollowAuthored
<1> DEFINE Kept == spec \in Workflows /\ Untargeted /\ (spec \in Usual => WorkflowKept)
<1>1. WorkflowInit => Kept
  BY WorkflowStarts DEF WorkflowInit, Untargeted, Compiled
<1>2. Kept /\ [WorkflowNext]_workflowVars => Kept'
  <2> SUFFICES ASSUME Kept, [WorkflowNext]_workflowVars PROVE Kept'
    OBVIOUS
  <2>1. spec' = spec /\ dag' = dag
    BY DEF WorkflowNext, workflowVars, NewRun, WorkCompleted, CommandCompleted, SelectDecided, Routed,
           BudgetExceeded, RetryOrFinish, Follows, Becomes
  <2>2. spec \in Usual => WorkflowKept'
    BY WorkflowStep
  <2>3. ~dag.ok /\ st.status = "new" => st' = st
    BY DEF WorkflowNext, workflowVars, NewRun, WorkCompleted, CommandCompleted, SelectDecided, Routed,
           BudgetExceeded, At
  <2> QED
    BY <2>1, <2>2, <2>3 DEF Untargeted
<1>3. Kept => RunsFollowAuthored
  <2> SUFFICES ASSUME Kept, Labelled(spec) PROVE Compiles /\ (st.status # "new" => OnTheWay /\ CutOffLate)
    BY DEF RunsFollowAuthored
  <2>1. CASE ~Targeted(spec)
    BY <2>1 DEF Untargeted, Compiles
  <2>2. CASE Targeted(spec)
    <3>1. spec \in Usual /\ WorkflowKept
      BY <2>2 DEF Usual
    <3>2. Compiles
      <4>1. dag = Compiled(spec)
        BY <3>1 DEF WorkflowKept
      <4> QED
        BY <3>1, <4>1, OneEntryCompiles DEF Compiles, OneEntry
    <3>3. st.status # "new" => OnTheWay /\ CutOffLate
      BY <3>1, KeptFollows
    <3> QED
      BY <3>2, <3>3
  <2> QED
    BY <2>1, <2>2
<1> HIDE DEF Kept
<1>4. QED
  BY <1>1, <1>2, <1>3, PTL DEF WorkflowSpec
=============================================================================
