---------------------------- MODULE SubtaskGraph ----------------------------
(***************************************************************************)
(* The subtask graph a planner proposes (internal/sdlc/adaptive:           *)
(* plancontract.go) and the order its schedule allows (scheduler.go).  A   *)
(* proposal is rejected, which leaves one implementer, or kept and run.    *)
(* Names are compared as they are written: validation trims blanks that    *)
(* the search for cycles and the schedule do not.  Texts are present or    *)
(* absent; a path is the sequence of its parts.                            *)
(***************************************************************************)
EXTENDS Integers, FiniteSets, FiniteSetsExt, SequencesExt

CONSTANTS
    Proposals,  \* graphs a planner may propose in this instance
    Ceilings    \* concurrency the policy allows, and assignments left (0: no limit)

\* A graph is a list of subtasks, each with a list of names.
ASSUME GraphConstants ==
    \A g \in Proposals :
        /\ IsFiniteSet(g.subtasks)
        /\ \A s \in g.subtasks :
              /\ IsFiniteSet(g.deps[s])
              /\ \A dep \in g.deps[s] : dep = <<dep[1], dep[2]>> /\ dep[2] \in BOOLEAN

MaxPlanSubtasks == 12

\* A proposal: its subtasks, which of them have blanks around their id, the names
\* each depends on (<<subtask, blanks>>), the paths each owns, its place in the
\* merge order, the texts that are there, and whether to run in parallel.
Texts == {"independence", "details", "owner", "shared", "benefit"}

VARIABLES
    graph,   \* the graph that was kept
    finished \* its subtasks that have succeeded

graphVars == <<graph, finished>>

NoGraph == [mode |-> "none", concurrency |-> 1]

GraphInit == graph = NoGraph /\ finished = {}
-----------------------------------------------------------------------------
(***************************************************************************)
(* Validation                                                              *)
(***************************************************************************)

Name(g, s) == <<s, s \in g.padded>>
Names(g)   == {Name(g, s) : s \in g.subtasks}

\* The names a node of the search leads to; one that nobody has leads nowhere.
DependenciesOf(g, n) == UNION {g.deps[s] : s \in {t \in g.subtasks : Name(g, t) = n}}

Reached(g) == Names(g) \cup UNION {g.deps[s] : s \in g.subtasks}
Colors     == {"white", "gray", "black"}

\* hasCycle: a depth-first search that colours names, from a set of them that is
\* visited one by one.  It ends at a gray one, or with all of them black.
From(todo, color) == [todo |-> todo, color |-> color]

Search(g) ==
    LET visit[at \in [todo : SUBSET Reached(g), color : [Reached(g) -> Colors]]] ==
            LET n    == CHOOSE m \in at.todo : TRUE
                rest == at.todo \ {n}
                end  == visit[From(DependenciesOf(g, n), [at.color EXCEPT ![n] = "gray"])]
            IN  IF at.todo = {} THEN [found |-> FALSE, color |-> at.color]
                ELSE IF at.color[n] = "gray" THEN [found |-> TRUE, color |-> at.color]
                ELSE IF at.color[n] = "black" THEN visit[From(rest, at.color)]
                ELSE IF end.found THEN end
                ELSE visit[From(rest, [end.color EXCEPT ![n] = "black"])]
    IN  visit

\* Mutant of HasCycle: finds only what depends on itself.
HasLoop(g) == \E s \in g.subtasks : Name(g, s) \in g.deps[s]

HasCycle(g) == Search(g)[From(Names(g), [n \in Reached(g) |-> "white"])].found

PathsOverlap(p, q) == IsPrefix(p, q) \/ IsPrefix(q, p)

Ambiguous(g) ==
    \E s, t \in g.subtasks :
      /\ s # t
      /\ \/ \E p \in g.owned[s], q \in g.owned[t] : PathsOverlap(p, q)
         \/ g.order[s] = g.order[t]

Roots(g) == {s \in g.subtasks : g.deps[s] = {}}

\* rejectSubtaskGraph.
Rejected(g) ==
    \/ Cardinality(g.subtasks) < 2 \/ Cardinality(g.subtasks) > MaxPlanSubtasks
    \/ ~({"independence", "details"} \subseteq g.texts)
    \/ \E s \in g.subtasks : g.owned[s] = {} \/ <<>> \in g.owned[s]
    \/ Ambiguous(g)
    \/ \E s \in g.subtasks : \E dep \in g.deps[s] : dep[1] \notin g.subtasks \/ <<dep[1], FALSE>> = Name(g, s)
    \/ HasCycle(g)
    \/ (Roots(g) # g.subtasks \/ "shared" \in g.texts) /\ "owner" \notin g.texts
    \/ g.parallel /\ (Cardinality(Roots(g)) < 2 \/ "benefit" \notin g.texts)

Single == [mode |-> "single", concurrency |-> 1]

Bounded(g, policy, left) ==
    LET limit == IF left > 0 /\ left < policy THEN left ELSE policy
        ready == Cardinality(Roots(g))
    IN IF ~g.parallel \/ ready < 2 \/ limit < 2 THEN 1
       ELSE IF limit < ready THEN limit ELSE ready

\* preparePlannedArtifacts: NormalizeSubtaskGraph and BoundGraphConcurrency.
Propose(g, ceiling) ==
    /\ graph = NoGraph
    /\ graph' = IF g.subtasks = {} \/ Rejected(g) THEN Single
                ELSE [mode |-> "fan-out", proposal |-> g, concurrency |-> Bounded(g, ceiling[1], ceiling[2])]
    /\ UNCHANGED finished
-----------------------------------------------------------------------------
(***************************************************************************)
(* NewSchedule and ReadyIDs: ids are trimmed, the names depended on are not *)
(***************************************************************************)

Met(dep) == ~dep[2] /\ dep[1] \in finished

ReadyIDs ==
    IF graph.mode # "fan-out" THEN {}
    ELSE {s \in graph.proposal.subtasks \ finished : \A dep \in graph.proposal.deps[s] : Met(dep)}

Succeed(s) ==
    /\ s \in ReadyIDs
    /\ finished' = finished \cup {s}
    /\ UNCHANGED graph

GraphNext ==
    \/ \E g \in Proposals, ceiling \in Ceilings : Propose(g, ceiling)
    \/ \E s \in ReadyIDs : Succeed(s)

GraphSpec == GraphInit /\ [][GraphNext]_graphVars
-----------------------------------------------------------------------------
\* A graph that validation keeps can be finished: as long as a subtask is left, one is
\* ready.  A graph with blanks around its ids is the exception (its names are compared
\* trimmed by one function and as written by the next).
GraphFinishes ==
    graph.mode = "fan-out" /\ graph.proposal.padded = {}
      /\ (\A s \in graph.proposal.subtasks : \A dep \in graph.proposal.deps[s] : ~dep[2])
    => ReadyIDs # {} \/ finished = graph.proposal.subtasks
=============================================================================
