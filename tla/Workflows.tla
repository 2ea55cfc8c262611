------------------------------ MODULE Workflows ------------------------------
(***************************************************************************)
(* Node workflows: how a workflow with loops is compiled into an acyclic   *)
(* graph of layers (internal/sdlc/compile), and how a run is folded over   *)
(* that graph, event by event (internal/sdlc/engine).  The packages are    *)
(* complete and tested, and no command calls them yet.                     *)
(***************************************************************************)
EXTENDS Integers, Sequences, FiniteSets, FiniteSetsExt

CONSTANTS
    Workflows,   \* [kind, edges, labels, self, makes, reroutes, attempts, missing] (see below)
    Seeded       \* sets of nodes whose artifacts a run may be started with

\* A workflow as it is validated: its edges lead to nodes of it, but that the target of a
\* route may be empty, 0 here; and a route may be labelled as the default is.
ASSUME WorkflowConstants ==
    \A w \in Workflows :
        /\ w.edges \in Seq(Seq({0} \cup DOMAIN w.edges))
        /\ \A n \in DOMAIN w.edges :
              w.kind[n] \in {"join", "work", "select"} => w.edges[n] # <<>> /\ w.edges[n][1] # 0
        /\ w.reroutes \in Nat
        /\ w.attempts \in Nat \ {0}

VARIABLES
    spec,  \* the authored workflow: nodes 1 .. n, the targets of each in the order of Edges,
           \* and their labels
    dag,   \* what Compile returns: [ok, nodes, succ, entry]; a node is <<authored, layer>>
    st,    \* the engine's State
    walk   \* history: where the same answers lead in the authored workflow, and how often
           \* each of its nodes was entered: [at, visits, back]

workflowVars == <<spec, dag, st, walk>>
-----------------------------------------------------------------------------
(***************************************************************************)
(* Compile                                                                 *)
(***************************************************************************)
NodesOf(w) == DOMAIN w.edges
TargetsOf(w, n) == {w.edges[n][i] : i \in DOMAIN w.edges[n]}

\* Every edge has a target.
Targeted(w) == \A n \in NodesOf(w) : 0 \notin TargetsOf(w, n)

\* What can be reached from a set of nodes by edges that lead each node to a set of them.
Reachable(from, next) ==
    LET grown[S \in SUBSET DOMAIN next] ==
            LET more == S \cup UNION {next[n] : n \in S}
            IN  IF more = S THEN S ELSE grown[more]
    IN  grown[from]

Leads(w) == [n \in NodesOf(w) |-> TargetsOf(w, n)]
After(w, n) == Reachable(TargetsOf(w, n), Leads(w))

\* stronglyConnectedComponents: nodes on a loop with n; none if n is on none.
LoopOf(w, n) == {m \in After(w, n) : n \in After(w, m)}

\* entryNode: the one node that nothing leads to.
Entries(w) == NodesOf(w) \ UNION {TargetsOf(w, n) : n \in NodesOf(w)}
EntryOf(w) == CHOOSE n \in Entries(w) : TRUE

\* sccEntry: where the rest of the workflow enters a loop.
HeaderOf(w, loop) ==
    LET entered == {n \in loop : \E m \in NodesOf(w) \ loop : n \in TargetsOf(w, m)}
    IN  IF EntryOf(w) \in loop THEN EntryOf(w) ELSE Min(IF entered = {} THEN loop ELSE entered)

\* classify: a search of a loop.  It keeps the nodes whose calls are open, the last of them
\* innermost, the edge each node has come to (0: the node was not seen) and the edges that
\* go back, which are those to a node that is open.
SearchStates(loop) == [open : Seq(loop), at : [loop -> Nat], back : SUBSET (loop \X Nat)]

SearchAt(open, at, back) == [open |-> open, at |-> at, back |-> back]

Searched(w, loop, s) ==
    LET n == s.open[Len(s.open)]
        i == s.at[n]
        t == w.edges[n][i]
        on == [s.at EXCEPT ![n] = i + 1]
    IN  IF i > Len(w.edges[n]) THEN SearchAt(SubSeq(s.open, 1, Len(s.open) - 1), s.at, s.back)
        ELSE IF t \notin loop THEN SearchAt(s.open, on, s.back)
        ELSE IF \E k \in DOMAIN s.open : s.open[k] = t THEN SearchAt(s.open, on, s.back \cup {<<n, i>>})
        ELSE IF s.at[t] = 0 THEN SearchAt(Append(s.open, t), [on EXCEPT ![t] = 1], s.back)
        ELSE SearchAt(s.open, on, s.back)

BackEdges(w, loop) ==
    LET search[s \in SearchStates(loop)] == IF s.open = <<>> THEN s.back ELSE search[Searched(w, loop, s)]
        start == HeaderOf(w, loop)
    IN  search[SearchAt(<<start>>, [n \in loop |-> IF n = start THEN 1 ELSE 0], {})]

Overflow(w, loop) == <<HeaderOf(w, loop), -1>>

\* Mutant of NextLayer: one layer too few.
NextLayerEarly(w, loop, t, c) == IF c + 1 >= w.reroutes THEN Overflow(w, loop) ELSE <<t, c + 1>>

NextLayer(w, loop, t, c) == IF c = w.reroutes THEN Overflow(w, loop) ELSE <<t, c + 1>>

\* Edges back are kept by the label: so is every other edge of that node and label.
GoesBack(w, back, n, i) ==
    \E j \in DOMAIN w.edges[n] : w.labels[n][j] = w.labels[n][i] /\ <<n, j>> \in back

\* rewriteLayerEdges: an edge out of the loop leads to the first copy of its target, an
\* edge back to the next layer, every other stays in its layer.
Rewritten(w, loop, back, n, c, i) ==
    LET t == w.edges[n][i]
    IN  IF t \notin loop THEN <<t, 0>>
        ELSE IF GoesBack(w, back, n, i) THEN NextLayer(w, loop, t, c) ELSE <<t, c>>

Layers(w, n) == IF LoopOf(w, n) = {} THEN {0} ELSE 0 .. w.reroutes

\* unrollSCC, for every loop, and the checks that end Compile.
Unrolled(w) ==
    LET loop == [n \in NodesOf(w) |-> LoopOf(w, n)]
        back == [n \in NodesOf(w) |-> IF loop[n] = {} THEN {} ELSE BackEdges(w, loop[n])]
        copies == UNION {{<<n, c>> : c \in Layers(w, n)} : n \in NodesOf(w)}
        over == {Overflow(w, loop[n]) : n \in {m \in NodesOf(w) : loop[m] # {}}}
    IN  [x \in copies \cup over |->
            IF x \in over THEN <<>>
            ELSE [i \in DOMAIN w.edges[x[1]] |-> Rewritten(w, loop[x[1]], back[x[1]], x[1], x[2], i)]]

LeadsCopies(succ) == [x \in DOMAIN succ |-> {succ[x][i] : i \in DOMAIN succ[x]}]
AfterCopy(succ, x) == Reachable(LeadsCopies(succ)[x], LeadsCopies(succ))

\* An edge without a target ends the compiler itself: the search for loops reads the node it
\* does not lead to.
Compiled(w) ==
    IF Cardinality(Entries(w)) # 1 \/ ~Targeted(w) THEN [ok |-> FALSE]
    ELSE LET succ == Unrolled(w)
             entry == <<EntryOf(w), 0>>
         IN  [ok |-> /\ \A x \in DOMAIN succ : x \notin AfterCopy(succ, x)
                     /\ {entry} \cup AfterCopy(succ, entry) = DOMAIN succ,
              succ |-> succ, entry |-> entry]
-----------------------------------------------------------------------------
(***************************************************************************)
(* Engine                                                                  *)
(***************************************************************************)
Kind(x) == IF x[2] = -1 THEN "terminal" ELSE spec.kind[x[1]]
Finishes(s, status) == [s EXCEPT !.status = status]

\* resolveAssignment: a node's agent is the one assigned to that copy of it.
HasAgent(s, x) == x[1] \in spec.self \/ x \in s.assigned

\* Joins are passed, and, where a run starts, work whose artifacts are there already.
Passes(n, seeded) == spec.kind[n] = "join" \/ (spec.kind[n] = "work" /\ n \in seeded \cap spec.makes)

\* FirstUnsatisfiedNode: the first copy from x on that is not passed.
FirstUnsatisfied(x, seeded) ==
    LET first[y \in DOMAIN dag.succ] ==
            IF Kind(y) # "terminal" /\ Passes(y[1], seeded) THEN first[dag.succ[y][1]] ELSE y
    IN  first[x]

\* enter: a terminal ends the run, work without an agent is an error.
Enter(s, x) ==
    LET y == FirstUnsatisfied(x, {})
        there == [s EXCEPT !.current = y]
    IN  IF Kind(y) = "terminal" THEN [there EXCEPT !.status = "terminal"]
        ELSE IF Kind(y) = "work" /\ ~HasAgent(s, y) THEN [there EXCEPT !.error = TRUE]
        ELSE IF Kind(y) \in {"work", "check"} THEN [there EXCEPT !.attempts[y] = @ + 1]
        ELSE there

\* The same way in the authored workflow, where it may lead round a loop for ever: it is
\* followed until it has come to a node more often than the reroutes allow.
Walks == [at : NodesOf(spec), visits : [NodesOf(spec) -> Nat], back : Nat]

Comes(v, n) ==
    [at |-> n, visits |-> [v.visits EXCEPT ![n] = @ + 1],
     back |-> v.back + (IF v.visits[n] > 0 THEN 1 ELSE 0)]

Walked(v, n, seeded) ==
    LET walked[u \in Walks] ==
            IF Passes(u.at, seeded) /\ u.visits[u.at] <= spec.reroutes + 1
            THEN walked[Comes(u, spec.edges[u.at][1])] ELSE u
    IN  walked[Comes(v, n)]

WorkflowInit ==
    /\ spec \in Workflows
    /\ dag = Compiled(spec)
    /\ st = [current |-> <<0, 0>>, status |-> "new", error |-> FALSE, attempts |-> <<>>,
             assigned |-> {}, supervised |-> {}]
    /\ walk = [at |-> 0, visits |-> [n \in NodesOf(spec) |-> 0], back |-> 0]

\* An event that meets an error changes nothing.
Becomes(s, v) == ~s.error /\ st' = s /\ walk' = v /\ UNCHANGED <<spec, dag>>

\* NewRunAt, at the first node that the artifacts given to the run leave to do.
NewRun(seeded) ==
    /\ st.status = "new" /\ dag.ok
    /\ LET fresh == [st EXCEPT !.status = "running", !.attempts = [x \in DOMAIN dag.succ |-> 0]]
       IN  Becomes(Enter(fresh, FirstUnsatisfied(dag.entry, seeded)),
                   Walked(walk, EntryOf(spec), seeded))

At(kinds) == st.status = "running" /\ Kind(st.current) \in kinds

\* The run goes on along the i-th edge of its node, with the state s.
Follows(s, i) == Becomes(Enter(s, dag.succ[st.current][i]), Walked(walk, spec.edges[st.current[1]][i], {}))

\* retryOrFinish: an assignment of low confidence is not repeated.
LimitAt(x) == IF x \in st.supervised THEN 1 ELSE spec.attempts

RetryOrFinish ==
    IF st.attempts[st.current] < LimitAt(st.current)
    THEN Becomes([st EXCEPT !.attempts[st.current] = @ + 1], walk)
    ELSE Becomes(Finishes(st, "failed"), walk)

\* applyWorkCompleted: failed, or without its required artifacts; or done, with a cost that
\* was reported or not.
WorkCompleted(done, costed) ==
    /\ At({"work"})
    /\ IF ~done THEN RetryOrFinish
       ELSE IF ~costed /\ spec.missing = "block" THEN Becomes(Finishes(st, "failed"), walk)
       ELSE Follows(st, 1)

\* applyCommandCompleted; route 0: the command could not be run.
CommandCompleted(route) ==
    /\ At({"check"}) /\ route \in {0} \cup DOMAIN dag.succ[st.current]
    /\ IF route = 0 THEN RetryOrFinish ELSE Follows(st, route)

\* applySelectDecision: also a fallback assigns, its declared default.
SelectDecided(decision) ==
    /\ At({"select"})
    /\ LET to == dag.succ[st.current][1]
       IN  Follows([st EXCEPT !.assigned = @ \cup {to},
                              !.supervised = IF decision = "gather" THEN @ \cup {to} ELSE @ \ {to}], 1)

\* applyGateDecision, applyDecideDecision (a fallback takes the last edge, the default) and
\* applyHumanResponded.
Routed(route) ==
    /\ At({"gate", "decide", "human"}) /\ route \in DOMAIN dag.succ[st.current]
    /\ Follows(st, route)

\* checkBudgetCeilings: any event may bring the news.
BudgetExceeded == st.status = "running" /\ Becomes(Finishes(st, "failed"), walk)

WorkflowNext ==
    \/ \E seeded \in Seeded : NewRun(seeded)
    \/ \E done, costed \in BOOLEAN : WorkCompleted(done, costed)
    \/ \E route \in 0 .. 3 : CommandCompleted(route) \/ Routed(route)
    \/ \E decision \in {"act", "gather", "fallback"} : SelectDecided(decision)
    \/ BudgetExceeded

WorkflowSpec == WorkflowInit /\ [][WorkflowNext]_workflowVars
-----------------------------------------------------------------------------
\* Loops that are entered at their headers only: an edge back leads to a node which every
\* way to its source has passed.
Around(w, t) == [n \in NodesOf(w) |-> TargetsOf(w, n) \ {t}]

Reducible(w) ==
    \A n \in NodesOf(w) : LoopOf(w, n) # {} =>
        \A e \in BackEdges(w, LoopOf(w, n)) :
            LET t == w.edges[e[1]][e[2]]
            IN  e[1] = t \/ e[1] \notin Reachable({EntryOf(w)} \ {t}, Around(w, t))

\* No two edges of a node have one label.
Labelled(w) ==
    \A n \in NodesOf(w) : \A i, j \in DOMAIN w.edges[n] : w.labels[n][i] = w.labels[n][j] => i = j

\* Every workflow with one entry, from which all its nodes can be reached, and whose edges all
\* have a target compiles.
Compiles ==
    Cardinality(Entries(spec)) = 1 /\ Targeted(spec)
      /\ {EntryOf(spec)} \cup After(spec, EntryOf(spec)) = NodesOf(spec)
      => dag.ok

\* A run is where the same answers lead in the workflow as authored, no node of which it
\* enters more often than the reroutes allow, and no copy of a node is tried more often than
\* the attempts allow.
OnTheWay ==
    st.current[2] # -1 =>
      /\ st.current[1] = walk.at
      /\ \A n \in NodesOf(spec) : walk.visits[n] <= spec.reroutes + 1
      /\ \A x \in DOMAIN dag.succ : st.attempts[x] <= spec.attempts

\* It is cut off only after it was sent back more often, but for loops with several entries,
\* one of which the compiler takes for an edge back.
CutOffLate == st.current[2] = -1 /\ Reducible(spec) => walk.back > spec.reroutes

\* Of the workflows no node of which labels two edges alike, every one that can be compiled is,
\* and a run of what it is compiled to follows the workflow as authored, until it has used up
\* the reroutes.
RunsFollowAuthored ==
    Labelled(spec) => Compiles /\ (st.status # "new" => OnTheWay /\ CutOffLate)
=============================================================================
