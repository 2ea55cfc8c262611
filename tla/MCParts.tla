------------------------------ MODULE MCParts ------------------------------
(***************************************************************************)
(* Instances, for TLC, of the components that share no state with each     *)
(* other: `part` says which of them takes the steps of a behaviour.        *)
(***************************************************************************)
EXTENDS Fanout, StageFlow, JevCalls, SubtaskGraph, PlanApproval, Delegation, WorkerCalls,
    InjectionReviews, Workflows, AgentConfigs, SavedRuns,
    Redaction, TLC

CONSTANTS
    Parts, \* the components of this instance
    d1, d2 \* two drivers

VARIABLE part

partsVars == <<part, fanoutVars, flowVars, jevVars, graphVars, planVars, delegationVars,
               workerVars, reviewVars, workflowVars, configVars, savedVars,
               redactVars>>

\* InjectionReviews: users and projects that set each thing or leave it, alone and together;
\* outputs that differ in what decides about them.  The store runs under one policy.
MCUser(mode, injection, tools, bytes, eager) ==
    [valid |-> TRUE, kill |-> {"user"}, injects |-> injection # "unset",
     set |-> [k \in {"mode", "injection", "markers", "tools", "bytes", "eager"}
                     \ ((IF injection = "unset" THEN {"injection", "markers", "tools", "bytes", "eager"} ELSE {})
                          \cup (IF tools = {"unset"} THEN {"tools"} ELSE {})) |->
                CASE k = "mode" -> mode [] k = "injection" -> injection [] k = "markers" -> FALSE
                  [] k = "tools" -> tools [] k = "bytes" -> bytes [] OTHER -> eager]]

MCProject(injection, tools, all, eager, markers, bytes) ==
    [valid |-> TRUE, kill |-> {"project"}, injection |-> injection, tools |-> tools, all |-> all,
     eager |-> eager, markers |-> markers, bytes |-> bytes]

MCPolicy ==
    [user |-> MCUser("enforce", "enforce", {"unset"}, 2, TRUE),
     project |-> MCProject("off", {}, TRUE, FALSE, FALSE, 0), guard |-> "unset", yolo |-> FALSE]

MCUnreadable == [MCPolicy EXCEPT !.user.valid = FALSE]

MCPolicies ==
    [user : {MCUser(mode, injection, tools, bytes, eager) :
                mode \in {"shadow", "enforce"}, injection \in {"unset", "off", "shadow", "enforce"},
                tools \in {{"unset"}, {}, {"shell"}}, bytes \in {1, 2}, eager \in BOOLEAN},
     project : {MCProject(injection, tools, all, eager, markers, bytes) :
                injection \in {"off", "shadow", "enforce"}, tools \in {{}, {"mcp"}}, all \in BOOLEAN,
                eager \in BOOLEAN, markers \in BOOLEAN, bytes \in {0, 3}},
     guard : {"unset"}, yolo : {FALSE}]
    \cup {MCUnreadable}

MCShellCommands ==
    {[review |-> FALSE, words |-> words, outside |-> outside, risk |-> 3, sure |-> "act"] :
        words \in SUBSET {"user", "project"}, outside \in BOOLEAN}

MCOutputs ==
    {[tool |-> tool, content |-> "x", suspicious |-> suspicious, marker |-> FALSE, at |-> at, sure |-> sure] :
        tool \in {"shell", "mcp"}, suspicious \in BOOLEAN, at \in {1, 3}, sure \in {"act", "gather"}}
    \cup {[tool |-> "shell", content |-> content, suspicious |-> TRUE, marker |-> TRUE, at |-> 1, sure |-> "none"] :
            content \in {"x", "y"}}

\* Workflows: all ways for a check and a decision to lead on and back, with work that two
\* edges lead to, that a selection assigns before them, or that may be done already with
\* the work before it.
MCNumbered(edges) == [n \in DOMAIN edges |-> [i \in DOMAIN edges[n] |-> i]]

MCLabelled(w) ==
    [kind |-> w.kind, edges |-> w.edges, labels |-> MCNumbered(w.edges), self |-> w.self, makes |-> w.makes,
     reroutes |-> w.reroutes, attempts |-> w.attempts, missing |-> w.missing]

MCFlow(first, third, fourth, reroutes) ==
  MCLabelled(
    [kind |-> <<first, "work", "check", "decide", "terminal", "join">>,
     edges |-> <<IF first = "human" THEN <<2, 6>> ELSE <<2>>, <<3>>, third, fourth, <<>>,
                 IF first = "human" THEN <<4>> ELSE <<5>>>>,
     self |-> IF first = "select" THEN {} ELSE {1, 2}, makes |-> {1, 2}, reroutes |-> reroutes,
     attempts |-> 2, missing |-> "block"])

MCTwo(targets) == {<<x, y>> : x, y \in targets}

MCWorkflow ==
  MCLabelled(
    [kind |-> <<"human", "terminal">>, edges |-> <<<<2>>, <<>>>>, self |-> {}, makes |-> {},
     reroutes |-> 1, attempts |-> 1, missing |-> "block"])

MCJoins(reroutes) ==
  MCLabelled(
    [kind |-> <<"human", "join", "join", "terminal">>, edges |-> <<<<2, 4>>, <<3>>, <<2>>, <<>>>>,
     self |-> {}, makes |-> {}, reroutes |-> reroutes, attempts |-> 1, missing |-> "block"])

\* A decision whose default leads on and one of whose routes, labelled "default", leads back;
\* and an answer that leads nowhere.
MCAlike ==
    [kind |-> <<"human", "human", "decide", "human", "terminal">>,
     edges |-> <<<<2>>, <<3, 4>>, <<2, 4>>, <<2, 5>>, <<>>>>,
     labels |-> <<<<"go">>, <<"a", "b">>, <<"default", "default">>, <<"a", "b">>, <<>>>>,
     self |-> {}, makes |-> {}, reroutes |-> 1, attempts |-> 1, missing |-> "block"]

MCNowhere == [MCWorkflow EXCEPT !.edges = <<<<2, 0>>, <<>>>>, !.labels = <<<<"a", "b">>, <<>>>>]

MCWorkflows ==
    {MCWorkflow, MCAlike, MCNowhere} \cup {MCJoins(reroutes) : reroutes \in 0 .. 2}
    \cup {MCFlow(first, third, fourth, reroutes) :
        first \in {"human", "select", "work"}, third \in MCTwo({2, 3, 4, 5}), fourth \in MCTwo({2, 3, 5, 6}),
        reroutes \in 0 .. 2}

\* AgentConfigs: a hooks file and a list of servers, with what adapters do not keep.
MCTexts ==
    [c \in Components |-> IF c = "hooks" THEN {{"hook", "within", "bare", "value", "flag"}, {"hook"}}
                           ELSE {{"server", "jevkit"}}]

\* SavedRuns: a run and the child it may get.
MCParentOf == <<0, 1>>

\* Redaction: texts of two lines for keys that span them; of one line for what else is
\* hidden, under files that set each thing; objects; and files that commands edit.
MCSpec(rules, literals, never, strict, off) ==
    [sound |-> TRUE, rules |-> rules, literals |-> literals, envs |-> {}, never |-> never,
     strict |-> strict, off |-> off, allow |-> {}]

MCEmpty  == MCSpec({}, {}, {}, FALSE, {})
MCSecret == <<<<"a">>>>
MCLonger == <<<<"a", "b">>>>
MCRule(id, word, as) == [id |-> id, word |-> word, as |-> as]

MCEnviron ==
    {[name |-> "token", value |-> <<<<"c">>, <<>>, <<"c", "d">>>>, credential |-> TRUE, length |-> 12],
     [name |-> "named", value |-> <<<<"own">>>>, credential |-> FALSE, length |-> 9],
     [name |-> "short", value |-> <<<<"who">>>>, credential |-> TRUE, length |-> 3]}

MCLines(words, most) == UNION {[1 .. n -> words] : n \in 0 .. most}

\* Two names in a row are left out: which of them is the value is the first one's to say.
MCLine(words, most) ==
    {l \in MCLines(words, most) : \A i \in 1 .. Len(l) - 1 : l[i] # "key" \/ l[i + 1] # "key"}

MCPayload(texts, json) ==
    [subject |-> {"cat"}, json |-> json, texts |-> texts, keys |-> IF json THEN {1, 2} ELSE {}]

MCCase(user, project, payload1, edits) ==
    [user |-> user, project |-> project, payload |-> payload1, edits |-> edits]

MCSecrets == MCSpec({MCRule(1, "own", Mark)}, {MCSecret, MCLonger}, {}, FALSE, {})
MCAdding  == MCSpec({MCRule(2, "host", "text")}, {}, {}, TRUE, {})

MCCases ==
    {MCCase(MCSecrets, MCEmpty, MCPayload(<<<<l, m>>>>, FALSE), 0) :
        l, m \in MCLine({"begin", "end", "a"}, 3)}
    \cup {MCCase(MCSecrets, MCEmpty, MCPayload(<<<<l>>>>, FALSE), 0) :
              l \in MCLine({"a", "b", "c", "d", "key"}, 4)}
    \cup {MCCase(user, project, MCPayload(<<<<l>>>>, FALSE), 0) :
              user \in {MCEmpty, MCSecrets, MCSpec({}, {}, {}, FALSE, {"mail"}),
                        [MCEmpty EXCEPT !.allow = {"mail"}]},
              project \in {MCEmpty, MCAdding, [MCEmpty EXCEPT !.envs = {"named", "short"}]},
              l \in MCLine({"who", "host", "home", "digest", "own"}, 3)}
    \cup {MCCase(user, MCEmpty, MCPayload(<<<<l>>, <<m>>>>, json), 0) :
              user \in {MCSecrets, MCSpec({}, {<<<<Mark>>>>}, {}, FALSE, {}),
                        MCSpec({MCRule(1, "own", "a")}, {MCSecret}, {}, FALSE, {})},
              l, m \in MCLine({"a", "own"}, 1), json \in BOOLEAN}
    \cup {MCCase(user, project, MCPayload(<<<<<<"a">>>>>>, FALSE), 2) :
              user \in {MCEmpty, MCSecrets}, project \in {MCEmpty, MCAdding, MCSpec({}, {}, {}, FALSE, {"mail"}), [MCEmpty EXCEPT !.sound = FALSE]}}

MCLayerEdits ==
    [kind : {"literals"}, word : {MCSecret}, id : {0}, add : BOOLEAN]
      \cup [kind : {"rules"}, word : {"a"}, id : {1}, add : BOOLEAN]
      \cup [kind : {"never"}, word : {"cat"}, id : {0}, add : {TRUE}]

MCFirst == MCCase(MCEmpty, MCEmpty, MCPayload(<<<<<<"a">>>>>>, FALSE), 2)

Fixed(name, value) == IF part = name THEN TRUE ELSE value

PartsInit ==
    /\ part \in Parts
    /\ Fixed("workflow", spec = MCWorkflow) /\ WorkflowInit
    /\ Fixed("policy", policy = IF part = "reviews" THEN MCPolicy ELSE MCUnreadable) /\ ReviewsInit
    /\ Fixed("configs", adapter = "claude" /\ file = [c \in Components |-> AbsentFile]) /\ ConfigInit
    /\ \E c \in Components : file[c] = AbsentFile \* the two files meet in commands only
    /\ IF part = "redact" THEN RedactionInit ELSE RedactionStart(MCFirst)
    /\ SavedInit /\ (part # "saved" => watcher.root = 1)
    /\ FanoutInit /\ FlowInit /\ JevInit /\ GraphInit /\ PlanInit /\ DelegationInit
    /\ WorkerInit
    /\ (part # "plan" => ~prun.require) /\ (part # "fanout" => run.concurrency = 1)

PartsNext ==
    /\ UNCHANGED part
    /\ IF part = "fanout" THEN FanoutNext ELSE UNCHANGED fanoutVars
    /\ IF part = "flow" THEN FlowNext ELSE UNCHANGED flowVars
    /\ IF part = "jev" THEN JevNext ELSE UNCHANGED jevVars
    /\ IF part = "graph" THEN GraphNext ELSE UNCHANGED graphVars
    /\ IF part = "plan" THEN PlanNext ELSE UNCHANGED planVars
    /\ IF part = "delegation" THEN DelegationNext ELSE UNCHANGED delegationVars
    /\ IF part = "worker" THEN InvocationStep
       ELSE IF part = "checks" THEN CheckStep ELSE UNCHANGED workerVars
    /\ IF part = "workflow" THEN WorkflowNext ELSE UNCHANGED workflowVars
    /\ IF part = "configs" THEN ConfigNext ELSE UNCHANGED configVars
    /\ IF part = "redact" THEN RedactionNext ELSE UNCHANGED redactVars
    /\ IF part = "saved" THEN SavedNext ELSE UNCHANGED savedVars
    /\ IF part = "reviews" THEN ReviewsNext ELSE UNCHANGED reviewVars

\* What tells the states of one part apart.
PartsView ==
    <<part, CASE part = "fanout" -> fanoutVars [] part = "flow" -> flowVars [] part = "jev" -> jevVars
              [] part = "graph" -> graphVars [] part = "plan" -> planVars
              [] part = "delegation" -> delegationVars [] part \in {"worker", "checks"} -> workerVars
              [] part = "workflow" -> workflowVars [] part = "configs" -> configVars [] part = "saved" -> savedVars
              [] part = "redact" -> redactVars
              [] OTHER -> reviewVars>>

\* Drivers are interchangeable.
DriverSymmetry == Permutations({d1, d2})

PartsSpec == PartsInit /\ [][PartsNext]_partsVars
-----------------------------------------------------------------------------
\* Fanout: independent subtasks, each with a path of its own.
MCDependsOn  == [s \in Subtasks |-> {}]
MCOwnedPaths == [s \in Subtasks |-> {IF s = 1 THEN "p1" ELSE "p2"}]

\* StageFlow: a plan, a question that chooses between a child run and own work, a review.
MCKindOf ==
    "plan" :> "planner" @@ "decide" :> "question" @@ "build" :> "implementer"
      @@ "review" :> "assessor" @@ "sub" :> "spawn" @@ "ok" :> "succeeded" @@ "hold" :> "paused"

MCRoutes ==
    "plan" :> ("planned" :> "decide" @@ "answer" :> "ok" @@ "no-change" :> "ok")
      @@ "decide" :> ("fix" :> "build" @@ "split" :> "sub" @@ "fallback" :> "hold")
      @@ "build" :> ("changed" :> "review" @@ "answer" :> "ok" @@ "no-change" :> "ok")
      @@ "review" :> ("approved" :> "ok" @@ "changes-required" :> "decide")
      @@ "sub" :> ("succeeded" :> "review" @@ "paused" :> "hold" @@ "aborted" :> "decide")
      @@ "ok" :> <<>> @@ "hold" :> <<>>

\* SubtaskGraph: every way for three subtasks to depend on each other, with blanks
\* around one id or none; two of them with everything else that validation looks at.
MCName(s) == {<<s, FALSE>>}

MCProposal(subtasks, padded, deps, owned, order, texts, parallel) ==
    [subtasks |-> subtasks, padded |-> padded, deps |-> deps, owned |-> owned, order |-> order,
     texts |-> texts, parallel |-> parallel]

MCProposals ==
    {MCProposal({1, 2, 3}, {}, deps, [s \in 1 .. 3 |-> {<<s>>}], [s \in 1 .. 3 |-> s], Texts, parallel) :
        deps \in [1 .. 3 -> SUBSET {<<s, FALSE>> : s \in 1 .. 3}], parallel \in BOOLEAN}
    \cup
    {MCProposal(subtasks, padded, deps, [s \in 1 .. 2 |-> owned[s]], <<1, last>>, Texts \ missing, parallel) :
        subtasks \in {{}, {1}, {1, 2}}, padded \in {{}, {1}},
        deps \in {<<{}, {}>>, <<{}, {<<1, FALSE>>}>>, <<{}, {<<1, TRUE>>}>>},
        owned \in {<<{<<"a">>}, {<<"b">>}>>, <<{<<"a">>}, {<<"a", "b">>}>>, <<{}, {<<"b">>}>>},
        last \in 1 .. 2, missing \in {{}} \cup {{t} : t \in Texts}, parallel \in BOOLEAN}

MCCeilings == {<<3, 0>>, <<3, 1>>}

\* WorkerCalls: for each runtime an agent that may write and one that may not, and
\* the combinations that no argument list can enforce.
MCRequest(runtime, role, readOnly, named, permits) ==
    [runtime |-> runtime, role |-> role, readOnly |-> readOnly, named |-> named, permits |-> permits,
     diff |-> role = "assessor", hooks |-> runtime = "cursor"]

MCRequests ==
    {MCRequest("codex", "implementer", FALSE, FALSE, FALSE), MCRequest("codex", "implementer", TRUE, FALSE, FALSE),
     MCRequest("opencode", "assessor", FALSE, FALSE, FALSE), MCRequest("cursor", "assessor", FALSE, FALSE, TRUE),
     MCRequest("claude", "planner", FALSE, TRUE, FALSE), MCRequest("claude", "research", TRUE, TRUE, FALSE),
     MCRequest("antigravity", "qa", FALSE, FALSE, FALSE)}

MCCheckPlans == {<<>>, <<"manual">>, <<"argv", "argv">>, <<"manual", "argv">>}
=============================================================================
