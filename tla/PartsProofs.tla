---------------------------- MODULE PartsProofs ----------------------------
(***************************************************************************)
(* What the parts MCParts runs by themselves promise, for every value of   *)
(* their constants: the breaker's asks of jev, for any number of processes, *)
(* retries and questions; the workers and checks of one workspace, for any *)
(* number of either and of writes; the saved runs, for any tree of them;   *)
(* the subtask graphs, whatever a planner proposes; and what is the user's *)
(* to decide: the plan an implementer is started with, the outputs held    *)
(* for review and the policy they are held by, and the configuration files *)
(* an install edits, for any files, commands, outputs and policies.        *)
(***************************************************************************)
EXTENDS JevCalls, WorkerCalls, SavedRuns, SubtaskGraph, PlanApproval, InjectionReviews, AgentConfigs,
        FiniteSetTheorems, WellFoundedInduction, TLAPS

(***************************************************************************)
(* The circuit breaker                                                     *)
(***************************************************************************)

BreakerTypeOK ==
    /\ brk \in [open : BOOLEAN, consecutive : Nat]
    /\ jpast \in [asks : Nat, row : 0 .. FailureThreshold]

\* While it is closed, the breaker's count is the number of failures in a row.
CountsFailures == ~brk.open => brk.consecutive = jpast.row /\ jpast.row < FailureThreshold

BreakerInv == BreakerTypeOK /\ CountsFailures

LEMMA HeardType ==
    ASSUME NEW b \in [open : BOOLEAN, consecutive : Nat], NEW reply
    PROVE  Heard(b, reply) \in [open : BOOLEAN, consecutive : Nat]
  <1>1. CASE reply = "ok"
    BY <1>1 DEF Heard, RecordSuccess
  <1>2. CASE reply = "config"
    BY <1>2 DEF Heard, Opened
  <1>3. CASE reply \in {"missing", "malformed"}
    BY <1>3 DEF Heard
  <1>4. CASE reply \notin {"ok", "config", "missing", "malformed"}
    <2>1. Heard(b, reply) = RecordFailure(b)
      BY <1>4 DEF Heard
    <2>2. QED BY <2>1 DEF RecordFailure, FailureThreshold
  <1>5. QED BY <1>1, <1>2, <1>3, <1>4

\* An open breaker hears of no reply what closes it.
LEMMA HeardOpen ==
    ASSUME NEW b \in [open : BOOLEAN, consecutive : Nat], NEW reply, b.open
    PROVE  Heard(b, reply).open
  <1>1. CASE reply \in {"ok", "config", "missing", "malformed"}
    BY <1>1 DEF Heard, RecordSuccess, Opened
  <1>2. CASE reply \notin {"ok", "config", "missing", "malformed"}
    <2>1. Heard(b, reply) = RecordFailure(b)
      BY <1>2 DEF Heard
    <2>2. QED BY <2>1 DEF RecordFailure
  <1>3. QED BY <1>1, <1>2

LEMMA BreakerInit == JevInit => BreakerInv
  BY DEF JevInit, Closed, BreakerInv, BreakerTypeOK, CountsFailures, FailureThreshold

\* The last attempt of a call: the count and the failures in a row move together.
LEMMA AttemptKeeps ==
    ASSUME BreakerInv, NEW c \in Callers, NEW reply, Attempt(c, reply)
    PROVE  BreakerInv'
  <1>1. CASE Again(c, reply)
    BY <1>1 DEF Attempt, BreakerInv, BreakerTypeOK, CountsFailures
  <1>2. CASE ~Again(c, reply)
    <2>1. /\ brk' = Heard(brk, reply)
          /\ jpast' = [jpast EXCEPT !.row = IF reply = "ok" THEN 0
                                            ELSE IF Counts(reply) /\ @ < FailureThreshold THEN @ + 1
                                            ELSE @]
      BY <1>2 DEF Attempt
    <2>2. BreakerTypeOK'
      BY <2>1, HeardType DEF BreakerInv, BreakerTypeOK, FailureThreshold
    <2>3. CountsFailures'
      <3> USE <2>1 DEF BreakerInv, BreakerTypeOK, CountsFailures, FailureThreshold
      <3>1. CASE reply = "ok"
        BY <3>1 DEF Heard, RecordSuccess
      <3>2. CASE reply = "config"
        BY <3>2 DEF Heard, Opened
      <3>3. CASE reply \in {"missing", "malformed"}
        BY <3>3 DEF Heard, Counts
      <3>4. CASE Counts(reply)
        <4>1. Heard(brk, reply) = RecordFailure(brk)
          BY <3>4 DEF Heard, Counts
        <4>2. reply # "ok" BY <3>4 DEF Counts
        <4>3. CASE brk.open
          BY <4>1, <4>3 DEF RecordFailure
        <4>4. CASE ~brk.open
          <5>1. jpast'.row = jpast.row + 1
            BY <3>4, <4>2, <4>4
          <5>2. brk' = [open |-> brk.consecutive + 1 >= 2, consecutive |-> brk.consecutive + 1]
            BY <4>1, <4>4 DEF RecordFailure
          <5>3. brk'.consecutive = brk.consecutive + 1
            BY <5>2
          <5>4. brk'.open = (brk.consecutive + 1 >= 2)
            BY <5>2
          <5>5. brk.consecutive = jpast.row /\ brk.consecutive \in Nat
            BY <4>4
          <5>6. CASE brk.consecutive + 1 >= 2
            <6>1. brk'.open
              BY <5>4, <5>6
            <6>2. QED BY <6>1
          <5>7. CASE ~(brk.consecutive + 1 >= 2)
            <6>1. brk'.consecutive = jpast'.row /\ jpast'.row < 2
              BY <5>1, <5>3, <5>5, <5>7
            <6>2. QED BY <6>1
          <5>8. QED BY <5>6, <5>7
        <4>5. QED BY <4>3, <4>4
      <3>5. QED BY <3>1, <3>2, <3>3, <3>4 DEF Counts
    <2>4. QED BY <2>2, <2>3 DEF BreakerInv
  <1>3. QED BY <1>1, <1>2

LEMMA BreakerStep == BreakerInv /\ [JevNext]_jevVars => BreakerInv'
  <1> SUFFICES ASSUME BreakerInv, [JevNext]_jevVars PROVE BreakerInv'
    OBVIOUS
  <1>1. CASE ResetBreaker
    BY <1>1 DEF ResetBreaker, Closed, BreakerInv, BreakerTypeOK, CountsFailures, FailureThreshold
  <1>2. ASSUME NEW c \in Callers, NEW refusal, NEW fixture, AskJev(c, refusal, fixture)
        PROVE  BreakerInv'
    <2>1. brk' = brk /\ jpast' = [jpast EXCEPT !.asks = @ + 1]
      BY <1>2 DEF AskJev
    <2>2. QED BY <2>1 DEF BreakerInv, BreakerTypeOK, CountsFailures
  <1>3. ASSUME NEW c \in Callers, NEW reply \in Replies(call[c].fixture), Attempt(c, reply)
        PROVE  BreakerInv'
    BY <1>3, AttemptKeeps
  <1>4. ASSUME NEW c \in Callers, NEW confidence, NEW offered, NEW shadow,
               Decide(c, confidence, offered, shadow)
        PROVE  BreakerInv'
    BY <1>4 DEF Decide, BreakerInv, BreakerTypeOK, CountsFailures
  <1>5. CASE UNCHANGED jevVars
    BY <1>5 DEF jevVars, BreakerInv, BreakerTypeOK, CountsFailures
  <1>6. QED BY <1>1, <1>2, <1>3, <1>4, <1>5 DEF JevNext

\* Two failures in a row open the breaker (breaker.go: RecordFailure under the lock of its
\* file), whichever processes report them.
THEOREM TwoFailuresOpen == JevSpec => []FailuresOpen
  <1>1. BreakerInv => FailuresOpen
    BY DEF BreakerInv, BreakerTypeOK, CountsFailures, FailuresOpen, FailureThreshold
  <1>2. QED BY BreakerInit, BreakerStep, <1>1, PTL DEF JevSpec

\* Only a reset closes a breaker that is open: no late success does (RecordSuccess).
THEOREM OnlyResetCloses == JevSpec => OpenStays
  <1>1. BreakerInv /\ [JevNext]_jevVars => [brk.open => brk'.open \/ ResetBreaker]_jevVars
    <2> SUFFICES ASSUME BreakerInv, JevNext, brk.open PROVE brk'.open \/ ResetBreaker
      BY DEF BreakerInv
    <2>1. ASSUME NEW c \in Callers, NEW reply \in Replies(call[c].fixture), Attempt(c, reply)
          PROVE  brk'.open
      BY <2>1, HeardOpen DEF Attempt, BreakerInv, BreakerTypeOK
    <2>2. QED BY <2>1 DEF JevNext, AskJev, Decide
  <1>2. QED BY BreakerInit, BreakerStep, <1>1, PTL DEF JevSpec, OpenStays

(***************************************************************************)
(* Workers and checks in one workspace                                     *)
(***************************************************************************)

\* What the workspace may hold.
Changes ==
    {<<kind, i>> : kind \in {"edit", "artifact"}, i \in Invocations}
      \cup {<<"hooks", runtime>> : runtime \in Runtimes}
      \cup {<<kind, n>> : kind \in {"user", "check"}, n \in Nat}

\* What an invocation and the checks may end with.
Results ==
    {"", "handoff", "planned", "answer", "no-change", "changed", "advice", "approved",
     "changes-required", "error", "retry", "cancelled", "auth-failed", "killed"}

Statuses == {"", "skipped", "unauthorized", "invalidated", "environment", "failed", "passed"}

Invocation ==
    [at : {"idle", "prepared", "running", "ended"}, q : SUBSET WorkerRequests, before : SUBSET Changes,
     wrote : BOOLEAN, drift : BOOLEAN, result : Results]

Identities == [git : BOOLEAN, tree : SUBSET Changes]

CheckRun ==
    [at : Nat, plan : Seq({"argv", "manual"}), id : Identities, before : Identities,
     receipts : Nat, running : BOOLEAN, failed : BOOLEAN, env : BOOLEAN, status : Statuses,
     begun : SUBSET Changes, end : SUBSET Changes, blind : BOOLEAN]

WorkerTypeOK ==
    /\ ws \in SUBSET Changes
    /\ inv \in [Invocations -> Invocation]
    /\ check \in CheckRun

\* What an invocation wrote is in the workspace, and not in the capture it began with.
WrittenSince ==
    \A i \in Invocations :
        /\ inv[i].wrote <=> WrittenBy(i) \in ws
        /\ inv[i].at \in {"idle", "prepared"} => ~inv[i].wrote
        /\ inv[i].at = "running" => WrittenBy(i) \notin inv[i].before

\* While a check runs the worktree is compared with the one the checks were begun on,
\* if git told which it is; so every command that ended found it, and some check has a
\* command.  A capture that git fails for differs from one that it does not.
ComparedWithFirst ==
    /\ check.running => check.before = check.id
    /\ check.id.git => check.id.tree = check.begun
    /\ check.blind <=> ~check.id.git
    /\ \A n \in DOMAIN check.plan :
           n < check.at /\ check.plan[n] # "manual" => check.blind \/ check.end = check.begun
    /\ check.plan # <<>> => \E n \in DOMAIN check.plan : check.plan[n] # "manual"

WorkerInv == WorkerTypeOK /\ WrittenSince /\ ComparedWithFirst /\ WritesNoticed /\ ChecksSawCandidate

LEMMA PlansAreSequences == CheckPlans \subseteq Seq({"argv", "manual"})
  <1> SUFFICES ASSUME NEW plan \in CheckPlans PROVE plan \in Seq({"argv", "manual"})
    OBVIOUS
  <1>1. PICK n \in 0 .. 3 : plan \in [1 .. n -> {"argv", "manual"}]
    BY WorkerConstants
  <1>2. n \in Nat
    OBVIOUS
  <1>3. QED BY <1>1, <1>2

LEMMA WorkerStart == WorkerInit => WorkerInv
  <1> SUFFICES ASSUME WorkerInit PROVE WorkerInv
    OBVIOUS
  <1>1. <<>> \in Seq({"argv", "manual"}) /\ DOMAIN <<>> = {}
    OBVIOUS
  <1>2. WorkerTypeOK
    <2>1. Unasked \in Invocation
      BY DEF Unasked, Invocation, Results
    <2>2. Unchecked \in CheckRun
      BY <1>1 DEF Unchecked, CheckRun, Statuses, Identities, NoGit
    <2>3. QED BY <2>1, <2>2 DEF WorkerInit, WorkerTypeOK
  <1>3. WrittenSince /\ WritesNoticed
    BY DEF WorkerInit, WrittenSince, WritesNoticed, Unasked
  <1>4. ComparedWithFirst /\ ChecksSawCandidate
    BY <1>1 DEF WorkerInit, ComparedWithFirst, ChecksSawCandidate, Unchecked, NoGit
  <1>5. QED BY <1>2, <1>3, <1>4 DEF WorkerInv

\* The records an invocation ends with.
LEMMA EndedType ==
    ASSUME NEW c \in BOOLEAN, NEW d \in BOOLEAN, NEW result \in Results
    PROVE  [Unasked EXCEPT !.at = "ended", !.wrote = c, !.result = result, !.drift = d] \in Invocation
  BY DEF Unasked, Invocation

\* An invocation that ends while nobody saw it write.
LEMMA EndedKeeps ==
    ASSUME WorkerInv, NEW i \in Invocations, NEW result \in Results, Ended(i, result),
           UNCHANGED <<ws, check>>, inv[i].wrote => result = "killed"
    PROVE  WorkerInv'
  <1>1. inv' = [inv EXCEPT ![i] = [Unasked EXCEPT !.at = "ended", !.wrote = inv[i].wrote, !.result = result]]
    BY DEF Ended
  <1>2. inv[i].wrote \in BOOLEAN /\ inv \in [Invocations -> Invocation]
    BY DEF WorkerInv, WorkerTypeOK, Invocation
  <1>3. [Unasked EXCEPT !.at = "ended", !.wrote = inv[i].wrote, !.result = result] \in Invocation
    BY <1>2 DEF Unasked, Invocation
  <1>4. WorkerTypeOK'
    BY <1>1, <1>2, <1>3 DEF WorkerInv, WorkerTypeOK
  <1>5. /\ inv'[i].at = "ended" /\ inv'[i].wrote = inv[i].wrote /\ inv'[i].result = result
        /\ \A j \in Invocations \ {i} : inv'[j] = inv[j]
    BY <1>1, <1>2 DEF Unasked
  <1>6. WrittenSince'
    BY <1>5 DEF WorkerInv, WrittenSince, WrittenBy
  <1>7. WritesNoticed'
    BY <1>5 DEF WorkerInv, WritesNoticed, WrittenBy
  <1>8. (ComparedWithFirst /\ ChecksSawCandidate)'
    BY DEF WorkerInv, ComparedWithFirst, ChecksSawCandidate
  <1>9. QED BY <1>4, <1>6, <1>7, <1>8 DEF WorkerInv

\* Something other than an invocation is put into the workspace, or a copy taken out.
LEMMA OtherChange ==
    ASSUME WorkerInv, ws' \in SUBSET Changes, UNCHANGED inv,
           \A i \in Invocations : WrittenBy(i) \in ws' <=> WrittenBy(i) \in ws
    PROVE  WrittenSince' /\ WritesNoticed'
  BY DEF WorkerInv, WrittenSince, WritesNoticed, WrittenBy

LEMMA RefuseKeeps ==
    ASSUME WorkerInv, NEW i \in Invocations, RefuseWorker(i)
    PROVE  WorkerInv'
  <1>1. PICK result \in {"error", "retry"} : Ended(i, result)
    BY DEF RefuseWorker
  <1>2. ~inv[i].wrote /\ result \in Results /\ UNCHANGED <<ws, check>>
    BY DEF RefuseWorker, WorkerInv, WrittenSince, Results
  <1>3. QED BY <1>1, <1>2, EndedKeeps

LEMMA PrepareKeeps ==
    ASSUME WorkerInv, NEW i \in Invocations, NEW q \in WorkerRequests, PrepareWorker(i, q)
    PROVE  WorkerInv'
  <1>1. ~inv[i].wrote /\ UNCHANGED check /\ inv[i].at = "idle"
    BY DEF PrepareWorker, WorkerInv, WrittenSince
  <1>2. CASE Unenforceable(q)
    <2>1. Ended(i, "retry") /\ UNCHANGED ws /\ "retry" \in Results
      BY <1>2 DEF PrepareWorker, Results
    <2>2. QED BY <1>1, <2>1, EndedKeeps
  <1>3. CASE ~Unenforceable(q)
    <2>1. /\ inv' = [inv EXCEPT ![i] = [inv[i] EXCEPT !.at = "prepared", !.q = {q}]]
          /\ ws' = ws \cup StagedFor(i, q) \cup IF q.hooks THEN {Hooks(q)} ELSE {}
      BY <1>3 DEF PrepareWorker
    <2>2. inv \in [Invocations -> Invocation] /\ ws \in SUBSET Changes /\ check \in CheckRun
      BY DEF WorkerInv, WorkerTypeOK
    <2>3. [inv[i] EXCEPT !.at = "prepared", !.q = {q}] \in Invocation
      BY <2>2 DEF Invocation
    <2>4. Artifact(i) \in Changes /\ Hooks(q) \in Changes
      BY WorkerConstants DEF Changes, Artifact, Hooks, WorkerRequest
    <2>5. WorkerTypeOK'
      BY <1>1, <2>1, <2>2, <2>3, <2>4 DEF WorkerTypeOK, StagedFor
    <2>6. /\ inv'[i].at = "prepared" /\ inv'[i].wrote = inv[i].wrote
          /\ \A j \in Invocations \ {i} : inv'[j] = inv[j]
      BY <2>1, <2>2 DEF Invocation
    <2>7. \A j \in Invocations : WrittenBy(j) \in ws' <=> WrittenBy(j) \in ws
      BY <2>1 DEF WrittenBy, StagedFor, Artifact, Hooks
    <2>8. WrittenSince' /\ WritesNoticed'
      BY <1>1, <2>6, <2>7 DEF WorkerInv, WrittenSince, WritesNoticed, WrittenBy
    <2>9. (ComparedWithFirst /\ ChecksSawCandidate)'
      BY <1>1 DEF WorkerInv, ComparedWithFirst, ChecksSawCandidate
    <2>10. QED BY <2>5, <2>8, <2>9 DEF WorkerInv
  <1>4. QED BY <1>2, <1>3

LEMMA StartWorkerKeeps ==
    ASSUME WorkerInv, NEW i \in Invocations, StartWorker(i)
    PROVE  WorkerInv'
  <1>1. /\ inv[i].at = "prepared" /\ UNCHANGED <<ws, check>>
        /\ inv' = [inv EXCEPT ![i].at = "running", ![i].before = ws]
    BY DEF StartWorker
  <1>2. inv \in [Invocations -> Invocation] /\ ws \in SUBSET Changes /\ check \in CheckRun
    BY DEF WorkerInv, WorkerTypeOK
  <1>3. /\ inv'[i] = [inv[i] EXCEPT !.at = "running", !.before = ws]
        /\ \A j \in Invocations \ {i} : inv'[j] = inv[j]
    BY <1>1, <1>2 DEF Invocation
  <1>4. inv'[i] \in Invocation
    BY <1>2, <1>3 DEF Invocation
  <1>5. inv' \in [Invocations -> Invocation]
    BY <1>1, <1>2, <1>3, <1>4
  <1>6. WorkerTypeOK'
    BY <1>1, <1>2, <1>5 DEF WorkerTypeOK
  <1>7. inv'[i].at = "running" /\ inv'[i].wrote = inv[i].wrote /\ inv'[i].before = ws
    BY <1>2, <1>3 DEF Invocation
  <1>8. WrittenSince' /\ WritesNoticed'
    BY <1>1, <1>3, <1>7 DEF WorkerInv, WrittenSince, WritesNoticed, WrittenBy
  <1>9. (ComparedWithFirst /\ ChecksSawCandidate)'
    BY <1>1 DEF WorkerInv, ComparedWithFirst, ChecksSawCandidate
  <1>10. QED BY <1>6, <1>8, <1>9 DEF WorkerInv

LEMMA WriteKeeps ==
    ASSUME WorkerInv, NEW i \in Invocations, WriteFiles(i)
    PROVE  WorkerInv'
  <1>1. /\ inv[i].at = "running" /\ UNCHANGED check
        /\ inv' = [inv EXCEPT ![i].wrote = TRUE]
        /\ ws' = ws \cup {WrittenBy(i)}
    BY DEF WriteFiles
  <1>2. inv \in [Invocations -> Invocation] /\ ws \in SUBSET Changes /\ check \in CheckRun
    BY DEF WorkerInv, WorkerTypeOK
  <1>3. /\ inv'[i] = [inv[i] EXCEPT !.wrote = TRUE]
        /\ \A j \in Invocations \ {i} : inv'[j] = inv[j]
    BY <1>1, <1>2 DEF Invocation
  <1>4. inv'[i] \in Invocation /\ WrittenBy(i) \in Changes
    <2>1. inv'[i] \in Invocation
      BY <1>2, <1>3 DEF Invocation
    <2>2. WrittenBy(i) \in {<<kind, j>> : kind \in {"edit", "artifact"}, j \in Invocations}
      BY DEF WrittenBy
    <2>3. QED BY <2>1, <2>2 DEF Changes
  <1>5. inv' \in [Invocations -> Invocation]
    BY <1>1, <1>2, <1>3, <1>4
  <1>6. WorkerTypeOK'
    BY <1>1, <1>2, <1>4, <1>5 DEF WorkerTypeOK
  <1>7. inv'[i].at = "running" /\ inv'[i].wrote /\ inv'[i].before = inv[i].before
    BY <1>1, <1>2, <1>3 DEF Invocation
  <1>8. \A j \in Invocations \ {i} : WrittenBy(j) \in ws' <=> WrittenBy(j) \in ws
    BY <1>1 DEF WrittenBy
  <1>9. WrittenSince' /\ WritesNoticed'
    BY <1>1, <1>3, <1>7, <1>8 DEF WorkerInv, WrittenSince, WritesNoticed, WrittenBy
  <1>10. (ComparedWithFirst /\ ChecksSawCandidate)'
    BY <1>1 DEF WorkerInv, ComparedWithFirst, ChecksSawCandidate
  <1>11. QED BY <1>6, <1>9, <1>10 DEF WorkerInv

\* What an invocation says when the workspace is not what it was.
LEMMA DriftIsSaid ==
    ASSUME NEW i \in Invocations, NEW q \in WorkerRequests, NEW how \in Endings(q), Drifted(i)
    PROVE  \/ ResultOf(i, q, how) \in {"changed", "error", "cancelled", "killed", "auth-failed"}
           \/ q.role = "assessor" /\ ResultOf(i, q, how) = how
  <1>1. CASE how \in {"cancelled", "auth", "failed", "broken"}
    BY <1>1 DEF ResultOf, Retryable
  <1>2. CASE how \notin {"cancelled", "auth", "failed", "broken"}
    <2>1. ResultOf(i, q, how) = Judged(i, q, how)
      BY <1>2 DEF ResultOf
    <2>2. QED BY <2>1 DEF Judged
  <1>3. QED BY <1>1, <1>2

LEMMA ResultType ==
    ASSUME NEW i \in Invocations, NEW q \in WorkerRequests, NEW how \in Endings(q)
    PROVE  ResultOf(i, q, how) \in Results
  <1>1. how \in Results \cup {"auth", "failed", "broken"}
    <2>1. AllowedOutcomes(q.role) \subseteq Results
      BY DEF AllowedOutcomes, Results
    <2>2. QED BY <2>1 DEF Endings, Results
  <1>2. CASE how \in {"cancelled", "auth", "failed", "broken"}
    BY <1>2 DEF ResultOf, Retryable, Results
  <1>3. CASE how \notin {"cancelled", "auth", "failed", "broken"}
    <2>1. ResultOf(i, q, how) \in {"error", how}
      BY <1>3 DEF ResultOf, Judged
    <2>2. QED BY <1>1, <1>3, <2>1 DEF Results
  <1>4. QED BY <1>2, <1>3

LEMMA EndWorkerKeeps ==
    ASSUME WorkerInv, NEW i \in Invocations, NEW how, EndWorker(i, how)
    PROVE  WorkerInv'
  <1>1. /\ inv[i].at = "running" /\ UNCHANGED check /\ ws' = ws \ {Artifact(i)}
    BY DEF EndWorker
  <1>2. inv \in [Invocations -> Invocation] /\ ws \in SUBSET Changes /\ check \in CheckRun
    BY DEF WorkerInv, WorkerTypeOK
  <1>3. PICK q \in inv[i].q :
            /\ how \in Endings(q)
            /\ inv' = [inv EXCEPT ![i] = [Unasked EXCEPT !.at = "ended", !.wrote = inv[i].wrote,
                                           !.result = ResultOf(i, q, how),
                                           !.drift = /\ q.role = "assessor" /\ Drifted(i)
                                                     /\ ResultOf(i, q, how) = how]]
    BY DEF EndWorker
  <1>4. q \in WorkerRequests /\ inv[i].wrote \in BOOLEAN
    BY <1>2 DEF Invocation
  <1> DEFINE result == ResultOf(i, q, how)
             drift  == q.role = "assessor" /\ Drifted(i) /\ result = how
             last   == [Unasked EXCEPT !.at = "ended", !.wrote = inv[i].wrote, !.result = result, !.drift = drift]
  <1>5. result \in Results /\ drift \in BOOLEAN
    BY <1>3, <1>4, ResultType
  <1>6. inv[i].wrote => \/ drift
                        \/ result \in {"changed", "error", "cancelled", "killed", "auth-failed"}
    <2>1. inv[i].wrote => Drifted(i)
      BY <1>1 DEF WorkerInv, WrittenSince, Drifted
    <2>2. QED BY <1>3, <1>4, <2>1, DriftIsSaid
  <1>7. inv' = [inv EXCEPT ![i] = last]
    BY <1>3
  <1> HIDE DEF result, drift
  <1>8. last \in Invocation
    BY <1>4, <1>5 DEF Invocation, Unasked
  <1>9. last.at = "ended" /\ last.wrote = inv[i].wrote /\ last.result = result /\ last.drift = drift
    BY DEF Unasked
  <1> HIDE DEF last
  <1>10. WorkerTypeOK'
    BY <1>1, <1>2, <1>7, <1>8 DEF WorkerTypeOK
  <1>11. inv'[i] = last /\ \A j \in Invocations \ {i} : inv'[j] = inv[j]
    BY <1>2, <1>7
  <1>12. \A j \in Invocations : WrittenBy(j) \in ws' <=> WrittenBy(j) \in ws
    BY <1>1 DEF WrittenBy, Artifact
  <1>13. WrittenSince'
    BY <1>9, <1>11, <1>12 DEF WorkerInv, WrittenSince, WrittenBy
  <1>14. WritesNoticed'
    BY <1>6, <1>9, <1>11, <1>12 DEF WorkerInv, WritesNoticed, WrittenBy
  <1>15. (ComparedWithFirst /\ ChecksSawCandidate)'
    BY <1>1 DEF WorkerInv, ComparedWithFirst, ChecksSawCandidate
  <1>16. QED BY <1>10, <1>13, <1>14, <1>15 DEF WorkerInv

LEMMA KilledKeeps ==
    ASSUME WorkerInv, NEW i \in Invocations, WorkerKilled(i)
    PROVE  WorkerInv'
  <1>1. Ended(i, "killed") /\ UNCHANGED <<ws, check>> /\ "killed" \in Results
    BY DEF WorkerKilled, Results
  <1>2. QED BY <1>1, EndedKeeps

LEMMA UserEditKeeps ==
    ASSUME WorkerInv, NEW n \in 1 .. MaxEdits, UserEditsFile(n)
    PROVE  WorkerInv'
  <1>1. ws' = ws \cup {EditBy(n)} /\ UNCHANGED <<inv, check>>
    BY DEF UserEditsFile
  <1>2. n \in Nat
    BY WorkerConstants
  <1>3. EditBy(n) \in Changes
    BY <1>2 DEF EditBy, Changes
  <1>4. ws' \in SUBSET Changes
    BY <1>1, <1>3 DEF WorkerInv, WorkerTypeOK
  <1>5. \A i \in Invocations : WrittenBy(i) \in ws' <=> WrittenBy(i) \in ws
    BY <1>1 DEF WrittenBy, EditBy
  <1>6. WrittenSince' /\ WritesNoticed'
    BY <1>1, <1>4, <1>5, OtherChange
  <1>7. (ComparedWithFirst /\ ChecksSawCandidate)'
    BY <1>1 DEF WorkerInv, ComparedWithFirst, ChecksSawCandidate
  <1>8. WorkerTypeOK'
    BY <1>1, <1>4 DEF WorkerInv, WorkerTypeOK
  <1>9. QED BY <1>6, <1>7, <1>8 DEF WorkerInv

\* The checks end, one way or another, without a plan left.
LEMMA ChecksEnd ==
    ASSUME WorkerInv, UNCHANGED <<ws, inv>>, check' \in CheckRun, ~check'.running,
           check'.plan = <<>>, check'.blind <=> ~check'.id.git,
           check'.id.git => check'.id.tree = check'.begun,
           check'.status = "passed" => check'.blind \/ check'.end = check'.begun
    PROVE  WorkerInv'
  <1>1. DOMAIN <<>> = {}
    OBVIOUS
  <1>2. WorkerTypeOK'
    BY DEF WorkerInv, WorkerTypeOK
  <1>3. WrittenSince' /\ WritesNoticed'
    BY OtherChange DEF WorkerInv, WorkerTypeOK
  <1>4. (ComparedWithFirst /\ ChecksSawCandidate)'
    BY <1>1 DEF ComparedWithFirst, ChecksSawCandidate
  <1>5. QED BY <1>2, <1>3, <1>4 DEF WorkerInv

LEMMA FinishedKeeps ==
    ASSUME WorkerInv, UNCHANGED <<ws, inv>>, NEW status \in Statuses, status # "passed",
           check' = Finished(status)
    PROVE  WorkerInv'
  <1>1. <<>> \in Seq({"argv", "manual"})
    OBVIOUS
  <1>2. check' \in CheckRun
    BY <1>1 DEF Finished, Unchecked, CheckRun, Identities, NoGit
  <1>3. /\ ~check'.running /\ check'.plan = <<>> /\ check'.status # "passed"
        /\ check'.blind /\ ~check'.id.git
    BY DEF Finished, Unchecked, NoGit
  <1>4. QED BY <1>2, <1>3, ChecksEnd

LEMMA BeginChecksKeeps ==
    ASSUME WorkerInv, NEW plan \in CheckPlans, NEW authorized \in BOOLEAN,
           BeginChecks(plan, authorized)
    PROVE  WorkerInv'
  <1>1. UNCHANGED <<ws, inv>>
    BY DEF BeginChecks
  <1>2. CASE (\A n \in DOMAIN plan : plan[n] = "manual") \/ ~authorized
    <2>1. \E status \in {"skipped", "unauthorized"} : check' = Finished(status)
      BY <1>2 DEF BeginChecks
    <2>2. \A status \in {"skipped", "unauthorized"} : status \in Statuses /\ status # "passed"
      BY DEF Statuses
    <2>3. QED BY <1>1, <2>1, <2>2, FinishedKeeps
  <1>3. CASE ~(\A n \in DOMAIN plan : plan[n] = "manual") /\ authorized
    <2>1. PICK id \in Captures :
             check' = [Unchecked EXCEPT !.at = 1, !.plan = plan, !.id = id, !.begun = ws, !.blind = ~id.git]
      BY <1>3 DEF BeginChecks
    <2>2. plan \in Seq({"argv", "manual"}) /\ ws \in SUBSET Changes
      BY PlansAreSequences DEF WorkerInv, WorkerTypeOK
    <2>10. id \in Identities /\ (id.git => id.tree = ws)
      <3>1. CASE id = Identity(ws)
        BY <2>2, <3>1 DEF Identity, Identities
      <3>2. CASE id = NoGit
        BY <3>2 DEF NoGit, Identities
      <3>3. QED BY <2>1, <3>1, <3>2 DEF Captures
    <2>3. check' \in CheckRun
      BY <2>1, <2>2, <2>10 DEF Unchecked, CheckRun, Statuses, Identities, NoGit
    <2>4. /\ ~check'.running /\ check'.plan = plan /\ check'.at = 1 /\ check'.status = ""
          /\ check'.id = id /\ check'.begun = ws /\ check'.blind = ~id.git
      BY <2>1 DEF Unchecked
    <2>5. DOMAIN plan = 1 .. Len(plan)
      BY <2>2
    <2>6. \A n \in DOMAIN plan : ~(n < 1)
      BY <2>2, <2>5
    <2>9. ComparedWithFirst' /\ ChecksSawCandidate'
      BY <1>3, <2>4, <2>6, <2>10 DEF ComparedWithFirst, ChecksSawCandidate
    <2>7. WrittenSince' /\ WritesNoticed'
      BY <1>1, <2>2, OtherChange
    <2>8. QED BY <1>1, <2>3, <2>7, <2>9 DEF WorkerInv, WorkerTypeOK
  <1>4. QED BY <1>2, <1>3

LEMMA StartCheckKeeps ==
    ASSUME WorkerInv, StartCheck
    PROVE  WorkerInv'
  <1>1. UNCHANGED <<ws, inv>> /\ check.at \in DOMAIN check.plan /\ ~check.running
    BY DEF StartCheck
  <1>2. check \in CheckRun /\ ws \in SUBSET Changes
    BY DEF WorkerInv, WorkerTypeOK
  <1>3. WrittenSince' /\ WritesNoticed'
    BY <1>1, <1>2, OtherChange
  <1>4. CASE check.plan[check.at] = "manual"
    <2>1. check' = [check EXCEPT !.at = check.at + 1, !.receipts = check.receipts + 1]
      BY <1>4 DEF StartCheck
    <2>2. check.at \in Nat /\ check.receipts \in Nat
      BY <1>2 DEF CheckRun
    <2>3. check.at + 1 \in Nat /\ check.receipts + 1 \in Nat
      BY <2>2
    <2>4. check' \in CheckRun
      BY <1>2, <2>1, <2>3 DEF CheckRun
    <2>5. /\ check'.running = check.running /\ check'.plan = check.plan /\ check'.id = check.id
          /\ check'.end = check.end /\ check'.at = check.at + 1 /\ check'.status = check.status
          /\ check'.begun = check.begun /\ check'.blind = check.blind
      BY <1>2, <2>1 DEF CheckRun
    <2>6. \A n \in DOMAIN check.plan : n < check.at + 1 => n < check.at \/ n = check.at
      <3>1. DOMAIN check.plan = 1 .. Len(check.plan) /\ Len(check.plan) \in Nat
        BY <1>2 DEF CheckRun
      <3>2. QED BY <2>2, <3>1
    <2>7. ComparedWithFirst' /\ ChecksSawCandidate'
      BY <1>1, <1>4, <2>5, <2>6 DEF WorkerInv, ComparedWithFirst, ChecksSawCandidate
    <2>8. QED BY <1>1, <1>3, <2>4, <2>7 DEF WorkerInv, WorkerTypeOK
  <1>5. CASE check.plan[check.at] # "manual"
    <2>1. PICK now \in Captures : check' = Recaptured(check, now)
      BY <1>5 DEF StartCheck
    <2>2. CASE check.receipts # 0 /\ now # check.id
      <3>1. check' = Finished("invalidated")
        BY <2>1, <2>2 DEF Recaptured, Invalidated
      <3>2. "invalidated" \in Statuses
        BY DEF Statuses
      <3>3. QED BY <1>1, <3>1, <3>2, FinishedKeeps
    <2>3. CASE check.receipts = 0 \/ now = check.id
      <3> DEFINE blind == IF check.receipts = 0 THEN check.blind ELSE check.blind /\ ~now.git
      <3>1. check' = [check EXCEPT !.before = check.id, !.running = TRUE, !.blind = blind]
        <4>1. CASE check.receipts = 0
          <5>1. check' = [check EXCEPT !.before = check.id, !.running = TRUE]
            BY <2>1, <4>1 DEF Recaptured
          <5>2. QED BY <1>2, <4>1, <5>1 DEF CheckRun
        <4>2. CASE check.receipts # 0
          BY <2>1, <2>3, <4>2 DEF Recaptured
        <4>3. QED BY <4>1, <4>2
      <3>2. blind = check.blind
        BY <1>2, <2>3 DEF WorkerInv, ComparedWithFirst, CheckRun
      <3> HIDE DEF blind
      <3>3. check' \in CheckRun
        BY <1>2, <3>1, <3>2 DEF CheckRun
      <3>4. /\ check'.before = check.id /\ check'.plan = check.plan /\ check'.id = check.id
            /\ check'.end = check.end /\ check'.at = check.at /\ check'.status = check.status
            /\ check'.begun = check.begun /\ check'.blind = check.blind
        BY <1>2, <3>1, <3>2 DEF CheckRun
      <3>5. ComparedWithFirst' /\ ChecksSawCandidate'
        BY <3>4 DEF WorkerInv, ComparedWithFirst, ChecksSawCandidate
      <3>6. QED BY <1>1, <1>3, <3>3, <3>5 DEF WorkerInv, WorkerTypeOK
    <2>4. QED BY <2>2, <2>3
  <1>6. QED BY <1>4, <1>5

LEMMA EndCheckKeeps ==
    ASSUME WorkerInv, NEW result \in {"passed", "candidate", "environment"}, NEW writes \in BOOLEAN,
           EndCheck(result, writes)
    PROVE  WorkerInv'
  <1>1. /\ check.running /\ UNCHANGED inv
        /\ ws' = ws \cup IF writes THEN {<<"check", check.at>>} ELSE {}
    BY DEF EndCheck
  <1>2. check \in CheckRun /\ ws \in SUBSET Changes /\ inv \in [Invocations -> Invocation]
    BY DEF WorkerInv, WorkerTypeOK
  <1>3. check.at \in Nat /\ check.receipts \in Nat
    BY <1>2 DEF CheckRun
  <1>4. <<"check", check.at>> \in Changes
    BY <1>3 DEF Changes
  <1>5. ws' \in SUBSET Changes
    BY <1>1, <1>2, <1>4
  <1>6. \A i \in Invocations : WrittenBy(i) \in ws' <=> WrittenBy(i) \in ws
    BY <1>1 DEF WrittenBy
  <1>7. WrittenSince' /\ WritesNoticed'
    BY <1>1, <1>5, <1>6, OtherChange
  <1> DEFINE failed == check.failed \/ result # "passed"
             env    == check.env /\ result # "candidate"
             Passed(after) == [check EXCEPT !.at = check.at + 1, !.running = FALSE,
                                            !.receipts = check.receipts + 1, !.end = ws', !.failed = failed,
                                            !.env = env, !.blind = check.blind /\ ~after.git]
  <1>11. PICK after \in Captures' :
           check' = IF after # check.before THEN Finished("invalidated") ELSE Passed(after)
    BY DEF EndCheck, Invalidated
  <1>8. CASE after # check.before
    <2>1. check' = Finished("invalidated")
      BY <1>8, <1>11
    <2>2. <<>> \in Seq({"argv", "manual"}) /\ DOMAIN <<>> = {}
      OBVIOUS
    <2>3. check' \in CheckRun
      BY <2>1, <2>2 DEF Finished, Unchecked, CheckRun, Statuses, Identities, NoGit
    <2>4. ComparedWithFirst' /\ ChecksSawCandidate'
      BY <2>1, <2>2 DEF Finished, Unchecked, ComparedWithFirst, ChecksSawCandidate, NoGit
    <2>5. QED BY <1>1, <1>2, <1>5, <1>7, <2>3, <2>4 DEF WorkerInv, WorkerTypeOK
  <1>9. CASE after = check.before
    <2>1. check' = Passed(after)
      BY <1>9, <1>11
    <2>2. check.at + 1 \in Nat /\ check.receipts + 1 \in Nat
      BY <1>3
    <2>3. failed \in BOOLEAN /\ env \in BOOLEAN
      OBVIOUS
    <2>9. after = check.id /\ (after.git => after.tree = ws')
      BY <1>1, <1>9 DEF WorkerInv, ComparedWithFirst, Captures, Identity, NoGit
    <2>10. (check.blind /\ ~after.git) = check.blind
      BY <1>2, <2>9 DEF WorkerInv, ComparedWithFirst, CheckRun
    <2> HIDE DEF failed, env
    <2>4. check' \in CheckRun
      BY <1>2, <1>5, <2>1, <2>2, <2>3, <2>10 DEF CheckRun
    <2>5. /\ ~check'.running /\ check'.plan = check.plan /\ check'.id = check.id
          /\ check'.end = ws' /\ check'.status = check.status /\ check'.begun = check.begun
          /\ check'.blind = check.blind
      BY <1>2, <2>1, <2>10 DEF CheckRun
    <2>6. check.blind \/ ws' = check.begun
      BY <2>9 DEF WorkerInv, ComparedWithFirst
    <2>7. ComparedWithFirst' /\ ChecksSawCandidate'
      BY <1>1, <2>5, <2>6 DEF WorkerInv, ComparedWithFirst, ChecksSawCandidate
    <2>8. QED BY <1>1, <1>2, <1>5, <1>7, <2>4, <2>7 DEF WorkerInv, WorkerTypeOK
  <1>10. QED BY <1>8, <1>9

\* All checks of a plan with a command have ended.
LEMMA FinishChecksKeeps ==
    ASSUME WorkerInv, FinishChecks
    PROVE  WorkerInv'
  <1>1. UNCHANGED <<ws, inv>> /\ check.at = Len(check.plan) + 1 /\ check.plan # <<>>
    BY DEF FinishChecks
  <1>2. check \in CheckRun
    BY DEF WorkerInv, WorkerTypeOK
  <1>4. CASE check.failed
    <2>1. \E status \in {"environment", "failed"} : check' = Finished(status)
      BY <1>4 DEF FinishChecks
    <2>2. \A status \in {"environment", "failed"} : status \in Statuses /\ status # "passed"
      BY DEF Statuses
    <2>3. QED BY <1>1, <2>1, <2>2, FinishedKeeps
  <1>5. CASE ~check.failed
    <2>1. check' = [check EXCEPT !.at = 0, !.plan = <<>>, !.status = "passed"]
      BY <1>5 DEF FinishChecks
    <2>2. DOMAIN check.plan = 1 .. Len(check.plan) /\ Len(check.plan) \in Nat
      BY <1>2 DEF CheckRun
    <2>3. \A n \in DOMAIN check.plan : n < check.at
      BY <1>1, <2>2
    <2>4. check.blind \/ check.end = check.begun
      BY <1>1, <2>3 DEF WorkerInv, ComparedWithFirst
    <2>5. <<>> \in Seq({"argv", "manual"}) /\ "passed" \in Statuses
      BY DEF Statuses
    <2>6. check' \in CheckRun
      BY <1>2, <2>1, <2>5 DEF CheckRun
    <2>7. /\ check'.running = check.running /\ check'.plan = <<>> /\ check'.end = check.end
          /\ check'.id = check.id /\ check'.begun = check.begun /\ check'.blind = check.blind
      BY <1>2, <2>1 DEF CheckRun
    <2>9. ~check.running
      BY DEF FinishChecks
    <2>8. QED BY <1>1, <2>4, <2>6, <2>7, <2>9, ChecksEnd DEF WorkerInv, ComparedWithFirst
  <1>6. QED BY <1>4, <1>5

LEMMA CheckAgainKeeps ==
    ASSUME WorkerInv, CheckAgain
    PROVE  WorkerInv'
  <1>1. UNCHANGED <<ws, inv>> /\ check' = Unchecked
    BY DEF CheckAgain
  <1>2. <<>> \in Seq({"argv", "manual"})
    OBVIOUS
  <1>3. /\ check' \in CheckRun /\ ~check'.running /\ check'.plan = <<>> /\ check'.status = ""
        /\ check'.blind /\ ~check'.id.git
    BY <1>1, <1>2 DEF Unchecked, CheckRun, Statuses, Identities, NoGit
  <1>4. QED BY <1>1, <1>3, ChecksEnd

LEMMA WorkerStep == WorkerInv /\ [WorkerNext]_workerVars => WorkerInv'
  <1> SUFFICES ASSUME WorkerInv, [WorkerNext]_workerVars PROVE WorkerInv'
    OBVIOUS
  <1>1. ASSUME InvocationStep PROVE WorkerInv'
    BY <1>1, RefuseKeeps, StartWorkerKeeps, WriteKeeps, KilledKeeps, PrepareKeeps, EndWorkerKeeps,
       UserEditKeeps DEF InvocationStep
  <1>2. ASSUME CheckStep PROVE WorkerInv'
    BY <1>2, BeginChecksKeeps, StartCheckKeeps, FinishChecksKeeps, CheckAgainKeeps, EndCheckKeeps,
       UserEditKeeps DEF CheckStep
  <1>3. ASSUME UNCHANGED workerVars PROVE WorkerInv'
    BY <1>3 DEF workerVars, WorkerInv, WorkerTypeOK, WrittenSince, ComparedWithFirst, WritesNoticed,
       ChecksSawCandidate
  <1>4. QED BY <1>1, <1>2, <1>3 DEF WorkerNext

\* A worker that wrote is never taken for one that did not (worker.go, Execute).
THEOREM WritesAreNoticed == WorkerSpec => []WritesNoticed
  <1>1. WorkerInv => WritesNoticed
    BY DEF WorkerInv
  <1>2. QED BY WorkerStart, WorkerStep, <1>1, PTL DEF WorkerSpec

\* Checks that passed saw the candidate they were begun on (verify.go, RunVerification).
THEOREM ChecksSeeOneCandidate == WorkerSpec => []ChecksSawCandidate
  <1>1. WorkerInv => ChecksSawCandidate
    BY DEF WorkerInv
  <1>2. QED BY WorkerStart, WorkerStep, <1>1, PTL DEF WorkerSpec

(***************************************************************************)
(* The saved runs                                                          *)
(***************************************************************************)

\* TreeOf is what its comment says.
LEMMA TreeIsLeast ==
    ASSUME NEW from, NEW runs
    PROVE  /\ from \subseteq TreeOf(from, runs)
           /\ TreeOf(from, runs) \subseteq from \cup runs
           /\ \A q \in runs : ParentOf[q] \in TreeOf(from, runs) => q \in TreeOf(from, runs)
           /\ \A T : from \subseteq T /\ (\A q \in runs : ParentOf[q] \in T => q \in T)
                       => TreeOf(from, runs) \subseteq T
<1>1. from \subseteq TreeOf(from, runs) /\ TreeOf(from, runs) \subseteq from \cup runs
  BY DEF TreeOf
<1>2. ASSUME NEW q \in runs, ParentOf[q] \in TreeOf(from, runs)
      PROVE  q \in TreeOf(from, runs)
  BY <1>2 DEF TreeOf
<1>3. ASSUME NEW T, from \subseteq T, \A q \in runs : ParentOf[q] \in T => q \in T
      PROVE  TreeOf(from, runs) \subseteq T
  <2> DEFINE U == T \cap (from \cup runs)
  <2>1. U \in SUBSET (from \cup runs) /\ from \subseteq U
    BY <1>3
  <2>2. \A q \in runs : ParentOf[q] \in U => q \in U
    BY <1>3
  <2>3. \A r \in TreeOf(from, runs) : r \in U
    <3> HIDE DEF U
    <3> QED BY <2>1, <2>2 DEF TreeOf
  <2> QED
    BY <2>3
<1> QED
  BY <1>1, <1>2, <1>3

\* A larger set of runs holds a larger tree.
LEMMA TreeGrows ==
    ASSUME NEW from, NEW runs, NEW more, runs \subseteq more
    PROVE  TreeOf(from, runs) \subseteq TreeOf(from, more)
BY TreeIsLeast

DiskStates == {"none", "empty", "active", "resting"}
LogStates  == {"none", "saved", "bare", "pruned"}

Past == [born : SUBSET Saved, late : SUBSET Saved, stopped : SUBSET Saved, cut : SUBSET Saved,
         pruning : Saved \cup {0}, deletions : Nat, resumes : Nat, prunings : Nat, halts : Nat]

SavedTypeOK ==
    /\ disk \in [Saved -> DiskStates]
    /\ logs \in [Saved -> LogStates]
    /\ usage \subseteq Saved /\ resumer \subseteq Saved
    /\ deleter \in [Deleters -> [at : {"idle", "next", "checked", "usage"}, scope : Seq(Saved),
                                 deleted : SUBSET Saved]]
    /\ spast \in Past
    /\ watcher \in [root : Saved, known : SUBSET Saved, member : SUBSET Saved,
                    lost : SUBSET Saved, extra : SUBSET Saved]

\* No run that can be read has lost its parent, unless it is late.
KinKept ==
    \A r \in Saved :
        Readable(r) /\ ParentOf[r] # 0 /\ ~Readable(ParentOf[r]) => r \in spast.late

\* A deletion comes to the children of a run before the run, unless they are late.
InOrder(scope, readable, late) ==
    \A i \in 1 .. Len(scope), c \in readable \ late :
        ParentOf[c] = scope[i] => \E j \in 1 .. i - 1 : scope[j] = c

Readables == {r \in Saved : Readable(r)}

Orderly ==
    \A d \in Deleters :
        /\ InOrder(deleter[d].scope, Readables, spast.late)
        /\ deleter[d].at \in {"next", "checked"} => deleter[d].scope # <<>>
        /\ deleter[d].at \in {"idle", "usage"} => deleter[d].scope = <<>>
        /\ deleter[d].at = "idle" => deleter[d].deleted = {}

\* Usage of a run that is gone is going to be removed, unless the deletion stopped.
UsagePaired ==
    \A r \in usage : ~Readable(r) =>
        r \in spast.stopped \cup spast.late \/ \E d \in Deleters : r \in deleter[d].deleted

\* Streams without a mark are being pruned, or their pruning stopped.
LogsMarked == \A r \in Saved : logs[r] = "bare" => r \in spast.cut \cup {spast.pruning}

WatcherTrue == watcher.lost = {} /\ watcher.extra = {}

SavedInv ==
    SavedTypeOK /\ KinKept /\ Orderly /\ UsagePaired /\ LogsMarked /\ WatcherTrue

\* A run is late if a deletion is at work when it is written.
LEMMA LateFacts ==
    ASSUME NEW r \in Saved
    PROVE  /\ Late(r) \subseteq {r}
           /\ Deleting => r \in Late(r)
           /\ ParentOf[r] # 0 /\ ~Readable(ParentOf[r]) => r \in Late(r)
           /\ r \in spast.born /\ ~Readable(r) => r \in Late(r)
BY DEF Late

\* A step that changes what can be read only as a removal or a late writing may.
LEMMA RunWritten ==
    ASSUME SavedInv, SavedConstants, NEW r \in Saved, deleter' = deleter,
           disk' = [disk EXCEPT ![r] = "active"], usage' = usage, logs' = logs,
           watcher' = watcher, SavedTypeOK',
           spast'.late = spast.late \cup Late(r), spast'.stopped = spast.stopped,
           spast'.cut = spast.cut, spast'.pruning = spast.pruning
    PROVE  SavedInv'
<1>1. \A s \in Saved : Readable(s)' <=> s = r \/ Readable(s)
  BY DEF SavedInv, SavedTypeOK, Readable
<1>2. KinKept'
  BY <1>1, LateFacts DEF KinKept, SavedInv, SavedConstants, Saved
<1>3. Orderly'
  <2> SUFFICES ASSUME NEW d \in Deleters PROVE InOrder(deleter[d].scope, Readables, spast.late)'
    BY DEF Orderly, SavedInv
  <2>1. CASE deleter[d].at = "idle"
    BY <2>1 DEF InOrder, Orderly, SavedInv
  <2>2. CASE deleter[d].at # "idle"
    <3>1. r \in spast'.late
      BY <2>2, LateFacts DEF Deleting
    <3>2. InOrder(deleter[d].scope, Readables, spast.late)
      BY DEF SavedInv, Orderly
    <3> QED
      BY <1>1, <3>1, <3>2 DEF InOrder, Readables
  <2> QED
    BY <2>1, <2>2
<1>4. UsagePaired'
  BY <1>1 DEF UsagePaired, SavedInv, SavedTypeOK
<1>5. LogsMarked' /\ WatcherTrue'
  BY DEF LogsMarked, WatcherTrue, SavedInv
<1> QED
  BY <1>2, <1>3, <1>4, <1>5 DEF SavedInv

\* With fewer runs that can be read, or more that are late, an order stays one.
LEMMA OrderKept ==
    ASSUME NEW scope, NEW R1, NEW R2, NEW L1, NEW L2, R2 \ L2 \subseteq R1 \ L1,
           InOrder(scope, R1, L1)
    PROVE  InOrder(scope, R2, L2)
BY DEF InOrder

\* A deletion goes on to the next run once the first can no longer be read.
LEMMA OrderAdvances ==
    ASSUME NEW scope \in Seq(Saved), scope # <<>>, NEW R, NEW L, Head(scope) \notin R,
           InOrder(scope, R, L)
    PROVE  Tail(scope) \in Seq(Saved) /\ InOrder(Tail(scope), R, L)
<1>1. /\ Len(scope) \in Nat /\ Len(scope) > 0 /\ Len(Tail(scope)) = Len(scope) - 1
      /\ Tail(scope) \in Seq(Saved) /\ Head(scope) = scope[1]
      /\ \A i \in 1 .. Len(scope) - 1 : Tail(scope)[i] = scope[i + 1]
  OBVIOUS
<1>2. SUFFICES ASSUME NEW i \in 1 .. Len(Tail(scope)), NEW c \in R \ L,
                      ParentOf[c] = Tail(scope)[i]
               PROVE  \E j \in 1 .. i - 1 : Tail(scope)[j] = c
  BY <1>1 DEF InOrder
<1>3. i + 1 \in 1 .. Len(scope) /\ ParentOf[c] = scope[i + 1]
  BY <1>1, <1>2
<1>4. PICK j \in 1 .. (i + 1) - 1 : scope[j] = c
  BY <1>2, <1>3 DEF InOrder
<1>5. j # 1
  BY <1>1, <1>4
<1>6. j - 1 \in 1 .. i - 1 /\ Tail(scope)[j - 1] = scope[(j - 1) + 1] /\ (j - 1) + 1 = j
  BY <1>1, <1>3, <1>4, <1>5
<1> QED
  BY <1>4, <1>6

\* The first run of a scope has no child left that is not late.
LEMMA FirstIsLeaf ==
    ASSUME NEW scope \in Seq(Saved), scope # <<>>, NEW R, NEW L, InOrder(scope, R, L),
           NEW c \in R, ParentOf[c] = Head(scope)
    PROVE  c \in L
<1>1. Len(scope) \in Nat /\ Len(scope) > 0 /\ Head(scope) = scope[1]
  OBVIOUS
<1> QED
  BY <1>1 DEF InOrder

\* The reverse of a listing of a tree is such an order.
LEMMA ListingReversed ==
    ASSUME SavedConstants, NEW R \in SUBSET Saved, NEW T \in SUBSET Saved, T # {},
           \A q \in R : ParentOf[q] \in T => q \in T, NEW s \in Listings(T)
    PROVE  /\ DeletionOrder(s) \in Seq(Saved) /\ DeletionOrder(s) # <<>>
           /\ \A L : InOrder(DeletionOrder(s), R, L)
<1> DEFINE n == Cardinality(T)
<1>1. n \in Nat /\ n # 0
  <2>1. IsFiniteSet(T)
    BY FS_Subset DEF SavedConstants, Saved
  <2> QED
    BY <2>1, FS_CardinalityType, FS_EmptySet
<1> HIDE DEF n
<1>2. /\ s \in [1 .. n -> T] /\ \A r \in T : \E i \in 1 .. n : s[i] = r
      /\ \A i, j \in 1 .. n : ParentOf[s[i]] = s[j] => j < i
  BY DEF Listings, n
<1>3. s \in Seq(Saved) /\ Len(s) = n /\ DOMAIN s = 1 .. n
  BY <1>1, <1>2
<1>4. DeletionOrder(s) = [i \in 1 .. n |-> s[n + 1 - i]]
  BY <1>3 DEF DeletionOrder
<1>5. \A i \in 1 .. n : n + 1 - i \in 1 .. n
  BY <1>1
<1>6. [i \in 1 .. n |-> s[n + 1 - i]] \in [1 .. n -> Saved]
  BY <1>2, <1>5
<1>7. DeletionOrder(s) \in Seq(Saved) /\ Len(DeletionOrder(s)) = n
      /\ \A i \in 1 .. n : DeletionOrder(s)[i] = s[n + 1 - i]
  BY <1>1, <1>4, <1>6
<1>8. DeletionOrder(s) # <<>>
  BY <1>1, <1>7
<1>9. ASSUME NEW i \in 1 .. n, NEW c \in R, ParentOf[c] = DeletionOrder(s)[i]
      PROVE  \E j \in 1 .. i - 1 : DeletionOrder(s)[j] = c
  <2>1. n + 1 - i \in 1 .. n /\ ParentOf[c] = s[n + 1 - i] /\ c \in T
    <3>1. n + 1 - i \in 1 .. n
      BY <1>5
    <3>2. ParentOf[c] = s[n + 1 - i]
      BY <1>7, <1>9
    <3>3. ParentOf[c] \in T
      BY <1>2, <3>1, <3>2
    <3> QED
      BY <3>1, <3>2, <3>3
  <2>2. PICK k \in 1 .. n : s[k] = c
    BY <1>2, <2>1
  <2>3. n + 1 - i < k
    BY <1>2, <2>1, <2>2
  <2>4. n + 1 - k \in 1 .. n /\ n + 1 - k \in 1 .. i - 1 /\ n + 1 - (n + 1 - k) = k
    BY <1>1, <2>2, <2>3
  <2>5. DeletionOrder(s)[n + 1 - k] = c
    BY <1>7, <2>2, <2>4
  <2> QED
    BY <2>4, <2>5
<1>10. \A L : InOrder(DeletionOrder(s), R, L)
  BY <1>7, <1>9 DEF InOrder
<1> QED
  BY <1>7, <1>8, <1>10

\* What remains of a deletion once its first run is done with.
LEMMA DeletedHeadFacts ==
    ASSUME SavedTypeOK, Orderly, NEW d \in Deleters, deleter[d].at \in {"next", "checked"},
           NEW R, NEW L, Head(deleter[d].scope) \notin R,
           InOrder(deleter[d].scope, R, L)
    PROVE  /\ DeletedHead(d) \in [at : {"next", "usage"}, scope : Seq(Saved), deleted : SUBSET Saved]
           /\ InOrder(DeletedHead(d).scope, R, L)
           /\ DeletedHead(d).at = "next" => DeletedHead(d).scope # <<>>
           /\ DeletedHead(d).at = "usage" => DeletedHead(d).scope = <<>>
           /\ DeletedHead(d).deleted = deleter[d].deleted \cup {Head(deleter[d].scope)}
<1> DEFINE scope == deleter[d].scope
<1>1. scope \in Seq(Saved) /\ scope # <<>> /\ deleter[d].deleted \in SUBSET Saved
  BY DEF SavedTypeOK, Orderly
<1>2. Tail(scope) \in Seq(Saved) /\ InOrder(Tail(scope), R, L)
  <2> HIDE DEF scope
  <2>1. Head(scope) \notin R /\ InOrder(scope, R, L)
    BY DEF scope
  <2> QED BY <1>1, <2>1, OrderAdvances
<1>3. Head(scope) \in Saved
  BY <1>1
<1> QED
  BY <1>1, <1>2, <1>3 DEF DeletedHead

\* A command that gives up has nothing left to do.
LEMMA GivenFacts ==
    ASSUME NEW d
    PROVE  /\ Given(d) \in [at : {"idle"}, scope : Seq(Saved), deleted : SUBSET Saved]
           /\ Given(d).scope = <<>> /\ Given(d).deleted = {} /\ Given(d).at = "idle"
           /\ \A R, L : InOrder(Given(d).scope, R, L)
BY DEF Given, InOrder

\* A directory is no run before it has its run.json.
LEMMA MakesRunKeeps ==
    ASSUME SavedInv, SavedConstants, NEW r \in Saved, MakesRun(r)
    PROVE  SavedInv'
<1>1. SavedTypeOK'
  BY DEF MakesRun, SavedInv, SavedTypeOK, Past, DiskStates
<1>2. \A s \in Saved : Readable(s)' <=> Readable(s)
  BY DEF MakesRun, SavedInv, SavedTypeOK, Readable
<1>3. Readables' = Readables
  BY <1>2 DEF Readables
<1>4. KinKept' /\ UsagePaired'
  BY <1>2 DEF MakesRun, SavedInv, KinKept, UsagePaired, SavedTypeOK, SavedConstants, Saved
<1>5. Orderly'
  BY <1>3 DEF MakesRun, SavedInv, Orderly
<1> QED
  BY <1>1, <1>4, <1>5 DEF MakesRun, SavedInv, LogsMarked, WatcherTrue

\* A run written beside a deletion, or after its parent went, is late.
LEMMA WritesRunKeeps ==
    ASSUME SavedInv, SavedConstants, NEW r \in Saved, WritesRun(r)
    PROVE  SavedInv'
<1>1. spast \in Past /\ Late(r) \subseteq Saved
  BY LateFacts DEF SavedInv, SavedTypeOK
<1>2. /\ spast' \in Past /\ spast'.late = spast.late \cup Late(r)
      /\ spast'.stopped = spast.stopped /\ spast'.cut = spast.cut /\ spast'.pruning = spast.pruning
  <2> DEFINE L == Late(r)
  <2>1. spast' = [spast EXCEPT !.born = @ \cup {r}, !.late = @ \cup L]
    BY DEF WritesRun
  <2>2. L \subseteq Saved
    BY <1>1
  <2> HIDE DEF L
  <2>3. spast' \in Past /\ spast'.late = spast.late \cup L
        /\ spast'.stopped = spast.stopped /\ spast'.cut = spast.cut /\ spast'.pruning = spast.pruning
    BY <1>1, <2>1, <2>2 DEF Past
  <2> QED
    BY <2>3 DEF L
<1>3. SavedTypeOK'
  BY <1>2 DEF WritesRun, SavedInv, SavedTypeOK, DiskStates
<1> QED
  BY <1>2, <1>3, RunWritten DEF WritesRun

\* A resume writes what it read, also when that is gone by now.
LEMMA ResumeWritesKeeps ==
    ASSUME SavedInv, SavedConstants, NEW r \in Saved, SavedResumeWrites(r)
    PROVE  SavedInv'
<1>1. spast \in Past /\ Late(r) \subseteq Saved
  BY LateFacts DEF SavedInv, SavedTypeOK
<1>2. /\ spast' \in Past /\ spast'.late = spast.late \cup Late(r)
      /\ spast'.stopped = spast.stopped /\ spast'.cut = spast.cut /\ spast'.pruning = spast.pruning
  <2> DEFINE L == Late(r)
  <2>1. spast' = [spast EXCEPT !.late = @ \cup L]
    BY DEF SavedResumeWrites
  <2>2. L \subseteq Saved
    BY <1>1
  <2> HIDE DEF L
  <2>3. spast' \in Past /\ spast'.late = spast.late \cup L
        /\ spast'.stopped = spast.stopped /\ spast'.cut = spast.cut /\ spast'.pruning = spast.pruning
    BY <1>1, <2>1, <2>2 DEF Past
  <2> QED
    BY <2>3 DEF L
<1>3. SavedTypeOK'
  BY <1>2 DEF SavedResumeWrites, SavedInv, SavedTypeOK, DiskStates
<1> QED
  BY <1>2, <1>3, RunWritten DEF SavedResumeWrites

\* Steps that leave what can be read as it is.
LEMMA ReadableStays ==
    ASSUME SavedInv, SavedConstants, SavedTypeOK', \A s \in Saved : Readable(s)' <=> Readable(s),
           deleter' = deleter, spast'.late = spast.late, spast'.stopped = spast.stopped
    PROVE  KinKept' /\ Orderly'
<1>1. Readables' = Readables
  BY DEF Readables
<1> QED
  BY <1>1 DEF SavedInv, KinKept, Orderly, SavedConstants, Saved

\* A run that works changes its streams and usage only.
LEMMA WorksKeeps ==
    ASSUME SavedInv, SavedConstants, NEW r \in Saved, Works(r)
    PROVE  SavedInv'
<1>1. SavedTypeOK'
  BY DEF Works, SavedInv, SavedTypeOK, LogStates
<1>2. \A s \in Saved : Readable(s)' <=> Readable(s)
  BY DEF Works, Readable
<1>3. KinKept' /\ Orderly'
  BY <1>1, <1>2, ReadableStays DEF Works
<1>4. UsagePaired'
  BY <1>2 DEF Works, SavedInv, UsagePaired, Readable
<1>5. LogsMarked'
  BY DEF Works, SavedInv, SavedTypeOK, LogsMarked
<1> QED
  BY <1>1, <1>3, <1>4, <1>5 DEF Works, SavedInv, WatcherTrue

\* A run that rests stays where it is.
LEMMA ComesToRestKeeps ==
    ASSUME SavedInv, SavedConstants, NEW r \in Saved, ComesToRest(r)
    PROVE  SavedInv'
<1>1. SavedTypeOK'
  BY DEF ComesToRest, SavedInv, SavedTypeOK, Past, DiskStates
<1>2. \A s \in Saved : Readable(s)' <=> Readable(s)
  BY DEF ComesToRest, Readable, SavedInv, SavedTypeOK
<1>3. KinKept' /\ Orderly'
  BY <1>1, <1>2, ReadableStays DEF ComesToRest
<1> QED
  BY <1>1, <1>2, <1>3 DEF ComesToRest, SavedInv, SavedTypeOK, UsagePaired, LogsMarked, WatcherTrue

\* Reading changes nothing.
LEMMA ResumeReadsKeeps ==
    ASSUME SavedInv, SavedConstants, NEW r \in Saved, SavedResumeReads(r)
    PROVE  SavedInv'
<1>1. SavedTypeOK'
  <2>1. spast \in Past /\ spast' = [spast EXCEPT !.resumes = @ + 1]
    BY DEF SavedResumeReads, SavedInv, SavedTypeOK
  <2>2. spast' \in Past
    BY <2>1 DEF Past
  <2> QED
    BY <2>2 DEF SavedResumeReads, SavedInv, SavedTypeOK
<1>2. \A s \in Saved : Readable(s)' <=> Readable(s)
  BY DEF SavedResumeReads, Readable
<1>3. KinKept' /\ Orderly'
  BY <1>1, <1>2, ReadableStays DEF SavedResumeReads, SavedInv, SavedTypeOK
<1> QED
  BY <1>1, <1>2, <1>3 DEF SavedResumeReads, SavedInv, SavedTypeOK, UsagePaired, LogsMarked, WatcherTrue

\* Streams that go are those of the run that is pruned.
LEMMA PrunesLogsKeeps ==
    ASSUME SavedInv, SavedConstants, NEW r \in Saved, PrunesLogs(r)
    PROVE  SavedInv'
<1>1. SavedTypeOK'
  <2>1. spast \in Past /\ spast' = [spast EXCEPT !.prunings = @ + 1, !.pruning = r]
    BY DEF PrunesLogs, SavedInv, SavedTypeOK
  <2>2. spast' \in Past
    <3>1. spast.prunings + 1 \in Nat
      BY <2>1 DEF Past
    <3> QED
      BY <2>1, <3>1, ZenonT(60) DEF Past
  <2>3. logs' \in [Saved -> LogStates]
    BY DEF PrunesLogs, SavedInv, SavedTypeOK, LogStates
  <2> QED
    BY <2>2, <2>3 DEF PrunesLogs, SavedInv, SavedTypeOK
<1>2. \A s \in Saved : Readable(s)' <=> Readable(s)
  BY DEF PrunesLogs, Readable
<1>3. KinKept' /\ Orderly'
  BY <1>1, <1>2, ReadableStays DEF PrunesLogs, SavedInv, SavedTypeOK
<1>4. LogsMarked'
  BY DEF PrunesLogs, SavedInv, SavedTypeOK, LogsMarked, SavedConstants, Saved
<1> QED
  BY <1>1, <1>2, <1>3, <1>4 DEF PrunesLogs, SavedInv, SavedTypeOK, UsagePaired, WatcherTrue

\* A mark is left of each stream that went.
LEMMA MarksKeep ==
    ASSUME SavedInv, SavedConstants, logs' \in [Saved -> LogStates], spast' \in Past, LogsMarked',
           spast'.late = spast.late, spast'.stopped = spast.stopped,
           UNCHANGED <<disk, usage, resumer, deleter, watcher>>
    PROVE  SavedInv'
<1>1. SavedTypeOK'
  BY DEF SavedInv, SavedTypeOK
<1>2. \A s \in Saved : Readable(s)' <=> Readable(s)
  BY DEF Readable
<1>3. KinKept' /\ Orderly'
  BY <1>1, <1>2, ReadableStays
<1> QED
  BY <1>1, <1>2, <1>3 DEF SavedInv, SavedTypeOK, UsagePaired, WatcherTrue

\* The end of a pruning leaves none without a mark.
LEMMA MarksPrunedKeeps ==
    ASSUME SavedInv, SavedConstants, MarksPruned
    PROVE  SavedInv'
<1>0. /\ spast \in Past /\ logs \in [Saved -> LogStates] /\ spast.pruning \in Saved
      /\ \A r \in Saved : logs[r] = "bare" => r \in spast.cut \cup {spast.pruning}
  BY DEF MarksPruned, SavedInv, SavedTypeOK, Past, LogsMarked
<1>1. CASE /\ logs' = [logs EXCEPT ![spast.pruning] = IF @ = "bare" THEN "pruned" ELSE @]
           /\ spast' = [spast EXCEPT !.pruning = 0]
  <2>1. logs' \in [Saved -> LogStates] /\ spast' \in Past
    BY <1>0, <1>1 DEF LogStates, Past
  <2>2. \A r \in Saved : logs'[r] = "bare" => r # spast.pruning /\ logs[r] = "bare"
    BY <1>0, <1>1
  <2>3. LogsMarked'
    BY <1>0, <1>1, <2>2 DEF LogsMarked, Past
  <2>4. spast'.late = spast.late /\ spast'.stopped = spast.stopped
    BY <1>0, <1>1 DEF Past
  <2> QED
    BY <2>1, <2>3, <2>4, MarksKeep DEF MarksPruned
<1>2. CASE /\ logs' = logs
           /\ spast' = [spast EXCEPT !.pruning = 0, !.halts = @ + 1, !.cut = @ \cup {spast.pruning}]
  <2>1. logs' \in [Saved -> LogStates] /\ spast' \in Past
    <3>1. spast.halts + 1 \in Nat /\ spast.cut \cup {spast.pruning} \in SUBSET Saved
      BY <1>0 DEF Past
    <3> QED
      BY <1>0, <1>2, <3>1, ZenonT(60) DEF Past
  <2>2. spast'.cut = spast.cut \cup {spast.pruning}
    BY <1>0, <1>2 DEF Past
  <2>3. LogsMarked'
    BY <1>0, <1>2, <2>2 DEF LogsMarked
  <2>4. spast'.late = spast.late /\ spast'.stopped = spast.stopped
    BY <1>0, <1>2 DEF Past
  <2> QED
    BY <2>1, <2>3, <2>4, MarksKeep DEF MarksPruned
<1> QED
  BY <1>1, <1>2 DEF MarksPruned

\* What a step of a deletion may do: it goes on to x, and what it removes has no
\* child left, and is counted as deleted or stopped.
LEMMA DeletionKeeps ==
    ASSUME SavedInv, SavedConstants, SavedTypeOK', NEW d \in Deleters, NEW x,
           deleter' = [deleter EXCEPT ![d] = x], Readables' \subseteq Readables,
           \A r \in Readables \ Readables', c \in Readables' :
               ParentOf[c] = r => c \in spast.late,
           InOrder(x.scope, Readables', spast.late),
           x.at \in {"next", "checked"} => x.scope # <<>>,
           x.at \in {"idle", "usage"} => x.scope = <<>>,
           x.at = "idle" => x.deleted = {},
           usage' \subseteq usage,
           \A r \in usage' : r \in deleter[d].deleted \cup (Readables \ Readables') =>
               r \in x.deleted \cup spast'.stopped,
           spast'.late = spast.late, spast.stopped \subseteq spast'.stopped,
           spast'.cut = spast.cut, spast'.pruning = spast.pruning,
           \A r \in Saved : logs'[r] = "bare" => logs[r] = "bare", watcher' = watcher
    PROVE  SavedInv'
<1>1. /\ \A r \in Saved : r \in Readables <=> Readable(r)
      /\ \A r \in Saved : r \in Readables' <=> Readable(r)'
  BY DEF Readables
<1>2. deleter'[d] = x /\ \A e \in Deleters \ {d} : deleter'[e] = deleter[e]
  BY DEF SavedInv, SavedTypeOK
<1>3. KinKept'
  <2> SUFFICES ASSUME NEW r \in Saved, Readable(r)', ParentOf[r] # 0, ~Readable(ParentOf[r])'
               PROVE  r \in spast.late
    BY DEF KinKept
  <2>1. ParentOf[r] \in Saved /\ r \in Readables' /\ ParentOf[r] \notin Readables'
    BY <1>1 DEF SavedConstants, Saved
  <2>2. CASE ParentOf[r] \in Readables
    BY <2>1, <2>2
  <2>3. CASE ParentOf[r] \notin Readables
    <3>1. r \in Readables
      BY <2>1
    <3>2. Readable(r) /\ ~Readable(ParentOf[r])
      BY <1>1, <2>1, <2>3, <3>1
    <3> QED
      BY <3>2 DEF SavedInv, KinKept
  <2> QED
    BY <2>2, <2>3
<1>4. Orderly'
  <2> SUFFICES ASSUME NEW e \in Deleters
               PROVE  /\ InOrder(deleter'[e].scope, Readables', spast'.late)
                      /\ deleter'[e].at \in {"next", "checked"} => deleter'[e].scope # <<>>
                      /\ deleter'[e].at \in {"idle", "usage"} => deleter'[e].scope = <<>>
                      /\ deleter'[e].at = "idle" => deleter'[e].deleted = {}
    BY DEF Orderly
  <2>1. CASE e = d
    BY <1>2, <2>1
  <2>2. CASE e # d
    <3>1. deleter'[e] = deleter[e]
      BY <1>2, <2>2
    <3>2. InOrder(deleter[e].scope, Readables, spast.late)
      BY DEF SavedInv, Orderly
    <3>3. InOrder(deleter[e].scope, Readables', spast.late)
      BY <3>2, OrderKept
    <3> QED
      BY <3>1, <3>3 DEF SavedInv, Orderly
  <2> QED
    BY <2>1, <2>2
<1>5. UsagePaired'
  <2> SUFFICES ASSUME NEW r \in usage', ~Readable(r)'
               PROVE  r \in spast'.stopped \cup spast'.late
                      \/ \E e \in Deleters : r \in deleter'[e].deleted
    BY DEF UsagePaired
  <2>1. r \in Saved /\ r \in usage /\ r \notin Readables'
    BY <1>1 DEF SavedInv, SavedTypeOK
  <2>2. CASE r \in deleter[d].deleted \cup (Readables \ Readables')
    BY <1>2, <2>2
  <2>3. CASE r \notin deleter[d].deleted \cup (Readables \ Readables')
    <3>1. ~Readable(r)
      BY <1>1, <2>1, <2>3
    <3>2. r \in spast.stopped \cup spast.late \/ \E e \in Deleters : r \in deleter[e].deleted
      BY <2>1, <3>1 DEF SavedInv, UsagePaired
    <3> QED
      BY <1>2, <2>3, <3>2
  <2> QED
    BY <2>2, <2>3
<1>6. LogsMarked' /\ WatcherTrue'
  BY DEF SavedInv, LogsMarked, WatcherTrue
<1> QED
  BY <1>3, <1>4, <1>5, <1>6 DEF SavedInv

\* A new deletion has every child before its parent.
LEMMA PlansDeletionKeeps ==
    ASSUME SavedInv, SavedConstants, NEW d \in Deleters, NEW root \in Saved, PlansDeletion(d, root)
    PROVE  SavedInv'
<1> DEFINE T == Tree(root)
<1>1. PICK s \in Listings(T) :
        deleter' = [deleter EXCEPT ![d] = [at |-> "next", scope |-> DeletionOrder(s), deleted |-> {}]]
  BY DEF PlansDeletion
<1> DEFINE x == [at |-> "next", scope |-> DeletionOrder(s), deleted |-> {}]
<1>2. T # {} /\ T = TreeOf({root}, Readables)
  BY DEF PlansDeletion, Tree, Readables
<1>3. T \subseteq Saved /\ \A q \in Readables : ParentOf[q] \in T => q \in T
  BY <1>2, TreeIsLeast DEF Readables
<1>4. /\ DeletionOrder(s) \in Seq(Saved) /\ DeletionOrder(s) # <<>>
      /\ InOrder(DeletionOrder(s), Readables, spast.late)
  <2> HIDE DEF T
  <2>1. Readables \in SUBSET Saved
    BY DEF Readables
  <2> QED BY <1>2, <1>3, <2>1, ListingReversed
<1>5. spast \in Past /\ spast' = [spast EXCEPT !.deletions = @ + 1]
  BY DEF PlansDeletion, SavedInv, SavedTypeOK
<1>6. /\ spast' \in Past /\ spast'.late = spast.late /\ spast'.stopped = spast.stopped
      /\ spast'.cut = spast.cut /\ spast'.pruning = spast.pruning
  BY <1>5 DEF Past
<1>7. x \in [at : {"idle", "next", "checked", "usage"}, scope : Seq(Saved), deleted : SUBSET Saved]
  BY <1>4
<1>8. SavedTypeOK'
  BY <1>1, <1>6, <1>7 DEF PlansDeletion, SavedInv, SavedTypeOK
<1>9. Readables' = Readables
  BY DEF Readables, Readable, PlansDeletion
<1>10. deleter[d].deleted = {}
  BY DEF PlansDeletion, SavedInv, Orderly
<1>11. x.at = "next" /\ x.scope = DeletionOrder(s) /\ x.deleted = {}
  OBVIOUS
<1>12. usage' = usage /\ logs' = logs /\ watcher' = watcher /\ deleter' = [deleter EXCEPT ![d] = x]
  BY <1>1 DEF PlansDeletion
<1> HIDE DEF x, T
<1> QED
  BY <1>4, <1>6, <1>8, <1>9, <1>10, <1>11, <1>12, DeletionKeeps

\* The usage of what was deleted goes at the end.
LEMMA RemovesUsageKeeps ==
    ASSUME SavedInv, SavedConstants, NEW d \in Deleters, RemovesUsage(d)
    PROVE  SavedInv'
<1> DEFINE x == Given(d)
<1>1. /\ x \in [at : {"idle"}, scope : Seq(Saved), deleted : SUBSET Saved]
      /\ x.scope = <<>> /\ x.deleted = {} /\ x.at = "idle"
      /\ \A R, L : InOrder(x.scope, R, L)
  BY GivenFacts
<1>2. deleter' = [deleter EXCEPT ![d] = x]
  BY DEF RemovesUsage
<1> HIDE DEF x
<1>3. SavedTypeOK'
  BY <1>1, <1>2 DEF RemovesUsage, SavedInv, SavedTypeOK
<1>4. Readables' = Readables
  BY DEF Readables, Readable, RemovesUsage
<1>5. /\ usage' \subseteq usage /\ \A r \in usage' : r \notin deleter[d].deleted
      /\ spast' = spast /\ logs' = logs /\ watcher' = watcher
  BY DEF RemovesUsage
<1> QED
  BY <1>1, <1>2, <1>3, <1>4, <1>5, DeletionKeeps

\* The run a deletion has come to.
LEMMA HeadFacts ==
    ASSUME SavedInv, NEW d \in Deleters, deleter[d].at \in {"next", "checked"}
    PROVE  /\ deleter[d].scope \in Seq(Saved) /\ deleter[d].scope # <<>>
           /\ Head(deleter[d].scope) \in Saved /\ deleter[d].deleted \in SUBSET Saved
           /\ InOrder(deleter[d].scope, Readables, spast.late)
           /\ \A c \in Readables : ParentOf[c] = Head(deleter[d].scope) => c \in spast.late
<1>1. /\ deleter[d].scope \in Seq(Saved) /\ deleter[d].scope # <<>>
      /\ deleter[d].deleted \in SUBSET Saved
      /\ InOrder(deleter[d].scope, Readables, spast.late)
  BY DEF SavedInv, SavedTypeOK, Orderly
<1> QED
  BY <1>1, FirstIsLeaf

\* A run is removed, and the deletion goes on or stops.
LEMMA RemovalKeeps ==
    ASSUME SavedInv, SavedConstants, NEW d \in Deleters, deleter[d].at = "checked",
           NEW gone \in {"none", "empty"}, NEW x,
           disk' = [disk EXCEPT ![Head(deleter[d].scope)] = gone],
           logs' = [logs EXCEPT ![Head(deleter[d].scope)] = "none"],
           deleter' = [deleter EXCEPT ![d] = x],
           \/ x = DeletedHead(d)
           \/ x = Given(d) /\ deleter[d].deleted \cup {Head(deleter[d].scope)} \subseteq spast'.stopped,
           spast' \in Past, spast'.late = spast.late, spast.stopped \subseteq spast'.stopped,
           spast'.cut = spast.cut, spast'.pruning = spast.pruning,
           UNCHANGED <<usage, resumer, watcher>>
    PROVE  SavedInv'
<1> DEFINE h == Head(deleter[d].scope)
<1>1. /\ h \in Saved /\ deleter[d].deleted \in SUBSET Saved
      /\ InOrder(deleter[d].scope, Readables, spast.late)
      /\ \A c \in Readables : ParentOf[c] = h => c \in spast.late
  BY HeadFacts
<1> HIDE DEF h
<1>2. Readables' = Readables \ {h}
  BY <1>1 DEF Readables, Readable, SavedInv, SavedTypeOK, h
<1>3. InOrder(deleter[d].scope, Readables', spast.late) /\ h \notin Readables'
  BY <1>1, <1>2, OrderKept
<1>4. /\ DeletedHead(d) \in [at : {"next", "usage"}, scope : Seq(Saved), deleted : SUBSET Saved]
      /\ InOrder(DeletedHead(d).scope, Readables', spast.late)
      /\ DeletedHead(d).at = "next" => DeletedHead(d).scope # <<>>
      /\ DeletedHead(d).at = "usage" => DeletedHead(d).scope = <<>>
      /\ DeletedHead(d).deleted = deleter[d].deleted \cup {h}
  <2>1. SavedTypeOK /\ Orderly
    BY DEF SavedInv
  <2> DEFINE R == Readables'
             L == spast.late
  <2>2. Head(deleter[d].scope) \notin R /\ InOrder(deleter[d].scope, R, L)
    BY <1>3 DEF h
  <2> HIDE DEF R, L
  <2>3. /\ DeletedHead(d) \in [at : {"next", "usage"}, scope : Seq(Saved), deleted : SUBSET Saved]
        /\ InOrder(DeletedHead(d).scope, R, L)
        /\ DeletedHead(d).at = "next" => DeletedHead(d).scope # <<>>
        /\ DeletedHead(d).at = "usage" => DeletedHead(d).scope = <<>>
        /\ DeletedHead(d).deleted = deleter[d].deleted \cup {Head(deleter[d].scope)}
    BY <2>1, <2>2, DeletedHeadFacts
  <2> QED
    BY <2>3 DEF R, L, h
<1>5. /\ x \in [at : {"idle", "next", "usage"}, scope : Seq(Saved), deleted : SUBSET Saved]
      /\ InOrder(x.scope, Readables', spast.late)
      /\ x.at = "next" => x.scope # <<>>
      /\ x.at \in {"idle", "usage"} => x.scope = <<>>
      /\ x.at = "idle" => x.deleted = {}
      /\ deleter[d].deleted \cup {h} \subseteq x.deleted \cup spast'.stopped
  <2>1. CASE x = DeletedHead(d)
    <3>1. x.at \in {"next", "usage"}
      BY <1>4, <2>1
    <3> QED
      BY <1>4, <2>1, <3>1
  <2>2. CASE x = Given(d) /\ deleter[d].deleted \cup {h} \subseteq spast'.stopped
    BY <2>2, GivenFacts
  <2> QED
    BY <2>1, <2>2 DEF h
<1>6. SavedTypeOK'
  <2>1. disk' \in [Saved -> DiskStates] /\ logs' \in [Saved -> LogStates]
    BY <1>1 DEF SavedInv, SavedTypeOK, DiskStates, LogStates, h
  <2>2. x \in [at : {"idle", "next", "checked", "usage"}, scope : Seq(Saved), deleted : SUBSET Saved]
    BY <1>5
  <2> QED
    BY <2>1, <2>2 DEF SavedInv, SavedTypeOK
<1>7. \A r \in Saved : logs'[r] = "bare" => logs[r] = "bare"
  BY DEF SavedInv, SavedTypeOK
<1>8. x.at \in {"next", "checked"} => x.scope # <<>>
  BY <1>5
<1>9. \A r \in Readables \ Readables', c \in Readables' : ParentOf[c] = r => c \in spast.late
  BY <1>1, <1>2
<1>10. \A r \in usage' : r \in deleter[d].deleted \cup (Readables \ Readables') =>
           r \in x.deleted \cup spast'.stopped
  BY <1>2, <1>5
<1>11. Readables' \subseteq Readables /\ usage' \subseteq usage /\ watcher' = watcher
  BY <1>2
<1> QED
  BY <1>5, <1>6, <1>7, <1>8, <1>9, <1>10, <1>11, DeletionKeeps

\* A run is removed after its children, but for the late ones.
LEMMA RemovesRunKeeps ==
    ASSUME SavedInv, SavedConstants, NEW d \in Deleters, RemovesRun(d)
    PROVE  SavedInv'
<1>1. spast' = spast /\ spast' \in Past
  BY DEF RemovesRun, SavedInv, SavedTypeOK
<1>2. /\ deleter[d].at = "checked"
      /\ disk' = [disk EXCEPT ![Head(deleter[d].scope)] = "none"]
      /\ logs' = [logs EXCEPT ![Head(deleter[d].scope)] = "none"]
      /\ deleter' = [deleter EXCEPT ![d] = DeletedHead(d)]
      /\ UNCHANGED <<usage, resumer, watcher>>
  BY DEF RemovesRun
<1> QED
  BY <1>1, <1>2, RemovalKeeps

\* A deletion that stops leaves the usage of what it removed.
LEMMA DeletionHaltsKeeps ==
    ASSUME SavedInv, SavedConstants, NEW d \in Deleters, DeletionHalts(d)
    PROVE  SavedInv'
<1> DEFINE S == spast.stopped \cup deleter[d].deleted
                  \cup (IF deleter[d].at = "checked" THEN {Head(deleter[d].scope)} ELSE {})
<1>1. spast \in Past /\ spast' = [spast EXCEPT !.halts = @ + 1, !.stopped = S]
  BY DEF DeletionHalts, SavedInv, SavedTypeOK, Past
<1>2. S \subseteq Saved
  <2>1. spast.stopped \subseteq Saved /\ deleter[d].deleted \subseteq Saved
    BY <1>1 DEF SavedInv, SavedTypeOK, Past
  <2>2. deleter[d].at = "checked" => Head(deleter[d].scope) \in Saved
    BY HeadFacts
  <2> QED
    BY <2>1, <2>2
<1>3. spast.stopped \cup deleter[d].deleted \subseteq S
      /\ (deleter[d].at = "checked" => Head(deleter[d].scope) \in S)
  OBVIOUS
<1> HIDE DEF S
<1>4. /\ spast' \in Past /\ spast'.late = spast.late /\ spast'.stopped = S
      /\ spast'.cut = spast.cut /\ spast'.pruning = spast.pruning
  <2>1. spast.halts + 1 \in Nat
    BY <1>1 DEF Past
  <2> QED
    BY <1>1, <1>2, <2>1, ZenonT(60) DEF Past
<1>5. deleter' = [deleter EXCEPT ![d] = Given(d)] /\ UNCHANGED <<usage, resumer, watcher>>
  BY DEF DeletionHalts
<1>6. CASE UNCHANGED <<disk, logs>>
  <2> DEFINE x == Given(d)
  <2>1. /\ x \in [at : {"idle"}, scope : Seq(Saved), deleted : SUBSET Saved]
        /\ x.scope = <<>> /\ x.deleted = {} /\ x.at = "idle"
        /\ \A R, L : InOrder(x.scope, R, L)
    BY GivenFacts
  <2>2. deleter' = [deleter EXCEPT ![d] = x]
    BY <1>5
  <2> HIDE DEF x
  <2>3. SavedTypeOK'
    BY <1>4, <1>5, <1>6, <2>1, <2>2 DEF SavedInv, SavedTypeOK
  <2>4. Readables' = Readables
    BY <1>6 DEF Readables, Readable
  <2>5. \A r \in usage' : r \in deleter[d].deleted \cup (Readables \ Readables') =>
             r \in x.deleted \cup spast'.stopped
    BY <1>3, <1>4, <2>4
  <2> QED
    BY <1>3, <1>4, <1>5, <1>6, <2>1, <2>2, <2>3, <2>4, <2>5, DeletionKeeps
<1>7. CASE /\ deleter[d].at = "checked"
           /\ disk' = [disk EXCEPT ![Head(deleter[d].scope)] = "empty"]
           /\ logs' = [logs EXCEPT ![Head(deleter[d].scope)] = "none"]
  <2>1. deleter[d].deleted \cup {Head(deleter[d].scope)} \subseteq spast'.stopped
        /\ spast.stopped \subseteq spast'.stopped
    BY <1>3, <1>4, <1>7
  <2> QED
    BY <1>4, <1>5, <1>7, <2>1, RemovalKeeps
<1> QED
  BY <1>6, <1>7 DEF DeletionHalts

\* A deletion that finds work stops, or looks at the next run.
LEMMA ChecksRunKeeps ==
    ASSUME SavedInv, SavedConstants, NEW d \in Deleters, ChecksRun(d)
    PROVE  SavedInv'
<1> DEFINE h == Head(deleter[d].scope)
           X == CASE disk[h] = "resting" -> [deleter[d] EXCEPT !.at = "checked"]
                  [] disk[h] = "active"  -> Given(d)
                  [] OTHER               -> DeletedHead(d)
<1>1. /\ deleter[d].scope \in Seq(Saved) /\ deleter[d].scope # <<>>
      /\ h \in Saved /\ deleter[d].deleted \in SUBSET Saved
      /\ InOrder(deleter[d].scope, Readables, spast.late)
  BY HeadFacts DEF ChecksRun
<1>2. disk \in [Saved -> DiskStates] /\ spast \in Past
      /\ deleter \in [Deleters -> [at : {"idle", "next", "checked", "usage"}, scope : Seq(Saved),
                                    deleted : SUBSET Saved]]
  BY DEF SavedInv, SavedTypeOK
<1>3. deleter' = [deleter EXCEPT ![d] = X]
  BY <1>2 DEF ChecksRun
<1>4. disk' = [disk EXCEPT ![h] = IF @ = "none" THEN "empty" ELSE @]
      /\ UNCHANGED <<logs, usage, resumer, watcher>>
  BY DEF ChecksRun
<1>5. Readables' = Readables /\ disk' \in [Saved -> DiskStates]
  BY <1>1, <1>2, <1>4 DEF Readables, Readable, DiskStates
<1>6. /\ spast' \in Past /\ spast'.late = spast.late /\ spast.stopped \subseteq spast'.stopped
      /\ spast'.cut = spast.cut /\ spast'.pruning = spast.pruning
      /\ disk[h] = "active" => deleter[d].deleted \subseteq spast'.stopped
  <2>1. CASE disk[h] = "active"
    <3>1. spast' = [spast EXCEPT !.stopped = @ \cup deleter[d].deleted]
      BY <2>1 DEF ChecksRun
    <3> QED
      BY <1>1, <1>2, <3>1 DEF Past
  <2>2. CASE disk[h] # "active"
    BY <1>2, <2>2 DEF ChecksRun
  <2> QED
    BY <2>1, <2>2
<1>7. /\ X \in [at : {"idle", "next", "checked", "usage"}, scope : Seq(Saved), deleted : SUBSET Saved]
      /\ InOrder(X.scope, Readables, spast.late)
      /\ X.at \in {"next", "checked"} => X.scope # <<>>
      /\ X.at \in {"idle", "usage"} => X.scope = <<>>
      /\ X.at = "idle" => X.deleted = {}
      /\ deleter[d].deleted \subseteq X.deleted \cup spast'.stopped
  <2>1. CASE disk[h] = "resting"
    <3>1. X = [deleter[d] EXCEPT !.at = "checked"]
      BY <2>1
    <3> HIDE DEF X
    <3> QED
      BY <1>1, <1>2, <3>1
  <2>2. CASE disk[h] = "active"
    <3>1. X = Given(d)
      BY <2>2
    <3> HIDE DEF X
    <3> QED
      BY <1>6, <2>2, <3>1, GivenFacts
  <2>3. CASE disk[h] \in {"none", "empty"}
    <3>1. X = DeletedHead(d)
      BY <2>3
    <3>2. h \notin Readables
      BY <2>3 DEF Readables, Readable
    <3> HIDE DEF X
    <3>3. SavedTypeOK /\ Orderly /\ deleter[d].at \in {"next", "checked"}
      BY DEF SavedInv, ChecksRun
    <3>4. /\ X \in [at : {"next", "usage"}, scope : Seq(Saved), deleted : SUBSET Saved]
          /\ InOrder(X.scope, Readables, spast.late)
          /\ X.at = "next" => X.scope # <<>>
          /\ X.at = "usage" => X.scope = <<>>
          /\ X.deleted = deleter[d].deleted \cup {h}
      BY <1>1, <3>1, <3>2, <3>3, DeletedHeadFacts
    <3>5. X.at \in {"next", "usage"}
      BY <3>4
    <3> QED
      BY <3>4, <3>5
  <2> QED
    BY <1>1, <1>2, <2>1, <2>2, <2>3 DEF DiskStates
<1> HIDE DEF X, h
<1>8. SavedTypeOK'
  BY <1>3, <1>4, <1>5, <1>6, <1>7 DEF SavedInv, SavedTypeOK
<1>9. \A r \in usage' : r \in deleter[d].deleted \cup (Readables \ Readables') =>
           r \in X.deleted \cup spast'.stopped
  BY <1>5, <1>7
<1> QED
  BY <1>3, <1>4, <1>5, <1>6, <1>7, <1>8, <1>9, DeletionKeeps

\* The watcher's tree is the tree that can be read, and what hangs below a
\* directory that lost its record: whatever it knows is listed, and whatever can
\* be read it knows.
LEMMA RefreshesKeeps ==
    ASSUME SavedInv, SavedConstants, Refreshes
    PROVE  SavedInv'
<1> DEFINE listed == {r \in Saved : disk[r] # "none"}
           seen   == watcher.known \cap listed
           again  == listed \ (seen \ watcher.member)
           known  == seen \cup {r \in again : Readable(r)}
           member == IF watcher.root \in known THEN TreeOf({watcher.root}, known) ELSE {}
           ghosts == member \cap Refused
           lost   == Tree(watcher.root) \ member
           extra  == member \ (Tree(watcher.root) \cup TreeOf(ghosts, known))
           kept   == IF member = {} THEN watcher.member \cap listed ELSE member
<1>1. /\ watcher' = [watcher EXCEPT !.known = known, !.member = kept, !.lost = lost, !.extra = extra]
      /\ UNCHANGED <<disk, logs, usage, resumer, deleter, spast>>
  <2>1. watcher' = [watcher EXCEPT !.known = known,
                       !.member = IF member = {} THEN @ \cap listed ELSE member,
                       !.lost = lost, !.extra = extra]
    BY DEF Refreshes
  <2>2. watcher \in [root : Saved, known : SUBSET Saved, member : SUBSET Saved,
                     lost : SUBSET Saved, extra : SUBSET Saved]
    BY DEF SavedInv, SavedTypeOK
  <2> HIDE DEF known, member, listed, lost, extra
  <2>3. watcher' = [watcher EXCEPT !.known = known, !.member = kept, !.lost = lost, !.extra = extra]
    BY <2>1, <2>2 DEF kept
  <2> QED
    BY <2>3 DEF Refreshes
<1>2. /\ watcher \in [root : Saved, known : SUBSET Saved, member : SUBSET Saved,
                     lost : SUBSET Saved, extra : SUBSET Saved]
      /\ disk \in [Saved -> DiskStates]
  BY DEF SavedInv, SavedTypeOK
<1>3. Readables \subseteq known /\ known \subseteq Readables \cup Refused /\ known \subseteq Saved
  BY <1>2 DEF Readables, Readable, Refused, DiskStates
<1>4. Tree(watcher.root) =
        IF watcher.root \in Readables THEN TreeOf({watcher.root}, Readables) ELSE {}
  BY <1>2 DEF Tree, Readables
<1> HIDE DEF known
<1>5. lost = {}
  BY <1>3, <1>4, TreeGrows
<1>6. member \subseteq Saved
  BY <1>2, <1>3, TreeIsLeast
<1>7. extra = {}
  <2>1. CASE watcher.root \notin known
    BY <2>1
  <2>2. CASE watcher.root \in known
    <3> DEFINE W == Tree(watcher.root) \cup TreeOf(ghosts, known)
    <3>1. member = TreeOf({watcher.root}, known) /\ watcher.root \in member
      BY <2>2, TreeIsLeast
    <3>2. \A r \in member : r \in Readables \/ r \in ghosts
      BY <1>3, <2>2, <3>1, TreeIsLeast
    <3>3. ghosts \subseteq TreeOf(ghosts, known)
      BY TreeIsLeast
    <3>4. watcher.root \in W
      <4>1. CASE watcher.root \in Readables
        BY <1>4, <4>1, TreeIsLeast
      <4>2. CASE watcher.root \notin Readables
        BY <3>1, <3>2, <3>3, <4>2
      <4> QED
        BY <4>1, <4>2
    <3>5. ASSUME NEW q \in known, ParentOf[q] \in W
          PROVE  q \in W
      <4>1. CASE ParentOf[q] \in TreeOf(ghosts, known)
        BY <4>1, TreeIsLeast
      <4>2. CASE ParentOf[q] \in Tree(watcher.root)
        <5>1. ParentOf[q] \in member
          BY <1>3, <1>4, <3>1, <4>2, TreeGrows
        <5>2. q \in member
          BY <3>1, <5>1, TreeIsLeast
        <5>3. CASE q \in Readables
          BY <1>4, <4>2, <5>3, TreeIsLeast
        <5>4. CASE q \in ghosts
          BY <3>3, <5>4
        <5> QED
          BY <3>2, <5>2, <5>3, <5>4
      <4> QED
        BY <3>5, <4>1, <4>2
    <3> HIDE DEF W, member
    <3>6. TreeOf({watcher.root}, known) \subseteq W
      BY <3>4, <3>5, TreeIsLeast
    <3> QED
      BY <3>1, <3>6 DEF W
  <2> QED
    BY <2>1, <2>2
<1>8. kept \subseteq Saved
  BY <1>2, <1>6
<1> HIDE DEF member, lost, extra, kept
<1>9. watcher' \in [root : Saved, known : SUBSET Saved, member : SUBSET Saved,
                    lost : SUBSET Saved, extra : SUBSET Saved] /\ WatcherTrue'
  BY <1>1, <1>2, <1>3, <1>5, <1>7, <1>8 DEF WatcherTrue
<1>10. SavedTypeOK'
  BY <1>1, <1>9 DEF SavedInv, SavedTypeOK
<1>11. \A s \in Saved : Readable(s)' <=> Readable(s)
  BY <1>1 DEF Readable
<1>12. KinKept' /\ Orderly'
  BY <1>1, <1>10, <1>11, ReadableStays
<1>13. UsagePaired' /\ LogsMarked'
  BY <1>1, <1>11 DEF SavedInv, SavedTypeOK, UsagePaired, LogsMarked
<1> QED
  BY <1>9, <1>10, <1>12, <1>13 DEF SavedInv

\* Every step keeps the invariant.
LEMMA SavedInvariant == SavedInit /\ [][SavedNext]_savedVars => []SavedInv
<1>1. SavedInit => SavedInv
  <2> SUFFICES ASSUME SavedInit PROVE SavedInv
    OBVIOUS
  <2>1. \A r \in Saved : disk[r] = "none" /\ logs[r] = "none" /\ ~Readable(r)
    BY DEF SavedInit, Readable
  <2>2. SavedTypeOK
    BY DEF SavedInit, SavedTypeOK, DiskStates, LogStates, Past
  <2>3. KinKept /\ UsagePaired /\ LogsMarked /\ WatcherTrue
    BY <2>1 DEF SavedInit, KinKept, UsagePaired, LogsMarked, WatcherTrue
  <2>4. Orderly
    BY DEF SavedInit, Orderly, InOrder
  <2> QED
    BY <2>2, <2>3, <2>4 DEF SavedInv
<1>2. SavedInv /\ [SavedNext]_savedVars => SavedInv'
  <2> SUFFICES ASSUME SavedInv, [SavedNext]_savedVars PROVE SavedInv'
    OBVIOUS
  <2> USE SavedConstants
  <2>1. CASE \E r \in Saved : \/ MakesRun(r) \/ WritesRun(r) \/ Works(r) \/ ComesToRest(r)
                               \/ SavedResumeReads(r) \/ SavedResumeWrites(r) \/ PrunesLogs(r)
    BY <2>1, MakesRunKeeps, WritesRunKeeps, WorksKeeps, ComesToRestKeeps, ResumeReadsKeeps,
       ResumeWritesKeeps, PrunesLogsKeeps
  <2>2. CASE \E d \in Deleters :
               \/ ChecksRun(d) \/ RemovesRun(d) \/ RemovesUsage(d) \/ DeletionHalts(d)
               \/ \E root \in Saved : PlansDeletion(d, root)
    BY <2>2, PlansDeletionKeeps, ChecksRunKeeps, RemovesRunKeeps, RemovesUsageKeeps,
       DeletionHaltsKeeps
  <2>3. CASE MarksPruned \/ Refreshes
    BY <2>3, MarksPrunedKeeps, RefreshesKeeps
  <2>4. CASE UNCHANGED savedVars
    <3>1. SavedTypeOK' /\ \A s \in Saved : Readable(s)' <=> Readable(s)
      BY <2>4 DEF savedVars, SavedInv, SavedTypeOK, Readable
    <3>2. KinKept' /\ Orderly'
      BY <2>4, <3>1, ReadableStays DEF savedVars
    <3> QED
      BY <2>4, <3>1, <3>2
         DEF savedVars, SavedInv, SavedTypeOK, UsagePaired, LogsMarked, WatcherTrue
  <2> QED
    BY <2>1, <2>2, <2>3, <2>4 DEF SavedNext
<1> QED
  BY <1>1, <1>2, PTL

\* For any tree of runs, any number of deletions, prunings, resumes and halts: no
\* run that can be read has lost its parent unless it was written while its tree
\* was deleted, no usage stays of a run that is gone unless the deletion stopped,
\* no output vanishes without a mark unless its pruning stopped, and a watcher
\* shows what a listing would (sdlcDeleteApply, sdlcPruneLogs, sdlcTreeWatcher).
THEOREM TreesStayWhole == SavedSpec => []TreesWhole
<1>1. SavedInv => TreesWhole
  <2> SUFFICES ASSUME SavedInv PROVE TreesWhole
    OBVIOUS
  <2>1. \A r \in Saved : Shown(r) = "not captured" => logs[r] = "bare"
    BY DEF Shown, SavedInv, SavedTypeOK, LogStates
  <2> QED
    BY <2>1 DEF SavedInv, TreesWhole, KinKept, UsagePaired, LogsMarked, WatcherTrue
<1> QED
  BY <1>1, SavedInvariant, PTL DEF SavedSpec

(***************************************************************************)
(* The subtask graphs                                                      *)
(***************************************************************************)

\* The search as one step of a function v: what it answers from a state.
States(g) == [todo : SUBSET Reached(g), color : [Reached(g) -> Colors]]
Answers(g)   == [found : BOOLEAN, color : [Reached(g) -> Colors]]
NextOf(at) == CHOOSE m \in at.todo : TRUE
RestOf(at) == at.todo \ {NextOf(at)}
Passed(at) == From(RestOf(at), at.color)
Entered(g, at) == From(DependenciesOf(g, NextOf(at)), [at.color EXCEPT ![NextOf(at)] = "gray"])
Left(at, end) == From(RestOf(at), [end.color EXCEPT ![NextOf(at)] = "black"])

Visited(v, g, at) ==
    IF at.todo = {} THEN [found |-> FALSE, color |-> at.color]
    ELSE IF at.color[NextOf(at)] = "gray" THEN [found |-> TRUE, color |-> at.color]
    ELSE IF at.color[NextOf(at)] = "black" THEN v[Passed(at)]
    ELSE IF v[Entered(g, at)].found THEN v[Entered(g, at)]
    ELSE v[Left(at, v[Entered(g, at)])]

Searches(v, g) == v = [at \in States(g) |-> Visited(v, g, at)]

\* Search is chosen among the functions that satisfy the recursion.
LEMMA SearchIsRecursive ==
    ASSUME NEW g
    PROVE  Search(g) = CHOOSE v : Searches(v, g)
BY DEF Search, Searches, Visited, NextOf, RestOf, Passed, Entered, Left, States

\* It gets on: fewer names are white, or fewer are left to visit.
Colored(color, c) == {n \in DOMAIN color : color[n] = c}
Whites(at) == Colored(at.color, "white")
Less(y, x) ==
    \/ Whites(y) \subseteq Whites(x) /\ Whites(y) # Whites(x)
    \/ Whites(y) = Whites(x) /\ y.todo \subseteq x.todo /\ y.todo # x.todo

\* Among subsets of a finite set one has no smaller one (instead of an induction).
LEMMA SmallestSubset ==
    ASSUME NEW S, IsFiniteSet(S), NEW B, B \subseteq SUBSET S, B # {}
    PROVE  \E T \in B : \A U \in B : U \subseteq T => U = T
<1>1. IsWellFoundedOn(StrictSubsetOrdering(S), SUBSET S)
  BY FS_StrictSubsetOrderingWellFounded, FS_FiniteSubsetsOfFinite
<1>2. PICK T \in B : \A U \in B : ~ (<<U, T>> \in StrictSubsetOrdering(S))
  BY <1>1, WFMin
<1> QED
  BY <1>2 DEF StrictSubsetOrdering

\* Less is a strict order.
LEMMA LessIsOrder ==
    /\ \A x : ~Less(x, x)
    /\ \A x, y, z : Less(x, y) /\ Less(y, z) => Less(x, z)
BY DEF Less

\* Among states of the search one has none before it.
LEMMA LeastState ==
    ASSUME NEW g, IsFiniteSet(Reached(g)), NEW B, B \subseteq States(g), B # {}
    PROVE  \E x \in B : \A y \in B : ~Less(y, x)
<1> DEFINE Ws == {Whites(x) : x \in B}
<1>1. \A x \in B : Whites(x) \subseteq Reached(g) /\ x.todo \subseteq Reached(g)
  BY DEF States, Whites, Colored
<1>2. PICK W \in Ws : \A U \in Ws : U \subseteq W => U = W
  <2>1. Ws \subseteq SUBSET Reached(g) /\ Ws # {}
    BY <1>1
  <2> HIDE DEF Ws
  <2> QED BY <2>1, SmallestSubset
<1> DEFINE Ts == {x.todo : x \in {y \in B : Whites(y) = W}}
<1>3. PICK T \in Ts : \A U \in Ts : U \subseteq T => U = T
  <2>1. Ts \subseteq SUBSET Reached(g) /\ Ts # {}
    BY <1>1, <1>2
  <2> HIDE DEF Ts
  <2> QED BY <2>1, SmallestSubset
<1>4. PICK x \in B : Whites(x) = W /\ x.todo = T
  BY <1>3
<1>5. ASSUME NEW y \in B PROVE ~Less(y, x)
  <2>1. Whites(y) \in Ws
    OBVIOUS
  <2>2. Whites(y) \subseteq W => Whites(y) = W
    BY <1>2, <2>1
  <2>3. Whites(y) = W => y.todo \in Ts
    OBVIOUS
  <2>4. Whites(y) = W /\ y.todo \subseteq T => y.todo = T
    BY <1>3, <2>3
  <2> QED
    BY <1>4, <2>2, <2>4 DEF Less
<1> QED
  BY <1>5

\* Every call of the search is of a state before the caller's.
LEMMA StepsDown ==
    ASSUME NEW g, NEW x \in States(g), x.todo # {}
    PROVE  /\ NextOf(x) \in x.todo /\ NextOf(x) \in Reached(g) /\ x.color[NextOf(x)] \in Colors
           /\ x.color[NextOf(x)] = "black" => Passed(x) \in States(g) /\ Less(Passed(x), x)
           /\ x.color[NextOf(x)] = "white" =>
                /\ Entered(g, x) \in States(g) /\ Less(Entered(g, x), x)
                /\ \A end \in Answers(g) : Colored(end.color, "white") \subseteq Whites(Entered(g, x)) =>
                      Left(x, end) \in States(g) /\ Less(Left(x, end), x)
<1> DEFINE n == NextOf(x)
<1>1. n \in x.todo
  BY DEF NextOf
<1>2. x.todo \subseteq Reached(g) /\ x.color \in [Reached(g) -> Colors] /\ n \in Reached(g)
  BY <1>1 DEF States
<1> HIDE DEF n
<1>3. RestOf(x) = x.todo \ {n} /\ RestOf(x) # x.todo /\ RestOf(x) \subseteq x.todo
  BY <1>1 DEF RestOf, n
<1>4. Passed(x) \in States(g) /\ Less(Passed(x), x)
  BY <1>2, <1>3 DEF Passed, From, States, Less, Whites
<1>5. ASSUME x.color[n] = "white"
      PROVE  Entered(g, x) \in States(g) /\ Whites(Entered(g, x)) = Whites(x) \ {n} /\ n \in Whites(x)
  <2>1. Entered(g, x) = From(DependenciesOf(g, n), [x.color EXCEPT ![n] = "gray"])
    BY DEF Entered, n
  <2>2. DependenciesOf(g, n) \subseteq Reached(g)
    BY DEF DependenciesOf, Reached
  <2>3. [x.color EXCEPT ![n] = "gray"] \in [Reached(g) -> Colors]
    BY <1>2 DEF Colors
  <2>4. Entered(g, x) \in States(g)
    BY <2>1, <2>2, <2>3 DEF States, From
  <2>5. Whites(Entered(g, x)) = Whites(x) \ {n} /\ n \in Whites(x)
    BY <1>2, <1>5, <2>1 DEF Whites, Colored, From
  <2> QED
    BY <2>4, <2>5
<1>6. ASSUME x.color[n] = "white", NEW end \in Answers(g),
             Colored(end.color, "white") \subseteq Whites(Entered(g, x))
      PROVE  Left(x, end) \in States(g) /\ Less(Left(x, end), x)
  <2>1. Left(x, end) = From(RestOf(x), [end.color EXCEPT ![n] = "black"])
    BY DEF Left, n
  <2>2. [end.color EXCEPT ![n] = "black"] \in [Reached(g) -> Colors]
    BY <1>2 DEF Answers, Colors
  <2>3. Left(x, end) \in States(g)
    BY <1>2, <1>3, <2>1, <2>2 DEF States, From
  <2>4. Whites(Left(x, end)) \subseteq Colored(end.color, "white")
    BY <1>2, <2>1 DEF Whites, Colored, From, Answers
  <2>5. Whites(Left(x, end)) \subseteq Whites(x) \ {n} /\ n \in Whites(x)
    BY <1>5, <1>6, <2>4
  <2> QED
    BY <2>3, <2>5 DEF Less
<1>7. x.color[n] = "white" => Less(Entered(g, x), x)
  BY <1>5 DEF Less
<1> QED
  BY <1>1, <1>2, <1>4, <1>5, <1>6, <1>7 DEF n

\* A proper answer: no name has become white.
Proper(g, x, a) == a \in Answers(g) /\ Colored(a.color, "white") \subseteq Whites(x)

\* A step looks only at what comes before it.
LEMMA SameVisit ==
    ASSUME NEW g, NEW x \in States(g), NEW v, NEW w,
           \A y \in States(g) : Less(y, x) => v[y] = w[y] /\ Proper(g, y, v[y])
    PROVE  Visited(v, g, x) = Visited(w, g, x) /\ Proper(g, x, Visited(v, g, x))
<1> DEFINE n == NextOf(x)
<1>1. CASE x.todo = {}
  <2>1. Visited(v, g, x) = [found |-> FALSE, color |-> x.color] /\ Visited(w, g, x) = Visited(v, g, x)
    BY <1>1 DEF Visited
  <2> QED
    BY <2>1 DEF Proper, Answers, States, Whites
<1>2. CASE x.todo # {} /\ x.color[n] = "gray"
  <2>1. Visited(v, g, x) = [found |-> TRUE, color |-> x.color] /\ Visited(w, g, x) = Visited(v, g, x)
    BY <1>2 DEF Visited
  <2> QED
    BY <2>1 DEF Proper, Answers, States, Whites
<1>3. CASE x.todo # {} /\ x.color[n] = "black"
  <2>1. Passed(x) \in States(g) /\ Less(Passed(x), x)
    BY <1>3, StepsDown
  <2>2. Visited(v, g, x) = v[Passed(x)] /\ Visited(w, g, x) = w[Passed(x)]
    BY <1>3 DEF Visited
  <2>3. Whites(Passed(x)) \subseteq Whites(x)
    BY <2>1 DEF Less
  <2>4. v[Passed(x)] = w[Passed(x)] /\ Proper(g, Passed(x), v[Passed(x)])
    BY <2>1
  <2> QED
    BY <2>2, <2>3, <2>4 DEF Proper
<1>4. CASE x.todo # {} /\ x.color[n] = "white"
  <2> DEFINE e == v[Entered(g, x)]
  <2>1. Entered(g, x) \in States(g) /\ Less(Entered(g, x), x)
    BY <1>4, StepsDown
  <2>2. e = w[Entered(g, x)] /\ Proper(g, Entered(g, x), e)
    BY <2>1
  <2>3. Left(x, e) \in States(g) /\ Less(Left(x, e), x)
    BY <1>4, <2>2, StepsDown DEF Proper
  <2>4. Whites(Entered(g, x)) \subseteq Whites(x) /\ Whites(Left(x, e)) \subseteq Whites(x)
    BY <2>1, <2>3 DEF Less
  <2>5. v[Left(x, e)] = w[Left(x, e)] /\ Proper(g, Left(x, e), v[Left(x, e)])
    BY <2>3
  <2>6. /\ Visited(v, g, x) = IF e.found THEN e ELSE v[Left(x, e)]
        /\ Visited(w, g, x) = IF e.found THEN e ELSE w[Left(x, e)]
    BY <1>4, <2>2 DEF Visited
  <2> HIDE DEF e
  <2> QED
    BY <2>2, <2>4, <2>5, <2>6 DEF Proper
<1> QED
  BY <1>1, <1>2, <1>3, <1>4, StepsDown DEF Colors

Valid(v, g, X) == \A y \in X : v[y] = Visited(v, g, y) /\ Proper(g, y, v[y])
Down(g, x)     == {y \in States(g) : Less(y, x) \/ y = x}
LowerSet(g, X)   == X \subseteq States(g) /\ \A y \in X : Down(g, y) \subseteq X

\* What is before a state is before what follows it.
LEMMA DownIsLower ==
    ASSUME NEW g, NEW x \in States(g)
    PROVE  LowerSet(g, Down(g, x)) /\ x \in Down(g, x)
BY LessIsOrder DEF LowerSet, Down

\* Two searches answer the same wherever both are searches.
LEMMA Agree ==
    ASSUME NEW g, IsFiniteSet(Reached(g)), NEW v, NEW w, NEW X, NEW Y,
           LowerSet(g, X), LowerSet(g, Y), Valid(v, g, X), Valid(w, g, Y)
    PROVE  \A x \in X \cap Y : v[x] = w[x]
<1> DEFINE B == {x \in X \cap Y : v[x] # w[x]}
<1>1. SUFFICES ASSUME B # {} PROVE FALSE
  OBVIOUS
<1>2. B \subseteq States(g)
  BY DEF LowerSet
<1>3. PICK x \in B : \A y \in B : ~Less(y, x)
  <2> HIDE DEF B
  <2> QED BY <1>1, <1>2, LeastState
<1>4. \A y \in States(g) : Less(y, x) => v[y] = w[y] /\ Proper(g, y, v[y])
  BY <1>3 DEF LowerSet, Down, Valid
<1>5. x \in States(g)
  BY <1>2
<1>6. Visited(v, g, x) = Visited(w, g, x)
  BY <1>4, <1>5, SameVisit
<1> QED
  BY <1>6 DEF Valid

Trial(g, x) == CHOOSE v : Valid(v, g, Down(g, x))
Gather(g)     == [x \in States(g) |-> Trial(g, x)[x]]

\* Searches of parts are put together.
LEMMA Gathered ==
    ASSUME NEW g, IsFiniteSet(Reached(g)), NEW X, LowerSet(g, X),
           \A x \in X : Valid(Trial(g, x), g, Down(g, x))
    PROVE  Valid(Gather(g), g, X)
<1> DEFINE G == Gather(g)
<1> SUFFICES ASSUME NEW x \in X
             PROVE  G[x] = Visited(G, g, x) /\ Proper(g, x, G[x])
  BY DEF Valid
<1> DEFINE v == Trial(g, x)
<1>1. x \in States(g) /\ Down(g, x) \subseteq X
  BY DEF LowerSet
<1>2. Valid(v, g, Down(g, x)) /\ x \in Down(g, x) /\ LowerSet(g, Down(g, x))
  BY <1>1, DownIsLower
<1>3. G[x] = v[x]
  BY <1>1 DEF Gather
<1>4. ASSUME NEW y \in States(g), Less(y, x)
      PROVE  v[y] = G[y] /\ Proper(g, y, v[y])
  <2>1. y \in Down(g, x) /\ y \in X
    BY <1>1, <1>4 DEF Down
  <2>2. Valid(Trial(g, y), g, Down(g, y)) /\ y \in Down(g, y) /\ LowerSet(g, Down(g, y))
    BY <2>1, DownIsLower
  <2> HIDE DEF v
  <2>3. v[y] = Trial(g, y)[y]
    BY <1>2, <2>1, <2>2, Agree
  <2>4. G[y] = Trial(g, y)[y]
    BY DEF Gather
  <2> QED
    BY <1>2, <2>1, <2>3, <2>4 DEF Valid
<1> HIDE DEF v, G
<1>5. Visited(v, g, x) = Visited(G, g, x)
  BY <1>1, <1>4, SameVisit
<1> QED
  BY <1>2, <1>3, <1>5 DEF Valid

\* Up to every state there is a search.
LEMMA Trials ==
    ASSUME NEW g, IsFiniteSet(Reached(g))
    PROVE  \A x \in States(g) : Valid(Trial(g, x), g, Down(g, x))
<1> DEFINE B == {x \in States(g) : ~Valid(Trial(g, x), g, Down(g, x))}
<1>1. SUFFICES ASSUME B # {} PROVE FALSE
  OBVIOUS
<1>2. PICK x \in B : \A y \in B : ~Less(y, x)
  <2> HIDE DEF B
  <2>1. B \subseteq States(g)
    BY DEF B
  <2> QED BY <1>1, <2>1, LeastState
<1> DEFINE X == Down(g, x) \ {x}
           G == Gather(g)
           w == [G EXCEPT ![x] = Visited(G, g, x)]
<1>3. x \in States(g) /\ ~Valid(Trial(g, x), g, Down(g, x))
  OBVIOUS
<1>4. \A y \in States(g) : Less(y, x) => Valid(Trial(g, y), g, Down(g, y))
  BY <1>2
<1> HIDE DEF B
<1>5. LowerSet(g, X)
  BY LessIsOrder DEF LowerSet, Down
<1>6. \A y \in X : y \in States(g) /\ Less(y, x) /\ y # x
  BY DEF Down
<1>7. Valid(G, g, X)
  BY <1>4, <1>5, <1>6, Gathered
<1>8. \A y \in States(g) : y # x => w[y] = G[y]
  BY DEF Gather
<1>9. w[x] = Visited(G, g, x)
  BY <1>3 DEF Gather
<1> HIDE DEF w, G
<1>10. \A y \in States(g) : Less(y, x) => y \in X
  BY LessIsOrder DEF Down
<1> HIDE DEF X
<1>11. ASSUME NEW y \in X PROVE w[y] = Visited(w, g, y) /\ Proper(g, y, w[y])
  <2>1. \A z \in States(g) : Less(z, y) => G[z] = w[z] /\ Proper(g, z, G[z])
    BY <1>6, <1>7, <1>8, <1>10, LessIsOrder DEF Valid
  <2>2. Visited(G, g, y) = Visited(w, g, y)
    BY <1>6, <2>1, SameVisit
  <2> QED
    BY <1>6, <1>7, <1>8, <2>2 DEF Valid
<1>12. w[x] = Visited(w, g, x) /\ Proper(g, x, w[x])
  <2>1. \A z \in States(g) : Less(z, x) => G[z] = w[z] /\ Proper(g, z, G[z])
    BY <1>6, <1>7, <1>8, <1>10 DEF Valid
  <2>2. Visited(G, g, x) = Visited(w, g, x) /\ Proper(g, x, Visited(G, g, x))
    BY <1>3, <2>1, SameVisit
  <2> QED
    BY <1>9, <2>2
<1>13. Valid(w, g, Down(g, x))
  BY <1>11, <1>12 DEF Valid, X
<1> QED
  BY <1>3, <1>13 DEF Trial

\* The search is what its definition says it is, from every state.
LEMMA SearchIsValid ==
    ASSUME NEW g, IsFiniteSet(Reached(g))
    PROVE  Valid(Search(g), g, States(g))
<1>1. LowerSet(g, States(g))
  BY DEF LowerSet, Down
<1>2. Valid(Gather(g), g, States(g))
  BY <1>1, Trials, Gathered
<1>3. Searches(Gather(g), g)
  <2>1. \A x \in States(g) : Trial(g, x)[x] = Visited(Gather(g), g, x)
    BY <1>2 DEF Valid, Gather
  <2> QED
    BY <2>1 DEF Searches, Gather
<1> DEFINE v == Search(g)
<1>4. Searches(v, g)
  BY <1>3, SearchIsRecursive
<1> HIDE DEF v
<1>5. \A x \in States(g) : v[x] = Visited(v, g, x)
  BY <1>4 DEF Searches
<1> DEFINE B == {x \in States(g) : ~Proper(g, x, v[x])}
<1>6. ASSUME B # {} PROVE FALSE
  <2>1. PICK x \in B : \A y \in B : ~Less(y, x)
    <3> HIDE DEF B
    <3>1. B \subseteq States(g)
      BY DEF B
    <3> QED BY <1>6, <3>1, LeastState
  <2>2. \A y \in States(g) : Less(y, x) => v[y] = v[y] /\ Proper(g, y, v[y])
    BY <2>1
  <2>3. Proper(g, x, Visited(v, g, x))
    BY <2>2, SameVisit
  <2> QED
    BY <1>5, <2>3
<1> QED
  BY <1>5, <1>6 DEF Valid, v

\* Names each of which leads to another of them: no search that finds no cycle has
\* visited one and left it black.
Circular(g, U) == U \subseteq Reached(g) /\ \A n \in U : DependenciesOf(g, n) \cap U # {}

Missed(v, U, x) ==
    Colored(x.color, "black") \cap U = {}
      => v[x].found \/ (Colored(v[x].color, "black") \cap U = {} /\ x.todo \cap U = {})

\* A search that ends without a cycle leaves none of them black or to be visited.
LEMMA NothingMissed ==
    ASSUME NEW g, IsFiniteSet(Reached(g)), NEW U, Circular(g, U)
    PROVE  \A x \in States(g) : Missed(Search(g), U, x)
<1> DEFINE v == Search(g)
           B == {x \in States(g) : ~Missed(v, U, x)}
<1>1. SUFFICES ASSUME B # {} PROVE FALSE
  OBVIOUS
<1>2. PICK x \in B : \A y \in B : ~Less(y, x)
  <2> HIDE DEF B
  <2>1. B \subseteq States(g)
    BY DEF B
  <2> QED BY <1>1, <2>1, LeastState
<1>3. x \in States(g) /\ ~Missed(v, U, x)
  OBVIOUS
<1>4. \A y \in States(g) : Less(y, x) => Missed(v, U, y)
  BY <1>2
<1> HIDE DEF B
<1>5. \A y \in States(g) : v[y] = Visited(v, g, y) /\ Proper(g, y, v[y])
  BY SearchIsValid DEF Valid
<1> HIDE DEF v
<1> DEFINE n == NextOf(x)
<1>6. Colored(x.color, "black") \cap U = {}
  BY <1>3 DEF Missed
<1>7. CASE x.todo = {}
  <2>1. v[x] = [found |-> FALSE, color |-> x.color]
    BY <1>3, <1>5, <1>7 DEF Visited
  <2>2. v[x].color = x.color
    BY <2>1
  <2> QED
    BY <1>3, <1>7, <2>2 DEF Missed
<1>8. CASE x.todo # {} /\ x.color[n] = "gray"
  <2>1. v[x] = [found |-> TRUE, color |-> x.color]
    BY <1>3, <1>5, <1>8 DEF Visited
  <2>2. v[x].found
    BY <2>1
  <2> QED
    BY <1>3, <2>2 DEF Missed
<1>9. CASE x.todo # {} /\ x.color[n] = "black"
  <2>1. Passed(x) \in States(g) /\ Less(Passed(x), x) /\ n \in Reached(g)
    BY <1>3, <1>9, StepsDown
  <2>2. v[x] = v[Passed(x)]
    BY <1>3, <1>5, <1>9 DEF Visited
  <2>3. n \notin U
    BY <1>3, <1>6, <1>9, <2>1 DEF Colored, States
  <2>4. Missed(v, U, Passed(x)) /\ Passed(x).color = x.color /\ Passed(x).todo = x.todo \ {n}
    BY <1>4, <2>1 DEF Passed, From, RestOf
  <2> QED
    BY <1>3, <2>2, <2>3, <2>4 DEF Missed
<1>10. CASE x.todo # {} /\ x.color[n] = "white"
  <2> DEFINE e == v[Entered(g, x)]
  <2>1. Entered(g, x) \in States(g) /\ Less(Entered(g, x), x) /\ n \in Reached(g)
    BY <1>3, <1>10, StepsDown
  <2>2. Proper(g, Entered(g, x), e)
    BY <1>5, <2>1
  <2>3. Left(x, e) \in States(g) /\ Less(Left(x, e), x)
    BY <1>3, <1>10, <2>2, StepsDown DEF Proper
  <2>4. v[x] = IF e.found THEN e ELSE v[Left(x, e)]
    BY <1>3, <1>5, <1>10 DEF Visited
  <2>5. Missed(v, U, Entered(g, x)) /\ Missed(v, U, Left(x, e))
    BY <1>4, <2>1, <2>3
  <2>6. Colored(Entered(g, x).color, "black") \subseteq Colored(x.color, "black")
    BY <1>3, <2>1 DEF Colored, Entered, From, States
  <2>7. Entered(g, x).todo = DependenciesOf(g, n)
    BY DEF Entered, From
  <2>8. Left(x, e).todo = x.todo \ {n} /\ Colored(Left(x, e).color, "black") \subseteq Colored(e.color, "black") \cup {n}
    BY <2>2 DEF Left, From, RestOf, Colored, Proper, Answers
  <2> HIDE DEF e, n
  <2>9. ~e.found
    BY <1>3, <2>4 DEF Missed
  <2>10. Colored(e.color, "black") \cap U = {} /\ DependenciesOf(g, n) \cap U = {}
    BY <1>6, <2>5, <2>6, <2>7, <2>9 DEF Missed, e
  <2>11. n \notin U
    BY <2>10 DEF Circular
  <2> QED
    BY <1>3, <2>4, <2>5, <2>8, <2>9, <2>10, <2>11 DEF Missed
<1> QED
  BY <1>3, <1>7, <1>8, <1>9, <1>10, StepsDown DEF Colors

\* hasCycle finds a cycle wherever there is one.
LEMMA CyclesAreFound ==
    ASSUME NEW g, IsFiniteSet(Reached(g)), NEW U, Circular(g, U), U \cap Names(g) # {}
    PROVE  HasCycle(g)
<1> DEFINE c == [n \in Reached(g) |-> "white"]
           x == From(Names(g), c)
<1>1. x \in States(g)
  BY DEF States, From, Reached, Colors
<1>2. Colored(x.color, "black") = {} /\ x.todo = Names(g)
  BY DEF From, Colored
<1> HIDE DEF x
<1>3. Missed(Search(g), U, x)
  BY <1>1, NothingMissed
<1>4. Search(g)[x].found
  BY <1>2, <1>3 DEF Missed
<1> QED
  BY <1>4 DEF HasCycle, x

\* (The provers need the truth value by name.)
LEMMA NameIs ==
    ASSUME NEW g, NEW s, NEW b, b = (s \in g.padded)
    PROVE  Name(g, s) = <<s, b>>
BY DEF Name

\* A pair is a member of the product.
LEMMA PairIn ==
    ASSUME NEW Q, NEW s \in Q, NEW b \in BOOLEAN
    PROVE  <<s, b>> \in Q \X BOOLEAN
OBVIOUS

\* A name is a subtask with or without blanks.
LEMMA NameIsPair ==
    ASSUME NEW g, NEW s \in g.subtasks
    PROVE  Name(g, s) \in g.subtasks \X BOOLEAN
<1>1. CASE s \in g.padded
  <2>1. TRUE = (s \in g.padded)
    BY <1>1
  <2>2. Name(g, s) = <<s, TRUE>>
    BY <2>1, NameIs
  <2>3. TRUE \in BOOLEAN
    OBVIOUS
  <2> QED
    BY <2>2, <2>3, PairIn
<1>2. CASE s \notin g.padded
  <2>1. FALSE = (s \in g.padded)
    BY <1>2
  <2>2. Name(g, s) = <<s, FALSE>>
    BY <2>1, NameIs
  <2>3. FALSE \in BOOLEAN
    OBVIOUS
  <2> QED
    BY <2>2, <2>3, PairIn
<1> QED
  BY <1>1, <1>2

\* A subtask without blanks is named as it is.
LEMMA NameOfTrimmed ==
    ASSUME NEW g, NEW s, s \notin g.padded
    PROVE  Name(g, s) = <<s, FALSE>>
<1>1. FALSE = (s \in g.padded)
  OBVIOUS
<1> QED
  BY <1>1, NameIs

\* A proposal has finitely many names.
LEMMA ReachedIsFinite ==
    ASSUME NEW g \in Proposals
    PROVE  IsFiniteSet(Reached(g))
<1> USE GraphConstants
<1>1. IsFiniteSet(g.subtasks) /\ \A s \in g.subtasks : IsFiniteSet(g.deps[s])
  OBVIOUS
<1> DEFINE named == {dep[1] : dep \in UNION {g.deps[s] : s \in g.subtasks}}
<1>2. IsFiniteSet(BOOLEAN)
  <2>1. BOOLEAN = {TRUE, FALSE}
    OBVIOUS
  <2>2. IsFiniteSet({}) /\ IsFiniteSet({} \cup {TRUE})
    BY FS_EmptySet, FS_AddElement
  <2>3. IsFiniteSet(({} \cup {TRUE}) \cup {FALSE})
    BY <2>2, FS_AddElement
  <2>4. ({} \cup {TRUE}) \cup {FALSE} = {TRUE, FALSE}
    OBVIOUS
  <2> QED BY <2>1, <2>3, <2>4
<1>3. IsFiniteSet(Names(g))
  <2>1. IsFiniteSet(g.subtasks \X BOOLEAN)
    BY <1>1, <1>2, FS_Product
  <2>4. \A s \in g.subtasks : Name(g, s) \in g.subtasks \X BOOLEAN
    BY NameIsPair
  <2>5. Names(g) \subseteq g.subtasks \X BOOLEAN
    BY <2>4 DEF Names
  <2> QED BY <2>1, <2>5, FS_Subset
<1> DEFINE D == {g.deps[s] : s \in g.subtasks}
<1>4. IsFiniteSet(D)
  <2> DEFINE f == [s \in g.subtasks |-> g.deps[s]]
  <2>1. f \in Surjection(g.subtasks, D)
    BY DEF Surjection
  <2> HIDE DEF D, f
  <2> QED BY <1>1, <2>1, FS_Surjection
<1>5. IsFiniteSet(UNION D)
  <2> HIDE DEF D
  <2>1. \A S \in D : IsFiniteSet(S)
    BY <1>1 DEF D
  <2> QED BY <1>4, <2>1, FS_UNION
<1> QED
  BY <1>3, <1>5, FS_Union DEF Reached

\* What is kept: a graph that validation accepts, of whose subtasks some are finished.
GraphKept ==
    /\ finished # {} => graph.mode = "fan-out"
    /\ graph.mode = "fan-out" =>
         /\ graph.proposal \in Proposals /\ ~Rejected(graph.proposal)
         /\ finished \subseteq graph.proposal.subtasks

\* A graph is replaced by none, and what is ready is one of its subtasks.
LEMMA GraphKeptStep == GraphKept /\ [GraphNext]_graphVars => GraphKept'
<1> SUFFICES ASSUME GraphKept, [GraphNext]_graphVars PROVE GraphKept'
  OBVIOUS
<1>1. ASSUME NEW g \in Proposals, NEW ceiling \in Ceilings, Propose(g, ceiling) PROVE GraphKept'
  BY <1>1 DEF Propose, GraphKept, NoGraph, Single
<1>2. ASSUME NEW s \in ReadyIDs, Succeed(s) PROVE GraphKept'
  BY <1>2 DEF Succeed, ReadyIDs, GraphKept
<1>3. CASE UNCHANGED graphVars
  BY <1>3 DEF graphVars, GraphKept
<1> QED
  BY <1>1, <1>2, <1>3 DEF GraphNext

\* What is left and not ready would be circular.
LEMMA KeptFinishes == GraphKept => GraphFinishes
<1> DEFINE g == graph.proposal
           left == g.subtasks \ finished
           U == {<<s, FALSE>> : s \in left}
<1> SUFFICES ASSUME GraphKept, graph.mode = "fan-out", g.padded = {},
                    \A s \in g.subtasks : \A dep \in g.deps[s] : ~dep[2],
                    ReadyIDs = {}, finished # g.subtasks
             PROVE  FALSE
  BY DEF GraphFinishes
<1>1. g \in Proposals /\ ~Rejected(g) /\ left # {}
  BY DEF GraphKept
<1>2. \A s \in g.subtasks : Name(g, s) = <<s, FALSE>>
  BY NameOfTrimmed
<1>3. U \subseteq Names(g) /\ U # {}
  BY <1>1, <1>2 DEF Names
<1>4. ASSUME NEW s \in left PROVE DependenciesOf(g, <<s, FALSE>>) \cap U # {}
  <2>1. PICK dep \in g.deps[s] : ~Met(dep)
    BY DEF ReadyIDs
  <2>2. dep = <<dep[1], dep[2]>> /\ dep[2] \in BOOLEAN
    BY <1>1, GraphConstants
  <2>3. ~dep[2] /\ dep[1] \notin finished
    BY <2>1 DEF Met
  <2>4. dep[1] \in g.subtasks
    BY <1>1 DEF Rejected
  <2>5. dep = <<dep[1], FALSE>>
    BY <2>2, <2>3
  <2>6. dep \in U
    BY <2>3, <2>4, <2>5
  <2>7. dep \in DependenciesOf(g, <<s, FALSE>>)
    BY <1>2 DEF DependenciesOf
  <2> QED
    BY <2>6, <2>7
<1>5. Circular(g, U)
  BY <1>3, <1>4 DEF Circular, Reached
<1>6. HasCycle(g)
  <2>1. IsFiniteSet(Reached(g))
    BY <1>1, ReachedIsFinite
  <2>2. U \cap Names(g) # {}
    BY <1>3
  <2> HIDE DEF U, g
  <2> QED BY <1>5, <2>1, <2>2, CyclesAreFound
<1> QED
  BY <1>1, <1>6 DEF Rejected

\* A graph that validation keeps can be finished: as long as a subtask is left, one is
\* ready, whatever the graph.
THEOREM GraphsFinish == GraphSpec => []GraphFinishes
<1>1. GraphInit => GraphKept
  BY DEF GraphInit, GraphKept, NoGraph
<1>2. GraphKept /\ [GraphNext]_graphVars => GraphKept'
  BY GraphKeptStep
<1> QED
  BY <1>1, <1>2, KeptFinishes, PTL DEF GraphSpec

(***************************************************************************)
(* The approved plan                                                       *)
(***************************************************************************)

Digest  == Contents \cup {"none"}
Reasons == {"", "plan-artifact-mismatch", "command-authorization-required", "plan-approval-required",
            "implementer-failed"}
PlanStages == {"planning", "implementing", "halted", "assigning", "fanout", "starting", "working"}

PlanRun == [require : BOOLEAN, stage : PlanStages, outcome : Reasons, rev : [Files -> Digest],
            approved : [Files -> Digest], authorized : Digest, graph : Digest]

PlanPast == [approved : SUBSET [Files -> Contents], authorized : SUBSET Digest,
             started : SUBSET [content : [Files -> Contents], unread : SUBSET Files],
             since : SUBSET Files, edits : Nat, plans : Nat]

PlanTypeOK ==
    /\ saved \in [Files -> Digest]
    /\ prun \in PlanRun
    /\ ppast \in PlanPast

\* What a run holds for approved or authorized is what an operator approved or authorized.
Recorded ==
    /\ prun.approved = Nothing \/ prun.approved \in ppast.approved
    /\ prun.authorized \in ppast.authorized \cup {"none"}
    /\ \A c \in ppast.approved : c["checks"] \in ppast.authorized

\* What the gate found is so until somebody edits a file, and a fan-out has the approved graph.
GateHeld ==
    prun.stage \in {"assigning", "fanout"} =>
      /\ prun.require =>
           /\ Complete(prun) /\ prun.approved \in ppast.approved
           /\ \A f \in Files \ ppast.since : saved[f] = prun.approved[f]
           /\ prun.stage = "fanout" => prun.graph = prun.approved["subtasks"]
      /\ "checks" \notin ppast.since /\ Content["checks"] \in Commands =>
           Content["checks"] \in ppast.authorized
      /\ prun.stage = "fanout" => prun.graph \in Contents

PlanInv == PlanTypeOK /\ Recorded /\ GateHeld /\ StartedAsApproved

USE ApprovalConstants

LEMMA ContentType ==
    ASSUME saved \in [Files -> Digest]
    PROVE  Content \in [Files -> Contents] /\ Ensured \in [Files -> Digest]
  BY DEF Content, Ensured, Digest, Files, Sides

LEMMA DigestsType ==
    ASSUME saved \in [Files -> Digest], NEW r \in PlanRun
    PROVE  Digests(r) \in [Files -> Digest]
  BY ContentType DEF Digests, PlanRun, Digest

\* What the operator approves: the digests are those of the three files that are there.
LEMMA MatchesContent ==
    ASSUME saved \in [Files -> Digest], NEW r \in PlanRun, saved["plan"] # "none", Matches(r)
    PROVE  Digests(r) = Content
  <1>1. Ensured = Content
    BY DEF Ensured, Content, Files, Sides
  <1>2. QED BY <1>1, DigestsType, ContentType DEF Matches

LEMMA NothingType == Nothing \in [Files -> Digest]
  BY DEF Nothing, Digest

LEMMA PlanStart == PlanInit => PlanInv
  <1> SUFFICES ASSUME PlanInit PROVE PlanInv
    OBVIOUS
  <1>1. PICK r \in BOOLEAN : prun = [require |-> r, stage |-> "planning", outcome |-> "", rev |-> Nothing,
                                     approved |-> Nothing, authorized |-> "none", graph |-> "none"]
    BY DEF PlanInit
  <1>2. saved = Nothing
        /\ ppast = [approved |-> {}, authorized |-> {}, started |-> {}, since |-> {}, edits |-> 0,
                    plans |-> 0]
    BY DEF PlanInit
  <1>3. prun \in PlanRun
    BY <1>1, NothingType DEF PlanRun, PlanStages, Reasons, Digest
  <1>4. PlanTypeOK
    BY <1>2, <1>3, NothingType DEF PlanTypeOK, PlanPast
  <1>5. Recorded /\ GateHeld /\ StartedAsApproved
    BY <1>1, <1>2 DEF Recorded, GateHeld, StartedAsApproved
  <1>6. QED BY <1>4, <1>5 DEF PlanInv

LEMMA SaveKeeps ==
    ASSUME PlanInv, NEW c \in [Files -> Contents], SavePlan(c)
    PROVE  PlanInv'
  <1>0. c \in [Files -> Digest]
    BY DEF Digest
  <1>1. PlanTypeOK'
    <2>1. saved' \in [Files -> Digest]
      BY <1>0 DEF SavePlan
    <2>2. prun' \in PlanRun
      BY <1>0, NothingType DEF PlanInv, PlanTypeOK, SavePlan, PlanRun, PlanStages, Digest
    <2>3. ppast' \in PlanPast
      BY DEF PlanInv, PlanTypeOK, SavePlan, PlanPast
    <2>4. QED BY <2>1, <2>2, <2>3 DEF PlanTypeOK
  <1>2. Recorded' /\ GateHeld' /\ StartedAsApproved'
    BY DEF PlanInv, PlanTypeOK, SavePlan, PlanRun, PlanPast, Recorded, GateHeld, StartedAsApproved, Nothing
  <1>3. QED BY <1>1, <1>2 DEF PlanInv

LEMMA EditKeeps ==
    ASSUME PlanInv, NEW f \in Files, NEW c \in Contents \cup {"none"}, EditFile(f, c)
    PROVE  PlanInv'
  <1>1. PlanTypeOK'
    <2>1. saved' \in [Files -> Digest] /\ prun' = prun
      BY DEF PlanInv, PlanTypeOK, EditFile, Digest
    <2>2. ppast' \in PlanPast
      <3>1. ppast.since \cup {f} \in SUBSET Files /\ ppast.edits + 1 \in Nat /\ ppast \in PlanPast
        BY DEF PlanInv, PlanTypeOK, PlanPast
      <3> DEFINE since == ppast.since \cup {f}
                 edits == ppast.edits + 1
      <3>2. ppast' = [ppast EXCEPT !.edits = edits, !.since = since] /\ since \in SUBSET Files /\ edits \in Nat
        BY <3>1 DEF EditFile
      <3> HIDE DEF since, edits
      <3>3. QED BY <3>1, <3>2 DEF PlanPast
    <2>3. QED BY <2>1, <2>2 DEF PlanInv, PlanTypeOK
  <1>2. Recorded' /\ StartedAsApproved'
    BY DEF PlanInv, PlanTypeOK, EditFile, PlanPast, Recorded, StartedAsApproved, Nothing
  <1>3. \A g \in Files \ ppast'.since : g \notin ppast.since /\ saved'[g] = saved[g]
    BY DEF PlanInv, PlanTypeOK, EditFile, PlanPast
  <1>4. "checks" \notin ppast'.since => "checks" \notin ppast.since /\ Content'["checks"] = Content["checks"]
    BY <1>3 DEF Content, Files
  <1>5. GateHeld'
    BY <1>3, <1>4 DEF PlanInv, PlanTypeOK, PlanPast, EditFile, GateHeld, Complete
  <1>6. QED BY <1>1, <1>2, <1>5 DEF PlanInv

LEMMA GateKeeps ==
    ASSUME PlanInv, PlanGate
    PROVE  PlanInv'
  <1> DEFINE r == [prun EXCEPT !.rev = Digests(prun)]
  <1>1. /\ r \in PlanRun /\ r.require = prun.require /\ r.approved = prun.approved
        /\ r.authorized = prun.authorized /\ r.rev = Digests(prun)
    BY DigestsType DEF PlanInv, PlanTypeOK, PlanRun
  <1>2. saved' = Ensured /\ ppast' = [ppast EXCEPT !.since = {}] /\ saved["plan"] # "none"
    BY DEF PlanGate
  <1>3. saved' \in [Files -> Digest] /\ Content \in [Files -> Contents] /\ Content' = Content
    BY <1>2, ContentType DEF PlanInv, PlanTypeOK, Content, Ensured
  <1>a. ppast' \in PlanPast /\ ppast'.since = {} /\ ppast'.approved = ppast.approved
        /\ ppast'.authorized = ppast.authorized /\ ppast'.started = ppast.started
    BY <1>2 DEF PlanInv, PlanTypeOK, PlanPast
  <1>4. ASSUME NEW reason \in Reasons, prun' = HaltsFor(r, reason)
        PROVE  PlanInv'
    <2>1. PlanTypeOK'
      BY <1>1, <1>a, <1>3, <1>4 DEF HaltsFor, PlanInv, PlanTypeOK, PlanRun, PlanStages
    <2>2. /\ prun'.stage = "halted" /\ prun'.require = prun.require
          /\ prun'.approved = prun.approved /\ prun'.authorized = prun.authorized
      BY <1>1, <1>4 DEF HaltsFor, PlanRun
    <2>3. Recorded' /\ GateHeld' /\ StartedAsApproved'
      BY <1>a, <2>2 DEF PlanInv, Recorded, GateHeld, StartedAsApproved, Nothing
    <2>4. QED BY <2>1, <2>3 DEF PlanInv
  <1>5. ASSUME ~r.require, ~NeedsAuthorization(r), prun' = [r EXCEPT !.stage = "assigning"]
        PROVE  PlanInv'
    <2>1. PlanTypeOK' /\ Recorded' /\ StartedAsApproved'
      BY <1>1, <1>a, <1>3, <1>5 DEF PlanInv, PlanTypeOK, PlanRun, PlanStages, Recorded, StartedAsApproved, Nothing
    <2>2. Content["checks"] \in Commands => Content["checks"] \in ppast.authorized
      BY <1>1, <1>3, <1>5 DEF NeedsAuthorization, PlanInv, Recorded, Files
    <2>3. GateHeld'
      BY <1>1, <1>3, <1>a, <1>5, <2>2 DEF GateHeld, PlanRun
    <2>4. QED BY <2>1, <2>3 DEF PlanInv
  <1>6. ASSUME Matches(prun), Complete(r), r.require, prun' = [r EXCEPT !.stage = "assigning",
                                              !.authorized = IF @ = "none" THEN r.rev["checks"] ELSE @]
        PROVE  PlanInv'
    <2>1. r.approved = r.rev
      BY <1>1, <1>6 DEF Complete, PlanRun
    <2>2. r.rev["checks"] # "none"
      BY <1>1, ContentType DEF Digests, Sides, Files, PlanInv, PlanTypeOK
    <2>3. prun.approved \in ppast.approved
      BY <1>1, <2>1, <2>2 DEF PlanInv, Recorded, Nothing, Files
    <2>4. r.rev["checks"] \in ppast.authorized
      BY <1>1, <2>1, <2>3 DEF PlanInv, Recorded
    <2>5. r.rev["checks"] \in Digest
      BY <1>1 DEF PlanRun, Files
    <2>6. PlanTypeOK'
      BY <1>1, <1>a, <1>3, <1>6, <2>5 DEF PlanInv, PlanTypeOK, PlanRun, PlanStages
    <2>7. Recorded' /\ StartedAsApproved'
      BY <1>1, <1>a, <1>6, <2>4 DEF PlanInv, PlanTypeOK, PlanRun, Recorded, StartedAsApproved, Nothing
    <2>8. /\ prun'.approved = r.approved /\ prun'.rev = r.rev /\ prun'.stage = "assigning"
      BY <1>1, <1>6 DEF PlanRun
    <2>9. \A f \in Files : saved'[f] = prun'.approved[f]
      BY <1>1, <1>2, <1>6, <2>1, <2>8 DEF Matches
    <2>10. r.rev = Content
      BY <1>1, <1>2, <1>6, MatchesContent DEF PlanInv, PlanTypeOK
    <2>11. GateHeld'
      BY <1>1, <1>3, <1>a, <2>1, <2>3, <2>4, <2>8, <2>9, <2>10 DEF GateHeld, Complete
    <2>12. QED BY <2>6, <2>7, <2>11 DEF PlanInv
  <1>7. QED BY <1>4, <1>5, <1>6, Zenon DEF PlanGate, Reasons

LEMMA ApproveKeeps ==
    ASSUME PlanInv, ApprovePlan
    PROVE  PlanInv'
  <1> DEFINE r == [prun EXCEPT !.rev = Digests(prun)]
  <1>1. r \in PlanRun /\ r.require = prun.require /\ r.rev = Digests(prun)
    BY DigestsType DEF PlanInv, PlanTypeOK, PlanRun
  <1>2. saved' = Ensured /\ saved["plan"] # "none"
    BY DEF ApprovePlan
  <1>3. saved' \in [Files -> Digest] /\ Content \in [Files -> Contents]
    BY <1>2, ContentType DEF PlanInv, PlanTypeOK
  <1>a. ~(prun.stage \in {"assigning", "fanout"})
    BY DEF ApprovePlan, PlanInv, GateHeld
  <1>4. CASE ~Matches(prun)
    BY <1>3, <1>4, <1>a DEF ApprovePlan, PlanInv, PlanTypeOK, Recorded, GateHeld, StartedAsApproved, Nothing
  <1>5. CASE Matches(prun)
    <2>1. /\ prun' = [r EXCEPT !.approved = r.rev, !.authorized = r.rev["checks"],
                               !.stage = IF @ = "halted" THEN "implementing" ELSE @,
                               !.outcome = IF prun.stage = "halted" THEN "" ELSE @]
          /\ ppast' = [ppast EXCEPT !.approved = @ \cup {Content}, !.authorized = @ \cup {Content["checks"]}]
      BY <1>5 DEF ApprovePlan
    <2>2. r.rev = Content
      BY <1>1, <1>5, <1>2, MatchesContent DEF PlanInv, PlanTypeOK
    <2>3. Content["checks"] \in Digest /\ Content \in [Files -> Digest]
      BY <1>3 DEF Files, Digest
    <2>4. PlanTypeOK'
      BY <1>1, <1>3, <2>1, <2>2, <2>3 DEF PlanInv, PlanTypeOK, PlanRun, PlanPast, PlanStages, Reasons
    <2>5. Recorded'
      BY <1>1, <2>1, <2>2 DEF PlanInv, PlanTypeOK, PlanRun, PlanPast, Recorded
    <2>6. StartedAsApproved'
      BY <1>1, <2>1 DEF PlanInv, PlanTypeOK, PlanRun, PlanPast, StartedAsApproved
    <2>7. GateHeld'
      BY <1>1, <2>1, <1>a DEF PlanInv, PlanTypeOK, PlanRun, GateHeld
    <2>8. QED BY <2>4, <2>5, <2>6, <2>7 DEF PlanInv
  <1>6. QED BY <1>4, <1>5

LEMMA AuthorizeKeeps ==
    ASSUME PlanInv, NEW c, AuthorizeChecks(c)
    PROVE  PlanInv'
  <1> DEFINE r == [prun EXCEPT !.rev = Digests(prun)]
  <1>1. r \in PlanRun /\ r.require = prun.require /\ r.approved = prun.approved
    BY DigestsType DEF PlanInv, PlanTypeOK, PlanRun
  <1>2. saved' = Ensured /\ Content' = Content
    BY DEF AuthorizeChecks, Ensured, Content
  <1>3. saved' \in [Files -> Digest] /\ Content \in [Files -> Contents]
    BY <1>2, ContentType DEF PlanInv, PlanTypeOK
  \* Nothing is missing of what was approved.
  <1>a. ASSUME prun.stage \in {"assigning", "fanout"}, prun.require
        PROVE  /\ Digests(prun) = prun.rev
               /\ \A f \in Files \ ppast.since : Ensured[f] = prun.approved[f]
    <2>1. /\ Complete(prun) /\ prun.approved \in [Files -> Contents] /\ prun.rev \in [Files -> Digest]
          /\ \A f \in Files \ ppast.since : saved[f] = prun.approved[f]
      BY <1>a DEF PlanInv, PlanTypeOK, PlanPast, PlanRun, GateHeld
    <2>2. \A f \in Files : prun.rev[f] # "none"
      BY <2>1 DEF Complete
    <2>3. Digests(prun) = prun.rev
      BY <2>1, <2>2 DEF Digests
    <2>4. \A f \in Files \ ppast.since : Ensured[f] = saved[f]
      BY <2>1 DEF Ensured, Content
    <2>5. QED BY <2>1, <2>3, <2>4
  <1>4. CASE ~Matches(prun)
    <2>1. prun' = prun /\ ppast' = ppast
      BY <1>4 DEF AuthorizeChecks
    <2>2. PlanTypeOK' /\ Recorded' /\ StartedAsApproved'
      BY <1>2, <1>3, <2>1 DEF PlanInv, PlanTypeOK, Recorded, StartedAsApproved, Nothing
    <2>3. GateHeld'
      BY <1>2, <1>a, <2>1 DEF PlanInv, GateHeld, Complete
    <2>4. QED BY <2>2, <2>3 DEF PlanInv
  <1>5. CASE Matches(prun)
    <2>1. /\ prun' = [r EXCEPT !.authorized = Content["checks"],
                               !.stage = IF prun.outcome = "command-authorization-required"
                                         THEN "implementing" ELSE @,
                               !.outcome = IF @ = "command-authorization-required" THEN "" ELSE @]
          /\ ppast' = [ppast EXCEPT !.authorized = @ \cup {Content["checks"]}]
      BY <1>5 DEF AuthorizeChecks
    <2>2. Content["checks"] \in Digest
      BY <1>3 DEF Files, Digest
    <2>3. PlanTypeOK'
      BY <1>1, <1>3, <2>1, <2>2 DEF PlanInv, PlanTypeOK, PlanRun, PlanPast, PlanStages, Reasons
    <2>4. Recorded' /\ StartedAsApproved'
      BY <1>1, <2>1 DEF PlanInv, PlanTypeOK, PlanRun, PlanPast, Recorded, StartedAsApproved, Nothing
    <2>5. /\ prun'.approved = prun.approved /\ prun'.rev = Digests(prun) /\ prun'.graph = prun.graph
          /\ prun'.require = prun.require
          /\ prun'.stage \in {"assigning", "fanout"} => prun'.stage = prun.stage
      BY <2>1, DigestsType DEF PlanInv, PlanTypeOK, PlanRun
    <2>6. ppast'.since = ppast.since /\ ppast'.approved = ppast.approved
          /\ Content["checks"] \in ppast'.authorized
      BY <2>1 DEF PlanInv, PlanTypeOK, PlanPast
    <2>7. GateHeld'
      BY <1>2, <1>a, <2>5, <2>6 DEF PlanInv, GateHeld, Complete
    <2>8. QED BY <2>3, <2>4, <2>7 DEF PlanInv
  <1>6. QED BY <1>4, <1>5

LEMMA BackKeeps ==
    ASSUME PlanInv, SendBack \/ WorkAgain
    PROVE  PlanInv'
  <1> DEFINE kept == [f \in Files |-> IF f = "plan" THEN prun.rev[f] ELSE "none"]
  <1>0. kept \in [Files -> Digest]
    BY DEF PlanInv, PlanTypeOK, PlanRun, Digest
  <1>1. PlanTypeOK'
    <2>1. CASE SendBack
      <3>1. prun' = [prun EXCEPT !.stage = "planning", !.outcome = "", !.approved = Nothing,
                                 !.authorized = "none", !.rev = kept]
        BY <2>1 DEF SendBack, PlanInv, PlanTypeOK, PlanRun
      <3> HIDE DEF kept
      <3>2. QED BY ZenonT(60), <1>0, <2>1, <3>1, NothingType DEF SendBack, PlanInv, PlanTypeOK, PlanRun, PlanStages, Reasons, Digest
    <2>2. CASE WorkAgain
      BY <2>2 DEF PlanInv, PlanTypeOK, WorkAgain, PlanRun, PlanStages, Reasons, Digest
    <2>3. QED BY <2>1, <2>2
  <1>2. Recorded' /\ GateHeld' /\ StartedAsApproved'
    <2>1. /\ prun'.stage \in {"planning", "implementing"} /\ prun'.require = prun.require
          /\ prun'.approved = prun.approved \/ prun'.approved = Nothing
          /\ prun'.authorized = prun.authorized \/ prun'.authorized = "none"
          /\ ppast' = ppast
      BY DEF PlanInv, PlanTypeOK, SendBack, WorkAgain, PlanRun
    <2>2. QED BY <2>1 DEF PlanInv, Recorded, GateHeld, StartedAsApproved, Nothing
  <1>3. QED BY <1>1, <1>2 DEF PlanInv

LEMMA StartKeeps ==
    ASSUME PlanInv, StartImplementer
    PROVE  PlanInv'
  <1>1. CASE prun' = HaltsFor(prun, "implementer-failed") /\ ppast' = ppast /\ saved' = saved
    BY <1>1 DEF HaltsFor, PlanInv, PlanTypeOK, PlanRun, PlanStages, Reasons, Recorded, GateHeld, StartedAsApproved, Nothing
  <1>2. CASE /\ ~Unapproved(prun) /\ ~(saved["checks"] # "none" /\ NeedsAuthorization(prun))
             /\ prun' = [prun EXCEPT !.stage = "working"]
             /\ ppast' = [ppast EXCEPT !.started = @ \cup {[content |-> Content, unread |-> {}]}]
             /\ saved' = saved
    <2>1. Content \in [Files -> Contents]
      BY ContentType DEF PlanInv, PlanTypeOK
    <2>2. PlanTypeOK'
      BY <1>2, <2>1 DEF PlanInv, PlanTypeOK, PlanRun, PlanPast, PlanStages
    <2>3. Recorded' /\ GateHeld'
      BY <1>2 DEF PlanInv, PlanTypeOK, PlanRun, PlanPast, Recorded, GateHeld, Nothing
    <2>4. ASSUME prun.require PROVE Content \in ppast.approved
      <3>1. \A f \in Files : saved[f] # "none" /\ saved[f] = prun.approved[f]
        BY <1>2, <2>4 DEF Unapproved
      <3>2. prun.approved \in [Files -> Digest]
        BY DEF PlanInv, PlanTypeOK, PlanRun
      <3>3. Content = prun.approved
        BY <3>1, <3>2 DEF Content
      <3>4. prun.approved # Nothing
        BY <3>1 DEF Nothing, Files
      <3>5. QED BY <3>3, <3>4 DEF PlanInv, Recorded
    <2>5. ASSUME Content["checks"] \in Commands PROVE Content["checks"] \in ppast.authorized
      <3>1. saved["checks"] # "none"
        BY <2>5 DEF Content, Files
      <3>2. prun.authorized = Content["checks"]
        BY <1>2, <2>5, <3>1 DEF NeedsAuthorization
      <3>3. QED BY <2>1, <3>2 DEF PlanInv, Recorded, Files
    <2>6. StartedAsApproved'
      BY <1>2, <2>4, <2>5 DEF PlanInv, PlanTypeOK, PlanRun, PlanPast, StartedAsApproved
    <2>7. QED BY <2>2, <2>3, <2>6 DEF PlanInv
  <1>3. QED BY <1>1, <1>2 DEF StartImplementer

LEMMA LookKeeps ==
    ASSUME PlanInv, FanoutLooks
    PROVE  PlanInv'
  <1>0. saved' = saved /\ ppast' = ppast /\ Content' = Content /\ prun.stage = "assigning"
    BY DEF FanoutLooks, Content
  <1>1. CASE prun' = HaltsFor(prun, "implementer-failed")
    BY <1>0, <1>1 DEF HaltsFor, PlanInv, PlanTypeOK, PlanRun, PlanStages, Reasons, Recorded, GateHeld, StartedAsApproved, Nothing
  <1>2. CASE prun' = [prun EXCEPT !.stage = "starting"]
    BY <1>0, <1>2 DEF PlanInv, PlanTypeOK, PlanRun, PlanStages, Recorded, GateHeld, StartedAsApproved, Nothing
  <1>3. CASE /\ ~(prun.require /\ saved["subtasks"] \notin {"none", prun.approved["subtasks"]})
             /\ saved["subtasks"] \in FanoutGraphs
             /\ prun' = [prun EXCEPT !.stage = "fanout", !.graph = saved["subtasks"]]
    <2>1. saved["subtasks"] \in Digest /\ saved["subtasks"] # "none"
      BY <1>3 DEF Digest
    <2>2. PlanTypeOK' /\ Recorded' /\ StartedAsApproved'
      BY <1>0, <1>3, <2>1 DEF PlanInv, PlanTypeOK, PlanRun, PlanStages, Recorded, StartedAsApproved, Nothing
    <2>3. /\ prun'.graph = saved["subtasks"] /\ prun'.require = prun.require
          /\ prun'.approved = prun.approved /\ prun'.rev = prun.rev
      BY <1>3, <2>1 DEF PlanInv, PlanTypeOK, PlanRun
    <2>4. GateHeld'
      BY <1>0, <1>3, <2>1, <2>3 DEF PlanInv, GateHeld, Complete
    <2>5. QED BY <2>2, <2>4 DEF PlanInv
  <1>4. QED BY <1>1, <1>2, <1>3 DEF FanoutLooks

LEMMA FanoutStartKeeps ==
    ASSUME PlanInv, FanoutStarts
    PROVE  PlanInv'
  <1> DEFINE given == [Content EXCEPT !["subtasks"] = prun.graph]
             start == [content |-> given, unread |-> ppast.since \ {"subtasks"}]
  <1>0. /\ saved' = saved /\ prun' = prun /\ Content' = Content /\ prun.stage = "fanout"
        /\ ppast' = [ppast EXCEPT !.started = @ \cup {start}]
    BY DEF FanoutStarts, Content
  <1>1. Content \in [Files -> Contents] /\ ppast \in PlanPast /\ prun \in PlanRun
    BY ContentType DEF PlanInv, PlanTypeOK
  <1>2. given \in [Files -> Contents]
    BY <1>0, <1>1 DEF PlanInv, GateHeld, Files
  <1>3. start \in [content : [Files -> Contents], unread : SUBSET Files]
    BY <1>1, <1>2 DEF PlanPast
  <1>4. ppast' \in PlanPast /\ ppast'.started = ppast.started \cup {start}
        /\ ppast'.approved = ppast.approved /\ ppast'.authorized = ppast.authorized
        /\ ppast'.since = ppast.since
    BY <1>0, <1>1, <1>3 DEF PlanPast
  <1>5. PlanTypeOK' /\ Recorded' /\ GateHeld'
    BY <1>0, <1>4 DEF PlanInv, PlanTypeOK, Recorded, GateHeld, Complete, Nothing
  <1>6. ASSUME prun.require
        PROVE  \E a \in ppast.approved : \A f \in Files \ start.unread : start.content[f] = a[f]
    <2>1. /\ prun.approved \in ppast.approved /\ prun.approved \in [Files -> Contents]
          /\ \A f \in Files \ ppast.since : saved[f] = prun.approved[f]
          /\ prun.graph = prun.approved["subtasks"]
      BY <1>0, <1>1, <1>6 DEF PlanInv, GateHeld, PlanPast
    <2>2. \A f \in Files \ start.unread : given[f] = prun.approved[f]
      BY <1>1, <2>1 DEF Content
    <2>3. QED BY <2>1, <2>2
  <1>7. ASSUME "checks" \notin start.unread, start.content["checks"] \in Commands
        PROVE  start.content["checks"] \in ppast.authorized
    BY <1>0, <1>1, <1>7 DEF PlanInv, GateHeld, Files
  <1>8. StartedAsApproved'
    <2> HIDE DEF start
    <2> QED BY <1>0, <1>4, <1>6, <1>7 DEF PlanInv, StartedAsApproved
  <1>9. QED BY <1>5, <1>8 DEF PlanInv

LEMMA PlanStep == PlanInv /\ [PlanNext]_planVars => PlanInv'
  <1> SUFFICES ASSUME PlanInv, [PlanNext]_planVars PROVE PlanInv'
    OBVIOUS
  <1>1. CASE UNCHANGED planVars
    BY <1>1 DEF planVars, PlanInv, PlanTypeOK, Recorded, GateHeld, Complete, Content, StartedAsApproved, Nothing
  <1>2. CASE PlanNext
    BY <1>2, SaveKeeps, EditKeeps, GateKeeps, ApproveKeeps, AuthorizeKeeps, BackKeeps, StartKeeps, LookKeeps,
       FanoutStartKeeps DEF PlanNext
  <1>3. QED BY <1>1, <1>2

\* sdlcPlanApprovalGateLocked, sdlcApprovePlan, sdlcAuthorizeChecks, the look sdlcDrive takes
\* before it starts an implementer and the lesser one before it fans out: nothing is implemented
\* alone that was not approved as it is on disk, and no commands that nobody authorized, whoever
\* edits the files between any two steps; an implementer of a fan-out differs from what was
\* approved in the plan and the checks only, and only by an edit made after the drive's gate.
THEOREM ApprovedAsOnDisk == PlanSpec => []StartedAsApproved
  <1>1. PlanInv => StartedAsApproved
    BY DEF PlanInv
  <1>2. QED BY PlanStart, PlanStep, <1>1, PTL DEF PlanSpec

(***************************************************************************)
(* The files an agent is configured by                                     *)
(***************************************************************************)

\* The managed entries of a file are those of one install.
OneInstall(f) == \A e, g \in f.ours : e[3] = g[3] /\ e[4] = g[4]

IsFile(f) == f.kind # "none" /\ OneInstall(f)

ConfigShape ==
    /\ file = [c \in Components |-> file[c]]
    /\ backup = [c \in Components |-> backup[c]]
    /\ cpast = [edits |-> cpast.edits, started |-> cpast.started, original |-> cpast.original,
                edited |-> cpast.edited]
    /\ cpast.original = [c \in Components |-> cpast.original[c]]
    /\ command = [kind |-> command.kind, todo |-> command.todo, at |-> command.at,
                  binary |-> command.binary, guard |-> command.guard, out |-> command.out]
    /\ command.kind # "idle" => command.todo \in Seq(Components) \ {<<>>}

FilesSound ==
    \A c \in Components : IsFile(file[c]) /\ (backup[c] = None \/ IsFile(backup[c]))

\* A file without a sidecar is the original; a sidecar is, and its file is it or came of it.
OriginalKept ==
    \A c \in Components \ cpast.edited :
        IF backup[c] = None THEN file[c] = cpast.original[c]
        ELSE /\ backup[c] = cpast.original[c]
             /\ file[c] = cpast.original[c] \/ file[c].mine = Kept(c, cpast.original[c].mine)

\* What a command that runs has read, or is about to write.
ReadIsCurrent ==
    CommandAt("install", "backup") =>
        /\ IsFile(command.out.read) /\ IsFile(command.out.new)
        /\ Current \notin cpast.edited =>
              /\ command.out.read = file[Current]
              /\ command.out.new.mine = Kept(Current, file[Current].mine)

SavedBeforeWritten ==
    CommandAt("install", "write") =>
        /\ IsFile(command.out.new)
        /\ Current \notin cpast.edited =>
              backup[Current] # None /\ command.out.new.mine = Kept(Current, cpast.original[Current].mine)

RestoresSidecar ==
    CommandAt("uninstall", "restore") =>
        /\ IsFile(command.out)
        /\ backup[Current] # None => command.out = backup[Current]
        /\ backup[Current] = None /\ Current \notin cpast.edited =>
              /\ command.out = Stripped(Current, file[Current])
              /\ ~(Parsed(Current) /\ file[Current].kind = "garbled")

RestoredBeforeDropped ==
    CommandAt("uninstall", "drop") =>
        /\ backup[Current] # None
        /\ Current \notin cpast.edited => file[Current] = cpast.original[Current]

CommandSound == ReadIsCurrent /\ SavedBeforeWritten /\ RestoresSidecar /\ RestoredBeforeDropped

ConfigInv == ConfigShape /\ FilesSound /\ OriginalKept /\ CommandSound

(***************************************************************************)
(* What the adapters do to a file                                          *)
(***************************************************************************)

\* What an adapter keeps of the user's entries it keeps again.
LEMMA KeptTwice ==
    ASSUME NEW c \in Components, NEW mine
    PROVE  Kept(c, Kept(c, mine)) = Kept(c, mine)
  BY DEF Kept, ServersKept, ClaudeKept, CodexKept, CursorKept, AntigravityKept

LEMMA ManagedOfOne ==
    ASSUME NEW c \in Components, NEW binary, NEW guard, NEW mine, NEW stray
    PROVE  IsFile(Marshalled(mine, ManagedEntries(c, binary, guard), stray))
  <1>1. ASSUME NEW e \in ManagedEntries(c, binary, guard), NEW g \in ManagedEntries(c, binary, guard)
        PROVE  e[3] = g[3] /\ e[4] = g[4]
    <2>1. CASE c = "mcp" \/ adapter = "opencode"
      <3>1. \E x : ManagedEntries(c, binary, guard) = {x}
        BY <2>1, Zenon DEF ManagedEntries
      <3>2. PICK x : ManagedEntries(c, binary, guard) = {x}
        BY <3>1
      <3>3. e = x /\ g = x
        BY <3>2
      <3>4. QED BY <3>3
    <2>2. CASE c # "mcp" /\ adapter # "opencode"
      <3>1. PICK wanted : ManagedEntries(c, binary, guard) = {<<w[1], w[2], binary, guard>> : w \in wanted}
        BY <2>2, Zenon DEF ManagedEntries
      <3>2. PICK w1 \in wanted : e = <<w1[1], w1[2], binary, guard>>
        BY <3>1, Zenon
      <3>3. PICK w2 \in wanted : g = <<w2[1], w2[2], binary, guard>>
        BY <3>1, Zenon
      <3>4. QED BY <3>2, <3>3
    <2>3. QED BY <2>1, <2>2
  <1>2. QED BY <1>1 DEF IsFile, OneInstall, Marshalled

LEMMA StrippedIsFile ==
    ASSUME NEW c \in Components, NEW f, IsFile(f)
    PROVE  IsFile(Stripped(c, f))
  <1>1. Stripped(c, f) = f \/ Stripped(c, f) = AbsentFile
          \/ Stripped(c, f) = Marshalled(Kept(c, f.mine), {}, StrayStripped(f))
    <2>1. \A d \in BOOLEAN :
             WithoutManaged(c, f, d) \in {AbsentFile, Marshalled(Kept(c, f.mine), {}, StrayStripped(f))}
      BY DEF WithoutManaged
    <2>2. CASE f.kind = "absent"
      BY <2>2, Zenon DEF Stripped
    <2>3. CASE f.kind # "absent" /\ c = "mcp"
      <3>1. Stripped(c, f) = ServersStripped(f)
        BY <2>3, Zenon DEF Stripped
      <3>2. QED BY <2>1, <2>3, <3>1 DEF ServersStripped
    <2>4. CASE f.kind # "absent" /\ c = "hooks"
      <3>1. Stripped(c, f) \in {ClaudeStripped(f), CodexStripped(f), CursorStripped(f),
                                 AntigravityStripped(f), OpenCodeStripped(f)}
        BY <2>4, Zenon DEF Stripped
      <3>2. QED BY <2>1, <2>4, <3>1 DEF ClaudeStripped, CodexStripped, CursorStripped,
                                        AntigravityStripped, OpenCodeStripped
    <2>5. QED BY <2>2, <2>3, <2>4 DEF Components
  <1>2. QED BY <1>1 DEF IsFile, OneInstall, AbsentFile, Marshalled

LEMMA FilesOfUser ==
    ASSUME NEW c \in Components, NEW f \in FilesInit(c)
    PROVE  IsFile(f)
  <1>1. IsFile(AbsentFile) /\ IsFile(Garbled)
    BY DEF IsFile, OneInstall, AbsentFile, Garbled
  <1>2. ASSUME NEW t \in UserTexts[c] PROVE IsFile(UserFile(t, {}, {}))
    BY DEF IsFile, OneInstall, UserFile
  <1>3. IsFile(UserFile({}, ManagedEntries(c, "elsewhere", FALSE), {}))
    <2>1. OneInstall(Marshalled({}, ManagedEntries(c, "elsewhere", FALSE), {}))
      BY ManagedOfOne DEF IsFile
    <2>2. QED BY <2>1 DEF IsFile, OneInstall, UserFile, Marshalled
  <1>4. QED BY <1>1, <1>2, <1>3 DEF FilesInit

(***************************************************************************)
(* The steps                                                               *)
(***************************************************************************)
LEMMA ConfigStart == ConfigInit => ConfigInv
  <1> SUFFICES ASSUME ConfigInit PROVE ConfigInv
    OBVIOUS
  <1>1. PICK hooks \in FilesInit("hooks"), mcp \in FilesInit("mcp") :
            file = [c \in Components |-> IF c = "hooks" THEN hooks ELSE mcp]
    BY DEF ConfigInit
  <1>2. /\ backup = [c \in Components |-> None] /\ command = NoCommand
        /\ cpast = [edits |-> 0, started |-> 0, original |-> file, edited |-> {}]
    BY DEF ConfigInit
  <1>3. ConfigShape
    BY <1>1, <1>2 DEF ConfigShape, NoCommand
  <1>4. \A c \in Components : IsFile(file[c])
    BY <1>1, FilesOfUser DEF Components
  <1>5. FilesSound /\ OriginalKept
    BY <1>2, <1>4 DEF FilesSound, OriginalKept
  <1>6. CommandSound
    BY <1>2 DEF CommandSound, ReadIsCurrent, SavedBeforeWritten, RestoresSidecar,
       RestoredBeforeDropped, CommandAt, NoCommand
  <1>7. QED BY <1>3, <1>5, <1>6 DEF ConfigInv

\* A command that has just read nothing promises nothing.
LEMMA NothingRead ==
    ASSUME command'.at \in {"", "read"}
    PROVE  CommandSound'
  BY DEF CommandSound, ReadIsCurrent, SavedBeforeWritten, RestoresSidecar,
     RestoredBeforeDropped, CommandAt

LEMMA TailStays ==
    ASSUME NEW S, NEW s \in Seq(S), Len(s) > 1
    PROVE  Tail(s) \in Seq(S) \ {<<>>}
  <1>1. Tail(s) \in Seq(S) /\ Len(Tail(s)) = Len(s) - 1 /\ Len(s) \in Nat
    OBVIOUS
  <1>2. Len(Tail(s)) # 0
    BY <1>1
  <1>3. Len(<<>>) = 0
    OBVIOUS
  <1>4. Tail(s) # <<>>
    BY <1>2, <1>3, Zenon
  <1>5. QED BY <1>1, <1>4

LEMMA ContinueShape ==
    ASSUME ConfigShape, command.kind # "idle", Continue
    PROVE  /\ command'.at \in {"", "read"}
           /\ command' = [kind |-> command'.kind, todo |-> command'.todo, at |-> command'.at,
                  binary |-> command'.binary, guard |-> command'.guard, out |-> command'.out]
           /\ command'.kind # "idle" => command'.todo \in Seq(Components) \ {<<>>}
  <1>1. CASE Len(command.todo) > 1
    <2>1. command' = [command EXCEPT !.todo = Tail(command.todo), !.at = "read", !.out = None]
      BY <1>1 DEF Continue
    <2>2. Tail(command.todo) \in Seq(Components) \ {<<>>}
      BY <1>1, TailStays DEF ConfigShape
    <2>3. command' = [kind |-> command.kind, todo |-> Tail(command.todo), at |-> "read",
                      binary |-> command.binary, guard |-> command.guard, out |-> None]
      BY <2>1, Zenon DEF ConfigShape
    <2>4. QED BY <2>2, <2>3
  <1>2. CASE ~(Len(command.todo) > 1)
    BY <1>2 DEF Continue, NoCommand
  <1>3. QED BY <1>1, <1>2

LEMMA CurrentIs ==
    ASSUME ConfigShape, command.kind # "idle"
    PROVE  Current \in Components
  BY DEF ConfigShape, Current

\* Files and history stay, and the command reads nothing or ends.
LEMMA CommandMoves ==
    ASSUME ConfigInv, UNCHANGED <<adapter, file, backup>>, command'.at \in {"", "read"},
           command' = [kind |-> command'.kind, todo |-> command'.todo, at |-> command'.at,
                  binary |-> command'.binary, guard |-> command'.guard, out |-> command'.out],
           command'.kind # "idle" => command'.todo \in Seq(Components) \ {<<>>},
           cpast' = [cpast EXCEPT !.started = cpast'.started]
    PROVE  ConfigInv'
  <1>1. /\ cpast' = [edits |-> cpast'.edits, started |-> cpast'.started, original |-> cpast'.original,
                edited |-> cpast'.edited]
        /\ cpast'.original = cpast.original /\ cpast'.edited = cpast.edited
    BY DEF ConfigInv, ConfigShape
  <1>2. ConfigShape'
    BY <1>1 DEF ConfigInv, ConfigShape
  <1>3. FilesSound' /\ OriginalKept'
    BY <1>1 DEF ConfigInv, FilesSound, OriginalKept, Kept
  <1>4. QED BY <1>2, <1>3, NothingRead DEF ConfigInv

LEMMA StartsKeeps ==
    ASSUME ConfigInv, NEW components \in (SUBSET Components) \ {{}},
           NEW kind \in {"install", "uninstall"}, NEW binary, NEW guard,
           StartsCommand(kind, components, binary, guard)
    PROVE  ConfigInv'
  <1> DEFINE todo == IF components # {"hooks", "mcp"} THEN <<CHOOSE c \in components : TRUE>>
                     ELSE IF kind = "install" THEN <<"hooks", "mcp">>
                     ELSE <<"mcp", "hooks">>
  <1>1. command' = [NoCommand EXCEPT !.kind = kind, !.binary = binary, !.guard = guard, !.at = "read",
                       !.todo = todo]
    BY DEF StartsCommand
  <1>2. todo \in Seq(Components) \ {<<>>}
    <2>1. (CHOOSE c \in components : TRUE) \in Components
      OBVIOUS
    <2>2. <<CHOOSE c \in components : TRUE>> \in Seq(Components) \ {<<>>}
      BY <2>1
    <2>3. <<"hooks", "mcp">> \in Seq(Components) \ {<<>>} /\ <<"mcp", "hooks">> \in Seq(Components) \ {<<>>}
      BY DEF Components
    <2>4. QED BY <2>2, <2>3
  <1> HIDE DEF todo
  <1>3. command' = [kind |-> kind, todo |-> todo, at |-> "read", binary |-> binary, guard |-> guard,
                    out |-> None]
    BY <1>1, Zenon DEF NoCommand
  <1>4. cpast' = [cpast EXCEPT !.started = cpast.started + 1] /\ UNCHANGED <<adapter, file, backup>>
    BY DEF StartsCommand
  <1>5. cpast'.started = cpast.started + 1
    BY <1>4, Zenon DEF ConfigInv, ConfigShape
  <1>6. QED BY <1>2, <1>3, <1>4, <1>5, CommandMoves

LEMMA StopsKeeps ==
    ASSUME ConfigInv, CommandStops
    PROVE  ConfigInv'
  <1>1. command' = NoCommand /\ UNCHANGED <<adapter, file, backup, cpast>>
    BY DEF CommandStops
  <1>2. cpast' = [cpast EXCEPT !.started = cpast'.started]
    BY <1>1 DEF ConfigInv, ConfigShape
  <1>3. QED BY <1>1, <1>2, CommandMoves DEF NoCommand

\* A step of a command on one file: what it must show of that file.
LEMMA ReadsKeeps ==
    ASSUME ConfigInv, InstallReads
    PROVE  ConfigInv'
  <1>1. command.kind = "install" /\ command.at = "read" /\ UNCHANGED <<adapter, file, backup, cpast>>
    BY DEF InstallReads, CommandAt
  <1> DEFINE out == Merged(Current, file[Current], command.binary, command.guard)
  <1>2. cpast' = [cpast EXCEPT !.started = cpast'.started]
    BY <1>1, Zenon DEF ConfigInv, ConfigShape
  <1>3. CASE Parsed(Current) /\ file[Current].kind = "garbled"
    <2>1. command' = NoCommand
      BY <1>3 DEF InstallReads
    <2>2. QED BY <1>1, <1>2, <2>1, CommandMoves DEF NoCommand
  <1>4. CASE Continue
    BY <1>1, <1>2, <1>4, ContinueShape, CommandMoves DEF ConfigInv
  <1>5. CASE command' = [command EXCEPT !.at = "backup", !.out = [read |-> file[Current], new |-> out]]
             /\ out # file[Current]
    <2>1. command' = [kind |-> "install", todo |-> command.todo, at |-> "backup",
                      binary |-> command.binary, guard |-> command.guard,
                      out |-> [read |-> file[Current], new |-> out]]
      BY <1>1, <1>5, Zenon DEF ConfigInv, ConfigShape
    <2>2. command'.todo = command.todo /\ command'.out.read = file[Current] /\ command'.out.new = out
          /\ command'.kind = "install" /\ command'.at = "backup"
      BY <2>1
    <2>3. Current \in Components /\ Current' = Current
      BY <1>1, <2>2, CurrentIs DEF ConfigInv, Current
    <2>4. out = Marshalled(Kept(Current, file[Current].mine),
                           ManagedEntries(Current, command.binary, command.guard), StrayKept(file[Current]))
      BY <1>5 DEF Merged
    <2>5. IsFile(out) /\ out.mine = Kept(Current, file[Current].mine)
      BY <2>3, <2>4, ManagedOfOne DEF Marshalled
    <2> HIDE DEF out
    <2>6. ConfigShape'
      BY <1>1, <2>1, <2>2 DEF ConfigInv, ConfigShape
    <2>7. FilesSound' /\ OriginalKept'
      BY <1>1 DEF ConfigInv, FilesSound, OriginalKept, Kept
    <2>8. IsFile(file[Current])
      BY <2>3 DEF ConfigInv, FilesSound
    <2>9. ReadIsCurrent'
      <3>1. IsFile(command'.out.read) /\ IsFile(command'.out.new)
        BY <2>2, <2>5, <2>8
      <3>2. command'.out.read = file'[Current'] /\ command'.out.new.mine = Kept(Current, file[Current].mine)
        BY <1>1, <2>2, <2>3, <2>5
      <3>3. Kept(Current, file[Current].mine)' = Kept(Current, file[Current].mine)
        BY <1>1, <2>3 DEF Kept
      <3>4. QED BY <3>1, <3>2, <3>3 DEF ReadIsCurrent
    <2>10. CommandSound'
      BY <2>2, <2>9 DEF CommandSound, SavedBeforeWritten, RestoresSidecar, RestoredBeforeDropped, CommandAt
    <2>11. QED BY <2>6, <2>7, <2>10 DEF ConfigInv
  <1>6. QED BY <1>3, <1>4, <1>5 DEF InstallReads

\* What the step of a command on the current file leaves alone: the other file.
LEMMA OtherFile ==
    ASSUME ConfigInv, NEW c \in Components, UNCHANGED adapter, NEW d \in Components, d # c,
           file' = [file EXCEPT ![c] = file'[c]], backup' = [backup EXCEPT ![c] = backup'[c]],
           cpast'.original = [cpast.original EXCEPT ![c] = cpast'.original[c]],
           cpast'.edited \ {c} = cpast.edited \ {c}
    PROVE  /\ file'[d] = file[d] /\ backup'[d] = backup[d] /\ cpast'.original[d] = cpast.original[d]
           /\ d \in cpast'.edited <=> d \in cpast.edited
           /\ \A mine : Kept(d, mine)' = Kept(d, mine)
  <1>1. file = [x \in Components |-> file[x]] /\ backup = [x \in Components |-> backup[x]]
        /\ cpast.original = [x \in Components |-> cpast.original[x]]
    BY DEF ConfigInv, ConfigShape
  <1>2. file'[d] = file[d] /\ backup'[d] = backup[d] /\ cpast'.original[d] = cpast.original[d]
    BY <1>1, Zenon
  <1>3. \A mine : Kept(d, mine)' = Kept(d, mine)
    BY DEF Kept
  <1>4. QED BY <1>2, <1>3

\* So a step on one file keeps what is said of the files when it keeps it of that one.
LEMMA OneFileKeeps ==
    ASSUME ConfigInv, NEW c \in Components, UNCHANGED adapter,
           file' = [file EXCEPT ![c] = file'[c]], backup' = [backup EXCEPT ![c] = backup'[c]],
           cpast'.original = [cpast.original EXCEPT ![c] = cpast'.original[c]],
           cpast' = [edits |-> cpast'.edits, started |-> cpast'.started,
                     original |-> cpast'.original, edited |-> cpast'.edited],
           cpast'.edited \ {c} = cpast.edited \ {c},
           command' = [kind |-> command'.kind, todo |-> command'.todo, at |-> command'.at,
                  binary |-> command'.binary, guard |-> command'.guard, out |-> command'.out],
           command'.kind # "idle" => command'.todo \in Seq(Components) \ {<<>>},
           IsFile(file'[c]), backup'[c] = None \/ IsFile(backup'[c]),
           c \in cpast'.edited \/
              IF backup'[c] = None THEN file'[c] = cpast'.original[c]
              ELSE /\ backup'[c] = cpast'.original[c]
                   /\ file'[c] = cpast'.original[c] \/ file'[c].mine = Kept(c, cpast'.original[c].mine)
    PROVE  ConfigShape' /\ FilesSound' /\ OriginalKept'
  <1>1. file = [x \in Components |-> file[x]] /\ backup = [x \in Components |-> backup[x]]
        /\ cpast.original = [x \in Components |-> cpast.original[x]]
        /\ cpast = [edits |-> cpast.edits, started |-> cpast.started, original |-> cpast.original,
                edited |-> cpast.edited]
    BY DEF ConfigInv, ConfigShape
  <1>2. file' = [x \in Components |-> file'[x]]
    BY <1>1, Zenon
  <1>3. backup' = [x \in Components |-> backup'[x]]
    BY <1>1, Zenon
  <1>4. cpast'.original = [x \in Components |-> cpast'.original[x]]
    BY <1>1, Zenon
  <1>5. cpast' = [edits |-> cpast'.edits, started |-> cpast'.started, original |-> cpast'.original,
                edited |-> cpast'.edited]
    BY <1>1
  <1>6. ConfigShape'
    BY <1>2, <1>3, <1>4, <1>5 DEF ConfigShape
  <1>7. ASSUME NEW d \in Components, d # c
        PROVE  /\ IsFile(file'[d]) /\ (backup'[d] = None \/ IsFile(backup'[d]))
               /\ d \in cpast'.edited \/
                    IF backup'[d] = None THEN file'[d] = cpast'.original[d]
                    ELSE /\ backup'[d] = cpast'.original[d]
                         /\ file'[d] = cpast'.original[d] \/ file'[d].mine = Kept(d, cpast'.original[d].mine)
    <2>1. /\ file'[d] = file[d] /\ backup'[d] = backup[d] /\ cpast'.original[d] = cpast.original[d]
          /\ d \in cpast'.edited <=> d \in cpast.edited
      BY <1>7, OtherFile
    <2>2. QED BY <1>7, <2>1 DEF ConfigInv, FilesSound, OriginalKept
  <1>8. FilesSound'
    BY <1>7 DEF FilesSound, IsFile, OneInstall
  <1>9. \A d \in Components : \A mine : Kept(d, mine)' = Kept(d, mine)
    BY DEF Kept
  <1>10. OriginalKept'
    BY <1>7, <1>9 DEF OriginalKept, Kept
  <1>11. QED BY <1>6, <1>8, <1>10

LEMMA SavesKeeps ==
    ASSUME ConfigInv, InstallSaves
    PROVE  ConfigInv'
  <1>1. /\ command.kind = "install" /\ command.at = "backup" /\ UNCHANGED <<adapter, file, cpast>>
        /\ backup' = [backup EXCEPT ![Current] = SavedFirst(Current, command.out.read)]
    BY DEF InstallSaves, CommandAt
  <1>2. command' = [kind |-> "install", todo |-> command.todo, at |-> "write",
                    binary |-> command.binary, guard |-> command.guard, out |-> command.out]
    BY <1>1, Zenon DEF InstallSaves, ConfigInv, ConfigShape
  <1>3. /\ command'.todo = command.todo /\ command'.out = command.out
        /\ command'.kind = "install" /\ command'.at = "write"
    BY <1>2
  <1>4. Current \in Components /\ Current' = Current
    BY <1>1, <1>3, CurrentIs DEF ConfigInv, Current
  <1>5. /\ IsFile(command.out.read) /\ IsFile(command.out.new)
        /\ Current \notin cpast.edited =>
              /\ command.out.read = file[Current]
              /\ command.out.new.mine = Kept(Current, file[Current].mine)
    BY <1>1 DEF ConfigInv, CommandSound, ReadIsCurrent, CommandAt
  <1>6. backup'[Current] = SavedFirst(Current, command.out.read)
    BY <1>1, <1>4, Zenon DEF ConfigInv, ConfigShape
  <1>7. IsFile(file[Current]) /\ (backup[Current] = None \/ IsFile(backup[Current]))
    BY <1>4 DEF ConfigInv, FilesSound
  <1>8. IsFile(backup'[Current]) /\ backup'[Current] # None
    <2>1. ~IsFile(None)
      BY DEF IsFile, None
    <2>2. QED BY <1>5, <1>6, <1>7, <2>1 DEF SavedFirst
  <1>9. Current \in cpast.edited \/
           /\ backup'[Current] = cpast.original[Current]
           /\ file[Current] = cpast.original[Current]
                \/ file[Current].mine = Kept(Current, cpast.original[Current].mine)
    BY <1>4, <1>5, <1>6 DEF ConfigInv, OriginalKept, SavedFirst
  <1>10. cpast' = [edits |-> cpast'.edits, started |-> cpast'.started,
                     original |-> cpast'.original, edited |-> cpast'.edited]
    BY <1>1 DEF ConfigInv, ConfigShape
  <1>11. cpast'.original = [cpast.original EXCEPT ![Current] = cpast'.original[Current]]
         /\ file' = [file EXCEPT ![Current] = file'[Current]]
         /\ backup' = [backup EXCEPT ![Current] = backup'[Current]]
    BY <1>1, <1>6, Zenon DEF ConfigInv, ConfigShape
  <1>12. command'.todo \in Seq(Components) \ {<<>>}
    BY <1>1, <1>3 DEF ConfigInv, ConfigShape
  <1>13. ConfigShape' /\ FilesSound' /\ OriginalKept'
    BY <1>1, <1>2, <1>3, <1>4, <1>7, <1>8, <1>9, <1>10, <1>11, <1>12, OneFileKeeps
  <1>14. SavedBeforeWritten'
    <2>1. Current \notin cpast.edited =>
              command.out.new.mine = Kept(Current, cpast.original[Current].mine)
      BY <1>4, <1>5, KeptTwice DEF ConfigInv, OriginalKept
    <2>2. Kept(Current, cpast.original[Current].mine)' = Kept(Current, cpast.original[Current].mine)
      BY <1>1, <1>4 DEF Kept
    <2>3. QED BY <1>1, <1>3, <1>4, <1>5, <1>8, <2>1, <2>2 DEF SavedBeforeWritten
  <1>15. CommandSound'
    BY <1>3, <1>14 DEF CommandSound, ReadIsCurrent, RestoresSidecar, RestoredBeforeDropped, CommandAt
  <1>16. QED BY <1>13, <1>15 DEF ConfigInv

\* A command is done with its file, and goes to the next one or ends.
LEMMA CommandDone ==
    ASSUME ConfigInv, command.kind # "idle", Continue, UNCHANGED adapter,
           file' = [file EXCEPT ![Current] = file'[Current]],
           backup' = [backup EXCEPT ![Current] = backup'[Current]],
           cpast'.original = [cpast.original EXCEPT ![Current] = cpast'.original[Current]],
           cpast' = [edits |-> cpast'.edits, started |-> cpast'.started,
                     original |-> cpast'.original, edited |-> cpast'.edited],
           cpast'.edited \ {Current} = cpast.edited \ {Current},
           IsFile(file'[Current]), backup'[Current] = None \/ IsFile(backup'[Current]),
           Current \in cpast'.edited \/
              IF backup'[Current] = None THEN file'[Current] = cpast'.original[Current]
              ELSE /\ backup'[Current] = cpast'.original[Current]
                   /\ file'[Current] = cpast'.original[Current]
                        \/ file'[Current].mine = Kept(Current, cpast'.original[Current].mine)
    PROVE  ConfigInv'
  <1>1. /\ command'.at \in {"", "read"}
        /\ command' = [kind |-> command'.kind, todo |-> command'.todo, at |-> command'.at,
                  binary |-> command'.binary, guard |-> command'.guard, out |-> command'.out]
        /\ command'.kind # "idle" => command'.todo \in Seq(Components) \ {<<>>}
    BY ContinueShape DEF ConfigInv
  <1>2. Current \in Components
    BY CurrentIs DEF ConfigInv
  <1>3. ConfigShape' /\ FilesSound' /\ OriginalKept'
    BY <1>1, <1>2, OneFileKeeps
  <1>4. QED BY <1>1, <1>3, NothingRead DEF ConfigInv

LEMMA WritesKeeps ==
    ASSUME ConfigInv, InstallWrites
    PROVE  ConfigInv'
  <1>1. /\ command.kind = "install" /\ command.at = "write" /\ UNCHANGED <<adapter, backup, cpast>>
        /\ file' = [file EXCEPT ![Current] = command.out.new] /\ Continue
    BY DEF InstallWrites, CommandAt
  <1>2. Current \in Components
    BY <1>1, CurrentIs DEF ConfigInv
  <1>3. file'[Current] = command.out.new
    BY <1>1, <1>2, Zenon DEF ConfigInv, ConfigShape
  <1>4. /\ IsFile(command.out.new)
        /\ Current \notin cpast.edited =>
              backup[Current] # None /\ command.out.new.mine = Kept(Current, cpast.original[Current].mine)
    BY <1>1 DEF ConfigInv, CommandSound, SavedBeforeWritten, CommandAt
  <1>5. backup[Current] = None \/ IsFile(backup[Current])
    BY <1>2 DEF ConfigInv, FilesSound
  <1>6. Current \notin cpast.edited => backup[Current] = cpast.original[Current]
    BY <1>2, <1>4 DEF ConfigInv, OriginalKept
  <1>7. cpast' = [edits |-> cpast'.edits, started |-> cpast'.started,
                     original |-> cpast'.original, edited |-> cpast'.edited]
    BY <1>1 DEF ConfigInv, ConfigShape
  <1>8. cpast'.original = [cpast.original EXCEPT ![Current] = cpast'.original[Current]]
        /\ file' = [file EXCEPT ![Current] = file'[Current]]
        /\ backup' = [backup EXCEPT ![Current] = backup'[Current]]
    BY <1>1, <1>3, Zenon DEF ConfigInv, ConfigShape
  <1>9. QED BY <1>1, <1>3, <1>4, <1>5, <1>6, <1>7, <1>8, CommandDone

LEMMA UninstallReadsKeeps ==
    ASSUME ConfigInv, UninstallReads
    PROVE  ConfigInv'
  <1>1. command.kind = "uninstall" /\ command.at = "read" /\ UNCHANGED <<adapter, file, backup, cpast>>
    BY DEF UninstallReads, CommandAt
  <1>2. cpast' = [cpast EXCEPT !.started = cpast'.started]
    BY <1>1, Zenon DEF ConfigInv, ConfigShape
  <1> DEFINE out == IF backup[Current] # None THEN backup[Current] ELSE Stripped(Current, file[Current])
  <1>3. CASE backup[Current] = None /\ Parsed(Current) /\ file[Current].kind = "garbled"
    <2>1. command' = NoCommand
      BY <1>3 DEF UninstallReads
    <2>2. QED BY <1>1, <1>2, <2>1, CommandMoves DEF NoCommand
  <1>4. CASE ~(backup[Current] = None /\ Parsed(Current) /\ file[Current].kind = "garbled")
    <2>1. command' = [command EXCEPT !.at = "restore", !.out = out]
      BY <1>4 DEF UninstallReads
    <2>2. Current \in Components
      BY <1>1, CurrentIs DEF ConfigInv
    <2>3. IsFile(file[Current]) /\ (backup[Current] = None \/ IsFile(backup[Current]))
      BY <2>2 DEF ConfigInv, FilesSound
    <2>4. IsFile(out)
      BY <2>2, <2>3, StrippedIsFile
    <2>5. /\ backup[Current] # None => out = backup[Current]
          /\ backup[Current] = None => out = Stripped(Current, file[Current])
      OBVIOUS
    <2> HIDE DEF out
    <2>6. command' = [kind |-> "uninstall", todo |-> command.todo, at |-> "restore",
                      binary |-> command.binary, guard |-> command.guard, out |-> out]
      BY <1>1, <2>1, Zenon DEF ConfigInv, ConfigShape
    <2>7. command'.todo = command.todo /\ command'.out = out
          /\ command'.kind = "uninstall" /\ command'.at = "restore"
      BY <2>6
    <2>8. Current' = Current
      BY <2>7 DEF Current
    <2>9. ConfigShape'
      BY <1>1, <2>6, <2>7 DEF ConfigInv, ConfigShape
    <2>10. FilesSound' /\ OriginalKept'
      BY <1>1 DEF ConfigInv, FilesSound, OriginalKept, Kept
    <2>11. Stripped(Current, file[Current])' = Stripped(Current, file[Current]) /\ Parsed(Current)' = Parsed(Current)
      BY <1>1, <2>8, Zenon DEF Stripped, ServersStripped, ClaudeStripped, CodexStripped, CursorStripped,
         AntigravityStripped, OpenCodeStripped, WithoutManaged, Kept, Parsed, StrayStripped, StrayKept
    <2>12. RestoresSidecar'
      BY <1>1, <1>4, <2>4, <2>5, <2>7, <2>8, <2>11 DEF RestoresSidecar
    <2>13. CommandSound'
      BY <2>7, <2>12 DEF CommandSound, ReadIsCurrent, SavedBeforeWritten, RestoredBeforeDropped, CommandAt
    <2>14. QED BY <2>9, <2>10, <2>13 DEF ConfigInv
  <1>5. QED BY <1>3, <1>4

LEMMA DropsKeeps ==
    ASSUME ConfigInv, UninstallDrops
    PROVE  ConfigInv'
  <1> DEFINE last == IF Current \in cpast.edited THEN file[Current] ELSE cpast.original[Current]
  <1>1. /\ command.kind = "uninstall" /\ command.at = "drop" /\ UNCHANGED <<adapter, file>>
        /\ backup' = [backup EXCEPT ![Current] = None] /\ Continue
        /\ cpast' = [cpast EXCEPT !.original[Current] = last, !.edited = cpast.edited \ {Current}]
    BY DEF UninstallDrops, CommandAt
  <1>2. Current \in Components
    BY <1>1, CurrentIs DEF ConfigInv
  <1>3. Current \notin cpast.edited => file[Current] = cpast.original[Current]
    BY <1>1 DEF ConfigInv, CommandSound, RestoredBeforeDropped, CommandAt
  <1>4. last = file[Current]
    BY <1>3
  <1> HIDE DEF last
  <1>5. backup'[Current] = None
    BY <1>1, <1>2, Zenon DEF ConfigInv, ConfigShape
  <1>6. /\ cpast'.original = [cpast.original EXCEPT ![Current] = last]
        /\ cpast'.edited = cpast.edited \ {Current} /\ cpast'.edits = cpast.edits
        /\ cpast' = [edits |-> cpast.edits, started |-> cpast.started,
                     original |-> [cpast.original EXCEPT ![Current] = last],
                     edited |-> cpast.edited \ {Current}]
    BY <1>1 DEF ConfigInv, ConfigShape
  <1>7. cpast'.original[Current] = last
    BY <1>2, <1>6, Zenon DEF ConfigInv, ConfigShape
  <1>8. cpast' = [edits |-> cpast'.edits, started |-> cpast'.started,
                     original |-> cpast'.original, edited |-> cpast'.edited]
    BY <1>6 DEF ConfigInv, ConfigShape
  <1>9. cpast'.original = [cpast.original EXCEPT ![Current] = cpast'.original[Current]]
        /\ file' = [file EXCEPT ![Current] = file'[Current]]
        /\ backup' = [backup EXCEPT ![Current] = backup'[Current]]
    BY <1>1, <1>5, <1>6, <1>7, Zenon DEF ConfigInv, ConfigShape
  <1>10. IsFile(file[Current])
    BY <1>2 DEF ConfigInv, FilesSound
  <1>11. QED BY <1>1, <1>4, <1>5, <1>6, <1>7, <1>8, <1>9, <1>10, CommandDone

LEMMA RestoresKeeps ==
    ASSUME ConfigInv, UninstallRestores
    PROVE  ConfigInv'
  <1> DEFINE again == backup[Current] = None /\ Current = "hooks"
             stays == again /\ Parsed(Current) /\ file[Current].kind = "garbled"
             new   == IF again THEN Stripped(Current, file[Current]) ELSE command.out
             last  == IF Current \in cpast.edited THEN file'[Current]
                      ELSE Stripped(Current, cpast.original[Current])
  <1>1. /\ command.kind = "uninstall" /\ command.at = "restore" /\ UNCHANGED <<adapter, backup>>
        /\ IF stays THEN UNCHANGED file ELSE file' = [file EXCEPT ![Current] = new]
        /\ IF backup[Current] = None THEN Continue ELSE command' = [command EXCEPT !.at = "drop"]
        /\ cpast' = IF backup[Current] # None THEN cpast
                    ELSE [cpast EXCEPT !.original[Current] = last, !.edited = cpast.edited \ {Current}]
    BY DEF UninstallRestores, CommandAt
  <1>2. Current \in Components
    BY <1>1, CurrentIs DEF ConfigInv
  <1>3. /\ IsFile(command.out)
        /\ backup[Current] # None => command.out = backup[Current]
        /\ backup[Current] = None /\ Current \notin cpast.edited =>
              /\ command.out = Stripped(Current, file[Current])
              /\ ~(Parsed(Current) /\ file[Current].kind = "garbled")
    BY <1>1 DEF ConfigInv, CommandSound, RestoresSidecar, CommandAt
  <1>4. IsFile(file[Current]) /\ (backup[Current] = None \/ IsFile(backup[Current]))
    BY <1>2 DEF ConfigInv, FilesSound
  <1>5. IsFile(new)
    BY <1>2, <1>3, <1>4, StrippedIsFile
  <1>6. backup' = [backup EXCEPT ![Current] = backup'[Current]] /\ backup'[Current] = backup[Current]
    BY <1>1, Zenon DEF ConfigInv, ConfigShape
  <1>7. CASE backup[Current] = None
    <2>1. /\ file'[Current] = IF stays THEN file[Current] ELSE new
          /\ file' = [file EXCEPT ![Current] = file'[Current]]
      <3>1. CASE stays
        BY <1>1, <3>1, Zenon DEF ConfigInv, ConfigShape
      <3>2. CASE ~stays
        <4> HIDE DEF stays, new
        <4>1. file' = [file EXCEPT ![Current] = new]
          BY <1>1, <3>2
        <4>2. QED BY <1>2, <3>2, <4>1, Zenon DEF ConfigInv, ConfigShape
      <3>3. QED BY <3>1, <3>2
    <2>2. Current \notin cpast.edited => file[Current] = cpast.original[Current]
      BY <1>2, <1>7 DEF ConfigInv, OriginalKept
    <2>3. last = file'[Current]
      BY <1>3, <1>7, <2>1, <2>2
    <2>4. IsFile(file'[Current])
      BY <1>4, <1>5, <2>1
    <2>5. cpast' = [cpast EXCEPT !.original[Current] = last, !.edited = cpast.edited \ {Current}]
      BY <1>1, <1>7
    <2> HIDE DEF last, stays, new, again
    <2>6. /\ cpast'.original = [cpast.original EXCEPT ![Current] = last]
          /\ cpast'.edited = cpast.edited \ {Current} /\ cpast'.edits = cpast.edits
          /\ cpast' = [edits |-> cpast.edits, started |-> cpast.started,
                       original |-> [cpast.original EXCEPT ![Current] = last],
                       edited |-> cpast.edited \ {Current}]
      BY <2>5 DEF ConfigInv, ConfigShape
    <2>7. cpast'.original[Current] = last
      BY <1>2, <2>6, Zenon DEF ConfigInv, ConfigShape
    <2>8. cpast' = [edits |-> cpast'.edits, started |-> cpast'.started,
                     original |-> cpast'.original, edited |-> cpast'.edited]
      BY <2>6 DEF ConfigInv, ConfigShape
    <2>9. cpast'.original = [cpast.original EXCEPT ![Current] = cpast'.original[Current]]
      BY <2>6, <2>7
    <2>10. command.kind # "idle" /\ Continue /\ UNCHANGED adapter
      BY <1>1, <1>7
    <2>11. QED BY <1>6, <1>7, <2>1, <2>3, <2>4, <2>6, <2>7, <2>8, <2>9, <2>10, CommandDone
  <1>8. CASE backup[Current] # None
    <2>1. new = backup[Current] /\ ~stays
      BY <1>3, <1>8
    <2>2. file' = [file EXCEPT ![Current] = backup[Current]] /\ UNCHANGED cpast
          /\ command' = [command EXCEPT !.at = "drop"]
      BY <1>1, <1>8, <2>1
    <2> HIDE DEF last, stays, new, again
    <2>3. file'[Current] = backup[Current]
      BY <1>2, <2>2, Zenon DEF ConfigInv, ConfigShape
    <2>4. command' = [kind |-> "uninstall", todo |-> command.todo, at |-> "drop",
                      binary |-> command.binary, guard |-> command.guard, out |-> command.out]
      BY <1>1, <2>2, Zenon DEF ConfigInv, ConfigShape
    <2>5. command'.todo = command.todo /\ command'.kind = "uninstall" /\ command'.at = "drop"
      BY <2>4
    <2>6. Current' = Current
      BY <2>5 DEF Current
    <2>7. command'.todo \in Seq(Components) \ {<<>>}
      BY <1>1, <2>5 DEF ConfigInv, ConfigShape
    <2>8. cpast' = [edits |-> cpast'.edits, started |-> cpast'.started,
                     original |-> cpast'.original, edited |-> cpast'.edited]
          /\ cpast'.original = [cpast.original EXCEPT ![Current] = cpast'.original[Current]]
      BY <2>2, Zenon DEF ConfigInv, ConfigShape
    <2>9. Current \notin cpast.edited => backup[Current] = cpast.original[Current]
      BY <1>2, <1>8 DEF ConfigInv, OriginalKept
    <2>10. file' = [file EXCEPT ![Current] = file'[Current]]
      BY <2>2, <2>3
    <2>11. ConfigShape' /\ FilesSound' /\ OriginalKept'
      BY <1>1, <1>2, <1>4, <1>6, <1>8, <2>2, <2>3, <2>4, <2>5, <2>7, <2>8, <2>9, <2>10, OneFileKeeps
    <2>12. RestoredBeforeDropped'
      BY <1>6, <1>8, <2>2, <2>3, <2>6, <2>9 DEF RestoredBeforeDropped
    <2>13. CommandSound'
      BY <2>5, <2>12 DEF CommandSound, ReadIsCurrent, SavedBeforeWritten, RestoresSidecar, CommandAt
    <2>14. QED BY <2>11, <2>13 DEF ConfigInv
  <1>9. QED BY <1>7, <1>8

\* The user writes a file; of the file a command is at, only before it was read.
LEMMA UserWritesKeeps ==
    ASSUME ConfigInv, NEW c \in Components, EditsFile(c)
    PROVE  ConfigInv'
  <1> DEFINE settled == backup[c] = None /\ (command = NoCommand \/ Current # c \/ command.at = "read")
  <1>1. PICK f \in FilesInit(c) \cup {UserFile(t, file[c].ours, {}) : t \in UserTexts[c]}
                   \cup {UserFile(t, {}, file[c].ours) : t \in {u \in UserTexts[c] : MayStray(c, u)}} :
            /\ file' = [file EXCEPT ![c] = f]
            /\ cpast' = [cpast EXCEPT !.edits = cpast.edits + 1,
                            !.original[c] = IF settled THEN f ELSE cpast.original[c],
                            !.edited = IF settled THEN cpast.edited ELSE cpast.edited \cup {c}]
    BY DEF EditsFile
  <1>2. UNCHANGED <<adapter, backup, command>>
    BY DEF EditsFile
  <1>3. IsFile(file[c]) /\ (backup[c] = None \/ IsFile(backup[c]))
    BY DEF ConfigInv, FilesSound
  <1>4. IsFile(f)
    <2>1. ASSUME NEW t \in UserTexts[c]
          PROVE  IsFile(UserFile(t, file[c].ours, {})) /\ IsFile(UserFile(t, {}, file[c].ours))
      BY <1>3 DEF IsFile, OneInstall, UserFile
    <2>2. QED BY <1>1, <2>1, FilesOfUser
  <1> DEFINE original == IF settled THEN f ELSE cpast.original[c]
             edited   == IF settled THEN cpast.edited ELSE cpast.edited \cup {c}
  <1>5. /\ cpast' = [cpast EXCEPT !.edits = cpast.edits + 1, !.original[c] = original, !.edited = edited]
        /\ settled => original = f /\ edited = cpast.edited
        /\ ~settled => c \in edited
        /\ edited \ {c} = cpast.edited \ {c}
        /\ \A d : d \in cpast.edited => d \in edited
    BY <1>1
  <1>6. settled => backup[c] = None /\ (command = NoCommand \/ Current # c \/ command.at = "read")
    OBVIOUS
  <1> HIDE DEF settled, original, edited
  <1>7. cpast' = [edits |-> cpast.edits + 1, started |-> cpast.started,
                  original |-> [cpast.original EXCEPT ![c] = original], edited |-> edited]
    BY <1>5 DEF ConfigInv, ConfigShape
  <1>8. /\ cpast'.original = [cpast.original EXCEPT ![c] = original] /\ cpast'.edited = edited
        /\ cpast' = [edits |-> cpast'.edits, started |-> cpast'.started,
                     original |-> cpast'.original, edited |-> cpast'.edited]
    BY <1>7
  <1>9. cpast'.original[c] = original /\ file'[c] = f
    BY <1>1, <1>8, Zenon DEF ConfigInv, ConfigShape
  <1>10. /\ cpast'.original = [cpast.original EXCEPT ![c] = cpast'.original[c]]
         /\ file' = [file EXCEPT ![c] = file'[c]]
         /\ backup' = [backup EXCEPT ![c] = backup'[c]] /\ backup'[c] = backup[c]
    BY <1>1, <1>2, <1>8, <1>9, Zenon DEF ConfigInv, ConfigShape
  <1>11. /\ command' = [kind |-> command'.kind, todo |-> command'.todo, at |-> command'.at,
                  binary |-> command'.binary, guard |-> command'.guard, out |-> command'.out]
         /\ command'.kind # "idle" => command'.todo \in Seq(Components) \ {<<>>}
    BY <1>2, Zenon DEF ConfigInv, ConfigShape
  <1>12. ConfigShape' /\ FilesSound' /\ OriginalKept'
    BY <1>2, <1>3, <1>4, <1>5, <1>6, <1>8, <1>9, <1>10, <1>11, OneFileKeeps
  <1>13. CASE command.kind = "idle" \/ command.at = "read"
    <2>1. CommandSound'
      BY <1>2, <1>13 DEF CommandSound, ReadIsCurrent, SavedBeforeWritten, RestoresSidecar,
         RestoredBeforeDropped, CommandAt
    <2>2. QED BY <1>12, <2>1 DEF ConfigInv
  <1>14. CASE command.kind # "idle" /\ command.at # "read" /\ Current # c
    <2>1. Current \in Components /\ Current' = Current
      BY <1>2, <1>14, CurrentIs DEF ConfigInv, Current
    <2>2. /\ file'[Current] = file[Current] /\ backup'[Current] = backup[Current]
          /\ cpast'.original[Current] = cpast.original[Current]
          /\ Current \in cpast'.edited <=> Current \in cpast.edited
      BY <1>2, <1>5, <1>8, <1>10, <1>14, <2>1, OtherFile
    <2>3. \A mine : Kept(Current, mine)' = Kept(Current, mine)
      BY <1>2, <2>1 DEF Kept
    <2>4. /\ Stripped(Current, file[Current])' = Stripped(Current, file[Current])
          /\ Parsed(Current)' = Parsed(Current)
      BY <1>2, <2>1, <2>2, Zenon DEF Stripped, ServersStripped, ClaudeStripped, CodexStripped, CursorStripped,
         AntigravityStripped, OpenCodeStripped, WithoutManaged, Kept, Parsed, StrayStripped, StrayKept
    <2>5. ReadIsCurrent' /\ SavedBeforeWritten'
      BY <1>2, <2>1, <2>2, <2>3 DEF ConfigInv, CommandSound, ReadIsCurrent, SavedBeforeWritten, CommandAt
    <2>6. RestoresSidecar' /\ RestoredBeforeDropped'
      BY <1>2, <2>1, <2>2, <2>4 DEF ConfigInv, CommandSound, RestoresSidecar, RestoredBeforeDropped, CommandAt
    <2>7. QED BY <1>12, <2>5, <2>6 DEF ConfigInv, CommandSound
  <1>15. CASE command.kind # "idle" /\ command.at # "read" /\ Current = c
    <2>1. Current' = Current
      BY <1>2 DEF Current
    <2>2. ~settled
      <3>1. NoCommand.kind = "idle"
        BY DEF NoCommand
      <3>2. command # NoCommand
        BY <1>15, <3>1
      <3>3. QED BY <1>6, <1>15, <3>2
    <2>3. c \in cpast'.edited
      BY <1>5, <1>8, <2>2
    <2>4. CommandSound'
      BY <1>2, <1>10, <1>15, <2>1, <2>3 DEF ConfigInv, CommandSound, ReadIsCurrent, SavedBeforeWritten,
         RestoresSidecar, RestoredBeforeDropped, CommandAt
    <2>5. QED BY <1>12, <2>4 DEF ConfigInv
  <1>16. QED BY <1>13, <1>14, <1>15

LEMMA ConfigStep == ConfigInv /\ [ConfigNext]_configVars => ConfigInv'
  <1> SUFFICES ASSUME ConfigInv, [ConfigNext]_configVars PROVE ConfigInv'
    OBVIOUS
  <1>1. ASSUME ConfigNext PROVE ConfigInv'
    BY <1>1, StartsKeeps, ReadsKeeps, SavesKeeps, WritesKeeps, UninstallReadsKeeps, RestoresKeeps,
       DropsKeeps, StopsKeeps, UserWritesKeeps DEF ConfigNext
  <1>2. ASSUME UNCHANGED configVars PROVE ConfigInv'
    <2>1. UNCHANGED <<adapter, file, backup, command, cpast>>
      BY <1>2 DEF configVars
    <2>2. /\ Current' = Current
          /\ \A c : \A mine : Kept(c, mine)' = Kept(c, mine)
      BY <2>1 DEF Current, Kept
    <2>3. \A c : \A f : Stripped(c, f)' = Stripped(c, f)
      BY <2>1 DEF Stripped, ServersStripped, ClaudeStripped, CodexStripped, CursorStripped,
         AntigravityStripped, OpenCodeStripped, WithoutManaged, Parsed, Kept, ServersKept, ClaudeKept,
         CodexKept, CursorKept, AntigravityKept, StrayStripped, StrayKept
    <2>4. \A c : Parsed(c)' = Parsed(c)
      BY <2>1 DEF Parsed
    <2>5. ConfigShape'
      BY <2>1 DEF ConfigInv, ConfigShape
    <2>6. FilesSound'
      BY <2>1 DEF ConfigInv, FilesSound, IsFile, OneInstall
    <2>7. OriginalKept'
      BY <2>1, <2>2 DEF ConfigInv, OriginalKept
    <2>8. ReadIsCurrent'
      BY <2>1, <2>2 DEF ConfigInv, CommandSound, ReadIsCurrent, CommandAt, IsFile, OneInstall
    <2>9. SavedBeforeWritten'
      BY <2>1, <2>2 DEF ConfigInv, CommandSound, SavedBeforeWritten, CommandAt, IsFile, OneInstall
    <2>10. RestoresSidecar'
      BY <2>1, <2>2, <2>3, <2>4 DEF ConfigInv, CommandSound, RestoresSidecar, CommandAt, IsFile, OneInstall
    <2>11. RestoredBeforeDropped'
      BY <2>1, <2>2 DEF ConfigInv, CommandSound, RestoredBeforeDropped, CommandAt
    <2>12. QED BY <2>5, <2>6, <2>7, <2>8, <2>9, <2>10, <2>11 DEF ConfigInv, CommandSound
  <1>3. QED BY <1>1, <1>2

\* Wherever install and uninstall stop, with edits of the user at any time, the original
\* of a file nobody edited since is there (claude_install.go, writeSettings and restore), and
\* where jevkit writes its entries they are those of one install.
THEOREM InstallsAreReversible == ConfigSpec => []InstallReversible
  <1>1. ConfigInv => InstallReversible
    BY DEF ConfigInv, FilesSound, OriginalKept, IsFile, OneInstall, InstallReversible
  <1>2. QED BY ConfigStart, ConfigStep, <1>1, PTL DEF ConfigSpec

(***************************************************************************)
(* What a project may do to the user's policy                              *)
(***************************************************************************)
LEMMA LargestOfTwo ==
    ASSUME NEW a \in Int, NEW b \in Int
    PROVE  Max({a, b}) \in Int /\ Max({a, b}) >= a /\ Max({a, b}) >= b
  <1>1. \E x \in {a, b} : \A y \in {a, b} : x >= y
     OBVIOUS
  <1>2. QED BY <1>1 DEF Max

LEMMA EnforceStays ==
    ASSUME NEW n \in {"off", "shadow", "enforce"}
    PROVE  Stricter("enforce", n) = "enforce"
  <1>1. \E r \in 1 .. 3 : Modes[r] = n
    BY Modes[1] = "off", Modes[2] = "shadow", Modes[3] = "enforce" DEF Modes
  <1>2. Rank(n) \in 1 .. 3
    BY <1>1 DEF Rank
  <1>3. \A r \in 1 .. 3 : Modes[r] = "enforce" <=> r = 3
    BY DEF Modes
  <1>4. Rank("enforce") = 3
    BY <1>3 DEF Rank
  <1>5. QED BY <1>2, <1>4 DEF Stricter

\* The policy of the user, and the one a project tightens, with one environment.
LEMMA TightenedHas ==
    ASSUME NEW written, NEW project, NEW guard,
           project.injection \in {"off", "shadow", "enforce"}, project.bytes \in Int,
           Chosen(written).bytes \in Int
    PROVE  LET alone == Guarded(Chosen(written), guard)
               both  == Guarded(Tightened(Chosen(written), project), guard)
           IN  /\ both.mode = alone.mode /\ both.scoring = alone.scoring
               /\ alone.kill \subseteq both.kill
               /\ both.tools = {} \/ (alone.tools # {} /\ alone.tools \subseteq both.tools)
               /\ alone.injection = "enforce" => both.injection = "enforce"
               /\ alone.all => both.all
               /\ alone.eager => both.eager
               /\ alone.markers => both.markers
               /\ alone.bytes \in Int /\ both.bytes \in Int /\ both.bytes >= alone.bytes
  <1> DEFINE u == Chosen(written)
             t == Tightened(u, project)
  <1>1. u = [k \in DOMAIN Builtin |-> u[k]]
    BY DEF Chosen
  <1>2. DOMAIN Builtin = {"kill", "mode", "scoring", "injection", "tools", "all", "eager", "markers", "bytes"}
    BY DEF Builtin
  <1>3. t = [u EXCEPT !.kill = u.kill \cup project.kill,
                 !.injection = Stricter(u.injection, project.injection),
                 !.tools = ToolsWith(u.tools, project.tools),
                 !.all = u.all \/ project.all,
                 !.eager = u.eager \/ project.eager,
                 !.markers = u.markers \/ project.markers,
                 !.bytes = Max({u.bytes, project.bytes})]
    BY DEF Tightened
  <1>4. u.bytes \in Int
    OBVIOUS
  <1> HIDE DEF u, t
  <1>5. /\ t.mode = u.mode /\ t.scoring = u.scoring /\ t.kill = u.kill \cup project.kill
        /\ t.injection = Stricter(u.injection, project.injection)
        /\ t.tools = ToolsWith(u.tools, project.tools)
        /\ t.bytes = Max({u.bytes, project.bytes})
        /\ DOMAIN t = DOMAIN Builtin
    BY <1>1, <1>2, <1>3, Zenon
  <1>6. /\ t.all = (u.all \/ project.all) /\ t.eager = (u.eager \/ project.eager)
        /\ t.markers = (u.markers \/ project.markers)
    BY <1>1, <1>2, <1>3, Zenon
  <1>7. ASSUME NEW p, p = u \/ p = t
        PROVE  /\ Guarded(p, guard).mode = p.mode /\ Guarded(p, guard).scoring = p.scoring
               /\ Guarded(p, guard).kill = p.kill /\ Guarded(p, guard).tools = p.tools
               /\ Guarded(p, guard).all = p.all /\ Guarded(p, guard).eager = p.eager
               /\ Guarded(p, guard).markers = p.markers /\ Guarded(p, guard).bytes = p.bytes
               /\ Guarded(p, guard).injection = IF guard = "on" THEN "enforce" ELSE IF guard = "off" THEN "off"
                                                ELSE p.injection
    <2>1. DOMAIN p = DOMAIN Builtin
      BY <1>1, <1>5, <1>7
    <2>2. Guarded(p, guard) = [p EXCEPT !.injection = IF guard = "on" THEN "enforce" ELSE IF guard = "off" THEN "off"
                                                      ELSE p.injection]
      BY DEF Guarded
    <2>3. QED BY <1>2, <2>1, <2>2, Zenon
  <1> DEFINE alone == Guarded(u, guard)
             both  == Guarded(t, guard)
  <1>8. /\ alone.mode = u.mode /\ alone.scoring = u.scoring /\ alone.kill = u.kill /\ alone.tools = u.tools
        /\ alone.all = u.all /\ alone.eager = u.eager /\ alone.markers = u.markers /\ alone.bytes = u.bytes
        /\ alone.injection = IF guard = "on" THEN "enforce" ELSE IF guard = "off" THEN "off" ELSE u.injection
    BY <1>7
  <1>9. /\ both.mode = t.mode /\ both.scoring = t.scoring /\ both.kill = t.kill /\ both.tools = t.tools
        /\ both.all = t.all /\ both.eager = t.eager /\ both.markers = t.markers /\ both.bytes = t.bytes
        /\ both.injection = IF guard = "on" THEN "enforce" ELSE IF guard = "off" THEN "off" ELSE t.injection
    BY <1>7
  <1> HIDE DEF alone, both
  <1>10. both.mode = alone.mode /\ both.scoring = alone.scoring /\ alone.kill \subseteq both.kill
    BY <1>5, <1>8, <1>9
  <1>11. both.tools = {} \/ (alone.tools # {} /\ alone.tools \subseteq both.tools)
    BY <1>5, <1>8, <1>9 DEF ToolsWith
  <1>12. alone.injection = "enforce" => both.injection = "enforce"
    BY <1>5, <1>8, <1>9, EnforceStays
  <1>13. (alone.all => both.all) /\ (alone.eager => both.eager) /\ (alone.markers => both.markers)
    BY <1>6, <1>8, <1>9, Zenon
  <1>14. alone.bytes \in Int /\ both.bytes \in Int /\ both.bytes >= alone.bytes
    <2>1. u.bytes \in Int /\ project.bytes \in Int
      BY <1>4
    <2>2. Max({u.bytes, project.bytes}) \in Int /\ Max({u.bytes, project.bytes}) >= u.bytes
      BY <2>1, LargestOfTwo
    <2>3. QED BY <1>4, <1>5, <1>8, <1>9, <2>2
  <1>15. QED BY <1>10, <1>11, <1>12, <1>13, <1>14 DEF alone, both, u, t

LEMMA DeniesMore ==
    ASSUME NEW alone, NEW both, NEW c,
           both.mode = alone.mode, both.scoring = alone.scoring, alone.kill \subseteq both.kill,
           Denies(alone, c)
    PROVE  Denies(both, c)
  BY DEF Denies

LEMMA HoldsMore ==
    ASSUME NEW alone, NEW both, NEW o,
           both.tools = {} \/ (alone.tools # {} /\ alone.tools \subseteq both.tools),
           alone.injection = "enforce" => both.injection = "enforce",
           alone.all => both.all, alone.eager => both.eager, alone.markers => both.markers,
           alone.bytes \in Int, both.bytes \in Int, both.bytes >= alone.bytes, o.at \in Nat,
           Holds(alone, o)
    PROVE  Holds(both, o)
  <1>1. /\ alone.injection = "enforce" /\ (alone.tools = {} \/ o.tool \in alone.tools)
        /\ alone.all \/ o.suspicious
    BY DEF Holds, Scanned
  <1>2. Scanned(both, o) /\ both.injection = "enforce"
    BY <1>1 DEF Scanned
  <1>3. \/ o.marker /\ alone.markers
        \/ o.at <= alone.bytes /\ (o.sure = "act" \/ (o.sure = "gather" /\ alone.eager))
    BY DEF Holds
  <1>4. CASE o.marker /\ alone.markers
    BY <1>2, <1>4 DEF Holds
  <1>5. CASE o.at <= alone.bytes /\ (o.sure = "act" \/ (o.sure = "gather" /\ alone.eager))
    <2>1. o.at <= both.bytes
      BY <1>5
    <2>2. QED BY <1>2, <1>5, <2>1 DEF Holds
  <1>6. QED BY <1>3, <1>4, <1>5

(***************************************************************************)
(* The store of reviews                                                    *)
(***************************************************************************)
LEMMA SmallestOf ==
    ASSUME NEW T \in SUBSET Nat, T # {}
    PROVE  Min(T) \in T
  <1>1. PICK x \in T : \A y \in T : ~ (<<y, x>> \in OpToRel(<, Nat))
    BY NatLessThanWellFounded, WFMin, Zenon
  <1>2. ASSUME NEW y \in T PROVE x =< y
    <2>1. ~ (<<y, x>> \in OpToRel(<, Nat))
      BY <1>1
    <2>2. ~(y < x)
      BY <2>1 DEF OpToRel
    <2>3. QED BY <2>2
  <1>3. QED BY <1>2 DEF Min

Review == [session : Sessions, content : {o.content : o \in Outputs}, status : {"pending", "removed", "allowed", "denied"}]

StoreShape ==
    /\ held \in Seq(Review)
    /\ index = [s \in Sessions |-> index[s]]
    /\ writer.at \in {"nobody", "index", "allowed", "denied", "reindex"}
    /\ ~Free => writer.id \in DOMAIN held
    /\ writer = [at |-> writer.at, id |-> writer.id]

\* The record that has no index yet, because its hook is about to write one.
BeingIndexed == IF writer.at = "index" THEN {writer.id} ELSE {}

\* A session with another pending record has an index, or lost it.
PendingIndexed ==
    \A s \in Sessions :
        PendingOf(s) \ BeingIndexed # {} => index[s] # 0 \/ s \in vpast.unindexed

PolicyKept == policy \in Policies

HistoryShape == vpast = [losses |-> vpast.losses, unindexed |-> vpast.unindexed]

ReviewsInv == StoreShape /\ HistoryShape /\ PendingIndexed /\ PolicyKept

LEMMA ReviewsStart == ReviewsInit => ReviewsInv
  <1> SUFFICES ASSUME ReviewsInit PROVE ReviewsInv
    OBVIOUS
  <1>1. held = <<>> /\ index = [s \in Sessions |-> 0] /\ writer = [at |-> "nobody", id |-> 0]
    BY DEF ReviewsInit, NoWriter
  <1>2. held \in Seq(Review) /\ DOMAIN held = {}
    BY <1>1
  <1>3. StoreShape
    BY <1>1, <1>2 DEF StoreShape, Free
  <1>4. PendingIndexed
    BY <1>2 DEF PendingIndexed, PendingOf
  <1>5. QED BY <1>3, <1>4 DEF ReviewsInv, PolicyKept, HistoryShape, ReviewsInit

\* What of the store a step leaves as it was.
LEMMA StoreStays ==
    ASSUME ReviewsInv, UNCHANGED <<policy, held, index>>, vpast'.unindexed = vpast.unindexed,
           HistoryShape',
           writer' = writer \/ (writer' = NoWriter /\ writer.at # "index")
             \/ (Free /\ \E i \in DOMAIN held : writer'.id = i /\ writer'.at \in {"allowed", "denied"}
                                                /\ writer' = [at |-> writer'.at, id |-> writer'.id])
    PROVE  ReviewsInv'
  <1>1. BeingIndexed' = BeingIndexed
    BY DEF BeingIndexed, NoWriter, Free
  <1>2. StoreShape'
    BY DEF ReviewsInv, StoreShape, Free, NoWriter
  <1>3. PendingIndexed'
    BY <1>1 DEF ReviewsInv, PendingIndexed, PendingOf
  <1>4. QED BY <1>2, <1>3 DEF ReviewsInv, PolicyKept

LEMMA HoldKeeps ==
    ASSUME ReviewsInv, NEW s \in Sessions, NEW content \in {o.content : o \in Outputs},
           HoldOutput(s, content)
    PROVE  ReviewsInv'
  <1> DEFINE r == [session |-> s, content |-> content, status |-> "pending"]
  <1>1. /\ held' = Append(held, r) /\ writer' = [at |-> "index", id |-> Len(held')] /\ Free
        /\ UNCHANGED <<policy, calls, index, allowlist, vpast>>
    BY DEF HoldOutput
  <1>2. held \in Seq(Review) /\ r \in Review
    BY DEF ReviewsInv, StoreShape, Review
  <1> HIDE DEF r
  <1>3. /\ held' \in Seq(Review) /\ Len(held') = Len(held) + 1 /\ Len(held) \in Nat
        /\ DOMAIN held = 1 .. Len(held) /\ DOMAIN held' = 1 .. Len(held')
        /\ \A i \in DOMAIN held : held'[i] = held[i]
    BY <1>1, <1>2
  <1>4. StoreShape'
    BY <1>1, <1>3 DEF ReviewsInv, StoreShape, Free
  <1>5. BeingIndexed = {} /\ BeingIndexed' = {Len(held')}
    BY <1>1 DEF BeingIndexed, Free
  <1>6. ASSUME NEW x \in Sessions PROVE PendingOf(x)' \ BeingIndexed' \subseteq PendingOf(x)
    <2>1. \A i \in DOMAIN held' : i # Len(held') => i \in DOMAIN held
      BY <1>3
    <2>2. QED BY <1>3, <1>5, <2>1 DEF PendingOf
  <1>7. PendingIndexed'
    BY <1>1, <1>5, <1>6 DEF ReviewsInv, PendingIndexed
  <1>8. QED BY <1>1, <1>4, <1>7 DEF ReviewsInv, PolicyKept, HistoryShape

LEMMA LockedRecord ==
    ASSUME ReviewsInv, ~Free
    PROVE  /\ writer.id \in DOMAIN held /\ writer.id \in Nat /\ writer.id # 0
           /\ held[writer.id] \in Review /\ SessionAtLock \in Sessions
           /\ DOMAIN held = 1 .. Len(held) /\ Len(held) \in Nat
  <1>1. held \in Seq(Review) /\ writer.id \in DOMAIN held
    BY DEF ReviewsInv, StoreShape
  <1>2. DOMAIN held = 1 .. Len(held) /\ Len(held) \in Nat /\ held[writer.id] \in Review
    BY <1>1
  <1>3. writer.id \in Nat /\ writer.id # 0
    BY <1>1, <1>2
  <1>4. QED BY <1>1, <1>2, <1>3 DEF SessionAtLock, Review

LEMMA IndexKeeps ==
    ASSUME ReviewsInv, IndexReview
    PROVE  ReviewsInv'
  <1>1. /\ writer.at = "index" /\ writer' = NoWriter
        /\ index' = [index EXCEPT ![SessionAtLock] = IF index[SessionAtLock] = 0 THEN writer.id
                                                     ELSE index[SessionAtLock]]
        /\ vpast' = [vpast EXCEPT !.unindexed = vpast.unindexed \ {SessionAtLock}]
        /\ UNCHANGED <<policy, held, allowlist>>
    BY DEF IndexReview
  <1>2. ~Free
    BY <1>1 DEF Free
  <1>3. writer.id # 0 /\ SessionAtLock \in Sessions
    BY <1>2, LockedRecord
  <1>4. index = [s \in Sessions |-> index[s]]
    BY DEF ReviewsInv, StoreShape
  <1>5. index'[SessionAtLock] # 0 /\ \A s \in Sessions \ {SessionAtLock} : index'[s] = index[s]
    BY <1>1, <1>3, <1>4, Zenon
  <1>6. index' = [s \in Sessions |-> index'[s]]
    BY <1>1, <1>4, Zenon
  <1>7. StoreShape'
    BY <1>1, <1>6 DEF ReviewsInv, StoreShape, Free, NoWriter
  <1>8. \A s \in Sessions \ {SessionAtLock} : s \in vpast.unindexed => s \in vpast'.unindexed
    BY <1>1 DEF ReviewsInv, HistoryShape
  <1>9. BeingIndexed = {writer.id} /\ BeingIndexed' = {}
    BY <1>1 DEF BeingIndexed, NoWriter
  <1>10. \A s \in Sessions \ {SessionAtLock} : PendingOf(s) \ BeingIndexed = PendingOf(s)' \ BeingIndexed'
    BY <1>1, <1>9 DEF PendingOf, SessionAtLock
  <1>11. PendingIndexed'
    BY <1>5, <1>8, <1>10 DEF ReviewsInv, PendingIndexed
  <1>12. HistoryShape'
    BY <1>1 DEF ReviewsInv, HistoryShape
  <1>13. QED BY <1>1, <1>7, <1>11, <1>12 DEF ReviewsInv, PolicyKept

\* A record that is no longer pending, and the lock free or not.
LEMMA RecordResolved ==
    ASSUME ReviewsInv, ~Free, NEW status \in {"removed", "allowed", "denied"},
           held' = [held EXCEPT ![writer.id].status = status],
           UNCHANGED <<policy, index>>, vpast'.unindexed = vpast.unindexed, HistoryShape',
           writer' = NoWriter \/ (writer' = [writer EXCEPT !.at = "reindex"] /\ writer.at # "index")
    PROVE  ReviewsInv'
  <1>1. held \in Seq(Review) /\ held[writer.id] \in Review /\ writer.id \in DOMAIN held
    BY LockedRecord DEF ReviewsInv, StoreShape
  <1>2. [held[writer.id] EXCEPT !.status = status] \in Review
    BY <1>1 DEF Review
  <1>3. held' = [held EXCEPT ![writer.id] = [held[writer.id] EXCEPT !.status = status]]
    OBVIOUS
  <1>4. held' \in Seq(Review) /\ DOMAIN held' = DOMAIN held
    BY <1>1, <1>2, <1>3
  <1>5. /\ held'[writer.id] = [held[writer.id] EXCEPT !.status = status]
        /\ \A i \in DOMAIN held : i # writer.id => held'[i] = held[i]
    BY <1>1, <1>3
  <1>6. held'[writer.id].status # "pending"
    BY <1>1, <1>5 DEF Review
  <1>7. writer' = [at |-> writer'.at, id |-> writer'.id] /\ writer'.at \in {"nobody", "reindex"}
        /\ (writer'.at = "reindex" => writer'.id = writer.id)
    BY DEF ReviewsInv, StoreShape, NoWriter
  <1>8. StoreShape'
    BY <1>1, <1>4, <1>7 DEF ReviewsInv, StoreShape, Free
  <1>9. BeingIndexed' = {}
    BY <1>7 DEF BeingIndexed
  <1>10. \A s \in Sessions : PendingOf(s)' \subseteq PendingOf(s) \ {writer.id}
    BY <1>4, <1>5, <1>6 DEF PendingOf
  <1>11. BeingIndexed \subseteq {writer.id}
    BY DEF BeingIndexed
  <1>12. PendingIndexed'
    BY <1>9, <1>10, <1>11 DEF ReviewsInv, PendingIndexed
  <1>13. QED BY <1>8, <1>12 DEF ReviewsInv, PolicyKept

LEMMA IndexFailsKeeps ==
    ASSUME ReviewsInv, IndexFails
    PROVE  ReviewsInv'
  <1>1. /\ writer.at = "index" /\ writer' = NoWriter
        /\ held' = [held EXCEPT ![writer.id].status = "removed"]
        /\ vpast' = [vpast EXCEPT !.losses = vpast.losses + 1]
        /\ UNCHANGED <<policy, index, allowlist>>
    BY DEF IndexFails
  <1>2. vpast'.unindexed = vpast.unindexed /\ HistoryShape'
    BY <1>1 DEF ReviewsInv, HistoryShape
  <1>3. ~Free
    BY <1>1 DEF Free
  <1>4. QED BY <1>1, <1>2, <1>3, RecordResolved

LEMMA WriteResolutionKeeps ==
    ASSUME ReviewsInv, WriteResolution
    PROVE  ReviewsInv'
  <1>1. /\ writer.at \in {"allowed", "denied"} /\ writer' = [writer EXCEPT !.at = "reindex"]
        /\ held' = [held EXCEPT ![writer.id].status = writer.at]
        /\ UNCHANGED <<policy, calls, index, allowlist, vpast>>
    BY DEF WriteResolution
  <1>2. vpast'.unindexed = vpast.unindexed /\ HistoryShape' /\ ~Free /\ writer.at # "index"
    BY <1>1 DEF ReviewsInv, HistoryShape, Free
  <1>3. QED BY <1>1, <1>2, RecordResolved

LEMMA ResolveKeeps ==
    ASSUME ReviewsInv, NEW i \in DOMAIN held, NEW action \in {"allowed", "denied"}, Resolve(i, action)
    PROVE  ReviewsInv'
  <1>1. Free /\ writer' = [at |-> action, id |-> i] /\ UNCHANGED <<policy, calls, held, index, vpast>>
    BY DEF Resolve
  <1>2. vpast'.unindexed = vpast.unindexed /\ HistoryShape'
    BY <1>1 DEF ReviewsInv, HistoryShape
  <1>3. QED BY <1>1, <1>2, StoreStays

\* The index of a session moves on: to a record, or to none when none is pending.
LEMMA ReindexKeeps ==
    ASSUME ReviewsInv, Reindex
    PROVE  ReviewsInv'
  <1> DEFINE s == SessionAtLock
             next == IF index[s] = writer.id THEN Reindexed(s) ELSE index[s]
  <1>1. /\ writer.at = "reindex" /\ writer' = NoWriter
        /\ index' = [index EXCEPT ![s] = next]
        /\ UNCHANGED <<policy, calls, held, allowlist, vpast>>
    BY DEF Reindex
  <1>2. ~Free
    BY <1>1 DEF Free
  <1>3. s \in Sessions /\ DOMAIN held = 1 .. Len(held) /\ Len(held) \in Nat
    BY <1>2, LockedRecord
  <1>4. index = [x \in Sessions |-> index[x]]
    BY DEF ReviewsInv, StoreShape
  <1>5. PendingOf(s) # {} => Reindexed(s) # 0
    <2>1. PendingOf(s) \in SUBSET Nat /\ 0 \notin PendingOf(s)
      BY <1>3 DEF PendingOf
    <2>2. PendingOf(s) # {} => Min(PendingOf(s)) \in PendingOf(s)
      BY <2>1, SmallestOf
    <2>3. QED BY <2>1, <2>2 DEF Reindexed
  <1>6. BeingIndexed = {} /\ BeingIndexed' = {}
    BY <1>1 DEF BeingIndexed, NoWriter
  <1>7. PendingOf(s) # {} => next # 0 \/ s \in vpast.unindexed
    BY <1>3, <1>5, <1>6 DEF ReviewsInv, PendingIndexed
  <1> HIDE DEF next, s
  <1>8. index'[s] = next /\ \A x \in Sessions \ {s} : index'[x] = index[x]
    BY <1>1, <1>3, <1>4, Zenon
  <1>9. index' = [x \in Sessions |-> index'[x]]
    BY <1>1, <1>4, Zenon
  <1>10. StoreShape'
    BY <1>1, <1>9 DEF ReviewsInv, StoreShape, Free, NoWriter
  <1>11. \A x \in Sessions : PendingOf(x)' = PendingOf(x)
    BY <1>1 DEF PendingOf
  <1>12. PendingIndexed'
    BY <1>1, <1>6, <1>7, <1>8, <1>11 DEF ReviewsInv, PendingIndexed
  <1>13. QED BY <1>1, <1>10, <1>12 DEF ReviewsInv, PolicyKept, HistoryShape

LEMMA StopKeeps ==
    ASSUME ReviewsInv, Stop
    PROVE  ReviewsInv'
  <1>1. ~Free /\ writer' = NoWriter /\ UNCHANGED <<policy, held, index, allowlist>>
    BY DEF Stop
  <1>2. CASE writer.at # "index"
    <2>1. vpast' = [vpast EXCEPT !.losses = vpast.losses + 1]
      BY <1>2 DEF Stop
    <2>2. vpast'.unindexed = vpast.unindexed /\ HistoryShape'
      BY <2>1 DEF ReviewsInv, HistoryShape
    <2>3. QED BY <1>1, <1>2, <2>2, StoreStays
  <1>3. CASE writer.at = "index"
    <2>1. vpast' = [losses |-> vpast.losses + 1,
                    unindexed |-> vpast.unindexed \cup {s \in {SessionAtLock} : index[s] = 0}]
      BY <1>3 DEF Stop
    <2>2. HistoryShape' /\ vpast'.unindexed = vpast.unindexed \cup {s \in {SessionAtLock} : index[s] = 0}
      BY <2>1 DEF HistoryShape
    <2>3. StoreShape'
      BY <1>1 DEF ReviewsInv, StoreShape, Free, NoWriter
    <2>4. BeingIndexed = {writer.id} /\ BeingIndexed' = {}
      BY <1>1, <1>3 DEF BeingIndexed, NoWriter
    <2>5. \A s \in Sessions \ {SessionAtLock} : PendingOf(s) \ BeingIndexed = PendingOf(s)' \ BeingIndexed'
      BY <1>1, <2>4 DEF PendingOf, SessionAtLock
    <2>6. PendingIndexed'
      BY <1>1, <2>2, <2>5 DEF ReviewsInv, PendingIndexed
    <2>7. QED BY <1>1, <2>2, <2>3, <2>6 DEF ReviewsInv, PolicyKept
  <1>4. QED BY <1>2, <1>3

LEMMA ReviewsStep == ReviewsInv /\ [ReviewsNext]_reviewVars => ReviewsInv'
  <1> SUFFICES ASSUME ReviewsInv, [ReviewsNext]_reviewVars PROVE ReviewsInv'
    OBVIOUS
  <1>1. ASSUME UNCHANGED <<policy, held, index, writer>>, vpast'.unindexed = vpast.unindexed, HistoryShape'
        PROVE  ReviewsInv'
    BY <1>1, StoreStays
  <1>2. ASSUME NEW s \in Sessions, PreTool(s) \/ PassOutput(s) PROVE ReviewsInv'
    <2>1. UNCHANGED <<policy, held, index, writer, vpast>>
      BY <1>2 DEF PreTool, PassOutput
    <2>2. QED BY <1>1, <2>1 DEF ReviewsInv, HistoryShape
  <1>3. ASSUME NEW s \in Sessions, StoreFails(s) PROVE ReviewsInv'
    <2>1. UNCHANGED <<policy, held, index, writer>> /\ vpast' = [vpast EXCEPT !.losses = vpast.losses + 1]
      BY <1>3 DEF StoreFails
    <2>2. QED BY <1>1, <2>1 DEF ReviewsInv, HistoryShape
  <1>4. ASSUME UNCHANGED reviewVars PROVE ReviewsInv'
    <2>1. UNCHANGED <<policy, held, index, writer, vpast>>
      BY <1>4 DEF reviewVars
    <2>2. QED BY <1>1, <2>1 DEF ReviewsInv, HistoryShape
  <1>5. QED BY <1>2, <1>3, <1>4, HoldKeeps, ResolveKeeps, IndexKeeps, IndexFailsKeeps,
              WriteResolutionKeeps, ReindexKeeps, StopKeeps DEF ReviewsNext

\* The gate of a session sees its pending reviews (review.go, Pending, Create and Resolve).
THEOREM ReviewsAreSeen == ReviewsSpec => []PendingSeen
  <1>1. ReviewsInv => PendingSeen
    <2> SUFFICES ASSUME ReviewsInv, Free, NEW s \in Sessions, PendingOf(s) # {}
                 PROVE  Latched(s) \/ s \in vpast.unindexed
      BY DEF PendingSeen
    <2>1. BeingIndexed = {}
      BY DEF BeingIndexed, Free
    <2>2. QED BY <2>1 DEF ReviewsInv, PendingIndexed, Latched
  <1>2. QED BY ReviewsStart, ReviewsStep, <1>1, PTL DEF ReviewsSpec

\* A project tightens the user's policy and loosens nothing (config.go, tightenInjection).
THEOREM ProjectsTighten == ReviewsSpec => []ProjectTightens
  <1>1. ReviewsInv => ProjectTightens
    <2> SUFFICES ASSUME policy \in Policies, Loads PROVE ProjectTightens
      BY DEF ReviewsInv, PolicyKept, ProjectTightens
    <2> DEFINE alone == UserAlone
               both  == Effective
    <2>1. /\ policy.project.injection \in {"off", "shadow", "enforce"} /\ policy.project.bytes \in Int
          /\ Chosen(policy.user).bytes \in Int
      <3>1. "bytes" \in DOMAIN Builtin /\ Builtin.bytes = 2
        BY DEF Builtin
      <3>2. Chosen(policy.user).bytes = IF "bytes" \in DOMAIN policy.user.set THEN policy.user.set.bytes
                                        ELSE Builtin.bytes
        BY <3>1, Zenon DEF Chosen
      <3>3. QED BY <3>1, <3>2, ReviewConstants
    <2>2. /\ alone = Guarded(Chosen(policy.user), policy.guard)
          /\ both = Guarded(Tightened(Chosen(policy.user), policy.project), policy.guard)
      BY DEF UserAlone, Effective
    <2>3. /\ both.mode = alone.mode /\ both.scoring = alone.scoring
          /\ alone.kill \subseteq both.kill
          /\ both.tools = {} \/ (alone.tools # {} /\ alone.tools \subseteq both.tools)
          /\ alone.injection = "enforce" => both.injection = "enforce"
          /\ alone.all => both.all
          /\ alone.eager => both.eager
          /\ alone.markers => both.markers
          /\ alone.bytes \in Int /\ both.bytes \in Int /\ both.bytes >= alone.bytes
      BY <2>1, <2>2, TightenedHas
    <2> HIDE DEF alone, both
    <2>4. \A c \in ShellCommands : Denies(alone, c) => Denies(both, c)
      BY <2>3, DeniesMore
    <2>5. \A o \in Outputs : o.at \in Nat
      BY ReviewConstants
    <2>6. \A o \in Outputs : Holds(alone, o) => Holds(both, o)
      BY <2>3, <2>5, HoldsMore
    <2>7. QED BY <2>4, <2>6 DEF ProjectTightens, alone, both
  <1>2. QED BY ReviewsStart, ReviewsStep, <1>1, PTL DEF ReviewsSpec
=============================================================================
