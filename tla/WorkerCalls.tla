----------------------------- MODULE WorkerCalls -----------------------------
(***************************************************************************)
(* One workspace, the CLI invocations that run in it (internal/sdlc/worker: *)
(* worker.go, snapshot.go) and the checks the supervisor runs on the       *)
(* candidate (verify.go).  A worker is judged by two captures of the whole *)
(* workspace, one before it starts and one after it ends; meanwhile the    *)
(* user edits, other workers run, and Jevkit itself puts files there.      *)
(*                                                                         *)
(* The workspace is the set of changes it holds.  Usage counts, logs, the  *)
(* text of prompts and of replies are left out.                            *)
(***************************************************************************)
EXTENDS Integers, Sequences, FiniteSets

CONSTANTS
    Invocations, \* invocations of this instance
    WorkerRequests, \* what they may be asked
    CheckPlans,  \* sequences of checks that may be run: "argv" or "manual"
    MaxEdits      \* bound of this instance: edits of the user

Runtimes == {"codex", "claude", "cursor", "opencode", "antigravity"}
Roles    == {"planner", "implementer", "assessor", "research", "qa"}

\* Assignment and agent: whether it is read-only, whether the agent is a named one
\* of the runtime with permissions of its own, whether its arguments set permissions,
\* whether it reads a saved diff, and whether Jevkit's hooks are installed for it.
WorkerRequest == [runtime : Runtimes, role : Roles, readOnly : BOOLEAN, named : BOOLEAN,
            permits : BOOLEAN, diff : BOOLEAN, hooks : BOOLEAN]

ASSUME WorkerConstants ==
    /\ WorkerRequests \subseteq WorkerRequest /\ MaxEdits \in Nat
    /\ CheckPlans \subseteq UNION {[1 .. n -> {"argv", "manual"}] : n \in 0 .. 3}

VARIABLES
    ws,     \* the workspace: the changes it holds
    inv,    \* [Invocations -> what became of the invocation]
    check   \* the run of the checks

workerVars == <<ws, inv, check>>

Unasked   == [at |-> "idle", q |-> {}, before |-> {}, wrote |-> FALSE, drift |-> FALSE, result |-> ""]

\* The identity of a worktree, and the constant one that stands for it when git fails.
Identity(tree) == [git |-> TRUE, tree |-> tree]
NoGit          == [git |-> FALSE, tree |-> {}]

\* begun and end: history, the worktree itself when the checks began and when the last
\* of them ended; blind: history, no capture of these checks came from git.
Unchecked == [at |-> 0, plan |-> <<>>, id |-> NoGit, before |-> NoGit, receipts |-> 0, running |-> FALSE,
              failed |-> FALSE, env |-> TRUE, status |-> "", begun |-> {}, end |-> {}, blind |-> TRUE]

WorkerInit == ws = {} /\ inv = [i \in Invocations |-> Unasked] /\ check = Unchecked

WrittenBy(i) == <<"edit", i>>
Artifact(i)  == <<"artifact", i>>
Hooks(q)     == <<"hooks", q.runtime>>
EditBy(n)    == <<"user", n>>
-----------------------------------------------------------------------------
(***************************************************************************)
(* What is refused, and what the CLI is allowed                            *)
(***************************************************************************)

\* command: the read-only assignments no argument list can enforce.
Unenforceable(q) == q.readOnly /\ (q.named \/ q.permits \/ q.runtime = "opencode")

\* The sandbox an invocation runs in lets it write.  Permissions of the user's
\* arguments, and of a named agent, come before Jevkit's.
MayWrite(q) ==
    \/ q.role = "implementer" /\ ~q.readOnly
    \/ q.permits
    \/ q.runtime = "opencode"
    \/ q.named /\ q.runtime \in {"claude", "antigravity"}

AllowedOutcomes(role) ==
    {"handoff"} \cup
    CASE role = "planner"     -> {"planned", "answer", "no-change"}
      [] role = "implementer" -> {"changed", "answer", "no-change"}
      [] role = "research"    -> {"advice"}
      [] OTHER                -> {"approved", "changes-required"}

Ended(i, result) ==
    inv' = [inv EXCEPT ![i] = [Unasked EXCEPT !.at = "ended", !.wrote = inv[i].wrote, !.result = result]]

\* The stage of the run asks for one or the other: workers, or checks.
Working  == \E i \in Invocations : inv[i].at \in {"prepared", "running"}
Checking == check.at # 0

\* Execute up to the command: an assignment that no longer fits the agent or asks
\* for isolation is an error; a sandbox violation lets another binding try.
RefuseWorker(i) ==
    /\ inv[i].at = "idle" /\ ~Checking
    /\ \E result \in {"error", "retry"} : Ended(i, result)
    /\ UNCHANGED <<ws, check>>

\* OpenCode's copy of the diff is in the workspace until the call returns; hooks stay.
StagedFor(i, q) == IF q.runtime = "opencode" /\ q.diff THEN {Artifact(i)} ELSE {}

PrepareWorker(i, q) ==
    /\ inv[i].at = "idle" /\ ~Checking
    /\ IF Unenforceable(q) THEN Ended(i, "retry") /\ UNCHANGED ws
       ELSE /\ inv' = [inv EXCEPT ![i] = [@ EXCEPT !.at = "prepared", !.q = {q}]]
            /\ ws' = ws \cup StagedFor(i, q) \cup IF q.hooks THEN {Hooks(q)} ELSE {}
    /\ UNCHANGED check

StartWorker(i) ==
    /\ inv[i].at = "prepared"
    /\ inv' = [inv EXCEPT ![i].at = "running", ![i].before = ws]
    /\ UNCHANGED <<ws, check>>

WriteFiles(i) ==
    /\ inv[i].at = "running" /\ ~inv[i].wrote /\ \E q \in inv[i].q : MayWrite(q)
    /\ inv' = [inv EXCEPT ![i].wrote = TRUE]
    /\ ws' = ws \cup {WrittenBy(i)}
    /\ UNCHANGED check
-----------------------------------------------------------------------------
(***************************************************************************)
(* How an invocation ends                                                  *)
(***************************************************************************)

Drifted(i) == ws # inv[i].before

\* Mutant of Retryable: any failure of the CLI lets another binding try.
RetryableAlways(i) == "retry"

\* retryableIfUnchanged.
Retryable(i) == IF Drifted(i) THEN "error" ELSE "retry"

\* The end of Execute: only an implementer may change the workspace, and says so;
\* an assessor's verdict is kept beside the evidence of a drift.
Judged(i, q, outcome) ==
    IF q.role \notin {"implementer", "assessor"} /\ Drifted(i)       THEN "error"
    ELSE IF outcome = "changed" /\ ~Drifted(i)                       THEN "error"
    ELSE IF outcome # "changed" /\ q.role = "implementer" /\ Drifted(i) THEN "error"
    ELSE IF outcome = "handoff" /\ Drifted(i)                        THEN "error"
    ELSE outcome

\* "cancelled": the context ended; "auth": the CLI says it is not logged in;
\* "failed": it failed, or left no result or one that is not allowed for the role;
\* "broken": a compaction that is not confirmed, a status that is not success.
Endings(q) ==
    {"cancelled", "auth", "failed"} \cup AllowedOutcomes(q.role)
      \cup IF q.runtime \in {"claude", "antigravity"} THEN {"broken"} ELSE {}

ResultOf(i, q, how) ==
    CASE how = "cancelled" -> "cancelled"
      [] how = "auth"      -> "auth-failed"
      [] how = "failed"    -> Retryable(i)
      [] how = "broken"    -> "error"
      [] OTHER             -> Judged(i, q, how)

EndWorker(i, how) ==
    /\ inv[i].at = "running"
    /\ \E q \in inv[i].q :
         /\ how \in Endings(q)
         /\ inv' = [inv EXCEPT ![i] = [Unasked EXCEPT !.at = "ended", !.wrote = inv[i].wrote,
                                           !.result = ResultOf(i, q, how),
                                           !.drift = /\ q.role = "assessor" /\ Drifted(i)
                                                     /\ ResultOf(i, q, how) = how]]
    /\ ws' = ws \ {Artifact(i)}
    /\ UNCHANGED check

\* The process of the driver dies with the worker; the artifact stays.
WorkerKilled(i) ==
    /\ inv[i].at \in {"prepared", "running"}
    /\ Ended(i, "killed")
    /\ UNCHANGED <<ws, check>>

UserEditsFile(n) ==
    /\ EditBy(n) \notin ws
    /\ ws' = ws \cup {EditBy(n)}
    /\ UNCHANGED <<inv, check>>
-----------------------------------------------------------------------------
(***************************************************************************)
(* RunVerification: the checks one after the other                         *)
(***************************************************************************)

\* CaptureWorktreeIdentity: an error of git is not an error of the capture.
Captures == {Identity(ws), NoGit}

Finished(status) == [Unchecked EXCEPT !.status = status]
Invalidated      == Finished("invalidated")

\* Without commands there is nothing to run; commands nobody authorized are not run.
BeginChecks(plan, authorized) ==
    /\ check.status = "" /\ ~Checking /\ ~Working
    /\ \E id \in Captures :
         check' = IF \A n \in DOMAIN plan : plan[n] = "manual" THEN Finished("skipped")
                  ELSE IF ~authorized THEN Finished("unauthorized")
                  ELSE [Unchecked EXCEPT !.at = 1, !.plan = plan, !.id = id, !.begun = ws, !.blind = ~id.git]
    /\ UNCHANGED <<ws, inv>>

\* Mutant of Recaptured: what was changed since the last check is not compared.
RecapturedOnly(c, now) == [c EXCEPT !.before = now, !.running = TRUE]

\* The worktree before a check; the first uses the capture the run began with.
Recaptured(c, now) ==
    IF c.receipts = 0 THEN [c EXCEPT !.before = c.id, !.running = TRUE]
    ELSE IF now # c.id THEN Invalidated
    ELSE [c EXCEPT !.before = now, !.running = TRUE, !.blind = @ /\ ~now.git]

StartCheck ==
    /\ check.at \in DOMAIN check.plan /\ ~check.running
    /\ \E now \in Captures :
         check' = IF check.plan[check.at] = "manual"
                  THEN [check EXCEPT !.at = @ + 1, !.receipts = @ + 1]
                  ELSE Recaptured(check, now)
    /\ UNCHANGED <<ws, inv>>

\* A check passes, fails because of the candidate or of the environment, or runs out
\* of time; and may itself change the worktree, which invalidates every receipt.
EndCheck(result, writes) ==
    /\ check.running
    /\ ws' = ws \cup IF writes THEN {<<"check", check.at>>} ELSE {}
    /\ \E after \in Captures' :
         check' = IF after # check.before THEN Invalidated
                  ELSE [check EXCEPT !.at = @ + 1, !.running = FALSE, !.receipts = @ + 1, !.end = ws',
                                     !.failed = @ \/ result # "passed",
                                     !.env = @ /\ result # "candidate", !.blind = @ /\ ~after.git]
    /\ UNCHANGED inv

\* A failure of the environment alone pauses the run; any other goes to the implementer.
FinishChecks ==
    /\ check.at = Len(check.plan) + 1 /\ check.plan # <<>> /\ ~check.running
    /\ check' = IF check.failed THEN Finished(IF check.env THEN "environment" ELSE "failed")
                ELSE [check EXCEPT !.at = 0, !.plan = <<>>, !.status = "passed"]
    /\ UNCHANGED <<ws, inv>>

CheckAgain ==
    /\ check.status # ""
    /\ check' = Unchecked
    /\ UNCHANGED <<ws, inv>>

InvocationStep ==
    \/ \E i \in Invocations :
         \/ RefuseWorker(i) \/ StartWorker(i) \/ WriteFiles(i) \/ WorkerKilled(i)
         \/ \E q \in WorkerRequests : PrepareWorker(i, q)
         \/ \E how \in UNION {Endings(q) : q \in inv[i].q} : EndWorker(i, how)
    \/ \E n \in 1 .. MaxEdits : UserEditsFile(n)

CheckStep ==
    \/ \E plan \in CheckPlans, authorized \in BOOLEAN : BeginChecks(plan, authorized)
    \/ StartCheck \/ FinishChecks \/ CheckAgain
    \/ \E result \in {"passed", "candidate", "environment"}, writes \in BOOLEAN : EndCheck(result, writes)
    \/ \E n \in 1 .. MaxEdits : UserEditsFile(n)

WorkerNext == InvocationStep \/ CheckStep

WorkerSpec == WorkerInit /\ [][WorkerNext]_workerVars
-----------------------------------------------------------------------------
(***************************************************************************)
(* Correctness                                                             *)
(***************************************************************************)

\* A worker that wrote to the workspace is never taken for one that did not, whatever
\* role and sandbox it had and whatever else changed: its invocation ends in a change
\* that is reported, in an error, or in evidence of drift beside a verdict.  A worker
\* that then loses its login is the exception: worker.go:265 does not compare.
WritesNoticed ==
    \A i \in Invocations :
        inv[i].at = "ended" /\ inv[i].wrote /\ WrittenBy(i) \in ws =>
            \/ inv[i].drift
            \/ inv[i].result \in {"changed", "error", "cancelled", "killed", "auth-failed"}

\* Checks that passed, all of them, saw one candidate: the worktree after the last one
\* is the one they were begun on, whoever changed it in between and whichever of the
\* captures git failed for.  Only when it failed for all of them is nothing compared:
\* outside a repository changes go unnoticed (verify.go:58).
ChecksSawCandidate == check.status = "passed" => check.blind \/ check.end = check.begun
=============================================================================
