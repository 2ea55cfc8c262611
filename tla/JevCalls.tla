------------------------------ MODULE JevCalls ------------------------------
(***************************************************************************)
(* Calls to Jev and the breaker they share (internal/breaker, internal/jev, *)
(* internal/registry/policy.go, `jevkit ask`).  Processes ask at the same   *)
(* time; each looks at the breaker once, retries on its own, and reports    *)
(* how it ended.  The breaker is a file: every update reads and replaces it *)
(* under a lock and is one action here.  Persistence errors, which the code *)
(* ignores, and the waits between retries are left out.                     *)
(***************************************************************************)
EXTENDS Integers

CONSTANTS
    Callers,    \* processes that may ask
    MaxRetries, \* JEVKIT_MAX_RETRIES
    MaxAsks     \* bound of this instance: questions asked

ASSUME JevConstants == MaxRetries \in Nat /\ MaxAsks \in Nat

FailureThreshold == 2

VARIABLES
    brk,   \* breaker.json
    call,  \* [Callers -> what the process is at, its retries, how it ended]
    jpast  \* history: questions asked, and failures in a row since a success or reset

jevVars == <<brk, call, jpast>>

Closed == [open |-> FALSE, consecutive |-> 0]
NoCall == [at |-> "rest", try |-> 0, fixture |-> FALSE, exit |-> ""]

JevInit ==
    /\ brk = Closed
    /\ call = [c \in Callers |-> NoCall]
    /\ jpast = [asks |-> 0, row |-> 0]
-----------------------------------------------------------------------------
(***************************************************************************)
(* The breaker                                                             *)
(***************************************************************************)

Opened(b) == [b EXCEPT !.open = TRUE]

\* Mutant of RecordFailure: one failure too many.
RecordFailureLate(b) ==
    IF b.open THEN b
    ELSE [open |-> b.consecutive >= FailureThreshold, consecutive |-> b.consecutive + 1]

\* Mutant of RecordSuccess: a late success closes it.
RecordSuccessCloses(b) == Closed

RecordFailure(b) ==
    IF b.open THEN b
    ELSE [open |-> b.consecutive + 1 >= FailureThreshold, consecutive |-> b.consecutive + 1]

\* A success that comes in late does not close it.
RecordSuccess(b) == IF b.open THEN b ELSE [b EXCEPT !.consecutive = 0]

\* The only way back.  Nothing in the program calls Reset: an operator who removes
\* breaker.json does the same.
ResetBreaker ==
    /\ brk # Closed
    /\ brk' = Closed
    /\ jpast' = [jpast EXCEPT !.row = 0]
    /\ UNCHANGED call
-----------------------------------------------------------------------------
(***************************************************************************)
(* jevkit ask                                                              *)
(***************************************************************************)

\* What the command ends with before anything is sent: flags or criteria that do not fit
\* or cannot be told apart; a text that must never be sent or cannot be redacted, or no key.
Refusals == {"usage", "failed"}

Ends(c, exit) == call' = [call EXCEPT ![c] = [NoCall EXCEPT !.exit = exit]]

\* The command up to Client.Ask, and the look Ask takes at the breaker first.
AskJev(c, refusal, fixture) ==
    /\ call[c].at = "rest" /\ jpast.asks < MaxAsks
    /\ jpast' = [jpast EXCEPT !.asks = @ + 1]
    /\ IF refusal \in Refusals THEN Ends(c, refusal)
       ELSE IF brk.open THEN Ends(c, "declined")
       ELSE call' = [call EXCEPT ![c] = [NoCall EXCEPT !.at = "posting", !.fixture = fixture]]
    /\ UNCHANGED brk
-----------------------------------------------------------------------------
(***************************************************************************)
(* Client.Ask: the attempts of one call                                    *)
(***************************************************************************)

\* What an attempt ends with; fixtures may also be missing or malformed.
Replies(fixture) ==
    {"ok", "garbled", "config", "busy", "error"}
      \cup IF fixture THEN {"missing", "malformed"} ELSE {"lost", "cancelled"}

Again(c, reply) == reply \in {"busy", "lost"} /\ call[c].try < MaxRetries

\* How the breaker hears of an attempt that is not tried again.
Heard(b, reply) ==
    CASE reply = "ok"                        -> RecordSuccess(b)
      [] reply = "config"                    -> Opened(b)
      [] reply \in {"missing", "malformed"}  -> b
      [] OTHER                               -> RecordFailure(b)

Counts(reply) == reply \notin {"ok", "config", "missing", "malformed"}

Attempt(c, reply) ==
    /\ call[c].at = "posting" /\ reply \in Replies(call[c].fixture)
    /\ IF Again(c, reply)
       THEN call' = [call EXCEPT ![c].try = @ + 1] /\ UNCHANGED <<brk, jpast>>
       ELSE /\ brk' = Heard(brk, reply)
            /\ jpast' = [jpast EXCEPT !.row = IF reply = "ok" THEN 0
                                              ELSE IF Counts(reply) /\ @ < FailureThreshold THEN @ + 1
                                              ELSE @]
            /\ IF reply = "ok" THEN call' = [call EXCEPT ![c] = [NoCall EXCEPT !.at = "deciding"]]
               ELSE Ends(c, reply)
-----------------------------------------------------------------------------
(***************************************************************************)
(* Decider: what may be done with an answer                                *)
(***************************************************************************)

Classify(confidence) ==
    CASE confidence = "high" -> "act" [] confidence = "middle" -> "gather" [] OTHER -> "fallback"

\* A choice that was not offered is no decision.
Decision(confidence, offered) == IF offered THEN Classify(confidence) ELSE "fallback"

\* A shadow logs what it would have decided and falls back (decisions.jsonl is left out).
Decide(c, confidence, offered, shadow) ==
    /\ call[c].at = "deciding"
    /\ Ends(c, IF confidence = "invalid" THEN "no-decision"
               ELSE IF shadow THEN "fallback" ELSE Decision(confidence, offered))
    /\ UNCHANGED <<brk, jpast>>

JevNext ==
    \/ ResetBreaker
    \/ \E c \in Callers :
         \/ \E refusal \in Refusals \cup {""}, fixture \in BOOLEAN : AskJev(c, refusal, fixture)
         \/ \E reply \in Replies(call[c].fixture) : Attempt(c, reply)
         \/ \E confidence \in {"high", "middle", "low", "invalid"}, offered, shadow \in BOOLEAN :
              Decide(c, confidence, offered, shadow)

JevSpec == JevInit /\ [][JevNext]_jevVars
-----------------------------------------------------------------------------
(***************************************************************************)
(* Correctness                                                             *)
(***************************************************************************)

\* Two calls that fail one after the other open the breaker, whichever processes make
\* them and however the calls of others interleave.
FailuresOpen == jpast.row >= FailureThreshold => brk.open

\* An open breaker stays open until it is reset: the late success of a call that looked
\* at the breaker before it opened does not close it.
OpenStays == [][brk.open => brk'.open \/ ResetBreaker]_jevVars
=============================================================================
