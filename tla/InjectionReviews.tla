-------------------------- MODULE InjectionReviews --------------------------
(***************************************************************************)
(* The guard on tool calls: which commands a policy denies, which outputs  *)
(* it holds for review (internal/security and its config), and the store   *)
(* of reviews that the hooks of all sessions, the shell wrapper and the    *)
(* operator share (internal/security/review).                              *)
(***************************************************************************)
EXTENDS Integers, Sequences, FiniteSets, FiniteSetsExt

CONSTANTS
    Sessions,      \* keys of the sessions of the runtimes (SessionKey)
    Outputs,       \* what tools may answer (see Holds)
    ShellCommands, \* what sessions may run (see Denies)
    Policies,      \* [user, project, guard, yolo]: files and environments (see Effective)
    MaxReviews,    \* bound: records that are created
    MaxLosses      \* bound: hooks and commands that stop or fail half-way

\* What a policy file of either layer may set, and where an output's finding may be.
ASSUME ReviewConstants ==
    /\ \A q \in Policies :
        /\ q.project.injection \in {"off", "shadow", "enforce"} /\ q.project.bytes \in Int
        /\ "bytes" \in DOMAIN q.user.set => q.user.set.bytes \in Int
    /\ \A o \in Outputs : o.at \in Nat

VARIABLES
    policy,    \* the files and the environment, which a behaviour does not change
    calls,     \* [Sessions -> Nat]: tool calls that passed the gate and still run
    held,      \* the records in order of creation: [session, content, status]
    index,     \* [Sessions -> Nat]: pending/<session>.id; 0: there is none
    allowlist, \* contents an operator allowed (injection-allowlist.jsonl)
    writer,    \* [at, id]: who holds the store's lock, and before which write
    vpast      \* history: [losses, unindexed: sessions whose index was never written]

reviewVars == <<policy, calls, held, index, allowlist, writer, vpast>>
-----------------------------------------------------------------------------
(***************************************************************************)
(* Policies: the layers of Load, and what the effective policy does.       *)
(***************************************************************************)
Modes == <<"off", "shadow", "enforce">>
Rank(mode) == CHOOSE r \in 1 .. 3 : Modes[r] = mode

Stricter(m, n) == IF Rank(n) > Rank(m) THEN n ELSE m

\* Mutant of ToolsWith: forgets what an empty list means.
ToolsAdded(mine, theirs) == mine \cup theirs

\* No tools named: every tool is scanned.
ToolsWith(mine, theirs) == IF mine = {} THEN {} ELSE mine \cup theirs

\* tightenInjection: a project may only add to what the user's policy holds.
Tightened(user, project) ==
    [user EXCEPT !.kill = @ \cup project.kill,
                 !.injection = Stricter(@, project.injection),
                 !.tools = ToolsWith(@, project.tools),
                 !.all = @ \/ project.all,
                 !.eager = @ \/ project.eager,
                 !.markers = @ \/ project.markers,
                 !.bytes = Max({@, project.bytes})]

\* Builtin: what applies without files, and when one of them does not load (LoadForHook).
Builtin ==
    [kill |-> {"builtin"}, mode |-> "enforce", scoring |-> FALSE, injection |-> "off", tools |-> {},
     all |-> FALSE, eager |-> TRUE, markers |-> FALSE, bytes |-> 2]

\* applyUser: what the user's file says, or else what is built in.
Chosen(file) ==
    [k \in DOMAIN Builtin |->
        CASE k = "kill"    -> Builtin.kill \cup file.kill
          [] k = "markers" -> file.injects /\ file.set.markers
          [] OTHER         -> IF k \in DOMAIN file.set THEN file.set[k] ELSE Builtin[k]]

\* Load: the user's file, the project's, then the environment.
Guarded(p, guard) ==
    [p EXCEPT !.injection = IF guard = "on" THEN "enforce" ELSE IF guard = "off" THEN "off" ELSE @]

Loads == policy.user.valid /\ policy.project.valid

UserAlone == Guarded(Chosen(policy.user), policy.guard)

Effective ==
    IF Loads THEN Guarded(Tightened(Chosen(policy.user), policy.project), policy.guard)
    ELSE Builtin

\* Evaluate and CheckLocal: the rules in their order, then the score.  The sandbox is
\* the command's attribute `outside`; in shadow mode everything but the review command
\* is only logged.
Denies(p, c) ==
    \/ c.review
    \/ /\ p.mode = "enforce"
       /\ \/ c.words \cap p.kill # {}
          \/ ~policy.yolo /\ c.outside
          \/ p.scoring /\ c.risk >= 3 /\ c.sure = "act"

\* CheckInjection.  The score is of the output's first `bytes`; a threshold that is not
\* met, no answer at all and the escalation band are the output's `sure`.
Scanned(p, o) ==
    /\ p.injection # "off"
    /\ p.tools = {} \/ o.tool \in p.tools
    /\ p.all \/ o.suspicious

Holds(p, o) ==
    /\ Scanned(p, o) /\ p.injection = "enforce"
    /\ \/ o.marker /\ p.markers
       \/ o.at <= p.bytes /\ (o.sure = "act" \/ (o.sure = "gather" /\ p.eager))
-----------------------------------------------------------------------------
(***************************************************************************)
(* The store.  Readers take no lock.                                       *)
(***************************************************************************)
PendingOf(s) == {i \in DOMAIN held : held[i].session = s /\ held[i].status = "pending"}

\* Pending: the index first; no index, no review; an index that names a record which is
\* no longer pending makes the reader look at all of them.
Latched(s) == index[s] # 0 /\ PendingOf(s) # {}

Free == writer.at = "nobody"
NoWriter == [at |-> "nobody", id |-> 0]

\* Mutant of Reindexed: the index is removed with the review that it names.
Unindexed(s) == 0

Reindexed(s) == IF PendingOf(s) = {} THEN 0 ELSE Min(PendingOf(s))

ReviewsInit ==
    /\ policy \in Policies
    /\ calls = [s \in Sessions |-> 0] /\ held = <<>> /\ index = [s \in Sessions |-> 0]
    /\ allowlist = {} /\ writer = NoWriter /\ vpast = [losses |-> 0, unindexed |-> {}]

\* A pre-tool hook lets a call of a session through: HandlePreTool.  Two calls of one
\* session may run at a time.
PreTool(s) ==
    /\ ~Latched(s) /\ calls[s] < 2
    /\ LET p == Effective IN {c \in ShellCommands : ~Denies(p, c)} # {}
    /\ calls' = [calls EXCEPT ![s] = @ + 1]
    /\ UNCHANGED <<policy, held, index, allowlist, writer, vpast>>

\* The post-tool hook or the wrapper passes an output on: nothing in it, or allowed before.
PassOutput(s) ==
    /\ calls[s] > 0
    /\ LET p == Effective IN {o \in Outputs : ~Holds(p, o) \/ o.content \in allowlist} # {}
    /\ calls' = [calls EXCEPT ![s] = @ - 1]
    /\ UNCHANGED <<policy, held, index, allowlist, writer, vpast>>

\* The original cannot be stored, so there would be nothing to review: it passes.
StoreFails(s) ==
    /\ calls[s] > 0 /\ Effective.injection # "off" /\ vpast.losses < MaxLosses
    /\ calls' = [calls EXCEPT ![s] = @ - 1]
    /\ vpast' = [vpast EXCEPT !.losses = @ + 1]
    /\ UNCHANGED <<policy, held, index, allowlist, writer>>

\* Create, first write: the record.
HoldOutput(s, content) ==
    /\ calls[s] > 0 /\ content \notin allowlist
    /\ Free /\ Len(held) < MaxReviews
    /\ LET p == Effective IN {o \in Outputs : o.content = content /\ Holds(p, o)} # {}
    /\ held' = Append(held, [session |-> s, content |-> content, status |-> "pending"])
    /\ writer' = [at |-> "index", id |-> Len(held')]
    /\ UNCHANGED <<policy, calls, index, allowlist, vpast>>

SessionAtLock == held[writer.id].session
CallEnds == calls' = [calls EXCEPT ![SessionAtLock] = @ - 1]

\* Create, second write: the session's index, unless it has one.
IndexReview ==
    /\ writer.at = "index"
    /\ index' = [index EXCEPT ![SessionAtLock] = IF @ = 0 THEN writer.id ELSE @]
    /\ vpast' = [vpast EXCEPT !.unindexed = @ \ {SessionAtLock}]
    /\ writer' = NoWriter /\ CallEnds
    /\ UNCHANGED <<policy, held, allowlist>>

\* The second write fails: the record is removed, and the output passes.
IndexFails ==
    /\ writer.at = "index" /\ vpast.losses < MaxLosses
    /\ held' = [held EXCEPT ![writer.id].status = "removed"]
    /\ vpast' = [vpast EXCEPT !.losses = @ + 1]
    /\ writer' = NoWriter /\ CallEnds
    /\ UNCHANGED <<policy, index, allowlist>>

\* Resolve: allowing appends to the allow-list first.
Resolve(i, action) ==
    /\ Free /\ held[i].status = "pending"
    /\ allowlist' = IF action = "allowed" THEN allowlist \cup {held[i].content} ELSE allowlist
    /\ writer' = [at |-> action, id |-> i]
    /\ UNCHANGED <<policy, calls, held, index, vpast>>

WriteResolution ==
    /\ writer.at \in {"allowed", "denied"}
    /\ held' = [held EXCEPT ![writer.id].status = writer.at]
    /\ writer' = [writer EXCEPT !.at = "reindex"]
    /\ UNCHANGED <<policy, calls, index, allowlist, vpast>>

\* The index moves on to the oldest review of the session that is still pending.
Reindex ==
    /\ writer.at = "reindex"
    /\ index' = [index EXCEPT ![SessionAtLock] = IF @ = writer.id THEN Reindexed(SessionAtLock) ELSE @]
    /\ writer' = NoWriter
    /\ UNCHANGED <<policy, calls, held, allowlist, vpast>>

\* The process stops, or a write of Resolve fails: the lock is free, later writes are not
\* made.  A hook is also stopped by its timeout (hook.go:103), which passes the output on.
Stop ==
    /\ ~Free /\ vpast.losses < MaxLosses
    /\ writer' = NoWriter
    /\ IF writer.at = "index"
       THEN /\ CallEnds
            /\ vpast' = [losses |-> vpast.losses + 1,
                         unindexed |-> vpast.unindexed
                             \cup {s \in {SessionAtLock} : index[s] = 0}]
       ELSE calls' = calls /\ vpast' = [vpast EXCEPT !.losses = @ + 1]
    /\ UNCHANGED <<policy, held, index, allowlist>>

ReviewsNext ==
    \/ \E s \in Sessions :
         \/ PreTool(s) \/ StoreFails(s) \/ PassOutput(s)
         \/ \E content \in {o.content : o \in Outputs} : HoldOutput(s, content)
    \/ \E i \in DOMAIN held, action \in {"allowed", "denied"} : Resolve(i, action)
    \/ IndexReview \/ IndexFails \/ WriteResolution \/ Reindex \/ Stop

ReviewsSpec == ReviewsInit /\ [][ReviewsNext]_reviewVars
-----------------------------------------------------------------------------
\* The gate of a session sees its pending reviews, however many there are, in whichever
\* order they are resolved, and wherever a write of a resolution is lost.  A session whose
\* first review lost its index is the exception, until the index is written.
PendingSeen ==
    Free => \A s \in Sessions : PendingOf(s) # {} => Latched(s) \/ s \in vpast.unindexed

\* Whatever the user's policy alone denies or holds, it denies or holds with the policy of
\* any project beside it, if both load ("project policies can add killswitch rules and
\* tighten injection settings").
ProjectTightens ==
    Loads =>
      LET alone == UserAlone
          both  == Effective
      IN  /\ \A c \in ShellCommands : Denies(alone, c) => Denies(both, c)
          /\ \A o \in Outputs : Holds(alone, o) => Holds(both, o)
=============================================================================
