----------------------------- MODULE SavedRuns -----------------------------
(***************************************************************************)
(* The saved runs as files: runs that are created, driven and resumed,     *)
(* commands that delete trees of them or prune their logs, the records of  *)
(* usage that go with them, and a watcher that lists one tree over and     *)
(* over (cmd/jevkit/sdlc: prune, logs, inventory; internal/sdlc/ledger).   *)
(***************************************************************************)
EXTENDS Naturals, Sequences, FiniteSets

CONSTANTS
    ParentOf,  \* [run -> run or 0]: run 1 and the children it may get
    Deleters,  \* commands that delete or prune
    Deletions, \* bound: deletions that are planned
    Intrusions, \* bound: resumes and prunings of logs, together
    MaxHalts   \* bound: commands that stop half-way

\* Ids of runs are never empty, and a child names its parent.
ASSUME SavedConstants ==
    /\ IsFiniteSet(DOMAIN ParentOf) /\ 0 \notin DOMAIN ParentOf
    /\ \A r \in DOMAIN ParentOf : ParentOf[r] \in DOMAIN ParentOf \cup {0}

VARIABLES
    disk,    \* [Saved -> "none", "empty", "active", "resting"]: a directory may lack run.json
    logs,    \* [Saved -> "none", "saved", "bare", "pruned"]: the streams of its invocations
    usage,   \* runs that usage.jsonl has records of
    resumer, \* runs whose run.json a resume has read and not written yet
    deleter, \* [Deleters -> [at, scope, deleted]]
    watcher, \* [root, known, member, lost, extra]
    spast    \* history: [born, late, stopped, cut] and counters (see below)

savedVars == <<disk, logs, usage, resumer, deleter, watcher, spast>>

Saved == DOMAIN ParentOf
Readable(r) == disk[r] \in {"active", "resting"}

\* The runs below a set, through runs of another: the least set that has them.
TreeOf(from, runs) ==
    {r \in from \cup runs :
        \A T \in SUBSET (from \cup runs) :
            from \subseteq T /\ (\A q \in runs : ParentOf[q] \in T => q \in T) => r \in T}

\* sdlcTree: the runs that can be read, from a root down.
Tree(root) ==
    IF Readable(root) THEN TreeOf({root}, {r \in Saved : Readable(r)}) ELSE {}

\* sdlcInventory refuses directories that no run can be read from.
Refused == {r \in Saved : disk[r] = "empty"}

\* What the inventory says of the output of a run's invocations: those whose streams went
\* without a mark look as if nothing had been captured.
Shown(r) ==
    CASE logs[r] = "saved" -> "available" [] logs[r] = "pruned" -> "pruned"
      [] logs[r] = "bare" -> "not captured" [] OTHER -> "no invocations"

\* sdlcRunTreeRoot: the quota of its tree is checked before a run works.
Rooted(r) == \A q \in Saved : r \in TreeOf({q}, Saved) => Readable(q)

SavedInit ==
    /\ disk = [r \in Saved |-> "none"]
    /\ logs = [r \in Saved |-> "none"]
    /\ usage = {} /\ resumer = {}
    /\ deleter = [d \in Deleters |-> [at |-> "idle", scope |-> <<>>, deleted |-> {}]]
    /\ watcher \in [root : Saved, known : {{}}, member : {{}}, lost : {{}}, extra : {{}}]
    /\ spast = [born |-> {}, late |-> {}, stopped |-> {}, cut |-> {}, pruning |-> 0,
                deletions |-> 0, resumes |-> 0, prunings |-> 0, halts |-> 0]

Deleting == \E d \in Deleters : deleter[d].at # "idle"
HeldForRemoval(r) == \E d \in Deleters : deleter[d].at = "checked" /\ Head(deleter[d].scope) = r
-----------------------------------------------------------------------------
(***************************************************************************)
(* Runs                                                                    *)
(***************************************************************************)
\* A run written while a deletion is at work, or when its parent is gone, is late.
Late(r) ==
    IF Deleting \/ (ParentOf[r] # 0 /\ ~Readable(ParentOf[r])) \/ (r \in spast.born /\ ~Readable(r))
    THEN {r} ELSE {}

\* writeAtomicBytes makes the directory, then renames the file into it.
MakesRun(r) ==
    /\ disk[r] = "none" /\ r \notin spast.born
    /\ ParentOf[r] # 0 => disk[ParentOf[r]] = "active"
    /\ disk' = [disk EXCEPT ![r] = "empty"]
    /\ UNCHANGED <<logs, usage, resumer, deleter, watcher, spast>>

WritesRun(r) ==
    /\ disk[r] = "empty" /\ r \notin spast.born
    /\ disk' = [disk EXCEPT ![r] = "active"]
    /\ spast' = [spast EXCEPT !.born = @ \cup {r}, !.late = @ \cup Late(r)]
    /\ UNCHANGED <<logs, usage, resumer, deleter, watcher>>

\* A drive: invocations append usage and save output, if the run's tree passes the quota.
Works(r) ==
    /\ disk[r] = "active" /\ Rooted(r)
    /\ usage' = usage \cup {r}
    /\ logs' = [logs EXCEPT ![r] = IF @ = "none" THEN "saved" ELSE @]
    /\ UNCHANGED <<disk, resumer, deleter, watcher, spast>>

\* It ends or pauses, in a section of its run lock.
ComesToRest(r) ==
    /\ disk[r] = "active" /\ ~HeldForRemoval(r)
    /\ disk' = [disk EXCEPT ![r] = "resting"]
    /\ UNCHANGED <<logs, usage, resumer, deleter, watcher, spast>>

\* sdlcResume reads and writes run.json outside the lock; a write makes the directory.
SavedResumeReads(r) ==
    /\ disk[r] = "resting" /\ r \notin resumer /\ spast.resumes + spast.prunings < Intrusions
    /\ resumer' = resumer \cup {r}
    /\ spast' = [spast EXCEPT !.resumes = @ + 1]
    /\ UNCHANGED <<disk, logs, usage, deleter, watcher>>

SavedResumeWrites(r) ==
    /\ r \in resumer
    /\ resumer' = resumer \ {r}
    /\ disk' = [disk EXCEPT ![r] = "active"]
    /\ spast' = [spast EXCEPT !.late = @ \cup Late(r)]
    /\ UNCHANGED <<logs, usage, deleter, watcher>>
-----------------------------------------------------------------------------
(***************************************************************************)
(* Deleting and pruning                                                    *)
(***************************************************************************)
\* Mutant of DeletionOrder: as the tree is listed.
ListingOrder(s) == s

\* sdlcDeleteApply: the tree is listed from its root down, and deleted from its end.
DeletionOrder(s) == [i \in DOMAIN s |-> s[Len(s) + 1 - i]]

\* Parents before their children; which of two siblings comes first is left open.
Listings(runs) ==
    {s \in [1 .. Cardinality(runs) -> runs] :
        /\ \A r \in runs : \E i \in DOMAIN s : s[i] = r
        /\ \A i, j \in DOMAIN s : ParentOf[s[i]] = s[j] => j < i}

\* sdlcDeletePlan, of a run's tree; prune selects trees by their roots.  An active run
\* in the tree refuses it.
PlansDeletion(d, root) ==
    /\ deleter[d].at = "idle" /\ spast.deletions < Deletions
    /\ Tree(root) # {} /\ \A r \in Tree(root) : disk[r] = "resting"
    /\ \E listing \in Listings(Tree(root)) :
         deleter' = [deleter EXCEPT ![d] = [at |-> "next", scope |-> DeletionOrder(listing),
                                            deleted |-> {}]]
    /\ spast' = [spast EXCEPT !.deletions = @ + 1]
    /\ UNCHANGED <<disk, logs, usage, resumer, watcher>>

\* The next run of the scope, or what they used.
DeletedHead(d) ==
    LET rest == Tail(deleter[d].scope)
    IN  [at |-> IF rest = <<>> THEN "usage" ELSE "next", scope |-> rest,
         deleted |-> deleter[d].deleted \cup {Head(deleter[d].scope)}]

Given(d) == [at |-> "idle", scope |-> <<>>, deleted |-> {}]

\* Under its lock, for which the directory is made, the run is read again: one that is
\* gone counts as deleted, one that is active ends the deletion.
ChecksRun(d) ==
    LET r == Head(deleter[d].scope)
    IN  /\ deleter[d].at = "next" /\ ~HeldForRemoval(r)
        /\ disk' = [disk EXCEPT ![r] = IF @ = "none" THEN "empty" ELSE @]
        /\ deleter' = [deleter EXCEPT ![d] =
               CASE disk[r] = "resting" -> [@ EXCEPT !.at = "checked"]
                 [] disk[r] = "active"  -> Given(d)
                 [] OTHER               -> DeletedHead(d)]
        /\ spast' = IF disk[r] = "active" THEN [spast EXCEPT !.stopped = @ \cup deleter[d].deleted]
                    ELSE spast
        /\ UNCHANGED <<logs, usage, resumer, watcher>>

RemovesRun(d) ==
    LET r == Head(deleter[d].scope)
    IN  /\ deleter[d].at = "checked"
        /\ disk' = [disk EXCEPT ![r] = "none"]
        /\ logs' = [logs EXCEPT ![r] = "none"]
        /\ deleter' = [deleter EXCEPT ![d] = DeletedHead(d)]
        /\ UNCHANGED <<usage, resumer, watcher, spast>>

\* RemoveRuns: the records of all that was deleted, at the end.
RemovesUsage(d) ==
    /\ deleter[d].at = "usage"
    /\ usage' = usage \ deleter[d].deleted
    /\ deleter' = [deleter EXCEPT ![d] = Given(d)]
    /\ UNCHANGED <<disk, logs, resumer, watcher, spast>>

\* The command stops, maybe in the middle of a directory.
DeletionHalts(d) ==
    /\ deleter[d].at # "idle" /\ spast.halts < MaxHalts
    /\ deleter' = [deleter EXCEPT ![d] = Given(d)]
    /\ \/ UNCHANGED <<disk, logs>>
       \/ /\ deleter[d].at = "checked"
          /\ disk' = [disk EXCEPT ![Head(deleter[d].scope)] = "empty"]
          /\ logs' = [logs EXCEPT ![Head(deleter[d].scope)] = "none"]
    /\ spast' = [spast EXCEPT !.halts = @ + 1, !.stopped = @ \cup deleter[d].deleted
                     \cup (IF deleter[d].at = "checked" THEN {Head(deleter[d].scope)} ELSE {})]
    /\ UNCHANGED <<usage, resumer, watcher>>

\* sdlcPruneLogs, without a lock: the streams of a resting tree go, then a marker says so.
PrunesLogs(r) ==
    /\ spast.pruning = 0 /\ spast.resumes + spast.prunings < Intrusions
    /\ Tree(r) # {} /\ \A s \in Tree(r) : disk[s] = "resting"
    /\ logs[r] = "saved"
    /\ logs' = [logs EXCEPT ![r] = "bare"]
    /\ spast' = [spast EXCEPT !.prunings = @ + 1, !.pruning = r]
    /\ UNCHANGED <<disk, usage, resumer, deleter, watcher>>

MarksPruned ==
    /\ spast.pruning # 0
    /\ \/ /\ logs' = [logs EXCEPT ![spast.pruning] = IF @ = "bare" THEN "pruned" ELSE @]
          /\ spast' = [spast EXCEPT !.pruning = 0]
       \/ /\ spast.halts < MaxHalts
          /\ UNCHANGED logs
          /\ spast' = [spast EXCEPT !.pruning = 0, !.halts = @ + 1, !.cut = @ \cup {spast.pruning}]
    /\ UNCHANGED <<disk, usage, resumer, deleter, watcher>>
-----------------------------------------------------------------------------
\* sdlcTreeWatcher.refresh: only what is new, and what belonged to the tree, is read again;
\* what fails to be read stays as it was known, while its directory is listed.
Refreshes ==
    LET listed == {r \in Saved : disk[r] # "none"}
        seen   == watcher.known \cap listed
        again  == listed \ (seen \ watcher.member)
        known  == seen \cup {r \in again : Readable(r)}
        member == IF watcher.root \in known THEN TreeOf({watcher.root}, known) ELSE {}
        ghosts == member \cap Refused
    IN  /\ watcher' = [watcher EXCEPT !.known = known,
               !.member = IF member = {} THEN @ \cap listed ELSE member,
               !.lost = Tree(watcher.root) \ member,
               !.extra = member \ (Tree(watcher.root) \cup TreeOf(ghosts, known))]
        /\ UNCHANGED <<disk, logs, usage, resumer, deleter, spast>>

SavedNext ==
    \/ \E r \in Saved : \/ MakesRun(r) \/ WritesRun(r) \/ Works(r) \/ ComesToRest(r)
                        \/ SavedResumeReads(r) \/ SavedResumeWrites(r) \/ PrunesLogs(r)
    \/ \E d \in Deleters : \/ \E root \in Saved : PlansDeletion(d, root)
                           \/ ChecksRun(d) \/ RemovesRun(d) \/ RemovesUsage(d) \/ DeletionHalts(d)
    \/ MarksPruned
    \/ Refreshes

SavedSpec == SavedInit /\ [][SavedNext]_savedVars
-----------------------------------------------------------------------------
(***************************************************************************)
(* Wherever deletions stop, and however many run at once, what is left of  *)
(* a tree hangs together: no run that can be read has lost its parent, by  *)
(* which prune finds it and its quota is counted, unless it was written    *)
(* after a deletion was planned.  No usage is left of a run that is gone,  *)
(* and no output vanishes without a mark, but for commands that stopped.   *)
(* A watcher shows what a new listing would, but for directories that lost *)
(* their run.json.                                                         *)
(***************************************************************************)
TreesWhole ==
    /\ \A r \in Saved :
        /\ Readable(r) /\ ParentOf[r] # 0 /\ ~Readable(ParentOf[r]) => r \in spast.late
        /\ r \in usage /\ ~Readable(r) =>
              \/ r \in spast.stopped \cup spast.late
              \/ \E d \in Deleters : r \in deleter[d].deleted
        /\ Shown(r) = "not captured" => r \in spast.cut \cup {spast.pruning}
    /\ watcher.lost = {} /\ watcher.extra = {}
=============================================================================
