---------------------------- MODULE AgentConfigs ----------------------------
(***************************************************************************)
(* jevkit in the configuration files of a coding agent (internal/agents):  *)
(* install merges the hooks and the MCP server into files that belong to   *)
(* the user and keeps what they were in a sidecar; uninstall restores it.  *)
(* The user edits the files at any time, and a command stops anywhere.     *)
(* A file is its entries, and whether its bytes are as the user left them. *)
(***************************************************************************)
EXTENDS Naturals, Sequences, FiniteSets

CONSTANTS
    Adapters,  \* the agents of this instance
    Binaries,  \* paths that an install may write into the entries
    UserTexts, \* what the user keeps in a file (see UserFile)
    FileEdits, \* bound: edits of the user
    MaxCommands \* bound: commands started and edits before one more command starts

VARIABLES
    adapter, \* the agent that a behaviour is about
    file,    \* [Components -> file]
    backup,  \* [Components -> file or None]: <file>.jevkit-original
    command, \* the command that runs: [kind, todo, at, binary, guard, out]
    cpast    \* history: [edits, started, original, edited]: by component what the file
             \* was before it was installed into, and whether it was edited since

configVars == <<adapter, file, backup, command, cpast>>

Components == {"hooks", "mcp"}

None == [kind |-> "none", mine |-> {}, ours |-> {}, stray |-> {}, own |-> FALSE]

\* absentSentinel: what the sidecar says of a file that did not exist.
AbsentFile == [kind |-> "absent", mine |-> {}, ours |-> {}, stray |-> {}, own |-> TRUE]

\* mine: a hook of the user ("hook"), one in the group that is called jevkit ("within"), a
\* group of hooks without any ("bare"), what is no list under an event that jevkit writes
\* ("value") or another ("flag"), an MCP server ("server"), one that is called jevkit
\* ("jevkit"), all else ("other").  ours: managed entries; stray: those the user has
\* moved beside a hook of his own (antigravity), or under an event jevkit does not write.
UserFile(mine, ours, stray) ==
    [kind |-> "text", mine |-> mine, ours |-> ours, stray |-> stray, own |-> TRUE]

\* What is no JSON object.
Garbled == [kind |-> "garbled", mine |-> {}, ours |-> {}, stray |-> {}, own |-> TRUE]

\* marshalSettings: the entries stay, the bytes do not.
Marshalled(mine, ours, stray) ==
    [kind |-> "text", mine |-> mine, ours |-> ours, stray |-> stray, own |-> FALSE]

NoCommand == [kind |-> "idle", todo |-> <<>>, at |-> "", binary |-> "", guard |-> FALSE, out |-> None]

\* The two files whose text is not parsed: a plugin, and a TOML table between markers.
Parsed(c) == <<adapter, c>> \notin {<<"opencode", "hooks">>, <<"codex", "mcp">>}
-----------------------------------------------------------------------------
(***************************************************************************)
(* The adapters: which entries each of them wants, and what of the user's  *)
(* it keeps when it strips the managed ones, whichever binary they name.   *)
(***************************************************************************)
ClaudeEntries(guard) ==
    IF guard THEN {<<"PostToolUse", "Bash">>, <<"PostToolUse", "other tools">>, <<"PreToolUse", "*">>}
    ELSE {<<"PostToolUse", "Bash">>, <<"PreToolUse", "Bash">>}

CodexEntries(guard) ==
    {<<"PostToolUse", m>> : m \in {"Bash", "command_execution"}}
    \cup {<<"PreToolUse", m>> : m \in IF guard THEN {"*"} ELSE {"Bash", "command_execution"}}

CursorEntries(guard) ==
    {<<"preToolUse", IF guard THEN "*" ELSE "Shell">>, <<"afterShellExecution", "">>}
    \cup {<<"postToolUse", m>> : m \in {"Shell", "native", "MCP:*"}}

AntigravityEntries == {<<"PreToolUse", "run_command">>}

\* stripManagedClaudeHooks, stripManagedCodexHooks: a group without entries goes, whoever
\* wrote it, and what is no list is overwritten (asSlice).
ClaudeKept(mine) == mine \ {"bare", "value"}
CodexKept(mine)  == mine \ {"bare", "value"}
CursorKept(mine) == mine \ {"value"}

\* mergeAntigravityHooks and its strip: the group called jevkit goes as a whole; in every
\* other group, lists and hooks without entries and what is no list.
AntigravityKept(mine) == mine \ {"within", "bare", "value", "flag"}

\* mergeMCP, stripMCP: the server called jevkit is jevkit's.
ServersKept(mine) == mine \ {"jevkit"}

Kept(c, mine) ==
    IF c = "mcp" THEN ServersKept(mine)
    ELSE CASE adapter = "claude" -> ClaudeKept(mine)
      [] adapter = "codex"       -> CodexKept(mine)
      [] adapter = "cursor"      -> CursorKept(mine)
      [] adapter = "antigravity" -> AntigravityKept(mine)
      [] OTHER                   -> {}

\* stripManagedAntigravityFromDoc writes a list of groups back when their number changed:
\* a managed entry beside the user's goes only with an empty group of the same list.
AntigravityStray(f) == IF "bare" \in f.mine THEN {} ELSE f.stray

\* What an install leaves of them; the strip of an uninstall looks at one more event, Stop.
StrayKept(f)     == IF adapter = "antigravity" THEN AntigravityStray(f) ELSE f.stray
StrayStripped(f) == IF adapter \in {"codex", "cursor"} THEN {} ELSE StrayKept(f)

\* An entry names the binary and, but for a server or a plugin, whether it guards.
ManagedEntries(c, binary, guard) ==
    IF c = "mcp" THEN {<<"mcp", "jevkit", binary, FALSE>>}
    ELSE IF adapter = "opencode" THEN {<<"plugin", "", binary, FALSE>>}
    ELSE {<<e[1], e[2], binary, guard>> :
            e \in CASE adapter = "claude" -> ClaudeEntries(guard)
                    [] adapter = "codex"  -> CodexEntries(guard)
                    [] adapter = "cursor" -> CursorEntries(guard)
                    [] OTHER              -> AntigravityEntries}

\* Mutant of Merged: takes only entries of the same binary for its own.
MergedByBinary(c, f, binary, guard) ==
    Marshalled(Kept(c, f.mine),
               {e \in f.ours : e[3] # binary} \cup ManagedEntries(c, binary, guard), StrayKept(f))

Merged(c, f, binary, guard) ==
    IF c = "mcp" /\ Parsed(c) /\ f.ours = ManagedEntries(c, binary, guard) THEN f
    ELSE Marshalled(Kept(c, f.mine), ManagedEntries(c, binary, guard), StrayKept(f))

\* No hooks or servers at all, so nothing to strip.
Sectionless(f) == f.mine \subseteq {"other"} /\ f.ours = {} /\ f.stray = {}

WithoutManaged(c, f, drops) ==
    IF drops /\ Kept(c, f.mine) = {} /\ StrayStripped(f) = {} THEN AbsentFile
    ELSE Marshalled(Kept(c, f.mine), {}, StrayStripped(f))

\* stripXManagedInPlace, of the files that have no sidecar.
ClaudeStripped(f) == IF Sectionless(f) THEN f ELSE WithoutManaged("hooks", f, FALSE)

CodexStripped(f) == IF Sectionless(f) THEN f ELSE WithoutManaged("hooks", f, TRUE)

CursorStripped(f) == IF Sectionless(f) THEN f ELSE WithoutManaged("hooks", f, FALSE)

AntigravityStripped(f) == WithoutManaged("hooks", f, TRUE)

OpenCodeStripped(f) == IF f.ours = {} THEN f ELSE AbsentFile

ServersStripped(f) ==
    IF Parsed("mcp") /\ Sectionless(f) THEN f ELSE WithoutManaged("mcp", f, TRUE)

Stripped(c, f) ==
    IF f.kind = "absent" THEN AbsentFile
    ELSE IF c = "mcp" THEN ServersStripped(f)
    ELSE CASE adapter = "claude" -> ClaudeStripped(f)
      [] adapter = "codex"       -> CodexStripped(f)
      [] adapter = "cursor"      -> CursorStripped(f)
      [] adapter = "antigravity" -> AntigravityStripped(f)
      [] OTHER                   -> OpenCodeStripped(f)
-----------------------------------------------------------------------------
(***************************************************************************)
(* The commands, one step for each read and each write of a file.          *)
(***************************************************************************)
\* The files before jevkit, or with entries of an install of another machine.
FilesInit(c) ==
    {AbsentFile} \cup (IF Parsed(c) THEN {Garbled} ELSE {})
    \cup {UserFile(t, {}, {}) : t \in UserTexts[c]}
    \cup {UserFile({}, ManagedEntries(c, "elsewhere", FALSE), {})}

ConfigInit ==
    /\ adapter \in Adapters
    /\ \E hooks \in FilesInit("hooks"), mcp \in FilesInit("mcp") :
        file = [c \in Components |-> IF c = "hooks" THEN hooks ELSE mcp]
    /\ backup = [c \in Components |-> None]
    /\ command = NoCommand
    /\ cpast = [edits |-> 0, started |-> 0, original |-> file, edited |-> {}]

\* runInstall, parseComponents: hooks first when they are installed, last when removed.
StartsCommand(kind, components, binary, guard) ==
    /\ command = NoCommand /\ cpast.started + cpast.edits < MaxCommands
    /\ command' = [NoCommand EXCEPT !.kind = kind, !.binary = binary, !.guard = guard, !.at = "read",
                       !.todo = IF components # {"hooks", "mcp"} THEN <<CHOOSE c \in components : TRUE>>
                                ELSE IF kind = "install" THEN <<"hooks", "mcp">>
                                ELSE <<"mcp", "hooks">>]
    /\ cpast' = [cpast EXCEPT !.started = @ + 1]
    /\ UNCHANGED <<adapter, file, backup>>

Current == Head(command.todo)

\* The next component, or none: the command ends.
Continue ==
    command' = IF Len(command.todo) > 1
               THEN [command EXCEPT !.todo = Tail(@), !.at = "read", !.out = None]
               ELSE NoCommand

CommandAt(kind, at) == command.kind = kind /\ command.at = at

\* Install, InstallMCP up to the first write.
InstallReads ==
    /\ CommandAt("install", "read")
    /\ LET out == Merged(Current, file[Current], command.binary, command.guard)
       IN  IF Parsed(Current) /\ file[Current].kind = "garbled" THEN command' = NoCommand
           ELSE IF out = file[Current] THEN Continue
           ELSE command' = [command EXCEPT !.at = "backup", !.out = [read |-> file[Current], new |-> out]]
    /\ UNCHANGED <<adapter, file, backup, cpast>>

\* Mutant of SavedFirst: every install saves what it read.
SavedAgain(c, read) == read

\* ensureXBackup: the sidecar of the first install stays.
SavedFirst(c, read) == IF backup[c] = None THEN read ELSE backup[c]

InstallSaves ==
    /\ CommandAt("install", "backup")
    /\ backup' = [backup EXCEPT ![Current] = SavedFirst(Current, command.out.read)]
    /\ command' = [command EXCEPT !.at = "write"]
    /\ UNCHANGED <<adapter, file, cpast>>

InstallWrites ==
    /\ CommandAt("install", "write")
    /\ file' = [file EXCEPT ![Current] = command.out.new]
    /\ Continue
    /\ UNCHANGED <<adapter, backup, cpast>>

\* Uninstall and UninstallMCP plan the restore; the latter then writes what it planned.
UninstallReads ==
    /\ CommandAt("uninstall", "read")
    /\ IF backup[Current] = None /\ Parsed(Current) /\ file[Current].kind = "garbled"
       THEN command' = NoCommand
       ELSE command' = [command EXCEPT !.at = "restore",
                            !.out = IF backup[Current] # None THEN backup[Current]
                                    ELSE Stripped(Current, file[Current])]
    /\ UNCHANGED <<adapter, file, backup, cpast>>

\* restoreXBackup: a sidecar is written back, then removed; without one the file is read
\* again and stripped.
UninstallRestores ==
    /\ CommandAt("uninstall", "restore")
    /\ LET c == Current
           again == backup[c] = None /\ c = "hooks"
       IN  /\ IF again /\ Parsed(c) /\ file[c].kind = "garbled" THEN UNCHANGED file
              ELSE file' = [file EXCEPT ![c] = IF again THEN Stripped(c, file[c]) ELSE command.out]
           /\ IF backup[c] = None THEN Continue ELSE command' = [command EXCEPT !.at = "drop"]
           /\ cpast' = IF backup[c] # None THEN cpast
                       ELSE [cpast EXCEPT !.original[c] =
                                 IF c \in cpast.edited THEN file'[c] ELSE Stripped(c, @),
                                 !.edited = @ \ {c}]
    /\ UNCHANGED <<adapter, backup>>

UninstallDrops ==
    /\ CommandAt("uninstall", "drop")
    /\ backup' = [backup EXCEPT ![Current] = None]
    /\ Continue
    /\ cpast' = [cpast EXCEPT !.original[Current] = IF Current \in cpast.edited THEN file[Current] ELSE @,
                     !.edited = @ \ {Current}]
    /\ UNCHANGED <<adapter, file>>

\* The process is killed, or a write fails: what it wrote stays.
CommandStops ==
    /\ command # NoCommand
    /\ command' = NoCommand
    /\ UNCHANGED <<adapter, file, backup, cpast>>

\* A file may hold managed entries out of their place: a plugin and a server have one place.
MayStray(c, t) ==
    c = "hooks" /\ adapter # "opencode" /\ (adapter = "antigravity" => "hook" \in t)

\* The user writes the file, keeping the managed entries, moving them, or not.
EditsFile(c) ==
    /\ cpast.edits < FileEdits
    /\ \E f \in FilesInit(c) \cup {UserFile(t, file[c].ours, {}) : t \in UserTexts[c]}
                 \cup {UserFile(t, {}, file[c].ours) : t \in {u \in UserTexts[c] : MayStray(c, u)}} :
        /\ f # file[c]
        /\ file' = [file EXCEPT ![c] = f]
        /\ LET settled == backup[c] = None
                          /\ (command = NoCommand \/ Current # c \/ command.at = "read")
           IN  cpast' = [cpast EXCEPT !.edits = @ + 1,
                            !.original[c] = IF settled THEN f ELSE @,
                            !.edited = IF settled THEN @ ELSE @ \cup {c}]
    /\ UNCHANGED <<adapter, backup, command>>

ConfigNext ==
    \/ \E components \in (SUBSET Components) \ {{}} :
          \/ StartsCommand("uninstall", components, "", FALSE)
          \/ \E binary \in Binaries, guard \in BOOLEAN :
                StartsCommand("install", components, binary, guard)
    \/ InstallReads \/ InstallSaves \/ InstallWrites
    \/ UninstallReads \/ UninstallRestores \/ UninstallDrops
    \/ CommandStops
    \/ \E c \in Components : EditsFile(c)

ConfigSpec == ConfigInit /\ [][ConfigNext]_configVars
-----------------------------------------------------------------------------
(***************************************************************************)
(* Wherever the commands on a file stop, its original is still there, byte *)
(* for byte: the file is it, or its sidecar says what it was; where jevkit *)
(* writes its entries, a file holds those of one install, and no entry of  *)
(* the user that the original lacks.  An edit after the first install is   *)
(* exempt: uninstall restores the original (claude_install.go:54).  So are *)
(* managed entries that such an edit moved elsewhere: an install leaves    *)
(* them (antigravity_install.go:152), and the next adds its own.           *)
(***************************************************************************)
InstallReversible ==
    \A c \in Components :
        /\ \A e, g \in file[c].ours : e[3] = g[3] /\ e[4] = g[4]
        /\ c \notin cpast.edited =>
            /\ cpast.original[c] \in {file[c], backup[c]}
            /\ backup[c] \in {None, cpast.original[c]}
            /\ file[c] = cpast.original[c] \/ file[c].mine = Kept(c, cpast.original[c].mine)
=============================================================================
