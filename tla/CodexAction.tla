------------------------------ MODULE CodexAction ------------------------------
(***************************************************************************)
(* How PreToolUse reads the calls that are not patches it can take apart:  *)
(* shell commands, other tools and patches without a path (to_action,      *)
(* parse_command_paths and is_opaque_destructive_command of                *)
(* integrations/codex/adapter.py, to_action of adapters/tool_events.py),   *)
(* and what it decides without asking SpecGuard (handle_pre_tool_use).     *)
(*                                                                         *)
(* The adapter takes a command apart at ; && and || and then at |: it is   *)
(* the sequence of the commands it chains, each a pipeline of stages.  Of  *)
(* the text of a stage only what it begins with, what it shows and the     *)
(* paths it shows count for the adapter; the shell may start several       *)
(* programs from it.  Of a tool's name only the words it contains count.   *)
(* Separators within quotes are left out.                                  *)
(***************************************************************************)
EXTENDS CodexPatch

CONSTANTS
    Says,        \* tool -> the words in its name that the adapter looks for
    ToolInputs   \* the calls that may be judged

(* runner: pytest, npm test and the like; module_runner: the same started  *)
(* with python -m; mutator: a command known to change files.               *)
Programs == {"runner", "module_runner", "find", "reader", "git_read", "git_other", "echo",
             "interpreter", "mutator", "unknown"}

(* dynamic: a variable or a substitution; evaluation: eval, exec, source,  *)
(* iex, or a leading . or &; wildcard: a deletion or truncation with * or  *)
(* ?; option: -delete, -exec or -ok; output: any other argument by which a *)
(* program that reads or tests is made to write (git diff --output, git    *)
(* branch -D, tree -o, find -fprint, pytest --junitxml).                   *)
Marks == {"dynamic", "evaluation", "redirect", "wildcard", "option", "output"}

(* What a program can do to files, whatever the adapter makes of its text. *)
(* What tests do is not counted, nor is cd.                                *)
CanWrite(r) ==
    \/ r.marks \cap {"dynamic", "evaluation", "redirect", "output"} # {}
    \/ r.program = "find" /\ "option" \in r.marks
    \/ r.program \in {"git_other", "interpreter", "mutator", "unknown"}

(* A program the shell starts, with the files it writes.                   *)
Command ==
    {r \in [program : Programs, marks : SUBSET Marks, writes : SUBSET Paths] :
        r.writes # {} => CanWrite(r)}

(* program: what its text begins with; runs: what the shell starts from it.*)
(* That are several programs if the text has a newline, a single &, <( or  *)
(* a script block, and another one than the text seems to begin with for   *)
(* pytest-x.                                                               *)
Stage ==
    {s \in [program : Programs, marks : SUBSET Marks, paths : SUBSET Paths,
            runs : (SUBSET Command) \ {{}}] :
        /\ \A r \in s.runs : r.marks \subseteq s.marks
        /\ \A m \in s.marks \ {"wildcard"} : \E r \in s.runs : m \in r.marks}

(* commands and op: of a shell tool; op is what rules may name of the text.*)
(* named: the first path among the arguments of another tool.              *)
ToolInput == [tool : Tools, payload : Fields, named : Optional(Paths),
              commands : Seq(Seq(Stage)), op : Optional(Verbs)]

NameWords == {"patch", "shell", "write", "delete", "read", "run"}

-------------------------------------------------------------------------------
(* is_opaque_destructive_command.                                          *)

(* Mutant: test runners are passed before the text is searched.            *)
BugOpaqueStage(s) ==
    /\ s.program \notin {"runner", "module_runner"}
    /\ \/ s.marks \cap {"dynamic", "evaluation", "redirect", "wildcard"} # {}
       \/ s.program = "find" /\ "option" \in s.marks
       \/ s.program \in {"git_other", "interpreter", "mutator", "unknown"}

OpaqueStage(s) ==
    \/ s.marks \cap {"dynamic", "evaluation", "redirect", "wildcard"} # {}
    \/ s.program = "find" /\ "option" \in s.marks
    \/ s.program \in {"git_other", "interpreter", "mutator", "unknown"}

(* In a pipeline of several stages no stage may be an interpreter, not     *)
(* even to run tests.                                                      *)
OpaqueCommand(stages) ==
    \E n \in DOMAIN stages :
        \/ OpaqueStage(stages[n])
        \/ Len(stages) > 1 /\ stages[n].program \in {"interpreter", "module_runner"}

IsOpaque(commands) == \E n \in DOMAIN commands : OpaqueCommand(commands[n])

ParseCommandPaths(commands) == UNION {s.paths : s \in Range(FlattenSeq(commands))}

-------------------------------------------------------------------------------
(* to_action: the words in a tool's name decide, patch before shell.       *)

IsPatchTool(t) == "patch" \in Says[t]
IsShellTool(t) == ~IsPatchTool(t) /\ "shell" \in Says[t]

(* A patch without paths and operations.                                   *)
EmptyPatch(x) ==
    [kind |-> "FILE_WRITE", target |-> "filesystem", tool |-> x.tool, paths |-> {},
     op |-> "apply_patch", payload |-> x.payload, context |-> NoFields]

CommandAction(x) ==
    LET paths == ParseCommandPaths(x.commands)
    IN  [kind |-> "COMMAND_EXEC", target |-> IF paths = {} THEN "command" ELSE "filesystem",
         tool |-> x.tool, paths |-> paths, op |-> x.op, payload |-> x.payload,
         context |-> NoFields]

KindOf(t) ==
    IF "write" \in Says[t] THEN "FILE_WRITE"
    ELSE IF "delete" \in Says[t] THEN "FILE_DELETE"
    ELSE IF "read" \in Says[t] THEN "FILE_READ"
    ELSE IF "run" \in Says[t] THEN "COMMAND_EXEC"
    ELSE "TOOL_CALL"

OtherAction(x) ==
    [kind |-> KindOf(x.tool),
     target |-> IF KindOf(x.tool) \in {"FILE_WRITE", "FILE_DELETE", "FILE_READ"}
                THEN "filesystem" ELSE None,
     tool |-> x.tool, paths |-> {x.named} \ {None}, op |-> None, payload |-> x.payload,
     context |-> NoFields]

ToAction(x) ==
    IF IsPatchTool(x.tool) THEN EmptyPatch(x)
    ELSE IF IsShellTool(x.tool) THEN CommandAction(x)
    ELSE OtherAction(x)

-------------------------------------------------------------------------------
ASSUME ToolAssumption ==
    /\ Says \in [Tools -> SUBSET NameWords]
    /\ ToolInputs \subseteq ToolInput
    /\ \A x \in ToolInputs : IsPatchTool(x.tool) => x.named = None
    /\ {ToAction(x) : x \in ToolInputs} \subseteq Actions

(* What the calls do.                                                      *)

(* The text of the stage s does not show that the program r writes: there  *)
(* is nothing in it to see, and either s begins with another program or r  *)
(* is one that reads and is made to write by an argument.                  *)
Hidden(s, r) ==
    /\ r.marks \cap {"dynamic", "evaluation", "redirect"} = {}
    /\ r.program # s.program \/ "output" \in r.marks

WritesOf(s) == UNION {r.writes : r \in {q \in s.runs : ~Hidden(s, q)}}

Stages(x) == UNION {Range(x.commands[n]) : n \in DOMAIN x.commands}

(* The files the call x may write: any, through a patch without paths; what*)
(* its programs write, unless they are hidden; and of another tool the one *)
(* it is given to write.                                                   *)
MayWrite(x) ==
    IF IsPatchTool(x.tool) THEN Paths
    ELSE IF IsShellTool(x.tool) THEN UNION {WritesOf(s) : s \in Stages(x)}
    ELSE IF "write" \in Says[x.tool] THEN {x.named} \ {None} ELSE {}

(* A call that cannot write, as far as what its stages begin with goes, and*)
(* in which no word of a deletion stands before a wildcard.  Tests that an *)
(* interpreter runs in a pipeline are not counted: it may read its program *)
(* from the pipe.                                                          *)
Harmless(x) ==
    /\ ~IsPatchTool(x.tool)
    /\ IsShellTool(x.tool) =>
          \A n \in DOMAIN x.commands : \A s \in Range(x.commands[n]) :
              /\ "wildcard" \notin s.marks
              /\ \A r \in s.runs : r.program = s.program /\ ~CanWrite(r)
              /\ Len(x.commands[n]) > 1 => s.program # "module_runner"

-------------------------------------------------------------------------------
(* handle_pre_tool_use: with a HARD rule about files in force, what cannot *)
(* be analysed is denied; everything else is SpecGuard's to decide.        *)

HardFs ==
    {n \in DOMAIN ledger :
        /\ ledger[n].status = "ACTIVE" /\ ledger[n].strength = "HARD"
        /\ ledger[n].scope.target \in FsAliases \/ ledger[n].scope.paths # {}}

Unreadable(x) == IsPatchTool(x.tool) \/ (IsShellTool(x.tool) /\ IsOpaque(x.commands))

Answer(x, decided) == IF HardFs # {} /\ Unreadable(x) THEN "BLOCK" ELSE decided

ReadAs == [a \in Actions |-> {x \in ToolInputs : ToAction(x) = a}]

(* A call that writes a path which a HARD rule protects is denied, whether *)
(* the writing is done by a tool, by a command in the middle of a chain or *)
(* pipeline, or cannot be located at all; and a call that cannot write is  *)
(* denied by SpecGuard's rules alone (handle_pre_tool_use over to_action   *)
(* and is_opaque_destructive_command).  The exception are programs hidden  *)
(* in a stage: rm in pytest, a newline and rm f; touch in ls & touch f; git*)
(* in git diff --output=f.                                                 *)
WritesStopped ==
    Done /\ call.kind = "pre" =>
        \A x \in ReadAs[call.action] :
            LET answer == Answer(x, result.kind)
            IN  /\ \A n \in DOMAIN ledger, p \in MayWrite(x) :
                       ProtectsFromWrites(ledger[n], p) => answer = "BLOCK"
                /\ Harmless(x) => answer = result.kind
===============================================================================
