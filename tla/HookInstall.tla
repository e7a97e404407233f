----------------------------- MODULE HookInstall -----------------------------
(***************************************************************************)
(* The commands that put the hooks of AgentContract into a project's       *)
(* .codex/hooks.json and take them out again (install_hooks and            *)
(* uninstall_hooks of integrations/codex/cli.py).  Several may run at      *)
(* once and be killed, while the user edits the file; nothing locks it.    *)
(***************************************************************************)
EXTENDS SequencesExt, Naturals

CONSTANTS
    Processes,        \* those that run commands
    LifecycleEvents,  \* LIFECYCLE_EVENTS, each of which gets a hook
    OtherEvents,      \* other event names a file may hold
    Foreign,          \* handlers that are not of AgentContract
    AC,               \* a handler whose command names AgentContract
    UserFiles,        \* what the user may put in the file's place
    MaxEdits          \* bound on the user's edits

VARIABLES
    file,     \* hooks.json
    pc,       \* where each process is
    cmd,      \* the command it runs
    seen,     \* the file as it was when read
    outcome,  \* how its last command ended; "none" while it runs, or if killed
    edits     \* the number of edits so far

vars == <<file, pc, cmd, seen, outcome, edits>>

Handlers == Foreign \cup {AC}
Events == LifecycleEvents \cup OtherEvents

(* An entry of an event is a group with a list of handlers, or a handler   *)
(* alone; extra: the group has keys other than hooks and matcher.          *)
Group(hs, x) == [grouped |-> TRUE, handlers |-> hs, extra |-> x]
Alone(h) == [grouped |-> FALSE, handlers |-> <<h>>, extra |-> FALSE]

Entry == [grouped : {TRUE}, handlers : Seq(Handlers), extra : BOOLEAN] \cup {Alone(h) : h \in Handlers}

(* The map from events to entries is the file, or the value of its key     *)
(* hooks; only then may there be other keys (extra) and other events.      *)
Content(w, x, events) == [is |-> "readable", wrapped |-> w, extra |-> x, events |-> events]

Missing == [is |-> "missing"]
Broken == [is |-> "broken"]   \* not valid JSON, or of another structure

IsReadable(c) == c.is = "readable"

IsValid(c) ==
    /\ c = Content(c.wrapped, c.extra, c.events)
    /\ c.wrapped \in BOOLEAN /\ c.extra \in BOOLEAN
    /\ DOMAIN c.events \subseteq Events /\ c.events \in [DOMAIN c.events -> Seq(Entry)]
    /\ ~c.wrapped => DOMAIN c.events \subseteq LifecycleEvents /\ ~c.extra

EntriesOf(c, e) == IF e \in DOMAIN c.events THEN c.events[e] ELSE <<>>

(* Where the groups among the entries call AgentContract.                  *)
HookPlaces(entries) ==
    {x \in UNION {{n} \X DOMAIN entries[n].handlers : n \in DOMAIN entries} :
        entries[x[1]].grouped /\ entries[x[1]].handlers[x[2]] = AC}

CallsOnce(c) == \A e \in Events : \A x, y \in HookPlaces(EntriesOf(c, e)) : x = y

(* The user hooks AgentContract by hand at most once.                      *)
ASSUME FilesAssumption ==
    /\ AC \notin Foreign
    /\ \A c \in UserFiles : c \in {Missing, Broken} \/ (IsValid(c) /\ CallsOnce(c))
    /\ MaxEdits \in Nat

-------------------------------------------------------------------------------
(* install_hooks                                                           *)

(* An AgentContract handler alone is not looked for.                       *)
HasHook(entries) == \E n \in DOMAIN entries : entries[n].grouped /\ AC \in Range(entries[n].handlers)

Template(e) == Group(<<AC>>, FALSE)

(* Mutant: an event that is in the file counts as one that has its hook.   *)
BugMerged(c) ==
    [e \in DOMAIN c.events \cup LifecycleEvents |->
        IF e \in DOMAIN c.events THEN c.events[e] ELSE <<Template(e)>>]

(* Mutant: the hooks are added without looking whether they are there.     *)
BugMergedAgain(c) ==
    [e \in DOMAIN c.events \cup LifecycleEvents |->
        IF e \in LifecycleEvents THEN Append(EntriesOf(c, e), Template(e)) ELSE c.events[e]]

Merged(c) ==
    [e \in DOMAIN c.events \cup LifecycleEvents |->
        IF e \in LifecycleEvents /\ ~HasHook(EntriesOf(c, e))
        THEN Append(EntriesOf(c, e), Template(e)) ELSE c.events[e]]

HooksTemplate == Content(TRUE, FALSE, [e \in LifecycleEvents |-> <<Template(e)>>])

(* Of {} an object with the key hooks is made.                             *)
Installed(c) ==
    IF c = Missing THEN HooksTemplate
    ELSE Content(c.wrapped \/ DOMAIN c.events = {}, c.extra, Merged(c))

-------------------------------------------------------------------------------
(* uninstall_hooks                                                         *)

(* What of the sequence s is in S.                                         *)
Keep(s, S) == FlattenSeq([n \in DOMAIN s |-> IF s[n] \in S THEN <<s[n]>> ELSE <<>>])

(* Mutant: a group that holds a handler of AgentContract is dropped.       *)
BugRemaining(entries) ==
    Keep(entries, {entry \in Range(entries) : AC \notin Range(entry.handlers)})

(* Without AgentContract's handlers, and without the entries that have no  *)
(* handler, unless they are groups with other keys.                        *)
Remaining(entries) ==
    LET stripped == [n \in DOMAIN entries |-> [entries[n] EXCEPT !.handlers = Keep(@, Foreign)]]
    IN  Keep(stripped, {entry \in Range(stripped) : entry.handlers # <<>> \/ entry.extra})

Holds(entries) == \E n \in DOMAIN entries : AC \in Range(entries[n].handlers)

(* Mutant: only the events that are hooked today are cleaned.              *)
BugUninstalled(c) ==
    [c EXCEPT !.events = [e \in DOMAIN c.events |->
        IF e \in LifecycleEvents THEN Remaining(c.events[e]) ELSE c.events[e]]]

(* An event that had a handler of AgentContract and nothing else goes; a   *)
(* file without events and without other keys is deleted.                  *)
Uninstalled(c) ==
    LET left == {e \in DOMAIN c.events : Holds(c.events[e]) => Remaining(c.events[e]) # <<>>}
    IN  IF \A e \in DOMAIN c.events : ~Holds(c.events[e]) THEN c
        ELSE IF left = {} /\ ~c.extra THEN Missing
        ELSE Content(c.wrapped, c.extra, [e \in left |-> Remaining(c.events[e])])

-------------------------------------------------------------------------------
After(command, c) == IF command = "install" THEN Installed(c) ELSE Uninstalled(c)

Init ==
    /\ file \in UserFiles
    /\ pc = [p \in Processes |-> "idle"]
    /\ cmd = [p \in Processes |-> "install"]
    /\ seen = [p \in Processes |-> Missing]
    /\ outcome = [p \in Processes |-> "none"]
    /\ edits = 0

GoTo(p, l) == pc' = [pc EXCEPT ![p] = l]

End(p, o) == GoTo(p, "idle") /\ outcome' = [outcome EXCEPT ![p] = o]

(* A command looks whether there is a file ...                             *)
Start(p, command) ==
    /\ pc[p] = "idle"
    /\ cmd' = [cmd EXCEPT ![p] = command]
    /\ seen' = [seen EXCEPT ![p] = Missing]
    /\ IF file = Missing /\ command = "uninstall" THEN End(p, "ok")
       ELSE /\ GoTo(p, IF file = Missing THEN "write" ELSE "read")
            /\ outcome' = [outcome EXCEPT ![p] = "none"]
    /\ UNCHANGED <<file, edits>>

(* ... then reads it; one that is gone by now is refused like a broken     *)
(* one, and one that needs no change is left alone.                        *)
Read(p) ==
    /\ pc[p] = "read"
    /\ seen' = [seen EXCEPT ![p] = file]
    /\ IF ~IsReadable(file) THEN End(p, "refused")
       ELSE IF After(cmd[p], file) = file THEN End(p, "ok")
       ELSE GoTo(p, "write") /\ UNCHANGED outcome
    /\ UNCHANGED <<file, cmd, edits>>

(* os.replace, or unlink.                                                  *)
Write(p) ==
    /\ pc[p] = "write"
    /\ file' = After(cmd[p], seen[p])
    /\ End(p, "ok")
    /\ UNCHANGED <<cmd, seen, edits>>

Kill(p) ==
    /\ pc[p] # "idle"
    /\ GoTo(p, "idle")
    /\ UNCHANGED <<file, cmd, seen, outcome, edits>>

(* The user puts another file in its place, ...                            *)
Edit ==
    /\ edits < MaxEdits
    /\ file' \in UserFiles \ {file}
    /\ edits' = edits + 1
    /\ UNCHANGED <<pc, cmd, seen, outcome>>

(* ... or adds a handler to a group.                                       *)
AddHandler ==
    /\ edits < MaxEdits
    /\ IsReadable(file)
    /\ \E e \in DOMAIN file.events, h \in Foreign : \E n \in DOMAIN file.events[e] :
        /\ file.events[e][n].grouped
        /\ file' = Content(file.wrapped, file.extra,
                           [file.events EXCEPT ![e][n].handlers = Append(@, h)])
    /\ edits' = edits + 1
    /\ UNCHANGED <<pc, cmd, seen, outcome>>

Next ==
    \/ \E p \in Processes, command \in {"install", "uninstall"} : Start(p, command)
    \/ \E p \in Processes : Read(p) \/ Write(p) \/ Kill(p)
    \/ Edit
    \/ AddHandler

Spec == Init /\ [][Next]_vars

-------------------------------------------------------------------------------
(* The types; what is in the file passes _validate_hooks_json_structure.   *)
TypeOK ==
    /\ file \in {Missing, Broken} \/ IsValid(file)
    /\ pc \in [Processes -> {"idle", "read", "write"}]
    /\ cmd \in [Processes -> {"install", "uninstall"}]
    /\ DOMAIN seen = Processes
    /\ \A p \in Processes : seen[p] \in {Missing, Broken} \/ IsValid(seen[p])
    /\ outcome \in [Processes -> {"none", "ok", "refused"}]
    /\ edits \in 0..MaxEdits

(* However many commands ran at once or were repeated, were killed, or met *)
(* edits of the user: the file is one that both commands and Codex accept, *)
(* and no event in it calls AgentContract twice (install_hooks).           *)
HooksOnce ==
    /\ TypeOK
    /\ IsReadable(file) => CallsOnce(file)

(* What the user put there for e, in order: the handlers of each entry and, *)
(* after them, that it is a group with other keys.                         *)
UserPart(entries) ==
    FlattenSeq([n \in DOMAIN entries |->
        Keep(entries[n].handlers, Foreign) \o (IF entries[n].extra THEN <<"keys">> ELSE <<>>)])
UsersEntries(c, e) == IF IsReadable(c) THEN UserPart(EntriesOf(c, e)) ELSE <<>>
HasExtra(c) == IsReadable(c) /\ c.extra

(* A command takes nothing of the user's out of a file that nobody changed *)
(* since the command read it, and does not reorder it (install_hooks and   *)
(* uninstall_hooks: "preserved foreign configuration").                    *)
ForeignKept ==
    [][\A p \in Processes : pc[p] = "write" /\ pc'[p] = "idle" /\ file = seen[p] =>
          /\ \A e \in Events : UsersEntries(file', e) = UsersEntries(file, e)
          /\ HasExtra(file') = HasExtra(file)]_vars

(* When a command succeeds, the file has all the hooks, or none at all,    *)
(* also when another command or the user wrote in between (the messages of *)
(* install_hooks and uninstall_hooks say so).                              *)
SuccessIsTrue ==
    [][\A p \in Processes : pc'[p] = "idle" /\ outcome'[p] = "ok" /\ pc[p] # "idle" =>
          IF cmd'[p] = "install"
          THEN IsReadable(file') /\ \A e \in LifecycleEvents : HasHook(EntriesOf(file', e))
          ELSE IsReadable(file') => \A e \in DOMAIN file'.events : ~Holds(file'.events[e])]_vars
===============================================================================
