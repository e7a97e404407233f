------------------------------- MODULE SpecGuard -------------------------------
(***************************************************************************)
(* The decision engine of agentcontract (guard/engine.py): whether an      *)
(* action, a patch of several file operations, or the observed effects of  *)
(* an action respect the constraints of a ledger.                          *)
(*                                                                         *)
(* A call evaluates one or more actions (subs); for each it considers the  *)
(* constraints in ledger order and then combines the decisions.  The       *)
(* comparison of paths with patterns is the constant Covers (normalised    *)
(* paths, directory prefixes and globs); names and values are compared     *)
(* after normalisation.  Reasons and trace pointers are left out.          *)
(***************************************************************************)
EXTENDS Integers, Sequences

CONSTANTS
    Paths, Patterns,
    Covers,        \* the pairs <<pattern, path>> that match
    Types,         \* target types
    Tools,
    Verbs,         \* what scope.actions and action.operation may name
    WritingText, DeletingText,  \* the operations whose text tells of a write, a deletion
    Keys, Values,  \* of selectors, payloads and contexts
    Text,          \* a payload that is not a mapping
    None,          \* a missing optional field
    Ledgers,       \* the lists of constraints considered
    Actions,       \* the actions that may be evaluated
    Patches,       \* the patches PreToolUse may see
    Observations   \* the observed effects that may be reported

Kinds == {"TOOL_CALL", "FILE_READ", "FILE_WRITE", "FILE_DELETE", "COMMAND_EXEC",
          "NETWORK_REQUEST", "STATE_CHANGE", "GENERIC"}
FsAliases == {"file", "dir", "folder", "filesystem"}
Optional(S) == S \cup {None}

Fields == [Keys -> Optional(Values)]
NoFields == [k \in Keys |-> None]
Payload == Fields \cup {None, Text}

Action ==
    [kind : Kinds, target : Optional(Types), tool : Optional(Tools), paths : SUBSET Paths,
     op : Optional(Verbs), payload : Payload, context : Fields]

Scope ==
    [target : Optional(Types), paths : SUBSET Patterns, tools : SUBSET Tools,
     actions : SUBSET Verbs, selectors : Fields]

Constraint ==
    [scope : Scope, compliance : Optional(Scope),
     effect : {"DENY", "REQUIRE", "PREFER"}, strength : {"HARD", "SOFT", "ASSUMPTION"},
     status : {"ACTIVE", "CONFLICTED", "REVOKED", "SUPERSEDED"}]

Observation ==
    [kind : Optional(Kinds), target : Optional(Types), tool : Optional(Tools), context : Fields,
     changed : SUBSET Paths, accessed : SUBSET Paths, output : Payload]

PatchOp == [kind : {"FILE_WRITE", "FILE_DELETE"}, path : Paths]
Patch == [tool : Tools, payload : Payload, ops : Seq(PatchOp)]

(* An action that names a tool is a tool call unless it says otherwise.    *)
Synced(a) ==
    IF a.tool # None /\ a.kind = "GENERIC" THEN [a EXCEPT !.kind = "TOOL_CALL"] ELSE a

ASSUME GuardAssumption ==
    /\ {"apply_patch", "read", "write"} \subseteq Verbs /\ "filesystem" \in Types
    /\ None \notin Paths /\ None \notin Types \cup Tools \cup Verbs \cup Values \cup Kinds
    /\ None \notin Scope \cup Fields \cup {Text} /\ Text \notin Fields
    /\ Actions \subseteq {a \in Action : Synced(a) = a}
    /\ Observations \subseteq Observation
    /\ \A p \in Patches : p \in Patch /\ p.ops # <<>>
    /\ Ledgers \subseteq Seq({c \in Constraint : c.effect # "DENY" => c.compliance # None})

VARIABLES
    ledger,    \* the constraints, in ledger order
    call,      \* the call being served: what it is about
    subs,      \* the actions it evaluates
    cur,       \* index of the action being evaluated
    nxt,       \* index of the constraint considered next
    decision,  \* GuardDecision of subs[cur] so far
    result     \* the decisions of the earlier actions combined

vars == <<ledger, call, subs, cur, nxt, decision, result>>

--------------------------------------------------------------------------------
(* match_scope: a conjunction of dimensions, each of which an empty field  *)
(* leaves open.                                                            *)

TargetMatches(sc, a) ==
    sc.target = None \/ sc.target = a.target \/ {sc.target, a.target} \subseteq FsAliases

ToolMatches(sc, a) == sc.tools = {} \/ a.tool \in sc.tools

KindVerbs ==
    [k \in Kinds |->
        CASE k = "FILE_WRITE"   -> {"file_write", "write", "modify", "update", "create", "edit", "save"}
          [] k = "STATE_CHANGE" -> {"state_change", "write", "modify", "update", "create", "edit", "save"}
          [] k = "FILE_READ"    -> {"file_read", "read", "view", "get", "open"}
          [] k = "FILE_DELETE"  -> {"file_delete", "delete", "remove", "rm", "unlink"}
          [] k = "COMMAND_EXEC" -> {"command_exec", "execute", "exec", "run", "bash", "sh", "cmd"}
          [] k = "TOOL_CALL"    -> {"tool_call", "call", "invoke", "execute"}
          [] k = "NETWORK_REQUEST" -> {"network_request"}
          [] k = "GENERIC"      -> {"generic"}]

(* A command on files counts as a write or a deletion if its text says so. *)
CommandVerbs(a) ==
    IF a.kind = "COMMAND_EXEC" /\ (a.target = "filesystem" \/ a.paths # {})
    THEN (IF a.op \in WritingText THEN {"file_write", "write", "modify", "update"} ELSE {})
         \cup (IF a.op \in DeletingText THEN {"file_delete", "delete", "remove"} ELSE {})
    ELSE {}

VerbsOf(a) == KindVerbs[a.kind] \cup CommandVerbs(a) \cup ({a.op} \ {None})

ActionMatches(sc, a) == sc.actions = {} \/ sc.actions \cap VerbsOf(a) # {}

(* One path of the action is enough.                                       *)
PathMatches(sc, a) == sc.paths = {} \/ \E q \in sc.paths, p \in a.paths : <<q, p>> \in Covers

FieldOf(a, k) ==
    IF a.payload \in Fields /\ a.payload[k] # None THEN a.payload[k] ELSE a.context[k]

SelectorsMatch(sc, a) == \A k \in Keys : sc.selectors[k] \in {None, FieldOf(a, k)}

MatchScope(sc, a) ==
    /\ TargetMatches(sc, a)
    /\ ToolMatches(sc, a)
    /\ ActionMatches(sc, a)
    /\ PathMatches(sc, a)
    /\ SelectorsMatch(sc, a)

--------------------------------------------------------------------------------
(* One round of the loop of evaluate.                                      *)

NoDecision == [kind |-> "ALLOW", matched |-> {}, violating |-> {}]

Raised(old, new) == IF new = "BLOCK" \/ old = "ALLOW" THEN new ELSE old

Complies(c, a) == c.compliance # None /\ MatchScope(c.compliance, a)

(* Mutant: a warning replaces whatever was decided before.                 *)
BugConsidered(d, c, n, a) ==
    IF ~(c.status = "ACTIVE" /\ MatchScope(c.scope, a) /\ (c.effect = "DENY" \/ ~Complies(c, a)))
    THEN d
    ELSE [kind |-> IF c.strength = "HARD" /\ c.effect # "PREFER" THEN "BLOCK" ELSE "WARN",
          matched |-> d.matched \cup {n}, violating |-> d.violating \cup {n}]

Considered(d, c, n, a) ==
    IF ~(c.status = "ACTIVE" /\ MatchScope(c.scope, a)) THEN d
    ELSE IF c.effect # "DENY" /\ Complies(c, a)
    THEN [kind |-> d.kind, matched |-> d.matched \cup {n}, violating |-> d.violating]
    ELSE [kind |-> Raised(d.kind, IF c.strength = "HARD" /\ c.effect # "PREFER"
                                  THEN "BLOCK" ELSE "WARN"),
          matched |-> d.matched \cup {n}, violating |-> d.violating \cup {n}]

(* Mutant: the last decision that is not ALLOW wins.                       *)
BugAggregated(r, d) ==
    [kind |-> IF d.kind = "ALLOW" THEN r.kind ELSE d.kind,
     matched |-> r.matched \cup d.matched, violating |-> r.violating \cup d.violating]

(* _aggregate_decisions: one more decision joins the combined one.         *)
Aggregated(r, d) ==
    [kind |-> IF d.kind = "ALLOW" THEN r.kind ELSE Raised(r.kind, d.kind),
     matched |-> r.matched \cup d.matched, violating |-> r.violating \cup d.violating]

--------------------------------------------------------------------------------
(* The actions derived from a patch and from an observation.               *)

Or(x, y) == IF x # None THEN x ELSE y

(* One file operation of a patch (handle_pre_tool_use).                    *)
SubAction(p, n) ==
    [kind |-> p.ops[n].kind, target |-> "filesystem", tool |-> p.tool,
     paths |-> {p.ops[n].path}, op |-> "apply_patch", payload |-> p.payload,
     context |-> NoFields]

(* The whole patch as one action (to_action): a write, if it writes at all. *)
PatchAction(p) ==
    [kind |-> IF \E n \in DOMAIN p.ops : p.ops[n].kind = "FILE_WRITE"
              THEN "FILE_WRITE" ELSE "FILE_DELETE",
     target |-> "filesystem", tool |-> p.tool,
     paths |-> {p.ops[n].path : n \in DOMAIN p.ops}, op |-> "apply_patch",
     payload |-> p.payload, context |-> NoFields]

MergedContext(a, obs) ==
    [k \in Keys |-> IF obs.context[k] # None THEN obs.context[k] ELSE a.context[k]]

EffectAction(a, obs, kind, paths, op) ==
    [kind |-> kind, target |-> Or(Or(obs.target, a.target), "filesystem"),
     tool |-> Or(obs.tool, a.tool), paths |-> paths, op |-> op,
     payload |-> Or(obs.output, a.payload), context |-> MergedContext(a, obs)]

(* Mutant: changed paths are checked under the kind of the action.         *)
BugWriteAction(a, obs) == EffectAction(a, obs, Or(obs.kind, a.kind), obs.changed, a.op)

WriteAction(a, obs) == EffectAction(a, obs, "FILE_WRITE", obs.changed, "write")

ReadAction(a, obs) == EffectAction(a, obs, "FILE_READ", obs.accessed, "read")

GeneralAction(a, obs) ==
    LET observed == obs.changed \cup obs.accessed
        paths == IF observed = {} THEN a.paths ELSE observed
    IN  Synced([EffectAction(a, obs, Or(obs.kind, a.kind), paths, a.op)
                    EXCEPT !.target = Or(obs.target, a.target)])

(* Mutant: the general effect is only checked when no path was observed.   *)
BugPostActions(a, obs) ==
    IF obs.changed = {} /\ obs.accessed = {} THEN <<GeneralAction(a, obs)>>
    ELSE (IF obs.changed # {} THEN <<WriteAction(a, obs)>> ELSE <<>>)
         \o (IF obs.accessed # {} THEN <<ReadAction(a, obs)>> ELSE <<>>)

PostActions(a, obs) ==
    (IF obs.changed # {} THEN <<WriteAction(a, obs)>> ELSE <<>>)
    \o (IF obs.accessed # {} THEN <<ReadAction(a, obs)>> ELSE <<>>)
    \o <<GeneralAction(a, obs)>>

(* evaluate_observation without an action: what the observation tells.     *)
ObservedAction(obs) ==
    Synced([kind |-> Or(obs.kind, "GENERIC"), target |-> obs.target, tool |-> obs.tool,
            paths |-> {}, op |-> None, payload |-> obs.output, context |-> obs.context])

--------------------------------------------------------------------------------
Idle == [kind |-> "idle"]

Init ==
    /\ ledger \in Ledgers
    /\ call = Idle
    /\ subs = <<>>
    /\ cur = 1 /\ nxt = 1
    /\ decision = NoDecision /\ result = NoDecision

Done == cur > Len(subs)

Begin(what, actions) ==
    /\ call = Idle
    /\ call' = what
    /\ subs' = actions
    /\ cur' = 1 /\ nxt' = 1
    /\ decision' = NoDecision /\ result' = NoDecision
    /\ UNCHANGED ledger

Evaluate(a) == Begin([kind |-> "pre", action |-> a], <<a>>)

EvaluatePatch(p) ==
    Begin([kind |-> "patch", patch |-> p], [n \in DOMAIN p.ops |-> SubAction(p, n)])

EvaluatePostAction(a, obs) ==
    Begin([kind |-> "post", obs |-> obs, action |-> a], PostActions(a, obs))

EvaluateObservation(obs) == EvaluatePostAction(ObservedAction(obs), obs)

(* The loop of evaluate reaches the next constraint.                       *)
ConsiderConstraint ==
    /\ ~Done /\ nxt <= Len(ledger)
    /\ decision' = Considered(decision, ledger[nxt], nxt, subs[cur])
    /\ nxt' = nxt + 1
    /\ UNCHANGED <<ledger, call, subs, cur, result>>

(* The loop is over: its decision joins those of the earlier actions.      *)
AddDecision ==
    /\ ~Done /\ nxt > Len(ledger)
    /\ result' = Aggregated(result, decision)
    /\ decision' = NoDecision
    /\ cur' = cur + 1 /\ nxt' = 1
    /\ UNCHANGED <<ledger, call, subs>>

Return ==
    /\ Done /\ call # Idle
    /\ call' = Idle /\ subs' = <<>>
    /\ cur' = 1 /\ nxt' = 1
    /\ decision' = NoDecision /\ result' = NoDecision
    /\ UNCHANGED ledger

Next ==
    \/ \E a \in Actions : Evaluate(a)
    \/ \E p \in Patches : EvaluatePatch(p)
    \/ \E a \in Actions, obs \in Observations : EvaluatePostAction(a, obs)
    \/ \E obs \in Observations : EvaluateObservation(obs)
    \/ ConsiderConstraint
    \/ AddDecision
    \/ Return

Spec == Init /\ [][Next]_vars

--------------------------------------------------------------------------------
DecisionType ==
    [kind : {"ALLOW", "WARN", "BLOCK"},
     matched : SUBSET (1..Len(ledger)), violating : SUBSET (1..Len(ledger))]

(* The state of a call has its type.                                       *)
TypeOK ==
    /\ ledger \in Seq(Constraint)
    /\ subs \in Seq(Action)
    /\ cur \in 1..(Len(subs) + 1)
    /\ nxt \in 1..(Len(ledger) + 1)
    /\ decision \in DecisionType /\ result \in DecisionType

(* What the rules mean, after the docstring of evaluate.                   *)
Applies(c, a) == c.status = "ACTIVE" /\ MatchScope(c.scope, a)

Broken(c, a) == Applies(c, a) /\ (c.effect = "DENY" \/ ~MatchScope(c.compliance, a))

Binding(c) == c.strength = "HARD" /\ c.effect # "PREFER"

Verdict(l, S) ==
    IF \E n \in DOMAIN l, a \in S : Broken(l[n], a) /\ Binding(l[n]) THEN "BLOCK"
    ELSE IF \E n \in DOMAIN l, a \in S : Broken(l[n], a) THEN "WARN"
    ELSE "ALLOW"

(* d is at least as severe as e.                                           *)
AtLeast(d, e) == d = "BLOCK" \/ e = "ALLOW" \/ d = e

(* The answer of a call blocks exactly when one of its actions breaks a    *)
(* binding rule, warns exactly when one breaks another rule and allows     *)
(* otherwise, whatever the order of rules and actions; it names exactly    *)
(* the rules that apply and those that are broken.                         *)
DecisionExact ==
    Done /\ call # Idle =>
        LET S == {subs[m] : m \in DOMAIN subs} IN
        /\ result.kind = Verdict(ledger, S)
        /\ result.matched = {n \in DOMAIN ledger : \E a \in S : Applies(ledger[n], a)}
        /\ result.violating = {n \in DOMAIN ledger : \E a \in S : Broken(ledger[n], a)}

(* Judging a patch operation by operation is never weaker than judging it  *)
(* as a whole, as long as it does not mix writes with deletions: a path    *)
(* that meets a REQUIRE rule does not excuse the others.                   *)
SplitStricter ==
    Done /\ call.kind = "patch" =>
        \/ {call.patch.ops[n].kind : n \in DOMAIN call.patch.ops} = {"FILE_WRITE", "FILE_DELETE"}
        \/ AtLeast(result.kind, Verdict(ledger, {PatchAction(call.patch)}))

(* An observation that says nothing that was not planned.                  *)
AsPlanned(a, obs) ==
    /\ obs.kind \in {None, a.kind} /\ obs.tool \in {None, a.tool}
    /\ obs.target \in {None, a.target} /\ obs.output \in {None, a.payload}
    /\ obs.context \in {NoFields, a.context}
    /\ obs.changed \cup obs.accessed \in {{}, a.paths}

(* An action that went as planned is judged afterwards at least as hard    *)
(* as it was before it ran.                                                *)
PostCoversPre ==
    Done /\ call.kind = "post" /\ AsPlanned(call.action, call.obs) =>
        AtLeast(result.kind, Verdict(ledger, {call.action}))

(* A prohibition to write the path p, whoever does it.                     *)
ProtectsFromWrites(c, p) ==
    /\ c.status = "ACTIVE" /\ c.effect = "DENY" /\ c.strength = "HARD"
    /\ c.scope.target = None /\ c.scope.tools = {} /\ c.scope.selectors = NoFields
    /\ c.scope.actions = {} \/ "write" \in c.scope.actions
    /\ \E q \in c.scope.paths : <<q, p>> \in Covers

(* If a protected path was changed, the check after the action blocks,     *)
(* whatever else was observed and whatever the action was declared to be.  *)
ChangesBlocked ==
    Done /\ call.kind = "post" =>
        \A n \in DOMAIN ledger, p \in call.obs.changed :
            ProtectsFromWrites(ledger[n], p) => result.kind = "BLOCK" /\ n \in result.violating
================================================================================
