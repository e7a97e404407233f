------------------------------ MODULE SessionTx ------------------------------
(***************************************************************************)
(* What one Codex lifecycle hook does to a session, as a function of the   *)
(* session it loaded: the bodies of the handle_* functions of              *)
(* integrations/codex/hooks.py between entering and leaving                *)
(* session_transaction.                                                    *)
(*                                                                         *)
(* A session is the processed prompts (meta.json), the constraints in      *)
(* force (ledger.json; hooks only ever add to it), the trace (trace.json)  *)
(* and the last verification report (evidence.json).  Of a constraint the  *)
(* hooks tell apart its body (description and scope, compared as one) and  *)
(* its strength.  Constraint ids are fresh per extraction and not kept.    *)
(***************************************************************************)
EXTENDS Naturals, Sequences, FiniteSets

CONSTANTS
    Sids,           \* session ids the host uses
    Prompts,        \* user prompts
    Actions,        \* tool inputs shown to PreToolUse
    Calls,          \* tool_use ids shown to PostToolUse and claimed at Stop
    Bodies,         \* (description, scope) pairs of constraints
    Extract,        \* prompt -> sequence of constraints extracted from it
    Prohibits,      \* body -> actions a DENY rule with this body matches
    FsBodies,       \* bodies whose scope is about the file system
    OpaqueActions,  \* opaque shell commands and uninspectable patches
    NoArg           \* absence of an argument, a report or a claim

Strength == {"HARD", "SOFT"}
Constraint == [body : Bodies, strength : Strength]

ASSUME HookDataAssumption ==
    /\ Extract \in [Prompts -> Seq(Constraint)]
    /\ Prohibits \in [Bodies -> SUBSET Actions]
    /\ FsBodies \subseteq Bodies
    /\ OpaqueActions \subseteq Actions
    /\ NoArg \notin Prompts \cup Actions \cup Calls
    /\ NoArg \notin [claim : Calls, verified : BOOLEAN]

(* A hook invocation: ok is the outcome a PostToolUse payload reports.     *)
ArgsOf(k) ==
    CASE k = "UserPromptSubmit" -> Prompts
      [] k = "PreToolUse" -> Actions
      [] k = "PostToolUse" -> Calls
      [] k = "Stop" -> Calls \cup {NoArg}
      [] OTHER -> {NoArg}
Hook == {h \in [kind : {"SessionStart", "UserPromptSubmit", "PreToolUse", "PostToolUse", "Stop"},
                sid : Sids, arg : Prompts \cup Actions \cup Calls \cup {NoArg}, ok : BOOLEAN] :
            h.arg \in ArgsOf(h.kind) /\ (h.ok \/ h.kind = "PostToolUse")}

Invocation(k, s, a, ok) == [kind |-> k, sid |-> s, arg |-> a, ok |-> ok]

(* "failed" is the {} a hook answers after an exception.                   *)
Answer == {"none", "ok", "allow", "deny", "failed"}

FailAnswer(h) == IF h.kind = "PreToolUse" THEN "deny" ELSE "failed"

Event == [kind : {"USER_MESSAGE", "GUARD_DECISION", "TOOL_CALL", "TOOL_RESULT"},
          sid : Sids, arg : Prompts \cup Actions \cup Calls, ok : BOOLEAN]
EventOf(k, h, ok) == [kind |-> k, sid |-> h.sid, arg |-> h.arg, ok |-> ok]

Report == [claim : Calls, verified : BOOLEAN]
Session == [meta : SUBSET Prompts, ledger : SUBSET Constraint,
            trace : Seq(Event), report : Report \cup {NoArg}]
EmptySession == [meta |-> {}, ledger |-> {}, trace |-> <<>>, report |-> NoArg]

Recorded(trace, k, call) ==
    \E i \in 1..Len(trace) : trace[i].kind = k /\ trace[i].arg = call
Succeeded(trace, call) ==
    \E i \in 1..Len(trace) : trace[i].kind = "TOOL_RESULT" /\ trace[i].arg = call /\ trace[i].ok


(* u is t with events appended.                                            *)
Extends(t, u) == Len(t) <= Len(u) /\ \A i \in 1..Len(t) : u[i] = t[i]

(* t holds everything s holds.                                             *)
Grown(s, t) == s.meta \subseteq t.meta /\ s.ledger \subseteq t.ledger /\ Extends(s.trace, t.trace)

(* Every call is directly followed by its result; no call has two results. *)
Paired(t) ==
    /\ \A i \in 1..Len(t) : t[i].kind = "TOOL_CALL" =>
          i < Len(t) /\ t[i+1].kind = "TOOL_RESULT" /\ t[i+1].arg = t[i].arg
    /\ \A i, j \in 1..Len(t) :
          t[i].kind = "TOOL_RESULT" /\ t[j].kind = "TOOL_RESULT" /\ t[i].arg = t[j].arg => i = j

(* A report that a tool call succeeded rests on a successful result.       *)
Backed(s) == s.report # NoArg /\ s.report.verified => Succeeded(s.trace, s.report.claim)

-----------------------------------------------------------------------------

Members(cs) == {cs[i] : i \in DOMAIN cs}

(* Mutant of Register: nothing is registered once the ledger is not empty. *)
BugRegister(ledger, cs) == IF ledger = {} THEN Members(cs) ELSE ledger

(* Each extracted constraint in turn is added, unless an active constraint *)
(* has the same description and scope: one of the loaded ledger, or one    *)
(* added just before.                                                      *)
Register(ledger, cs) ==
    ledger \cup {cs[i] : i \in {i \in DOMAIN cs :
                      /\ \A a \in ledger : a.body # cs[i].body
                      /\ \A j \in DOMAIN cs : j < i => cs[j].body # cs[i].body}}

(* The gate verifies "the tool succeeded" from a successful result.        *)
Verified(trace, call) == Succeeded(trace, call)

(* A HARD rule that matches blocks; so does any HARD file-system rule when *)
(* the command cannot be analysed.  SOFT rules only warn.                  *)
Blocks(ledger, a) ==
    \E c \in ledger :
        /\ c.strength = "HARD"
        /\ a \in Prohibits[c.body] \/ (a \in OpaqueActions /\ c.body \in FsBodies)

-----------------------------------------------------------------------------
(* The handlers: Raises(s, h) when the body raises, else the session to be *)
(* saved, After(s, h), and the answer, AnswerOf(s, h).                     *)

PromptSubmitted(s, h) ==
    [meta |-> s.meta \cup {h.arg},
     ledger |-> IF h.arg \in s.meta THEN s.ledger ELSE Register(s.ledger, Extract[h.arg]),
     trace |-> Append(s.trace, EventOf("USER_MESSAGE", h, TRUE)),
     report |-> s.report]

PreToolUsed(s, h) ==
    [s EXCEPT !.trace = Append(@, EventOf("GUARD_DECISION", h, ~Blocks(s.ledger, h.arg)))]

PostToolUsed(s, h) ==
    [s EXCEPT !.trace =
        @ \o (IF Recorded(@, "TOOL_CALL", h.arg) THEN <<>> ELSE <<EventOf("TOOL_CALL", h, TRUE)>>)
          \o <<EventOf("TOOL_RESULT", h, h.ok)>>]

(* A message without claims leaves the report of an earlier Stop in place. *)
Stopped(s, h) ==
    IF h.arg = NoArg THEN s
    ELSE [s EXCEPT !.report = [claim |-> h.arg, verified |-> Verified(s.trace, h.arg)]]

(* Mutant: a second result for a call is recorded.                         *)
BugRaises(s, h) == FALSE

(* A second result for a call is refused by the trace store.               *)
Raises(s, h) == h.kind = "PostToolUse" /\ Recorded(s.trace, "TOOL_RESULT", h.arg)

After(s, h) ==
    CASE h.kind = "UserPromptSubmit" -> PromptSubmitted(s, h)
      [] h.kind = "PreToolUse" -> PreToolUsed(s, h)
      [] h.kind = "PostToolUse" -> PostToolUsed(s, h)
      [] h.kind = "Stop" -> Stopped(s, h)
      [] OTHER -> s

AnswerOf(s, h) ==
    IF h.kind # "PreToolUse" THEN "ok"
    ELSE IF Blocks(s.ledger, h.arg) THEN "deny" ELSE "allow"
=============================================================================
