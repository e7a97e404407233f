----------------------------- MODULE EvidenceGate -----------------------------
(***************************************************************************)
(* The evidence gate of agentcontract (evidence/gate.py) and its graph     *)
(* (evidence/graph.py): claims of an agent are evaluated against a trace   *)
(* that keeps growing, again and again, and the graph indexes the latest   *)
(* evaluation of each claim by the events it cites.                        *)
(*                                                                         *)
(* The store is the one of TraceLog, and what else the gate reads of an    *)
(* event is Payload[event id].  Names, commands and paths are compared     *)
(* after normalisation, so they stand for their normal forms; the pytest   *)
(* pattern is a fact about a call.  Evidence references are sets, their    *)
(* order and wording left out.                                             *)
(***************************************************************************)
EXTENDS TraceLog

CONSTANTS
    Sessions, Tools, Commands, Paths,
    ExitCodes,    \* exit codes a process may end with
    PytestNames,  \* the commands that say "pytest", in any case
    Payload,      \* event id -> what the event carries
    Candidates,   \* events that may be appended, their numbers left open
    MaxEvents,    \* bound: events in the store
    ClaimIds,
    Claims        \* the claims that may be evaluated

VARIABLES
    trace,  \* the TraceStore
    graph   \* the EvidenceGraph

vars == <<trace, graph>>

ClaimType == {"TOOL_SUCCEEDED", "COMMAND_EXITED_ZERO", "TESTS_PASSED", "FILE_EXISTS",
              "ACTION_COMPLETED", "GENERIC"}
Verdict == {"VERIFIED", "CONTRADICTED", "UNVERIFIED"}
Status == {"SUCCESS", "ERROR", "TIMEOUT", "CANCELLED"}

(* session: the session_id; tool and commands: the name and the command    *)
(* arguments of a call; pytest: one of them runs pytest; status and exit:  *)
(* of a result; observation: the event is a STATE_OBSERVATION; present and *)
(* gone: the paths its data says exist or are missing.                     *)
PayloadData ==
    [session : Sessions \cup {None}, tool : Tools \cup {None}, commands : SUBSET Commands,
     pytest : BOOLEAN, status : Status, exit : ExitCodes \cup {None}, observation : BOOLEAN,
     present : SUBSET Paths, gone : SUBSET Paths]

Claim ==
    [id : ClaimIds, type : ClaimType, trace : Traces \cup {None}, session : Sessions \cup {None},
     call : CallIds \cup {None}, tool : Tools \cup {None}, command : Commands \cup {None},
     path : Paths \cup {None}, expected : ExitCodes \cup {None}]

ASSUME EvidenceAssumption ==
    /\ Payload \in [EventIds -> PayloadData]
    /\ Claims \subseteq Claim /\ Candidates \subseteq Event
    /\ MaxEvents \in Nat /\ 0..MaxEvents \subseteq Numbers
    /\ ExitCodes \subseteq Int
    /\ None \notin Traces \cup Sessions \cup Tools \cup Commands \cup Paths \cup ExitCodes
    /\ PytestNames \subseteq Commands

(* EvidenceRef: a pointer to an event, and ClaimEvaluation.                *)
Ref == [trace : Traces, id : EventIds]
Evaluation ==
    [claim : Claims, verdict : Verdict, supporting : SUBSET Ref, contradicting : SUBSET Ref]
Refs(v) == v.supporting \cup v.contradicting

ASSUME NoEvaluationAssumption == None \notin Evaluation

Image(s) == {s[n] : n \in 1..Len(s)}

-------------------------------------------------------------------------------
(* Which events a claim is about.                                          *)

HasSelector(c) == {c.call, c.tool, c.command} # {None}
TraceLevel(c) == c.type = "FILE_EXISTS" /\ ~HasSelector(c)

(* The events of the claim's trace and, if it names one, session.          *)
Scope(c) ==
    {e \in Image(trace.byTrace[c.trace]) : c.session \in {None, Payload[e.id].session}}

RunsCommand(c, e) ==
    \/ c.command \in Payload[e.id].commands
    \/ /\ c.type = "TESTS_PASSED" /\ c.command \in PytestNames
       /\ Payload[e.id].pytest

(* Mutant: a call id is taken without looking at the other selectors.      *)
BugSelects(c, e) ==
    \/ c.call = e.call
    \/ /\ c.call = None
       /\ c.tool \in {None, Payload[e.id].tool}
       /\ c.command = None \/ RunsCommand(c, e)

Selects(c, e) ==
    /\ c.call \in {None, e.call}
    /\ c.tool \in {None, Payload[e.id].tool}
    /\ c.command = None \/ RunsCommand(c, e)

(* Mutant: of several matching executions the newest is taken.             *)
BugExecutions(c) ==
    LET all == {e \in Scope(c) : e.kind = "TOOL_CALL" /\ Selects(c, e)}
    IN  {e \in all : \A f \in all : f.sequence <= e.sequence}

Executions(c) == {e \in Scope(c) : e.kind = "TOOL_CALL" /\ Selects(c, e)}

(* Mutant: the result is looked up by its parent instead of its call id.   *)
BugResolved(c) ==
    {r \in Scope(c) :
        /\ HasSelector(c) /\ r.kind = "TOOL_RESULT"
        /\ \E e \in Executions(c) : Executions(c) = {e} /\ e.id = r.parent}

(* The result event of the one execution the claim resolves to; empty when *)
(* the claim selects nothing, no execution or more than one, or when there *)
(* is no result in scope.                                                  *)
Resolved(c) ==
    {r \in Scope(c) :
        /\ HasSelector(c) /\ r.kind = "TOOL_RESULT"
        /\ \E e \in Executions(c) : Executions(c) = {e} /\ e.call = r.call}

(* The events evaluate looks at.                                           *)
Considered(c) ==
    IF \/ c.type = "GENERIC"
       \/ c.trace = None
       \/ c.type = "FILE_EXISTS" /\ c.path = None
    THEN {}
    ELSE IF TraceLevel(c) THEN Scope(c) ELSE Resolved(c)

-------------------------------------------------------------------------------
(* What an event says about a claim.                                       *)

Succeeded(r) == Payload[r.id].status = "SUCCESS"
Expected(c, r) == c.expected \in {None, Payload[r.id].exit}

Observes(e) == e.kind = "TOOL_RESULT" \/ (e.kind = "OTHER" /\ Payload[e.id].observation)

(* Mutant: the exit code must be 0 whatever is claimed.                    *)
BugOutcomeSupports(c, r) ==
    /\ Succeeded(r)
    /\ CASE c.type \in {"TOOL_SUCCEEDED", "ACTION_COMPLETED"} -> Payload[r.id].exit = 0
         [] c.type = "COMMAND_EXITED_ZERO" -> Payload[r.id].exit = 0
         [] c.type = "TESTS_PASSED" -> Payload[r.id].exit \in {0, None} /\ Expected(c, r)

OutcomeSupports(c, r) ==
    /\ Succeeded(r)
    /\ CASE c.type = "TOOL_SUCCEEDED" -> Expected(c, r)
         [] c.type = "COMMAND_EXITED_ZERO" -> Payload[r.id].exit = 0
         [] c.type = "TESTS_PASSED" -> Payload[r.id].exit \in {0, None} /\ Expected(c, r)
         [] c.type = "ACTION_COMPLETED" -> TRUE

(* A success without an exit code says nothing about exiting with zero.    *)
Inconclusive(c, r) ==
    c.type = "COMMAND_EXITED_ZERO" /\ Succeeded(r) /\ Payload[r.id].exit = None

Supports(c, e) ==
    IF c.type = "FILE_EXISTS"
    THEN /\ Observes(e)
         /\ c.path \in Payload[e.id].present
         /\ e.kind = "TOOL_RESULT" => Succeeded(e)
    ELSE OutcomeSupports(c, e)

Contradicts(c, e) ==
    IF c.type = "FILE_EXISTS"
    THEN Observes(e) /\ c.path \in Payload[e.id].gone
    ELSE ~OutcomeSupports(c, e) /\ ~Inconclusive(c, e)

(* determine_verdict lets contradiction win over support; about a file in  *)
(* the trace as a whole the newest observation decides.                    *)
(* Mutant: contradiction always wins.                                      *)
BugDecide(c, sup, con) ==
    CASE sup \cup con = {} -> "UNVERIFIED"
      [] sup \cup con # {} /\ con = {} -> "VERIFIED"
      [] OTHER -> "CONTRADICTED"

Decide(c, sup, con) ==
    LET newest == {e \in sup \cup con : \A f \in sup \cup con : f.sequence <= e.sequence}
        against == IF TraceLevel(c) THEN newest \cap con ELSE con
    IN  CASE sup \cup con = {} -> "UNVERIFIED"
          [] sup \cup con # {} /\ against = {} -> "VERIFIED"
          [] against # {} -> "CONTRADICTED"

RefsTo(events) == {[trace |-> e.trace, id |-> e.id] : e \in events}

(* The evaluation of a claim by the events that are looked at.             *)
Judged(c, events) ==
    LET sup == {e \in events : Supports(c, e)}
        con == {e \in events : Contradicts(c, e)}
    IN  [claim |-> c, verdict |-> Decide(c, sup, con),
         supporting |-> RefsTo(sup), contradicting |-> RefsTo(con)]

Evaluated(c) == Judged(c, Considered(c))

-------------------------------------------------------------------------------
(* The graph.  An absent key of an index is an empty list of claims.       *)

Graph ==
    [evaluations : [ClaimIds -> Evaluation \cup {None}],
     order : Seq(ClaimIds),
     citing : [EventIds -> Seq(ClaimIds)],
     citingIn : [Traces \X EventIds -> Seq(ClaimIds)]]

EmptyGraph ==
    [evaluations |-> [q \in ClaimIds |-> None],
     order |-> <<>>,
     citing |-> [i \in EventIds |-> <<>>],
     citingIn |-> [k \in Traces \X EventIds |-> <<>>]]

EventKeys(refs) == {r.id : r \in refs}
TraceKeys(refs) == {<<r.trace, r.id>> : r \in refs}

(* list.remove: the first occurrence goes, the order of the others stays.  *)
Without(s, q) ==
    IF q \notin Image(s) THEN s
    ELSE LET n == CHOOSE n \in 1..Len(s) : s[n] = q /\ \A m \in 1..(n - 1) : s[m] # q
         IN  SubSeq(s, 1, n - 1) \o SubSeq(s, n + 1, Len(s))

With(s, q) == IF q \in Image(s) THEN s ELSE Append(s, q)

(* Mutant: the edges of the previous evaluation are kept.                  *)
BugReindexed(index, old, new, q) ==
    [k \in DOMAIN index |-> IF k \in new THEN With(index[k], q) ELSE index[k]]

Reindexed(index, old, new, q) ==
    [k \in DOMAIN index |->
        LET kept == IF k \in old THEN Without(index[k], q) ELSE index[k]
        IN  IF k \in new THEN With(kept, q) ELSE kept]

AddEvaluation(g, v) ==
    LET q == v.claim.id
        old == IF g.evaluations[q] = None THEN {} ELSE Refs(g.evaluations[q])
    IN  [evaluations |-> [g.evaluations EXCEPT ![q] = v],
         order |-> IF g.evaluations[q] = None THEN Append(g.order, q) ELSE g.order,
         citing |-> Reindexed(g.citing, EventKeys(old), EventKeys(Refs(v)), q),
         citingIn |-> Reindexed(g.citingIn, TraceKeys(old), TraceKeys(Refs(v)), q)]

-------------------------------------------------------------------------------

Init == trace = EmptyStore /\ graph = EmptyGraph

(* Whoever writes the trace appends an event with the next number.         *)
Record(candidate) ==
    LET e == [candidate EXCEPT !.sequence = trace.lastSeq[candidate.trace] + 1]
    IN  /\ Len(trace.events) < MaxEvents
        /\ Accepts(trace, e)
        /\ trace' = Appended(trace, e)
        /\ UNCHANGED graph

Evaluate(c) ==
    /\ graph' = AddEvaluation(graph, Evaluated(c))
    /\ UNCHANGED trace

Next ==
    \/ \E e \in Candidates : Record(e)
    \/ \E c \in Claims : Evaluate(c)

Spec == Init /\ [][Next]_vars

-------------------------------------------------------------------------------
(* Properties                                                              *)

(* The current evaluations.                                                *)
Current == {graph.evaluations[q] : q \in ClaimIds} \ {None}

(* Store and graph have their types; an evaluation is filed under the id   *)
(* of its claim and is UNVERIFIED exactly when it cites nothing.           *)
TypeOK ==
    /\ trace \in Store
    /\ graph \in Graph
    /\ \A q \in ClaimIds : LET v == graph.evaluations[q] IN v # None =>
          /\ v.claim.id = q
          /\ v.verdict = "UNVERIFIED" <=> Refs(v) = {}

NoRepeats(s) == \A m, n \in 1..Len(s) : s[m] = s[n] => m = n

(* However often claims are evaluated again, also under the same id with   *)
(* another scope, the graph says what the latest evaluations say: each     *)
(* claim is listed once, an event is indexed under exactly the claims that *)
(* cite it now, once each, both with and without its trace, and every      *)
(* reference resolves to an event of its trace (add_evaluation,            *)
(* resolve_pointer).                                                       *)
GraphExact ==
    /\ NoRepeats(graph.order)
    /\ Image(graph.order) = {q \in ClaimIds : graph.evaluations[q] # None}
    /\ \A i \in EventIds :
          /\ NoRepeats(graph.citing[i])
          /\ Image(graph.citing[i]) = {v.claim.id : v \in {v \in Current : i \in EventKeys(Refs(v))}}
    /\ \A k \in Traces \X EventIds :
          /\ NoRepeats(graph.citingIn[k])
          /\ Image(graph.citingIn[k]) = {v.claim.id : v \in {v \in Current : k \in TraceKeys(Refs(v))}}
    /\ \A v \in Current : \A r \in Refs(v) :
          trace.byId[r.id] # None /\ trace.byId[r.id].trace = r.trace

(* A claim about an execution is decided by one result of its trace and    *)
(* session alone, whose call fits everything the claim says; and only by a *)
(* success it is verified, with exit code 0 where that is the claim (rules *)
(* 1, 5, 6, 7, 9 and 10 of the class).                                     *)
DecidedByOne ==
    \A v \in Current : v.verdict # "UNVERIFIED" /\ ~TraceLevel(v.claim) =>
        \E r \in Image(trace.events) : \E e \in Image(trace.events) :
            /\ Refs(v) = RefsTo({r})
            /\ r.kind = "TOOL_RESULT" /\ e.kind = "TOOL_CALL" /\ SlotOf(r) = SlotOf(e)
            /\ e.sequence < r.sequence
            /\ v.claim.type # "GENERIC" /\ HasSelector(v.claim) /\ v.claim.trace = r.trace
            /\ v.claim.session \in {None, Payload[r.id].session}
            /\ v.claim.session \in {None, Payload[e.id].session}
            /\ v.claim.call \in {None, e.call}
            /\ v.claim.tool \in {None, Payload[e.id].tool}
            /\ v.claim.command # None => RunsCommand(v.claim, e)
            /\ v.verdict = "VERIFIED" =>
                  /\ Payload[r.id].status = "SUCCESS"
                  /\ v.claim.type = "COMMAND_EXITED_ZERO" => Payload[r.id].exit = 0

(* While the trace grows, evaluating a claim about an execution again      *)
(* never turns VERIFIED into CONTRADICTED or back, at most into UNVERIFIED *)
(* when a second execution matches; and a claim that names its call keeps  *)
(* its evaluation once decided (evaluate, TraceStore.append).              *)
NeverFlips ==
    [][\A q \in ClaimIds :
          LET old == graph.evaluations[q]
              new == graph'.evaluations[q]
          IN  /\ old # None /\ new # None
              /\ old.claim = new.claim /\ ~TraceLevel(new.claim)
              => /\ {old.verdict, new.verdict} # {"VERIFIED", "CONTRADICTED"}
                 /\ old.claim.call # None /\ old.verdict # "UNVERIFIED" => new = old]_vars

(* Position n of the log is about claim c's file, and says it exists or    *)
(* does not.                                                               *)
Mentions(c, n) ==
    LET e == trace.events[n]
    IN  /\ e.trace = c.trace
        /\ c.session \in {None, Payload[e.id].session}
        /\ Observes(e)
        /\ \/ c.path \in Payload[e.id].gone
           \/ c.path \in Payload[e.id].present /\ (e.kind = "TOOL_RESULT" => Succeeded(e))

(* A fresh evaluation about a file in the whole trace says what the last   *)
(* observation in the log says, whatever was observed before, and failed   *)
(* results and messages show no file (trace-level FILE_EXISTS).            *)
LastObservationDecides ==
    [][\A q \in ClaimIds :
          LET v == graph'.evaluations[q]
              last == {n \in 1..Len(trace.events) : /\ Mentions(v.claim, n)
                                                    /\ \A m \in (n + 1)..Len(trace.events) :
                                                          ~Mentions(v.claim, m)}
          IN  /\ v # graph.evaluations[q]
              /\ TraceLevel(v.claim) /\ v.claim.trace # None /\ v.claim.path # None
              => /\ v.verdict = "UNVERIFIED" <=> last = {}
                 /\ \A n \in last : v.verdict = "CONTRADICTED" <=>
                       v.claim.path \in Payload[trace.events[n].id].gone]_vars

(* A fresh evaluation leaves a claim about an execution undecided only for *)
(* a reason: no call fits, several do, the only one has no result in       *)
(* scope, or no exit code was recorded (rules 3 and 4 of the class).       *)
UndecidedForAReason ==
    [][\A q \in ClaimIds :
          LET v == graph'.evaluations[q]
              c == v.claim
              fits == {n \in 1..Len(trace.events) : /\ trace.events[n].kind = "TOOL_CALL"
                                                    /\ trace.events[n] \in Scope(c)
                                                    /\ Selects(c, trace.events[n])}
          IN  /\ v # graph.evaluations[q] /\ v.verdict = "UNVERIFIED"
              /\ c.type \notin {"GENERIC", "FILE_EXISTS"} /\ c.trace # None /\ HasSelector(c)
              => \/ Cardinality(fits) # 1
                 \/ \A n \in fits : \A r \in Scope(c) :
                       r.kind = "TOOL_RESULT" /\ r.call = trace.events[n].call =>
                          c.type = "COMMAND_EXITED_ZERO" /\ Payload[r.id].exit = None]_vars

(* Of two claims about the same result, whenever they were evaluated, the  *)
(* stronger is never verified and the weaker contradicted: exiting with    *)
(* zero implies passing tests, and that implies success.                   *)
Strength ==
    [COMMAND_EXITED_ZERO |-> 3, TESTS_PASSED |-> 2, TOOL_SUCCEEDED |-> 1, ACTION_COMPLETED |-> 1]
StrongerWins ==
    \A v, w \in Current :
        (/\ v.claim.type \in DOMAIN Strength /\ w.claim.type \in DOMAIN Strength
         /\ Strength[v.claim.type] >= Strength[w.claim.type]
         /\ w.claim.expected = None
         /\ v.verdict = "VERIFIED" /\ w.verdict # "UNVERIFIED" /\ Refs(v) = Refs(w))
        => w.verdict = "VERIFIED"
===============================================================================
