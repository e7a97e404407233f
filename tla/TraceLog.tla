-------------------------------- MODULE TraceLog --------------------------------
(***************************************************************************)
(* The data of agentcontract's trace store (trace/store.py): events, the   *)
(* event list with its five indexes, the checks and the effect of append,  *)
(* and what a well-formed store looks like.                                *)
(*                                                                         *)
(* Of an event's kind, append distinguishes tool calls, tool results and   *)
(* the rest.  Sessions, actors, timestamps and payloads other than the     *)
(* call id are left out: append does not look at them.                     *)
(***************************************************************************)
EXTENDS Integers, Sequences, FiniteSets

CONSTANTS
    EventIds,   \* event identifiers
    Traces,     \* trace identifiers
    CallIds,    \* tool call identifiers
    Numbers,    \* sequence numbers an event may carry
    None        \* Python's None

ASSUME TraceAssumption ==
    /\ Numbers \subseteq Nat
    /\ None \notin EventIds \cup CallIds

Kind == {"TOOL_CALL", "TOOL_RESULT", "OTHER"}

(* TraceEvent: exactly the tool events carry a call id.                    *)
Event ==
    {e \in [id : EventIds, trace : Traces, sequence : Numbers, kind : Kind,
            parent : EventIds \cup {None}, call : CallIds \cup {None}] :
        e.kind = "OTHER" <=> e.call = None}

ASSUME NoneAssumption == None \notin Event

Slot == Traces \X CallIds
SlotOf(e) == <<e.trace, e.call>>

(* The five indexes; lastSeq is -1 for a trace without events.             *)
Store ==
    [events : Seq(Event),
     byId : [EventIds -> Event \cup {None}],
     byTrace : [Traces -> Seq(Event)],
     lastSeq : [Traces -> Numbers \cup {-1}],
     calls : [Slot -> Event \cup {None}],
     results : [Slot -> Event \cup {None}]]

EmptyStore ==
    [events |-> <<>>,
     byId |-> [i \in EventIds |-> None],
     byTrace |-> [t \in Traces |-> <<>>],
     lastSeq |-> [t \in Traces |-> -1],
     calls |-> [k \in Slot |-> None],
     results |-> [k \in Slot |-> None]]

-----------------------------------------------------------------------------
(* append                                                                  *)

(* Mutants: the parent may be in another trace; a result needs no call.    *)
BugParentKnown(s, e) == e.parent # None => s.byId[e.parent] # None
BugAnswersCall(s, e) == e.kind = "TOOL_RESULT" => s.results[SlotOf(e)] = None

ParentKnown(s, e) ==
    e.parent # None => s.byId[e.parent] # None /\ s.byId[e.parent].trace = e.trace

NewCall(s, e) == e.kind = "TOOL_CALL" => s.calls[SlotOf(e)] = None

AnswersCall(s, e) ==
    e.kind = "TOOL_RESULT" =>
        /\ s.calls[SlotOf(e)] # None
        /\ e.parent # None => /\ s.byId[e.parent].kind = "TOOL_CALL"
                              /\ s.byId[e.parent].call = e.call
        /\ s.results[SlotOf(e)] = None

Accepts(s, e) ==
    /\ s.byId[e.id] = None
    /\ e.sequence > s.lastSeq[e.trace]
    /\ ParentKnown(s, e)
    /\ NewCall(s, e)
    /\ AnswersCall(s, e)

Appended(s, e) ==
    [events |-> Append(s.events, e),
     byId |-> [s.byId EXCEPT ![e.id] = e],
     byTrace |-> [s.byTrace EXCEPT ![e.trace] = Append(@, e)],
     lastSeq |-> [s.lastSeq EXCEPT ![e.trace] = e.sequence],
     calls |-> IF e.kind = "TOOL_CALL" THEN [s.calls EXCEPT ![SlotOf(e)] = e] ELSE s.calls,
     results |-> IF e.kind = "TOOL_RESULT" THEN [s.results EXCEPT ![SlotOf(e)] = e]
                 ELSE s.results]

-----------------------------------------------------------------------------

Ids(log) == {log[i].id : i \in 1..Len(log)}
Happened(log, kind, k) ==
    \E i \in 1..Len(log) : log[i].kind = kind /\ SlotOf(log[i]) = k

(* What an event list must look like, whoever wrote it: ids are unique and *)
(* sequence numbers grow within each trace; a parent stands earlier in the *)
(* same trace; a call id is declared once per trace and answered at most   *)
(* once, later, by a result whose parent, if it has one, is that call.     *)
IdsUnique(log) == \A i, j \in 1..Len(log) : log[i].id = log[j].id => i = j
SequencesGrow(log) ==
    \A i, j \in 1..Len(log) :
        i < j /\ log[i].trace = log[j].trace => log[i].sequence < log[j].sequence
ParentsEarlier(log) ==
    \A i \in 1..Len(log) : log[i].parent # None =>
        \E j \in 1..(i - 1) : log[j].id = log[i].parent /\ log[j].trace = log[i].trace
CallsCorrelated(log) ==
    \A i \in 1..Len(log) :
        /\ log[i].kind # "OTHER" =>
              \A j \in 1..Len(log) : SlotOf(log[j]) = SlotOf(log[i]) /\ log[j].kind = log[i].kind => j = i
        /\ log[i].kind = "TOOL_RESULT" =>
              \E j \in 1..(i - 1) : /\ log[j].kind = "TOOL_CALL"
                                    /\ SlotOf(log[j]) = SlotOf(log[i])
                                    /\ log[i].parent \in {None, log[j].id}
LogOK(log) ==
    /\ IdsUnique(log)
    /\ SequencesGrow(log)
    /\ ParentsEarlier(log)
    /\ CallsCorrelated(log)

(* The indexes say what the event list says: looking up an event, a call   *)
(* or a result finds the one in the list, and list_events(trace_id) gives  *)
(* exactly the events of the trace in growing sequence order.              *)
Agrees(s) ==
    /\ \A i \in EventIds :
          /\ s.byId[i] = None <=> i \notin Ids(s.events)
          /\ \A n \in 1..Len(s.events) : s.events[n].id = i => s.byId[i] = s.events[n]
    /\ \A k \in Slot :
          /\ s.calls[k] = None <=> ~Happened(s.events, "TOOL_CALL", k)
          /\ s.results[k] = None <=> ~Happened(s.events, "TOOL_RESULT", k)
          /\ \A n \in 1..Len(s.events) : SlotOf(s.events[n]) = k =>
                /\ s.events[n].kind = "TOOL_CALL" => s.calls[k] = s.events[n]
                /\ s.events[n].kind = "TOOL_RESULT" => s.results[k] = s.events[n]
    /\ \A t \in Traces :
          LET own == {s.events[n] : n \in {n \in 1..Len(s.events) : s.events[n].trace = t}}
          IN  /\ {s.byTrace[t][m] : m \in 1..Len(s.byTrace[t])} = own
              /\ \A m, n \in 1..Len(s.byTrace[t]) :
                    m < n => s.byTrace[t][m].sequence < s.byTrace[t][n].sequence
              /\ \A e \in own : e.sequence <= s.lastSeq[t]
              /\ s.lastSeq[t] = -1 \/ \E e \in own : e.sequence = s.lastSeq[t]
=============================================================================
