---------------------------- MODULE RuntimeSession ----------------------------
(***************************************************************************)
(* The runtime wrapper of agentcontract (runtime/session.py): execute asks *)
(* the guard, records the call, runs the executor, records its result and  *)
(* asks the guard again.                                                   *)
(*                                                                         *)
(* Several runtimes may share a trace store and a ledger.  Everything runs *)
(* in one thread, but the executor is user code: it may call execute of    *)
(* the same or of another runtime, change the ledger, append events of its *)
(* own, raise, or be interrupted.  The executions under way are the frames *)
(* of a stack; a step is one call of execute into the guard, the store or  *)
(* the executor.  What the guard decides is the pair of relations Forbids  *)
(* and ForbidsAfter (see SpecGuard); the store is the one of TraceLog.     *)
(***************************************************************************)
EXTENDS TraceLog

CONSTANTS
    Runtimes,
    TraceOf,       \* the trace each runtime writes
    RecordsAll,    \* the runtimes with record_all_guard_decisions
    MaxIds,        \* bound: identifiers of one category a runtime generates
    MaxDepth,      \* bound: executions under way
    EventId, NewCallId,  \* the identifiers each runtime's generator yields, in order
    Actions, Effects, Rules,
    Forbids,       \* <<rule, action>>: the rule blocks the action beforehand
    ForbidsAfter,  \* <<rule, action, effect>>: the rule blocks it afterwards
    NoEffect,      \* no effect was reported (the executor raised)
    GivenIds,      \* call ids that callers pass
    UserEvents,    \* events that user code may append to the store itself
    UserPointers   \* trace pointers that actions may carry

VARIABLES
    trace,     \* the TraceStore
    rules,     \* the active constraints of the ledger
    used,      \* event identifiers generated so far, per runtime
    calls,     \* call identifiers generated so far, per runtime
    stack,     \* the frames of execute, innermost last
    ran,       \* history: call events whose executors were entered, in order
    finished,  \* history: call events whose executors returned or raised
    answers    \* history: the RuntimeExecutionResults returned

vars == <<trace, rules, used, calls, stack, ran, finished, answers>>

Pointer == [trace : Traces, id : EventIds]

ASSUME RuntimeAssumption ==
    /\ MaxIds \in Nat /\ MaxDepth \in Nat
    /\ TraceOf \in [Runtimes -> Traces]
    /\ EventId \in [Runtimes -> [1..MaxIds -> EventIds]]
    /\ NewCallId \in [Runtimes -> [1..MaxIds -> CallIds]]
    /\ GivenIds \subseteq CallIds /\ UserEvents \subseteq Event /\ UserPointers \subseteq Pointer
    /\ None \notin Pointer
    /\ NoEffect \in Effects

Frame ==
    [rt : Runtimes, action : Actions, pointer : Pointer \cup {None}, given : CallIds \cup {None},
     pc : {"block", "pre", "call", "invoke", "running", "result", "post"},
     pre : EventIds \cup {None}, call : EventIds \cup {None}, cid : CallIds \cup {None},
     result : EventIds \cup {None}, executed : BOOLEAN, effect : Effects]

Answer ==
    [blocked : BOOLEAN, executed : BOOLEAN, postBlocked : BOOLEAN, pre : EventIds \cup {None},
     call : EventIds \cup {None}, result : EventIds \cup {None}, post : EventIds \cup {None}]

Top == stack[Len(stack)]
At(pc) == stack # <<>> /\ Top.pc = pc
Pop == SubSeq(stack, 1, Len(stack) - 1)
Continue(f) == [stack EXCEPT ![Len(stack)] = f]

Forbidden(a) == \E r \in rules : <<r, a>> \in Forbids
ForbiddenAfter(a, x) == \E r \in rules : <<r, a, x>> \in ForbidsAfter

-------------------------------------------------------------------------------
(* The events execute appends.                                             *)

(* Mutant: numbers are taken from the number of events.                    *)
BugNextSequence(t) == Len(trace.byTrace[t])

NextSequence(t) ==
    LET events == trace.byTrace[t]
    IN  IF events = <<>> THEN 0 ELSE events[Len(events)].sequence + 1

(* The event an action points to, if it is in this trace and this store.   *)
ActionParent(f) ==
    IF f.pointer # None /\ f.pointer.trace = TraceOf[f.rt] /\ trace.byId[f.pointer.id] # None
    THEN f.pointer.id ELSE None

NewEvent(f, kind, parent, call) ==
    [id |-> EventId[f.rt][used[f.rt] + 1], trace |-> TraceOf[f.rt],
     sequence |-> NextSequence(TraceOf[f.rt]), kind |-> kind, parent |-> parent, call |-> call]

CallIdOf(f) == IF f.given # None THEN f.given ELSE NewCallId[f.rt][calls[f.rt] + 1]

CallParent(f) == IF f.pre # None THEN f.pre ELSE ActionParent(f)

(* What the frame appends next. *)
Pending(f) ==
    CASE f.pc \in {"block", "pre"} -> NewEvent(f, "OTHER", ActionParent(f), None)
      [] f.pc = "call"   -> NewEvent(f, "TOOL_CALL", CallParent(f), CallIdOf(f))
      [] f.pc = "result" -> NewEvent(f, "TOOL_RESULT", f.call, f.cid)
      [] f.pc = "post"   -> NewEvent(f, "OTHER", f.result, None)

Generate(r) == used[r] < MaxIds /\ used' = [used EXCEPT ![r] = @ + 1]

(* append(e), which either records e or raises.                            *)
Records(e) == Accepts(trace, e) /\ trace' = Appended(trace, e)
Refuses(e) == ~Accepts(trace, e) /\ UNCHANGED trace

Returned(f, post, postBlocked) ==
    [blocked |-> f.pc = "block", executed |-> f.executed, postBlocked |-> postBlocked,
     pre |-> f.pre, call |-> f.call, result |-> f.result, post |-> post]

Return(f, post, postBlocked) ==
    stack' = Pop /\ answers' = answers \cup {Returned(f, post, postBlocked)}

(* An exception leaves execute; the caller of execute goes on.             *)
Raise == stack' = Pop /\ UNCHANGED answers

-------------------------------------------------------------------------------
Init ==
    /\ trace = EmptyStore
    /\ rules \in SUBSET Rules
    /\ used = [r \in Runtimes |-> 0] /\ calls = [r \in Runtimes |-> 0]
    /\ stack = <<>> /\ ran = <<>> /\ finished = {} /\ answers = {}

(* User code is in control: the caller of execute, or an executor.         *)
UserCode == stack = <<>> \/ At("running")

(* A pointer to an event of the store, or to an event it does not have.    *)
Pointers ==
    {None} \cup {p \in UserPointers : trace.byId[p.id] = None \/ trace.byId[p.id].trace = p.trace}

(* execute up to the decision before the action.                           *)
Execute(r, a, p, c) ==
    /\ UserCode
    /\ Len(stack) < MaxDepth
    /\ used[r] + 4 * MaxDepth <= MaxIds   \* enough for everything under way
    /\ stack' = Append(stack,
           [rt |-> r, action |-> a, pointer |-> p, given |-> c,
            pc |-> IF Forbidden(a) THEN "block" ELSE IF r \in RecordsAll THEN "pre" ELSE "call",
            pre |-> None, call |-> None, cid |-> None, result |-> None,
            executed |-> FALSE, effect |-> NoEffect])
    /\ UNCHANGED <<trace, rules, used, calls, ran, finished, answers>>

RecordBlock ==
    /\ At("block")
    /\ Generate(Top.rt)
    /\ LET e == Pending(Top)
       IN  \/ Records(e) /\ Return([Top EXCEPT !.pre = e.id], None, FALSE)
           \/ Refuses(e) /\ Raise
    /\ UNCHANGED <<rules, calls, ran, finished>>

RecordPre ==
    /\ At("pre")
    /\ Generate(Top.rt)
    /\ LET e == Pending(Top)
       IN  \/ Records(e) /\ stack' = Continue([Top EXCEPT !.pc = "call", !.pre = e.id])
                         /\ UNCHANGED answers
           \/ Refuses(e) /\ Raise
    /\ UNCHANGED <<rules, calls, ran, finished>>

(* Mutant: a call that cannot be recorded is executed all the same.        *)
BugRecordCall ==
    /\ At("call")
    /\ Generate(Top.rt)
    /\ calls[Top.rt] < MaxIds
    /\ calls' = [calls EXCEPT ![Top.rt] = @ + IF Top.given = None THEN 1 ELSE 0]
    /\ LET e == Pending(Top)
       IN  /\ Records(e) \/ Refuses(e)
           /\ stack' = Continue([Top EXCEPT !.pc = "invoke", !.call = e.id, !.cid = e.call])
    /\ UNCHANGED <<rules, ran, finished, answers>>

RecordCall ==
    /\ At("call")
    /\ Generate(Top.rt)
    /\ calls[Top.rt] < MaxIds
    /\ calls' = [calls EXCEPT ![Top.rt] = @ + IF Top.given = None THEN 1 ELSE 0]
    /\ LET e == Pending(Top)
       IN  \/ /\ Records(e)
              /\ stack' = Continue([Top EXCEPT !.pc = "invoke", !.call = e.id, !.cid = e.call])
              /\ UNCHANGED answers
           \/ Refuses(e) /\ Raise
    /\ UNCHANGED <<rules, ran, finished>>

(* The executor is entered.                                                *)
Invoke ==
    /\ At("invoke")
    /\ stack' = Continue([Top EXCEPT !.pc = "running", !.executed = TRUE])
    /\ ran' = Append(ran, Top.call)
    /\ UNCHANGED <<trace, rules, used, calls, finished, answers>>

(* The executor cannot take the arguments: an error, but it never ran.     *)
SignatureFails ==
    /\ At("invoke")
    /\ stack' = Continue([Top EXCEPT !.pc = "result"])
    /\ UNCHANGED <<trace, rules, used, calls, ran, finished, answers>>

(* Mutant: an exception of the executor leaves execute.                    *)
BugExecutorEnds(x) ==
    /\ At("running")
    /\ stack' = IF x = NoEffect THEN Pop ELSE Continue([Top EXCEPT !.pc = "result", !.effect = x])
    /\ finished' = finished \cup {Top.call}
    /\ UNCHANGED <<trace, rules, used, calls, ran, answers>>

(* The executor returns and reports x, or raises an Exception.             *)
ExecutorEnds(x) ==
    /\ At("running")
    /\ stack' = Continue([Top EXCEPT !.pc = "result", !.effect = x])
    /\ finished' = finished \cup {Top.call}
    /\ UNCHANGED <<trace, rules, used, calls, ran, answers>>

(* KeyboardInterrupt and the like: not an Exception, execute does not see it. *)
Interrupt ==
    /\ At("running")
    /\ Raise
    /\ UNCHANGED <<trace, rules, used, calls, ran, finished>>

RecordResult ==
    /\ At("result")
    /\ Generate(Top.rt)
    /\ LET e == Pending(Top)
           f == [Top EXCEPT !.pc = "post", !.result = e.id]
       IN  \/ Records(e) /\ IF f.executed THEN stack' = Continue(f) /\ UNCHANGED answers
                            ELSE Return(f, None, FALSE)
           \/ Refuses(e) /\ Raise
    /\ UNCHANGED <<rules, calls, ran, finished>>

(* Mutant: a violation found afterwards is only recorded on request.       *)
BugPostCheck ==
    /\ At("post")
    /\ LET blocked == ForbiddenAfter(Top.action, Top.effect)
           e == Pending(Top)
       IN  IF Top.rt \in RecordsAll
           THEN /\ Generate(Top.rt)
                /\ \/ Records(e) /\ Return(Top, e.id, blocked)
                   \/ Refuses(e) /\ Raise
           ELSE Return(Top, None, blocked) /\ UNCHANGED <<trace, used>>
    /\ UNCHANGED <<rules, calls, ran, finished>>

(* The decision after the action, with the rules as they are now.          *)
PostCheck ==
    /\ At("post")
    /\ LET blocked == ForbiddenAfter(Top.action, Top.effect)
           e == Pending(Top)
       IN  IF blocked \/ Top.rt \in RecordsAll
           THEN /\ Generate(Top.rt)
                /\ \/ Records(e) /\ Return(Top, e.id, blocked)
                   \/ Refuses(e) /\ Raise
           ELSE Return(Top, None, blocked) /\ UNCHANGED <<trace, used>>
    /\ UNCHANGED <<rules, calls, ran, finished>>

(* User code changes the ledger, or appends to the shared store.           *)
ChangeRules(R) ==
    /\ UserCode
    /\ rules' = R
    /\ UNCHANGED <<trace, used, calls, stack, ran, finished, answers>>

UserRecords(e) ==
    /\ UserCode
    /\ Records(e)
    /\ UNCHANGED <<rules, used, calls, stack, ran, finished, answers>>

Next ==
    \/ \E r \in Runtimes, a \in Actions, p \in Pointers, c \in GivenIds \cup {None} :
          Execute(r, a, p, c)
    \/ RecordBlock \/ RecordPre \/ RecordCall
    \/ Invoke \/ SignatureFails
    \/ \E x \in Effects : ExecutorEnds(x)
    \/ Interrupt
    \/ RecordResult \/ PostCheck
    \/ \E R \in SUBSET Rules : ChangeRules(R)
    \/ \E e \in UserEvents : UserRecords(e)

Spec == Init /\ [][Next]_vars

-------------------------------------------------------------------------------
(* The types of the variables. *)
TypeOK ==
    /\ trace \in Store
    /\ rules \subseteq Rules
    /\ used \in [Runtimes -> 0..MaxIds] /\ calls \in [Runtimes -> 0..MaxIds]
    /\ stack \in Seq(Frame)
    /\ ran \in Seq(EventIds) /\ finished \subseteq EventIds
    /\ answers \subseteq Answer

(* Whatever executors, nested executions and user code appended in the     *)
(* meantime, the store can refuse an event of execute only because its     *)
(* identifier, its call or its result is taken already, never because of   *)
(* its number or its parent.                                               *)
OnlyDuplicatesRefused ==
    \A pc \in {"block", "pre", "call", "result", "post"} :
        At(pc) /\ used[Top.rt] < MaxIds /\ calls[Top.rt] < MaxIds =>
            LET e == Pending(Top)
            IN  \/ Accepts(trace, e)
                \/ trace.byId[e.id] # None
                \/ e.kind = "TOOL_CALL" /\ trace.calls[SlotOf(e)] # None
                \/ e.kind = "TOOL_RESULT" /\ trace.results[SlotOf(e)] # None

(* An executor is entered only for an action that no active rule forbids   *)
(* at that moment, and for a call of that action which is on record, with  *)
(* no result, and for which no executor was ever entered before.           *)
EffectsDeclared ==
    [][ran' # ran =>
        LET id == Top.call IN
        /\ ran' = Append(ran, id) /\ id \notin {ran[i] : i \in DOMAIN ran}
        /\ ~Forbidden(Top.action)
        /\ trace.byId[id] # None
        /\ trace.byId[id].kind = "TOOL_CALL" /\ trace.byId[id].call = Top.cid
        /\ trace.results[SlotOf(trace.byId[id])] = None]_vars

(* What execute returns is on record: the pointers lead to the call, its   *)
(* own result and the decision on that result; a violation found after the *)
(* action is recorded, and "executed" says whether the executor ran.       *)
AnswersBacked ==
    \A s \in answers :
        /\ s.blocked => s.pre # None /\ s.call = None /\ ~s.executed
        /\ ~s.blocked =>
              /\ {s.call, s.result} \cap {None} = {}
              /\ trace.byId[s.call].kind = "TOOL_CALL"
              /\ trace.byId[s.result].kind = "TOOL_RESULT"
              /\ trace.byId[s.result].parent = s.call
              /\ trace.byId[s.result].call = trace.byId[s.call].call
              /\ s.executed <=> s.call \in finished
        /\ s.post # None => trace.byId[s.post].parent = s.result
        /\ s.postBlocked => s.post # None

(* Once execute is over, the result of an executor that ended is on record *)
(* for its call (session.py: "tool executor is invoked exactly once;       *)
(* ToolCall and ToolResult appended").                                     *)
EffectsRecorded ==
    \A id \in finished :
        \/ \E i \in DOMAIN stack : stack[i].call = id
        \/ trace.results[SlotOf(trace.byId[id])] # None
===============================================================================
