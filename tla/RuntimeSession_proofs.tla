------------------------- MODULE RuntimeSession_proofs -------------------------
(***************************************************************************)
(* Proofs about RuntimeSession for any number of runtimes, executions and  *)
(* events, any nesting and any identifier generators.  Numbers are those   *)
(* of Python: without an upper bound.                                      *)
(***************************************************************************)
EXTENDS RuntimeSession, TraceStore_proofs

UnboundedNumbers == Numbers = Nat

Known(id) == trace.byId[id] # None

(* The last number of a trace is that of its last event, and a result has  *)
(* a call.                                                                 *)
StoreOK(s) ==
    /\ \A t \in Traces :
          s.lastSeq[t] = IF s.byTrace[t] = <<>> THEN -1
                         ELSE s.byTrace[t][Len(s.byTrace[t])].sequence
    /\ \A k \in Slot : s.results[k] # None => s.calls[k] # None
StoreInv == StoreOK(trace)

(* What was on record in s is on record in u.                              *)
Extends(s, u) ==
    /\ \A id \in EventIds : s.byId[id] # None => u.byId[id] = s.byId[id]
    /\ \A k \in Slot : /\ s.calls[k] # None => u.calls[k] # None
                       /\ s.results[k] # None => u.results[k] # None

(* The pointer of an action that is used as parent is in the right trace.  *)
PointerOK(f) ==
    f.pointer # None /\ f.pointer.trace = TraceOf[f.rt] /\ Known(f.pointer.id)
        => trace.byId[f.pointer.id].trace = TraceOf[f.rt]

SlotOfCall(f) == <<TraceOf[f.rt], f.cid>>

CallRecorded(f) ==
    /\ f.call # None /\ f.cid # None /\ Known(f.call)
    /\ trace.byId[f.call].kind = "TOOL_CALL" /\ trace.byId[f.call].call = f.cid
    /\ trace.byId[f.call].trace = TraceOf[f.rt]
    /\ trace.calls[SlotOfCall(f)] # None

ResultRecorded(f) ==
    /\ f.result # None /\ Known(f.result)
    /\ trace.byId[f.result].kind = "TOOL_RESULT" /\ trace.byId[f.result].call = f.cid
    /\ trace.byId[f.result].parent = f.call /\ trace.byId[f.result].trace = TraceOf[f.rt]
    /\ trace.results[SlotOfCall(f)] # None

WasRun(id) == \E i \in 1..Len(ran) : ran[i] = id

(* What holds of a frame at each of its control points.                    *)
FrameOK(f) ==
    /\ f.pre # None => Known(f.pre) /\ trace.byId[f.pre].trace = TraceOf[f.rt]
    /\ f.pc \in {"block", "pre"} => f.pre = None
    /\ f.pc \in {"block", "pre", "call"} => f.call = None /\ ~f.executed /\ PointerOK(f)
    /\ f.pc \notin {"block", "pre", "call"} => CallRecorded(f)
    /\ f.pc = "invoke" => /\ ~f.executed /\ f.call \notin finished /\ ~WasRun(f.call)
                          /\ trace.results[SlotOfCall(f)] = None
    /\ f.pc = "running" => f.executed /\ f.call \notin finished
    /\ f.pc = "result" => (f.executed <=> f.call \in finished)
    /\ f.pc = "post" => f.executed /\ f.call \in finished /\ ResultRecorded(f)
    /\ f.pc # "post" => f.result = None

StackInv ==
    \A i \in 1..Len(stack) :
        /\ FrameOK(stack[i])
        /\ i < Len(stack) => stack[i].pc = "running"
        /\ \A j \in 1..Len(stack) : i # j /\ stack[i].call # None => stack[i].call # stack[j].call

(* Between the decision and the executor no user code runs.                *)
DecisionInv == At("pre") \/ At("call") \/ At("invoke") => ~Forbidden(Top.action)

(* What holds of a result that execute returned. *)
AnswerOK(s) ==
    /\ s.blocked => s.pre # None /\ s.call = None /\ ~s.executed
    /\ ~s.blocked =>
          /\ s.call # None /\ s.result # None
          /\ Known(s.call) /\ trace.byId[s.call].kind = "TOOL_CALL"
          /\ Known(s.result) /\ trace.byId[s.result].kind = "TOOL_RESULT"
          /\ trace.byId[s.result].parent = s.call
          /\ trace.byId[s.result].call = trace.byId[s.call].call
          /\ s.executed <=> s.call \in finished
          /\ \A i \in 1..Len(stack) : stack[i].call # s.call
    /\ s.post # None => Known(s.post) /\ trace.byId[s.post].parent = s.result
    /\ s.postBlocked => s.post # None

HistoryInv ==
    /\ \A i \in 1..Len(ran) : Known(ran[i])
    /\ \A id \in finished : Known(id)
    /\ \A s \in answers : AnswerOK(s)

RInv == TypeOK /\ StoreInv /\ StackInv /\ DecisionInv /\ HistoryInv

-----------------------------------------------------------------------------
(* The store                                                               *)

LEMMA EmptyOK == StoreOK(EmptyStore)
  BY DEF StoreOK, EmptyStore

LEMMA AppendedOK ==
    ASSUME NEW s \in Store, NEW e \in Event, StoreOK(s), Accepts(s, e)
    PROVE  /\ Appended(s, e) \in Store /\ StoreOK(Appended(s, e))
           /\ Extends(s, Appended(s, e))
           /\ s.byId[e.id] = None /\ Appended(s, e).byId[e.id] = e
           /\ \A id \in EventIds : id # e.id => Appended(s, e).byId[id] = s.byId[id]
           /\ e.kind = "TOOL_CALL" => /\ Appended(s, e).calls[SlotOf(e)] # None
                                      /\ Appended(s, e).results[SlotOf(e)] = None
           /\ e.kind = "TOOL_RESULT" => Appended(s, e).results[SlotOf(e)] # None
<1> DEFINE a == Appended(s, e)
<1>1. a \in Store
  BY AppendedType
<1>2. /\ a.byId = [s.byId EXCEPT ![e.id] = e]
      /\ a.byTrace = [s.byTrace EXCEPT ![e.trace] = Append(@, e)]
      /\ a.lastSeq = [s.lastSeq EXCEPT ![e.trace] = e.sequence]
      /\ a.calls = IF e.kind = "TOOL_CALL" THEN [s.calls EXCEPT ![SlotOf(e)] = e] ELSE s.calls
      /\ a.results = IF e.kind = "TOOL_RESULT" THEN [s.results EXCEPT ![SlotOf(e)] = e]
                     ELSE s.results
  BY AppendedFields
<1>3. /\ s.byId \in [EventIds -> Event \cup {None}]
      /\ s.byTrace \in [Traces -> Seq(Event)]
      /\ s.lastSeq \in [Traces -> Numbers \cup {-1}]
      /\ s.calls \in [Slot -> Event \cup {None}]
      /\ s.results \in [Slot -> Event \cup {None}]
  BY StoreType
<1>4. /\ e.id \in EventIds /\ e.trace \in Traces /\ e # None /\ e.kind \in Kind
      /\ e.kind # "OTHER" => SlotOf(e) \in Slot
  BY EventType
<1> HIDE DEF a
<1>5. s.byId[e.id] = None /\ NewCall(s, e) /\ AnswersCall(s, e)
  BY DEF Accepts
<1>6. a.byId[e.id] = e /\ \A id \in EventIds : id # e.id => a.byId[id] = s.byId[id]
  BY <1>2, <1>3, <1>4
<1>7. e.kind = "TOOL_CALL" =>
        /\ a.calls[SlotOf(e)] = e /\ \A k \in Slot : k # SlotOf(e) => a.calls[k] = s.calls[k]
        /\ a.results = s.results
        /\ s.calls[SlotOf(e)] = None /\ s.results[SlotOf(e)] = None
  BY <1>2, <1>3, <1>4, <1>5 DEF NewCall, StoreOK
<1>8. e.kind = "TOOL_RESULT" =>
        /\ a.results[SlotOf(e)] = e /\ \A k \in Slot : k # SlotOf(e) => a.results[k] = s.results[k]
        /\ a.calls = s.calls
        /\ s.calls[SlotOf(e)] # None
  BY <1>2, <1>3, <1>4, <1>5 DEF AnswersCall
<1>9. e.kind = "OTHER" => a.calls = s.calls /\ a.results = s.results
  BY <1>2
<1>10. \A k \in Slot : /\ s.calls[k] # None => a.calls[k] # None
                       /\ s.results[k] # None => a.results[k] # None
                       /\ a.results[k] # None => a.calls[k] # None
  BY <1>4, <1>7, <1>8, <1>9 DEF StoreOK, Kind
<1>11. Extends(s, a)
  BY <1>5, <1>6, <1>10 DEF Extends
<1>12. ASSUME NEW t \in Traces
       PROVE  a.lastSeq[t] = IF a.byTrace[t] = <<>> THEN -1 ELSE a.byTrace[t][Len(a.byTrace[t])].sequence
  <2>1. CASE t # e.trace
    BY <1>2, <1>3, <2>1 DEF StoreOK
  <2>2. CASE t = e.trace
    <3>1. PICK b \in Seq(Event) : b = s.byTrace[t]
      BY <1>3
    <3>2. a.byTrace[t] = Append(b, e) /\ a.lastSeq[t] = e.sequence
      BY <1>2, <1>3, <2>2, <3>1
    <3>3. Len(Append(b, e)) = Len(b) + 1 /\ Len(b) \in Nat /\ Append(b, e)[Len(b) + 1] = e
      BY AppendAt
    <3>4. Append(b, e) # <<>>
      BY <3>3
    <3> QED BY <3>2, <3>3, <3>4
  <2> QED BY <2>1, <2>2
<1> QED
  BY <1>1, <1>4, <1>5, <1>6, <1>7, <1>8, <1>10, <1>11, <1>12 DEF a, StoreOK

(* One append of the next-state relation.                                  *)
LEMMA RecordsOK ==
    ASSUME TypeOK, StoreInv, NEW e \in Event, Records(e)
    PROVE  /\ trace' \in Store /\ StoreInv' /\ Extends(trace, trace')
           /\ trace.byId[e.id] = None /\ trace'.byId[e.id] = e
           /\ \A id \in EventIds : id # e.id => trace'.byId[id] = trace.byId[id]
           /\ e.kind = "TOOL_CALL" => /\ trace'.calls[SlotOf(e)] # None
                                      /\ trace'.results[SlotOf(e)] = None
           /\ e.kind = "TOOL_RESULT" => trace'.results[SlotOf(e)] # None
<1>1. trace \in Store /\ StoreOK(trace) /\ Accepts(trace, e) /\ trace' = Appended(trace, e)
  BY DEF TypeOK, StoreInv, Records
<1> QED
  BY <1>1, AppendedOK DEF StoreInv

LEMMA SameStore ==
    ASSUME TypeOK, StoreInv, UNCHANGED trace
    PROVE  trace' \in Store /\ StoreInv' /\ Extends(trace, trace')
  BY DEF TypeOK, StoreInv, Extends

-----------------------------------------------------------------------------
(* The stack                                                               *)

LEMMA StackType ==
    ASSUME TypeOK, stack # <<>>
    PROVE  /\ Len(stack) \in Nat \ {0} /\ Len(stack) \in 1..Len(stack)
           /\ Top \in Frame
           /\ \A i \in 1..Len(stack) : stack[i] \in Frame
           /\ Pop \in Seq(Frame) /\ Len(Pop) = Len(stack) - 1
           /\ \A i \in 1..Len(Pop) : Pop[i] = stack[i] /\ i \in 1..Len(stack)
<1>1. stack \in Seq(Frame)
  BY DEF TypeOK
<1>2. Len(stack) \in Nat \ {0}
  BY <1>1
<1>3. Len(stack) \in 1..Len(stack) /\ Top \in Frame
  BY <1>1, <1>2 DEF Top
<1>4. \A i \in 1..Len(stack) : stack[i] \in Frame
  BY <1>1
<1>5. /\ SubSeq(stack, 1, Len(stack) - 1) \in Seq(Frame)
      /\ Len(SubSeq(stack, 1, Len(stack) - 1)) = Len(stack) - 1
      /\ \A i \in 1..(Len(stack) - 1) : SubSeq(stack, 1, Len(stack) - 1)[i] = stack[i]
  <2>1. PICK n \in Int : n = Len(stack) - 1
    BY <1>2
  <2>2. \A i \in 1..n : stack[i] \in Frame
    BY <1>2, <1>4, <2>1
  <2>3. /\ SubSeq(stack, 1, n) \in Seq(Frame)
        /\ Len(SubSeq(stack, 1, n)) = IF 1 <= n THEN n - 1 + 1 ELSE 0
        /\ \A i \in 1..(n - 1 + 1) : SubSeq(stack, 1, n)[i] = stack[1 + i - 1]
    BY <2>2, SubSeqProperties
  <2> QED BY <1>2, <2>1, <2>3
<1> QED
  BY <1>2, <1>3, <1>4, <1>5 DEF Pop

LEMMA ContinueType ==
    ASSUME TypeOK, stack # <<>>, NEW g \in Frame
    PROVE  /\ Continue(g) \in Seq(Frame) /\ Len(Continue(g)) = Len(stack) /\ Continue(g) # <<>>
           /\ Continue(g)[Len(stack)] = g
           /\ \A i \in 1..Len(stack) : i < Len(stack) => Continue(g)[i] = stack[i]
<1>1. stack \in Seq(Frame) /\ Len(stack) \in Nat \ {0}
  BY StackType DEF TypeOK
<1>2. Continue(g) \in Seq(Frame) /\ Len(Continue(g)) = Len(stack)
  BY <1>1 DEF Continue
<1>3. /\ Continue(g)[Len(stack)] = g
      /\ \A i \in 1..Len(stack) : i < Len(stack) => Continue(g)[i] = stack[i]
  BY <1>1 DEF Continue
<1> QED
  BY <1>1, <1>2, <1>3

(* A frame whose executor runs is not disturbed by what is recorded, nor   *)
(* by the end of another executor.                                         *)
LEMMA RunningKept ==
    ASSUME TypeOK, Extends(trace, trace'), NEW f \in Frame, f.pc = "running", FrameOK(f),
           f.call \notin finished'
    PROVE  FrameOK(f)' /\ Known(f.call)
<1>1. /\ f.pre \in EventIds \cup {None} /\ f.call \in EventIds \cup {None} /\ f.rt \in Runtimes
      /\ f.cid \in CallIds \cup {None}
  BY DEF Frame
<1>2. CallRecorded(f) /\ f.executed /\ f.result = None
  BY DEF FrameOK
<1>3. SlotOfCall(f) \in Slot
  BY <1>1, <1>2, RuntimeAssumption DEF CallRecorded, SlotOfCall, Slot
<1>4. CallRecorded(f)' /\ Known(f.call)
  BY <1>1, <1>2, <1>3 DEF CallRecorded, Extends, Known, SlotOfCall
<1>5. f.pre # None => (Known(f.pre) /\ trace.byId[f.pre].trace = TraceOf[f.rt])'
  BY <1>1 DEF FrameOK, Extends, Known
<1> QED
  BY <1>2, <1>4, <1>5 DEF FrameOK

(* All frames below the innermost have their executors running.            *)
LEMMA LowerKept ==
    ASSUME TypeOK, StackInv, stack # <<>>, Extends(trace, trace'),
           finished' = finished \/ (Top.call # None /\ finished' = finished \cup {Top.call})
    PROVE  \A i \in 1..Len(stack) : \A f \in Frame : i < Len(stack) /\ f = stack[i] =>
              f.pc = "running" /\ FrameOK(f)' /\ Known(f.call)
<1> TAKE i \in 1..Len(stack)
<1> TAKE f \in Frame
<1>2. ASSUME i < Len(stack), f = stack[i]
      PROVE  f.pc = "running" /\ FrameOK(f)' /\ Known(f.call)
  <2>1. f.pc = "running" /\ FrameOK(f) /\ (Top.call # None => f.call # Top.call)
    BY <1>2, StackType DEF StackInv, Top
  <2>2. f.call \notin finished'
    BY <2>1 DEF FrameOK
  <2> QED BY <2>1, <2>2, RunningKept
<1> QED BY <1>2

-----------------------------------------------------------------------------
(* The shapes of a step                                                    *)

(* No step puts a call that was already on record into a frame.            *)
CallsFresh ==
    \A i \in 1..Len(stack') :
        \/ stack'[i].call = None \/ ~Known(stack'[i].call)
        \/ \E j \in 1..Len(stack) : stack[j].call = stack'[i].call

FinishedStep ==
    \/ finished' = finished
    \/ /\ stack # <<>> /\ Top.call # None /\ Known(Top.call)
       /\ finished' = finished \cup {Top.call}

RanStep ==
    \/ ran' = ran
    \/ stack # <<>> /\ Top.call # None /\ Known(Top.call) /\ ran' = Append(ran, Top.call)

Counted == used' \in [Runtimes -> 0..MaxIds] /\ calls' \in [Runtimes -> 0..MaxIds]

LEMMA AnswerKept ==
    ASSUME TypeOK, Extends(trace, trace'), CallsFresh, FinishedStep, NEW s \in answers, AnswerOK(s)
    PROVE  AnswerOK(s)'
<1>1. /\ s.call \in EventIds \cup {None} /\ s.result \in EventIds \cup {None}
      /\ s.post \in EventIds \cup {None}
  BY DEF TypeOK, Answer
<1>2. s.post # None => (Known(s.post) /\ trace.byId[s.post].parent = s.result)'
  BY <1>1 DEF AnswerOK, Extends, Known
<1>3. ASSUME ~s.blocked
      PROVE  /\ Known(s.call)' /\ trace'.byId[s.call] = trace.byId[s.call]
             /\ Known(s.result)' /\ trace'.byId[s.result] = trace.byId[s.result]
             /\ \A i \in 1..Len(stack') : stack'[i].call # s.call
             /\ s.call \in finished' <=> s.call \in finished
  <2>1. s.call # None /\ s.result # None /\ Known(s.call) /\ Known(s.result)
    BY <1>3 DEF AnswerOK
  <2>2. /\ Known(s.call)' /\ trace'.byId[s.call] = trace.byId[s.call]
        /\ Known(s.result)' /\ trace'.byId[s.result] = trace.byId[s.result]
    BY <1>1, <2>1 DEF Extends, Known
  <2>3. \A i \in 1..Len(stack) : stack[i].call # s.call
    BY <1>3 DEF AnswerOK
  <2>4. \A i \in 1..Len(stack') : stack'[i].call # s.call
    BY <2>1, <2>3 DEF CallsFresh
  <2>5. s.call \in finished' <=> s.call \in finished
    BY <2>3, StackType DEF FinishedStep, Top
  <2> QED BY <2>2, <2>4, <2>5
<1> QED
  BY <1>2, <1>3 DEF AnswerOK

LEMMA HistoryStep ==
    ASSUME TypeOK, HistoryInv, Extends(trace, trace'), CallsFresh, FinishedStep, RanStep,
           \A s \in answers' : s \in answers \/ AnswerOK(s)'
    PROVE  HistoryInv' /\ ran' \in Seq(EventIds) /\ finished' \subseteq EventIds
<1>1. /\ ran \in Seq(EventIds) /\ finished \subseteq EventIds
      /\ stack # <<>> => Top.call \in EventIds \cup {None}
  BY StackType DEF TypeOK, Frame
<1>2. \A id \in EventIds : Known(id) => Known(id)'
  BY DEF Extends, Known
<1>3. finished' \subseteq EventIds /\ \A id \in finished' : Known(id)'
  BY <1>1, <1>2 DEF FinishedStep, HistoryInv
<1>4. ran' \in Seq(EventIds) /\ \A i \in 1..Len(ran') : trace'.byId[ran'[i]] # None
  <2>1. CASE ran' = ran
    BY <1>1, <1>2, <2>1 DEF HistoryInv, Known
  <2>2. CASE ran' # ran
    <3>1. PICK id \in EventIds : id = Top.call /\ Known(id) /\ ran' = Append(ran, id)
      BY <1>1, <2>2 DEF RanStep
    <3>2. /\ ran' \in Seq(EventIds) /\ Len(ran') = Len(ran) + 1 /\ Len(ran) \in Nat
          /\ ran'[Len(ran) + 1] = id /\ \A i \in 1..Len(ran) : ran'[i] = ran[i] /\ ran[i] \in EventIds
      BY <1>1, <3>1
    <3>3. \A i \in 1..Len(ran') : i \in 1..Len(ran) \/ i = Len(ran) + 1
      BY <3>2
    <3>4. \A i \in 1..Len(ran) : Known(ran[i])
      BY DEF HistoryInv
    <3>5. \A i \in 1..Len(ran') : ran'[i] \in EventIds /\ Known(ran'[i])
      BY <3>1, <3>2, <3>3, <3>4
    <3> QED BY <1>2, <3>2, <3>5 DEF Known
  <2> QED BY <2>1, <2>2
<1>5. \A s \in answers' : AnswerOK(s)'
  BY AnswerKept DEF HistoryInv
<1> QED
  BY <1>3, <1>4, <1>5 DEF HistoryInv, Known

(* The innermost execution goes on.                                        *)
LEMMA ContinueStep ==
    ASSUME RInv, stack # <<>>, NEW g \in Frame, stack' = Continue(g),
           trace' \in Store, StoreInv', Extends(trace, trace'), Counted,
           FinishedStep, RanStep, UNCHANGED <<rules, answers>>,
           FrameOK(g)', g.call = Top.call \/ (g.call # None /\ ~Known(g.call)),
           g.pc \in {"pre", "call", "invoke"} => ~Forbidden(g.action)
    PROVE  RInv'
<1>1. TypeOK /\ StackInv /\ HistoryInv
  BY DEF RInv
<1>2. /\ stack' \in Seq(Frame) /\ Len(stack') = Len(stack) /\ stack' # <<>>
      /\ stack'[Len(stack)] = g
      /\ \A i \in 1..Len(stack) : i < Len(stack) => stack'[i] = stack[i]
      /\ Len(stack) \in Nat \ {0} /\ Len(stack) \in 1..Len(stack) /\ Top = stack[Len(stack)]
  BY <1>1, ContinueType, StackType DEF Top
<1>3. \A i \in 1..Len(stack) : \A f \in Frame : i < Len(stack) /\ f = stack[i] =>
         f.pc = "running" /\ FrameOK(f)' /\ Known(f.call)
  BY <1>1, LowerKept DEF FinishedStep
<1>4. Top' = g
  BY <1>2 DEF Top
<1>5. CallsFresh
  <2> SUFFICES ASSUME NEW i \in 1..Len(stack')
               PROVE  \/ stack'[i].call = None \/ ~Known(stack'[i].call)
                      \/ \E j \in 1..Len(stack) : stack[j].call = stack'[i].call
    BY DEF CallsFresh
  <2>1. CASE i < Len(stack)
    BY <1>2, <2>1
  <2>2. CASE i = Len(stack)
    BY <1>2, <2>2
  <2> QED BY <1>2, <2>1, <2>2
<1>6. HistoryInv' /\ ran' \in Seq(EventIds) /\ finished' \subseteq EventIds
  BY <1>1, <1>5, HistoryStep
<1>7. TypeOK'
  BY <1>1, <1>2, <1>6 DEF TypeOK, Counted
<1>8. DecisionInv'
  BY <1>4 DEF DecisionInv, At, Forbidden
<1>9. StackInv'
  <2>1. \A i \in 1..Len(stack') : \A f \in Frame : f = stack'[i] =>
            FrameOK(f)' /\ (i < Len(stack') => f.pc = "running")
    BY <1>2, <1>3
  <2>2. ASSUME NEW i \in 1..Len(stack')
        PROVE  FrameOK(stack[i])' /\ (i < Len(stack') => stack'[i].pc = "running")
    <3>1. PICK f \in Frame : f = stack'[i]
      BY <1>2
    <3>2. FrameOK(f)' /\ (i < Len(stack') => f.pc = "running")
      BY <2>1, <3>1
    <3> QED BY <3>1, <3>2
  <2>3. ASSUME NEW i \in 1..Len(stack'), NEW j \in 1..Len(stack'), i # j, stack'[i].call # None
        PROVE  stack'[i].call # stack'[j].call
    <3>1. \A k, l \in 1..Len(stack) : k # l /\ stack[k].call # None => stack[k].call # stack[l].call
      BY <1>1 DEF StackInv
    <3>f. \A k \in 1..Len(stack) : stack[k] \in Frame
      BY <1>1, StackType
    <3>2. \A k \in 1..Len(stack) : k < Len(stack) => stack[k].call # g.call
      BY <1>2, <1>3, <3>1, <3>f DEF FrameOK, CallRecorded
    <3>3. \A k \in 1..Len(stack) : k < Len(stack) \/ k = Len(stack)
      BY <1>2
    <3> QED BY <1>2, <2>3, <3>1, <3>2, <3>3
  <2> QED BY <2>2, <2>3 DEF StackInv
<1> QED
  BY <1>6, <1>7, <1>8, <1>9 DEF RInv

(* The innermost execution ends; what it returns is on record.             *)
LEMMA PopStep ==
    ASSUME RInv, stack # <<>>, stack' = Pop,
           trace' \in Store, StoreInv', Extends(trace, trace'), Counted,
           UNCHANGED <<rules, ran, finished>>, answers' \subseteq Answer,
           \A s \in answers' : s \in answers \/ AnswerOK(s)'
    PROVE  RInv'
<1>1. TypeOK /\ StackInv /\ HistoryInv
  BY DEF RInv
<1>2. /\ stack' \in Seq(Frame) /\ Len(stack') = Len(stack) - 1 /\ Len(stack) \in Nat \ {0}
      /\ \A i \in 1..Len(stack') : stack'[i] = stack[i] /\ i \in 1..Len(stack) /\ i < Len(stack)
                                   /\ stack[i] \in Frame
  BY <1>1, StackType
<1>3. \A i \in 1..Len(stack) : \A f \in Frame : i < Len(stack) /\ f = stack[i] =>
         f.pc = "running" /\ FrameOK(f)' /\ Known(f.call)
  BY <1>1, LowerKept
<1>4. CallsFresh
  BY <1>2 DEF CallsFresh
<1>5. FinishedStep /\ RanStep
  BY DEF FinishedStep, RanStep
<1>6. HistoryInv' /\ ran' \in Seq(EventIds) /\ finished' \subseteq EventIds
  BY <1>1, <1>4, <1>5, HistoryStep
<1>7. TypeOK'
  BY <1>1, <1>2, <1>6 DEF TypeOK, Counted
<1>8. \A i \in 1..Len(stack') : stack'[i].pc = "running"
  BY <1>2, <1>3
<1>9. DecisionInv'
  <2>1. stack' # <<>> => Len(stack') \in 1..Len(stack')
    BY <1>2
  <2> QED BY <1>8, <2>1 DEF DecisionInv, At, Top
<1>10. StackInv'
  <2>1. ASSUME NEW i \in 1..Len(stack')
        PROVE  FrameOK(stack[i])'
    <3>1. PICK f \in Frame : f = stack'[i]
      BY <1>2
    <3>2. FrameOK(f)'
      BY <1>2, <1>3, <3>1
    <3> QED BY <3>1, <3>2
  <2>2. ASSUME NEW i \in 1..Len(stack'), NEW j \in 1..Len(stack'), i # j, stack'[i].call # None
        PROVE  stack'[i].call # stack'[j].call
    BY <1>1, <1>2, <2>2 DEF StackInv
  <2> QED BY <1>8, <2>1, <2>2 DEF StackInv
<1> QED
  BY <1>6, <1>7, <1>9, <1>10 DEF RInv

(* User code is in control: all frames have their executors running.       *)
LEMMA UserFrames ==
    ASSUME TypeOK, StackInv, UserCode, Extends(trace, trace'), UNCHANGED finished
    PROVE  \A i \in 1..Len(stack) : \A f \in Frame : f = stack[i] => f.pc = "running" /\ FrameOK(f)'
<1> TAKE i \in 1..Len(stack)
<1> TAKE f \in Frame
<1>1. ASSUME f = stack[i]
      PROVE  f.pc = "running" /\ FrameOK(f)'
  <2>1. stack # <<>> /\ i \in 1..Len(stack) /\ Len(stack) \in Nat \ {0}
    <3>1. stack \in Seq(Frame)
      BY DEF TypeOK
    <3>2. stack # <<>>
      BY <3>1
    <3> QED BY <3>2, StackType
  <2>2. f.pc = "running"
    BY <1>1, <2>1 DEF StackInv, UserCode, At, Top
  <2>3. FrameOK(f)
    BY <1>1 DEF StackInv
  <2>4. f.call \notin finished'
    BY <2>2, <2>3 DEF FrameOK
  <2> QED BY <2>2, <2>3, <2>4, RunningKept
<1> QED BY <1>1

(* User code records an event or changes the rules.                        *)
LEMMA UserStep ==
    ASSUME RInv, UserCode, trace' \in Store, StoreInv', Extends(trace, trace'),
           rules' \subseteq Rules, UNCHANGED <<used, calls, stack, ran, finished, answers>>
    PROVE  RInv'
<1>1. TypeOK /\ StackInv /\ HistoryInv
  BY DEF RInv
<1>2. CallsFresh /\ FinishedStep /\ RanStep
  BY DEF CallsFresh, FinishedStep, RanStep
<1>3. HistoryInv' /\ ran' \in Seq(EventIds) /\ finished' \subseteq EventIds
  BY <1>1, <1>2, HistoryStep
<1>4. TypeOK'
  BY <1>1, <1>3 DEF TypeOK
<1>5. DecisionInv'
  BY DEF UserCode, DecisionInv, At, Top
<1>6. StackInv'
  <2>1. ASSUME NEW i \in 1..Len(stack')
        PROVE  FrameOK(stack[i])'
    <3>1. PICK f \in Frame : f = stack[i]
      BY <1>1 DEF TypeOK
    <3>2. FrameOK(f)'
      BY <1>1, <3>1, UserFrames
    <3> QED BY <3>1, <3>2
  <2> QED BY <1>1, <2>1 DEF StackInv
<1> QED
  BY <1>3, <1>4, <1>5, <1>6 DEF RInv

-----------------------------------------------------------------------------
(* The events of execute                                                   *)

LEMMA NumberGrows ==
    ASSUME UnboundedNumbers, TypeOK, StoreInv, NEW t \in Traces
    PROVE  NextSequence(t) \in Numbers /\ NextSequence(t) > trace.lastSeq[t]
<1>1. PICK b \in Seq(Event) : b = trace.byTrace[t]
  BY StoreType DEF TypeOK
<1>2. CASE b = <<>>
  <2>1. NextSequence(t) = 0 /\ trace.lastSeq[t] = -1
    BY <1>1, <1>2 DEF NextSequence, StoreInv, StoreOK
  <2> QED BY <2>1 DEF UnboundedNumbers
<1>3. CASE b # <<>>
  <2>1. PICK e \in Event : e = b[Len(b)]
    BY <1>3
  <2>2. NextSequence(t) = e.sequence + 1 /\ trace.lastSeq[t] = e.sequence
    BY <1>1, <1>3, <2>1 DEF NextSequence, StoreInv, StoreOK
  <2>3. e.sequence \in Nat
    BY EventType
  <2> QED BY <2>2, <2>3 DEF UnboundedNumbers
<1> QED BY <1>2, <1>3

(* The call id of an event at a control point. *)
CallOf(f) ==
    IF f.pc = "call" THEN CallIdOf(f) ELSE IF f.pc = "result" THEN f.cid ELSE None
KindOf(f) ==
    IF f.pc = "call" THEN "TOOL_CALL" ELSE IF f.pc = "result" THEN "TOOL_RESULT" ELSE "OTHER"
ParentOf(f) ==
    IF f.pc \in {"block", "pre"} THEN ActionParent(f)
    ELSE IF f.pc = "call" THEN CallParent(f) ELSE IF f.pc = "result" THEN f.call ELSE f.result

Recording(f) == f.pc \in {"block", "pre", "call", "result", "post"}

LEMMA PendingIs ==
    ASSUME NEW f \in Frame, Recording(f)
    PROVE  Pending(f) = NewEvent(f, KindOf(f), ParentOf(f), CallOf(f))
<1>1. CASE f.pc \in {"block", "pre"}
  BY <1>1 DEF Pending, KindOf, ParentOf, CallOf
<1>2. CASE f.pc = "call"
  BY <1>2 DEF Pending, KindOf, ParentOf, CallOf
<1>3. CASE f.pc = "result"
  BY <1>3 DEF Pending, KindOf, ParentOf, CallOf
<1>4. CASE f.pc = "post"
  BY <1>4 DEF Pending, KindOf, ParentOf, CallOf
<1> QED BY <1>1, <1>2, <1>3, <1>4 DEF Recording

(* What execute appends is an event with the next number of its trace; its *)
(* parent is none, or an event of that trace.                              *)
LEMMA PendingEvent ==
    ASSUME UnboundedNumbers, TypeOK, StoreInv, NEW f \in Frame, FrameOK(f), Recording(f),
           used[f.rt] < MaxIds, f.pc = "call" => calls[f.rt] < MaxIds
    PROVE  /\ Pending(f) \in Event
           /\ Pending(f).id = EventId[f.rt][used[f.rt] + 1] /\ Pending(f).id \in EventIds
           /\ Pending(f).trace = TraceOf[f.rt] /\ Pending(f).trace \in Traces
           /\ Pending(f).sequence > trace.lastSeq[TraceOf[f.rt]]
           /\ Pending(f).kind = KindOf(f) /\ Pending(f).parent = ParentOf(f)
           /\ Pending(f).call = CallOf(f)
           /\ ParentKnown(trace, Pending(f))
<1>1. /\ f.rt \in Runtimes /\ TraceOf[f.rt] \in Traces /\ f.pointer \in Pointer \cup {None}
      /\ f.pre \in EventIds \cup {None} /\ f.call \in EventIds \cup {None}
      /\ f.result \in EventIds \cup {None}
      /\ f.given \in CallIds \cup {None} /\ f.cid \in CallIds \cup {None}
  BY RuntimeAssumption DEF Frame
<1>2. EventId[f.rt][used[f.rt] + 1] \in EventIds
  <2>1. used[f.rt] + 1 \in 1..MaxIds
    BY <1>1, RuntimeAssumption DEF TypeOK
  <2>2. EventId[f.rt] \in [1..MaxIds -> EventIds]
    BY <1>1, RuntimeAssumption
  <2> QED BY <2>1, <2>2
<1>3. NextSequence(TraceOf[f.rt]) \in Numbers /\ NextSequence(TraceOf[f.rt]) > trace.lastSeq[TraceOf[f.rt]]
  BY <1>1, NumberGrows
<1>4. /\ ActionParent(f) \in EventIds \cup {None}
      /\ ActionParent(f) # None /\ PointerOK(f) =>
            Known(ActionParent(f)) /\ trace.byId[ActionParent(f)].trace = TraceOf[f.rt]
  <2>1. f.pointer # None => f.pointer.id \in EventIds
    BY <1>1 DEF Pointer
  <2> QED BY <2>1 DEF ActionParent, PointerOK, Known
<1>5. /\ ParentOf(f) \in EventIds \cup {None}
      /\ ParentOf(f) # None => Known(ParentOf(f)) /\ trace.byId[ParentOf(f)].trace = TraceOf[f.rt]
  <2>1. CASE f.pc \in {"block", "pre"}
    BY <1>4, <2>1 DEF ParentOf, FrameOK
  <2>2. CASE f.pc = "call"
    BY <1>1, <1>4, <2>2 DEF ParentOf, CallParent, FrameOK
  <2>3. CASE f.pc = "result"
    BY <1>1, <2>3 DEF ParentOf, FrameOK, CallRecorded
  <2>4. CASE f.pc = "post"
    BY <1>1, <2>4 DEF ParentOf, FrameOK, ResultRecorded
  <2> QED BY <2>1, <2>2, <2>3, <2>4 DEF Recording
<1>6. /\ CallOf(f) \in CallIds \cup {None} /\ KindOf(f) \in Kind
      /\ KindOf(f) = "OTHER" <=> CallOf(f) = None
  <2>1. CASE f.pc = "call"
    <3>1. CallIdOf(f) \in CallIds
      <4>1. CASE f.given # None
        BY <1>1, <4>1 DEF CallIdOf
      <4>2. CASE f.given = None
        <5>1. calls[f.rt] + 1 \in 1..MaxIds
          BY <1>1, <2>1, RuntimeAssumption DEF TypeOK
        <5>2. NewCallId[f.rt] \in [1..MaxIds -> CallIds]
          BY <1>1, RuntimeAssumption
        <5> QED BY <4>2, <5>1, <5>2 DEF CallIdOf
      <4> QED BY <4>1, <4>2
    <3> QED BY <2>1, <3>1, TraceAssumption DEF CallOf, KindOf, Kind
  <2>2. CASE f.pc = "result"
    BY <1>1, <2>2, TraceAssumption DEF CallOf, KindOf, Kind, FrameOK, CallRecorded
  <2>3. CASE f.pc \in {"block", "pre", "post"}
    BY <2>3 DEF CallOf, KindOf, Kind
  <2> QED BY <2>1, <2>2, <2>3 DEF Recording
<1>7. Pending(f) = NewEvent(f, KindOf(f), ParentOf(f), CallOf(f))
  BY PendingIs
<1> HIDE DEF Frame, Recording
<1>8. /\ Pending(f).id = EventId[f.rt][used[f.rt] + 1]
      /\ Pending(f).trace = TraceOf[f.rt] /\ Pending(f).sequence = NextSequence(TraceOf[f.rt])
      /\ Pending(f).kind = KindOf(f) /\ Pending(f).parent = ParentOf(f)
      /\ Pending(f).call = CallOf(f)
  BY <1>7 DEF NewEvent
<1>9. Pending(f) \in Event
  BY <1>1, <1>2, <1>3, <1>5, <1>6, <1>7 DEF NewEvent, Event
<1> QED
  BY <1>1, <1>2, <1>3, <1>5, <1>8, <1>9 DEF ParentKnown, Known

-----------------------------------------------------------------------------
(* The actions                                                             *)

LEMMA AtFrame ==
    ASSUME RInv, NEW pc, At(pc)
    PROVE  \E f \in Frame : f = Top /\ f.pc = pc /\ FrameOK(f) /\ f.rt \in Runtimes /\ stack # <<>>
<1>1. stack # <<>> /\ TypeOK /\ StackInv
  BY DEF RInv, At
<1>2. Top \in Frame /\ FrameOK(Top) /\ Top.pc = pc
  BY <1>1, StackType DEF At, Top, StackInv
<1> QED BY <1>1, <1>2 DEF Frame

LEMMA Generated ==
    ASSUME TypeOK, NEW r \in Runtimes, Generate(r)
    PROVE  used[r] < MaxIds /\ used' \in [Runtimes -> 0..MaxIds]
  BY RuntimeAssumption DEF TypeOK, Generate

LEMMA RaiseStep ==
    ASSUME RInv, stack # <<>>, Raise, UNCHANGED <<trace, rules, ran, finished>>, Counted
    PROVE  RInv'
<1>1. TypeOK /\ StoreInv /\ answers \subseteq Answer
  BY DEF RInv, TypeOK
<1>2. trace' \in Store /\ StoreInv' /\ Extends(trace, trace')
  BY <1>1, SameStore
<1>3. stack' = Pop /\ answers' = answers
  BY DEF Raise
<1> QED
  BY <1>1, <1>2, <1>3, PopStep

LEMMA ExecuteStep ==
    ASSUME RInv, NEW r \in Runtimes, NEW a \in Actions, NEW p \in Pointers,
           NEW c \in GivenIds \cup {None}, Execute(r, a, p, c)
    PROVE  RInv'
<1>1. PICK g : /\ stack' = Append(stack, g)
               /\ g = [rt |-> r, action |-> a, pointer |-> p, given |-> c,
                       pc |-> IF Forbidden(a) THEN "block" ELSE IF r \in RecordsAll THEN "pre" ELSE "call",
                       pre |-> None, call |-> None, cid |-> None, result |-> None,
                       executed |-> FALSE, effect |-> NoEffect]
  BY DEF Execute
<1>2. TypeOK /\ StoreInv /\ StackInv /\ HistoryInv /\ UserCode
      /\ UNCHANGED <<trace, rules, used, calls, ran, finished, answers>>
  BY DEF RInv, Execute
<1>3. /\ g \in Frame
      /\ g.pc \in {"block", "pre", "call"} /\ g.call = None /\ g.pre = None /\ g.result = None
      /\ ~g.executed /\ g.pointer = p /\ g.rt = r /\ g.action = a
      /\ g.pc # "block" => ~Forbidden(a)
  <2>1. p \in Pointer \cup {None} /\ c \in CallIds \cup {None}
    BY RuntimeAssumption DEF Pointers
  <2> QED BY <1>1, <2>1, RuntimeAssumption DEF Frame
<1>4. /\ stack' \in Seq(Frame) /\ Len(stack') = Len(stack) + 1 /\ Len(stack) \in Nat
      /\ stack'[Len(stack) + 1] = g /\ stack' # <<>>
      /\ \A i \in 1..Len(stack) : stack'[i] = stack[i] /\ stack[i] \in Frame
      /\ \A i \in 1..Len(stack') : i \in 1..Len(stack) \/ i = Len(stack) + 1
  <2>1. stack \in Seq(Frame)
    BY <1>2 DEF TypeOK
  <2> QED BY <1>1, <1>3, <2>1
<1>5. FrameOK(g)'
  <2>1. PointerOK(g)
    BY <1>3 DEF Pointers, PointerOK, Known
  <2>2. PointerOK(g)'
    BY <1>2, <2>1 DEF PointerOK, Known
  <2> QED BY <1>3, <2>2 DEF FrameOK
<1>6. CallsFresh /\ FinishedStep /\ RanStep /\ Extends(trace, trace')
  <2>1. CallsFresh
    BY <1>3, <1>4 DEF CallsFresh
  <2> QED BY <1>2, <2>1, SameStore DEF FinishedStep, RanStep
<1>7. HistoryInv' /\ ran' \in Seq(EventIds) /\ finished' \subseteq EventIds
  BY <1>2, <1>6, HistoryStep
<1>8. TypeOK' /\ StoreInv'
  BY <1>2, <1>4, <1>7, SameStore DEF TypeOK
<1>9. DecisionInv'
  <2>1. Top' = g
    BY <1>4 DEF Top
  <2> QED BY <1>2, <1>3, <2>1 DEF DecisionInv, At, Forbidden
<1>10. \A i \in 1..Len(stack) : \A f \in Frame : f = stack[i] => f.pc = "running" /\ FrameOK(f)'
  BY <1>2, <1>6, UserFrames
<1>11. StackInv'
  <2>1. ASSUME NEW i \in 1..Len(stack')
        PROVE  FrameOK(stack[i])' /\ (i < Len(stack') => stack'[i].pc = "running")
    <3>1. CASE i \in 1..Len(stack)
      <4>1. PICK f \in Frame : f = stack[i] /\ f = stack'[i]
        BY <1>4, <3>1
      <4>2. f.pc = "running" /\ FrameOK(f)'
        BY <1>10, <3>1, <4>1
      <4> QED BY <4>1, <4>2
    <3>2. CASE i = Len(stack) + 1
      BY <1>4, <1>5, <3>2
    <3> QED BY <1>4, <3>1, <3>2
  <2>2. ASSUME NEW i \in 1..Len(stack'), NEW j \in 1..Len(stack'), i # j, stack'[i].call # None
        PROVE  stack'[i].call # stack'[j].call
    BY <1>2, <1>3, <1>4, <2>2 DEF StackInv
  <2> QED BY <2>1, <2>2 DEF StackInv
<1> QED
  BY <1>7, <1>8, <1>9, <1>11 DEF RInv

LEMMA RecordBlockStep ==
    ASSUME UnboundedNumbers, RInv, RecordBlock
    PROVE  RInv'
<1>1. PICK f \in Frame : f = Top /\ f.pc = "block" /\ FrameOK(f) /\ f.rt \in Runtimes /\ stack # <<>>
  BY AtFrame DEF RecordBlock
<1>2. TypeOK /\ StoreInv /\ StackInv
  BY DEF RInv
<1>3. used[f.rt] < MaxIds /\ Counted
  BY <1>1, <1>2, Generated DEF RecordBlock, Counted, TypeOK
<1>4. PICK e \in Event : e = Pending(f)
  BY <1>1, <1>2, <1>3, PendingEvent DEF Recording
<1>5. UNCHANGED <<rules, ran, finished>>
  BY DEF RecordBlock
<1>6. CASE Refuses(e) /\ Raise
  BY <1>1, <1>3, <1>5, <1>6, RaiseStep DEF Refuses
<1>7. CASE Records(e) /\ Return([f EXCEPT !.pre = e.id], None, FALSE)
  <2>1. /\ trace' \in Store /\ StoreInv' /\ Extends(trace, trace') /\ e.id \in EventIds /\ e.id # None
    BY <1>2, <1>7, RecordsOK, EventType, TraceAssumption
  <2>2. PICK a : /\ a = [blocked |-> TRUE, executed |-> FALSE, postBlocked |-> FALSE, pre |-> e.id,
                         call |-> None, result |-> None, post |-> None]
                 /\ stack' = Pop /\ answers' = answers \cup {a}
    BY <1>1, <1>7 DEF Return, Returned, Frame, FrameOK
  <2>3. a \in Answer
    BY <2>1, <2>2 DEF Answer
  <2>4. AnswerOK(a)'
    BY <2>1, <2>2 DEF AnswerOK
  <2> QED
    BY <1>1, <1>2, <1>3, <1>5, <2>1, <2>2, <2>3, <2>4, PopStep DEF TypeOK
<1> QED
  BY <1>1, <1>4, <1>6, <1>7 DEF RecordBlock

LEMMA RecordPreStep ==
    ASSUME UnboundedNumbers, RInv, RecordPre
    PROVE  RInv'
<1>1. PICK f \in Frame : f = Top /\ f.pc = "pre" /\ FrameOK(f) /\ f.rt \in Runtimes /\ stack # <<>>
  BY AtFrame DEF RecordPre
<1>2. TypeOK /\ StoreInv /\ StackInv
  BY DEF RInv
<1>3. used[f.rt] < MaxIds /\ Counted
  BY <1>1, <1>2, Generated DEF RecordPre, Counted, TypeOK
<1>4. PICK e \in Event : e = Pending(f) /\ e.trace = TraceOf[f.rt]
  BY <1>1, <1>2, <1>3, PendingEvent DEF Recording
<1>5. UNCHANGED <<rules, ran, finished>>
  BY DEF RecordPre
<1>6. CASE Refuses(e) /\ Raise
  BY <1>1, <1>3, <1>5, <1>6, RaiseStep DEF Refuses
<1>7. CASE Records(e) /\ stack' = Continue([f EXCEPT !.pc = "call", !.pre = e.id]) /\ UNCHANGED answers
  <2>1. /\ trace' \in Store /\ StoreInv' /\ Extends(trace, trace')
        /\ trace.byId[e.id] = None /\ trace'.byId[e.id] = e
        /\ \A id \in EventIds : id # e.id => trace'.byId[id] = trace.byId[id]
        /\ e.id \in EventIds /\ e.id # None /\ e # None
    BY <1>2, <1>7, RecordsOK, EventType, TraceAssumption
  <2>2. PICK g \in Frame : g = [f EXCEPT !.pc = "call", !.pre = e.id]
    BY <2>1 DEF Frame
  <2>3. /\ g.pc = "call" /\ g.pre = e.id /\ g.call = f.call /\ g.pointer = f.pointer /\ g.rt = f.rt
        /\ g.executed = f.executed /\ g.result = f.result /\ g.action = f.action
    BY <2>2 DEF Frame
  <2>4. f.pointer # None => f.pointer.id \in EventIds
    BY DEF Frame, Pointer
  <2>5. PointerOK(g)'
    BY <1>1, <1>4, <2>1, <2>3, <2>4 DEF FrameOK, PointerOK, Known
  <2>6. FrameOK(g)'
    BY <1>1, <1>4, <2>1, <2>3, <2>5 DEF FrameOK, Known
  <2>7. ~Forbidden(g.action)
    BY <1>1, <2>3 DEF RInv, DecisionInv, At
  <2>8. FinishedStep /\ RanStep
    BY <1>5 DEF FinishedStep, RanStep
  <2>9. stack' = Continue(g) /\ g.call = Top.call /\ UNCHANGED <<rules, answers>>
    BY <1>1, <1>5, <1>7, <2>2, <2>3
  <2> QED
    BY <1>1, <1>3, <2>1, <2>6, <2>7, <2>8, <2>9, ContinueStep
<1> QED
  BY <1>1, <1>4, <1>6, <1>7 DEF RecordPre

LEMMA RecordCallStep ==
    ASSUME UnboundedNumbers, RInv, RecordCall
    PROVE  RInv'
<1>1. PICK f \in Frame : f = Top /\ f.pc = "call" /\ FrameOK(f) /\ f.rt \in Runtimes /\ stack # <<>>
  BY AtFrame DEF RecordCall
<1>2. TypeOK /\ StoreInv /\ StackInv /\ HistoryInv
  BY DEF RInv
<1>3. used[f.rt] < MaxIds /\ calls[f.rt] < MaxIds /\ Counted
  <2>1. used[f.rt] < MaxIds /\ used' \in [Runtimes -> 0..MaxIds] /\ calls[f.rt] < MaxIds
    BY <1>1, <1>2, Generated DEF RecordCall
  <2>2. calls' \in [Runtimes -> 0..MaxIds]
    BY <1>1, <1>2, RuntimeAssumption DEF RecordCall, TypeOK
  <2> QED BY <2>1, <2>2 DEF Counted
<1>4. PICK e \in Event : /\ e = Pending(f) /\ e.trace = TraceOf[f.rt] /\ e.kind = "TOOL_CALL"
                         /\ e.call \in CallIds
  <2>1. /\ Pending(f) \in Event /\ Pending(f).trace = TraceOf[f.rt]
        /\ Pending(f).kind = "TOOL_CALL"
    BY <1>1, <1>2, <1>3, PendingEvent DEF Recording, KindOf
  <2> QED BY <2>1, EventType
<1>5. UNCHANGED <<rules, ran, finished>>
  BY DEF RecordCall
<1>6. CASE Refuses(e) /\ Raise
  BY <1>1, <1>3, <1>5, <1>6, RaiseStep DEF Refuses
<1>7. CASE /\ Records(e) /\ UNCHANGED answers
           /\ stack' = Continue([f EXCEPT !.pc = "invoke", !.call = e.id, !.cid = e.call])
  <2>1. /\ trace' \in Store /\ StoreInv' /\ Extends(trace, trace')
        /\ trace.byId[e.id] = None /\ trace'.byId[e.id] = e
        /\ trace'.calls[SlotOf(e)] # None /\ trace'.results[SlotOf(e)] = None
        /\ e.id \in EventIds /\ e.id # None /\ e # None /\ e.call # None
    BY <1>2, <1>4, <1>7, RecordsOK, EventType, TraceAssumption
  <2>2. PICK g \in Frame : g = [f EXCEPT !.pc = "invoke", !.call = e.id, !.cid = e.call]
    BY <1>4, <2>1 DEF Frame
  <2>3. /\ g.pc = "invoke" /\ g.pre = f.pre /\ g.call = e.id /\ g.cid = e.call /\ g.rt = f.rt
        /\ g.executed = f.executed /\ g.result = f.result /\ g.action = f.action
        /\ SlotOfCall(g) = SlotOf(e)
    BY <1>4, <2>2 DEF Frame, SlotOfCall, SlotOf
  <2>4. ~Known(e.id) /\ e.id \notin finished /\ ~WasRun(e.id)
    BY <1>2, <2>1 DEF Known, HistoryInv, WasRun
  <2>5. CallRecorded(g)'
    BY <1>4, <2>1, <2>3 DEF CallRecorded, Known, SlotOfCall
  <2>6. f.pre # None => (Known(f.pre) /\ trace.byId[f.pre].trace = TraceOf[f.rt])'
    BY <1>1, <2>1 DEF FrameOK, Extends, Known, Frame
  <2>7. g.call \notin finished' /\ ~WasRun(g.call)' /\ trace'.results[SlotOfCall(g)] = None
    BY <1>5, <2>1, <2>3, <2>4 DEF WasRun
  <2>8. ~g.executed /\ g.result = None
    BY <1>1, <2>3 DEF FrameOK
  <2>9. FrameOK(g)'
    BY <2>3, <2>5, <2>6, <2>7, <2>8 DEF FrameOK, SlotOfCall
  <2>10. ~Forbidden(g.action)
    BY <1>1, <2>3 DEF RInv, DecisionInv, At
  <2>11. FinishedStep /\ RanStep
    BY <1>5 DEF FinishedStep, RanStep
  <2>12. stack' = Continue(g) /\ g.call # None /\ ~Known(g.call) /\ UNCHANGED <<rules, answers>>
    BY <1>5, <1>7, <2>1, <2>2, <2>3, <2>4
  <2> QED
    BY <1>1, <1>3, <2>1, <2>9, <2>10, <2>11, <2>12, ContinueStep
<1> QED
  BY <1>1, <1>4, <1>6, <1>7 DEF RecordCall

LEMMA InvokeStep ==
    ASSUME RInv, Invoke
    PROVE  RInv'
<1>1. PICK f \in Frame : f = Top /\ f.pc = "invoke" /\ FrameOK(f) /\ f.rt \in Runtimes /\ stack # <<>>
  BY AtFrame DEF Invoke
<1>2. TypeOK /\ StoreInv
  BY DEF RInv
<1>3. trace' \in Store /\ StoreInv' /\ Extends(trace, trace') /\ Counted
  BY <1>2, SameStore DEF Invoke, Counted, TypeOK
<1>4. PICK g \in Frame : g = [f EXCEPT !.pc = "running", !.executed = TRUE]
  BY DEF Frame
<1>5. /\ g.pc = "running" /\ g.pre = f.pre /\ g.call = f.call /\ g.cid = f.cid /\ g.rt = f.rt
      /\ g.executed /\ g.result = f.result /\ SlotOfCall(g) = SlotOfCall(f)
  BY <1>4 DEF Frame, SlotOfCall
<1>6. FrameOK(g)'
  BY <1>1, <1>5 DEF FrameOK, CallRecorded, Invoke, Known, SlotOfCall
<1>7. FinishedStep /\ RanStep
  BY <1>1 DEF Invoke, FinishedStep, RanStep, FrameOK, CallRecorded
<1>8. stack' = Continue(g) /\ g.call = Top.call /\ UNCHANGED <<rules, answers>>
  BY <1>1, <1>4, <1>5 DEF Invoke
<1> QED
  BY <1>1, <1>3, <1>5, <1>6, <1>7, <1>8, ContinueStep

LEMMA SignatureStep ==
    ASSUME RInv, SignatureFails
    PROVE  RInv'
<1>1. PICK f \in Frame : f = Top /\ f.pc = "invoke" /\ FrameOK(f) /\ f.rt \in Runtimes /\ stack # <<>>
  BY AtFrame DEF SignatureFails
<1>2. TypeOK /\ StoreInv
  BY DEF RInv
<1>3. trace' \in Store /\ StoreInv' /\ Extends(trace, trace') /\ Counted
  BY <1>2, SameStore DEF SignatureFails, Counted, TypeOK
<1>4. PICK g \in Frame : g = [f EXCEPT !.pc = "result"]
  BY DEF Frame
<1>5. /\ g.pc = "result" /\ g.pre = f.pre /\ g.call = f.call /\ g.cid = f.cid /\ g.rt = f.rt
      /\ g.executed = f.executed /\ g.result = f.result /\ SlotOfCall(g) = SlotOfCall(f)
  BY <1>4 DEF Frame, SlotOfCall
<1>6. FrameOK(g)'
  BY <1>1, <1>5 DEF FrameOK, CallRecorded, SignatureFails, Known, SlotOfCall
<1>7. FinishedStep /\ RanStep
  BY DEF SignatureFails, FinishedStep, RanStep
<1>8. stack' = Continue(g) /\ g.call = Top.call /\ UNCHANGED <<rules, answers>>
  BY <1>1, <1>4, <1>5 DEF SignatureFails
<1> QED
  BY <1>1, <1>3, <1>5, <1>6, <1>7, <1>8, ContinueStep

LEMMA ExecutorStep ==
    ASSUME RInv, NEW x \in Effects, ExecutorEnds(x)
    PROVE  RInv'
<1>1. PICK f \in Frame : f = Top /\ f.pc = "running" /\ FrameOK(f) /\ f.rt \in Runtimes /\ stack # <<>>
  BY AtFrame DEF ExecutorEnds
<1>2. TypeOK /\ StoreInv
  BY DEF RInv
<1>3. trace' \in Store /\ StoreInv' /\ Extends(trace, trace') /\ Counted
  BY <1>2, SameStore DEF ExecutorEnds, Counted, TypeOK
<1>4. PICK g \in Frame : g = [f EXCEPT !.pc = "result", !.effect = x]
  BY DEF Frame
<1>5. /\ g.pc = "result" /\ g.pre = f.pre /\ g.call = f.call /\ g.cid = f.cid /\ g.rt = f.rt
      /\ g.executed = f.executed /\ g.result = f.result /\ SlotOfCall(g) = SlotOfCall(f)
  BY <1>4 DEF Frame, SlotOfCall
<1>6. FrameOK(g)'
  BY <1>1, <1>5 DEF FrameOK, CallRecorded, ExecutorEnds, Known, SlotOfCall
<1>7. FinishedStep /\ RanStep
  BY <1>1 DEF ExecutorEnds, FinishedStep, RanStep, FrameOK, CallRecorded
<1>8. stack' = Continue(g) /\ g.call = Top.call /\ UNCHANGED <<rules, answers>>
  BY <1>1, <1>4, <1>5 DEF ExecutorEnds
<1> QED
  BY <1>1, <1>3, <1>5, <1>6, <1>7, <1>8, ContinueStep

LEMMA InterruptStep ==
    ASSUME RInv, Interrupt
    PROVE  RInv'
<1>1. stack # <<>> /\ Counted /\ UNCHANGED <<trace, rules, ran, finished>> /\ Raise
  BY DEF Interrupt, At, Counted, RInv, TypeOK
<1> QED BY <1>1, RaiseStep

LEMMA UserSteps ==
    ASSUME RInv, (\E R \in SUBSET Rules : ChangeRules(R)) \/ (\E e \in UserEvents : UserRecords(e))
    PROVE  RInv'
<1>1. TypeOK /\ StoreInv
  BY DEF RInv
<1>2. ASSUME NEW R \in SUBSET Rules, ChangeRules(R)
      PROVE  RInv'
  BY <1>1, <1>2, SameStore, UserStep DEF ChangeRules
<1>3. ASSUME NEW e \in UserEvents, UserRecords(e)
      PROVE  RInv'
  <2>1. e \in Event /\ Records(e) /\ UserCode
        /\ UNCHANGED <<rules, used, calls, stack, ran, finished, answers>>
    BY <1>3, RuntimeAssumption DEF UserRecords
  <2>2. trace' \in Store /\ StoreInv' /\ Extends(trace, trace')
    BY <1>1, <2>1, RecordsOK
  <2>3. rules' \subseteq Rules
    BY <1>1, <2>1 DEF TypeOK
  <2> QED BY <2>1, <2>2, <2>3, UserStep
<1> QED BY <1>2, <1>3

LEMMA RecordResultStep ==
    ASSUME UnboundedNumbers, RInv, RecordResult
    PROVE  RInv'
<1>1. PICK f \in Frame : f = Top /\ f.pc = "result" /\ FrameOK(f) /\ f.rt \in Runtimes /\ stack # <<>>
  BY AtFrame DEF RecordResult
<1>2. TypeOK /\ StoreInv /\ StackInv
  BY DEF RInv
<1>3. used[f.rt] < MaxIds /\ Counted
  BY <1>1, <1>2, Generated DEF RecordResult, Counted, TypeOK
<1>4. PICK e \in Event : /\ e = Pending(f) /\ e.trace = TraceOf[f.rt] /\ e.kind = "TOOL_RESULT"
                         /\ e.call = f.cid /\ e.parent = f.call
  BY <1>1, <1>2, <1>3, PendingEvent DEF Recording, KindOf, CallOf, ParentOf
<1>5. UNCHANGED <<rules, ran, finished>>
  BY DEF RecordResult
<1>6. CASE Refuses(e) /\ Raise
  BY <1>1, <1>3, <1>5, <1>6, RaiseStep DEF Refuses
<1>7. PICK g \in Frame : g = [f EXCEPT !.pc = "post", !.result = e.id]
  BY EventType DEF Frame
<1>8. /\ g.pc = "post" /\ g.pre = f.pre /\ g.call = f.call /\ g.cid = f.cid /\ g.rt = f.rt
      /\ g.executed = f.executed /\ g.result = e.id /\ SlotOfCall(g) = SlotOf(e)
      /\ SlotOfCall(f) = SlotOf(e)
  BY <1>4, <1>7 DEF Frame, SlotOfCall, SlotOf
<1>9. ASSUME Records(e)
      PROVE  /\ trace' \in Store /\ StoreInv' /\ Extends(trace, trace')
             /\ trace'.byId[e.id] = e /\ trace'.results[SlotOf(e)] # None
             /\ e.id \in EventIds /\ e.id # None /\ e # None
             /\ CallRecorded(g)' /\ ResultRecorded(g)' /\ f.call \in EventIds
  <2>1. /\ trace' \in Store /\ StoreInv' /\ Extends(trace, trace')
        /\ trace'.byId[e.id] = e /\ trace'.results[SlotOf(e)] # None
        /\ e.id \in EventIds /\ e.id # None /\ e # None /\ SlotOf(e) \in Slot
    BY <1>2, <1>4, <1>9, RecordsOK, EventType, TraceAssumption
  <2>2. CallRecorded(f) /\ f.call \in EventIds
    BY <1>1 DEF FrameOK, CallRecorded, Frame
  <2>3. trace'.byId[f.call] = trace.byId[f.call] /\ trace'.calls[SlotOf(e)] # None
    BY <1>8, <2>1, <2>2 DEF Extends, CallRecorded, Known
  <2>4. CallRecorded(g)'
    BY <1>8, <2>2, <2>3 DEF CallRecorded, Known, SlotOfCall
  <2>5. ResultRecorded(g)'
    BY <1>4, <1>8, <2>1 DEF ResultRecorded, Known, SlotOfCall
  <2> QED BY <2>1, <2>2, <2>4, <2>5
<1>10. CASE Records(e) /\ f.executed /\ stack' = Continue(g) /\ UNCHANGED answers
  <2>1. f.pre # None => (Known(f.pre) /\ trace.byId[f.pre].trace = TraceOf[f.rt])'
    BY <1>1, <1>9, <1>10 DEF FrameOK, Extends, Known, Frame
  <2>2. g.call \in finished'
    BY <1>1, <1>5, <1>8, <1>10 DEF FrameOK
  <2>3. FrameOK(g)'
    BY <1>8, <1>9, <1>10, <2>1, <2>2 DEF FrameOK
  <2>4. FinishedStep /\ RanStep
    BY <1>5 DEF FinishedStep, RanStep
  <2> QED
    BY <1>1, <1>3, <1>5, <1>8, <1>9, <1>10, <2>3, <2>4, ContinueStep
<1>11. CASE Records(e) /\ ~f.executed /\ Return(g, None, FALSE)
  <2>1. PICK a : /\ a = [blocked |-> FALSE, executed |-> FALSE, postBlocked |-> FALSE, pre |-> f.pre,
                         call |-> f.call, result |-> e.id, post |-> None]
                 /\ stack' = Pop /\ answers' = answers \cup {a}
    BY <1>8, <1>11 DEF Return, Returned, Frame
  <2>2. a \in Answer
    BY <1>9, <1>11, <2>1 DEF Answer, Frame
  <2>3. f.call \notin finished' /\ f.call # None
    BY <1>1, <1>5, <1>11 DEF FrameOK, CallRecorded
  <2>4. \A i \in 1..Len(stack') : stack'[i].call # f.call
    BY <1>1, <1>2, <2>1, <2>3, StackType DEF StackInv, Top
  <2>5. AnswerOK(a)'
    <3>1. /\ (Known(f.call) /\ trace.byId[f.call].kind = "TOOL_CALL")'
          /\ (trace.byId[f.call].call = f.cid)'
      BY <1>8, <1>9, <1>11 DEF CallRecorded
    <3>2. (Known(e.id) /\ trace.byId[e.id] = e)'
      BY <1>9, <1>11 DEF Known
    <3> QED BY <1>4, <1>9, <1>11, <2>1, <2>3, <2>4, <3>1, <3>2 DEF AnswerOK
  <2> QED
    BY <1>1, <1>2, <1>3, <1>5, <1>9, <1>11, <2>1, <2>2, <2>5, PopStep DEF TypeOK
<1> QED
  BY <1>1, <1>4, <1>6, <1>7, <1>8, <1>10, <1>11 DEF RecordResult

LEMMA PostCheckStep ==
    ASSUME UnboundedNumbers, RInv, PostCheck
    PROVE  RInv'
<1>1. PICK f \in Frame : f = Top /\ f.pc = "post" /\ FrameOK(f) /\ f.rt \in Runtimes /\ stack # <<>>
  BY AtFrame DEF PostCheck
<1>2. TypeOK /\ StoreInv /\ StackInv
  BY DEF RInv
<1>3. UNCHANGED <<rules, ran, finished>>
  BY DEF PostCheck
<1>4. CallRecorded(f) /\ ResultRecorded(f) /\ f.executed /\ f.call \in finished
      /\ f.call \in EventIds /\ f.result \in EventIds
  BY <1>1 DEF FrameOK, CallRecorded, ResultRecorded, Frame
<1>5. PICK blocked \in BOOLEAN : blocked = ForbiddenAfter(Top.action, Top.effect)
  BY DEF ForbiddenAfter
(* Whatever was recorded, the answer is backed. *)
<1>6. ASSUME Extends(trace, trace'), NEW post \in EventIds \cup {None}, Return(f, post, blocked),
             post # None => Known(post)' /\ trace'.byId[post].parent = f.result,
             blocked => post # None
      PROVE  /\ stack' = Pop /\ answers' \subseteq Answer
             /\ \A s \in answers' : s \in answers \/ AnswerOK(s)'
  <2>1. PICK a : /\ a = [blocked |-> FALSE, executed |-> TRUE, postBlocked |-> blocked, pre |-> f.pre,
                         call |-> f.call, result |-> f.result, post |-> post]
                 /\ stack' = Pop /\ answers' = answers \cup {a}
    BY <1>1, <1>4, <1>6 DEF Return, Returned, Frame
  <2>2. a \in Answer
    BY <1>4, <1>5, <1>6, <2>1 DEF Answer, Frame
  <2>3. \A i \in 1..Len(stack') : stack'[i].call # f.call
    BY <1>1, <1>2, <1>4, <2>1, StackType DEF StackInv, Top, CallRecorded
  <2>4. /\ trace'.byId[f.call] = trace.byId[f.call] /\ trace.byId[f.call] # None
        /\ trace'.byId[f.result] = trace.byId[f.result] /\ trace.byId[f.result] # None
    BY <1>4, <1>6 DEF CallRecorded, ResultRecorded, Extends, Known
  <2>5. AnswerOK(a)'
    BY <1>3, <1>4, <1>6, <2>1, <2>3, <2>4 DEF AnswerOK, Known, CallRecorded, ResultRecorded
  <2> QED BY <1>2, <2>1, <2>2, <2>5 DEF TypeOK
<1>7. CASE ~blocked /\ Return(f, None, blocked) /\ UNCHANGED <<trace, used, calls>>
  <2>1. trace' \in Store /\ StoreInv' /\ Extends(trace, trace') /\ Counted
    BY <1>2, <1>7, SameStore DEF Counted, TypeOK
  <2> QED BY <1>1, <1>3, <1>6, <1>7, <2>1, PopStep
<1>8. CASE /\ Generate(f.rt) /\ UNCHANGED calls
           /\ \/ Records(Pending(f)) /\ Return(f, Pending(f).id, blocked)
              \/ Refuses(Pending(f)) /\ Raise
  <2>1. used[f.rt] < MaxIds /\ Counted
    BY <1>1, <1>2, <1>8, Generated DEF Counted, TypeOK
  <2>2. PICK e \in Event : e = Pending(f) /\ e.parent = f.result
    BY <1>1, <1>2, <2>1, PendingEvent DEF Recording, ParentOf
  <2>3. CASE Refuses(e) /\ Raise
    BY <1>1, <1>3, <2>1, <2>3, RaiseStep DEF Refuses
  <2>4. CASE Records(e) /\ Return(f, e.id, blocked)
    <3>1. /\ trace' \in Store /\ StoreInv' /\ Extends(trace, trace')
          /\ trace'.byId[e.id] = e /\ e.id \in EventIds /\ e.id # None /\ e # None
      BY <1>2, <2>4, RecordsOK, EventType, TraceAssumption
    <3>2. Known(e.id)' /\ trace'.byId[e.id].parent = f.result
      BY <2>2, <3>1 DEF Known
    <3> QED BY <1>1, <1>3, <1>6, <2>1, <2>4, <3>1, <3>2, PopStep
  <2> QED BY <1>8, <2>2, <2>3, <2>4
<1>9. CASE blocked \/ f.rt \in RecordsAll
  BY <1>1, <1>5, <1>8, <1>9 DEF PostCheck
<1>10. CASE ~(blocked \/ f.rt \in RecordsAll)
  BY <1>1, <1>5, <1>7, <1>10 DEF PostCheck
<1> QED
  BY <1>9, <1>10

-----------------------------------------------------------------------------
(* Theorems                                                                *)

LEMMA InitOK == Init => RInv
<1> SUFFICES ASSUME Init PROVE RInv
  OBVIOUS
<1>1. TypeOK /\ stack = <<>> /\ ran = <<>> /\ finished = {} /\ answers = {} /\ trace = EmptyStore
  BY EmptyType, RuntimeAssumption DEF Init, TypeOK
<1>2. StoreInv
  BY <1>1, EmptyOK DEF StoreInv
<1> QED BY <1>1, <1>2 DEF RInv, StackInv, DecisionInv, HistoryInv, At

LEMMA NextOK ==
    ASSUME UnboundedNumbers, RInv, [Next]_vars
    PROVE  RInv'
<1>1. CASE UNCHANGED vars
  BY <1>1 DEF vars, RInv, TypeOK, StoreInv, StackInv, DecisionInv, HistoryInv, At, Top, Forbidden,
     FrameOK, PointerOK, CallRecorded, ResultRecorded, SlotOfCall, WasRun, Known, AnswerOK
<1>2. ASSUME NEW r \in Runtimes, NEW a \in Actions, NEW p \in Pointers,
             NEW c \in GivenIds \cup {None}, Execute(r, a, p, c)
      PROVE  RInv'
  BY <1>2, ExecuteStep
<1>3. ASSUME NEW x \in Effects, ExecutorEnds(x)
      PROVE  RInv'
  BY <1>3, ExecutorStep
<1> QED
  BY <1>1, <1>2, <1>3, RecordBlockStep, RecordPreStep, RecordCallStep, InvokeStep, SignatureStep,
     InterruptStep, RecordResultStep, PostCheckStep, UserSteps DEF Next

THEOREM Invariant ==
    ASSUME UnboundedNumbers
    PROVE  Spec => []RInv
<1>1. RInv /\ [Next]_vars => RInv'
  BY NextOK
<1> QED BY InitOK, <1>1, PTL DEF Spec

(* The runtime keeps its types: every number and identifier it uses, in    *)
(* whatever order executions nest, is one the store knows to hold.         *)
THEOREM TypeCorrect ==
    ASSUME UnboundedNumbers
    PROVE  Spec => []TypeOK
<1>1. RInv => TypeOK
  BY DEF RInv
<1> QED BY Invariant, <1>1, PTL

(* The store refuses an event of execute only because its identifier, its  *)
(* call or its result is taken: whatever user code and nested executions   *)
(* append, the numbers and parents that execute computes are right.        *)
THEOREM RefusalCorrect ==
    ASSUME UnboundedNumbers
    PROVE  Spec => []OnlyDuplicatesRefused
<1>1. ASSUME RInv, NEW pc \in {"block", "pre", "call", "result", "post"}, At(pc),
             used[Top.rt] < MaxIds, calls[Top.rt] < MaxIds
      PROVE  LET e == Pending(Top)
             IN  \/ Accepts(trace, e)
                 \/ trace.byId[e.id] # None
                 \/ e.kind = "TOOL_CALL" /\ trace.calls[SlotOf(e)] # None
                 \/ e.kind = "TOOL_RESULT" /\ trace.results[SlotOf(e)] # None
  <2>1. PICK f \in Frame : f = Top /\ f.pc = pc /\ FrameOK(f) /\ f.rt \in Runtimes
    BY <1>1, AtFrame
  <2>2. PICK e \in Event : /\ e = Pending(f)
                           /\ e.trace = TraceOf[f.rt] /\ e.sequence > trace.lastSeq[e.trace]
                           /\ e.kind = KindOf(f) /\ e.parent = ParentOf(f) /\ e.call = CallOf(f)
                           /\ ParentKnown(trace, e)
    BY <1>1, <2>1, PendingEvent DEF RInv, Recording
  <2>3. ASSUME e.kind = "TOOL_RESULT"
        PROVE  /\ trace.calls[SlotOf(e)] # None
               /\ trace.byId[e.parent].kind = "TOOL_CALL" /\ trace.byId[e.parent].call = e.call
    <3>1. f.pc = "result"
      BY <2>2, <2>3 DEF KindOf
    <3>2. CallRecorded(f) /\ SlotOf(e) = SlotOfCall(f) /\ e.parent = f.call /\ e.call = f.cid
      BY <2>1, <2>2, <3>1 DEF FrameOK, ParentOf, CallOf, SlotOf, SlotOfCall
    <3> QED BY <3>2 DEF CallRecorded
  <2> QED
    BY <2>1, <2>2, <2>3 DEF Accepts, NewCall, AnswersCall
<1>2. RInv => OnlyDuplicatesRefused
  BY <1>1 DEF OnlyDuplicatesRefused
<1> QED BY Invariant, <1>2, PTL

(* What execute returns is on record, for any nesting of executions and    *)
(* any events of user code in between.                                     *)
THEOREM AnswersCorrect ==
    ASSUME UnboundedNumbers
    PROVE  Spec => []AnswersBacked
<1>1. RInv => AnswersBacked
  BY DEF RInv, HistoryInv, AnswerOK, AnswersBacked
<1> QED BY Invariant, <1>1, PTL

(* An executor is entered only for an action that no active rule forbids,  *)
(* for a recorded, unanswered call, and at most once per call.             *)
THEOREM EffectsCorrect ==
    ASSUME UnboundedNumbers
    PROVE  Spec => EffectsDeclared
<1> DEFINE Declared ==
      LET id == Top.call IN
      /\ ran' = Append(ran, id) /\ id \notin {ran[i] : i \in DOMAIN ran}
      /\ ~Forbidden(Top.action)
      /\ trace.byId[id] # None
      /\ trace.byId[id].kind = "TOOL_CALL" /\ trace.byId[id].call = Top.cid
      /\ trace.results[SlotOf(trace.byId[id])] = None
<1>1. ASSUME RInv, [Next]_vars, ran' # ran
      PROVE  Declared
  <2>1. Invoke
    BY <1>1 DEF Next, vars, Execute, RecordBlock, RecordPre, RecordCall, SignatureFails,
       ExecutorEnds, Interrupt, RecordResult, PostCheck, ChangeRules, UserRecords
  <2>2. PICK f \in Frame : f = Top /\ f.pc = "invoke" /\ FrameOK(f)
    BY <1>1, <2>1, AtFrame DEF Invoke
  <2>3. ran' = Append(ran, f.call) /\ CallRecorded(f) /\ ~WasRun(f.call)
        /\ trace.results[SlotOfCall(f)] = None
    BY <2>1, <2>2 DEF Invoke, FrameOK
  <2>4. ~Forbidden(Top.action)
    BY <1>1, <2>1 DEF Invoke, RInv, DecisionInv
  <2>5. DOMAIN ran = 1..Len(ran)
    BY <1>1 DEF RInv, TypeOK
  <2> QED
    BY <2>2, <2>3, <2>4, <2>5 DEF CallRecorded, Known, SlotOf, SlotOfCall, WasRun
<1>2. RInv /\ [Next]_vars => [ran' # ran => Declared]_vars
  BY <1>1
<1> QED BY Invariant, <1>2, PTL DEF Spec, EffectsDeclared

-----------------------------------------------------------------------------
(* What a step does to the store                                           *)

(* An identifier is used when an execution generates it.                   *)
Uses(e) ==
    \/ e \in UserEvents /\ UNCHANGED used
    \/ \E r \in Runtimes : Generate(r) /\ e.id = EventId[r][used[r] + 1]

LEMMA FrameAppends ==
    ASSUME UnboundedNumbers, RInv, NEW pc \in {"block", "pre", "call", "result", "post"}, At(pc),
           Generate(Top.rt), pc = "call" => calls[Top.rt] < MaxIds, Records(Pending(Top))
    PROVE  \E e \in Event : e = Pending(Top) /\ Records(e) /\ Uses(e)
<1>1. PICK f \in Frame : f = Top /\ f.pc = pc /\ FrameOK(f) /\ f.rt \in Runtimes
  BY AtFrame
<1>2. TypeOK /\ StoreInv /\ Generate(f.rt) /\ used[f.rt] < MaxIds
  BY <1>1, Generated DEF RInv
<1>3. PICK e \in Event : e = Pending(f) /\ e.id = EventId[f.rt][used[f.rt] + 1]
  BY <1>1, <1>2, PendingEvent DEF Recording
<1> QED
  BY <1>1, <1>2, <1>3 DEF Uses, Records

LEMMA OneAppend ==
    ASSUME UnboundedNumbers, RInv, [Next]_vars
    PROVE  \/ trace' = trace /\ \A r \in Runtimes : used'[r] >= used[r]
           \/ \E e \in Event : Records(e) /\ Uses(e)
<1>1. used \in [Runtimes -> 0..MaxIds]
  BY DEF RInv, TypeOK
<1>2. \A r \in Runtimes : Generate(r) => \A q \in Runtimes : used'[q] >= used[q]
  BY <1>1, RuntimeAssumption DEF Generate
<1>3. \A pc : At(pc) => Top.rt \in Runtimes
  BY AtFrame
<1>4. CASE RecordBlock
  BY <1>2, <1>3, <1>4, FrameAppends DEF RecordBlock, Refuses
<1>5. CASE RecordPre
  BY <1>2, <1>3, <1>5, FrameAppends DEF RecordPre, Refuses
<1>6. CASE RecordCall
  BY <1>2, <1>3, <1>6, FrameAppends DEF RecordCall, Refuses
<1>7. CASE RecordResult
  BY <1>2, <1>3, <1>7, FrameAppends DEF RecordResult, Refuses
<1>8. CASE PostCheck
  BY <1>1, <1>2, <1>3, <1>8, FrameAppends, RuntimeAssumption DEF PostCheck, Refuses
<1>9. CASE UNCHANGED <<trace, used>>
  BY <1>1, <1>9, RuntimeAssumption
<1>10. CASE \E e \in UserEvents : UserRecords(e)
  BY <1>10, RuntimeAssumption DEF UserRecords, Uses
<1> QED
  BY <1>4, <1>5, <1>6, <1>7, <1>8, <1>9, <1>10 DEF Next, vars, Execute, Invoke, SignatureFails,
     ExecutorEnds, Interrupt, ChangeRules

(* The shared store stays well formed, and its indexes right, however many *)
(* executions are nested in each other and whatever they are interrupted   *)
(* by: see LogOK and Agrees.                                               *)
THEOREM LogCorrect ==
    ASSUME UnboundedNumbers
    PROVE  Spec => [](LogOK(trace.events) /\ Agrees(trace))
<1> DEFINE Inv == LogOK(trace.events) /\ Agrees(trace)
<1>1. Init => Inv
  BY EmptyType, EmptyLog, EmptyAgrees DEF Init
<1>2. ASSUME Inv, RInv, [Next]_vars
      PROVE  Inv'
  <2>1. CASE trace' = trace
    BY <1>2, <2>1
  <2>2. ASSUME NEW e \in Event, Records(e)
        PROVE  Inv'
    <3>1. trace \in Store /\ Accepts(trace, e) /\ trace' = Appended(trace, e)
      BY <1>2, <2>2 DEF RInv, TypeOK, Records
    <3>2. trace'.events = Append(trace.events, e)
      BY <3>1, AppendedFields
    <3> QED BY <1>2, <3>1, <3>2, AppendedLogOK, AppendedAgrees
  <2> QED BY <1>2, <2>1, <2>2, OneAppend
<1>3. Inv /\ RInv /\ [Next]_vars => Inv'
  BY <1>2
<1> QED BY <1>1, <1>3, Invariant, PTL DEF Spec

-----------------------------------------------------------------------------
(* Effects without a result                                                *)

(* What uuid4 gives, and what deterministic generators do not: no two      *)
(* generators yield the same identifier, and user code does not guess one. *)
UniqueIdentifiers ==
    /\ \A r, q \in Runtimes : \A m, n \in 1..MaxIds : EventId[r][m] = EventId[q][n] => r = q /\ m = n
    /\ \A r \in Runtimes : \A n \in 1..MaxIds : \A e \in UserEvents : e.id # EventId[r][n]

(* Only identifiers generated so far are on record.                        *)
FreshInv ==
    \A r \in Runtimes : \A n \in 1..MaxIds : Known(EventId[r][n]) => n <= used[r]

(* A call that finished is still in a frame, or has a result.              *)
EffectInv ==
    \A id \in finished :
        /\ SlotOf(trace.byId[id]) \in Slot
        /\ \/ \E i \in 1..Len(stack) : stack[i].call = id
           \/ trace.results[SlotOf(trace.byId[id])] # None

LEMMA FreshStep ==
    ASSUME UnboundedNumbers, UniqueIdentifiers, RInv, FreshInv, [Next]_vars
    PROVE  FreshInv'
<1>1. used \in [Runtimes -> 0..MaxIds] /\ TypeOK /\ StoreInv
  BY DEF RInv, TypeOK
<1>t. \A r \in Runtimes : \A n \in 1..MaxIds : EventId[r][n] \in EventIds
  BY RuntimeAssumption
<1>2. CASE trace' = trace /\ \A r \in Runtimes : used'[r] >= used[r]
  <2> SUFFICES ASSUME NEW r \in Runtimes, NEW n \in 1..MaxIds, Known(EventId[r][n])'
               PROVE  n <= used'[r]
    BY DEF FreshInv
  <2>1. n <= used[r] /\ used[r] \in Nat /\ used'[r] >= used[r]
    BY <1>1, <1>2, RuntimeAssumption DEF FreshInv, Known
  <2>2. used'[r] \in Int
    BY NextOK, RuntimeAssumption DEF RInv, TypeOK
  <2> QED BY <2>1, <2>2
<1>3. ASSUME NEW e \in Event, Records(e), Uses(e)
      PROVE  FreshInv'
  <2>1. \A id \in EventIds : id # e.id => trace'.byId[id] = trace.byId[id]
    BY <1>1, <1>3, RecordsOK
  <2>2. CASE e \in UserEvents /\ UNCHANGED used
    BY <1>t, <2>1, <2>2 DEF FreshInv, Known, UniqueIdentifiers
  <2>3. ASSUME NEW q \in Runtimes, Generate(q), e.id = EventId[q][used[q] + 1]
        PROVE  FreshInv'
    <3>1. /\ used[q] + 1 \in 1..MaxIds /\ used' = [used EXCEPT ![q] = used[q] + 1]
          /\ used[q] \in Nat
      BY <1>1, <2>3, RuntimeAssumption DEF Generate
    <3> SUFFICES ASSUME NEW r \in Runtimes, NEW n \in 1..MaxIds, Known(EventId[r][n])'
                 PROVE  n <= used'[r]
      BY DEF FreshInv
    <3>2. CASE EventId[r][n] = e.id
      <4>1. r = q /\ n = used[q] + 1
        BY <2>3, <3>1, <3>2 DEF UniqueIdentifiers
      <4> QED BY <1>1, <3>1, <4>1
    <3>3. CASE EventId[r][n] # e.id
      <4>1. Known(EventId[r][n])
        BY <1>t, <2>1, <3>3 DEF Known
      <4>2. n <= used[r]
        BY <4>1 DEF FreshInv
      <4>3. used[r] \in Nat
        BY <1>1, RuntimeAssumption
      <4> QED BY <1>1, <3>1, <4>2, <4>3
    <3> QED BY <3>2, <3>3
  <2> QED BY <1>3, <2>2, <2>3 DEF Uses
<1> QED BY <1>2, <1>3, OneAppend

(* What a step must do about the calls that finished.                      *)
LEMMA EffectStep ==
    ASSUME RInv, EffectInv, Extends(trace, trace'),
           \A id \in finished' : \/ id \in finished
                                 \/ /\ SlotOf(trace'.byId[id]) \in Slot
                                    /\ \E i \in 1..Len(stack') : stack'[i].call = id,
           \A i \in 1..Len(stack) : stack[i].call \in finished =>
              \/ \E j \in 1..Len(stack') : stack'[j].call = stack[i].call
              \/ trace'.results[SlotOf(trace.byId[stack[i].call])] # None
    PROVE  EffectInv'
<1> SUFFICES ASSUME NEW id \in finished'
             PROVE  /\ SlotOf(trace'.byId[id]) \in Slot
                    /\ \/ \E i \in 1..Len(stack') : stack'[i].call = id
                       \/ trace'.results[SlotOf(trace'.byId[id])] # None
  BY DEF EffectInv
<1>1. CASE id \in finished
  <2>1. trace'.byId[id] = trace.byId[id]
    BY <1>1 DEF RInv, HistoryInv, TypeOK, Known, Extends
  <2>2. SlotOf(trace.byId[id]) \in Slot
    BY <1>1 DEF EffectInv
  <2>3. CASE trace.results[SlotOf(trace.byId[id])] # None
    BY <2>1, <2>2, <2>3 DEF Extends
  <2>4. CASE \E i \in 1..Len(stack) : stack[i].call = id
    BY <1>1, <2>1, <2>2, <2>4
  <2> QED BY <1>1, <2>1, <2>2, <2>3, <2>4 DEF EffectInv
<1> QED BY <1>1

LEMMA EffectContinue ==
    ASSUME RInv, EffectInv, stack # <<>>, NEW g \in Frame, stack' = Continue(g),
           Extends(trace, trace'), g.call = Top.call \/ Top.call = None,
           \/ finished' = finished
           \/ /\ finished' = finished \cup {Top.call} /\ g.call = Top.call
              /\ SlotOf(trace'.byId[Top.call]) \in Slot
    PROVE  EffectInv'
<1>1. /\ Len(stack') = Len(stack) /\ Len(stack) \in 1..Len(stack) /\ Top = stack[Len(stack)]
      /\ stack'[Len(stack)] = g /\ Len(stack) \in Nat
      /\ \A i \in 1..Len(stack) : i < Len(stack) => stack'[i] = stack[i]
  BY ContinueType, StackType DEF RInv, Top
<1>2. None \notin finished
  BY TraceAssumption DEF RInv, TypeOK
<1>3. \A i \in 1..Len(stack) : stack[i].call \in finished =>
         \E j \in 1..Len(stack') : stack'[j].call = stack[i].call
  <2> SUFFICES ASSUME NEW i \in 1..Len(stack), stack[i].call \in finished
               PROVE  \E j \in 1..Len(stack') : stack'[j].call = stack[i].call
    OBVIOUS
  <2>1. CASE i < Len(stack)
    BY <1>1, <2>1
  <2>2. CASE i = Len(stack)
    BY <1>1, <1>2, <2>2
  <2> QED BY <1>1, <2>1, <2>2
<1>4. \A id \in finished' : \/ id \in finished
                            \/ /\ SlotOf(trace'.byId[id]) \in Slot
                               /\ \E i \in 1..Len(stack') : stack'[i].call = id
  BY <1>1
<1> QED BY <1>3, <1>4, EffectStep

LEMMA EffectPop ==
    ASSUME RInv, EffectInv, stack # <<>>, stack' = Pop, Extends(trace, trace'), UNCHANGED finished,
           Top.call \in finished => trace'.results[SlotOf(trace.byId[Top.call])] # None
    PROVE  EffectInv'
<1>1. /\ Len(stack') = Len(stack) - 1 /\ Len(stack) \in Nat \ {0} /\ Top = stack[Len(stack)]
      /\ \A i \in 1..Len(stack') : stack'[i] = stack[i]
  BY StackType DEF RInv, Top
<1>2. \A i \in 1..Len(stack) : stack[i].call \in finished =>
         \/ \E j \in 1..Len(stack') : stack'[j].call = stack[i].call
         \/ trace'.results[SlotOf(trace.byId[stack[i].call])] # None
  <2> SUFFICES ASSUME NEW i \in 1..Len(stack), stack[i].call \in finished
               PROVE  \/ \E j \in 1..Len(stack') : stack'[j].call = stack[i].call
                      \/ trace'.results[SlotOf(trace.byId[stack[i].call])] # None
    OBVIOUS
  <2>1. CASE i < Len(stack)
    BY <1>1, <2>1
  <2>2. CASE i = Len(stack)
    BY <1>1, <2>2
  <2> QED BY <1>1, <2>1, <2>2
<1> QED BY <1>2, EffectStep

LEMMA EffectNext ==
    ASSUME UnboundedNumbers, UniqueIdentifiers, RInv, FreshInv, EffectInv, [Next]_vars
    PROVE  EffectInv'
<1>1. TypeOK /\ StoreInv /\ StackInv /\ HistoryInv
  BY DEF RInv
<1>2. Extends(trace, trace')
  BY <1>1, OneAppend, SameStore, RecordsOK DEF Extends
<1>n. None \notin finished
  BY <1>1, TraceAssumption DEF TypeOK
<1>3. CASE UNCHANGED <<stack, finished>>
  BY <1>2, <1>3, EffectStep
<1>4. ASSUME NEW r \in Runtimes, NEW a \in Actions, NEW p \in Pointers,
             NEW c \in GivenIds \cup {None}, Execute(r, a, p, c)
      PROVE  EffectInv'
  <2>1. PICK g : stack' = Append(stack, g) /\ finished' = finished
    BY <1>4 DEF Execute
  <2>2. stack \in Seq(Frame)
    BY <1>1 DEF TypeOK
  <2>3. /\ Len(stack') = Len(stack) + 1 /\ Len(stack) \in Nat
        /\ \A i \in 1..Len(stack) : stack'[i] = stack[i]
    BY <2>1, <2>2
  <2>4. \A i \in 1..Len(stack) : \E j \in 1..Len(stack') : stack'[j].call = stack[i].call
    BY <2>3
  <2> QED BY <1>2, <2>1, <2>4, EffectStep
<1>5. CASE RecordBlock
  <2>1. PICK f \in Frame : f = Top /\ f.pc = "block" /\ FrameOK(f) /\ f.rt \in Runtimes /\ stack # <<>>
    BY <1>5, AtFrame DEF RecordBlock
  <2>2. Top.call \notin finished
    BY <1>n, <2>1 DEF FrameOK
  <2> QED BY <1>2, <1>5, <2>1, <2>2, EffectPop DEF RecordBlock, Return, Raise
<1>6. CASE RecordPre
  <2>1. PICK f \in Frame : f = Top /\ f.pc = "pre" /\ FrameOK(f) /\ f.rt \in Runtimes /\ stack # <<>>
    BY <1>6, AtFrame DEF RecordPre
  <2>2. Top.call = None /\ Top.call \notin finished
    BY <1>n, <2>1 DEF FrameOK
  <2>3. PICK e : /\ e = Pending(f)
                 /\ \/ Raise
                    \/ Records(e) /\ stack' = Continue([f EXCEPT !.pc = "call", !.pre = e.id])
    BY <1>6, <2>1 DEF RecordPre
  <2>4. CASE Raise
    BY <1>2, <1>6, <2>1, <2>2, <2>4, EffectPop DEF RecordPre, Raise
  <2>5. CASE stack' = Continue([f EXCEPT !.pc = "call", !.pre = e.id])
    <3>1. e.id \in EventIds
      BY <1>1, <1>6, <2>1, <2>3, Generated, PendingEvent DEF RecordPre, Recording
    <3>2. PICK g \in Frame : g = [f EXCEPT !.pc = "call", !.pre = e.id]
      BY <3>1 DEF Frame
    <3> QED BY <1>2, <1>6, <2>1, <2>2, <2>5, <3>2, EffectContinue DEF RecordPre
  <2> QED BY <2>3, <2>4, <2>5
<1>7. CASE RecordCall
  <2>1. PICK f \in Frame : f = Top /\ f.pc = "call" /\ FrameOK(f) /\ f.rt \in Runtimes /\ stack # <<>>
    BY <1>7, AtFrame DEF RecordCall
  <2>2. Top.call = None /\ Top.call \notin finished
    BY <1>n, <2>1 DEF FrameOK
  <2>3. PICK e : /\ e = Pending(f)
                 /\ \/ Raise
                    \/ stack' = Continue([f EXCEPT !.pc = "invoke", !.call = e.id, !.cid = e.call])
    BY <1>7, <2>1 DEF RecordCall
  <2>4. CASE Raise
    BY <1>2, <1>7, <2>1, <2>2, <2>4, EffectPop DEF RecordCall, Raise
  <2>5. CASE stack' = Continue([f EXCEPT !.pc = "invoke", !.call = e.id, !.cid = e.call])
    <3>1. e \in Event
      BY <1>1, <1>7, <2>1, <2>3, Generated, PendingEvent DEF RecordCall, Recording
    <3>2. PICK g \in Frame : g = [f EXCEPT !.pc = "invoke", !.call = e.id, !.cid = e.call]
      BY <3>1, EventType DEF Frame
    <3> QED BY <1>2, <1>7, <2>1, <2>2, <2>5, <3>2, EffectContinue DEF RecordCall
  <2> QED BY <2>3, <2>4, <2>5
<1>8. CASE Invoke
  <2>1. PICK f \in Frame : f = Top /\ stack # <<>>
    BY <1>8, AtFrame DEF Invoke
  <2>2. PICK g \in Frame : g = [f EXCEPT !.pc = "running", !.executed = TRUE]
    BY DEF Frame
  <2>g. g.call = f.call
    BY <2>2 DEF Frame
  <2> QED BY <1>2, <1>8, <2>1, <2>2, <2>g, EffectContinue DEF Invoke
<1>9. CASE SignatureFails
  <2>1. PICK f \in Frame : f = Top /\ stack # <<>>
    BY <1>9, AtFrame DEF SignatureFails
  <2>2. PICK g \in Frame : g = [f EXCEPT !.pc = "result"]
    BY DEF Frame
  <2>g. g.call = f.call
    BY <2>2 DEF Frame
  <2> QED BY <1>2, <1>9, <2>1, <2>2, <2>g, EffectContinue DEF SignatureFails
<1>10. ASSUME NEW x \in Effects, ExecutorEnds(x)
       PROVE  EffectInv'
  <2>1. PICK f \in Frame : f = Top /\ f.pc = "running" /\ FrameOK(f) /\ f.rt \in Runtimes /\ stack # <<>>
    BY <1>10, AtFrame DEF ExecutorEnds
  <2>2. PICK g \in Frame : g = [f EXCEPT !.pc = "result", !.effect = x]
    BY DEF Frame
  <2>g. g.call = f.call
    BY <2>2 DEF Frame
  <2>3. SlotOf(trace'.byId[f.call]) \in Slot
    BY <1>10, <2>1, RuntimeAssumption DEF ExecutorEnds, FrameOK, CallRecorded, SlotOf, Slot, Frame
  <2> QED BY <1>2, <1>10, <2>1, <2>2, <2>3, <2>g, EffectContinue DEF ExecutorEnds
<1>11. CASE Interrupt
  <2>1. PICK f \in Frame : f = Top /\ f.pc = "running" /\ FrameOK(f) /\ f.rt \in Runtimes /\ stack # <<>>
    BY <1>11, AtFrame DEF Interrupt
  <2>2. Top.call \notin finished
    BY <2>1 DEF FrameOK
  <2> QED BY <1>2, <1>11, <2>1, <2>2, EffectPop DEF Interrupt, Raise
<1>12. CASE RecordResult
  <2>1. PICK f \in Frame : f = Top /\ f.pc = "result" /\ FrameOK(f) /\ f.rt \in Runtimes /\ stack # <<>>
    BY <1>12, AtFrame DEF RecordResult
  <2>2. used[f.rt] < MaxIds /\ CallRecorded(f)
    BY <1>1, <1>12, <2>1, Generated DEF RecordResult, FrameOK
  <2>3. PICK e \in Event : /\ e = Pending(f) /\ e.kind = "TOOL_RESULT" /\ e.call = f.cid
                           /\ e.trace = TraceOf[f.rt] /\ e.id = EventId[f.rt][used[f.rt] + 1]
                           /\ e.parent = f.call /\ e.sequence > trace.lastSeq[e.trace]
                           /\ ParentKnown(trace, e)
    BY <1>1, <2>1, <2>2, PendingEvent DEF Recording, KindOf, CallOf, ParentOf
  <2>4. SlotOf(trace.byId[f.call]) = SlotOf(e) /\ SlotOf(e) = SlotOfCall(f)
    BY <2>2, <2>3 DEF CallRecorded, SlotOf, SlotOfCall
  <2>5. trace'.results[SlotOf(e)] # None \/ Records(e) \/ Refuses(e)
    BY <1>12, <2>1, <2>3 DEF RecordResult
  <2>6. Records(e) => trace'.results[SlotOf(e)] # None
    BY <1>1, <2>3, RecordsOK
  (* The identifier is new, so a refusal means there is a result already.   *)
  <2>7. ASSUME Refuses(e)
        PROVE  trace'.results[SlotOf(e)] # None
    <3>1. /\ used[f.rt] + 1 \in 1..MaxIds /\ used[f.rt] \in Nat
      BY <1>1, <2>1, <2>2, RuntimeAssumption DEF TypeOK
    <3>2. trace.byId[e.id] = None
      BY <2>1, <2>3, <3>1 DEF FreshInv, Known
    <3>3. /\ trace.calls[SlotOf(e)] # None
          /\ trace.byId[e.parent].kind = "TOOL_CALL" /\ trace.byId[e.parent].call = e.call
      BY <2>2, <2>3, <2>4 DEF CallRecorded
    <3> QED BY <2>3, <2>7, <3>2, <3>3 DEF Refuses, Accepts, NewCall, AnswersCall
  <2>8. trace'.results[SlotOf(trace.byId[Top.call])] # None
    BY <2>1, <2>4, <2>5, <2>6, <2>7
  <2>9. PICK g \in Frame : g = [f EXCEPT !.pc = "post", !.result = e.id]
    BY EventType DEF Frame
  <2>g. g.call = f.call
    BY <2>9 DEF Frame
  <2>10. stack' = Pop \/ stack' = Continue(g)
    BY <1>12, <2>1, <2>3, <2>9 DEF RecordResult, Return, Raise
  <2> QED BY <1>2, <1>12, <2>1, <2>8, <2>9, <2>10, <2>g, EffectPop, EffectContinue DEF RecordResult
<1>13. CASE PostCheck
  <2>1. PICK f \in Frame : f = Top /\ f.pc = "post" /\ FrameOK(f) /\ f.rt \in Runtimes /\ stack # <<>>
    BY <1>13, AtFrame DEF PostCheck
  <2>2. trace.results[SlotOfCall(f)] # None /\ SlotOf(trace.byId[f.call]) = SlotOfCall(f)
        /\ SlotOfCall(f) \in Slot
    BY <2>1, RuntimeAssumption DEF FrameOK, ResultRecorded, CallRecorded, SlotOf, SlotOfCall, Slot, Frame
  <2>3. trace'.results[SlotOf(trace.byId[Top.call])] # None
    BY <1>2, <2>1, <2>2 DEF Extends
  <2>4. stack' = Pop /\ UNCHANGED finished
    BY <1>13 DEF PostCheck, Return, Raise
  <2> QED BY <1>2, <2>1, <2>3, <2>4, EffectPop
<1> QED
  BY <1>3, <1>4, <1>5, <1>6, <1>7, <1>8, <1>9, <1>10, <1>11, <1>12, <1>13
  DEF Next, vars, ChangeRules, UserRecords

(* With identifiers that are really unique, no effect stays without a      *)
(* result: once execute is over, however it ended, the call of every       *)
(* executor that ended has its result on record.                           *)
THEOREM EffectsKept ==
    ASSUME UnboundedNumbers, UniqueIdentifiers
    PROVE  Spec => []EffectsRecorded
<1>1. Init => FreshInv /\ EffectInv
  BY RuntimeAssumption DEF Init, FreshInv, EffectInv, Known, EmptyStore
<1>2. RInv /\ FreshInv /\ EffectInv /\ [Next]_vars => (FreshInv /\ EffectInv)'
  BY FreshStep, EffectNext
<1>3. RInv /\ EffectInv => EffectsRecorded
  <2>1. RInv => DOMAIN stack = 1..Len(stack)
    BY DEF RInv, TypeOK
  <2> QED BY <2>1 DEF EffectInv, EffectsRecorded
<1> QED BY Invariant, <1>1, <1>2, <1>3, PTL DEF Spec
===============================================================================
