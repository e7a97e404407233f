-------------------------- MODULE TraceStore_proofs --------------------------
(***************************************************************************)
(* Proofs about TraceLog and TraceStore for every set of events, traces    *)
(* and calls.  First lemmas about the operators of TraceLog, which the     *)
(* proofs about RuntimeSession and EvidenceGate use too; then: the logs in *)
(* memory and on disk are well formed, the indexes agree with the log, a   *)
(* saved log is always accepted again, and the store implements the call   *)
(* life cycle of ToolCalls.                                                *)
(***************************************************************************)
EXTENDS TraceStore, SequenceTheorems, TLAPS

-----------------------------------------------------------------------------
(* The operators of TraceLog: what append does to a store that is well    *)
(* formed, and that a well-formed log is accepted event by event.          *)

(* What append and the empty store build is a store.                       *)
LEMMA EmptyType == EmptyStore \in Store /\ EmptyStore.events = <<>>
  BY DEF EmptyStore, Store

LEMMA AppendedFields ==
    ASSUME NEW s \in Store, NEW e \in Event
    PROVE  LET a == Appended(s, e) IN
           /\ a.events = Append(s.events, e)
           /\ a.byId = [s.byId EXCEPT ![e.id] = e]
           /\ a.byTrace = [s.byTrace EXCEPT ![e.trace] = Append(@, e)]
           /\ a.lastSeq = [s.lastSeq EXCEPT ![e.trace] = e.sequence]
           /\ a.calls = IF e.kind = "TOOL_CALL" THEN [s.calls EXCEPT ![SlotOf(e)] = e]
                        ELSE s.calls
           /\ a.results = IF e.kind = "TOOL_RESULT" THEN [s.results EXCEPT ![SlotOf(e)] = e]
                          ELSE s.results
  BY DEF Appended

LEMMA EventType ==
    ASSUME NEW e \in Event
    PROVE  /\ e.id \in EventIds /\ e.trace \in Traces /\ e.kind \in Kind
           /\ e.sequence \in Numbers /\ e.sequence \in Nat
           /\ e.parent \in EventIds \cup {None} /\ e.call \in CallIds \cup {None}
           /\ e.kind = "OTHER" <=> e.call = None
           /\ e.kind # "OTHER" => e.call \in CallIds /\ SlotOf(e) \in Slot
           /\ e # None
  BY TraceAssumption, NoneAssumption DEF Event, Slot, SlotOf

LEMMA StoreType ==
    ASSUME NEW s \in Store
    PROVE  /\ s.events \in Seq(Event)
           /\ s.byId \in [EventIds -> Event \cup {None}]
           /\ s.byTrace \in [Traces -> Seq(Event)]
           /\ s.lastSeq \in [Traces -> Numbers \cup {-1}]
           /\ s.calls \in [Slot -> Event \cup {None}]
           /\ s.results \in [Slot -> Event \cup {None}]
  BY DEF Store

LEMMA AppendedType ==
    ASSUME NEW s \in Store, NEW e \in Event
    PROVE  Appended(s, e) \in Store
<1>1. Append(s.events, e) \in Seq(Event)
  BY StoreType
<1>2. [s.byId EXCEPT ![e.id] = e] \in [EventIds -> Event \cup {None}]
  BY StoreType
<1>3. [s.byTrace EXCEPT ![e.trace] = Append(@, e)] \in [Traces -> Seq(Event)]
  BY StoreType, EventType
<1>4. [s.lastSeq EXCEPT ![e.trace] = e.sequence] \in [Traces -> Numbers \cup {-1}]
  BY StoreType, EventType
<1>5. [s.calls EXCEPT ![SlotOf(e)] = e] \in [Slot -> Event \cup {None}]
  BY StoreType
<1>6. [s.results EXCEPT ![SlotOf(e)] = e] \in [Slot -> Event \cup {None}]
  BY StoreType
<1> QED
  BY <1>1, <1>2, <1>3, <1>4, <1>5, <1>6, StoreType DEF Appended, Store

-----------------------------------------------------------------------------
(* Well-formed logs                                                        *)

LEMMA EmptyLog == LogOK(<<>>)
  BY DEF LogOK, IdsUnique, SequencesGrow, ParentsEarlier, CallsCorrelated

(* Positions of an appended event list.                                    *)
LEMMA AppendAt ==
    ASSUME NEW log \in Seq(Event), NEW e \in Event
    PROVE  /\ Append(log, e) \in Seq(Event)
           /\ Len(Append(log, e)) = Len(log) + 1 /\ Len(log) \in Nat
           /\ \A i \in 1..Len(log) : Append(log, e)[i] = log[i] /\ log[i] \in Event
           /\ Append(log, e)[Len(log) + 1] = e
  OBVIOUS

(* What a lookup finds is in the log, and what is in the log is found.     *)
LEMMA Lookups ==
    ASSUME NEW s \in Store, Agrees(s)
    PROVE  /\ \A n \in 1..Len(s.events) :
                /\ s.byId[s.events[n].id] = s.events[n]
                /\ s.events[n].sequence <= s.lastSeq[s.events[n].trace]
                /\ s.events[n].kind = "TOOL_CALL" => s.calls[SlotOf(s.events[n])] = s.events[n]
                /\ s.events[n].kind = "TOOL_RESULT" => s.results[SlotOf(s.events[n])] = s.events[n]
           /\ \A i \in EventIds : s.byId[i] # None =>
                \E n \in 1..Len(s.events) : s.events[n].id = i /\ s.byId[i] = s.events[n]
           /\ \A k \in Slot : s.calls[k] # None =>
                \E n \in 1..Len(s.events) : /\ s.events[n].kind = "TOOL_CALL"
                                            /\ SlotOf(s.events[n]) = k /\ s.calls[k] = s.events[n]
<1>1. \A n \in 1..Len(s.events) : s.events[n] \in Event
  BY StoreType
<1>2. ASSUME NEW n \in 1..Len(s.events)
      PROVE  s.events[n].sequence <= s.lastSeq[s.events[n].trace]
  <2>1. s.events[n].trace \in Traces
    BY <1>1, EventType
  <2> QED BY <2>1 DEF Agrees
<1>3. ASSUME NEW n \in 1..Len(s.events)
      PROVE  s.byId[s.events[n].id] = s.events[n]
  BY <1>1, EventType DEF Agrees
<1>4. ASSUME NEW n \in 1..Len(s.events)
      PROVE  /\ s.events[n].kind = "TOOL_CALL" => s.calls[SlotOf(s.events[n])] = s.events[n]
             /\ s.events[n].kind = "TOOL_RESULT" => s.results[SlotOf(s.events[n])] = s.events[n]
  <2>1. s.events[n].kind # "OTHER" => SlotOf(s.events[n]) \in Slot
    BY <1>1, EventType
  <2> QED BY <2>1 DEF Agrees
<1>5. ASSUME NEW i \in EventIds, s.byId[i] # None
      PROVE  \E n \in 1..Len(s.events) : s.events[n].id = i /\ s.byId[i] = s.events[n]
  BY <1>5 DEF Agrees, Ids
<1>6. ASSUME NEW k \in Slot, s.calls[k] # None
      PROVE  \E n \in 1..Len(s.events) : /\ s.events[n].kind = "TOOL_CALL"
                                         /\ SlotOf(s.events[n]) = k /\ s.calls[k] = s.events[n]
  BY <1>6 DEF Agrees, Happened
<1> QED BY <1>2, <1>3, <1>4, <1>5, <1>6

(* An accepted event extends a well-formed log to a well-formed log.       *)
LEMMA AppendedLogOK ==
    ASSUME NEW s \in Store, NEW e \in Event, LogOK(s.events), Agrees(s), Accepts(s, e)
    PROVE  LogOK(Append(s.events, e))
<1> DEFINE log == s.events
           u == Append(s.events, e)
           m == Len(s.events) + 1
<1>1. /\ log \in Seq(Event) /\ Len(log) \in Nat /\ Len(u) = m /\ u[m] = e
      /\ \A i \in 1..Len(log) : u[i] = log[i] /\ log[i] \in Event
      /\ \A i \in 1..Len(u) : i \in 1..Len(log) \/ i = m
      /\ \A i \in 1..(m - 1) : i \in 1..Len(log)
  BY StoreType, AppendAt
<1>2. /\ \A i \in 1..Len(log) : s.byId[log[i].id] = log[i] /\ log[i].sequence <= s.lastSeq[log[i].trace]
      /\ \A i \in EventIds : s.byId[i] # None =>
            \E n \in 1..Len(log) : log[n].id = i /\ s.byId[i] = log[n]
  BY Lookups
<1>3. /\ \A i \in 1..Len(log) : /\ log[i].kind = "TOOL_CALL" => s.calls[SlotOf(log[i])] = log[i]
                                /\ log[i].kind = "TOOL_RESULT" => s.results[SlotOf(log[i])] = log[i]
      /\ \A k \in Slot : s.calls[k] # None =>
            \E n \in 1..Len(log) : log[n].kind = "TOOL_CALL" /\ SlotOf(log[n]) = k /\ s.calls[k] = log[n]
  BY Lookups
<1> HIDE DEF log, u, m
<1>4. IdsUnique(u)
  <2>1. \A i \in 1..Len(log) : log[i].id # e.id
    BY <1>1, <1>2, EventType DEF Accepts
  <2> QED BY <1>1, <2>1 DEF IdsUnique, LogOK, log
<1>5. SequencesGrow(u)
  <2>1. \A i \in 1..Len(log) : log[i].trace = e.trace => log[i].sequence < e.sequence
    <3> TAKE i \in 1..Len(log)
    <3>1. /\ log[i].sequence \in Nat /\ e.sequence \in Nat /\ e.trace \in Traces
          /\ log[i].sequence <= s.lastSeq[log[i].trace]
      BY <1>1, <1>2, EventType
    <3>2. s.lastSeq[e.trace] \in Int /\ e.sequence > s.lastSeq[e.trace]
      BY <3>1, StoreType, TraceAssumption DEF Accepts
    <3> QED BY <3>1, <3>2
  <2>2. SequencesGrow(log)
    BY DEF LogOK, log
  <2>3. ASSUME NEW i \in 1..Len(u), NEW j \in 1..Len(u), i < j, u[i].trace = u[j].trace
        PROVE  u[i].sequence < u[j].sequence
    <3>1. i \in 1..Len(log)
      BY <1>1, <2>3 DEF m, log
    <3>2. CASE j \in 1..Len(log)
      BY <1>1, <2>2, <2>3, <3>1, <3>2 DEF SequencesGrow
    <3>3. CASE j = m
      BY <1>1, <2>1, <2>3, <3>1, <3>3
    <3> QED BY <1>1, <3>2, <3>3
  <2> QED BY <2>3 DEF SequencesGrow
<1>6. ParentsEarlier(u)
  <2>1. e.parent # None => \E j \in 1..Len(log) : log[j].id = e.parent /\ log[j].trace = e.trace
    BY <1>2, EventType DEF Accepts, ParentKnown
  <2>2. ASSUME NEW i \in 1..Len(log), log[i].parent # None
        PROVE  \E j \in 1..(i - 1) : u[j].id = log[i].parent /\ u[j].trace = log[i].trace
    <3>1. PICK j \in 1..(i - 1) : log[j].id = log[i].parent /\ log[j].trace = log[i].trace
      BY <2>2 DEF LogOK, ParentsEarlier, log
    <3>2. j \in 1..Len(log)
      BY <1>1
    <3> QED BY <1>1, <3>1, <3>2
  <2>3. 1..(m - 1) = 1..Len(log)
    BY <1>1 DEF m, log
  <2> QED BY <1>1, <2>1, <2>2, <2>3 DEF ParentsEarlier
<1>7. CallsCorrelated(u)
  <2>1. \A i \in 1..Len(log) : /\ e.kind # "OTHER" /\ log[i].kind = e.kind => SlotOf(log[i]) # SlotOf(e)
    <3> TAKE i \in 1..Len(log)
    <3>1. CASE e.kind = "TOOL_CALL"
      BY <1>1, <1>3, <3>1, EventType DEF Accepts, NewCall
    <3>2. CASE e.kind = "TOOL_RESULT"
      BY <1>1, <1>3, <3>2, EventType DEF Accepts, AnswersCall
    <3> QED BY <3>1, <3>2, EventType DEF Kind
  <2>2. ASSUME e.kind = "TOOL_RESULT"
        PROVE  \E j \in 1..Len(log) : /\ log[j].kind = "TOOL_CALL" /\ SlotOf(log[j]) = SlotOf(e)
                                      /\ e.parent \in {None, log[j].id}
    <3>1. SlotOf(e) \in Slot /\ s.calls[SlotOf(e)] # None
      BY <2>2, EventType DEF Accepts, AnswersCall
    <3>2. CASE e.parent = None
      BY <1>3, <3>1, <3>2
    <3>3. CASE e.parent # None
      <4>1. PICK j \in 1..Len(log) : log[j].id = e.parent /\ s.byId[e.parent] = log[j]
        BY <1>2, <3>3, EventType DEF Accepts, ParentKnown
      <4>2. log[j].trace = e.trace /\ log[j].kind = "TOOL_CALL" /\ log[j].call = e.call
        BY <2>2, <3>3, <4>1 DEF Accepts, ParentKnown, AnswersCall
      <4> QED BY <4>1, <4>2 DEF SlotOf
    <3> QED BY <3>2, <3>3
  <2>3. ASSUME NEW i \in 1..Len(log), log[i].kind = "TOOL_RESULT"
        PROVE  \E j \in 1..(i - 1) : /\ u[j].kind = "TOOL_CALL" /\ SlotOf(u[j]) = SlotOf(log[i])
                                     /\ log[i].parent \in {None, u[j].id}
    <3>1. PICK j \in 1..(i - 1) : /\ log[j].kind = "TOOL_CALL" /\ SlotOf(log[j]) = SlotOf(log[i])
                                  /\ log[i].parent \in {None, log[j].id}
      BY <2>3 DEF LogOK, CallsCorrelated, log
    <3>2. j \in 1..Len(log)
      BY <1>1
    <3> QED BY <1>1, <3>1, <3>2
  <2>4. 1..(m - 1) = 1..Len(log)
    BY <1>1 DEF m, log
  <2>5. ASSUME NEW i \in 1..Len(u), u[i].kind # "OTHER", NEW j \in 1..Len(u),
               SlotOf(u[j]) = SlotOf(u[i]), u[j].kind = u[i].kind
        PROVE  j = i
    BY <1>1, <2>1, <2>5 DEF LogOK, CallsCorrelated, log
  <2>6. ASSUME NEW i \in 1..Len(u), u[i].kind = "TOOL_RESULT"
        PROVE  \E j \in 1..(i - 1) : /\ u[j].kind = "TOOL_CALL" /\ SlotOf(u[j]) = SlotOf(u[i])
                                     /\ u[i].parent \in {None, u[j].id}
    BY <1>1, <2>2, <2>3, <2>4, <2>6
  <2> QED BY <2>5, <2>6 DEF CallsCorrelated
<1> QED BY <1>4, <1>5, <1>6, <1>7 DEF LogOK, u

-----------------------------------------------------------------------------
(* Indexes                                                                 *)

LEMMA EmptyAgrees == Agrees(EmptyStore)
  BY DEF Agrees, EmptyStore, Ids, Happened

(* The part of Agrees about list_events(t).                                *)
OwnEvents(s, t) == {s.events[n] : n \in {n \in 1..Len(s.events) : s.events[n].trace = t}}
TraceAgrees(s, t) ==
    /\ {s.byTrace[t][m] : m \in 1..Len(s.byTrace[t])} = OwnEvents(s, t)
    /\ \A m, n \in 1..Len(s.byTrace[t]) :
          m < n => s.byTrace[t][m].sequence < s.byTrace[t][n].sequence
    /\ \A e \in OwnEvents(s, t) : e.sequence <= s.lastSeq[t]
    /\ s.lastSeq[t] = -1 \/ \E e \in OwnEvents(s, t) : e.sequence = s.lastSeq[t]

LEMMA AppendedAgrees ==
    ASSUME NEW s \in Store, NEW e \in Event, Agrees(s), Accepts(s, e)
    PROVE  Agrees(Appended(s, e))
<1> DEFINE a == Appended(s, e)
           log == s.events
           u == a.events
           n0 == Len(s.events) + 1
<1>1. /\ log \in Seq(Event) /\ Len(log) \in Nat /\ Len(u) = n0 /\ u[n0] = e
      /\ \A i \in 1..Len(log) : u[i] = log[i] /\ log[i] \in Event
      /\ 1..Len(u) = 1..Len(log) \cup {n0}
  <2>1. u = Append(log, e)
    BY AppendedFields
  <2>2. /\ log \in Seq(Event) /\ Len(log) \in Nat /\ Len(u) = n0 /\ u[n0] = e
        /\ \A i \in 1..Len(log) : u[i] = log[i] /\ log[i] \in Event
    <3> HIDE DEF u
    <3> QED BY <2>1, StoreType, AppendAt
  <2>3. 1..n0 = 1..Len(log) \cup {n0}
    BY <2>2
  <2> QED BY <2>2, <2>3
<1>2. /\ a.byId = [s.byId EXCEPT ![e.id] = e]
      /\ a.byTrace = [s.byTrace EXCEPT ![e.trace] = Append(@, e)]
      /\ a.lastSeq = [s.lastSeq EXCEPT ![e.trace] = e.sequence]
  BY AppendedFields
<1>3. /\ a.calls = IF e.kind = "TOOL_CALL" THEN [s.calls EXCEPT ![SlotOf(e)] = e] ELSE s.calls
      /\ a.results = IF e.kind = "TOOL_RESULT" THEN [s.results EXCEPT ![SlotOf(e)] = e]
                     ELSE s.results
  BY AppendedFields
<1>t. /\ s.byId \in [EventIds -> Event \cup {None}]
      /\ s.byTrace \in [Traces -> Seq(Event)]
      /\ s.lastSeq \in [Traces -> Numbers \cup {-1}]
      /\ s.calls \in [Slot -> Event \cup {None}]
      /\ s.results \in [Slot -> Event \cup {None}]
  BY StoreType
<1>e. /\ e.id \in EventIds /\ e.trace \in Traces /\ e # None
      /\ e.kind # "OTHER" => SlotOf(e) \in Slot
  BY EventType
<1> HIDE DEF a, u, log, n0
<1>4. ASSUME NEW i \in EventIds
      PROVE  /\ a.byId[i] = None <=> i \notin Ids(u)
             /\ \A n \in 1..Len(u) : u[n].id = i => a.byId[i] = u[n]
  <2>1. /\ s.byId[i] = None <=> i \notin Ids(log)
        /\ \A n \in 1..Len(log) : log[n].id = i => s.byId[i] = log[n]
    BY DEF Agrees, log
  <2>2. Ids(u) = Ids(log) \cup {e.id}
    BY <1>1 DEF Ids
  <2>3. e.id \notin Ids(log)
    BY <1>e DEF Accepts, Agrees, log
  <2>4. CASE i = e.id
    <3>1. a.byId[i] = e /\ \A n \in 1..Len(log) : log[n].id # i
      BY <1>2, <1>t, <2>3, <2>4 DEF Ids
    <3> QED BY <1>1, <1>e, <2>2, <2>4, <3>1
  <2>5. CASE i # e.id
    <3>1. a.byId[i] = s.byId[i]
      BY <1>2, <1>t, <2>5
    <3> QED BY <1>1, <2>1, <2>2, <2>5, <3>1
  <2> QED BY <2>4, <2>5
<1>5. ASSUME NEW k \in Slot
      PROVE  /\ a.calls[k] = None <=> ~Happened(u, "TOOL_CALL", k)
             /\ a.results[k] = None <=> ~Happened(u, "TOOL_RESULT", k)
             /\ \A n \in 1..Len(u) : SlotOf(u[n]) = k =>
                  /\ u[n].kind = "TOOL_CALL" => a.calls[k] = u[n]
                  /\ u[n].kind = "TOOL_RESULT" => a.results[k] = u[n]
  <2>1. /\ s.calls[k] = None <=> ~Happened(log, "TOOL_CALL", k)
        /\ s.results[k] = None <=> ~Happened(log, "TOOL_RESULT", k)
        /\ \A n \in 1..Len(log) : SlotOf(log[n]) = k =>
              /\ log[n].kind = "TOOL_CALL" => s.calls[k] = log[n]
              /\ log[n].kind = "TOOL_RESULT" => s.results[k] = log[n]
    BY DEF Agrees, log
  <2>2. \A kind \in Kind : Happened(u, kind, k) <=>
            Happened(log, kind, k) \/ (e.kind = kind /\ SlotOf(e) = k)
    BY <1>1 DEF Happened
  <2>3. CASE e.kind = "TOOL_CALL" /\ SlotOf(e) = k
    <3>1. a.calls[k] = e /\ a.results[k] = s.results[k] /\ s.calls[k] = None
      BY <1>3, <1>t, <2>3 DEF Accepts, NewCall
    <3>2. ~Happened(log, "TOOL_CALL", k)
      BY <2>1, <3>1
    <3>3. \A n \in 1..Len(log) : ~(log[n].kind = "TOOL_CALL" /\ SlotOf(log[n]) = k)
      BY <3>2 DEF Happened
    <3>4. \A n \in 1..Len(u) : SlotOf(u[n]) = k =>
            /\ u[n].kind = "TOOL_CALL" => a.calls[k] = u[n]
            /\ u[n].kind = "TOOL_RESULT" => a.results[k] = u[n]
      BY <1>1, <2>1, <2>3, <3>1, <3>3
    <3>5. /\ a.calls[k] = None <=> ~Happened(u, "TOOL_CALL", k)
          /\ a.results[k] = None <=> ~Happened(u, "TOOL_RESULT", k)
      BY <1>e, <2>1, <2>2, <2>3, <3>1 DEF Kind
    <3> QED BY <3>4, <3>5
  <2>4. CASE e.kind = "TOOL_RESULT" /\ SlotOf(e) = k
    <3>1. a.calls[k] = s.calls[k] /\ a.results[k] = e /\ s.results[k] = None
      BY <1>3, <1>t, <2>4 DEF Accepts, AnswersCall
    <3>2. ~Happened(log, "TOOL_RESULT", k)
      BY <2>1, <3>1
    <3>3. \A n \in 1..Len(log) : ~(log[n].kind = "TOOL_RESULT" /\ SlotOf(log[n]) = k)
      BY <3>2 DEF Happened
    <3>4. \A n \in 1..Len(u) : SlotOf(u[n]) = k =>
            /\ u[n].kind = "TOOL_CALL" => a.calls[k] = u[n]
            /\ u[n].kind = "TOOL_RESULT" => a.results[k] = u[n]
      BY <1>1, <2>1, <2>4, <3>1, <3>3
    <3>5. /\ a.calls[k] = None <=> ~Happened(u, "TOOL_CALL", k)
          /\ a.results[k] = None <=> ~Happened(u, "TOOL_RESULT", k)
      BY <1>e, <2>1, <2>2, <2>4, <3>1 DEF Kind
    <3> QED BY <3>4, <3>5
  <2>5. CASE e.kind = "OTHER" \/ SlotOf(e) # k
    <3>1. a.calls[k] = s.calls[k] /\ a.results[k] = s.results[k]
      BY <1>3, <1>t, <1>e, <2>5
    <3> QED BY <1>1, <2>1, <2>2, <2>5, <3>1 DEF Kind
  <2> QED BY <2>3, <2>4, <2>5, EventType DEF Kind
<1>6. ASSUME NEW t \in Traces
      PROVE  TraceAgrees(a, t)
  <2>1. TraceAgrees(s, t)
    BY DEF Agrees, TraceAgrees, OwnEvents
  <2>2. CASE t # e.trace
    <3>1. OwnEvents(a, t) = OwnEvents(s, t)
      BY <1>1, <2>2 DEF OwnEvents, u, log
    <3>2. a.byTrace[t] = s.byTrace[t] /\ a.lastSeq[t] = s.lastSeq[t]
      BY <1>2, <1>t, <2>2
    <3> QED BY <2>1, <3>1, <3>2 DEF TraceAgrees
  <2>3. CASE t = e.trace
    <3>1. OwnEvents(a, t) = OwnEvents(s, t) \cup {e}
      BY <1>1, <2>3 DEF OwnEvents, u, log
    <3>2. PICK b \in Seq(Event) : b = s.byTrace[t]
      BY <1>t
    <3>3. a.byTrace[t] = Append(b, e) /\ a.lastSeq[t] = e.sequence
      BY <1>2, <1>t, <2>3, <3>2
    <3>4. /\ Len(b) \in Nat /\ Len(a.byTrace[t]) = Len(b) + 1 /\ a.byTrace[t][Len(b) + 1] = e
          /\ \A i \in 1..Len(b) : a.byTrace[t][i] = b[i] /\ b[i] \in Event
          /\ 1..(Len(b) + 1) = 1..Len(b) \cup {Len(b) + 1}
      BY <3>3, AppendAt
    <3>5. {a.byTrace[t][m] : m \in 1..Len(a.byTrace[t])} = {b[m] : m \in 1..Len(b)} \cup {e}
      BY <3>4
    <3>6. \A d \in OwnEvents(s, t) : d.sequence < e.sequence
      <4> TAKE d \in OwnEvents(s, t)
      <4>1. d \in Event /\ d.sequence <= s.lastSeq[t]
        BY <1>1, <2>1 DEF TraceAgrees, OwnEvents, log
      <4>2. d.sequence \in Nat /\ e.sequence \in Nat /\ s.lastSeq[t] \in Int /\ e.sequence > s.lastSeq[t]
        <5>1. d.sequence \in Nat /\ e.sequence \in Nat
          BY <4>1, EventType
        <5>2. s.lastSeq[t] \in Numbers \cup {-1}
          BY <1>t
        <5>3. \A i \in Numbers \cup {-1} : i \in Int
          BY TraceAssumption
        <5>4. s.lastSeq[t] \in Int
          BY <5>2, <5>3, Zenon
        <5> QED BY <2>3, <5>1, <5>4 DEF Accepts
      <4> QED BY <4>1, <4>2
    <3>7. \A m \in 1..Len(b) : b[m] \in OwnEvents(s, t)
      BY <2>1, <3>2 DEF TraceAgrees
    <3>8. ASSUME NEW m \in 1..Len(a.byTrace[t]), NEW n \in 1..Len(a.byTrace[t]), m < n
          PROVE  a.byTrace[t][m].sequence < a.byTrace[t][n].sequence
      <4>1. m \in 1..Len(b)
        BY <3>4, <3>8
      <4>2. CASE n \in 1..Len(b)
        BY <2>1, <3>2, <3>4, <3>8, <4>1, <4>2 DEF TraceAgrees
      <4>3. CASE n = Len(b) + 1
        BY <3>4, <3>6, <3>7, <4>1, <4>3
      <4> QED BY <3>4, <4>2, <4>3
    <3>9. \A d \in OwnEvents(a, t) : d.sequence <= a.lastSeq[t]
      <4>1. \A d \in OwnEvents(s, t) : d.sequence \in Nat
        BY <1>1, EventType DEF OwnEvents, log
      <4> QED BY <3>1, <3>3, <3>6, <4>1, EventType
    <3>10. \E d \in OwnEvents(a, t) : d.sequence = a.lastSeq[t]
      BY <3>1, <3>3
    <3>11. {a.byTrace[t][m] : m \in 1..Len(a.byTrace[t])} = OwnEvents(a, t)
      BY <2>1, <3>1, <3>2, <3>5 DEF TraceAgrees
    <3> QED BY <3>8, <3>9, <3>10, <3>11 DEF TraceAgrees
  <2> QED BY <2>2, <2>3
<1> QED BY <1>4, <1>5, <1>6 DEF Agrees, TraceAgrees, OwnEvents, a, u

(* An event of a well-formed log is accepted by the store of the events    *)
(* that stand before it.                                                   *)
LEMMA PrefixAccepts ==
    ASSUME NEW s \in Store, Agrees(s), NEW log \in Seq(Event), LogOK(log),
           Len(s.events) < Len(log), \A i \in 1..Len(s.events) : s.events[i] = log[i]
    PROVE  Accepts(s, log[Len(s.events) + 1])
<1> DEFINE n == Len(s.events) + 1
           e == log[n]
<1>1. /\ n \in 1..Len(log) /\ e \in Event /\ Len(s.events) \in Nat
      /\ 1..(n - 1) = 1..Len(s.events)
      /\ \A i \in 1..Len(s.events) : s.events[i] \in Event /\ i \in 1..Len(log) /\ i < n
      /\ \A i \in 1..Len(s.events) : s.events[i] = log[i]
  BY StoreType
<1>2. /\ \A i \in 1..Len(s.events) : s.byId[s.events[i].id] = s.events[i]
      /\ \A i \in EventIds : s.byId[i] # None =>
            \E m \in 1..Len(s.events) : s.events[m].id = i /\ s.byId[i] = s.events[m]
  BY Lookups
<1>3. \A i \in 1..Len(s.events) :
          s.events[i].kind = "TOOL_CALL" => s.calls[SlotOf(s.events[i])] = s.events[i]
  BY Lookups
<1>e. /\ e.id \in EventIds /\ e.trace \in Traces /\ e.sequence \in Nat /\ e # None
      /\ e.parent \in EventIds \cup {None}
      /\ e.kind # "OTHER" => SlotOf(e) \in Slot
  BY <1>1, EventType
<1> HIDE DEF n, e
<1>4. s.byId[e.id] = None
  BY <1>1, <1>2, <1>e DEF LogOK, IdsUnique, e
<1>5. e.sequence > s.lastSeq[e.trace]
  <2>1. CASE s.lastSeq[e.trace] = -1
    BY <1>e, <2>1
  <2>2. CASE s.lastSeq[e.trace] # -1
    <3>1. PICK i \in 1..Len(s.events) :
              s.events[i].trace = e.trace /\ s.events[i].sequence = s.lastSeq[e.trace]
      BY <1>e, <2>2 DEF Agrees
    <3>2. s.events[i].sequence < e.sequence
      BY <1>1, <3>1 DEF LogOK, SequencesGrow, e
    <3> QED BY <1>1, <1>e, <3>1, <3>2, EventType
  <2> QED BY <2>1, <2>2
<1>6. ParentKnown(s, e)
  <2>1. ASSUME e.parent # None
        PROVE  s.byId[e.parent] # None /\ s.byId[e.parent].trace = e.trace
    <3>1. PICK j \in 1..(n - 1) : log[j].id = e.parent /\ log[j].trace = e.trace
      BY <1>1, <2>1 DEF LogOK, ParentsEarlier, e
    <3> QED BY <1>1, <1>2, <3>1, EventType
  <2> QED BY <2>1 DEF ParentKnown
<1>7. NewCall(s, e)
  <2>1. ASSUME e.kind = "TOOL_CALL", s.calls[SlotOf(e)] # None
        PROVE  FALSE
    <3>1. PICK i \in 1..Len(s.events) : s.events[i].kind = "TOOL_CALL" /\ SlotOf(s.events[i]) = SlotOf(e)
      BY <1>e, <2>1 DEF Agrees, Happened
    <3> QED BY <1>1, <2>1, <3>1 DEF LogOK, CallsCorrelated, e
  <2> QED BY <2>1 DEF NewCall
<1>8. AnswersCall(s, e)
  <2>1. SUFFICES ASSUME e.kind = "TOOL_RESULT"
                 PROVE  /\ s.calls[SlotOf(e)] # None
                        /\ e.parent # None => /\ s.byId[e.parent].kind = "TOOL_CALL"
                                              /\ s.byId[e.parent].call = e.call
                        /\ s.results[SlotOf(e)] = None
    BY DEF AnswersCall
  <2>2. PICK j \in 1..(n - 1) : /\ log[j].kind = "TOOL_CALL" /\ SlotOf(log[j]) = SlotOf(e)
                                /\ e.parent \in {None, log[j].id}
    BY <1>1, <2>1 DEF LogOK, CallsCorrelated, e
  <2>3. s.events[j] = log[j] /\ log[j] # None /\ s.calls[SlotOf(e)] = log[j] /\ s.byId[log[j].id] = log[j]
    BY <1>1, <1>2, <1>3, <2>2, EventType
  <2>4. log[j].call = e.call
    BY <2>2 DEF SlotOf
  <2>5. s.results[SlotOf(e)] = None
    <3>1. ASSUME s.results[SlotOf(e)] # None PROVE FALSE
      <4>1. PICK i \in 1..Len(s.events) : s.events[i].kind = "TOOL_RESULT" /\ SlotOf(s.events[i]) = SlotOf(e)
        BY <1>e, <2>1, <3>1 DEF Agrees, Happened
      <4>2. /\ i \in 1..Len(log) /\ n \in 1..Len(log) /\ i < n
            /\ log[i].kind = log[n].kind /\ log[n].kind # "OTHER" /\ SlotOf(log[i]) = SlotOf(log[n])
        BY <1>1, <2>1, <4>1 DEF e
      <4> QED BY <4>2 DEF LogOK, CallsCorrelated
    <3> QED BY <3>1
  <2> QED BY <2>2, <2>3, <2>4, <2>5
<1> QED BY <1>4, <1>5, <1>6, <1>7, <1>8 DEF Accepts, e, n

-----------------------------------------------------------------------------
(* The state machine of TraceStore.                                        *)

(* The inductive invariant.                                                *)
ReplayPrefix ==
    loading => /\ Len(store.events) <= Len(saved)
               /\ \A i \in 1..Len(store.events) : store.events[i] = saved[i]

ReplayInv == StoreTypeOK /\ LogsOK /\ IndexesAgree /\ ReplayPrefix

LEMMA ReplayInit == StoreInit => ReplayInv
<1> SUFFICES ASSUME StoreInit PROVE ReplayInv
  OBVIOUS
<1>1. store = EmptyStore /\ saved = <<>> /\ loading = FALSE
  BY DEF StoreInit
<1>2. store \in Store /\ Agrees(store) /\ store.events = <<>>
  BY <1>1, EmptyType, EmptyAgrees
<1>3. LogOK(store.events) /\ LogOK(saved)
  BY <1>1, <1>2, EmptyLog
<1>4. StoreTypeOK
  <2>1. <<>> \in Seq(Event)
    OBVIOUS
  <2> QED BY <1>1, <1>2, <2>1 DEF StoreTypeOK
<1> QED
  BY <1>1, <1>2, <1>3, <1>4 DEF ReplayInv, LogsOK, IndexesAgree, ReplayPrefix

LEMMA ReplayStep == ReplayInv /\ [StoreNext]_storeVars => ReplayInv'
<1> SUFFICES ASSUME StoreTypeOK, LogsOK, IndexesAgree, ReplayPrefix, [StoreNext]_storeVars PROVE ReplayInv'
  BY DEF ReplayInv
<1>t. store \in Store /\ saved \in Seq(Event) /\ loading \in BOOLEAN
  BY DEF StoreTypeOK
<1>1. ASSUME NEW e \in Event, AppendEvent(e) PROVE ReplayInv'
  <2>1. store' = Appended(store, e) /\ saved' = saved /\ loading' = FALSE /\ Accepts(store, e)
    BY <1>1, <1>t DEF AppendEvent
  <2>2. store' \in Store /\ store'.events = Append(store.events, e)
    BY <1>t, <2>1, AppendedType, AppendedFields
  <2>3. LogOK(store'.events)
    BY <1>t, <2>1, <2>2, AppendedLogOK DEF LogsOK, IndexesAgree
  <2>4. Agrees(store')
    BY <1>t, <2>1, AppendedAgrees DEF IndexesAgree
  <2> QED BY <1>t, <2>1, <2>2, <2>3, <2>4 DEF ReplayInv, StoreTypeOK, LogsOK, IndexesAgree, ReplayPrefix
<1>2. CASE ToDict
  <2>1. store' = store /\ saved' = store.events /\ loading' = FALSE
    BY <1>2, <1>t DEF ToDict
  <2>2. saved' \in Seq(Event)
    BY <1>t, <2>1, StoreType
  <2> QED BY <1>t, <2>1, <2>2 DEF ReplayInv, StoreTypeOK, LogsOK, IndexesAgree, ReplayPrefix
<1>3. CASE FromDict
  <2>1. store' = EmptyStore /\ saved' = saved /\ loading' = TRUE
    BY <1>3 DEF FromDict
  <2>2. store' \in Store /\ store'.events = <<>> /\ LogOK(store'.events) /\ Agrees(store')
    BY <2>1, EmptyType, EmptyLog, EmptyAgrees
  <2>3. Len(store'.events) = 0 /\ Len(saved) \in Nat
    BY <1>t, <2>2
  <2> QED BY <1>t, <2>1, <2>2, <2>3 DEF ReplayInv, StoreTypeOK, LogsOK, IndexesAgree, ReplayPrefix
<1>4. CASE ReplayNext
  <2>1. PICK n \in Nat : n = Len(store.events) + 1
    BY <1>t, StoreType
  <2>2. /\ loading /\ n <= Len(saved) /\ Accepts(store, saved[n]) /\ saved[n] \in Event
        /\ store' = Appended(store, saved[n]) /\ saved' = saved /\ loading' = loading
    BY <1>4, <1>t, <2>1, StoreType DEF ReplayNext
  <2>3. store' \in Store /\ store'.events = Append(store.events, saved[n])
    BY <1>t, <2>2, AppendedType, AppendedFields
  <2>4. LogOK(store'.events)
    BY <1>t, <2>2, <2>3, AppendedLogOK DEF LogsOK, IndexesAgree
  <2>5. Agrees(store')
    BY <1>t, <2>2, AppendedAgrees DEF IndexesAgree
  <2>6. /\ Len(store'.events) = n
        /\ \A i \in 1..n : store'.events[i] = saved[i]
    BY <1>t, <2>1, <2>2, <2>3, StoreType, AppendAt DEF ReplayPrefix
  <2> QED BY <1>t, <2>2, <2>3, <2>4, <2>5, <2>6 DEF ReplayInv, StoreTypeOK, LogsOK, IndexesAgree, ReplayPrefix
<1>5. CASE ReplayDone
  <2>1. store' = store /\ saved' = saved /\ loading' = FALSE
    BY <1>5 DEF ReplayDone
  <2> QED BY <1>t, <2>1 DEF ReplayInv, StoreTypeOK, LogsOK, IndexesAgree, ReplayPrefix
<1>6. CASE UNCHANGED storeVars
  BY <1>6 DEF storeVars, ReplayInv, StoreTypeOK, LogsOK, IndexesAgree, ReplayPrefix
<1> QED BY <1>1, <1>2, <1>3, <1>4, <1>5, <1>6 DEF StoreNext

LEMMA ReplayInductive == StoreSpec => []ReplayInv
  BY ReplayInit, ReplayStep, PTL DEF StoreSpec

(* The variables keep their types.                                         *)
THEOREM StoreTypeCorrect == StoreSpec => []StoreTypeOK
<1>1. ReplayInv => StoreTypeOK
  BY DEF ReplayInv
<1> QED BY <1>1, ReplayInductive, PTL

(* Every log, in memory or saved, is well formed: ids, sequence numbers,   *)
(* parents, calls and results (the invariants append enforces).            *)
THEOREM LogsCorrect == StoreSpec => []LogsOK
<1>1. ReplayInv => LogsOK
  BY DEF ReplayInv
<1> QED BY <1>1, ReplayInductive, PTL

(* The five indexes of the store always describe its event list.           *)
THEOREM IndexesCorrect == StoreSpec => []IndexesAgree
<1>1. ReplayInv => IndexesAgree
  BY DEF ReplayInv
<1> QED BY <1>1, ReplayInductive, PTL

(* from_dict accepts every event that to_dict wrote.                       *)
THEOREM ReplayCorrect == StoreSpec => []ReplayAccepted
<1>1. ReplayInv => ReplayAccepted
  <2> SUFFICES ASSUME ReplayInv, loading PROVE ReplayAccepted
    BY DEF ReplayAccepted
  <2>1. store \in Store /\ saved \in Seq(Event) /\ Agrees(store) /\ LogOK(saved)
    BY DEF ReplayInv, StoreTypeOK, LogsOK, IndexesAgree
  <2>2. /\ Len(store.events) <= Len(saved)
        /\ \A i \in 1..Len(store.events) : store.events[i] = saved[i]
    BY DEF ReplayInv, ReplayPrefix
  <2>3. Len(store.events) < Len(saved) => Accepts(store, saved[Len(store.events) + 1])
    BY <2>1, <2>2, PrefixAccepts
  <2> QED BY <2>2, <2>3 DEF ReplayAccepted
<1> QED BY <1>1, ReplayInductive, PTL

-----------------------------------------------------------------------------
(* The store implements ToolCalls.                                         *)

(* One accepted event moves at most one call, one step along its life.     *)
LEMMA StatusAppended ==
    ASSUME NEW s \in Store, NEW e \in Event, LogOK(s.events), Agrees(s), Accepts(s, e)
    PROVE  \/ StatusIn(Append(s.events, e)) = StatusIn(s.events)
           \/ \E k \in Slot :
                \/ /\ StatusIn(s.events)[k] = "unknown"
                   /\ StatusIn(Append(s.events, e)) = [StatusIn(s.events) EXCEPT ![k] = "open"]
                \/ /\ StatusIn(s.events)[k] = "open"
                   /\ StatusIn(Append(s.events, e)) = [StatusIn(s.events) EXCEPT ![k] = "answered"]
<1> DEFINE log == s.events
           u == Append(s.events, e)
<1>1. \A kind \in Kind, k \in Slot : Happened(u, kind, k) <=>
          Happened(log, kind, k) \/ (e.kind = kind /\ SlotOf(e) = k)
  <2>1. /\ Len(log) \in Nat /\ Len(u) = Len(log) + 1 /\ u[Len(log) + 1] = e
        /\ \A i \in 1..Len(log) : u[i] = log[i]
    BY StoreType, AppendAt
  <2> HIDE DEF log, u
  <2>2. 1..Len(u) = 1..Len(log) \cup {Len(log) + 1}
    BY <2>1
  <2> QED BY <2>1, <2>2 DEF Happened
<1>2. e.kind # "OTHER" => SlotOf(e) \in Slot
  BY EventType
<1>3. /\ e.kind = "TOOL_CALL" => ~Happened(log, "TOOL_CALL", SlotOf(e))
      /\ e.kind = "TOOL_RESULT" => /\ Happened(log, "TOOL_CALL", SlotOf(e))
                                   /\ ~Happened(log, "TOOL_RESULT", SlotOf(e))
  BY <1>2 DEF Accepts, NewCall, AnswersCall, Agrees
<1>4. \A k \in Slot : Happened(log, "TOOL_RESULT", k) => Happened(log, "TOOL_CALL", k)
  <2> TAKE k \in Slot
  <2>1. Len(log) \in Nat /\ CallsCorrelated(log)
    BY StoreType DEF LogOK
  <2> HIDE DEF log
  <2> QED BY <2>1 DEF Happened, CallsCorrelated
<1> HIDE DEF log, u
<1>5. CASE e.kind = "OTHER"
  <2>1. \A kind \in {"TOOL_CALL", "TOOL_RESULT"}, k \in Slot :
            Happened(u, kind, k) <=> Happened(log, kind, k)
    BY <1>1, <1>5 DEF Kind
  <2>2. StatusIn(u) = StatusIn(log)
    BY <2>1 DEF StatusIn
  <2> QED BY <2>2 DEF u, log
<1>6. CASE e.kind = "TOOL_CALL"
  <2>1. StatusIn(log)[SlotOf(e)] = "unknown"
    BY <1>2, <1>3, <1>4, <1>6 DEF StatusIn
  <2>2. \A k \in Slot : /\ Happened(u, "TOOL_RESULT", k) <=> Happened(log, "TOOL_RESULT", k)
                        /\ Happened(u, "TOOL_CALL", k) <=> Happened(log, "TOOL_CALL", k) \/ k = SlotOf(e)
    BY <1>1, <1>6 DEF Kind
  <2>3. StatusIn(u) = [StatusIn(log) EXCEPT ![SlotOf(e)] = "open"]
    BY <1>2, <1>3, <1>4, <1>6, <2>2 DEF StatusIn
  <2> QED BY <1>2, <1>6, <2>1, <2>3 DEF u, log
<1>7. CASE e.kind = "TOOL_RESULT"
  <2>1. StatusIn(log)[SlotOf(e)] = "open"
    BY <1>2, <1>3, <1>7 DEF StatusIn
  <2>2. \A k \in Slot : /\ Happened(u, "TOOL_CALL", k) <=> Happened(log, "TOOL_CALL", k)
                        /\ Happened(u, "TOOL_RESULT", k) <=> Happened(log, "TOOL_RESULT", k) \/ k = SlotOf(e)
    BY <1>1, <1>7 DEF Kind
  <2>3. StatusIn(u) = [StatusIn(log) EXCEPT ![SlotOf(e)] = "answered"]
    BY <1>2, <2>2 DEF StatusIn
  <2> QED BY <1>2, <1>7, <2>1, <2>3 DEF u, log
<1> QED BY <1>5, <1>6, <1>7, EventType DEF Kind

LEMMA StoreInitCalls == StoreInit => Calls!CInit
  BY EmptyType DEF StoreInit, Calls!CInit, StatusIn, Happened, Slot

LEMMA StoreStepCalls ==
    ASSUME ReplayInv, ReplayInv', [StoreNext]_storeVars
    PROVE  [Calls!CNext]_(Calls!cvars)
<1>t. store \in Store /\ saved \in Seq(Event) /\ loading \in BOOLEAN
  BY DEF ReplayInv, StoreTypeOK
<1>1. ASSUME NEW e \in Event, AppendEvent(e)
      PROVE  Calls!CNext \/ UNCHANGED Calls!cvars
  <2>1. loading = FALSE /\ loading' = FALSE /\ saved' = saved /\ Accepts(store, e)
        /\ store'.events = Append(store.events, e)
    BY <1>1, <1>t, AppendedFields DEF AppendEvent
  <2>2. LogOK(store.events) /\ Agrees(store)
    BY DEF ReplayInv, LogsOK, IndexesAgree
  <2>3. \/ StatusIn(Append(store.events, e)) = StatusIn(store.events)
        \/ \E k \in Slot :
             \/ /\ StatusIn(store.events)[k] = "unknown"
                /\ StatusIn(Append(store.events, e)) = [StatusIn(store.events) EXCEPT ![k] = "open"]
             \/ /\ StatusIn(store.events)[k] = "open"
                /\ StatusIn(Append(store.events, e)) = [StatusIn(store.events) EXCEPT ![k] = "answered"]
    BY <1>t, <2>1, <2>2, StatusAppended
  <2> QED BY <2>1, <2>3 DEF Calls!CNext, Calls!Declare, Calls!Respond, Calls!cvars, Slot
<1>2. CASE ToDict
  BY <1>2 DEF ToDict, Calls!CNext, Calls!Keep
<1>3. CASE FromDict
  BY <1>3 DEF FromDict, Calls!CNext, Calls!Restart
<1>4. CASE ReplayNext
  BY <1>4 DEF ReplayNext, Calls!cvars
<1>5. CASE ReplayDone
  <2>1. loading /\ loading' = FALSE /\ saved' = saved /\ store' = store
        /\ Len(store.events) = Len(saved)
    BY <1>5 DEF ReplayDone
  <2>2. \A i \in 1..Len(saved) : store.events[i] = saved[i]
    BY <2>1 DEF ReplayInv, ReplayPrefix
  <2>3. store.events = saved
    BY <1>t, <2>1, <2>2, StoreType, SeqEqual
  <2> QED BY <2>1, <2>3 DEF Calls!cvars
<1>6. CASE UNCHANGED storeVars
  BY <1>6 DEF storeVars, Calls!cvars
<1> QED BY <1>1, <1>2, <1>3, <1>4, <1>5, <1>6 DEF StoreNext

(* The trace store implements the life cycle of tool calls: declared once, *)
(* then answered at most once, through saves and restarts.                 *)
THEOREM CallsImplemented == StoreSpec => ImplementsToolCalls
<1>1. StoreInit => Calls!CInit
  BY StoreInitCalls
<1>2. ASSUME ReplayInv, ReplayInv', [StoreNext]_storeVars
      PROVE  [Calls!CNext]_(Calls!cvars)
  BY <1>2, StoreStepCalls
<1> QED
  BY <1>1, <1>2, ReplayInductive, PTL DEF StoreSpec, ImplementsToolCalls, Calls!CSpec
=============================================================================
