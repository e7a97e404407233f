------------------------- MODULE CodexSession_proofs -------------------------
(***************************************************************************)
(* Proofs about CodexSession, for any number of hook processes, sessions,  *)
(* prompts and actions, and any choice of kill and failure points.         *)
(***************************************************************************)
EXTENDS CodexSession, SequenceTheorems, FiniteSetTheorems, WellFoundedInduction, TLAPS

(***************************************************************************)
(* Handler bodies: what a hook may do to the session it loaded.            *)
(***************************************************************************)

(* Registering constraints keeps those already in the ledger, and only     *)
(* adds extracted ones (the deduplication loop of                          *)
(* handle_user_prompt_submit).                                             *)
LEMMA RegisterGrows ==
    ASSUME NEW ledger \in SUBSET Constraint, NEW cs \in Seq(Constraint)
    PROVE  /\ ledger \subseteq Register(ledger, cs)
           /\ Register(ledger, cs) \in SUBSET Constraint
BY DEF Register

(* The events the handlers build are well formed.                          *)
LEMMA EventType ==
    ASSUME NEW h \in Hook, h.kind \in {"UserPromptSubmit", "PreToolUse", "PostToolUse"},
           NEW k \in {"USER_MESSAGE", "GUARD_DECISION", "TOOL_CALL", "TOOL_RESULT"},
           NEW ok \in BOOLEAN
    PROVE  /\ EventOf(k, h, ok) \in Event
           /\ EventOf(k, h, ok).kind = k
           /\ EventOf(k, h, ok).arg = h.arg
           /\ EventOf(k, h, ok).ok = ok
BY DEF EventOf, Event, Hook, ArgsOf

(* Appending keeps what a sequence held.                                   *)
LEMMA AppendExtends ==
    ASSUME NEW S, NEW t \in Seq(S), NEW e \in S
    PROVE  /\ Append(t, e) \in Seq(S)
           /\ Extends(t, Append(t, e))
           /\ Len(Append(t, e)) = Len(t) + 1
           /\ Append(t, e)[Len(t) + 1] = e
BY DEF Extends

(* A further result is only recorded for a call without one; then a paired *)
(* trace has no call event either and the handler appends both (the checks *)
(* of TraceStore.append behind handle_post_tool_use).                      *)
LEMMA PairedNoCall ==
    ASSUME NEW t \in Seq(Event), NEW call, Paired(t), ~Recorded(t, "TOOL_RESULT", call)
    PROVE  ~Recorded(t, "TOOL_CALL", call)
<1> SUFFICES ASSUME NEW i \in 1..Len(t), t[i].kind = "TOOL_CALL", t[i].arg = call
             PROVE  FALSE
  BY DEF Recorded
<1>1. i + 1 \in 1..Len(t) /\ t[i+1].kind = "TOOL_RESULT" /\ t[i+1].arg = call
  BY DEF Paired
<1> QED BY <1>1 DEF Recorded

(* Appending twice, as handle_post_tool_use does for a new call.           *)
LEMMA Append2Extends ==
    ASSUME NEW S, NEW t \in Seq(S), NEW e \in S, NEW f \in S
    PROVE  /\ t \o <<e>> \o <<f>> = Append(Append(t, e), f)
           /\ t \o <<>> \o <<f>> = Append(t, f)
BY Z3

(* What PostToolUse adds to a trace.                                       *)
LEMMA PostToolUsedTrace ==
    ASSUME NEW s \in Session, NEW h \in Hook, h.kind = "PostToolUse"
    PROVE  LET t == s.trace
               c == EventOf("TOOL_CALL", h, TRUE)
               r == EventOf("TOOL_RESULT", h, h.ok)
           IN PostToolUsed(s, h) =
                [s EXCEPT !.trace = IF Recorded(t, "TOOL_CALL", h.arg) THEN Append(t, r)
                                    ELSE Append(Append(t, c), r)]
<1> DEFINE c == EventOf("TOOL_CALL", h, TRUE)
           r == EventOf("TOOL_RESULT", h, h.ok)
<1>1. s.trace \in Seq(Event) /\ h.ok \in BOOLEAN
  BY DEF Session, Hook
<1>2. c \in Event /\ r \in Event
  BY <1>1, EventType
<1>3. /\ s.trace \o <<c>> \o <<r>> = Append(Append(s.trace, c), r)
      /\ s.trace \o <<>> \o <<r>> = Append(s.trace, r)
  BY <1>1, <1>2, Append2Extends
<1>4. CASE Recorded(s.trace, "TOOL_CALL", h.arg)
  BY <1>3, <1>4 DEF PostToolUsed
<1>5. CASE ~Recorded(s.trace, "TOOL_CALL", h.arg)
  BY <1>3, <1>5 DEF PostToolUsed
<1> QED BY <1>4, <1>5

(* A handler keeps everything the loaded session held and leaves the trace *)
(* well formed: its four files can be written over the loaded ones without *)
(* losing anything.                                                        *)
LEMMA AfterGrows ==
    ASSUME NEW s \in Session, NEW h \in Hook
    PROVE  After(s, h) \in Session /\ Grown(s, After(s, h))
<1> USE DEF Grown
<1>0. /\ s.meta \in SUBSET Prompts /\ s.ledger \in SUBSET Constraint
      /\ s.trace \in Seq(Event) /\ s.report \in Report \cup {NoArg}
      /\ h.ok \in BOOLEAN
  BY DEF Session, Hook
<1>1. CASE h.kind = "UserPromptSubmit"
  <2>1. After(s, h) = PromptSubmitted(s, h)
    BY <1>1 DEF After
  <2>2. h.arg \in Prompts /\ Extract[h.arg] \in Seq(Constraint)
    BY <1>1, HookDataAssumption DEF Hook, ArgsOf
  <2>3. EventOf("USER_MESSAGE", h, TRUE) \in Event
    BY <1>1, EventType
  <2>4. /\ Append(s.trace, EventOf("USER_MESSAGE", h, TRUE)) \in Seq(Event)
        /\ Extends(s.trace, Append(s.trace, EventOf("USER_MESSAGE", h, TRUE)))
    BY <1>0, <2>3, AppendExtends
  <2>5. /\ s.ledger \subseteq Register(s.ledger, Extract[h.arg])
        /\ Register(s.ledger, Extract[h.arg]) \in SUBSET Constraint
    BY <1>0, <2>2, RegisterGrows
  <2> DEFINE m == s.meta \cup {h.arg}
             l == IF h.arg \in s.meta THEN s.ledger ELSE Register(s.ledger, Extract[h.arg])
             t == Append(s.trace, EventOf("USER_MESSAGE", h, TRUE))
  <2>6. m \in SUBSET Prompts /\ s.meta \subseteq m
    BY <1>0, <2>2
  <2>7. l \in SUBSET Constraint /\ s.ledger \subseteq l
    BY <1>0, <2>5
  <2>8. t \in Seq(Event) /\ Extends(s.trace, t)
    BY <2>4
  <2>9. After(s, h) = [meta |-> m, ledger |-> l, trace |-> t, report |-> s.report]
    BY <2>1 DEF PromptSubmitted
  <2> HIDE DEF m, l, t
  <2>10. After(s, h) \in Session
    BY <1>0, <2>6, <2>7, <2>8, <2>9 DEF Session
  <2> QED BY <2>6, <2>7, <2>8, <2>9, <2>10
<1>2. CASE h.kind = "PreToolUse"
  <2>1. After(s, h) = PreToolUsed(s, h)
    BY <1>2 DEF After
  <2> DEFINE e == EventOf("GUARD_DECISION", h, ~Blocks(s.ledger, h.arg))
  <2>2. e \in Event
    BY <1>2, EventType DEF Blocks
  <2> QED BY <1>0, <2>1, <2>2, AppendExtends DEF PreToolUsed, Session
<1>3. CASE h.kind = "PostToolUse"
  <2> DEFINE c == EventOf("TOOL_CALL", h, TRUE)
             r == EventOf("TOOL_RESULT", h, h.ok)
  <2>1. c \in Event /\ r \in Event
    BY <1>0, <1>3, EventType
  <2>2. After(s, h) = [s EXCEPT !.trace = IF Recorded(s.trace, "TOOL_CALL", h.arg)
                                          THEN Append(s.trace, r)
                                          ELSE Append(Append(s.trace, c), r)]
    BY <1>3, PostToolUsedTrace DEF After
  <2> HIDE DEF c, r
  <2>3. /\ Append(s.trace, r) \in Seq(Event) /\ Append(Append(s.trace, c), r) \in Seq(Event)
        /\ Extends(s.trace, Append(s.trace, r))
        /\ Extends(s.trace, Append(Append(s.trace, c), r))
    BY <1>0, <2>1 DEF Extends
  <2> QED BY <1>0, <2>2, <2>3 DEF Session
<1>4. CASE h.kind = "Stop"
  <2>1. After(s, h) = Stopped(s, h)
    BY <1>4 DEF After
  <2>2. Verified(s.trace, h.arg) \in BOOLEAN
    BY DEF Verified, Succeeded
  <2>3. h.arg # NoArg => [claim |-> h.arg, verified |-> Verified(s.trace, h.arg)] \in Report
    BY <1>4, <2>2 DEF Hook, ArgsOf, Report
  <2> QED BY <1>0, <2>1, <2>3 DEF Stopped, Session, Extends
<1>5. CASE h.kind = "SessionStart"
  BY <1>0, <1>5 DEF After, Extends
<1> QED BY <1>1, <1>2, <1>3, <1>4, <1>5 DEF Hook

(* Appending an event that is neither a call nor a result keeps a trace    *)
(* paired.                                                                 *)
LEMMA PairedAppend ==
    ASSUME NEW t \in Seq(Event), Paired(t), NEW e \in Event,
           e.kind \notin {"TOOL_CALL", "TOOL_RESULT"}
    PROVE  Paired(Append(t, e))
<1> DEFINE u == Append(t, e)
<1>1. Len(u) = Len(t) + 1 /\ u[Len(t) + 1] = e /\ Len(t) \in Nat
  OBVIOUS
<1>2. \A i \in 1..Len(t) : u[i] = t[i]
  OBVIOUS
<1> HIDE DEF u
<1>3. ASSUME NEW i \in 1..Len(u), u[i].kind = "TOOL_CALL"
      PROVE  i < Len(u) /\ u[i+1].kind = "TOOL_RESULT" /\ u[i+1].arg = u[i].arg
  <2>1. i \in 1..Len(t)
    BY <1>1, <1>3
  <2>2. i < Len(t) /\ t[i+1].kind = "TOOL_RESULT" /\ t[i+1].arg = t[i].arg
    BY <2>1, <1>2, <1>3 DEF Paired
  <2> QED BY <1>1, <1>2, <2>1, <2>2
<1>4. ASSUME NEW i \in 1..Len(u), NEW j \in 1..Len(u),
             u[i].kind = "TOOL_RESULT", u[j].kind = "TOOL_RESULT", u[i].arg = u[j].arg
      PROVE  i = j
  <2>1. i \in 1..Len(t) /\ j \in 1..Len(t)
    BY <1>1, <1>4
  <2> QED BY <2>1, <1>2, <1>4 DEF Paired
<1> QED BY <1>3, <1>4 DEF Paired, u

(* Appending a call with its first result keeps a trace paired.            *)
LEMMA PairedAppend2 ==
    ASSUME NEW t \in Seq(Event), Paired(t), NEW c \in Event, NEW r \in Event,
           c.kind = "TOOL_CALL", r.kind = "TOOL_RESULT", c.arg = r.arg,
           ~Recorded(t, "TOOL_RESULT", r.arg)
    PROVE  Paired(Append(Append(t, c), r))
<1> DEFINE u == Append(Append(t, c), r)
<1>1. /\ Len(u) = Len(t) + 2 /\ Len(t) \in Nat
      /\ u[Len(t) + 1] = c /\ u[Len(t) + 2] = r
  OBVIOUS
<1>2. \A i \in 1..Len(t) : u[i] = t[i]
  OBVIOUS
<1> HIDE DEF u
<1>3. ASSUME NEW i \in 1..Len(u), u[i].kind = "TOOL_CALL"
      PROVE  i < Len(u) /\ u[i+1].kind = "TOOL_RESULT" /\ u[i+1].arg = u[i].arg
  <2>1. CASE i \in 1..Len(t)
    <3>1. i < Len(t) /\ t[i+1].kind = "TOOL_RESULT" /\ t[i+1].arg = t[i].arg
      BY <2>1, <1>2, <1>3 DEF Paired
    <3> QED BY <1>1, <1>2, <2>1, <3>1
  <2>2. CASE i = Len(t) + 1
    BY <1>1, <2>2
  <2>3. CASE i = Len(t) + 2
    BY <1>1, <1>3, <2>3
  <2> QED BY <1>1, <2>1, <2>2, <2>3
<1>4. ASSUME NEW i \in 1..Len(u), NEW j \in 1..Len(u),
             u[i].kind = "TOOL_RESULT", u[j].kind = "TOOL_RESULT", u[i].arg = u[j].arg
      PROVE  i = j
  <2>1. \A k \in 1..Len(u) : u[k].kind = "TOOL_RESULT" => k \in 1..Len(t) \/ k = Len(t) + 2
    BY <1>1
  <2>2. \A k \in 1..Len(t) : u[k].kind = "TOOL_RESULT" => u[k].arg # r.arg
    BY <1>2 DEF Recorded
  <2>3. CASE i \in 1..Len(t) /\ j \in 1..Len(t)
    BY <2>3, <1>2, <1>4 DEF Paired
  <2> QED BY <1>1, <1>4, <2>1, <2>2, <2>3
<1> QED BY <1>3, <1>4 DEF Paired, u

(* A handler that does not raise leaves every call of the trace with its   *)
(* one result (handle_post_tool_use).                                      *)
LEMMA AfterPaired ==
    ASSUME NEW s \in Session, NEW h \in Hook, Paired(s.trace), ~Raises(s, h)
    PROVE  Paired(After(s, h).trace)
<1>0. s.trace \in Seq(Event) /\ h.ok \in BOOLEAN
  BY DEF Session, Hook
<1>1. CASE h.kind = "UserPromptSubmit"
  <2>1. After(s, h).trace = Append(s.trace, EventOf("USER_MESSAGE", h, TRUE))
    BY <1>1 DEF After, PromptSubmitted
  <2> QED BY <1>0, <1>1, <2>1, EventType, PairedAppend
<1>2. CASE h.kind = "PreToolUse"
  <2>1. After(s, h).trace = Append(s.trace, EventOf("GUARD_DECISION", h, ~Blocks(s.ledger, h.arg)))
    BY <1>2 DEF After, PreToolUsed, Session
  <2>2. Blocks(s.ledger, h.arg) \in BOOLEAN
    BY DEF Blocks
  <2> QED BY <1>0, <1>2, <2>1, <2>2, EventType, PairedAppend
<1>3. CASE h.kind = "PostToolUse"
  <2> DEFINE c == EventOf("TOOL_CALL", h, TRUE)
             r == EventOf("TOOL_RESULT", h, h.ok)
  <2>1. ~Recorded(s.trace, "TOOL_RESULT", h.arg) /\ ~Recorded(s.trace, "TOOL_CALL", h.arg)
    BY <1>0, <1>3, PairedNoCall DEF Raises
  <2>2. /\ c \in Event /\ r \in Event /\ c.kind = "TOOL_CALL" /\ r.kind = "TOOL_RESULT"
        /\ c.arg = h.arg /\ r.arg = h.arg
    BY <1>0, <1>3, EventType
  <2>3. After(s, h).trace = Append(Append(s.trace, c), r)
    BY <1>3, <2>1, PostToolUsedTrace DEF After, Session
  <2> HIDE DEF c, r
  <2> QED BY <1>0, <2>1, <2>2, <2>3, PairedAppend2
<1>4. CASE h.kind = "Stop"
  BY <1>4 DEF After, Stopped, Session
<1>5. CASE h.kind = "SessionStart"
  BY <1>5 DEF After
<1> QED BY <1>1, <1>2, <1>3, <1>4, <1>5 DEF Hook

(* The report a Stop hook produces is backed by the trace it looked at     *)
(* (EvidenceGate in handle_stop); no other hook produces one.              *)
LEMMA AfterBacked ==
    ASSUME NEW s \in Session, NEW h \in Hook, s.report = NoArg
    PROVE  /\ After(s, h).report # NoArg => h.kind = "Stop" /\ h.arg # NoArg
           /\ Backed(After(s, h))
<1> USE DEF Backed
<1>1. CASE h.kind = "UserPromptSubmit"
  BY <1>1 DEF After, PromptSubmitted
<1>2. CASE h.kind = "PreToolUse"
  BY <1>2 DEF After, PreToolUsed, Session
<1>3. CASE h.kind = "PostToolUse"
  BY <1>3 DEF After, PostToolUsed, Session
<1>4. CASE h.kind = "Stop" /\ h.arg # NoArg
  <2>1. /\ After(s, h).trace = s.trace
        /\ After(s, h).report = [claim |-> h.arg, verified |-> Verified(s.trace, h.arg)]
    BY <1>4 DEF After, Stopped, Session
  <2> QED BY <1>4, <2>1 DEF Verified
<1>5. CASE h.kind = "Stop" /\ h.arg = NoArg
  BY <1>5 DEF After, Stopped
<1>6. CASE h.kind = "SessionStart"
  BY <1>6 DEF After
<1> QED BY <1>1, <1>2, <1>3, <1>4, <1>5, <1>6 DEF Hook

(* What a hook answers, normally or after an exception.                    *)
LEMMA AnswerType ==
    ASSUME NEW s, NEW h \in Hook
    PROVE  AnswerOf(s, h) \in Answer \ {"none"} /\ FailAnswer(h) \in Answer \ {"none", "allow"}
BY DEF AnswerOf, FailAnswer, Answer

(***************************************************************************)
(* Processes and files.                                                    *)
(***************************************************************************)

(* A directory is a constant function of the hook a process runs.          *)
LEMMA DirType ==
    ASSUME NEW p \in Procs, hook \in [Procs -> Hook]
    PROVE  Dir(p) \in Dirs
BY SessionFilesAssumption DEF Dir, Hook

(* The empty session, which new directories and new processes hold.        *)
LEMMA EmptyType == EmptySession \in Session
BY DEF EmptySession, Session

(* The session a directory stands for is well formed.                      *)
LEMMA SessionOnType ==
    ASSUME NEW f \in Files
    PROVE  SessionOn(f) \in Session
<1>1. /\ Contents(f.meta, {}) \in SUBSET Prompts
      /\ Contents(f.ledger, {}) \in SUBSET Constraint
      /\ Contents(f.trace, <<>>) \in Seq(Event)
      /\ Contents(f.report, NoArg) \in Report \cup {NoArg}
  BY DEF Contents, Files
<1> QED BY <1>1 DEF SessionOn, Session

LEMMA NoHookType == NoHook \in Hook
BY SessionFilesAssumption, HookDataAssumption DEF NoHook, Invocation, Hook, ArgsOf

(* The state after an exception, whichever action raises it.               *)
LEMMA RaiseType ==
    ASSUME TypeOK, NEW p \in Procs, pc[p] \in Running, Raise(p)
    PROVE  TypeOK'
<1>1. FailAnswer(hook[p]) \in Answer
  BY AnswerType DEF TypeOK
<1>2. lock' \in [Dirs -> Procs \cup {NoProc}]
  BY DEF TypeOK, Raise
<1>3. pc' \in [Procs -> {"idle"} \cup Running \cup Over]
  BY DEF TypeOK, Raise, Goto, Over
<1>4. answer' \in [Procs -> Answer]
  BY <1>1 DEF TypeOK, Raise
<1>5. stop' \in [Procs -> Running \cup {"none"}]
  BY DEF TypeOK, Raise
<1>6. \A q \in Procs : pc'[q] = "save_report" => tx'[q].report # NoArg
  BY DEF TypeOK, Raise, Goto
<1> QED BY <1>2, <1>3, <1>4, <1>5, <1>6 DEF TypeOK, Raise, Files

LEMMA TypeInit == Init => TypeOK
<1> SUFFICES ASSUME Init PROVE TypeOK
  OBVIOUS
<1>1. NoFiles \in Files
  BY DEF NoFiles, Files
<1> QED BY <1>1, EmptyType, NoHookType DEF Init, TypeOK, Answer, Running, Over

(* Every step keeps the types.                                             *)
LEMMA TypeStep == TypeOK /\ [Next]_vars => TypeOK'
<1> SUFFICES ASSUME TypeOK, [Next]_vars PROVE TypeOK'
  OBVIOUS
<1> USE DEF Running, Locked, Over
<1>1. ASSUME NEW p \in Procs, Arrive(p) PROVE TypeOK'
  BY <1>1 DEF TypeOK, Arrive, Start, Goto, Files
<1>2. ASSUME NEW p \in Procs, Acquire(p) PROVE TypeOK'
  BY <1>2 DEF TypeOK, Acquire, Goto, Files
<1>3. ASSUME NEW p \in Procs, TimeOut(p) PROVE TypeOK'
  <2>1. FailAnswer(hook[p]) \in Answer
    BY <1>3, AnswerType DEF TypeOK
  <2> QED BY <1>3, <2>1 DEF TypeOK, TimeOut, Goto, Files
<1>4. ASSUME NEW p \in Procs, LoadCorrupted(p) \/ BodyRaises(p) \/ WriteFails(p)
      PROVE TypeOK'
  BY <1>4, RaiseType, SessionFilesAssumption DEF LoadCorrupted, BodyRaises, WriteFails
<1>5. ASSUME NEW p \in Procs, LoadSession(p) PROVE TypeOK'
  <2>1. Dir(p) \in Dirs /\ disk[Dir(p)] \in Files
    BY <1>5, DirType DEF TypeOK
  <2>2. SessionOn(disk[Dir(p)]) \in Session
    BY <2>1, SessionOnType
  <2>3. [SessionOn(disk[Dir(p)]) EXCEPT !.report = NoArg] \in Session
    BY <2>2 DEF Session
  <2>4. Exists(Dir(p)) \in BOOLEAN
    BY DEF Exists
  <2>5. tx' \in [Procs -> Session] /\ base' \in [Procs -> Session]
    BY <1>5, <2>2, <2>3 DEF TypeOK, LoadSession
  <2>6. pc' \in [Procs -> {"idle"} \cup Running \cup Over] /\ creating' \in [Procs -> BOOLEAN]
    BY <1>5, <2>4 DEF TypeOK, LoadSession, Goto, Saving
  <2>7. \A q \in Procs : pc'[q] = "save_report" => tx'[q].report # NoArg
    BY <1>5 DEF TypeOK, LoadSession, Goto
  <2> QED BY <1>5, <2>5, <2>6, <2>7 DEF TypeOK, LoadSession
<1>6. ASSUME NEW p \in Procs, RunBody(p) PROVE TypeOK'
  <2>1. tx[p] \in Session /\ hook[p] \in Hook
    BY DEF TypeOK
  <2>2. After(tx[p], hook[p]) \in Session /\ AnswerOf(tx[p], hook[p]) \in Answer
    BY <2>1, AfterGrows, AnswerType
  <2>3. tx' \in [Procs -> Session] /\ answer' \in [Procs -> Answer]
    BY <1>6, <2>2 DEF TypeOK, RunBody
  <2>4. pc' \in [Procs -> {"idle"} \cup Running \cup Over]
    BY <1>6 DEF TypeOK, RunBody, Goto, Saving
  <2>5. \A q \in Procs : pc'[q] = "save_report" => tx'[q].report # NoArg
    BY <1>6 DEF TypeOK, RunBody, Goto
  <2> QED BY <1>6, <2>3, <2>4, <2>5 DEF TypeOK, RunBody
<1>7. ASSUME NEW p \in Procs, WriteMeta(p) \/ WriteLedger(p) \/ WriteTrace(p) \/ WriteReport(p)
      PROVE TypeOK'
  <2>1. /\ Dir(p) \in Dirs /\ disk[Dir(p)] \in Files
        /\ tx[p].meta \in SUBSET Prompts /\ tx[p].ledger \in SUBSET Constraint
        /\ tx[p].trace \in Seq(Event) /\ tx[p].report \in Report \cup {NoArg}
    BY DirType DEF TypeOK, Session
  <2>2. disk' \in [Dirs -> Files]
    <3>1. CASE WriteMeta(p)
      BY <3>1, <2>1 DEF TypeOK, WriteMeta, Files
    <3>2. CASE WriteLedger(p)
      BY <3>2, <2>1 DEF TypeOK, WriteLedger, Files
    <3>3. CASE WriteTrace(p)
      BY <3>3, <2>1 DEF TypeOK, WriteTrace, Files
    <3>4. CASE WriteReport(p)
      <4>1. tx[p].report # NoArg /\ disk' = [disk EXCEPT ![Dir(p)].report = tx[p].report]
        BY <3>4 DEF WriteReport, TypeOK
      <4> QED BY <4>1, <2>1 DEF TypeOK, Files
    <3> QED BY <1>7, <3>1, <3>2, <3>3, <3>4
  <2>3. pc' \in [Procs -> {"idle"} \cup Running \cup Over] /\ creating' \in [Procs -> BOOLEAN]
    BY <1>7 DEF TypeOK, WriteMeta, WriteLedger, WriteTrace, WriteReport, Goto, Saving
  <2>4. \A q \in Procs : pc'[q] = "save_report" => tx'[q].report # NoArg
    BY <1>7 DEF TypeOK, WriteMeta, WriteLedger, WriteTrace, WriteReport, Goto
  <2> QED BY <1>7, <2>2, <2>3, <2>4 DEF TypeOK, WriteMeta, WriteLedger, WriteTrace, WriteReport
<1>8. ASSUME NEW p \in Procs, Release(p) PROVE TypeOK'
  BY <1>8 DEF TypeOK, Release, Goto, Files
<1>9. ASSUME NEW p \in Procs, Kill(p) PROVE TypeOK'
  BY <1>9, SessionFilesAssumption DEF TypeOK, Kill, Goto, Files, Answer
<1>10. CASE UNCHANGED vars
  BY <1>10 DEF vars, TypeOK, Files
<1> QED BY <1>1, <1>2, <1>3, <1>4, <1>5, <1>6, <1>7, <1>8, <1>9, <1>10 DEF Next, Step

(* In every reachable state the variables have their types.                *)
THEOREM TypeCorrect == Spec => []TypeOK
<1>1. Init => TypeOK
  BY TypeInit
<1>2. TypeOK /\ [Next]_vars => TypeOK'
  BY TypeStep
<1> QED BY <1>1, <1>2, PTL DEF Spec

-----------------------------------------------------------------------------

(* Steps that neither take nor give back the lock.                         *)
LEMMA LockUntouched ==
    ASSUME TypeOK, TypeOK', LockExclusive, NEW p \in Procs,
           lock' = lock, hook' = hook, pc[p] \in Locked,
           \E l \in Locked : pc' = [pc EXCEPT ![p] = l]
    PROVE  LockExclusive'
BY DEF LockExclusive, TypeOK, Dir

(* Steps that leave a transaction free the lock of its directory only.     *)
LEMMA LockGivenBack ==
    ASSUME TypeOK, TypeOK', LockExclusive, NEW p \in Procs,
           pc[p] \in Locked, hook' = hook, lock' = [lock EXCEPT ![Dir(p)] = NoProc],
           \E l \in Over : pc' = [pc EXCEPT ![p] = l]
    PROVE  LockExclusive'
<1>1. Over \cap Locked = {}
  BY DEF Over, Locked, Saving
<1>2. lock[Dir(p)] = p /\ Dir(p) \in Dirs
  BY DirType DEF LockExclusive, TypeOK
<1>3. ASSUME NEW q \in Procs, NEW d \in Dirs
      PROVE  lock'[d] = q <=> pc'[q] \in Locked /\ Dir(q)' = d
  <2>1. CASE q = p
    BY <1>1, <1>2, <2>1, SessionFilesAssumption DEF LockExclusive, TypeOK, Dir
  <2>2. CASE q # p
    BY <1>1, <1>2, <2>2, SessionFilesAssumption DEF LockExclusive, TypeOK, Dir
  <2> QED BY <2>1, <2>2
<1> QED BY <1>3 DEF LockExclusive

(* Every step keeps lock and control points in agreement.                  *)
LEMMA LockStep == TypeOK /\ TypeOK' /\ LockExclusive /\ [Next]_vars => LockExclusive'
<1> SUFFICES ASSUME TypeOK, TypeOK', LockExclusive, [Next]_vars PROVE LockExclusive'
  OBVIOUS
<1>0. /\ "loading" \in Locked /\ "body" \in Locked /\ "release" \in Locked
      /\ Saving \subseteq Locked
      /\ "save_meta" \in Locked /\ "save_ledger" \in Locked /\ "save_trace" \in Locked
      /\ "save_report" \in Locked
      /\ "done" \in Over /\ "dead" \in Over
      /\ {"idle", "waiting", "done", "dead"} \cap Locked = {}
  BY DEF Locked, Over, Saving
<1>1. ASSUME NEW p \in Procs, Arrive(p) PROVE LockExclusive'
  <2>1. PICK h \in Hook : Start(p, h)
    BY <1>1 DEF Arrive
  <2> QED BY <1>0, <2>1 DEF Start, Goto, LockExclusive, TypeOK, Dir
<1>2. ASSUME NEW p \in Procs, Acquire(p) PROVE LockExclusive'
  <2>1. Dir(p) \in Dirs
    BY DirType DEF TypeOK
  <2>2. ASSUME NEW q \in Procs, NEW d \in Dirs
        PROVE  lock'[d] = q <=> pc'[q] \in Locked /\ Dir(q)' = d
    BY <1>0, <1>2, <2>1, SessionFilesAssumption DEF Acquire, Goto, LockExclusive, TypeOK, Dir
  <2> QED BY <2>2 DEF LockExclusive
<1>3. ASSUME NEW p \in Procs, TimeOut(p) PROVE LockExclusive'
  BY <1>0, <1>3 DEF TimeOut, Goto, LockExclusive, TypeOK, Dir
<1>4. ASSUME NEW p \in Procs, LoadCorrupted(p) \/ BodyRaises(p) \/ WriteFails(p) \/ Release(p)
      PROVE LockExclusive'
  BY <1>0, <1>4, LockGivenBack, SessionFilesAssumption
  DEF LoadCorrupted, BodyRaises, WriteFails, Release, Raise, Goto
<1>5. ASSUME NEW p \in Procs,
             LoadSession(p) \/ RunBody(p) \/ WriteMeta(p) \/ WriteLedger(p) \/ WriteTrace(p) \/ WriteReport(p)
      PROVE LockExclusive'
  <2>1. pc[p] \in Locked /\ lock' = lock /\ hook' = hook
    BY <1>0, <1>5 DEF LoadSession, RunBody, WriteMeta, WriteLedger, WriteTrace, WriteReport
  <2>2. \E l \in Locked : pc' = [pc EXCEPT ![p] = l]
    BY <1>0, <1>5 DEF LoadSession, RunBody, WriteMeta, WriteLedger, WriteTrace, WriteReport, Goto
  <2> QED BY <2>1, <2>2, LockUntouched
<1>6. ASSUME NEW p \in Procs, Kill(p) PROVE LockExclusive'
  <2>1. CASE pc[p] \in Locked
    <3>1. lock[Dir(p)] = p
      BY <2>1, DirType DEF LockExclusive, TypeOK
    <3> QED BY <1>0, <1>6, <2>1, <3>1, LockGivenBack DEF Kill, Goto
  <2>2. CASE pc[p] \notin Locked
    <3>1. lock[Dir(p)] # p /\ lock' = lock
      BY <1>6, <2>2, DirType DEF LockExclusive, TypeOK, Kill
    <3> QED BY <1>0, <1>6, <2>2, <3>1 DEF Kill, Goto, LockExclusive, TypeOK, Dir
  <2> QED BY <2>1, <2>2
<1>7. CASE UNCHANGED vars
  BY <1>7 DEF vars, LockExclusive, Dir
<1> QED BY <1>1, <1>2, <1>3, <1>4, <1>5, <1>6, <1>7 DEF Next, Step

(* The lock of a directory is held exactly by the process inside a         *)
(* transaction on it, whatever is killed, fails or times out (SessionLock, *)
(* session_transaction).                                                   *)
THEOREM LockCorrect == Spec => []LockExclusive
<1>1. Init => LockExclusive
  BY SessionFilesAssumption DEF Init, LockExclusive, Locked, Saving
<1>2. TypeOK /\ TypeOK' /\ LockExclusive /\ [Next]_vars => LockExclusive'
  BY LockStep
<1> QED BY <1>1, <1>2, TypeCorrect, PTL DEF Spec

(* Two transactions never run on one directory at a time.                  *)
LEMMA Exclusion ==
    ASSUME TypeOK, LockExclusive, NEW p \in Procs, NEW q \in Procs,
           pc[p] \in Locked, pc[q] \in Locked, Dir(p) = Dir(q)
    PROVE  p = q
BY DirType DEF LockExclusive, TypeOK

-----------------------------------------------------------------------------

(* No value that is written to a file means "no such file".                *)
LEMMA NotMissing ==
    ASSUME NEW s \in Session
    PROVE  Missing \notin {s.meta, s.ledger, s.trace, s.report}
BY SessionFilesAssumption DEF Session

(* What a step of save_session does to the files: one file of one          *)
(* directory changes.                                                      *)
LEMMA FilesWritten ==
    ASSUME TypeOK, NEW p \in Procs
    PROVE  LET f == disk[Dir(p)]
               g == disk'[Dir(p)]
           IN /\ WriteMeta(p) => g = [f EXCEPT !.meta = tx[p].meta]
              /\ WriteLedger(p) => g = [f EXCEPT !.ledger = tx[p].ledger]
              /\ WriteTrace(p) => g = [f EXCEPT !.trace = tx[p].trace]
              /\ WriteReport(p) => g = [f EXCEPT !.report = tx[p].report]
              /\ WriteMeta(p) \/ WriteLedger(p) \/ WriteTrace(p) \/ WriteReport(p) =>
                    \A d \in Dirs : d # Dir(p) => disk'[d] = disk[d]
<1>1. Dir(p) \in Dirs
  BY DirType DEF TypeOK
<1> QED BY <1>1 DEF TypeOK, WriteMeta, WriteLedger, WriteTrace, WriteReport

(* The session a directory stands for after one of its files is replaced.  *)
LEMMA SessionWritten ==
    ASSUME NEW f \in Files, NEW s \in Session
    PROVE  LET old == SessionOn(f) IN
           /\ SessionOn([f EXCEPT !.meta = s.meta]) =
                 [meta |-> s.meta, ledger |-> old.ledger, trace |-> old.trace, report |-> old.report]
           /\ SessionOn([f EXCEPT !.ledger = s.ledger]) =
                 [meta |-> old.meta, ledger |-> s.ledger, trace |-> old.trace, report |-> old.report]
           /\ SessionOn([f EXCEPT !.trace = s.trace]) =
                 [meta |-> old.meta, ledger |-> old.ledger, trace |-> s.trace, report |-> old.report]
           /\ SessionOn([f EXCEPT !.report = s.report]) =
                 [meta |-> old.meta, ledger |-> old.ledger, trace |-> old.trace, report |-> s.report]
<1> DEFINE old == SessionOn(f)
<1>1. /\ Contents(s.meta, {}) = s.meta /\ Contents(s.ledger, {}) = s.ledger
      /\ Contents(s.trace, <<>>) = s.trace /\ Contents(s.report, NoArg) = s.report
  BY NotMissing DEF Contents
<1>2. /\ old.meta = Contents(f.meta, {}) /\ old.ledger = Contents(f.ledger, {})
      /\ old.trace = Contents(f.trace, <<>>) /\ old.report = Contents(f.report, NoArg)
  BY DEF SessionOn
<1> HIDE DEF old
<1>3. SessionOn([f EXCEPT !.meta = s.meta]) =
        [meta |-> s.meta, ledger |-> old.ledger, trace |-> old.trace, report |-> old.report]
  <2> DEFINE g == [f EXCEPT !.meta = s.meta]
  <2>1. g.meta = s.meta /\ g.ledger = f.ledger /\ g.trace = f.trace /\ g.report = f.report
    BY DEF Files
  <2> HIDE DEF g
  <2>2. SessionOn(g) = [meta |-> Contents(g.meta, {}), ledger |-> Contents(g.ledger, {}),
                        trace |-> Contents(g.trace, <<>>), report |-> Contents(g.report, NoArg)]
    BY DEF SessionOn
  <2> QED BY <1>1, <1>2, <2>1, <2>2 DEF g
<1>4. SessionOn([f EXCEPT !.ledger = s.ledger]) =
        [meta |-> old.meta, ledger |-> s.ledger, trace |-> old.trace, report |-> old.report]
  <2> DEFINE g == [f EXCEPT !.ledger = s.ledger]
  <2>1. g.ledger = s.ledger /\ g.meta = f.meta /\ g.trace = f.trace /\ g.report = f.report
    BY DEF Files
  <2> HIDE DEF g
  <2>2. SessionOn(g) = [meta |-> Contents(g.meta, {}), ledger |-> Contents(g.ledger, {}),
                        trace |-> Contents(g.trace, <<>>), report |-> Contents(g.report, NoArg)]
    BY DEF SessionOn
  <2> QED BY <1>1, <1>2, <2>1, <2>2 DEF g
<1>5. SessionOn([f EXCEPT !.trace = s.trace]) =
        [meta |-> old.meta, ledger |-> old.ledger, trace |-> s.trace, report |-> old.report]
  <2> DEFINE g == [f EXCEPT !.trace = s.trace]
  <2>1. g.trace = s.trace /\ g.meta = f.meta /\ g.ledger = f.ledger /\ g.report = f.report
    BY DEF Files
  <2> HIDE DEF g
  <2>2. SessionOn(g) = [meta |-> Contents(g.meta, {}), ledger |-> Contents(g.ledger, {}),
                        trace |-> Contents(g.trace, <<>>), report |-> Contents(g.report, NoArg)]
    BY DEF SessionOn
  <2> QED BY <1>1, <1>2, <2>1, <2>2 DEF g
<1>6. SessionOn([f EXCEPT !.report = s.report]) =
        [meta |-> old.meta, ledger |-> old.ledger, trace |-> old.trace, report |-> s.report]
  <2> DEFINE g == [f EXCEPT !.report = s.report]
  <2>1. g.report = s.report /\ g.meta = f.meta /\ g.ledger = f.ledger /\ g.trace = f.trace
    BY DEF Files
  <2> HIDE DEF g
  <2>2. SessionOn(g) = [meta |-> Contents(g.meta, {}), ledger |-> Contents(g.ledger, {}),
                        trace |-> Contents(g.trace, <<>>), report |-> Contents(g.report, NoArg)]
    BY DEF SessionOn
  <2> QED BY <1>1, <1>2, <2>1, <2>2 DEF g
<1> QED BY <1>3, <1>4, <1>5, <1>6 DEF old

(* What a step of save_session does to the session a directory stands for. *)
LEMMA StepWritten ==
    ASSUME TypeOK, NEW p \in Procs
    PROVE  LET old == SessionOn(disk[Dir(p)])
               new == SessionOn(disk'[Dir(p)])
               t == tx[p]
           IN
           /\ WriteMeta(p) => new =
                 [meta |-> t.meta, ledger |-> old.ledger, trace |-> old.trace, report |-> old.report]
           /\ WriteLedger(p) => new =
                 [meta |-> old.meta, ledger |-> t.ledger, trace |-> old.trace, report |-> old.report]
           /\ WriteTrace(p) => new =
                 [meta |-> old.meta, ledger |-> old.ledger, trace |-> t.trace, report |-> old.report]
           /\ WriteReport(p) => new =
                 [meta |-> old.meta, ledger |-> old.ledger, trace |-> old.trace, report |-> t.report]
<1> DEFINE f == disk[Dir(p)]
           t == tx[p]
<1>1. f \in Files /\ t \in Session
  BY DirType DEF TypeOK
<1>2. WriteMeta(p) => SessionOn(disk'[Dir(p)]) = SessionOn([f EXCEPT !.meta = t.meta])
  BY FilesWritten
<1>3. WriteLedger(p) => SessionOn(disk'[Dir(p)]) = SessionOn([f EXCEPT !.ledger = t.ledger])
  BY FilesWritten
<1>4. WriteTrace(p) => SessionOn(disk'[Dir(p)]) = SessionOn([f EXCEPT !.trace = t.trace])
  BY FilesWritten
<1>5. WriteReport(p) => SessionOn(disk'[Dir(p)]) = SessionOn([f EXCEPT !.report = t.report])
  BY FilesWritten
<1> QED BY <1>1, <1>2, <1>3, <1>4, <1>5, SessionWritten

(* A trace that is only extended keeps its successful results.             *)
LEMMA SucceededStays ==
    ASSUME NEW t \in Seq(Event), NEW u \in Seq(Event), Extends(t, u), NEW call, Succeeded(t, call)
    PROVE  Succeeded(u, call)
BY DEF Extends, Succeeded

LEMMA GrownReflexive ==
    ASSUME NEW s \in Session
    PROVE  Grown(s, s)
BY DEF Grown, Extends, Session

(* A step of one transaction leaves the other processes' memory and the    *)
(* files they rely on alone.                                               *)
LEMMA OthersUntouched ==
    ASSUME TypeOK, LockExclusive, NEW p \in Procs, NEW q \in Procs, q # p,
           SaveInv(q), MemoryInv(q),
           pc[p] \in Locked, hook' = hook, pc'[q] = pc[q], tx'[q] = tx[q], creating'[q] = creating[q],
           \A d \in Dirs : d # Dir(p) => disk'[d] = disk[d]
    PROVE  SaveInv(q)' /\ MemoryInv(q)'
<1>1. Dir(q) \in Dirs /\ Dir(q)' = Dir(q)
  BY DirType DEF TypeOK, Dir
<1>2. CASE pc[q] \in InTransaction
  <2>1. pc[q] \in Locked
    BY <1>2 DEF InTransaction, Locked
  <2>2. Dir(q) # Dir(p)
    BY <2>1, Exclusion
  <2>3. disk'[Dir(q)'] = disk[Dir(q)]
    BY <1>1, <2>2
  <2>4. SaveInv(q)'
    BY <1>1, <2>3 DEF SaveInv, Complete
  <2>5. MemoryInv(q)'
    BY <1>1, <2>3 DEF MemoryInv
  <2> QED BY <2>4, <2>5
<1>3. CASE pc[q] \notin InTransaction
  BY <1>1, <1>3 DEF SaveInv, MemoryInv, InTransaction, Saving
<1> QED BY <1>2, <1>3

(* Steps outside a transaction, or that end one, change neither files nor  *)
(* memory.                                                                 *)
LEMMA QuietStep ==
    ASSUME TypeOK, TransactionInv, NEW p \in Procs,
           disk' = disk, tx' = tx, creating' = creating,
           \A q \in Procs \ {p} : pc'[q] = pc[q] /\ hook'[q] = hook[q],
           pc'[p] \in {"waiting", "loading"} \cup Over,
           pc[p] \in {"idle", "waiting"} \/ pc'[p] \in Over
    PROVE  TransactionInv'
<1> SUFFICES ASSUME NEW q \in Procs PROVE SaveInv(q)' /\ MemoryInv(q)'
  BY DEF TransactionInv
<1>1. CASE q = p
  BY <1>1 DEF TransactionInv, SaveInv, MemoryInv, InTransaction, Saving, Over
<1>2. CASE q # p
  <2>1. Dir(q)' = Dir(q)
    BY <1>2 DEF Dir
  <2> QED BY <1>2, <2>1 DEF TransactionInv, SaveInv, MemoryInv, Complete
<1> QED BY <1>1, <1>2

(* Writing a file from memory brings the session on disk closer to the one *)
(* in memory and keeps it a good session (save_session).                   *)
LEMMA WriteSession ==
    ASSUME TypeOK, TransactionInv, NEW p \in Procs,
           WriteMeta(p) \/ WriteLedger(p) \/ WriteTrace(p) \/ WriteReport(p)
    PROVE  LET old == SessionOn(disk[Dir(p)])
               new == SessionOn(disk'[Dir(p)])
           IN /\ Grown(old, new) /\ Grown(new, tx[p])
              /\ Paired(old.trace) => Paired(new.trace)
              /\ Backed(old) => Backed(new)
<1> DEFINE f == disk[Dir(p)]
           old == SessionOn(f)
           new == SessionOn(disk'[Dir(p)])
           t == tx[p]
<1>0. f \in Files /\ old \in Session /\ t \in Session
  BY DirType, SessionOnType DEF TypeOK
<1>1. /\ Grown(old, t) /\ Paired(t.trace) /\ Backed(t)
      /\ pc[p] = "save_report" => f.trace = t.trace
  BY DEF TransactionInv, SaveInv, MemoryInv, InTransaction, Saving,
         WriteMeta, WriteLedger, WriteTrace, WriteReport
<1>2. /\ Grown(old, old) /\ Grown(t, t)
  BY <1>0, GrownReflexive
<1>3. CASE WriteMeta(p)
  <2>1. new = [meta |-> t.meta, ledger |-> old.ledger, trace |-> old.trace, report |-> old.report]
    BY <1>3, StepWritten
  <2> HIDE DEF old, new, t
  <2> QED BY <1>1, <1>2, <2>1 DEF Grown, Backed, new, old, t
<1>4. CASE WriteLedger(p)
  <2>1. new = [meta |-> old.meta, ledger |-> t.ledger, trace |-> old.trace, report |-> old.report]
    BY <1>4, StepWritten
  <2> HIDE DEF old, new, t
  <2> QED BY <1>1, <1>2, <2>1 DEF Grown, Backed, new, old, t
<1>5. CASE WriteTrace(p)
  <2>1. new = [meta |-> old.meta, ledger |-> old.ledger, trace |-> t.trace, report |-> old.report]
    BY <1>5, StepWritten
  <2>2. old.trace \in Seq(Event) /\ t.trace \in Seq(Event)
    BY <1>0 DEF Session
  <2> HIDE DEF old, new, t
  <2>3. Grown(old, new) /\ Grown(new, t) /\ Paired(new.trace)
    BY <1>1, <1>2, <2>1 DEF Grown
  <2>4. ASSUME Backed(old) PROVE Backed(new)
    BY <1>1, <2>1, <2>2, <2>4, SucceededStays DEF Grown, Backed
  <2> QED BY <2>3, <2>4 DEF new, old, t
<1>6. CASE WriteReport(p)
  <2>1. new = [meta |-> old.meta, ledger |-> old.ledger, trace |-> old.trace, report |-> t.report]
    BY <1>6, StepWritten
  <2>2. old.trace = t.trace
    BY <1>0, <1>1, <1>6, NotMissing DEF WriteReport, SessionOn, Contents
  <2> HIDE DEF old, new, t
  <2> QED BY <1>1, <1>2, <2>1, <2>2 DEF Grown, Backed, new, old, t
<1> QED BY <1>3, <1>4, <1>5, <1>6

(* No step loses anything on disk, unpairs a call or leaves a report       *)
(* without its evidence.                                                   *)
LEMMA FilesStep ==
    ASSUME TypeOK, TransactionInv, [Next]_vars, NEW d \in Dirs
    PROVE  LET old == SessionOn(disk[d])
               new == SessionOn(disk'[d])
           IN /\ Grown(old, new)
              /\ Paired(old.trace) => Paired(new.trace)
              /\ Backed(old) => Backed(new)
<1>1. CASE disk'[d] = disk[d]
  BY <1>1, SessionOnType, GrownReflexive DEF TypeOK
<1>2. CASE disk'[d] # disk[d]
  <2>1. PICK p \in Procs : WriteMeta(p) \/ WriteLedger(p) \/ WriteTrace(p) \/ WriteReport(p)
    BY <1>2 DEF Next, Step, vars, Arrive, Start, Acquire, TimeOut, LoadCorrupted, LoadSession,
                RunBody, BodyRaises, Raise, Release, WriteFails, Kill
  <2>2. d = Dir(p)
    BY <1>2, <2>1, FilesWritten
  <2> QED BY <2>1, <2>2, WriteSession
<1> QED BY <1>1, <1>2

LEMMA GrownTransitive ==
    ASSUME NEW s \in Session, NEW t \in Session, NEW u \in Session, Grown(s, t), Grown(t, u)
    PROVE  Grown(s, u)
BY DEF Grown, Extends, Session

(* Loading establishes the invariant for the process that loads.           *)
LEMMA LoadStep ==
    ASSUME TypeOK, TransactionInv, CallsPaired, NEW p \in Procs, LoadSession(p)
    PROVE  SaveInv(p)' /\ MemoryInv(p)'
<1> DEFINE s == SessionOn(disk[Dir(p)])
           t == [s EXCEPT !.report = NoArg]
<1>1. Dir(p) \in Dirs /\ s \in Session /\ Dir(p)' = Dir(p) /\ disk' = disk
  BY DirType, SessionOnType DEF TypeOK, LoadSession, Dir
<1>2. tx'[p] = t /\ creating'[p] = ~Exists(Dir(p))
      /\ pc'[p] = IF Exists(Dir(p)) THEN "body" ELSE "save_meta"
  BY DEF LoadSession, Goto, TypeOK
<1>3. t.meta = s.meta /\ t.ledger = s.ledger /\ t.trace = s.trace /\ t.report = NoArg
  BY <1>1 DEF Session
<1>4. Grown(s, s) /\ Paired(s.trace)
  BY <1>1, GrownReflexive DEF CallsPaired
<1>5. SaveInv(p)'
  <2>1. Exists(Dir(p)) => Complete(Dir(p))
    BY DEF LoadSession, Corrupted, Complete, Exists
  <2> QED BY <1>1, <1>2, <2>1 DEF SaveInv, Complete, InTransaction, Saving
<1>6. MemoryInv(p)'
  <2> HIDE DEF s, t
  <2>1. Grown(s, t) /\ Paired(t.trace) /\ Backed(t) /\ t.report = NoArg
    BY <1>3, <1>4 DEF Grown, Backed
  <2>2. SessionOn(disk'[Dir(p)']) = s
    BY <1>1 DEF s
  <2> QED BY <1>2, <2>1, <2>2 DEF MemoryInv
<1> QED BY <1>5, <1>6

(* The body establishes the invariant for what is to be saved.             *)
LEMMA BodyStep ==
    ASSUME TypeOK, TransactionInv, NEW p \in Procs, RunBody(p)
    PROVE  SaveInv(p)' /\ MemoryInv(p)'
<1> DEFINE s == SessionOn(disk[Dir(p)])
           t == tx[p]
           a == After(t, hook[p])
<1>1. /\ s \in Session /\ t \in Session /\ hook[p] \in Hook
      /\ Dir(p)' = Dir(p) /\ disk' = disk /\ creating' = creating
  BY DirType, SessionOnType DEF TypeOK, RunBody, Dir
<1>2. pc[p] = "body" /\ tx'[p] = a /\ pc'[p] = "save_meta" /\ ~Raises(t, hook[p])
  BY DEF RunBody, Goto, TypeOK
<1>3. Grown(s, t) /\ Paired(t.trace) /\ t.report = NoArg
  BY <1>2 DEF TransactionInv, MemoryInv, InTransaction
<1>4. ~creating[p] /\ Complete(Dir(p))
  BY <1>2 DEF TransactionInv, SaveInv, InTransaction, Saving, Over
<1>5. a \in Session /\ Grown(s, a) /\ Paired(a.trace) /\ Backed(a)
  BY <1>1, <1>2, <1>3, AfterGrows, AfterPaired, AfterBacked, GrownTransitive
<1>6. SaveInv(p)'
  BY <1>1, <1>2, <1>4 DEF SaveInv, Complete, InTransaction, Saving, Over
<1>7. MemoryInv(p)'
  <2> HIDE DEF a, t
  <2>1. SessionOn(disk'[Dir(p)']) = s
    BY <1>1
  <2>2. ~creating'[p]
    BY <1>1, <1>4
  <2> HIDE DEF s
  <2> QED BY <1>2, <1>5, <2>1, <2>2 DEF MemoryInv
<1> QED BY <1>6, <1>7

(* Writing a file keeps the invariant for the process that writes.         *)
LEMMA WriteStep ==
    ASSUME TypeOK, TransactionInv, NEW p \in Procs,
           WriteMeta(p) \/ WriteLedger(p) \/ WriteTrace(p) \/ WriteReport(p)
    PROVE  SaveInv(p)' /\ MemoryInv(p)'
<1> DEFINE f == disk[Dir(p)]
           g == disk'[Dir(p)]
           t == tx[p]
<1>1. f \in Files /\ t \in Session /\ Dir(p)' = Dir(p) /\ tx' = tx
  BY DirType DEF TypeOK, Dir, WriteMeta, WriteLedger, WriteTrace, WriteReport
<1>2. Missing \notin {t.meta, t.ledger, t.trace, t.report}
  BY <1>1, NotMissing
<1>3. SaveInv(p) /\ MemoryInv(p) /\ pc[p] \in InTransaction
  BY DEF TransactionInv, InTransaction, Saving, WriteMeta, WriteLedger, WriteTrace, WriteReport
<1>4. SaveInv(p)'
  <2>1. CASE WriteMeta(p)
    <3>1. g.meta = t.meta /\ g.ledger = f.ledger /\ g.trace = f.trace
      BY <1>1, <2>1, FilesWritten DEF Files
    <3>2. pc[p] = "save_meta" /\ pc'[p] = "save_ledger" /\ creating' = creating
      BY <2>1 DEF WriteMeta, Goto, TypeOK
    <3> HIDE DEF f, g, t
    <3> QED BY <1>1, <1>2, <1>3, <3>1, <3>2 DEF SaveInv, Complete, InTransaction, Saving, Over, f, g, t
  <2>2. CASE WriteLedger(p)
    <3>1. g.meta = f.meta /\ g.ledger = t.ledger /\ g.trace = f.trace
      BY <1>1, <2>2, FilesWritten DEF Files
    <3>2. pc[p] = "save_ledger" /\ pc'[p] = "save_trace" /\ creating' = creating
      BY <2>2 DEF WriteLedger, Goto, TypeOK
    <3> QED BY <1>1, <1>2, <1>3, <3>1, <3>2 DEF SaveInv, Complete, InTransaction, Saving, Over
  <2>3. CASE WriteTrace(p)
    <3>1. g.meta = f.meta /\ g.ledger = f.ledger /\ g.trace = t.trace
      BY <1>1, <2>3, FilesWritten DEF Files
    <3>2. /\ pc[p] = "save_trace" /\ creating'[p] = FALSE
          /\ pc'[p] \in {"body", "save_report", "release"}
      BY <2>3 DEF WriteTrace, Goto, TypeOK
    <3>3. f.meta = t.meta /\ f.ledger = t.ledger
      BY <1>3, <3>2 DEF SaveInv, InTransaction, Saving
    <3> QED BY <1>1, <1>2, <3>1, <3>2, <3>3 DEF SaveInv, Complete, InTransaction, Saving, Over
  <2>4. CASE WriteReport(p)
    <3>1. g.meta = f.meta /\ g.ledger = f.ledger /\ g.trace = f.trace
      BY <1>1, <2>4, FilesWritten DEF Files
    <3>2. pc[p] = "save_report" /\ pc'[p] = "release" /\ creating' = creating
      BY <2>4 DEF WriteReport, Goto, TypeOK
    <3> QED BY <1>1, <1>2, <1>3, <3>1, <3>2 DEF SaveInv, Complete, InTransaction, Saving, Over
  <2> QED BY <2>1, <2>2, <2>3, <2>4
<1>5. MemoryInv(p)'
  <2>1. Grown(SessionOn(g), t)
    BY WriteSession
  <2>2. Paired(t.trace) /\ Backed(t)
    BY <1>3 DEF MemoryInv
  <2>3. pc'[p] = "body" \/ creating'[p] => creating[p]
    BY DEF WriteMeta, WriteLedger, WriteTrace, WriteReport, Goto, TypeOK
  <2>4. creating[p] => t.report = NoArg
    BY <1>3 DEF MemoryInv
  <2>5. SessionOn(disk'[Dir(p)']) = SessionOn(g) /\ tx'[p] = t
    BY <1>1
  <2> HIDE DEF g, t
  <2> QED BY <2>1, <2>2, <2>3, <2>4, <2>5 DEF MemoryInv
<1> QED BY <1>4, <1>5

(* Every step keeps memory and files of every transaction in agreement.    *)
LEMMA TransactionStep ==
    ASSUME TypeOK, LockExclusive, CallsPaired, TransactionInv, [Next]_vars
    PROVE  TransactionInv'
<1>0. {"waiting", "loading", "idle"} \cap Over = {} /\ {"done", "dead"} \subseteq Over
  BY DEF Over
<1>1. ASSUME NEW p \in Procs, Arrive(p) PROVE TransactionInv'
  <2>1. PICK h \in Hook : Start(p, h)
    BY <1>1 DEF Arrive
  <2>2. /\ disk' = disk /\ tx' = tx /\ creating' = creating
        /\ pc[p] = "idle" /\ pc'[p] = "waiting"
        /\ \A q \in Procs \ {p} : pc'[q] = pc[q] /\ hook'[q] = hook[q]
    BY <2>1 DEF Start, Goto, TypeOK
  <2> QED BY <2>2, QuietStep
<1>2. ASSUME NEW p \in Procs, Acquire(p) \/ TimeOut(p) \/ Release(p) \/ Kill(p)
      PROVE TransactionInv'
  <2>1. /\ disk' = disk /\ tx' = tx /\ creating' = creating /\ hook' = hook
        /\ \A q \in Procs \ {p} : pc'[q] = pc[q]
    BY <1>2 DEF Acquire, TimeOut, Release, Kill, Goto, TypeOK
  <2>2. /\ pc'[p] \in {"waiting", "loading"} \cup Over
        /\ pc[p] \in {"idle", "waiting"} \/ pc'[p] \in Over
    BY <1>0, <1>2 DEF Acquire, TimeOut, Release, Kill, Goto, TypeOK
  <2> QED BY <2>1, <2>2, QuietStep
<1>3. ASSUME NEW p \in Procs, LoadCorrupted(p) \/ BodyRaises(p) \/ WriteFails(p)
      PROVE TransactionInv'
  <2>1. Raise(p)
    BY <1>3 DEF LoadCorrupted, BodyRaises, WriteFails
  <2>2. /\ disk' = disk /\ tx' = tx /\ creating' = creating /\ hook' = hook
        /\ \A q \in Procs \ {p} : pc'[q] = pc[q]
        /\ pc'[p] \in Over
    BY <1>0, <2>1 DEF Raise, Goto, TypeOK
  <2> QED BY <2>2, QuietStep
<1>4. ASSUME NEW p \in Procs,
             LoadSession(p) \/ RunBody(p) \/ WriteMeta(p) \/ WriteLedger(p) \/ WriteTrace(p) \/ WriteReport(p)
      PROVE TransactionInv'
  <2>1. SaveInv(p)' /\ MemoryInv(p)'
    BY <1>4, LoadStep, BodyStep, WriteStep
  <2>2. ASSUME NEW q \in Procs, q # p PROVE SaveInv(q)' /\ MemoryInv(q)'
    <3>1. /\ pc[p] \in Locked /\ hook' = hook
          /\ pc'[q] = pc[q] /\ tx'[q] = tx[q] /\ creating'[q] = creating[q]
      BY <1>4, <2>2 DEF LoadSession, RunBody, WriteMeta, WriteLedger, WriteTrace, WriteReport,
                        Goto, TypeOK, Locked, Saving
    <3>2. \A d \in Dirs : d # Dir(p) => disk'[d] = disk[d]
      <4>1. CASE LoadSession(p) \/ RunBody(p)
        BY <4>1 DEF LoadSession, RunBody
      <4>2. CASE ~(LoadSession(p) \/ RunBody(p))
        BY <1>4, <4>2, FilesWritten
      <4> QED BY <4>1, <4>2
    <3>3. SaveInv(q) /\ MemoryInv(q)
      BY DEF TransactionInv
    <3> QED BY <2>2, <3>1, <3>2, <3>3, OthersUntouched
  <2> QED BY <2>1, <2>2 DEF TransactionInv
<1>5. CASE UNCHANGED vars
  BY <1>5 DEF vars, TransactionInv, SaveInv, MemoryInv, Complete, Dir
<1> QED BY <1>1, <1>2, <1>3, <1>4, <1>5 DEF Next, Step

LEMMA TransactionInit == Init => TransactionInv /\ CallsPaired /\ ReportBacked
<1> SUFFICES ASSUME Init PROVE TransactionInv /\ CallsPaired /\ ReportBacked
  OBVIOUS
<1>1. TransactionInv
  BY DEF Init, TransactionInv, SaveInv, MemoryInv, InTransaction, Saving, Over
<1>2. ASSUME NEW d \in Dirs PROVE Paired(SessionOn(disk[d]).trace) /\ Backed(SessionOn(disk[d]))
  <2>1. SessionOn(disk[d]).trace = <<>> /\ SessionOn(disk[d]).report = NoArg
    BY DEF Init, NoFiles, SessionOn, Contents
  <2> QED BY <2>1 DEF Paired, Backed
<1> QED BY <1>1, <1>2 DEF CallsPaired, ReportBacked

LEMMA CallsStep ==
    TypeOK /\ TransactionInv /\ CallsPaired /\ ReportBacked /\ [Next]_vars
        => CallsPaired' /\ ReportBacked'
BY FilesStep DEF CallsPaired, ReportBacked

(* The inductive invariant holds: between loading and releasing, files and *)
(* memory agree as far as the save has come (session_transaction).         *)
THEOREM TransactionCorrect == Spec => [](TransactionInv /\ CallsPaired /\ ReportBacked)
<1> DEFINE IInv == TransactionInv /\ CallsPaired /\ ReportBacked
<1>1. Init => IInv
  BY TransactionInit
<1>2. TypeOK /\ LockExclusive /\ IInv /\ [Next]_vars => IInv'
  BY TransactionStep, CallsStep
<1> QED BY <1>1, <1>2, TypeCorrect, LockCorrect, PTL DEF Spec

(* A tool call on disk is directly followed by its one result, whatever    *)
(* duplicates, kills and failures occur (handle_post_tool_use).            *)
THEOREM CallsArePaired == Spec => []CallsPaired
BY TransactionCorrect, PTL

(* A report on disk that a call succeeded rests on a successful result     *)
(* on disk (handle_stop).                                                  *)
THEOREM ReportsAreBacked == Spec => []ReportBacked
BY TransactionCorrect, PTL

(* No step of any process loses prompts, constraints or trace events that  *)
(* are on disk: there are no lost updates.                                 *)
THEOREM NothingIsLost == Spec => NothingLost
<1>1. TypeOK /\ TransactionInv /\ [Next]_vars
        => [\A d \in Dirs : Grown(SessionOn(disk[d]), SessionOn(disk'[d]))]_vars
  BY FilesStep
<1> QED BY <1>1, TypeCorrect, TransactionCorrect, PTL DEF Spec, NothingLost

-----------------------------------------------------------------------------

(* An incomplete session that nobody is creating has no transaction past   *)
(* loading.                                                                *)
LEMMA IncompleteIdle ==
    ASSUME TypeOK, LockExclusive, TransactionInv, NEW d \in Dirs, Incomplete(d),
           NEW q \in Procs, Dir(q) = d
    PROVE  pc[q] \notin InTransaction
<1> SUFFICES ASSUME pc[q] \in InTransaction PROVE FALSE
  OBVIOUS
<1>1. lock[d] = q
  BY DEF LockExclusive, InTransaction, Locked
<1>2. ~creating[q]
  BY <1>1, SessionFilesAssumption DEF Incomplete
<1>3. Complete(d)
  BY <1>2 DEF TransactionInv, SaveInv
<1> QED BY <1>3 DEF Complete, Incomplete, Corrupted, Exists

(* How a process gets to save, changes a file or answers "allow".          *)
LEMMA HowToSave ==
    ASSUME TypeOK, [Next]_vars, NEW q \in Procs
    PROVE  /\ pc'[q] \in Saving => pc[q] \in InTransaction \/ LoadSession(q)
           /\ pc[q] # "idle" => hook'[q] = hook[q]
           /\ pc'[q] \in Saving => pc[q] # "idle"
           /\ answer'[q] = "allow" => answer[q] = "allow" \/ pc[q] = "body"
<1> USE DEF InTransaction, Saving
<1>0. \A p \in Procs : FailAnswer(hook[p]) # "allow"
  BY DEF FailAnswer
<1>1. ASSUME NEW p \in Procs, Arrive(p)
      PROVE  /\ pc'[q] \in Saving => pc[q] \in InTransaction
             /\ pc[q] # "idle" => hook'[q] = hook[q]
             /\ answer' = answer
  BY <1>1 DEF Arrive, Start, Goto, TypeOK
<1>2. ASSUME NEW p \in Procs, Acquire(p) \/ TimeOut(p) \/ Release(p) \/ Kill(p)
      PROVE  /\ pc'[q] \in Saving => pc[q] \in InTransaction
             /\ hook' = hook
             /\ answer'[q] = "allow" => answer[q] = "allow"
  BY <1>0, <1>2 DEF Acquire, TimeOut, Release, Kill, Goto, TypeOK
<1>3. ASSUME NEW p \in Procs, Raise(p)
      PROVE  /\ pc'[q] \in Saving => pc[q] \in InTransaction
             /\ hook' = hook
             /\ answer'[q] = "allow" => answer[q] = "allow"
  BY <1>0, <1>3 DEF Raise, Goto, TypeOK
<1>4. ASSUME NEW p \in Procs, LoadSession(p)
      PROVE  /\ pc'[q] \in Saving => pc[q] \in InTransaction \/ LoadSession(q)
             /\ hook' = hook /\ answer' = answer
  <2>1. CASE q = p
    BY <1>4, <2>1 DEF LoadSession
  <2>2. CASE q # p
    BY <1>4, <2>2 DEF LoadSession, Goto, TypeOK
  <2> QED BY <2>1, <2>2
<1>5. ASSUME NEW p \in Procs, RunBody(p)
      PROVE  /\ pc'[q] \in Saving => pc[q] \in InTransaction
             /\ hook' = hook
             /\ answer'[q] = "allow" => answer[q] = "allow" \/ pc[q] = "body"
  BY <1>5 DEF RunBody, Goto, TypeOK
<1>6. ASSUME NEW p \in Procs, WriteMeta(p) \/ WriteLedger(p) \/ WriteTrace(p) \/ WriteReport(p)
      PROVE  /\ pc'[q] \in Saving => pc[q] \in InTransaction
             /\ hook' = hook /\ answer' = answer
  BY <1>6 DEF WriteMeta, WriteLedger, WriteTrace, WriteReport, Goto, TypeOK
<1>7. CASE UNCHANGED vars
  BY <1>7 DEF vars
<1>8. /\ pc'[q] \in Saving => pc[q] \in InTransaction \/ LoadSession(q)
      /\ pc[q] # "idle" => hook'[q] = hook[q]
      /\ answer'[q] = "allow" => answer[q] = "allow" \/ pc[q] = "body"
  BY <1>1, <1>2, <1>3, <1>4, <1>5, <1>6, <1>7
  DEF Next, Step, LoadCorrupted, BodyRaises, WriteFails
<1>9. LoadSession(q) \/ pc[q] \in InTransaction => pc[q] # "idle"
  BY DEF LoadSession
<1> QED BY <1>8, <1>9

(* A step on an incomplete session nobody is creating leaves it incomplete *)
(* and lets no action through.                                             *)
LEMMA IncompleteStep ==
    ASSUME TypeOK, TypeOK', LockExclusive, LockExclusive', TransactionInv, TransactionInv',
           [Next]_vars, NEW d \in Dirs, Incomplete(d)
    PROVE  /\ Incomplete(d)'
           /\ \A p \in Procs : pc[p] # "idle" /\ Dir(p) = d /\ answer'[p] = "allow"
                               => answer[p] = "allow"
<1>1. \A q \in Procs : Dir(q) = d => pc[q] \notin InTransaction
  BY IncompleteIdle
<1>2. disk'[d] = disk[d]
  <2> SUFFICES ASSUME disk'[d] # disk[d] PROVE FALSE
    OBVIOUS
  <2>1. PICK p \in Procs : WriteMeta(p) \/ WriteLedger(p) \/ WriteTrace(p) \/ WriteReport(p)
    BY DEF Next, Step, vars, Arrive, Start, Acquire, TimeOut, LoadCorrupted, LoadSession,
           RunBody, BodyRaises, Raise, Release, WriteFails, Kill
  <2>2. d = Dir(p) /\ pc[p] \in InTransaction
    BY <2>1, FilesWritten DEF WriteMeta, WriteLedger, WriteTrace, WriteReport, InTransaction, Saving
  <2> QED BY <1>1, <2>2
<1>3. ASSUME lock'[d] # NoProc, creating'[lock'[d]] PROVE FALSE
  <2>0. PICK q \in Procs : lock'[d] = q
    BY <1>3 DEF TypeOK
  <2>1. pc'[q] \in Locked /\ Dir(q)' = d
    BY <2>0 DEF LockExclusive
  <2>2. pc'[q] \in Saving
    BY <1>3, <2>0, <2>1 DEF TransactionInv, SaveInv, Locked, Saving, Over
  <2>3. pc[q] \in InTransaction \/ LoadSession(q)
    BY <2>1, <2>2, HowToSave
  <2>4. Dir(q) = d
    BY <2>1, <2>2, HowToSave DEF Dir
  <2>5. ~LoadSession(q)
    BY <2>4 DEF LoadSession, Incomplete
  <2> QED BY <1>1, <2>1, <2>3, <2>4, <2>5
<1>4. Incomplete(d)'
  BY <1>2, <1>3 DEF Incomplete, Corrupted, Exists
<1>5. ASSUME NEW p \in Procs, Dir(p) = d, answer'[p] = "allow" PROVE answer[p] = "allow"
  BY <1>1, <1>5, HowToSave DEF InTransaction
<1> QED BY <1>4, <1>5

(* A session left incomplete by an interrupted creation stays so, and no   *)
(* PreToolUse hook on it ever allows an action (get_or_create_session,     *)
(* handle_pre_tool_use).                                                   *)
THEOREM IncompleteIsDenied == Spec => IncompleteDenies
<1> DEFINE Denied ==
             \A d \in Dirs : Incomplete(d) =>
               /\ Incomplete(d)'
               /\ \A p \in Procs : pc[p] # "idle" /\ Dir(p) = d /\ answer'[p] = "allow"
                                   => answer[p] = "allow"
<1>1. ASSUME TypeOK, TypeOK', LockExclusive, LockExclusive',
             TransactionInv, TransactionInv', [Next]_vars
      PROVE  Denied
  BY <1>1, IncompleteStep
<1> HIDE DEF Denied
<1>2. TypeOK /\ TypeOK' /\ LockExclusive /\ LockExclusive' /\ TransactionInv /\ TransactionInv'
        /\ [Next]_vars => Denied
  BY <1>1
<1>3. Spec => [][Denied]_vars
  BY <1>2, TypeCorrect, LockCorrect, TransactionCorrect, PTL DEF Spec
<1> QED BY <1>3 DEF IncompleteDenies, Denied

-----------------------------------------------------------------------------
(***************************************************************************)
(* The hook processes, writing four files one after the other under a file *)
(* lock, implement the atomic transactions of AtomicSession as long as no  *)
(* save is interrupted.                                                    *)
(***************************************************************************)

(* What a handler makes of a session does not depend on the report of an   *)
(* earlier Stop, which the transaction does not load.                      *)
LEMMA AfterReport ==
    ASSUME NEW s \in Session, NEW h \in Hook
    PROVE  LET t == After([s EXCEPT !.report = NoArg], h) IN
           After(s, h) = [meta |-> t.meta, ledger |-> t.ledger, trace |-> t.trace,
                          report |-> IF t.report = NoArg THEN s.report ELSE t.report]
<1> DEFINE l == [s EXCEPT !.report = NoArg]
           t == After(l, h)
<1>1. /\ l.meta = s.meta /\ l.ledger = s.ledger /\ l.trace = s.trace /\ l.report = NoArg
      /\ l \in Session
      /\ s = [meta |-> s.meta, ledger |-> s.ledger, trace |-> s.trace, report |-> s.report]
  BY DEF Session
<1> SUFFICES After(s, h) = [meta |-> t.meta, ledger |-> t.ledger, trace |-> t.trace,
                            report |-> IF t.report = NoArg THEN s.report ELSE t.report]
  OBVIOUS
<1> HIDE DEF l, t
<1>2. CASE h.kind = "UserPromptSubmit"
  <2>1. t = PromptSubmitted(l, h) /\ After(s, h) = PromptSubmitted(s, h)
    BY <1>2 DEF After, t
  <2> QED BY <1>1, <2>1 DEF PromptSubmitted
<1>3. CASE h.kind = "PreToolUse"
  <2>1. t = PreToolUsed(l, h) /\ After(s, h) = PreToolUsed(s, h)
    BY <1>3 DEF After, t
  <2> DEFINE e == EventOf("GUARD_DECISION", h, ~Blocks(s.ledger, h.arg))
  <2>2. /\ PreToolUsed(l, h) = [l EXCEPT !.trace = Append(s.trace, e)]
        /\ PreToolUsed(s, h) = [s EXCEPT !.trace = Append(s.trace, e)]
    BY <1>1 DEF PreToolUsed
  <2> HIDE DEF e
  <2> QED BY <1>1, <2>1, <2>2 DEF Session
<1>4. CASE h.kind = "PostToolUse"
  <2>1. t = PostToolUsed(l, h) /\ After(s, h) = PostToolUsed(s, h)
    BY <1>4 DEF After, t
  <2> DEFINE u == s.trace \o (IF Recorded(s.trace, "TOOL_CALL", h.arg) THEN <<>>
                              ELSE <<EventOf("TOOL_CALL", h, TRUE)>>)
                    \o <<EventOf("TOOL_RESULT", h, h.ok)>>
  <2>2. /\ PostToolUsed(l, h) = [l EXCEPT !.trace = u]
        /\ PostToolUsed(s, h) = [s EXCEPT !.trace = u]
    BY <1>1 DEF PostToolUsed
  <2> HIDE DEF u
  <2> QED BY <1>1, <2>1, <2>2 DEF Session
<1>5. CASE h.kind = "Stop" /\ h.arg = NoArg
  <2>1. t = l /\ After(s, h) = s
    BY <1>5 DEF After, Stopped, t
  <2> QED BY <1>1, <2>1
<1>6. CASE h.kind = "Stop" /\ h.arg # NoArg
  <2> DEFINE r == [claim |-> h.arg, verified |-> Verified(s.trace, h.arg)]
  <2>1. t = [l EXCEPT !.report = r] /\ After(s, h) = [s EXCEPT !.report = r]
    BY <1>1, <1>6 DEF After, Stopped, t
  <2>2. r # NoArg
    <3>1. r \in [claim : Calls, verified : BOOLEAN]
      BY <1>6 DEF Hook, ArgsOf, Verified, Succeeded
    <3> QED BY <3>1, HookDataAssumption
  <2> HIDE DEF r
  <2> QED BY <1>1, <2>1, <2>2 DEF Session
<1>7. CASE h.kind = "SessionStart"
  <2>1. t = l /\ After(s, h) = s
    BY <1>7 DEF After, t
  <2> QED BY <1>1, <2>1
<1> QED BY <1>2, <1>3, <1>4, <1>5, <1>6, <1>7 DEF Hook

(* Whether a handler raises, and what it answers, does not depend on the   *)
(* report either.                                                          *)
LEMMA AnswerReport ==
    ASSUME NEW s \in Session, NEW h
    PROVE  LET l == [s EXCEPT !.report = NoArg] IN
           Raises(l, h) = Raises(s, h) /\ AnswerOf(l, h) = AnswerOf(s, h)
<1> DEFINE l == [s EXCEPT !.report = NoArg]
<1>1. l.trace = s.trace /\ l.ledger = s.ledger
  BY DEF Session
<1> HIDE DEF l
<1> QED BY <1>1 DEF Raises, AnswerOf, l

-----------------------------------------------------------------------------
(* The invariant that relates memory and files to the loaded session.      *)

(* A step of one process leaves what another one loaded alone.             *)
LEMMA OthersLoaded ==
    ASSUME TypeOK, LockExclusive, NEW p \in Procs, NEW q \in Procs, q # p, LoadedInv(q),
           hook'[q] = hook[q], pc'[q] = pc[q], tx'[q] = tx[q], creating'[q] = creating[q],
           base'[q] = base[q], answer'[q] = answer[q],
           pc[p] \in Locked \/ disk' = disk,
           \A d \in Dirs : d # Dir(p) => disk'[d] = disk[d]
    PROVE  LoadedInv(q)'
<1>1. Dir(q) \in Dirs /\ Dir(q)' = Dir(q)
  BY DirType DEF TypeOK, Dir
<1>2. CASE pc[q] \in {"body"} \cup Saving
  <2>1. disk'[Dir(q)'] = disk[Dir(q)]
    BY <1>1, <1>2, Exclusion DEF Locked
  <2> QED BY <2>1 DEF LoadedInv
<1>3. CASE pc[q] \notin {"body"} \cup Saving
  BY <1>3 DEF LoadedInv, Saving
<1> QED BY <1>2, <1>3

LEMMA LoadLoaded ==
    ASSUME TypeOK, NEW p \in Procs, LoadSession(p)
    PROVE  LoadedInv(p)'
<1> DEFINE s == SessionOn(disk[Dir(p)])
           t == [s EXCEPT !.report = NoArg]
<1>1. Dir(p)' = Dir(p) /\ disk' = disk
  BY DEF LoadSession, Dir
<1>2. /\ tx'[p] = t /\ base'[p] = s /\ creating'[p] = ~Exists(Dir(p))
      /\ pc'[p] = IF Exists(Dir(p)) THEN "body" ELSE "save_meta"
  BY DEF LoadSession, Goto, TypeOK
<1>3. SessionOn(disk'[Dir(p)']) = s
  BY <1>1
<1> HIDE DEF s
<1> QED BY <1>2, <1>3 DEF LoadedInv, Saving

LEMMA BodyLoaded ==
    ASSUME TypeOK, TransactionInv, AtomicInv, NEW p \in Procs, RunBody(p)
    PROVE  LoadedInv(p)'
<1> DEFINE s == SessionOn(disk[Dir(p)])
           l == [base[p] EXCEPT !.report = NoArg]
<1>1. /\ Dir(p)' = Dir(p) /\ disk' = disk /\ base' = base /\ hook' = hook /\ creating' = creating
      /\ base[p] \in Session
  BY DEF RunBody, Dir, TypeOK
<1>2. pc[p] = "body" /\ pc'[p] = "save_meta" /\ ~Raises(tx[p], hook[p])
      /\ tx'[p] = After(tx[p], hook[p]) /\ answer'[p] = AnswerOf(tx[p], hook[p])
  BY DEF RunBody, Goto, TypeOK
<1>3. tx[p] = l /\ s = base[p]
  BY <1>2 DEF AtomicInv, LoadedInv
<1>4. ~creating[p]
  BY <1>2 DEF TransactionInv, SaveInv, Saving, Over
<1>5. ~Raises(base[p], hook[p]) /\ answer'[p] = AnswerOf(base[p], hook[p])
  BY <1>1, <1>2, <1>3, AnswerReport
<1>6. SessionOn(disk'[Dir(p)']) = s
  BY <1>1
<1> HIDE DEF s, l
<1>7. tx'[p] = After(l, hook[p])
  BY <1>2, <1>3
<1> QED BY <1>1, <1>2, <1>3, <1>4, <1>5, <1>6, <1>7 DEF LoadedInv, l

(* Creating a session writes what was loaded; saving leaves evidence.json  *)
(* to the last write.                                                      *)
LEMMA WriteLoaded ==
    ASSUME TypeOK, TransactionInv, AtomicInv, NEW p \in Procs,
           WriteMeta(p) \/ WriteLedger(p) \/ WriteTrace(p) \/ WriteReport(p)
    PROVE  LoadedInv(p)'
<1> DEFINE f == disk[Dir(p)]
           g == disk'[Dir(p)]
           old == SessionOn(f)
           new == SessionOn(g)
           b == base[p]
           l == [b EXCEPT !.report = NoArg]
           t == tx[p]
<1>1. /\ f \in Files /\ t \in Session /\ b \in Session /\ old \in Session
      /\ Dir(p)' = Dir(p) /\ tx' = tx /\ base' = base /\ hook' = hook /\ answer' = answer
  BY DirType, SessionOnType DEF TypeOK, Dir, WriteMeta, WriteLedger, WriteTrace, WriteReport
<1>2. l.meta = b.meta /\ l.ledger = b.ledger /\ l.trace = b.trace
  BY <1>1 DEF Session
<1>3. LoadedInv(p) /\ pc[p] \in Saving
  BY DEF AtomicInv, Saving, WriteMeta, WriteLedger, WriteTrace, WriteReport
<1>4. WriteReport(p) => pc'[p] = "release"
  BY DEF WriteReport, Goto, TypeOK
<1>5. ~WriteReport(p) => new.report = old.report
  <2>1. CASE WriteMeta(p)
    <3>1. new = [meta |-> t.meta, ledger |-> old.ledger, trace |-> old.trace, report |-> old.report]
      BY <2>1, StepWritten
    <3> HIDE DEF new, old
    <3> QED BY <3>1
  <2>2. CASE WriteLedger(p)
    <3>1. new = [meta |-> old.meta, ledger |-> t.ledger, trace |-> old.trace, report |-> old.report]
      BY <2>2, StepWritten
    <3> HIDE DEF new, old
    <3> QED BY <3>1
  <2>3. CASE WriteTrace(p)
    <3>1. new = [meta |-> old.meta, ledger |-> old.ledger, trace |-> t.trace, report |-> old.report]
      BY <2>3, StepWritten
    <3> HIDE DEF new, old
    <3> QED BY <3>1
  <2> QED BY <2>1, <2>2, <2>3
<1>6. creating[p] /\ ~WriteReport(p) => new = b
  <2> SUFFICES ASSUME creating[p], ~WriteReport(p) PROVE new = b
    OBVIOUS
  <2>1. t = l /\ old = b
    BY <1>3 DEF LoadedInv
  <2>2. t.meta = b.meta /\ t.ledger = b.ledger /\ t.trace = b.trace
    BY <1>2, <2>1
  <2>3. b = [meta |-> b.meta, ledger |-> b.ledger, trace |-> b.trace, report |-> b.report]
    BY <1>1 DEF Session
  <2>4. CASE WriteMeta(p)
    <3>1. new = [meta |-> t.meta, ledger |-> old.ledger, trace |-> old.trace, report |-> old.report]
      BY <2>4, StepWritten
    <3> HIDE DEF new, old, t, b, l
    <3> QED BY <2>1, <2>2, <2>3, <3>1
  <2>5. CASE WriteLedger(p)
    <3>1. new = [meta |-> old.meta, ledger |-> t.ledger, trace |-> old.trace, report |-> old.report]
      BY <2>5, StepWritten
    <3> HIDE DEF new, old, t, b, l
    <3> QED BY <2>1, <2>2, <2>3, <3>1
  <2>6. CASE WriteTrace(p)
    <3>1. new = [meta |-> old.meta, ledger |-> old.ledger, trace |-> t.trace, report |-> old.report]
      BY <2>6, StepWritten
    <3> HIDE DEF new, old, t, b, l
    <3> QED BY <2>1, <2>2, <2>3, <3>1
  <2> QED BY <2>4, <2>5, <2>6
<1>7. /\ WriteMeta(p) => pc'[p] = "save_ledger" /\ creating' = creating
      /\ WriteLedger(p) => pc'[p] = "save_trace" /\ creating' = creating
      /\ WriteTrace(p) => /\ ~creating'[p]
                          /\ creating[p] => pc'[p] = "body"
                          /\ ~creating[p] => pc'[p] \in {"save_report", "release"}
  BY DEF WriteMeta, WriteLedger, WriteTrace, Goto, TypeOK
<1>8. SessionOn(disk'[Dir(p)']) = new
  BY <1>1
<1>9. CASE WriteReport(p)
  BY <1>4, <1>9 DEF LoadedInv, Saving
<1>10. CASE creating[p] /\ ~WriteReport(p)
  <2>1. t = l
    BY <1>3, <1>10 DEF LoadedInv
  <2>2. pc'[p] = "body" \/ (pc'[p] \in {"save_ledger", "save_trace"} /\ creating'[p])
    BY <1>7, <1>10
  <2> HIDE DEF new
  <2> QED BY <1>1, <1>6, <1>8, <1>10, <2>1, <2>2 DEF LoadedInv, Saving
<1>11. CASE ~creating[p] /\ ~WriteReport(p)
  <2>1. /\ ~Raises(b, hook[p]) /\ t = After(l, hook[p]) /\ answer[p] = AnswerOf(b, hook[p])
        /\ old.report = b.report
    BY <1>3, <1>11 DEF LoadedInv
  <2>2. ~creating'[p] /\ pc'[p] \in {"save_ledger", "save_trace", "save_report", "release"}
    BY <1>7, <1>11
  <2> HIDE DEF new, old
  <2> QED BY <1>1, <1>5, <1>8, <1>11, <2>1, <2>2 DEF LoadedInv, Saving
<1> QED BY <1>9, <1>10, <1>11

(* Every step keeps memory, files and loaded session in agreement.         *)
LEMMA AtomicInvStep ==
    ASSUME TypeOK, LockExclusive, TransactionInv, AtomicInv, [Next]_vars
    PROVE  AtomicInv'
<1>0. \A q \in Procs : LoadedInv(q)
  BY DEF AtomicInv
<1>1. ASSUME NEW p \in Procs, Arrive(p) PROVE AtomicInv'
  <2>1. PICK h \in Hook : Start(p, h)
    BY <1>1 DEF Arrive
  <2>2. /\ disk' = disk /\ tx' = tx /\ creating' = creating /\ base' = base /\ answer' = answer
        /\ \A q \in Procs \ {p} : pc'[q] = pc[q] /\ hook'[q] = hook[q]
        /\ pc'[p] = "waiting"
    BY <2>1 DEF Start, Goto, TypeOK
  <2>3. LoadedInv(p)'
    BY <2>2 DEF LoadedInv, Saving
  <2> QED BY <1>0, <2>2, <2>3, OthersLoaded DEF AtomicInv
<1>2. ASSUME NEW p \in Procs, Acquire(p) \/ TimeOut(p) \/ Release(p) \/ Kill(p) \/ Raise(p)
      PROVE AtomicInv'
  <2>1. /\ disk' = disk /\ tx' = tx /\ creating' = creating /\ base' = base /\ hook' = hook
        /\ \A q \in Procs \ {p} : pc'[q] = pc[q] /\ answer'[q] = answer[q]
        /\ pc'[p] \in {"loading", "done", "dead"}
    BY <1>2 DEF Acquire, TimeOut, Release, Kill, Raise, Goto, TypeOK
  <2>2. LoadedInv(p)'
    BY <2>1 DEF LoadedInv, Saving
  <2> QED BY <1>0, <2>1, <2>2, OthersLoaded DEF AtomicInv
<1>3. ASSUME NEW p \in Procs,
             LoadSession(p) \/ RunBody(p) \/ WriteMeta(p) \/ WriteLedger(p) \/ WriteTrace(p) \/ WriteReport(p)
      PROVE AtomicInv'
  <2>1. LoadedInv(p)'
    BY <1>3, LoadLoaded, BodyLoaded, WriteLoaded
  <2>2. ASSUME NEW q \in Procs, q # p PROVE LoadedInv(q)'
    <3>1. /\ pc[p] \in Locked /\ hook' = hook
          /\ pc'[q] = pc[q] /\ tx'[q] = tx[q] /\ creating'[q] = creating[q]
          /\ base'[q] = base[q] /\ answer'[q] = answer[q]
      BY <1>3, <2>2 DEF LoadSession, RunBody, WriteMeta, WriteLedger, WriteTrace, WriteReport,
                        Goto, TypeOK, Locked, Saving
    <3>2. \A d \in Dirs : d # Dir(p) => disk'[d] = disk[d]
      <4>1. CASE LoadSession(p) \/ RunBody(p)
        BY <4>1 DEF LoadSession, RunBody
      <4>2. CASE ~(LoadSession(p) \/ RunBody(p))
        BY <1>3, <4>2, FilesWritten
      <4> QED BY <4>1, <4>2
    <3> QED BY <1>0, <2>2, <3>1, <3>2, OthersLoaded
  <2> QED BY <2>1, <2>2 DEF AtomicInv
<1>4. CASE UNCHANGED vars
  BY <1>4 DEF vars, AtomicInv, LoadedInv, Dir
<1> QED BY <1>1, <1>2, <1>3, <1>4 DEF Next, Step, LoadCorrupted, BodyRaises, WriteFails

(* A running transaction works on the session that was on disk when it     *)
(* took the lock, and a save writes what the handler made of it.           *)
THEOREM LoadedCorrect == Spec => []AtomicInv
<1>1. Init => AtomicInv
  BY DEF Init, AtomicInv, LoadedInv, Saving
<1>2. TypeOK /\ LockExclusive /\ TransactionInv /\ AtomicInv /\ [Next]_vars => AtomicInv'
  BY AtomicInvStep
<1> QED BY <1>1, <1>2, TypeCorrect, LockCorrect, TransactionCorrect, PTL DEF Spec

-----------------------------------------------------------------------------
(* The refinement.  The abstract module has its own copy of SessionTx.     *)

LEMMA SameTx ==
    ASSUME NEW s, NEW h
    PROVE  /\ Atomic!After(s, h) = After(s, h)
           /\ Atomic!Raises(s, h) = Raises(s, h)
           /\ Atomic!AnswerOf(s, h) = AnswerOf(s, h)
           /\ Atomic!FailAnswer(h) = FailAnswer(h)
           /\ Atomic!Hook = Hook
           /\ Atomic!NoHook = NoHook
           /\ Atomic!EmptySession = EmptySession
<1>1. Atomic!After(s, h) = After(s, h)
  BY DEF Atomic!After, After, Atomic!PromptSubmitted, PromptSubmitted, Atomic!PreToolUsed, PreToolUsed,
         Atomic!PostToolUsed, PostToolUsed, Atomic!Stopped, Stopped, Atomic!Register, Register,
         Atomic!EventOf, EventOf, Atomic!Blocks, Blocks, Atomic!Recorded, Recorded,
         Atomic!Verified, Verified, Atomic!Succeeded, Succeeded
<1>2. Atomic!Raises(s, h) = Raises(s, h)
  BY DEF Atomic!Raises, Raises, Atomic!Recorded, Recorded
<1>3. Atomic!AnswerOf(s, h) = AnswerOf(s, h)
  BY DEF Atomic!AnswerOf, AnswerOf, Atomic!Blocks, Blocks
<1>4. Atomic!FailAnswer(h) = FailAnswer(h)
  BY DEF Atomic!FailAnswer, FailAnswer
<1>5. Atomic!Hook = Hook
  BY DEF Atomic!Hook, Hook, Atomic!ArgsOf, ArgsOf
<1>6. Atomic!NoHook = NoHook
  BY DEF Atomic!NoHook, NoHook, Atomic!Invocation, Invocation
<1>7. Atomic!EmptySession = EmptySession
  BY DEF Atomic!EmptySession, EmptySession
<1> QED BY <1>1, <1>2, <1>3, <1>4, <1>5, <1>6, <1>7

(* The session a directory stands for while a process has its lock.        *)
LEMMA SavedIs ==
    ASSUME TypeOK, LockExclusive, AtomicInv, NEW p \in Procs, pc[p] \in Locked
    PROVE  /\ pc[p] \in {"loading", "release"} => SavedSession(Dir(p)) = SessionOn(disk[Dir(p)])
           /\ pc[p] \in {"loading", "body", "save_meta", "release"}
                 => SavedSession(Dir(p)) = SessionOn(disk[Dir(p)])
           /\ pc[p] \in {"body"} \cup Saving => SavedSession(Dir(p)) = base[p]
<1>1. lock[Dir(p)] = p /\ p # NoProc
  BY DirType, SessionFilesAssumption DEF LockExclusive, TypeOK
<1>2. LoadedInv(p)
  BY DEF AtomicInv
<1> QED BY <1>1, <1>2 DEF SavedSession, LoadedInv, Saving

(* A free directory stands for what is on disk.                            *)
LEMMA SavedFree ==
    ASSUME NEW d \in Dirs, lock[d] = NoProc
    PROVE  SavedSession(d) = SessionOn(disk[d])
BY DEF SavedSession

(* A step of one process leaves the other directories as they are.         *)
LEMMA Elsewhere ==
    ASSUME TypeOK, LockExclusive, NEW p \in Procs, NEW d \in Dirs,
           lock[d] # p, disk'[d] = disk[d], lock'[d] = lock[d],
           \A q \in Procs \ {p} : pc'[q] = pc[q] /\ creating'[q] = creating[q] /\ base'[q] = base[q]
    PROVE  SavedSession(d)' = SavedSession(d)
<1>1. CASE lock[d] = NoProc
  BY <1>1 DEF SavedSession
<1>2. CASE lock[d] # NoProc
  <2>1. lock[d] \in Procs \ {p}
    BY <1>2 DEF TypeOK
  <2> QED BY <1>2, <2>1 DEF SavedSession
<1> QED BY <1>1, <1>2

(* The abstract session of one directory changes at most.                  *)
LEMMA SessionsMapped ==
    ASSUME TypeOK, LockExclusive, NEW p \in Procs, NEW e \in Dirs, e = Dir(p),
           \A d \in Dirs \ {e} : disk'[d] = disk[d] /\ lock'[d] = lock[d],
           \A q \in Procs \ {p} : pc'[q] = pc[q] /\ creating'[q] = creating[q] /\ base'[q] = base[q]
    PROVE  [d \in Dirs |-> SavedSession(d)]' =
             [[d \in Dirs |-> SavedSession(d)] EXCEPT ![e] = SavedSession(e)']
<1>1. ASSUME NEW d \in Dirs, d # e PROVE SavedSession(d)' = SavedSession(d)
  <2>1. lock[d] # p
    BY <1>1 DEF LockExclusive
  <2> QED BY <1>1, <2>1, Elsewhere
<1> QED BY <1>1

(* The abstract stage and result of one process change at most.            *)
LEMMA StagesMapped ==
    ASSUME NEW p \in Procs,
           \A q \in Procs \ {p} : pc'[q] = pc[q] /\ answer'[q] = answer[q]
    PROVE  /\ [q \in Procs |-> StageOf(q)]' =
                [[q \in Procs |-> StageOf(q)] EXCEPT ![p] = StageOf(p)']
           /\ [q \in Procs |-> ResultOf(q)]' =
                [[q \in Procs |-> ResultOf(q)] EXCEPT ![p] = ResultOf(p)']
<1>1. ASSUME NEW q \in Procs, q # p
      PROVE  StageOf(q)' = StageOf(q) /\ ResultOf(q)' = ResultOf(q)
  BY <1>1 DEF StageOf, ResultOf
<1> QED BY <1>1

(* The initial state maps to the abstract initial state.                   *)
LEMMA AtomicInit == Init => Atomic!AInit
<1> SUFFICES ASSUME Init PROVE Atomic!AInit
  OBVIOUS
<1>1. ASSUME NEW d \in Dirs PROVE SavedSession(d) = EmptySession
  <2>1. lock[d] = NoProc /\ disk[d] = NoFiles
    BY DEF Init
  <2> QED BY <2>1 DEF SavedSession, SessionOn, NoFiles, Contents, EmptySession
<1>2. \A p \in Procs : StageOf(p) = "idle" /\ ResultOf(p) = "none"
  BY DEF Init, StageOf, ResultOf
<1> QED BY <1>1, <1>2, SameTx DEF Init, Atomic!AInit

(* What the abstract action of a step has to be shown to be, given what    *)
(* the step does to the stage, the result and the session of its process.  *)
LEMMA Mapped ==
    ASSUME TypeOK, LockExclusive, NEW p \in Procs, NEW e \in Dirs, e = Dir(p), hook' = hook,
           \A d \in Dirs \ {e} : disk'[d] = disk[d] /\ lock'[d] = lock[d],
           \A q \in Procs \ {p} : /\ pc'[q] = pc[q] /\ creating'[q] = creating[q]
                                  /\ base'[q] = base[q] /\ answer'[q] = answer[q]
    PROVE  /\ /\ StageOf(p)' = StageOf(p) /\ ResultOf(p)' = ResultOf(p)
              /\ SavedSession(e)' = SavedSession(e)
              => UNCHANGED Atomic!avars
           /\ /\ StageOf(p) = "called" /\ StageOf(p)' = "answered"
              /\ ResultOf(p)' = FailAnswer(hook[p])
              /\ SavedSession(e)' = SavedSession(e)
              => Atomic!Fail(p)
           /\ /\ StageOf(p) = "called" /\ StageOf(p)' = "applied"
              /\ ~Raises(SavedSession(e), hook[p])
              /\ ResultOf(p)' = AnswerOf(SavedSession(e), hook[p])
              /\ SavedSession(e)' = After(SavedSession(e), hook[p])
              => Atomic!TakeEffect(p)
           /\ /\ StageOf(p) = "applied" /\ StageOf(p)' = "answered"
              /\ ResultOf(p)' = ResultOf(p)
              /\ SavedSession(e)' = SavedSession(e)
              => Atomic!Return(p)
           /\ /\ StageOf(p) \in {"called", "applied"} /\ StageOf(p)' = "dead"
              /\ ResultOf(p)' = "none"
              /\ SavedSession(e)' = SavedSession(e)
              => Atomic!Die(p)
<1> DEFINE sess == [d \in Dirs |-> SavedSession(d)]
           stage == [q \in Procs |-> StageOf(q)]
           result == [q \in Procs |-> ResultOf(q)]
<1>1. sess' = [sess EXCEPT ![e] = SavedSession(e)']
  BY SessionsMapped
<1>2. /\ stage' = [stage EXCEPT ![p] = StageOf(p)']
      /\ result' = [result EXCEPT ![p] = ResultOf(p)']
  BY StagesMapped
<1>3. sess[e] = SavedSession(e) /\ stage[p] = StageOf(p) /\ result[p] = ResultOf(p)
  OBVIOUS
<1>4. /\ SavedSession(e)' = SavedSession(e) => sess' = sess
      /\ StageOf(p)' = StageOf(p) => stage' = stage
      /\ ResultOf(p)' = ResultOf(p) => result' = result
  BY <1>1, <1>2
<1>5. DirOf[hook[p].sid] = e
  BY DEF Dir
<1>6. /\ StageOf(p)' = StageOf(p) /\ ResultOf(p)' = ResultOf(p)
      /\ SavedSession(e)' = SavedSession(e)
      => UNCHANGED Atomic!avars
  BY <1>4 DEF Atomic!avars
<1>7. /\ StageOf(p) = "called" /\ StageOf(p)' = "answered"
      /\ ResultOf(p)' = FailAnswer(hook[p])
      /\ SavedSession(e)' = SavedSession(e)
      => Atomic!Fail(p)
  BY <1>2, <1>3, <1>4, SameTx DEF Atomic!Fail
<1>8. /\ StageOf(p) = "called" /\ StageOf(p)' = "applied"
      /\ ~Raises(SavedSession(e), hook[p])
      /\ ResultOf(p)' = AnswerOf(SavedSession(e), hook[p])
      /\ SavedSession(e)' = After(SavedSession(e), hook[p])
      => Atomic!TakeEffect(p)
  <2> SUFFICES ASSUME StageOf(p) = "called", StageOf(p)' = "applied",
                      ~Raises(SavedSession(e), hook[p]),
                      ResultOf(p)' = AnswerOf(SavedSession(e), hook[p]),
                      SavedSession(e)' = After(SavedSession(e), hook[p])
               PROVE  Atomic!TakeEffect(p)
    OBVIOUS
  <2>1. /\ Atomic!After(sess[e], hook[p]) = After(SavedSession(e), hook[p])
        /\ Atomic!Raises(sess[e], hook[p]) = Raises(SavedSession(e), hook[p])
        /\ Atomic!AnswerOf(sess[e], hook[p]) = AnswerOf(SavedSession(e), hook[p])
    BY <1>3, SameTx
  <2>2. stage[p] = "called" /\ ~Atomic!Raises(sess[e], hook[p])
    BY <1>3, <2>1
  <2>3. sess' = [sess EXCEPT ![e] = Atomic!After(sess[e], hook[p])]
    BY <1>1, <2>1
  <2>4. /\ stage' = [stage EXCEPT ![p] = "applied"]
        /\ result' = [result EXCEPT ![p] = Atomic!AnswerOf(sess[e], hook[p])]
    BY <1>2, <2>1
  <2> HIDE DEF sess, stage, result
  <2> QED BY <1>5, <2>2, <2>3, <2>4 DEF Atomic!TakeEffect, sess, stage, result
<1>9. /\ StageOf(p) = "applied" /\ StageOf(p)' = "answered"
      /\ ResultOf(p)' = ResultOf(p)
      /\ SavedSession(e)' = SavedSession(e)
      => Atomic!Return(p)
  BY <1>2, <1>3, <1>4 DEF Atomic!Return
<1>10. /\ StageOf(p) \in {"called", "applied"} /\ StageOf(p)' = "dead"
       /\ ResultOf(p)' = "none"
       /\ SavedSession(e)' = SavedSession(e)
       => Atomic!Die(p)
  BY <1>2, <1>3, <1>4 DEF Atomic!Die
<1> QED BY <1>6, <1>7, <1>8, <1>9, <1>10

(* An exception is the abstract Fail, unless part of a save is on disk.    *)
LEMMA RaiseMaps ==
    ASSUME TypeOK, LockExclusive, AtomicInv, NEW p \in Procs, Raise(p),
           pc[p] \in {"loading", "body", "save_meta"}
    PROVE  Atomic!Fail(p)
<1>1. PICK e \in Dirs : e = Dir(p)
  BY DirType DEF TypeOK
<1>2. /\ hook' = hook /\ disk' = disk /\ lock' = [lock EXCEPT ![e] = NoProc]
      /\ pc' = [pc EXCEPT ![p] = "done"] /\ answer' = [answer EXCEPT ![p] = FailAnswer(hook[p])]
      /\ creating' = creating /\ base' = base
  BY <1>1 DEF Raise, Goto
<1>3. /\ \A d \in Dirs \ {e} : disk'[d] = disk[d] /\ lock'[d] = lock[d]
      /\ \A q \in Procs \ {p} : /\ pc'[q] = pc[q] /\ creating'[q] = creating[q]
                                /\ base'[q] = base[q] /\ answer'[q] = answer[q]
  BY <1>2 DEF TypeOK
<1>4. /\ StageOf(p) = "called" /\ StageOf(p)' = "answered"
      /\ ResultOf(p)' = FailAnswer(hook[p])
  BY <1>2 DEF StageOf, ResultOf, TypeOK
<1>5. SavedSession(e) = SessionOn(disk[e])
  BY <1>1, SavedIs DEF Locked, Saving
<1>6. SavedSession(e)' = SessionOn(disk[e])
  BY <1>2 DEF SavedSession, TypeOK
<1> QED BY <1>1, <1>2, <1>3, <1>4, <1>5, <1>6, Mapped

(* The last write of a save is the abstract TakeEffect; a write that is    *)
(* not the last one changes nothing abstract.                              *)
LEMMA WriteMaps ==
    ASSUME TypeOK, TypeOK', LockExclusive, LockExclusive', TransactionInv, AtomicInv, AtomicInv',
           NEW p \in Procs, WriteMeta(p) \/ WriteLedger(p) \/ WriteTrace(p) \/ WriteReport(p)
    PROVE  Atomic!TakeEffect(p) \/ UNCHANGED Atomic!avars
<1>1. PICK e \in Dirs : e = Dir(p)
  BY DirType DEF TypeOK
<1>2. /\ hook' = hook /\ lock' = lock /\ answer' = answer /\ base' = base /\ tx' = tx
      /\ pc[p] \in Saving /\ pc'[p] \in {"body", "release"} \cup Saving
      /\ Dir(p)' = e
      /\ \A q \in Procs \ {p} : pc'[q] = pc[q] /\ creating'[q] = creating[q]
  BY <1>1 DEF WriteMeta, WriteLedger, WriteTrace, WriteReport, Goto, TypeOK, Saving, Dir
<1>3. \A d \in Dirs \ {e} : disk'[d] = disk[d]
  BY <1>1, FilesWritten
<1>4. StageOf(p) = "called" /\ ResultOf(p) = "none" /\ SavedSession(e) = base[p]
  BY <1>1, <1>2, SavedIs DEF StageOf, ResultOf, Saving, Locked
<1>5. CASE pc'[p] # "release"
  <2>1. StageOf(p)' = "called" /\ ResultOf(p)' = "none"
    BY <1>2, <1>5 DEF StageOf, ResultOf, Saving
  <2>2. lock'[e] = p /\ p # NoProc
    BY <1>1, <1>2, SessionFilesAssumption DEF LockExclusive, Locked
  <2>3. LoadedInv(p)'
    BY DEF AtomicInv
  <2>4. SavedSession(e)' = base[p]
    BY <1>2, <1>5, <2>2, <2>3 DEF SavedSession, LoadedInv
  <2> QED BY <1>1, <1>2, <1>3, <1>4, <2>1, <2>4, Mapped
<1>6. CASE pc'[p] = "release"
  <2> DEFINE old == SessionOn(disk[e])
             new == SessionOn(disk'[e])
             b == base[p]
             t == tx[p]
  <2>1. ~creating[p] /\ (\/ WriteTrace(p) /\ t.report = NoArg
                         \/ WriteReport(p) /\ t.report # NoArg)
    BY <1>6 DEF WriteMeta, WriteLedger, WriteTrace, WriteReport, Goto, TypeOK,
                TransactionInv, SaveInv, Saving, Over
  <2>2. b \in Session /\ t \in Session /\ hook[p] \in Hook
    BY DEF TypeOK
  <2>3. /\ ~Raises(b, hook[p]) /\ t = After([b EXCEPT !.report = NoArg], hook[p])
        /\ answer[p] = AnswerOf(b, hook[p]) /\ old.report = b.report
    BY <1>1, <1>2, <2>1 DEF AtomicInv, LoadedInv
  <2>4. After(b, hook[p]) = [meta |-> t.meta, ledger |-> t.ledger, trace |-> t.trace,
                             report |-> IF t.report = NoArg THEN b.report ELSE t.report]
    BY <2>2, <2>3, AfterReport
  <2>5. old.meta = t.meta /\ old.ledger = t.ledger /\ (WriteReport(p) => old.trace = t.trace)
    <3>1. /\ disk[e].meta = t.meta /\ disk[e].ledger = t.ledger
          /\ WriteReport(p) => disk[e].trace = t.trace
      BY <1>1, <2>1 DEF TransactionInv, SaveInv, InTransaction, Saving, WriteTrace, WriteReport
    <3> QED BY <2>2, <3>1, NotMissing DEF SessionOn, Contents
  <2>6. ASSUME WriteTrace(p), t.report = NoArg PROVE new = After(b, hook[p])
    <3>1. new = [meta |-> old.meta, ledger |-> old.ledger, trace |-> t.trace, report |-> old.report]
      BY <1>1, <2>6, StepWritten
    <3> HIDE DEF old, new, b, t
    <3> QED BY <2>3, <2>4, <2>5, <2>6, <3>1
  <2>7. ASSUME WriteReport(p), t.report # NoArg PROVE new = After(b, hook[p])
    <3>1. new = [meta |-> old.meta, ledger |-> old.ledger, trace |-> old.trace, report |-> t.report]
      BY <1>1, <2>7, StepWritten
    <3> HIDE DEF old, new, b, t
    <3> QED BY <2>4, <2>5, <2>7, <3>1
  <2>8. new = After(b, hook[p])
    BY <2>1, <2>6, <2>7
  <2>9. StageOf(p)' = "applied" /\ ResultOf(p)' = AnswerOf(b, hook[p])
    BY <1>2, <1>6, <2>3 DEF StageOf, ResultOf
  <2>10. SavedSession(e)' = new
    <3>1. lock'[e] = p
      BY <1>1, <1>2, <1>6 DEF LockExclusive, Locked
    <3> QED BY <1>6, <3>1 DEF SavedSession, Saving
  <2> HIDE DEF old, new
  <2> QED BY <1>1, <1>2, <1>3, <1>4, <2>3, <2>8, <2>9, <2>10, Mapped
<1> QED BY <1>5, <1>6

(* Every step of the hook processes is a step of the abstract store or     *)
(* changes nothing abstract.                                               *)
LEMMA StepMaps ==
    ASSUME SavesComplete, TypeOK, TypeOK', LockExclusive, LockExclusive',
           TransactionInv, AtomicInv, AtomicInv', [Next]_vars
    PROVE  Atomic!ANext \/ UNCHANGED Atomic!avars
<1>0. /\ \A p \in Procs : Dir(p) \in Dirs
      /\ KillPoints \subseteq {"waiting", "loading", "body", "save_meta", "release"}
      /\ FailPoints \subseteq {"save_meta"}
  BY DirType, SessionFilesAssumption DEF TypeOK, SavesComplete, Running, Locked
<1>1. ASSUME NEW p \in Procs, Arrive(p) PROVE Atomic!ANext
  <2>1. PICK h \in Hook : Start(p, h)
    BY <1>1 DEF Arrive
  <2>2. /\ disk' = disk /\ lock' = lock /\ answer' = answer /\ creating' = creating /\ base' = base
        /\ pc[p] = "idle" /\ pc' = [pc EXCEPT ![p] = "waiting"] /\ hook' = [hook EXCEPT ![p] = h]
    BY <2>1 DEF Start, Goto
  <2>3. ASSUME NEW d \in Dirs PROVE SavedSession(d)' = SavedSession(d)
    <3>1. lock[d] # p
      BY <2>2 DEF LockExclusive, Locked, Saving
    <3>2. \A q \in Procs \ {p} : pc'[q] = pc[q] /\ creating'[q] = creating[q] /\ base'[q] = base[q]
      BY <2>2 DEF TypeOK
    <3> QED BY <2>2, <3>1, <3>2, Elsewhere
  <2>4. /\ StageOf(p) = "idle" /\ StageOf(p)' = "called"
        /\ ResultOf(p)' = ResultOf(p)
        /\ \A q \in Procs \ {p} : StageOf(q)' = StageOf(q) /\ ResultOf(q)' = ResultOf(q)
    BY <2>2 DEF StageOf, ResultOf, TypeOK
  <2>5. Atomic!Call(p, h)
    BY <2>2, <2>3, <2>4 DEF Atomic!Call
  <2> QED BY <2>5, SameTx DEF Atomic!ANext
<1>2. ASSUME NEW p \in Procs, Acquire(p) PROVE UNCHANGED Atomic!avars
  <2>1. /\ hook' = hook /\ disk' = disk /\ answer' = answer /\ creating' = creating /\ base' = base
        /\ lock[Dir(p)] = NoProc /\ lock' = [lock EXCEPT ![Dir(p)] = p]
        /\ pc[p] = "waiting" /\ pc' = [pc EXCEPT ![p] = "loading"]
    BY <1>2 DEF Acquire, Goto
  <2>2. PICK e \in Dirs : e = Dir(p)
    BY <1>0
  <2>3. StageOf(p)' = StageOf(p) /\ ResultOf(p)' = ResultOf(p)
    BY <2>1 DEF StageOf, ResultOf, TypeOK
  <2>4. SavedSession(e)' = SavedSession(e)
    BY <2>1, <2>2 DEF SavedSession, TypeOK, Saving
  <2>5. /\ \A d \in Dirs \ {e} : disk'[d] = disk[d] /\ lock'[d] = lock[d]
        /\ \A q \in Procs \ {p} : /\ pc'[q] = pc[q] /\ creating'[q] = creating[q]
                                  /\ base'[q] = base[q] /\ answer'[q] = answer[q]
    BY <2>1, <2>2 DEF TypeOK
  <2> QED BY <2>1, <2>2, <2>3, <2>4, <2>5, Mapped
<1>3. ASSUME NEW p \in Procs, TimeOut(p) PROVE Atomic!Fail(p)
  <2>1. /\ hook' = hook /\ disk' = disk /\ lock' = lock /\ creating' = creating /\ base' = base
        /\ pc[p] = "waiting" /\ pc' = [pc EXCEPT ![p] = "done"]
        /\ answer' = [answer EXCEPT ![p] = FailAnswer(hook[p])]
    BY <1>3 DEF TimeOut, Goto
  <2>2. PICK e \in Dirs : e = Dir(p)
    BY <1>0
  <2>3. /\ StageOf(p) = "called" /\ StageOf(p)' = "answered"
        /\ ResultOf(p)' = FailAnswer(hook[p])
    BY <2>1 DEF StageOf, ResultOf, TypeOK
  <2>4. lock[e] # p
    BY <2>1, <2>2 DEF LockExclusive, Locked, Saving
  <2>5. /\ \A d \in Dirs \ {e} : disk'[d] = disk[d] /\ lock'[d] = lock[d]
        /\ \A q \in Procs \ {p} : /\ pc'[q] = pc[q] /\ creating'[q] = creating[q]
                                  /\ base'[q] = base[q] /\ answer'[q] = answer[q]
    BY <2>1 DEF TypeOK
  <2>6. SavedSession(e)' = SavedSession(e)
    BY <2>1, <2>4, <2>5, Elsewhere
  <2> QED BY <2>1, <2>2, <2>3, <2>5, <2>6, Mapped
<1>4. ASSUME NEW p \in Procs, LoadCorrupted(p) \/ BodyRaises(p) \/ WriteFails(p)
      PROVE Atomic!Fail(p)
  BY <1>0, <1>4, RaiseMaps DEF LoadCorrupted, BodyRaises, WriteFails
<1>5. ASSUME NEW p \in Procs, LoadSession(p) \/ RunBody(p) PROVE UNCHANGED Atomic!avars
  <2>1. /\ hook' = hook /\ disk' = disk /\ lock' = lock
        /\ pc[p] \in {"loading", "body"} /\ pc'[p] \in {"body", "save_meta"}
    BY <1>5 DEF LoadSession, RunBody, Goto, TypeOK
  <2>2. PICK e \in Dirs : e = Dir(p)
    BY <1>0
  <2>3. StageOf(p)' = StageOf(p) /\ ResultOf(p)' = ResultOf(p)
    BY <2>1 DEF StageOf, ResultOf
  <2>4. SavedSession(e) = SessionOn(disk[e])
    BY <2>1, <2>2, SavedIs DEF Locked
  <2>5. lock'[e] = p /\ p # NoProc
    BY <2>1, <2>2, SessionFilesAssumption DEF LockExclusive, Locked
  <2>6. LoadedInv(p)' /\ Dir(p)' = e
    BY <2>1, <2>2 DEF AtomicInv, Dir
  <2>7. SavedSession(e)' = SessionOn(disk[e])
    BY <2>1, <2>5, <2>6 DEF SavedSession, LoadedInv
  <2>8. /\ \A d \in Dirs \ {e} : disk'[d] = disk[d] /\ lock'[d] = lock[d]
        /\ \A q \in Procs \ {p} : /\ pc'[q] = pc[q] /\ creating'[q] = creating[q]
                                  /\ base'[q] = base[q] /\ answer'[q] = answer[q]
    BY <1>5 DEF LoadSession, RunBody, Goto, TypeOK
  <2> QED BY <2>1, <2>2, <2>3, <2>4, <2>7, <2>8, Mapped
<1>6. ASSUME NEW p \in Procs, WriteMeta(p) \/ WriteLedger(p) \/ WriteTrace(p) \/ WriteReport(p)
      PROVE Atomic!TakeEffect(p) \/ UNCHANGED Atomic!avars
  BY <1>6, WriteMaps
<1>7. ASSUME NEW p \in Procs, Release(p) PROVE Atomic!Return(p)
  <2>1. /\ hook' = hook /\ disk' = disk /\ answer' = answer /\ creating' = creating /\ base' = base
        /\ lock' = [lock EXCEPT ![Dir(p)] = NoProc]
        /\ pc[p] = "release" /\ pc' = [pc EXCEPT ![p] = "done"]
    BY <1>7 DEF Release, Goto
  <2>2. PICK e \in Dirs : e = Dir(p)
    BY <1>0
  <2>3. /\ StageOf(p) = "applied" /\ StageOf(p)' = "answered"
        /\ ResultOf(p)' = ResultOf(p)
    BY <2>1 DEF StageOf, ResultOf, TypeOK
  <2>4. SavedSession(e) = SessionOn(disk[e])
    BY <2>1, <2>2, SavedIs DEF Locked
  <2>5. SavedSession(e)' = SessionOn(disk[e])
    BY <2>1, <2>2 DEF SavedSession, TypeOK
  <2>6. /\ \A d \in Dirs \ {e} : disk'[d] = disk[d] /\ lock'[d] = lock[d]
        /\ \A q \in Procs \ {p} : /\ pc'[q] = pc[q] /\ creating'[q] = creating[q]
                                  /\ base'[q] = base[q] /\ answer'[q] = answer[q]
    BY <2>1, <2>2 DEF TypeOK
  <2> QED BY <2>1, <2>2, <2>3, <2>4, <2>5, <2>6, Mapped
<1>8. ASSUME NEW p \in Procs, Kill(p) PROVE Atomic!Die(p)
  <2>1. PICK e \in Dirs : e = Dir(p)
    BY <1>0
  <2>2. /\ hook' = hook /\ disk' = disk /\ creating' = creating /\ base' = base
        /\ lock' = [lock EXCEPT ![e] = IF lock[e] = p THEN NoProc ELSE lock[e]]
        /\ pc[p] \in {"waiting", "loading", "body", "save_meta", "release"}
        /\ pc' = [pc EXCEPT ![p] = "dead"]
    BY <1>0, <1>8, <2>1 DEF Kill, Goto
  <2>3. /\ \A d \in Dirs \ {e} : disk'[d] = disk[d] /\ lock'[d] = lock[d]
        /\ \A q \in Procs \ {p} : /\ pc'[q] = pc[q] /\ creating'[q] = creating[q]
                                  /\ base'[q] = base[q] /\ answer'[q] = answer[q]
    BY <1>8, <2>2 DEF Kill, TypeOK
  <2>4. StageOf(p) \in {"called", "applied"} /\ StageOf(p)' = "dead" /\ ResultOf(p)' = "none"
    BY <2>2 DEF StageOf, ResultOf, TypeOK
  <2>5. SavedSession(e)' = SavedSession(e)
    <3>1. CASE pc[p] \in Locked
      <4>1. SavedSession(e) = SessionOn(disk[e])
        BY <2>1, <2>2, <3>1, SavedIs DEF Saving, Locked
      <4>2. lock'[e] = NoProc
        BY <2>1, <2>2, <3>1 DEF LockExclusive, TypeOK
      <4> QED BY <2>2, <4>1, <4>2 DEF SavedSession
    <3>2. CASE pc[p] \notin Locked
      <4>1. lock[e] # p /\ lock'[e] = lock[e]
        BY <2>1, <2>2, <3>2 DEF LockExclusive, TypeOK
      <4> QED BY <2>2, <2>3, <4>1, Elsewhere
    <3> QED BY <3>1, <3>2
  <2> QED BY <2>1, <2>2, <2>3, <2>4, <2>5, Mapped
<1>9. CASE UNCHANGED vars
  <2>1. /\ \A d \in Dirs : SavedSession(d)' = SavedSession(d)
        /\ \A p \in Procs : StageOf(p)' = StageOf(p) /\ ResultOf(p)' = ResultOf(p)
        /\ hook' = hook
    BY <1>9 DEF vars, SavedSession, StageOf, ResultOf
  <2> QED BY <2>1 DEF Atomic!avars
<1>10. ASSUME NEW p \in Procs, Arrive(p) \/ Step(p) \/ WriteFails(p) \/ Kill(p)
       PROVE  Atomic!ANext \/ UNCHANGED Atomic!avars
  BY <1>1, <1>2, <1>3, <1>4, <1>5, <1>6, <1>7, <1>8, <1>10 DEF Step, Atomic!ANext
<1> QED BY <1>9, <1>10 DEF Next

(* When no save is interrupted half way, the hook processes behave as      *)
(* atomic transactions on their sessions, for any number of processes      *)
(* ("read-modify-write session transaction", session_transaction).         *)
THEOREM Atomicity == ASSUME SavesComplete PROVE Spec => ImplementsAtomic
<1>1. Init => Atomic!AInit
  BY AtomicInit
<1>2. ASSUME TypeOK, TypeOK', LockExclusive, LockExclusive',
             TransactionInv, AtomicInv, AtomicInv', [Next]_vars
      PROVE  [Atomic!ANext]_(Atomic!avars)
  BY <1>2, StepMaps
<1> QED
  BY <1>1, <1>2, TypeCorrect, LockCorrect, TransactionCorrect, LoadedCorrect, PTL
  DEF Spec, ImplementsAtomic, Atomic!ASpec

-----------------------------------------------------------------------------
(***************************************************************************)
(* What an allowed action knew.  A prompt marked processed has its         *)
(* constraints in the ledger, except while its save stands between the two *)
(* files and for good when it was stopped there.                           *)
(***************************************************************************)

(* The constraints any prompt may put into a ledger.                       *)
Extracted == UNION {Members(Extract[x]) : x \in Prompts}

(* Constraints with the same description and scope are the same: the case  *)
(* the run dedup shows is left out.                                       *)
SameStrength == \A c, d \in Extracted : c.body = d.body => c = d

Stored(ledger, x) == Members(Extract[x]) \subseteq ledger

(* The body of p's handler has run, and its transaction has not ended.     *)
AfterBody(p) == pc[p] = "release" \/ (pc[p] \in Saving /\ ~creating[p])

(* Prompt x was answered, for the session of p, before p was started.      *)
Prompted(p, x) ==
    \E q \in before[p] : /\ Acknowledged(q) /\ hook[q].kind = "UserPromptSubmit"
                         /\ Dir(q) = Dir(p) /\ hook[q].arg = x

(* The save of prompt x is between meta.json and ledger.json.              *)
Storing(p, d, x) ==
    pc[p] = "save_ledger" /\ Dir(p) = d /\ hook[p].kind = "UserPromptSubmit" /\ hook[p].arg = x

HistoryInv ==
    \A p \in Procs : /\ stop[p] # "none" => pc[p] \in Over
                     /\ before[p] \subseteq {q \in Procs : pc[q] = "done"}

LedgersInv ==
    /\ \A d \in Dirs : SessionOn(disk[d]).ledger \subseteq Extracted
    /\ \A p \in Procs : tx[p].ledger \subseteq Extracted

MarkedInv(d) ==
    \A x \in SessionOn(disk[d]).meta :
        \/ x \in Torn(d)
        \/ Stored(SessionOn(disk[d]).ledger, x)
        \/ \E p \in Procs : Storing(p, d, x)

RecallInv(p) ==
    /\ pc[p] \in InTransaction =>
          /\ \A x \in tx[p].meta : x \in Torn(Dir(p)) \/ Stored(tx[p].ledger, x)
          /\ \A x \in Prompts : Prompted(p, x) => x \in tx[p].meta
    /\ hook[p].kind = "UserPromptSubmit" =>
          /\ AfterBody(p) => hook[p].arg \in tx[p].meta
          /\ Acknowledged(p) => hook[p].arg \in SessionOn(disk[Dir(p)]).meta
    /\ hook[p].kind = "PreToolUse" /\ answer[p] = "allow" /\ (AfterBody(p) \/ Acknowledged(p)) =>
          \A x \in Prompts : Prompted(p, x) =>
              x \in Torn(Dir(p)) \/ ~Blocks(Members(Extract[x]), hook[p].arg)

PromptInv ==
    /\ HistoryInv /\ LedgersInv
    /\ \A d \in Dirs : MarkedInv(d)
    /\ \A p \in Procs : RecallInv(p)

-----------------------------------------------------------------------------

(* A process that is over stays as it is.                                  *)
LEMMA OverStays ==
    ASSUME TypeOK, [Next]_vars, NEW r \in Procs, pc[r] \in Over
    PROVE  /\ pc'[r] = pc[r] /\ stop'[r] = stop[r] /\ hook'[r] = hook[r] /\ answer'[r] = answer[r]
           /\ before'[r] = before[r]
<1> USE DEF Goto, TypeOK
<1>0. pc[r] \notin {"idle"} \cup Running
  BY DEF Over, Running, Locked, Saving
<1>1. ASSUME NEW p \in Procs, Arrive(p)
      PROVE  /\ pc'[r] = pc[r] /\ stop'[r] = stop[r] /\ hook'[r] = hook[r] /\ answer'[r] = answer[r]
             /\ before'[r] = before[r]
  BY <1>0, <1>1 DEF Arrive, Start
<1>2. ASSUME NEW p \in Procs, Acquire(p) \/ TimeOut(p) \/ Release(p) \/ Kill(p)
      PROVE  /\ pc'[r] = pc[r] /\ stop'[r] = stop[r] /\ hook'[r] = hook[r] /\ answer'[r] = answer[r]
             /\ before'[r] = before[r]
  <2>1. p # r
    BY <1>0, <1>2, SessionFilesAssumption DEF Acquire, TimeOut, Release, Kill, Running, Locked
  <2> QED BY <1>2, <2>1 DEF Acquire, TimeOut, Release, Kill
<1>3. ASSUME NEW p \in Procs, LoadCorrupted(p) \/ BodyRaises(p) \/ WriteFails(p)
      PROVE  /\ pc'[r] = pc[r] /\ stop'[r] = stop[r] /\ hook'[r] = hook[r] /\ answer'[r] = answer[r]
             /\ before'[r] = before[r]
  <2>1. p # r
    BY <1>0, <1>3, SessionFilesAssumption DEF LoadCorrupted, BodyRaises, WriteFails, Running, Locked
  <2> QED BY <1>3, <2>1 DEF LoadCorrupted, BodyRaises, WriteFails, Raise
<1>4. ASSUME NEW p \in Procs,
             LoadSession(p) \/ RunBody(p) \/ WriteMeta(p) \/ WriteLedger(p) \/ WriteTrace(p) \/ WriteReport(p)
      PROVE  /\ pc'[r] = pc[r] /\ stop'[r] = stop[r] /\ hook'[r] = hook[r] /\ answer'[r] = answer[r]
             /\ before'[r] = before[r]
  <2>1. p # r
    BY <1>0, <1>4 DEF LoadSession, RunBody, WriteMeta, WriteLedger, WriteTrace, WriteReport,
                      Running, Locked, Saving
  <2> QED BY <1>4, <2>1 DEF LoadSession, RunBody, WriteMeta, WriteLedger, WriteTrace, WriteReport
<1>5. CASE UNCHANGED vars
  BY <1>5 DEF vars
<1> QED BY <1>1, <1>2, <1>3, <1>4, <1>5 DEF Next, Step

(* A prompt whose save was stopped between the two files stays so.         *)
LEMMA TornGrows ==
    ASSUME TypeOK, HistoryInv, [Next]_vars, NEW d \in Dirs
    PROVE  Torn(d) \subseteq Torn(d)'
<1> SUFFICES ASSUME NEW q \in Procs, stop[q] = "save_ledger",
                    hook[q].kind = "UserPromptSubmit", Dir(q) = d
             PROVE  hook[q].arg \in Torn(d)'
  BY DEF Torn
<1>1. pc[q] \in Over
  BY DEF HistoryInv
<1>2. stop'[q] = stop[q] /\ hook'[q] = hook[q]
  BY <1>1, OverStays
<1> QED BY <1>2 DEF Torn, Dir

LEMMA TornStays ==
    ASSUME TypeOK, HistoryInv, [Next]_vars, NEW p \in Procs, hook'[p] = hook[p]
    PROVE  Torn(Dir(p)) \subseteq Torn(Dir(p))'
<1>1. Dir(p) \in Dirs /\ Dir(p)' = Dir(p)
  BY DirType DEF TypeOK, Dir
<1>2. PICK d \in Dirs : d = Dir(p)
  BY <1>1
<1>3. Torn(d) \subseteq Torn(d)'
  BY TornGrows
<1>4. Torn(Dir(p)) = Torn(d) /\ Torn(Dir(p))' = Torn(d)'
  BY <1>1, <1>2 DEF Torn
<1> QED BY <1>3, <1>4

(* What was answered before a process started does not change.             *)
LEMMA PromptedStays ==
    ASSUME TypeOK, HistoryInv, [Next]_vars, NEW p \in Procs, NEW x,
           before'[p] = before[p], hook'[p] = hook[p], Prompted(p, x)'
    PROVE  Prompted(p, x)
<1>1. PICK q \in before'[p] : /\ Acknowledged(q)' /\ hook'[q].kind = "UserPromptSubmit"
                              /\ Dir(q)' = Dir(p)' /\ hook'[q].arg = x
  BY DEF Prompted
<1>2. q \in before[p] /\ q \in Procs /\ pc[q] = "done"
  BY <1>1 DEF HistoryInv
<1>3. pc'[q] = pc[q] /\ stop'[q] = stop[q] /\ hook'[q] = hook[q]
  BY <1>2, OverStays DEF Over
<1>4. Acknowledged(q) /\ hook[q].kind = "UserPromptSubmit" /\ Dir(q) = Dir(p) /\ hook[q].arg = x
  BY <1>1, <1>3 DEF Acknowledged, Dir
<1> QED BY <1>2, <1>4 DEF Prompted

(* The history variables say what happened.                                *)
LEMMA HistoryStep ==
    ASSUME TypeOK, HistoryInv, [Next]_vars
    PROVE  HistoryInv'
<1> USE DEF Goto, TypeOK
<1>1. \A q \in Procs : pc[q] = "done" => pc'[q] = "done"
  BY OverStays DEF Over
<1>2. ASSUME NEW r \in Procs, stop'[r] # "none"
      PROVE  pc'[r] \in Over
  <2>1. CASE stop[r] # "none"
    <3>1. pc[r] \in Over
      BY <2>1 DEF HistoryInv
    <3> QED BY <3>1, OverStays
  <2>2. CASE stop[r] = "none"
    BY <1>2, <2>2
    DEF Next, Step, vars, Arrive, Start, Acquire, TimeOut, LoadCorrupted, LoadSession,
        RunBody, BodyRaises, Raise, WriteMeta, WriteLedger, WriteTrace, WriteReport, Release,
        WriteFails, Kill, Over
  <2> QED BY <2>1, <2>2
<1>3. ASSUME NEW r \in Procs
      PROVE  before'[r] \subseteq {q \in Procs : pc[q] = "done"}
  <2>1. before[r] \subseteq {q \in Procs : pc[q] = "done"}
    BY DEF HistoryInv
  <2>2. before'[r] = before[r] \/ before'[r] = {q \in Procs : pc[q] = "done"}
    BY DEF Next, Step, vars, Arrive, Start, Acquire, TimeOut, LoadCorrupted, LoadSession,
           RunBody, BodyRaises, Raise, WriteMeta, WriteLedger, WriteTrace, WriteReport, Release,
           WriteFails, Kill
  <2> QED BY <2>1, <2>2
<1>4. \A r \in Procs : before'[r] \subseteq {q \in Procs : pc'[q] = "done"}
  BY <1>1, <1>3
<1> QED BY <1>2, <1>4 DEF HistoryInv

-----------------------------------------------------------------------------

(* A nonempty set of positions has a first one.                            *)
LEMMA FirstPosition ==
    ASSUME NEW T \in SUBSET Nat, T # {}
    PROVE  \E n \in T : \A m \in T : ~(m < n)
<1>1. PICK n \in T : \A m \in T : ~(<<m, n>> \in OpToRel(<, Nat))
  BY NatLessThanWellFounded, WFMin
<1>2. \A m \in T : ~(m < n)
  BY <1>1 DEF OpToRel
<1> QED BY <1>2

(* When strength follows from the body, registering the constraints of a   *)
(* prompt leaves none of them out (the deduplication loop of               *)
(* handle_user_prompt_submit).                                             *)
LEMMA RegisterStores ==
    ASSUME SameStrength, NEW ledger \in SUBSET Extracted, NEW x \in Prompts
    PROVE  /\ Stored(Register(ledger, Extract[x]), x)
           /\ Register(ledger, Extract[x]) \subseteq Extracted
<1> DEFINE cs == Extract[x]
           L == Register(ledger, cs)
<1>1. cs \in Seq(Constraint) /\ Members(cs) \subseteq Extracted
  BY HookDataAssumption DEF Extracted
<1>2. ASSUME NEW i \in DOMAIN cs
      PROVE  cs[i] \in L
  <2>1. cs[i] \in Extracted
    BY <1>1 DEF Members
  <2>2. CASE \E a \in ledger : a.body = cs[i].body
    <3>1. PICK a \in ledger : a.body = cs[i].body
      BY <2>2
    <3>2. a = cs[i]
      BY <2>1, <3>1 DEF SameStrength
    <3> QED BY <3>1, <3>2 DEF Register
  <2>3. CASE \A a \in ledger : a.body # cs[i].body
    <3> DEFINE T == {j \in DOMAIN cs : cs[j].body = cs[i].body}
    <3>1. T \in SUBSET Nat /\ T # {}
      BY <1>1
    <3>2. PICK j \in T : \A m \in T : ~(m < j)
      <4> HIDE DEF T
      <4> QED BY <3>1, FirstPosition
    <3>3. \A m \in DOMAIN cs : m < j => cs[m].body # cs[j].body
      BY <3>2
    <3>4. cs[j] \in L
      BY <2>3, <3>2, <3>3 DEF Register
    <3>5. cs[j] = cs[i]
      <4>1. cs[j] \in Extracted
        BY <1>1, <3>2 DEF Members
      <4> QED BY <2>1, <3>2, <4>1 DEF SameStrength
    <3> QED BY <3>4, <3>5
  <2> QED BY <2>2, <2>3
<1>3. L \subseteq Extracted
  BY <1>1 DEF Register, Members
<1> QED BY <1>2, <1>3 DEF Stored, Members

(* The prompts a handler marks processed.                                  *)
LEMMA AfterMarks ==
    ASSUME NEW s \in Session, NEW h \in Hook
    PROVE  /\ h.kind = "UserPromptSubmit" => After(s, h).meta = s.meta \cup {h.arg}
           /\ h.kind # "UserPromptSubmit" => After(s, h).meta = s.meta
<1>1. CASE h.kind = "UserPromptSubmit"
  BY <1>1 DEF After, PromptSubmitted
<1>2. CASE h.kind = "PreToolUse"
  BY <1>2 DEF After, PreToolUsed, Session
<1>3. CASE h.kind = "PostToolUse"
  BY <1>3 DEF After, PostToolUsed, Session
<1>4. CASE h.kind = "Stop"
  BY <1>4 DEF After, Stopped, Session
<1>5. CASE h.kind = "SessionStart"
  BY <1>5 DEF After
<1> QED BY <1>1, <1>2, <1>3, <1>4, <1>5 DEF Hook

(* What a handler does to the ledger.                                      *)
LEMMA AfterStores ==
    ASSUME SameStrength, NEW s \in Session, s.ledger \subseteq Extracted, NEW h \in Hook
    PROVE  LET t == After(s, h) IN
           /\ s.ledger \subseteq t.ledger /\ t.ledger \subseteq Extracted
           /\ h.kind = "UserPromptSubmit" /\ h.arg \notin s.meta => Stored(t.ledger, h.arg)
<1>1. CASE h.kind = "UserPromptSubmit"
  <2>1. h.arg \in Prompts
    BY <1>1 DEF Hook, ArgsOf
  <2>2. After(s, h).ledger = IF h.arg \in s.meta THEN s.ledger
                             ELSE Register(s.ledger, Extract[h.arg])
    BY <1>1 DEF After, PromptSubmitted
  <2>3. /\ Stored(Register(s.ledger, Extract[h.arg]), h.arg)
        /\ Register(s.ledger, Extract[h.arg]) \subseteq Extracted
    BY <2>1, RegisterStores
  <2>4. s.ledger \subseteq Register(s.ledger, Extract[h.arg])
    BY DEF Register
  <2> QED BY <1>1, <2>1, <2>2, <2>3, <2>4
<1>2. CASE h.kind = "PreToolUse"
  BY <1>2 DEF After, PreToolUsed, Session
<1>3. CASE h.kind = "PostToolUse"
  BY <1>3 DEF After, PostToolUsed, Session
<1>4. CASE h.kind = "Stop"
  BY <1>4 DEF After, Stopped, Session
<1>5. CASE h.kind = "SessionStart"
  BY <1>5 DEF After
<1> QED BY <1>1, <1>2, <1>3, <1>4, <1>5 DEF Hook
-----------------------------------------------------------------------------

(* A step that leaves process q alone keeps what is known of q.            *)
LEMMA RecallKept ==
    ASSUME TypeOK, TransactionInv, HistoryInv, [Next]_vars, NEW q \in Procs, RecallInv(q),
           pc'[q] = pc[q], hook'[q] = hook[q], tx'[q] = tx[q], creating'[q] = creating[q],
           answer'[q] = answer[q], before'[q] = before[q], stop'[q] = stop[q]
    PROVE  RecallInv(q)'
<1>1. Dir(q) \in Dirs /\ Dir(q)' = Dir(q)
  BY DirType DEF TypeOK, Dir
<1>2. Torn(Dir(q)) \subseteq Torn(Dir(q))'
  BY TornStays
<1>3. \A x \in Prompts : Prompted(q, x)' => Prompted(q, x)
  BY PromptedStays
<1>4. SessionOn(disk[Dir(q)]).meta \subseteq SessionOn(disk'[Dir(q)]).meta
  BY <1>1, FilesStep DEF Grown
<1>5. AfterBody(q)' = AfterBody(q) /\ Acknowledged(q)' = Acknowledged(q)
  BY DEF AfterBody, Acknowledged
<1> QED BY <1>1, <1>2, <1>3, <1>4, <1>5 DEF RecallInv

(* A prompt being stored is stored, stopped or still being stored after a  *)
(* step of another process, and a prompt that is marked stays so.          *)
LEMMA MarkedKept ==
    ASSUME TypeOK, TransactionInv, HistoryInv, [Next]_vars, NEW d \in Dirs, NEW x,
           \/ x \in Torn(d)
           \/ Stored(SessionOn(disk[d]).ledger, x)
           \/ \E p \in Procs : Storing(p, d, x) /\ ~WriteLedger(p)
    PROVE  \/ x \in Torn(d)'
           \/ Stored(SessionOn(disk'[d]).ledger, x)
           \/ \E p \in Procs : Storing(p, d, x)'
<1>1. CASE x \in Torn(d)
  BY <1>1, TornGrows
<1>2. CASE Stored(SessionOn(disk[d]).ledger, x)
  BY <1>2, FilesStep DEF Grown, Stored
<1>3. ASSUME NEW p \in Procs, Storing(p, d, x), ~WriteLedger(p)
      PROVE  x \in Torn(d)' \/ Storing(p, d, x)'
  <2>1. pc[p] = "save_ledger" /\ Dir(p) = d /\ hook[p].kind = "UserPromptSubmit" /\ hook[p].arg = x
    BY <1>3 DEF Storing
  <2>2. hook'[p] = hook[p]
    BY <2>1, HowToSave
  <2>3. pc'[p] = pc[p] \/ stop'[p] = "save_ledger"
    <3> USE DEF Goto, TypeOK
    <3>1. ASSUME NEW r \in Procs, Arrive(r) \/ Acquire(r) \/ TimeOut(r) \/ Release(r) \/ Kill(r)
          PROVE  pc'[p] = pc[p] \/ stop'[p] = "save_ledger"
      BY <2>1, <3>1 DEF Arrive, Start, Acquire, TimeOut, Release, Kill
    <3>2. ASSUME NEW r \in Procs, Raise(r)
          PROVE  pc'[p] = pc[p] \/ stop'[p] = "save_ledger"
      BY <2>1, <3>2 DEF Raise
    <3>3. ASSUME NEW r \in Procs, LoadSession(r) \/ RunBody(r)
          PROVE  pc'[p] = pc[p]
      <4>1. r # p
        BY <2>1, <3>3 DEF LoadSession, RunBody
      <4> QED BY <3>3, <4>1 DEF LoadSession, RunBody
    <3>4. ASSUME NEW r \in Procs, WriteMeta(r) \/ WriteLedger(r) \/ WriteTrace(r) \/ WriteReport(r)
          PROVE  pc'[p] = pc[p]
      <4>1. r # p
        BY <1>3, <2>1, <3>4 DEF WriteMeta, WriteTrace, WriteReport
      <4> QED BY <3>4, <4>1 DEF WriteMeta, WriteLedger, WriteTrace, WriteReport
    <3>5. CASE UNCHANGED vars
      BY <3>5 DEF vars
    <3> QED BY <3>1, <3>2, <3>3, <3>4, <3>5 DEF Next, Step, LoadCorrupted, BodyRaises, WriteFails
  <2>4. Dir(p)' = d
    BY <2>1, <2>2 DEF Dir
  <2>5. CASE pc'[p] = pc[p]
    BY <2>1, <2>2, <2>4, <2>5 DEF Storing
  <2>6. CASE stop'[p] = "save_ledger"
    BY <2>1, <2>2, <2>4, <2>6 DEF Torn
  <2> QED BY <2>3, <2>5, <2>6
<1> QED BY <1>1, <1>2, <1>3

(* Storing the ledger.                                                     *)
LEMMA LedgerMarked ==
    ASSUME TypeOK, LockExclusive, TransactionInv, PromptInv, [Next]_vars,
           NEW p \in Procs, WriteLedger(p), NEW x \in SessionOn(disk[Dir(p)]).meta
    PROVE  x \in Torn(Dir(p))' \/ Stored(SessionOn(disk'[Dir(p)]).ledger, x)
<1> DEFINE old == SessionOn(disk[Dir(p)])
<1>1. Dir(p) \in Dirs /\ tx[p] \in Session /\ pc[p] = "save_ledger"
  BY DirType DEF TypeOK, WriteLedger
<1>2. SessionOn(disk'[Dir(p)]) =
        [meta |-> old.meta, ledger |-> tx[p].ledger, trace |-> old.trace, report |-> old.report]
  BY StepWritten
<1>3. old.meta = tx[p].meta
  <2>1. disk[Dir(p)].meta = tx[p].meta
    BY <1>1 DEF TransactionInv, SaveInv, InTransaction, Saving
  <2> QED BY <1>1, <2>1, NotMissing DEF SessionOn, Contents
<1>4. x \in Torn(Dir(p)) \/ Stored(tx[p].ledger, x)
  BY <1>1, <1>3 DEF PromptInv, RecallInv, InTransaction, Saving
<1>5. SessionOn(disk'[Dir(p)]).ledger = tx[p].ledger
  <2> HIDE DEF old
  <2> QED BY <1>2
<1>6. Torn(Dir(p)) \subseteq Torn(Dir(p))'
  BY TornStays DEF PromptInv, WriteLedger
<1>7. Dir(p)' = Dir(p)
  BY DEF WriteLedger, Dir
<1> QED BY <1>4, <1>5, <1>6, <1>7

(* Storing the processed prompts: the only one that is new to the file is  *)
(* that of the hook.                                                       *)
LEMMA MetaMarked ==
    ASSUME TypeOK, LockExclusive, TransactionInv, AtomicInv, PromptInv, SameStrength,
           NEW p \in Procs, WriteMeta(p), NEW x \in SessionOn(disk'[Dir(p)]).meta
    PROVE  x \in SessionOn(disk[Dir(p)]).meta \/ Storing(p, Dir(p), x)'
<1> DEFINE old == SessionOn(disk[Dir(p)])
           l == [base[p] EXCEPT !.report = NoArg]
<1>1. /\ tx[p] \in Session /\ base[p] \in Session /\ hook[p] \in Hook /\ pc[p] = "save_meta"
      /\ pc'[p] = "save_ledger" /\ hook' = hook /\ Dir(p)' = Dir(p)
  BY DEF TypeOK, WriteMeta, Goto, Dir
<1>2. SessionOn(disk'[Dir(p)]) =
        [meta |-> tx[p].meta, ledger |-> old.ledger, trace |-> old.trace, report |-> old.report]
  BY StepWritten
<1>3. x \in tx[p].meta
  <2> HIDE DEF old
  <2> QED BY <1>2
<1>4. l \in Session /\ l.meta = base[p].meta
  BY <1>1 DEF Session
<1>5. old = base[p]
  BY <1>1 DEF AtomicInv, LoadedInv
<1>6. CASE creating[p]
  <2>1. tx[p] = l
    BY <1>1, <1>6 DEF AtomicInv, LoadedInv, Saving
  <2> QED BY <1>3, <1>4, <1>5, <2>1
<1>7. CASE ~creating[p]
  <2>1. tx[p] = After(l, hook[p])
    BY <1>1, <1>7 DEF AtomicInv, LoadedInv, Saving
  <2>2. /\ hook[p].kind = "UserPromptSubmit" => tx[p].meta = l.meta \cup {hook[p].arg}
        /\ hook[p].kind # "UserPromptSubmit" => tx[p].meta = l.meta
    BY <1>1, <1>4, <2>1, AfterMarks
  <2> HIDE DEF l, old
  <2>3. x \in old.meta \/ (hook[p].kind = "UserPromptSubmit" /\ x = hook[p].arg)
    BY <1>3, <1>4, <1>5, <2>2
  <2> QED BY <1>1, <2>3 DEF Storing, old
<1> QED BY <1>6, <1>7

(* Every step keeps a prompt that is marked on disk stored, stopped or     *)
(* being stored.                                                           *)
LEMMA MarkedStep ==
    ASSUME TypeOK, LockExclusive, TransactionInv, AtomicInv, PromptInv, SameStrength,
           [Next]_vars, NEW d \in Dirs
    PROVE  MarkedInv(d)'
<1> SUFFICES ASSUME NEW x \in SessionOn(disk'[d]).meta
             PROVE  \/ x \in Torn(d)'
                    \/ Stored(SessionOn(disk'[d]).ledger, x)
                    \/ \E p \in Procs : Storing(p, d, x)'
  BY DEF MarkedInv
<1>1. MarkedInv(d) /\ HistoryInv
  BY DEF PromptInv
<1>2. CASE x \in SessionOn(disk[d]).meta
  <2>1. CASE \E p \in Procs : WriteLedger(p) /\ Dir(p) = d
    <3>1. PICK p \in Procs : WriteLedger(p) /\ Dir(p) = d
      BY <2>1
    <3>2. Dir(p)' = d
      BY <3>1 DEF WriteLedger, Dir
    <3>3. x \in Torn(Dir(p))' \/ Stored(SessionOn(disk'[Dir(p)]).ledger, x)
      BY <1>2, <3>1, LedgerMarked
    <3>4. Torn(Dir(p))' = Torn(d)'
      BY <3>2 DEF Torn
    <3> QED BY <3>1, <3>3, <3>4
  <2>2. CASE ~\E p \in Procs : WriteLedger(p) /\ Dir(p) = d
    <3>1. \/ x \in Torn(d)
          \/ Stored(SessionOn(disk[d]).ledger, x)
          \/ \E p \in Procs : Storing(p, d, x) /\ ~WriteLedger(p)
      BY <1>1, <1>2, <2>2 DEF MarkedInv, Storing
    <3> QED BY <1>1, <3>1, MarkedKept
  <2> QED BY <2>1, <2>2
<1>3. CASE x \notin SessionOn(disk[d]).meta
  <2>1. PICK p \in Procs : WriteMeta(p) \/ WriteLedger(p) \/ WriteTrace(p) \/ WriteReport(p)
    BY <1>3 DEF Next, Step, vars, Arrive, Start, Acquire, TimeOut, LoadCorrupted, LoadSession,
                RunBody, BodyRaises, Raise, Release, WriteFails, Kill
  <2>2. d = Dir(p)
    BY <1>3, <2>1, FilesWritten
  <2> DEFINE old == SessionOn(disk[Dir(p)])
             new == SessionOn(disk'[Dir(p)])
  <2>3. ~WriteMeta(p) => new.meta = old.meta
    <3>1. /\ WriteLedger(p) => new =
                [meta |-> old.meta, ledger |-> tx[p].ledger, trace |-> old.trace, report |-> old.report]
          /\ WriteTrace(p) => new =
                [meta |-> old.meta, ledger |-> old.ledger, trace |-> tx[p].trace, report |-> old.report]
          /\ WriteReport(p) => new =
                [meta |-> old.meta, ledger |-> old.ledger, trace |-> old.trace, report |-> tx[p].report]
      BY StepWritten
    <3> HIDE DEF old, new
    <3> QED BY <2>1, <3>1
  <2>4. WriteMeta(p)
    BY <1>3, <2>2, <2>3
  <2>5. Storing(p, Dir(p), x)'
    BY <1>3, <2>2, <2>4, MetaMarked
  <2>6. Dir(p)' = Dir(p)
    BY <2>4 DEF WriteMeta, Dir
  <2> QED BY <2>2, <2>5, <2>6 DEF Storing
<1> QED BY <1>2, <1>3

(* Only extracted constraints get into a ledger.                           *)
LEMMA LedgersStep ==
    ASSUME TypeOK, LedgersInv, SameStrength, [Next]_vars
    PROVE  LedgersInv'
<1>1. ASSUME NEW d \in Dirs
      PROVE  SessionOn(disk'[d]).ledger \subseteq Extracted
  <2>1. CASE disk'[d] = disk[d]
    BY <2>1 DEF LedgersInv
  <2>2. CASE disk'[d] # disk[d]
    <3>1. PICK p \in Procs : WriteMeta(p) \/ WriteLedger(p) \/ WriteTrace(p) \/ WriteReport(p)
      BY <2>2 DEF Next, Step, vars, Arrive, Start, Acquire, TimeOut, LoadCorrupted, LoadSession,
                  RunBody, BodyRaises, Raise, Release, WriteFails, Kill
    <3>2. d = Dir(p)
      BY <2>2, <3>1, FilesWritten
    <3> DEFINE old == SessionOn(disk[Dir(p)])
               new == SessionOn(disk'[Dir(p)])
    <3>3. /\ WriteMeta(p) => new =
                [meta |-> tx[p].meta, ledger |-> old.ledger, trace |-> old.trace, report |-> old.report]
          /\ WriteLedger(p) => new =
                [meta |-> old.meta, ledger |-> tx[p].ledger, trace |-> old.trace, report |-> old.report]
          /\ WriteTrace(p) => new =
                [meta |-> old.meta, ledger |-> old.ledger, trace |-> tx[p].trace, report |-> old.report]
          /\ WriteReport(p) => new =
                [meta |-> old.meta, ledger |-> old.ledger, trace |-> old.trace, report |-> tx[p].report]
      BY StepWritten
    <3>4. old.ledger \subseteq Extracted /\ tx[p].ledger \subseteq Extracted
      BY <3>2 DEF LedgersInv
    <3>5. new.ledger \subseteq Extracted
      <4> HIDE DEF old, new
      <4> QED BY <3>1, <3>3, <3>4
    <3> QED BY <3>2, <3>5
  <2> QED BY <2>1, <2>2
<1>2. ASSUME NEW p \in Procs
      PROVE  tx'[p].ledger \subseteq Extracted
  <2>1. CASE tx'[p] = tx[p]
    BY <2>1 DEF LedgersInv
  <2>2. CASE LoadSession(p)
    <3>1. Dir(p) \in Dirs
      BY DirType DEF TypeOK, Dir
    <3> DEFINE s == SessionOn(disk[Dir(p)])
    <3>2. tx'[p] = [s EXCEPT !.report = NoArg]
      BY <2>2 DEF LoadSession, TypeOK
    <3>3. tx'[p].ledger = s.ledger
      BY <3>2 DEF SessionOn
    <3> QED BY <3>1, <3>3 DEF LedgersInv
  <2>3. CASE RunBody(p)
    <3>1. tx'[p] = After(tx[p], hook[p]) /\ tx[p] \in Session /\ hook[p] \in Hook
      BY <2>3 DEF RunBody, TypeOK
    <3>2. After(tx[p], hook[p]).ledger \subseteq Extracted
      BY <3>1, AfterStores DEF LedgersInv
    <3> QED BY <3>1, <3>2
  <2>4. CASE ~LoadSession(p) /\ ~RunBody(p)
    <3>1. ASSUME NEW r \in Procs, LoadSession(r) \/ RunBody(r)
          PROVE  tx'[p] = tx[p]
      BY <2>4, <3>1 DEF LoadSession, RunBody, TypeOK
    <3>2. CASE ~\E r \in Procs : LoadSession(r) \/ RunBody(r)
      <4>1. ASSUME NEW r \in Procs, \/ Arrive(r) \/ Acquire(r) \/ TimeOut(r) \/ Release(r) \/ Kill(r)
                                    \/ Raise(r)
            PROVE  tx' = tx
        BY <4>1 DEF Arrive, Start, Acquire, TimeOut, Release, Kill, Raise
      <4>2. ASSUME NEW r \in Procs, WriteMeta(r) \/ WriteLedger(r) \/ WriteTrace(r) \/ WriteReport(r)
            PROVE  tx' = tx
        BY <4>2 DEF WriteMeta, WriteLedger, WriteTrace, WriteReport
      <4>3. UNCHANGED vars => tx' = tx
        BY DEF vars
      <4>4. tx' = tx
        BY <3>2, <4>1, <4>2, <4>3 DEF Next, Step, LoadCorrupted, BodyRaises, WriteFails
      <4> QED BY <2>1, <4>4
    <3> QED BY <2>1, <3>1, <3>2
  <2> QED BY <2>1, <2>2, <2>3, <2>4
<1> QED BY <1>1, <1>2 DEF LedgersInv

-----------------------------------------------------------------------------
(* What a process knows after a step of its own.                           *)

(* Outside a transaction and unanswered, there is nothing to know.         *)
LEMMA RecallNothing ==
    ASSUME NEW p \in Procs, pc'[p] \notin InTransaction, pc'[p] # "done" \/ stop'[p] # "none"
    PROVE  RecallInv(p)'
BY DEF RecallInv, AfterBody, Acknowledged, InTransaction, Saving

(* When the lock is given back, the files hold what the handler knew.      *)
LEMMA RecallRelease ==
    ASSUME TypeOK, TransactionInv, HistoryInv, [Next]_vars, NEW p \in Procs, RecallInv(p), Release(p)
    PROVE  RecallInv(p)'
<1>1. /\ pc[p] = "release" /\ pc'[p] = "done" /\ disk' = disk /\ hook' = hook
      /\ answer' = answer /\ before' = before /\ Dir(p)' = Dir(p) /\ tx[p] \in Session
  BY DEF Release, Goto, TypeOK, Dir
<1>2. AfterBody(p) /\ pc'[p] \notin InTransaction /\ ~AfterBody(p)'
  BY <1>1 DEF AfterBody, InTransaction, Saving
<1>3. disk[Dir(p)].meta = tx[p].meta
  BY <1>1 DEF TransactionInv, SaveInv, InTransaction, Saving
<1>4. SessionOn(disk[Dir(p)]).meta = tx[p].meta
  BY <1>1, <1>3, NotMissing DEF SessionOn, Contents
<1>5. Torn(Dir(p)) \subseteq Torn(Dir(p))'
  BY <1>1, TornStays
<1>6. \A x \in Prompts : Prompted(p, x)' => Prompted(p, x)
  BY <1>1, PromptedStays
<1>7. hook[p].kind = "UserPromptSubmit" => hook[p].arg \in SessionOn(disk[Dir(p)]).meta
  BY <1>2, <1>4 DEF RecallInv
<1>8. hook[p].kind = "PreToolUse" /\ answer[p] = "allow" =>
          \A x \in Prompts : Prompted(p, x)' =>
              x \in Torn(Dir(p))' \/ ~Blocks(Members(Extract[x]), hook[p].arg)
  BY <1>2, <1>5, <1>6 DEF RecallInv
<1> QED BY <1>1, <1>2, <1>7, <1>8 DEF RecallInv

(* Loading: what is marked on disk is stored, for no other process stands  *)
(* between its two files; what was answered is marked on disk.             *)
LEMMA RecallLoad ==
    ASSUME TypeOK, LockExclusive, PromptInv, [Next]_vars, NEW p \in Procs, LoadSession(p)
    PROVE  RecallInv(p)'
<1> DEFINE s == SessionOn(disk[Dir(p)])
<1>1. /\ pc[p] = "loading" /\ hook' = hook /\ before' = before /\ Dir(p)' = Dir(p)
      /\ tx'[p] = [s EXCEPT !.report = NoArg]
      /\ pc'[p] \in {"body", "save_meta"} /\ (pc'[p] = "save_meta" => creating'[p])
      /\ Dir(p) \in Dirs
  BY DirType DEF LoadSession, Goto, TypeOK, Dir
<1>2. tx'[p].meta = s.meta /\ tx'[p].ledger = s.ledger
  BY <1>1 DEF SessionOn
<1>3. Torn(Dir(p)) \subseteq Torn(Dir(p))'
  BY <1>1, TornStays DEF PromptInv
<1>4. ASSUME NEW x \in s.meta
      PROVE  x \in Torn(Dir(p)) \/ Stored(s.ledger, x)
  <2>1. \A q \in Procs : ~Storing(q, Dir(p), x)
    BY <1>1, Exclusion DEF Storing, Locked, Saving
  <2> QED BY <1>1, <2>1 DEF PromptInv, MarkedInv
<1>5. ASSUME NEW x \in Prompts, Prompted(p, x)'
      PROVE  x \in s.meta
  <2>1. Prompted(p, x)
    BY <1>1, <1>5, PromptedStays DEF PromptInv
  <2>2. PICK q \in before[p] : /\ Acknowledged(q) /\ hook[q].kind = "UserPromptSubmit"
                               /\ Dir(q) = Dir(p) /\ hook[q].arg = x
    BY <2>1 DEF Prompted
  <2>3. q \in Procs
    BY <2>2 DEF TypeOK
  <2> QED BY <2>2, <2>3 DEF PromptInv, RecallInv
<1>6. ~AfterBody(p)' /\ ~Acknowledged(p)'
  BY <1>1 DEF AfterBody, Acknowledged, Saving
<1> HIDE DEF s
<1> QED BY <1>2, <1>3, <1>4, <1>5, <1>6 DEF RecallInv

(* The body: the constraints of a new prompt are registered, and an action *)
(* is allowed only when no constraint in memory blocks it.                 *)
LEMMA RecallBody ==
    ASSUME TypeOK, TransactionInv, PromptInv, SameStrength, [Next]_vars, NEW p \in Procs, RunBody(p)
    PROVE  RecallInv(p)'
<1> DEFINE s == tx[p]
           t == After(tx[p], hook[p])
<1>1. /\ pc[p] = "body" /\ pc'[p] = "save_meta" /\ hook' = hook /\ before' = before
      /\ Dir(p)' = Dir(p) /\ tx'[p] = t /\ answer'[p] = AnswerOf(s, hook[p])
      /\ s \in Session /\ hook[p] \in Hook
  BY DEF RunBody, Goto, TypeOK, Dir
<1>2. Torn(Dir(p)) \subseteq Torn(Dir(p))'
  BY <1>1, TornStays DEF PromptInv
<1>3. \A x \in Prompts : Prompted(p, x)' => Prompted(p, x)
  BY <1>1, PromptedStays DEF PromptInv
<1>4. /\ \A x \in s.meta : x \in Torn(Dir(p)) \/ Stored(s.ledger, x)
      /\ \A x \in Prompts : Prompted(p, x) => x \in s.meta
  BY <1>1 DEF PromptInv, RecallInv, InTransaction
<1>5. /\ hook[p].kind = "UserPromptSubmit" => t.meta = s.meta \cup {hook[p].arg}
      /\ hook[p].kind # "UserPromptSubmit" => t.meta = s.meta
  BY <1>1, AfterMarks
<1>6. /\ s.ledger \subseteq t.ledger
      /\ hook[p].kind = "UserPromptSubmit" /\ hook[p].arg \notin s.meta => Stored(t.ledger, hook[p].arg)
  BY <1>1, AfterStores DEF PromptInv, LedgersInv
<1>7. ASSUME NEW x \in t.meta
      PROVE  x \in Torn(Dir(p)) \/ Stored(t.ledger, x)
  <2>1. CASE x \in s.meta
    BY <1>4, <1>6, <2>1 DEF Stored
  <2>2. CASE x \notin s.meta
    <3> HIDE DEF s, t
    <3> QED BY <1>5, <1>6, <2>2
  <2> QED BY <2>1, <2>2
<1>8. ASSUME NEW x \in Prompts, Prompted(p, x)', hook[p].kind = "PreToolUse", answer'[p] = "allow"
      PROVE  x \in Torn(Dir(p)) \/ ~Blocks(Members(Extract[x]), hook[p].arg)
  <2>1. ~Blocks(s.ledger, hook[p].arg)
    BY <1>1, <1>8 DEF AnswerOf
  <2>2. x \in Torn(Dir(p)) \/ Stored(s.ledger, x)
    BY <1>3, <1>4, <1>8
  <2> QED BY <2>1, <2>2 DEF Stored, Blocks
<1>9. ~Acknowledged(p)'
  BY <1>1 DEF Acknowledged
<1> HIDE DEF s, t
<1>10. \A x \in Prompts : Prompted(p, x)' => x \in t.meta
  BY <1>3, <1>4, <1>5
<1>11. hook[p].kind = "UserPromptSubmit" => hook[p].arg \in t.meta
  BY <1>5
<1> QED BY <1>1, <1>2, <1>7, <1>8, <1>9, <1>10, <1>11 DEF RecallInv

(* Saving changes nothing in memory.                                       *)
LEMMA RecallWrite ==
    ASSUME TypeOK, TransactionInv, HistoryInv, [Next]_vars, NEW p \in Procs, RecallInv(p),
           WriteMeta(p) \/ WriteLedger(p) \/ WriteTrace(p) \/ WriteReport(p)
    PROVE  RecallInv(p)'
<1>1. /\ pc[p] \in InTransaction /\ tx' = tx /\ hook' = hook /\ before' = before /\ answer' = answer
      /\ Dir(p)' = Dir(p)
  BY DEF WriteMeta, WriteLedger, WriteTrace, WriteReport, InTransaction, Saving, Dir
<1>2. pc'[p] # "done" /\ (AfterBody(p)' => AfterBody(p))
  <2> USE DEF AfterBody, Saving, Goto, TypeOK
  <2>1. CASE WriteMeta(p) \/ WriteLedger(p)
    BY <2>1 DEF WriteMeta, WriteLedger
  <2>2. CASE WriteTrace(p)
    <3>1. /\ pc[p] = "save_trace"
          /\ pc'[p] = IF creating[p] THEN "body"
                      ELSE IF tx[p].report # NoArg THEN "save_report" ELSE "release"
      BY <2>2 DEF WriteTrace
    <3> QED BY <3>1
  <2>3. CASE WriteReport(p)
    <3>1. pc[p] = "save_report" /\ pc'[p] = "release" /\ creating' = creating
      BY <2>3 DEF WriteReport
    <3>2. ~creating[p]
      BY <3>1 DEF TransactionInv, SaveInv, Over
    <3> QED BY <3>1, <3>2
  <2> QED BY <2>1, <2>2, <2>3
<1>3. ~Acknowledged(p)'
  BY <1>2 DEF Acknowledged
<1>4. Torn(Dir(p)) \subseteq Torn(Dir(p))'
  BY <1>1, TornStays
<1>5. \A x \in Prompts : Prompted(p, x)' => Prompted(p, x)
  BY <1>1, PromptedStays
<1>6. /\ \A x \in tx[p].meta : x \in Torn(Dir(p))' \/ Stored(tx[p].ledger, x)
      /\ \A x \in Prompts : Prompted(p, x)' => x \in tx[p].meta
  BY <1>1, <1>4, <1>5 DEF RecallInv
<1>7. AfterBody(p)' => /\ hook[p].kind = "UserPromptSubmit" => hook[p].arg \in tx[p].meta
                       /\ hook[p].kind = "PreToolUse" /\ answer[p] = "allow" =>
                            \A x \in Prompts : Prompted(p, x)' =>
                                x \in Torn(Dir(p))' \/ ~Blocks(Members(Extract[x]), hook[p].arg)
  BY <1>2, <1>4, <1>5 DEF RecallInv
<1> QED BY <1>1, <1>3, <1>6, <1>7 DEF RecallInv

(* A step leaves alone what the other processes hold.                      *)
LEMMA OthersAlone ==
    ASSUME TypeOK, NEW p \in Procs, NEW q \in Procs, q # p,
           Arrive(p) \/ Step(p) \/ WriteFails(p) \/ Kill(p)
    PROVE  /\ pc'[q] = pc[q] /\ hook'[q] = hook[q] /\ tx'[q] = tx[q] /\ creating'[q] = creating[q]
           /\ answer'[q] = answer[q] /\ before'[q] = before[q] /\ stop'[q] = stop[q]
<1> USE DEF Goto, TypeOK
<1>1. CASE Arrive(p)
  BY <1>1 DEF Arrive, Start
<1>2. CASE Acquire(p) \/ TimeOut(p) \/ Release(p) \/ Kill(p)
  BY <1>2 DEF Acquire, TimeOut, Release, Kill
<1>3. CASE Raise(p)
  BY <1>3 DEF Raise
<1>4. CASE LoadSession(p) \/ RunBody(p)
  BY <1>4 DEF LoadSession, RunBody
<1>5. CASE WriteMeta(p) \/ WriteLedger(p) \/ WriteTrace(p) \/ WriteReport(p)
  BY <1>5 DEF WriteMeta, WriteLedger, WriteTrace, WriteReport
<1> QED BY <1>1, <1>2, <1>3, <1>4, <1>5 DEF Step, LoadCorrupted, BodyRaises, WriteFails

(* What the process that takes a step knows afterwards.                    *)
LEMMA RecallOwn ==
    ASSUME TypeOK, LockExclusive, TransactionInv, PromptInv, SameStrength, [Next]_vars,
           NEW p \in Procs, Arrive(p) \/ Step(p) \/ WriteFails(p) \/ Kill(p)
    PROVE  RecallInv(p)'
<1> USE DEF Goto, TypeOK
<1>0. RecallInv(p) /\ HistoryInv
  BY DEF PromptInv
<1>1. CASE Arrive(p)
  <2>1. pc'[p] = "waiting"
    BY <1>1 DEF Arrive, Start
  <2> QED BY <2>1, RecallNothing DEF InTransaction, Saving
<1>2. CASE Acquire(p)
  <2>1. pc'[p] = "loading"
    BY <1>2 DEF Acquire
  <2> QED BY <2>1, RecallNothing DEF InTransaction, Saving
<1>3. CASE TimeOut(p)
  <2>1. pc'[p] = "done" /\ stop'[p] = "waiting"
    BY <1>3 DEF TimeOut
  <2> QED BY <2>1, RecallNothing DEF InTransaction, Saving
<1>4. CASE Kill(p)
  <2>1. pc'[p] = "dead"
    BY <1>4 DEF Kill
  <2> QED BY <2>1, RecallNothing DEF InTransaction, Saving
<1>5. CASE LoadCorrupted(p) \/ BodyRaises(p) \/ WriteFails(p)
  <2>1. pc[p] \in Running
    BY <1>5, SessionFilesAssumption DEF LoadCorrupted, BodyRaises, WriteFails, Running, Locked
  <2>2. pc'[p] = "done" /\ stop'[p] = pc[p]
    BY <1>5 DEF LoadCorrupted, BodyRaises, WriteFails, Raise
  <2>3. stop'[p] # "none"
    BY <2>1, <2>2 DEF Running, Locked, Saving
  <2> QED BY <2>2, <2>3, RecallNothing DEF InTransaction, Saving
<1>6. CASE LoadSession(p)
  BY <1>6, RecallLoad
<1>7. CASE RunBody(p)
  BY <1>7, RecallBody
<1>8. CASE WriteMeta(p) \/ WriteLedger(p) \/ WriteTrace(p) \/ WriteReport(p)
  BY <1>0, <1>8, RecallWrite
<1>9. CASE Release(p)
  BY <1>0, <1>9, RecallRelease
<1> QED BY <1>1, <1>2, <1>3, <1>4, <1>5, <1>6, <1>7, <1>8, <1>9 DEF Step

LEMMA RecallStep ==
    ASSUME TypeOK, LockExclusive, TransactionInv, PromptInv, SameStrength, [Next]_vars,
           NEW q \in Procs
    PROVE  RecallInv(q)'
<1>0. RecallInv(q) /\ HistoryInv
  BY DEF PromptInv
<1>1. CASE UNCHANGED vars
  BY <1>0, <1>1, RecallKept DEF vars
<1>2. ASSUME NEW p \in Procs, Arrive(p) \/ Step(p) \/ WriteFails(p) \/ Kill(p)
      PROVE  RecallInv(q)'
  <2>1. CASE q = p
    BY <1>2, <2>1, RecallOwn
  <2>2. CASE q # p
    BY <1>0, <1>2, <2>2, OthersAlone, RecallKept
  <2> QED BY <2>1, <2>2
<1> QED BY <1>1, <1>2 DEF Next

LEMMA PromptInit == Init => PromptInv
<1> SUFFICES ASSUME Init
             PROVE  PromptInv
  OBVIOUS
<1>1. \A d \in Dirs : SessionOn(disk[d]).meta = {} /\ SessionOn(disk[d]).ledger = {}
  BY DEF Init, NoFiles, SessionOn, Contents
<1>2. HistoryInv
  BY DEF Init, HistoryInv
<1>3. LedgersInv
  BY <1>1 DEF Init, LedgersInv, EmptySession
<1>4. \A d \in Dirs : MarkedInv(d)
  BY <1>1 DEF MarkedInv
<1>5. \A p \in Procs : RecallInv(p)
  BY DEF Init, RecallInv, AfterBody, Acknowledged, InTransaction, Saving
<1> QED BY <1>2, <1>3, <1>4, <1>5 DEF PromptInv

(* When strength follows from description and scope, a PreToolUse hook     *)
(* that allows an action started before the answer of every prompt with a  *)
(* HARD rule against it, or the save of that prompt was stopped between    *)
(* its two files: whatever processes run, fail or die in between, what an  *)
(* answered prompt registered is in force (handle_user_prompt_submit,      *)
(* handle_pre_tool_use and save_session together).                         *)
THEOREM AllowCorrect == ASSUME SameStrength PROVE Spec => []AllowRespectsPrompts
<1>1. Init => PromptInv
  BY PromptInit
<1>2. TypeOK /\ LockExclusive /\ TransactionInv /\ AtomicInv /\ PromptInv /\ [Next]_vars => PromptInv'
  <2> SUFFICES ASSUME TypeOK, LockExclusive, TransactionInv, AtomicInv, PromptInv, [Next]_vars
               PROVE  PromptInv'
    OBVIOUS
  <2>1. HistoryInv' /\ LedgersInv'
    BY HistoryStep, LedgersStep DEF PromptInv
  <2>2. \A d \in Dirs : MarkedInv(d)'
    BY MarkedStep
  <2>3. \A p \in Procs : RecallInv(p)'
    BY RecallStep
  <2> QED BY <2>1, <2>2, <2>3 DEF PromptInv
<1>3. TypeOK /\ PromptInv => AllowRespectsPrompts
  <2> SUFFICES ASSUME TypeOK, PromptInv,
                      NEW p \in Procs, Acknowledged(p), hook[p].kind = "PreToolUse", answer[p] = "allow",
                      NEW q \in before[p],
                      Acknowledged(q), hook[q].kind = "UserPromptSubmit", Dir(q) = Dir(p),
                      hook[q].arg \notin Torn(Dir(q))
               PROVE  ~Blocks(Members(Extract[hook[q].arg]), hook[p].arg)
    BY DEF AllowRespectsPrompts
  <2>1. q \in Procs
    BY DEF TypeOK
  <2>2. hook[q].arg \in Prompts
    BY <2>1 DEF TypeOK, Hook, ArgsOf
  <2>3. Prompted(p, hook[q].arg)
    BY DEF Prompted
  <2> QED BY <2>2, <2>3 DEF PromptInv, RecallInv
<1> QED BY <1>1, <1>2, <1>3, TypeCorrect, LockCorrect, TransactionCorrect, LoadedCorrect, PTL DEF Spec
(***************************************************************************)
(* Answers are durable.                                                    *)
(***************************************************************************)

(* The events of one kind about one thing in a trace, and their number.    *)
Positions(t, k, a) == {i \in 1..Len(t) : t[i].kind = k /\ t[i].arg = a}
Count(t, k, a) == Cardinality(Positions(t, k, a))

(* The events a hook of this kind records.                                 *)
EventsOf(kind) ==
    CASE kind = "UserPromptSubmit" -> {"USER_MESSAGE"}
      [] kind = "PreToolUse" -> {"GUARD_DECISION"}
      [] kind = "PostToolUse" -> {"TOOL_CALL", "TOOL_RESULT"}
      [] OTHER -> {}

(* The hooks of one kind about one thing that were answered normally.      *)
Answered(d, kind, a) ==
    {q \in Procs : Acknowledged(q) /\ Dir(q) = d /\ hook[q].kind = kind /\ hook[q].arg = a}

(* Finitely many hooks have been started at any time, whatever Procs is.   *)
StartedInv == IsFiniteSet({p \in Procs : pc[p] # "idle"})

(* On disk there is an event of its own for every hook that was answered,  *)
(* and in the memory of a hook whose body has run there is one more.       *)
DiskCounts(d) ==
    \A h \in Hook : \A k \in EventsOf(h.kind) :
        Count(SessionOn(disk[d]).trace, k, h.arg) >= Cardinality(Answered(d, h.kind, h.arg))

MemoryCounts(p) ==
    AfterBody(p) => \A k \in EventsOf(hook[p].kind) :
        Count(tx[p].trace, k, hook[p].arg) >=
            Cardinality(Answered(Dir(p), hook[p].kind, hook[p].arg)) + 1

CountInv ==
    /\ StartedInv
    /\ \A d \in Dirs : DiskCounts(d)
    /\ \A p \in Procs : MemoryCounts(p)

-----------------------------------------------------------------------------

(* A set with at most one element more than another.                       *)
LEMMA OneMore ==
    ASSUME NEW A, IsFiniteSet(A), NEW B, NEW q, B \subseteq A \cup {q}
    PROVE  /\ Cardinality(A) \in Nat /\ Cardinality(B) \in Nat
           /\ Cardinality(B) <= Cardinality(A) + 1
           /\ B \subseteq A => Cardinality(B) <= Cardinality(A)
<1>1. IsFiniteSet(A \cup {q}) /\ Cardinality(A \cup {q}) <= Cardinality(A) + 1
  <2>1. Cardinality(A) \in Nat
    BY FS_CardinalityType
  <2>2. /\ IsFiniteSet(A \cup {q})
        /\ Cardinality(A \cup {q}) = IF q \in A THEN Cardinality(A) ELSE Cardinality(A) + 1
    BY FS_AddElement
  <2> QED BY <2>1, <2>2
<1>2. IsFiniteSet(B) /\ Cardinality(B) <= Cardinality(A \cup {q})
  BY <1>1, FS_Subset
<1>3. B \subseteq A => Cardinality(B) <= Cardinality(A)
  BY FS_Subset
<1>4. Cardinality(A) \in Nat /\ Cardinality(B) \in Nat /\ Cardinality(A \cup {q}) \in Nat
  BY <1>1, <1>2, FS_CardinalityType
<1> QED BY <1>1, <1>2, <1>3, <1>4

(* A trace that grows loses no events.                                     *)
LEMMA CountGrows ==
    ASSUME NEW t \in Seq(Event), NEW u \in Seq(Event), Extends(t, u), NEW k, NEW a
    PROVE  /\ Count(t, k, a) \in Nat /\ Count(u, k, a) \in Nat
           /\ Count(t, k, a) <= Count(u, k, a)
<1>1. Positions(u, k, a) \subseteq 1..Len(u) /\ IsFiniteSet(1..Len(u))
  BY FS_Interval DEF Positions
<1>2. IsFiniteSet(Positions(u, k, a))
  BY <1>1, FS_Subset
<1>3. Positions(t, k, a) \in SUBSET Positions(u, k, a)
  BY DEF Positions, Extends
<1> QED BY <1>2, <1>3, FS_Subset, FS_CardinalityType DEF Count

(* Recording an event counts it.                                           *)
LEMMA CountAppend ==
    ASSUME NEW t \in Seq(Event), NEW e \in Event
    PROVE  Count(Append(t, e), e.kind, e.arg) = Count(t, e.kind, e.arg) + 1
<1> DEFINE k == e.kind
           a == e.arg
           n == Len(t) + 1
           u == Append(t, e)
<1>1. /\ Len(u) = n /\ u[n] = e /\ Len(t) \in Nat
      /\ \A i \in 1..Len(t) : u[i] = t[i]
  OBVIOUS
<1>2. Positions(t, k, a) \subseteq 1..Len(t) /\ IsFiniteSet(1..Len(t))
  BY FS_Interval DEF Positions
<1>3. IsFiniteSet(Positions(t, k, a)) /\ n \notin Positions(t, k, a)
  BY <1>1, <1>2, FS_Subset
<1> HIDE DEF u
<1>4. Positions(u, k, a) = Positions(t, k, a) \cup {n}
  BY <1>1 DEF Positions
<1>5. Cardinality(Positions(t, k, a) \cup {n}) = Cardinality(Positions(t, k, a)) + 1
  BY <1>3, FS_AddElement
<1> QED BY <1>4, <1>5 DEF Count, u

(* The body of a handler that does not raise records its own events.       *)
LEMMA AfterCounts ==
    ASSUME NEW s \in Session, NEW h \in Hook, Paired(s.trace), ~Raises(s, h),
           NEW k \in EventsOf(h.kind)
    PROVE  Count(After(s, h).trace, k, h.arg) >= Count(s.trace, k, h.arg) + 1
<1> DEFINE t == s.trace
<1>1. t \in Seq(Event)
  BY DEF Session
<1>2. Count(t, k, h.arg) \in Nat
  <2>1. Extends(t, t)
    BY <1>1 DEF Extends
  <2> QED BY <1>1, <2>1, CountGrows
<1>3. CASE h.kind = "UserPromptSubmit"
  <2> DEFINE e == EventOf("USER_MESSAGE", h, TRUE)
  <2>1. After(s, h).trace = Append(t, e) /\ k = "USER_MESSAGE"
    BY <1>3 DEF After, PromptSubmitted, EventsOf
  <2>2. e \in Event /\ e.kind = k /\ e.arg = h.arg
    BY <1>3, <2>1, EventType
  <2> HIDE DEF e, t
  <2>3. Count(Append(t, e), k, h.arg) = Count(t, k, h.arg) + 1
    BY <1>1, <2>2, CountAppend
  <2> QED BY <1>2, <2>1, <2>3 DEF t
<1>4. CASE h.kind = "PreToolUse"
  <2> DEFINE e == EventOf("GUARD_DECISION", h, ~Blocks(s.ledger, h.arg))
  <2>1. After(s, h).trace = Append(t, e) /\ k = "GUARD_DECISION"
    BY <1>4 DEF After, PreToolUsed, EventsOf, Session
  <2>2. e \in Event /\ e.kind = k /\ e.arg = h.arg
    BY <1>4, <2>1, EventType DEF Blocks
  <2> HIDE DEF e, t
  <2>3. Count(Append(t, e), k, h.arg) = Count(t, k, h.arg) + 1
    BY <1>1, <2>2, CountAppend
  <2> QED BY <1>2, <2>1, <2>3 DEF t
<1>5. CASE h.kind = "PostToolUse"
  <2> DEFINE c == EventOf("TOOL_CALL", h, TRUE)
             r == EventOf("TOOL_RESULT", h, h.ok)
  <2>1. ~Recorded(t, "TOOL_RESULT", h.arg) /\ ~Recorded(t, "TOOL_CALL", h.arg)
    BY <1>1, <1>5, PairedNoCall DEF Raises
  <2>2. After(s, h).trace = Append(Append(t, c), r) /\ k \in {"TOOL_CALL", "TOOL_RESULT"}
    <3>1. After(s, h) = PostToolUsed(s, h)
      BY <1>5 DEF After
    <3>2. PostToolUsed(s, h) =
             [s EXCEPT !.trace = IF Recorded(t, "TOOL_CALL", h.arg) THEN Append(t, r)
                                 ELSE Append(Append(t, c), r)]
      BY <1>5, PostToolUsedTrace
    <3> QED BY <1>5, <2>1, <3>1, <3>2 DEF Session, EventsOf
  <2>3. /\ c \in Event /\ c.kind = "TOOL_CALL" /\ c.arg = h.arg
        /\ r \in Event /\ r.kind = "TOOL_RESULT" /\ r.arg = h.arg
    <3>1. h.ok \in BOOLEAN
      BY DEF Hook
    <3> QED BY <1>5, <3>1, EventType
  <2> HIDE DEF c, r
  <2>4. /\ Append(t, c) \in Seq(Event) /\ Extends(t, Append(t, c))
        /\ Append(Append(t, c), r) \in Seq(Event) /\ Extends(Append(t, c), Append(Append(t, c), r))
    BY <1>1, <2>3, AppendExtends
  <2>5. CASE k = "TOOL_CALL"
    <3>1. Count(Append(t, c), k, h.arg) = Count(t, k, h.arg) + 1
      BY <1>1, <2>3, <2>5, CountAppend
    <3>2. /\ Count(Append(t, c), k, h.arg) <= Count(Append(Append(t, c), r), k, h.arg)
          /\ Count(Append(Append(t, c), r), k, h.arg) \in Nat
      BY <2>4, CountGrows
    <3> QED BY <1>2, <2>2, <3>1, <3>2
  <2>6. CASE k = "TOOL_RESULT"
    <3>1. Count(Append(Append(t, c), r), k, h.arg) = Count(Append(t, c), k, h.arg) + 1
      BY <2>3, <2>4, <2>6, CountAppend
    <3>2. /\ Count(t, k, h.arg) <= Count(Append(t, c), k, h.arg)
          /\ Count(Append(t, c), k, h.arg) \in Nat
      BY <1>1, <2>4, CountGrows
    <3> QED BY <1>2, <2>2, <3>1, <3>2
  <2> QED BY <2>2, <2>5, <2>6
<1>6. h.kind \in {"UserPromptSubmit", "PreToolUse", "PostToolUse"}
  BY DEF EventsOf
<1> QED BY <1>3, <1>4, <1>5, <1>6

(* Answered hooks have been started.                                       *)
LEMMA AnsweredFinite ==
    ASSUME StartedInv, NEW d, NEW kind, NEW a
    PROVE  IsFiniteSet(Answered(d, kind, a)) /\ Cardinality(Answered(d, kind, a)) \in Nat
<1>1. Answered(d, kind, a) \in SUBSET {p \in Procs : pc[p] # "idle"}
  BY DEF Answered, Acknowledged
<1> QED BY <1>1, FS_Subset, FS_CardinalityType DEF StartedInv

LEMMA StartedStep ==
    ASSUME TypeOK, StartedInv, [Next]_vars
    PROVE  StartedInv'
<1> DEFINE Started == {q \in Procs : pc[q] # "idle"}
           Next1 == {q \in Procs : pc'[q] # "idle"}
<1>1. CASE UNCHANGED vars
  BY <1>1 DEF StartedInv, vars
<1>2. ASSUME NEW p \in Procs, Arrive(p) \/ Step(p) \/ WriteFails(p) \/ Kill(p)
      PROVE  StartedInv'
  <2>1. \A q \in Procs : q # p => pc'[q] = pc[q]
    BY <1>2, OthersAlone
  <2>2. Next1 \in SUBSET (Started \cup {p})
    BY <2>1
  <2>3. IsFiniteSet(Started \cup {p})
    BY FS_AddElement DEF StartedInv
  <2>4. IsFiniteSet(Next1)
    BY <2>2, <2>3, FS_Subset
  <2> QED BY <2>4 DEF StartedInv
<1> QED BY <1>1, <1>2 DEF Next

(* Only by giving the lock back does a hook come to be answered normally.  *)
LEMMA FreshAnswer ==
    ASSUME TypeOK, [Next]_vars, NEW q \in Procs, Acknowledged(q)', ~Acknowledged(q)
    PROVE  Release(q) /\ hook' = hook /\ disk' = disk
<1> USE DEF Goto, TypeOK
<1>1. pc'[q] = "done" /\ stop'[q] = "none" /\ ~(pc'[q] = pc[q] /\ stop'[q] = stop[q])
  BY DEF Acknowledged
<1>2. PICK p \in Procs : Arrive(p) \/ Step(p) \/ WriteFails(p) \/ Kill(p)
  BY <1>1 DEF Next, vars
<1>3. p = q
  BY <1>1, <1>2, OthersAlone
<1>4. ~Arrive(q) /\ ~Acquire(q) /\ ~TimeOut(q) /\ ~Kill(q)
  BY <1>1 DEF Arrive, Start, Acquire, TimeOut, Kill
<1>5. ~LoadSession(q) /\ ~RunBody(q)
  BY <1>1 DEF LoadSession, RunBody
<1>6. ~WriteMeta(q) /\ ~WriteLedger(q) /\ ~WriteTrace(q) /\ ~WriteReport(q)
  BY <1>1 DEF WriteMeta, WriteLedger, WriteTrace, WriteReport
<1>7. ~(LoadCorrupted(q) \/ BodyRaises(q) \/ WriteFails(q))
  <2> SUFFICES ASSUME LoadCorrupted(q) \/ BodyRaises(q) \/ WriteFails(q)
               PROVE  FALSE
    OBVIOUS
  <2>1. pc[q] \in Running
    BY SessionFilesAssumption DEF LoadCorrupted, BodyRaises, WriteFails, Running, Locked
  <2>2. stop'[q] = pc[q]
    BY DEF LoadCorrupted, BodyRaises, WriteFails, Raise
  <2> QED BY <1>1, <2>1, <2>2 DEF Running, Locked, Saving
<1>8. Release(q)
  BY <1>2, <1>3, <1>4, <1>5, <1>6, <1>7 DEF Step
<1> QED BY <1>8 DEF Release

(* While a process holds the lock, no other hook on its session is         *)
(* answered, so that at most that process is.                              *)
LEMMA AnsweredStep ==
    ASSUME TypeOK, LockExclusive, [Next]_vars, NEW p \in Procs, pc[p] \in Locked,
           NEW d \in Dirs, Dir(p) = d, NEW kind, NEW a
    PROVE  /\ Answered(d, kind, a)' \subseteq Answered(d, kind, a) \cup {p}
           /\ ~Release(p) => Answered(d, kind, a)' \subseteq Answered(d, kind, a)
<1> SUFFICES ASSUME NEW q \in Procs, q \in Answered(d, kind, a)', q \notin Answered(d, kind, a)
             PROVE  q = p /\ Release(p)
  BY DEF Answered
<1>1. Acknowledged(q)' /\ Dir(q)' = d /\ hook'[q].kind = kind /\ hook'[q].arg = a
  BY DEF Answered
<1>2. ~Acknowledged(q)
  <2> SUFFICES ASSUME Acknowledged(q)
               PROVE  FALSE
    OBVIOUS
  <2>1. hook'[q] = hook[q]
    BY OverStays DEF Acknowledged, Over
  <2> QED BY <1>1, <2>1 DEF Answered, Dir
<1>3. Release(q) /\ hook' = hook
  BY <1>1, <1>2, FreshAnswer
<1>4. pc[q] \in Locked /\ Dir(q) = d
  BY <1>1, <1>3 DEF Release, Locked, Dir
<1> QED BY <1>3, <1>4, Exclusion

(* On disk: what is answered in this step was saved before.                *)
LEMMA DiskCountsStep ==
    ASSUME TypeOK, LockExclusive, TransactionInv, CountInv, [Next]_vars, NEW d \in Dirs
    PROVE  DiskCounts(d)'
<1> SUFFICES ASSUME NEW h \in Hook, NEW k \in EventsOf(h.kind)
             PROVE  Count(SessionOn(disk'[d]).trace, k, h.arg) >=
                        Cardinality(Answered(d, h.kind, h.arg)')
  BY DEF DiskCounts, Count, Positions
<1>0. PICK A, B, t, u : /\ A = Answered(d, h.kind, h.arg) /\ B = Answered(d, h.kind, h.arg)'
                       /\ t = SessionOn(disk[d]).trace /\ u = SessionOn(disk'[d]).trace
  OBVIOUS
<1>1. /\ Count(t, k, h.arg) \in Nat /\ Count(u, k, h.arg) \in Nat
      /\ Count(t, k, h.arg) <= Count(u, k, h.arg)
  <2>1. /\ SessionOn(disk[d]) \in Session /\ SessionOn(disk'[d]) \in Session
    <3>1. TypeOK'
      BY TypeStep
    <3>2. disk[d] \in Files /\ disk'[d] \in Files
      BY <3>1 DEF TypeOK
    <3> QED BY <3>2, SessionOnType
  <2>2. t \in Seq(Event) /\ u \in Seq(Event) /\ Extends(t, u)
    BY <1>0, <2>1, FilesStep DEF Session, Grown
  <2> QED BY <2>2, CountGrows
<1>2. IsFiniteSet(A) /\ Cardinality(A) \in Nat /\ Count(t, k, h.arg) >= Cardinality(A)
  BY <1>0, AnsweredFinite DEF CountInv, DiskCounts
<1>3. CASE B \subseteq A
  <2>1. Cardinality(B) <= Cardinality(A) /\ Cardinality(B) \in Nat
    BY <1>2, <1>3, OneMore
  <2> QED BY <1>0, <1>1, <1>2, <2>1
<1>4. CASE ~(B \subseteq A)
  <2>1. PICK q \in Procs : q \in B /\ q \notin A
    BY <1>0, <1>4 DEF Answered
  <2>2. Acknowledged(q)' /\ Dir(q)' = d /\ hook'[q].kind = h.kind /\ hook'[q].arg = h.arg
    BY <1>0, <2>1 DEF Answered
  <2>3. ~Acknowledged(q)
    <3> SUFFICES ASSUME Acknowledged(q)
                 PROVE  FALSE
      OBVIOUS
    <3>1. hook'[q] = hook[q]
      BY OverStays DEF Acknowledged, Over
    <3> QED BY <1>0, <2>1, <2>2, <3>1 DEF Answered, Dir
  <2>4. Release(q) /\ hook' = hook /\ disk' = disk
    BY <2>2, <2>3, FreshAnswer
  <2>5. pc[q] = "release" /\ pc[q] \in Locked /\ Dir(q) = d /\ hook[q].kind = h.kind /\ hook[q].arg = h.arg
    BY <2>2, <2>4 DEF Release, Locked, Dir
  <2>6. B \subseteq A \cup {q}
    BY <1>0, <2>5, AnsweredStep
  <2>7. Cardinality(B) <= Cardinality(A) + 1 /\ Cardinality(B) \in Nat
    BY <1>2, <2>6, OneMore
  <2>8. Count(tx[q].trace, k, h.arg) >= Cardinality(A) + 1
    BY <1>0, <2>5 DEF CountInv, MemoryCounts, AfterBody
  <2>9. u = tx[q].trace
    <3>1. disk[d].trace = tx[q].trace
      BY <2>5 DEF TransactionInv, SaveInv, InTransaction, Saving
    <3>2. tx[q] \in Session
      BY DEF TypeOK
    <3> QED BY <1>0, <2>4, <3>1, <3>2, NotMissing DEF SessionOn, Contents
  <2> QED BY <1>0, <1>1, <1>2, <2>7, <2>8, <2>9
<1> QED BY <1>3, <1>4

(* A process whose body has run is one that has just run it or goes on     *)
(* saving.                                                                 *)
LEMMA AfterBodyBefore ==
    ASSUME TypeOK, TransactionInv, [Next]_vars, NEW p \in Procs, AfterBody(p)'
    PROVE  /\ pc[p] \in Locked /\ ~Release(p) /\ hook'[p] = hook[p]
           /\ RunBody(p) \/ (AfterBody(p) /\ tx'[p] = tx[p])
<1> USE DEF Goto, TypeOK
<1>1. pc'[p] \in {"release"} \cup Saving /\ (pc'[p] = "release" \/ ~creating'[p])
  BY DEF AfterBody
<1>2. CASE \E q \in Procs : q # p /\ (Arrive(q) \/ Step(q) \/ WriteFails(q) \/ Kill(q))
  <2>1. pc'[p] = pc[p] /\ hook'[p] = hook[p] /\ tx'[p] = tx[p] /\ creating'[p] = creating[p]
    BY <1>2, OthersAlone
  <2>2. ~Release(p)
    BY <1>1 DEF Release, Saving
  <2> QED BY <1>1, <2>1, <2>2 DEF AfterBody, Locked
<1>3. CASE UNCHANGED vars
  <2>1. ~Release(p)
    BY <1>1 DEF Release, Saving
  <2> QED BY <1>1, <1>3, <2>1 DEF vars, AfterBody, Locked
<1>4. CASE Arrive(p) \/ Step(p) \/ WriteFails(p) \/ Kill(p)
  <2>1. ~Arrive(p) /\ ~Acquire(p) /\ ~TimeOut(p) /\ ~Kill(p) /\ ~Release(p)
    BY <1>1 DEF Arrive, Start, Acquire, TimeOut, Kill, Release, Saving
  <2>2. ~(LoadCorrupted(p) \/ BodyRaises(p) \/ WriteFails(p))
    BY <1>1 DEF LoadCorrupted, BodyRaises, WriteFails, Raise, Saving
  <2>3. ~LoadSession(p)
    <3> SUFFICES ASSUME LoadSession(p)
                 PROVE  FALSE
      OBVIOUS
    <3>1. /\ pc'[p] = IF Exists(Dir(p)) THEN "body" ELSE "save_meta"
          /\ creating'[p] = ~Exists(Dir(p))
      BY DEF LoadSession
    <3> QED BY <1>1, <3>1 DEF Saving
  <2>4. CASE RunBody(p)
    BY <2>1, <2>4 DEF RunBody, Locked
  <2>5. CASE WriteMeta(p) \/ WriteLedger(p)
    BY <1>1, <2>1, <2>5 DEF WriteMeta, WriteLedger, AfterBody, Locked, Saving
  <2>6. CASE WriteTrace(p)
    <3>1. /\ pc[p] = "save_trace" /\ tx' = tx /\ hook' = hook
          /\ pc'[p] = IF creating[p] THEN "body"
                      ELSE IF tx[p].report # NoArg THEN "save_report" ELSE "release"
      BY <2>6 DEF WriteTrace
    <3> QED BY <1>1, <2>1, <3>1 DEF AfterBody, Locked, Saving
  <2>7. CASE WriteReport(p)
    <3>1. pc[p] = "save_report" /\ tx' = tx /\ hook' = hook
      BY <2>7 DEF WriteReport
    <3>2. ~creating[p]
      BY <3>1 DEF TransactionInv, SaveInv, Over
    <3> QED BY <2>1, <3>1, <3>2 DEF AfterBody, Locked, Saving
  <2> QED BY <1>4, <2>1, <2>2, <2>3, <2>4, <2>5, <2>6, <2>7 DEF Step
<1> QED BY <1>2, <1>3, <1>4 DEF Next

(* In memory: the body adds an event to what its session has on disk, and  *)
(* until the lock is given back no other hook on the session is answered.  *)
LEMMA MemoryCountsStep ==
    ASSUME TypeOK, LockExclusive, TransactionInv, CountInv, [Next]_vars, NEW p \in Procs
    PROVE  MemoryCounts(p)'
<1> SUFFICES ASSUME AfterBody(p)', NEW k \in EventsOf(hook'[p].kind)
             PROVE  Count(tx'[p].trace, k, hook'[p].arg) >=
                        Cardinality(Answered(Dir(p), hook[p].kind, hook[p].arg)') + 1
  BY DEF MemoryCounts, Count, Positions
<1>1. /\ pc[p] \in Locked /\ ~Release(p) /\ hook'[p] = hook[p]
      /\ RunBody(p) \/ (AfterBody(p) /\ tx'[p] = tx[p])
  BY AfterBodyBefore
<1>2. PICK h \in Hook, d \in Dirs : h = hook[p] /\ d = Dir(p) /\ d = Dir(p)'
  BY <1>1, DirType DEF TypeOK, Dir
<1> DEFINE A == Answered(d, h.kind, h.arg)
           B == Answered(d, h.kind, h.arg)'
<1>3. B \subseteq A
  BY <1>1, <1>2, AnsweredStep
<1>4. /\ IsFiniteSet(A) /\ Cardinality(A) \in Nat
      /\ Cardinality(B) \in Nat /\ Cardinality(B) <= Cardinality(A)
  <2>1. IsFiniteSet(A)
    BY AnsweredFinite DEF CountInv
  <2> HIDE DEF A, B
  <2> QED BY <1>3, <2>1, FS_Subset, FS_CardinalityType
<1>5. Answered(Dir(p), hook[p].kind, hook[p].arg)' = B
  BY <1>1, <1>2 DEF Answered
<1>6. Answered(Dir(p), hook[p].kind, hook[p].arg) = A
  BY <1>2
<1>7. /\ SessionOn(disk[d]) \in Session /\ tx[p] \in Session /\ tx'[p] \in Session
  <2>1. TypeOK'
    BY TypeStep
  <2> QED BY <2>1, SessionOnType DEF TypeOK
<1>8. /\ Count(tx'[p].trace, k, h.arg) \in Nat
      /\ Count(tx'[p].trace, k, h.arg) >= Cardinality(A) + 1
  <2>0. Count(tx'[p].trace, k, h.arg) \in Nat
    <3>1. tx'[p].trace \in Seq(Event) /\ Extends(tx'[p].trace, tx'[p].trace)
      BY <1>7 DEF Session, Extends
    <3> QED BY <3>1, CountGrows
  <2>1. CASE AfterBody(p) /\ tx'[p] = tx[p]
    BY <1>1, <1>2, <1>6, <2>0, <2>1 DEF CountInv, MemoryCounts
  <2>2. CASE RunBody(p)
    <3>1. pc[p] = "body" /\ tx'[p] = After(tx[p], h) /\ ~Raises(tx[p], h)
      BY <1>2, <2>2 DEF RunBody, TypeOK
    <3>2. Grown(SessionOn(disk[d]), tx[p]) /\ Paired(tx[p].trace)
      BY <1>2, <3>1 DEF TransactionInv, MemoryInv, InTransaction
    <3>3. Count(tx'[p].trace, k, h.arg) >= Count(tx[p].trace, k, h.arg) + 1
      BY <1>1, <1>2, <1>7, <3>1, <3>2, AfterCounts
    <3>4. /\ Count(SessionOn(disk[d]).trace, k, h.arg) \in Nat
          /\ Count(tx[p].trace, k, h.arg) \in Nat
          /\ Count(SessionOn(disk[d]).trace, k, h.arg) <= Count(tx[p].trace, k, h.arg)
      BY <1>7, <3>2, CountGrows DEF Session, Grown
    <3>5. Count(SessionOn(disk[d]).trace, k, h.arg) >= Cardinality(A)
      BY <1>1, <1>2 DEF CountInv, DiskCounts
    <3> HIDE DEF A, B
    <3> QED BY <1>4, <2>0, <3>3, <3>4, <3>5
  <2> QED BY <1>1, <2>1, <2>2
<1> HIDE DEF A, B
<1> QED BY <1>1, <1>2, <1>4, <1>5, <1>8

LEMMA CountInit == Init => CountInv
<1> SUFFICES ASSUME Init
             PROVE  CountInv
  OBVIOUS
<1>1. StartedInv
  <2>1. {p \in Procs : pc[p] # "idle"} = {}
    BY DEF Init
  <2> QED BY <2>1, FS_EmptySet DEF StartedInv
<1>2. \A p \in Procs : MemoryCounts(p)
  BY DEF Init, MemoryCounts, AfterBody, Saving
<1>3. ASSUME NEW d \in Dirs, NEW h \in Hook, NEW k \in EventsOf(h.kind)
      PROVE  Count(SessionOn(disk[d]).trace, k, h.arg) >= Cardinality(Answered(d, h.kind, h.arg))
  <2>1. Answered(d, h.kind, h.arg) = {}
    BY DEF Init, Answered, Acknowledged
  <2>2. SessionOn(disk[d]).trace = <<>>
    BY <1>3 DEF Init, NoFiles, SessionOn, Contents
  <2>3. Positions(<<>>, k, h.arg) = {}
    BY DEF Positions
  <2>4. Count(SessionOn(disk[d]).trace, k, h.arg) = 0 /\ Cardinality(Answered(d, h.kind, h.arg)) = 0
    BY <2>1, <2>2, <2>3, FS_EmptySet DEF Count
  <2> QED BY <2>4
<1> QED BY <1>1, <1>2, <1>3 DEF CountInv, DiskCounts

(* Every hook that was answered normally has its events in the session's   *)
(* trace on disk, as many of each as there were such hooks, whatever other *)
(* processes did, failed to do or died doing since (session_transaction,   *)
(* save_session and the handlers).                                         *)
THEOREM AnswersAreDurable == Spec => []AnswerDurable
<1>1. Init => CountInv
  BY CountInit
<1>2. TypeOK /\ LockExclusive /\ TransactionInv /\ CountInv /\ [Next]_vars => CountInv'
  BY StartedStep, DiskCountsStep, MemoryCountsStep DEF CountInv
<1>3. TypeOK /\ CountInv => AnswerDurable
  <2> SUFFICES ASSUME TypeOK, CountInv, NEW p \in Procs, Acknowledged(p), NEW k \in OwnEvents(p)
               PROVE  Cardinality({i \in 1..Len(disk[Dir(p)].trace) :
                          disk[Dir(p)].trace[i].kind = k /\ disk[Dir(p)].trace[i].arg = hook[p].arg})
                      >= Cardinality({q \in Procs : Acknowledged(q) /\ Dir(q) = Dir(p)
                                        /\ hook[q].kind = hook[p].kind /\ hook[q].arg = hook[p].arg})
    BY DEF AnswerDurable
  <2> DEFINE d == Dir(p)
             h == hook[p]
             A == Answered(d, h.kind, h.arg)
             t == SessionOn(disk[d]).trace
  <2>1. d \in Dirs /\ h \in Hook /\ k \in EventsOf(h.kind)
    BY DirType DEF TypeOK, OwnEvents, EventsOf
  <2>2. Count(t, k, h.arg) >= Cardinality(A)
    BY <2>1 DEF CountInv, DiskCounts
  <2>3. Cardinality(A) \in Nat /\ Cardinality(A) # 0
    <3>1. PICK B : B = A
      OBVIOUS
    <3>2. IsFiniteSet(B) /\ Cardinality(B) \in Nat
      BY <3>1, AnsweredFinite DEF CountInv
    <3>3. p \in B
      BY <3>1 DEF Answered
    <3>4. Cardinality(B) # 0
      BY <3>2, <3>3, FS_EmptySet
    <3> QED BY <3>1, <3>2, <3>4
  <2>4. disk[d].trace # Missing
    <3> SUFFICES ASSUME disk[d].trace = Missing
                 PROVE  FALSE
      OBVIOUS
    <3>1. t = <<>>
      BY DEF SessionOn, Contents
    <3>2. Positions(<<>>, k, h.arg) = {}
      BY DEF Positions
    <3>3. Count(t, k, h.arg) = 0
      BY <3>1, <3>2, FS_EmptySet DEF Count
    <3> HIDE DEF A, t
    <3> QED BY <2>2, <2>3, <3>3
  <2>5. t = disk[d].trace
    BY <2>4 DEF SessionOn, Contents
  <2> QED BY <2>2, <2>5 DEF Count, Positions, Answered
<1> QED BY <1>1, <1>2, <1>3, TypeCorrect, LockCorrect, TransactionCorrect, PTL DEF Spec
=============================================================================
