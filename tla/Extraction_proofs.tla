-------------------------- MODULE Extraction_proofs --------------------------
(***************************************************************************)
(* Proofs about the extraction of requirements and claims, for every set   *)
(* of texts, candidates and answers of the provider.                       *)
(***************************************************************************)
EXTENDS Extraction, SequenceTheorems, TLAPS

LEMMA NoJobType == NoJob \in Jobs /\ NoJob.text = Blank /\ NoJob.by = "prompt_hook"
BY ExtractionAssumption DEF NoJob, Jobs

LEMMA JobFields ==
    ASSUME NEW j \in Jobs
    PROVE  /\ j.task \in Tasks /\ j.text \in Texts /\ j.authority \in Authorities
           /\ j.by \in {"prompt_hook", "stop_hook", "library"} /\ j.strict \in BOOLEAN
           /\ j.by = "prompt_hook" => j.task = "requirements" /\ j.authority = "USER"
           /\ j.by # "library" => j.strict = FALSE
           /\ j.task = "claims" => j.authority \in Traces
           /\ ~j.client => j.by # "library"
           /\ j.by = "stop_hook" => j.text # Blank /\ j.task = "claims"
BY DEF Jobs, Tasks, Authorities, Sources

LEMMA ItemType ==
    ASSUME NEW j \in Jobs, NEW c \in Candidates, NEW at \in Nat \ {0}
    PROVE  /\ ToItem(j, c, at) \in Items
           /\ ToItem(j, c, at).at = at
           /\ ToItem(j, c, at).authority = j.authority /\ ToItem(j, c, at).text = j.text
           /\ ToItem(j, c, at).strength = c.strength
BY JobFields, ExtractionAssumption DEF ToItem, Item, Items, Candidate

LEMMA PatternType ==
    ASSUME NEW j \in Jobs
    PROVE  /\ PatternItems(j) \in Seq(Items)
           /\ \A k \in DOMAIN PatternItems(j) :
                PatternItems(j)[k].authority = j.authority /\ PatternItems(j)[k].text = j.text
           /\ j.task = "requirements" /\ j.text = Blank => PatternItems(j) = <<>>
<1>1. PICK p \in Seq(Bodies) : p = Patterns[j.task][j.text]
  BY JobFields, ExtractionAssumption
<1>2. DOMAIN p = 1..Len(p) /\ Len(p) \in Nat /\ \A i \in DOMAIN p : p[i] \in Bodies
  BY <1>1
<1>3. PatternItems(j) = [i \in 1..Len(p) |-> Item(i, p[i], "HARD", "DENY", j.authority, j.text, "caller")]
  BY <1>1, <1>2 DEF PatternItems
<1>4. ASSUME NEW i \in 1..Len(p)
      PROVE  Item(i, p[i], "HARD", "DENY", j.authority, j.text, "caller") \in Items
  <2>1. i \in Nat \ {0} /\ p[i] \in Bodies
    BY <1>2
  <2>2. j.authority \in Authorities /\ j.text \in Texts
    BY JobFields
  <2> QED BY <2>1, <2>2 DEF Item, Items
<1>5. PatternItems(j) \in Seq(Items)
  BY <1>2, <1>3, <1>4
<1>6. j.task = "requirements" /\ j.text = Blank => p = <<>>
  BY <1>1, ExtractionAssumption
<1>7. p = <<>> => PatternItems(j) = <<>>
  BY <1>3
<1> QED BY <1>3, <1>5, <1>6, <1>7 DEF Item

LEMMA FoundType ==
    ASSUME NEW r \in Responses, HasCandidates(r)
    PROVE  CandidatesIn(r) \in Seq(Candidates)
<1>1. r.keys \in Seq(Value) /\ Len(r.keys) \in Nat /\ r.keys # <<>> /\ r.self \in Candidates \cup {None}
  BY ExtractionAssumption DEF Response
<1>2. Len(r.keys) \in 1..Len(r.keys)
  BY <1>1
<1>3. CASE Found(r).kind = "list"
  <2>1. \E i \in 1..Len(r.keys) : Found(r) = r.keys[i]
    BY <1>2 DEF Found
  <2>2. Found(r) \in Value
    BY <1>1, <2>1
  <2> QED BY <1>3, <2>2 DEF CandidatesIn, Value
<1>4. CASE Found(r).kind # "list"
  BY <1>1, <1>4, ExtractionAssumption DEF CandidatesIn, HasCandidates
<1> QED BY <1>3, <1>4

-----------------------------------------------------------------------------
(* Types.                                                                  *)

LEMMA DiagnosticsType ==
    ASSUME NEW j \in Jobs, NEW c \in Candidates, NEW at \in Nat
    PROVE  /\ Diagnostics(j, c, at) \subseteq Diagnostic
           /\ Error(0) \in Diagnostic
<1>1. c.says \subseteq Owned
  BY ExtractionAssumption DEF Candidate
<1> QED BY <1>1 DEF Diagnostics, Diagnostic, Error, Warning

LEMMA LeaveType == TypeOK /\ Leave => pc' = "idle" /\ job' \in Jobs /\ cands' \in Seq(Candidates)
                                      /\ next' \in Nat \ {0} /\ items' \in Seq(Items)
                                      /\ diags' \subseteq Diagnostic /\ ledger' \subseteq Items
BY NoJobType DEF TypeOK, Leave

LEMMA CountedType == TypeOK => Counted \in [Texts -> Nat]
<1> SUFFICES ASSUME TypeOK PROVE Counted \in [Texts -> Nat]
  OBVIOUS
<1>1. requests \in [Texts -> Nat] /\ job.text \in Texts
  BY JobFields DEF TypeOK
<1>2. requests[job.text] + 1 \in Nat
  BY <1>1
<1> QED BY <1>1, <1>2 DEF Counted

(* What one candidate adds.                                                *)
LEMMA ScanItems ==
    ASSUME TypeOK, Scan
    PROVE  /\ next \in DOMAIN cands /\ cands[next] \in Candidates
           /\ \/ items' = items
              \/ /\ Valid(job, cands[next]) /\ pc' = "scanning"
                 /\ items' = Append(items, ToItem(job, cands[next], next))
           /\ ToItem(job, cands[next], next) \in Items
           /\ pc' \in {"scanning", "invalid"}
<1> USE DEF TypeOK
<1>1. next \in DOMAIN cands /\ cands[next] \in Candidates
  BY DEF Scan
<1>2. ToItem(job, cands[next], next) \in Items
  BY <1>1, ItemType
<1>3. CASE job.strict /\ ~Valid(job, cands[next])
  BY <1>1, <1>2, <1>3 DEF Scan, Goto
<1>4. CASE ~(job.strict /\ ~Valid(job, cands[next]))
  BY <1>1, <1>2, <1>4 DEF Scan, Goto
<1> QED BY <1>3, <1>4

LEMMA TypeInit == Init => TypeOK
<1> SUFFICES ASSUME Init PROVE TypeOK
  OBVIOUS
<1>1. requests \in [Texts -> Nat] /\ deaths \in [Texts -> Nat]
  BY DEF Init
<1> QED BY <1>1, NoJobType DEF Init, TypeOK, NoRules

LEMMA TypeStep == TypeOK /\ [Next]_vars => TypeOK'
<1> SUFFICES ASSUME TypeOK, [Next]_vars PROVE TypeOK'
  OBVIOUS
<1> USE DEF TypeOK, Goto
<1>1. CASE UNCHANGED vars
  BY <1>1 DEF vars
<1>2. ASSUME NEW j \in Jobs, Begin(j) PROVE TypeOK'
  BY <1>2 DEF Begin
<1>3. ASSUME AskFails PROVE TypeOK'
  BY <1>3, CountedType DEF AskFails
<1>4. ASSUME NEW r \in Responses, Answered(r) PROVE TypeOK'
  <2>1. requests' \in [Texts -> Nat]
    BY <1>4, CountedType DEF Answered
  <2>2. CASE HasCandidates(r)
    BY <1>4, <2>1, <2>2, FoundType DEF Answered
  <2>3. CASE ~HasCandidates(r)
    BY <1>4, <2>1, <2>3 DEF Answered, Error, Diagnostic
  <2> QED BY <2>2, <2>3
<1>5. ASSUME Scan PROVE TypeOK'
  <2>1. next \in DOMAIN cands /\ cands[next] \in Candidates
    BY <1>5 DEF Scan
  <2>2. ToItem(job, cands[next], next) \in Items
    BY <2>1, ItemType
  <2>3. Diagnostics(job, cands[next], next) \subseteq Diagnostic
    BY <2>1, DiagnosticsType
  <2>4. items' \in Seq(Items)
    <3>1. items' = items \/ items' = Append(items, ToItem(job, cands[next], next))
      BY <1>5, ScanItems
    <3>2. items \in Seq(Items)
      OBVIOUS
    <3>3. Append(items, ToItem(job, cands[next], next)) \in Seq(Items)
      BY <2>2, <3>2
    <3> QED BY <3>1, <3>2, <3>3
  <2>5. diags' \subseteq Diagnostic
    BY <1>5, <2>3 DEF Scan
  <2>6. next' \in Nat \ {0} /\ pc' \in {"scanning", "invalid"}
    BY <1>5 DEF Scan
  <2> QED BY <1>5, <2>4, <2>5, <2>6 DEF Scan
<1>6. ASSUME Scanned \/ Use \/ Swallow PROVE TypeOK'
  <2>1. CASE Scanned
    BY <2>1 DEF Scanned
  <2>2. CASE Use
    BY <2>2 DEF Use
  <2>3. CASE Swallow
    BY <2>3 DEF Swallow
  <2> QED BY <1>6, <2>1, <2>2, <2>3
<1>7. ASSUME FallBack PROVE TypeOK'
  BY <1>7, PatternType DEF FallBack
<1>8. ASSUME Return PROVE TypeOK'
  BY <1>8, LeaveType DEF Return
<1>9. ASSUME Register PROVE TypeOK'
  <2>1. items[next] \in Items
    BY <1>9 DEF Register
  <2> QED BY <1>9, <2>1 DEF Register
<1>10. ASSUME Save PROVE TypeOK'
  <2>1. saved' = [rules |-> ledger, processed |-> saved.processed \cup {job.text}]
        /\ job.text \in Texts
    BY <1>10, JobFields DEF Save
  <2>2. saved'.rules = ledger /\ saved'.processed = saved.processed \cup {job.text}
    BY <2>1
  <2> QED BY <1>10, <2>1, <2>2, LeaveType DEF Save
<1>11. ASSUME Kill PROVE TypeOK'
  <2>1. deaths' \in [Texts -> Nat]
    <3>1. job.text \in Texts
      BY JobFields
    <3>2. deaths[job.text] + 1 \in Nat
      BY <3>1
    <3> QED BY <1>11, <3>1, <3>2 DEF Kill
  <2> QED BY <1>11, <2>1, LeaveType DEF Kill
<1> QED BY <1>1, <1>2, <1>3, <1>4, <1>5, <1>6, <1>7, <1>8, <1>9, <1>10, <1>11 DEF Next, Step

(* The variables keep their types whatever the provider answers.           *)
THEOREM TypeCorrect == Spec => []TypeOK
<1> QED BY TypeInit, TypeStep, PTL DEF Spec

-----------------------------------------------------------------------------
(* The inductive invariant.                                                *)

IndInv ==
    /\ TypeOK /\ PhaseInv /\ LedgerInv /\ RequestsInv /\ ScanInv /\ RegisterInv
    /\ CandidatesAccounted /\ AuthorityKept

LEMMA NoCandidates == cands = <<>> => ValidAt = {} /\ DOMAIN cands = {}
BY DEF ValidAt

(* Registering nothing.                                                    *)
LEMMA RegisterNone ==
    ASSUME NEW rules, NEW f
    PROVE  Tx!Register(rules, [i \in 1..(1 - 1) |-> f[i]]) = rules
BY DEF Tx!Register

LEMMA IndInit == Init => IndInv
<1> SUFFICES ASSUME Init PROVE IndInv
  OBVIOUS
<1>1. TypeOK /\ pc = "idle" /\ cands = <<>> /\ items = <<>> /\ diags = {} /\ ledger = {}
      /\ saved.rules = {} /\ next = 1 /\ job = NoJob
  BY TypeInit DEF Init, NoRules
<1>2. PhaseInv /\ LedgerInv /\ ScanInv /\ RegisterInv /\ CandidatesAccounted
  BY <1>1 DEF PhaseInv, LedgerInv, ScanInv, RegisterInv, CandidatesAccounted
<1>3. RequestsInv
  BY DEF Init, RequestsInv
<1>4. AuthorityKept
  BY <1>1 DEF AuthorityKept
<1> QED BY <1>1, <1>2, <1>3, <1>4 DEF IndInv

(* A call that is over leaves nothing behind.                              *)
LEMMA LeaveInv ==
    ASSUME Leave, TypeOK, \A r \in saved'.rules : r.authority = "USER" /\ r.id = "caller"
                                                /\ r.text \in saved'.processed
    PROVE  PhaseInv' /\ LedgerInv' /\ ScanInv' /\ RegisterInv' /\ CandidatesAccounted' /\ AuthorityKept'
<1>1. PhaseInv' /\ LedgerInv' /\ ScanInv' /\ RegisterInv' /\ CandidatesAccounted'
  BY DEF Leave, PhaseInv, LedgerInv, ScanInv, RegisterInv, CandidatesAccounted
<1>2. AuthorityKept'
  BY DEF Leave, AuthorityKept
<1> QED BY <1>1, <1>2

LEMMA PhaseStep == IndInv /\ [Next]_vars => PhaseInv'
<1> SUFFICES ASSUME IndInv, [Next]_vars PROVE PhaseInv'
  OBVIOUS
<1> USE DEF IndInv
<1>0. TypeOK /\ job \in Jobs
  BY DEF TypeOK
<1>1. CASE UNCHANGED vars
  BY <1>1 DEF vars, PhaseInv, ValidAt, Known
<1>2. ASSUME NEW j \in Jobs, Begin(j) PROVE PhaseInv'
  <2>1. cands' = <<>> /\ ValidAt' = {}
    BY <1>2 DEF Begin, PhaseInv, ValidAt
  <2> QED BY <1>2, <2>1, JobFields DEF Begin, PhaseInv, Goto, Known
<1>3. ASSUME AskFails PROVE PhaseInv'
  BY <1>3 DEF AskFails, PhaseInv, Goto, Known
<1>4. ASSUME NEW r \in Responses, Answered(r) PROVE PhaseInv'
  BY <1>4 DEF Answered, PhaseInv, Goto, Known
<1>5. ASSUME Scan PROVE PhaseInv'
  <2>1. pc = "scanning" /\ UNCHANGED <<job, saved, ledger>>
    BY <1>5 DEF Scan
  <2> QED BY <1>0, <1>5, <2>1, ScanItems DEF PhaseInv, Known
<1>6. ASSUME Scanned PROVE PhaseInv'
  BY <1>6 DEF Scanned, PhaseInv, Goto, Known
<1>7. ASSUME Use PROVE PhaseInv'
  <2>1. items = <<>> => ValidAt = {}
    BY <1>7 DEF Use, CandidatesAccounted, ItemsAreValid
  <2>2. ValidAt' = ValidAt
    BY <1>7 DEF Use, ValidAt
  <2> QED BY <1>7, <2>1, <2>2 DEF Use, PhaseInv, Goto, Known
<1>8. ASSUME Swallow PROVE PhaseInv'
  <2>1. ValidAt' = {}
    BY <1>8 DEF Swallow, PhaseInv, ValidAt
  <2> QED BY <1>8, <2>1 DEF Swallow, PhaseInv, Goto, Known
<1>9. ASSUME FallBack PROVE PhaseInv'
  BY <1>9 DEF FallBack, PhaseInv, Goto, Known
<1>10. ASSUME Return \/ Save \/ Kill PROVE PhaseInv'
  BY <1>10 DEF Return, Save, Kill, Leave, PhaseInv
<1>11. ASSUME Register PROVE PhaseInv'
  BY <1>11 DEF Register, PhaseInv, Known
<1> QED BY <1>1, <1>2, <1>3, <1>4, <1>5, <1>6, <1>7, <1>8, <1>9, <1>10, <1>11 DEF Next, Step

LEMMA LedgerStep == IndInv /\ [Next]_vars => LedgerInv'
<1> SUFFICES ASSUME IndInv, [Next]_vars PROVE LedgerInv'
  OBVIOUS
<1> USE DEF IndInv
<1>1. CASE UNCHANGED vars
  BY <1>1 DEF vars, LedgerInv
<1>2. ASSUME NEW j \in Jobs, Begin(j) PROVE LedgerInv'
  BY <1>2 DEF Begin, LedgerInv, AuthorityKept
<1>3. ASSUME AskFails \/ (\E r \in Responses : Answered(r)) \/ Scan \/ Scanned \/ Use \/ Swallow
             \/ FallBack
      PROVE  LedgerInv'
  <2>1. UNCHANGED <<job, ledger, saved>>
    BY <1>3 DEF AskFails, Answered, Scan, Scanned, Use, Swallow, FallBack
  <2> QED BY <2>1 DEF LedgerInv
<1>4. ASSUME Return \/ Save \/ Kill PROVE LedgerInv'
  BY <1>4 DEF Return, Save, Kill, Leave, LedgerInv
<1>5. ASSUME Register PROVE LedgerInv'
  <2>1. next \in DOMAIN items
    BY <1>5 DEF Register, TypeOK
  <2>2. items[next].authority = "USER" /\ items[next].id = "caller" /\ items[next].text = job.text
    BY <1>5, <2>1, JobFields DEF Register, AuthorityKept, TypeOK
  <2> QED BY <1>5, <2>2 DEF Register, LedgerInv
<1> QED BY <1>1, <1>2, <1>3, <1>4, <1>5 DEF Next, Step

LEMMA RequestsStep == IndInv /\ [Next]_vars => RequestsInv'
<1> SUFFICES ASSUME IndInv, [Next]_vars, NEW t \in Texts
             PROVE  requests'[t] <= deaths'[t] + (IF Spent(t)' THEN 1 ELSE 0)
  BY DEF RequestsInv
<1> USE DEF IndInv
<1>1. /\ requests \in [Texts -> Nat] /\ deaths \in [Texts -> Nat]
      /\ requests[t] \in Nat /\ deaths[t] \in Nat /\ job.text \in Texts
      /\ requests[t] <= deaths[t] + (IF Spent(t) THEN 1 ELSE 0)
  BY JobFields DEF TypeOK, RequestsInv
<1>2. ASSUME UNCHANGED <<requests, deaths>>, Spent(t) => Spent(t)'
      PROVE  requests'[t] <= deaths'[t] + (IF Spent(t)' THEN 1 ELSE 0)
  BY <1>1, <1>2
<1>3. CASE UNCHANGED vars
  BY <1>2, <1>3 DEF vars, Spent
<1>4. ASSUME NEW j \in Jobs, Begin(j) PROVE requests'[t] <= deaths'[t] + (IF Spent(t)' THEN 1 ELSE 0)
  BY <1>2, <1>4 DEF Begin, Spent
<1>5. ASSUME AskFails \/ (\E r \in Responses : Answered(r))
      PROVE  requests'[t] <= deaths'[t] + (IF Spent(t)' THEN 1 ELSE 0)
  <2>1. /\ pc = "asking" /\ pc' \in {"failed", "scanning", "invalid", "extracted"}
        /\ UNCHANGED <<job, saved, deaths>> /\ requests' = Counted
    BY <1>5 DEF AskFails, Answered, Goto
  <2>2. CASE job.by = "prompt_hook" /\ job.text = t
    <3>1. ~Spent(t) /\ Spent(t)'
      BY <2>1, <2>2 DEF Spent, PhaseInv, Known
    <3>2. requests'[t] = requests[t] + 1
      BY <1>1, <2>1, <2>2 DEF Counted
    <3> QED BY <1>1, <2>1, <3>1, <3>2
  <2>3. CASE ~(job.by = "prompt_hook" /\ job.text = t)
    <3>1. requests'[t] = requests[t]
      BY <1>1, <2>1, <2>3 DEF Counted
    <3>2. Spent(t) <=> Spent(t)'
      BY <2>1, <2>3 DEF Spent
    <3> QED BY <1>1, <2>1, <3>1, <3>2
  <2> QED BY <2>2, <2>3
<1>6. ASSUME Scan \/ Scanned \/ Use \/ Swallow \/ FallBack \/ Register
      PROVE  requests'[t] <= deaths'[t] + (IF Spent(t)' THEN 1 ELSE 0)
  <2>1. /\ pc \notin {"idle", "asking"} /\ pc' \notin {"idle", "asking"}
        /\ UNCHANGED <<job, saved, deaths, requests>>
    <3>1. CASE Scan
      BY <3>1, ScanItems DEF Scan
    <3>2. CASE ~Scan
      BY <1>6, <3>2 DEF Scanned, Use, Swallow, FallBack, Register, Goto
    <3> QED BY <3>1, <3>2
  <2> QED BY <1>2, <2>1 DEF Spent
<1>7. ASSUME Return PROVE requests'[t] <= deaths'[t] + (IF Spent(t)' THEN 1 ELSE 0)
  BY <1>2, <1>7 DEF Return, Spent
<1>8. ASSUME Save PROVE requests'[t] <= deaths'[t] + (IF Spent(t)' THEN 1 ELSE 0)
  BY <1>2, <1>8 DEF Save, Spent
<1>9. ASSUME Kill PROVE requests'[t] <= deaths'[t] + (IF Spent(t)' THEN 1 ELSE 0)
  <2>1. CASE job.text = t
    <3>1. deaths'[t] = deaths[t] + 1 /\ requests' = requests
      BY <1>1, <1>9, <2>1 DEF Kill
    <3> QED BY <1>1, <3>1
  <2>2. CASE job.text # t
    <3>1. deaths'[t] = deaths[t] /\ requests' = requests /\ saved' = saved
      BY <1>1, <1>9, <2>2 DEF Kill
    <3>2. Spent(t) => Spent(t)'
      BY <2>2, <3>1 DEF Spent
    <3> QED BY <1>1, <3>1, <3>2
  <2> QED BY <2>1, <2>2
<1> QED BY <1>3, <1>4, <1>5, <1>6, <1>7, <1>8, <1>9 DEF Next, Step

LEMMA AuthorityStep == IndInv /\ [Next]_vars => AuthorityKept'
<1> SUFFICES ASSUME IndInv, [Next]_vars PROVE AuthorityKept'
  OBVIOUS
<1> USE DEF IndInv
<1>0. job \in Jobs /\ items \in Seq(Items)
  BY DEF TypeOK
<1>1. CASE UNCHANGED vars
  BY <1>1 DEF vars, AuthorityKept
<1>2. ASSUME NEW j \in Jobs, Begin(j) PROVE AuthorityKept'
  BY <1>2 DEF Begin, PhaseInv, AuthorityKept
<1>3. ASSUME AskFails \/ (\E r \in Responses : Answered(r)) \/ Scanned \/ Use \/ Swallow \/ Register
      PROVE  AuthorityKept'
  <2>1. UNCHANGED <<job, items, saved>>
    BY <1>3 DEF AskFails, Answered, Scanned, Use, Swallow, Register
  <2> QED BY <2>1 DEF AuthorityKept
<1>4. ASSUME Scan PROVE AuthorityKept'
  <2> DEFINE it == ToItem(job, cands[next], next)
  <2>1. UNCHANGED <<job, saved>>
    BY <1>4 DEF Scan
  <2>2. CASE items' = items
    BY <2>1, <2>2 DEF AuthorityKept
  <2>3. CASE Valid(job, cands[next]) /\ items' = Append(items, it)
    <3>1. next \in Nat \ {0} /\ cands[next] \in Candidates
      BY <1>4, ScanItems DEF TypeOK
    <3>2. /\ it \in Items /\ it.authority = job.authority /\ it.text = job.text
          /\ it.strength = cands[next].strength
      BY <1>0, <3>1, ItemType
    <3>3. ~(job.authority = "AGENT_INFERENCE" /\ it.strength = "HARD")
      <4>1. job.authority = "AGENT_INFERENCE" => job.task = "requirements"
        BY <1>0, JobFields, ExtractionAssumption DEF Sources, Tasks
      <4> QED BY <2>3, <3>2, <4>1 DEF Valid, Parses, Converts
    <3>4. it.id = "caller"
      BY <3>2 DEF Items
    <3>5. /\ DOMAIN items' = 1..(Len(items) + 1)
          /\ \A k \in DOMAIN items' : IF k \in DOMAIN items THEN items'[k] = items[k]
                                      ELSE items'[k] = it
      <4> HIDE DEF it
      <4> QED BY <1>0, <2>3
    <3> HIDE DEF it
    <3> QED BY <2>1, <3>2, <3>3, <3>4, <3>5 DEF AuthorityKept
  <2> QED BY <1>4, <2>2, <2>3, ScanItems
<1>5. ASSUME FallBack PROVE AuthorityKept'
  <2>1. items' = PatternItems(job) /\ UNCHANGED <<job, saved>> /\ job.by # "library"
    BY <1>5 DEF FallBack, PhaseInv
  <2>2. \A k \in DOMAIN items' : /\ items'[k] \in Items /\ items'[k].authority = job.authority
                                 /\ items'[k].text = job.text
    BY <1>0, <2>1, PatternType
  <2>3. job.authority # "AGENT_INFERENCE"
    BY <1>0, <2>1, JobFields, ExtractionAssumption DEF Sources
  <2> QED BY <2>1, <2>2, <2>3 DEF AuthorityKept, Items
<1>6. ASSUME Return \/ Kill PROVE AuthorityKept'
  BY <1>6 DEF Return, Kill, Leave, AuthorityKept
<1>7. ASSUME Save PROVE AuthorityKept'
  BY <1>7 DEF Save, Leave, AuthorityKept, LedgerInv
<1> QED BY <1>1, <1>2, <1>3, <1>4, <1>5, <1>6, <1>7 DEF Next, Step

LEMMA ScanStep == IndInv /\ [Next]_vars => ScanInv'
<1> SUFFICES ASSUME IndInv, [Next]_vars, pc' = "scanning" PROVE ScanInv'
  BY DEF ScanInv
<1> USE DEF IndInv
<1>0. /\ cands \in Seq(Candidates) /\ items \in Seq(Items) /\ next \in Nat \ {0}
      /\ diags \subseteq Diagnostic /\ job \in Jobs
  BY DEF TypeOK
<1>1. CASE UNCHANGED vars
  BY <1>1 DEF vars, ScanInv, ItemsAreValid, ValidAt, ErrorsAt
<1>2. ASSUME NEW r \in Responses, Answered(r) PROVE ScanInv'
  <2>1. /\ next' = 1 /\ items' = <<>> /\ diags' = {} /\ cands' = CandidatesIn(r) /\ HasCandidates(r)
    BY <1>2 DEF Answered, Goto, PhaseInv
  <2>2. cands' \in Seq(Candidates) /\ Len(cands') \in Nat
    BY <2>1, FoundType
  <2>3. ErrorsAt' = {} /\ DOMAIN items' = {} /\ \A i \in ValidAt' : ~(i < 1)
    BY <2>1, <2>2 DEF ErrorsAt, ValidAt
  <2>4. 1..(next' - 1) = {}
    BY <2>1
  <2> QED BY <2>1, <2>2, <2>3, <2>4 DEF ScanInv
<1>3. ASSUME Scan PROVE ScanInv'
  <2> DEFINE c == cands[next]
             it == ToItem(job, c, next)
  <2>1. /\ next \in DOMAIN cands /\ UNCHANGED <<job, cands>> /\ next' = next + 1 /\ pc = "scanning"
        /\ diags' = diags \cup Diagnostics(job, c, next) /\ ~(job.strict /\ ~Valid(job, c))
        /\ items' = IF Valid(job, c) THEN Append(items, it) ELSE items
    BY <1>0, <1>3 DEF Scan, Goto
  <2>2. /\ ValidAt' = ValidAt /\ (next \in ValidAt <=> Valid(job, c))
    BY <2>1 DEF ValidAt
  <2>3. it \in Items /\ it.at = next
    BY <1>0, <2>1, ItemType
  <2>4. ErrorsAt' = ErrorsAt \cup (IF Valid(job, c) THEN {} ELSE {next})
    <3>1. Error(next).at = next /\ Error(next).severity = "ERROR"
      BY DEF Error
    <3>2. \A e \in Diagnostics(job, c, next) : e.severity = "ERROR" => e.at = next /\ ~Valid(job, c)
      BY DEF Diagnostics, Error, Warning
    <3>3. ~Valid(job, c) => Error(next) \in Diagnostics(job, c, next)
      BY DEF Diagnostics
    <3>4. ASSUME NEW a \in ErrorsAt' PROVE a \in ErrorsAt \/ (a = next /\ ~Valid(job, c))
      BY <2>1, <3>2 DEF ErrorsAt
    <3>5. ErrorsAt \subseteq ErrorsAt'
      BY <2>1 DEF ErrorsAt
    <3>6. ~Valid(job, c) => next \in ErrorsAt'
      BY <2>1, <3>1, <3>3 DEF ErrorsAt
    <3> HIDE DEF c
    <3> QED BY <3>4, <3>5, <3>6
  <2>5. next' <= Len(cands') + 1 /\ ErrorsAt' = (1..(next' - 1)) \ ValidAt'
        /\ (job'.strict => 1..(next' - 1) \subseteq ValidAt')
    BY <1>0, <2>1, <2>2, <2>4 DEF ScanInv
  <2>6. CASE Valid(job, c)
    <3>1. /\ DOMAIN items' = 1..(Len(items) + 1) /\ DOMAIN items = 1..Len(items) /\ Len(items) \in Nat
          /\ items'[Len(items) + 1] = it
          /\ \A k \in DOMAIN items : items'[k] = items[k]
      <4> HIDE DEF it, c
      <4> QED BY <1>0, <2>1, <2>3, <2>6
    <3>2. \A k \in DOMAIN items' : /\ items'[k].at \in ValidAt' /\ items'[k].at < next'
                                   /\ items'[k] = ToItem(job', cands'[items'[k].at], items'[k].at)
      <4> TAKE k \in DOMAIN items'
      <4>1. CASE k = Len(items) + 1
        BY <1>0, <2>1, <2>2, <2>3, <2>6, <3>1, <4>1
      <4>2. CASE k \in DOMAIN items
        BY <1>0, <2>1, <2>2, <3>1, <4>2 DEF ScanInv, ValidAt
      <4> QED BY <3>1, <4>1, <4>2
    <3>3. \A i \in ValidAt' : i < next' => \E k \in DOMAIN items' : items'[k].at = i
      <4> TAKE i \in ValidAt'
      <4>1. CASE i = next
        BY <2>3, <3>1, <4>1
      <4>2. CASE i < next
        <5>1. PICK k \in DOMAIN items : items[k].at = i
          BY <2>1, <2>2, <4>2 DEF ScanInv
        <5> QED BY <3>1, <5>1
      <4> QED BY <1>0, <2>1, <4>1, <4>2 DEF ValidAt
    <3>4. \A k, l \in DOMAIN items' : k < l => items'[k].at < items'[l].at
      <4> TAKE k, l \in DOMAIN items'
      <4> HAVE k < l
      <4>1. k \in DOMAIN items
        BY <3>1
      <4>2. CASE l \in DOMAIN items
        BY <2>1, <3>1, <4>1, <4>2 DEF ScanInv
      <4>3. CASE l = Len(items) + 1
        BY <2>1, <2>3, <3>1, <4>1, <4>3 DEF ScanInv
      <4> QED BY <3>1, <4>2, <4>3
    <3> QED BY <2>5, <3>2, <3>3, <3>4 DEF ScanInv
  <2>7. CASE ~Valid(job, c)
    <3>1. items' = items
      BY <2>1, <2>7
    <3>2. \A k \in DOMAIN items' : /\ items'[k].at \in ValidAt' /\ items'[k].at < next'
                                   /\ items'[k] = ToItem(job', cands'[items'[k].at], items'[k].at)
      BY <1>0, <2>1, <2>2, <3>1 DEF ScanInv, ValidAt
    <3>3. \A i \in ValidAt' : i < next' => i < next
      BY <1>0, <2>1, <2>2, <2>7 DEF ValidAt
    <3> QED BY <2>1, <2>2, <2>5, <3>1, <3>2, <3>3 DEF ScanInv
  <2> QED BY <2>6, <2>7
<1>4. ASSUME (\E j \in Jobs : Begin(j)) \/ AskFails \/ Scanned \/ Use \/ Swallow \/ FallBack \/ Return
             \/ Register \/ Save \/ Kill
      PROVE  FALSE
  BY <1>4 DEF Begin, AskFails, Scanned, Use, Swallow, FallBack, Return, Register, Save, Kill, Leave, Goto
<1> QED BY <1>1, <1>2, <1>3, <1>4 DEF Next, Step

LEMMA AccountedStep == IndInv /\ [Next]_vars => CandidatesAccounted'
<1> SUFFICES ASSUME IndInv, [Next]_vars PROVE CandidatesAccounted'
  OBVIOUS
<1> USE DEF IndInv
<1>0. /\ cands \in Seq(Candidates) /\ Len(cands) \in Nat /\ DOMAIN cands = 1..Len(cands)
      /\ next \in Nat \ {0} /\ diags \subseteq Diagnostic /\ job \in Jobs
  BY DEF TypeOK
<1>1. CASE UNCHANGED vars
  BY <1>1 DEF vars, CandidatesAccounted, ItemsAreValid, ValidAt, ErrorsAt
<1>2. ASSUME NEW j \in Jobs, Begin(j) PROVE CandidatesAccounted'
  BY <1>2 DEF Begin, Goto, PhaseInv, CandidatesAccounted
<1>3. ASSUME NEW r \in Responses, Answered(r) PROVE CandidatesAccounted'
  <2>1. CASE HasCandidates(r)
    BY <1>3, <2>1 DEF Answered, Goto, CandidatesAccounted
  <2>2. CASE ~HasCandidates(r)
    <3>1. cands' = <<>> /\ items' = <<>> /\ job' = job /\ ValidAt' = {} /\ DOMAIN cands' = {}
      BY <1>3, <2>2 DEF Answered, PhaseInv, ValidAt
    <3>2. pc' = "extracted" => ~job.strict /\ diags' = {Error(0)}
      BY <1>3, <2>2 DEF Answered, Goto
    <3>3. pc' = "extracted" => ErrorsAt' \ {0} = {}
      BY <3>2 DEF ErrorsAt, Error
    <3> QED BY <3>1, <3>2, <3>3 DEF CandidatesAccounted, ItemsAreValid
  <2> QED BY <2>1, <2>2
<1>4. ASSUME Scan PROVE CandidatesAccounted'
  <2>1. CASE pc' = "scanning"
    BY <2>1 DEF CandidatesAccounted
  <2>2. CASE pc' # "scanning"
    <3>1. /\ job.strict /\ ~Valid(job, cands[next]) /\ next \in DOMAIN cands
          /\ UNCHANGED <<job, cands>> /\ pc' = "invalid"
      BY <1>4, <2>2, ScanItems DEF Scan, Goto
    <3>2. next \notin ValidAt'
      BY <3>1 DEF ValidAt
    <3> QED BY <3>1, <3>2 DEF CandidatesAccounted
  <2> QED BY <2>1, <2>2
<1>5. ASSUME Scanned PROVE CandidatesAccounted'
  <2>1. /\ pc = "scanning" /\ pc' = "extracted" /\ next = Len(cands) + 1
        /\ UNCHANGED <<job, cands, items, diags>>
    BY <1>0, <1>5 DEF Scanned, Goto, ScanInv
  <2>2. ValidAt' = ValidAt /\ ErrorsAt' = ErrorsAt /\ ValidAt \subseteq DOMAIN cands
    BY <2>1 DEF ValidAt, ErrorsAt
  <2>3. ItemsAreValid'
    BY <1>0, <2>1, <2>2 DEF ScanInv, ItemsAreValid
  <2>4. ErrorsAt = DOMAIN cands \ ValidAt
    BY <1>0, <2>1 DEF ScanInv
  <2>5. ErrorsAt' \ {0} = DOMAIN cands' \ ValidAt'
    BY <1>0, <2>1, <2>2, <2>4
  <2>6. ASSUME job.strict PROVE ValidAt = DOMAIN cands /\ \A d \in diags : d.severity = "WARNING"
    <3>1. 1..(next - 1) = DOMAIN cands /\ 1..(next - 1) \subseteq ValidAt
      BY <1>0, <2>1, <2>6 DEF ScanInv
    <3>2. ValidAt = DOMAIN cands /\ ErrorsAt = {}
      BY <2>2, <2>4, <3>1
    <3>3. ASSUME NEW d \in diags PROVE d.severity = "WARNING"
      <4>1. d.severity \in {"ERROR", "WARNING"}
        BY <1>0 DEF Diagnostic
      <4> QED BY <3>2, <4>1 DEF ErrorsAt
    <3> QED BY <3>2, <3>3
  <2> QED BY <2>1, <2>2, <2>3, <2>5, <2>6 DEF CandidatesAccounted
<1>6. ASSUME AskFails \/ Use \/ Swallow \/ FallBack \/ Return \/ Register \/ Save \/ Kill
      PROVE  CandidatesAccounted'
  <2>1. pc' \notin {"extracted", "invalid"}
    BY <1>6 DEF AskFails, Use, Swallow, FallBack, Return, Register, Save, Kill, Leave, Goto
  <2> QED BY <2>1 DEF CandidatesAccounted
<1> QED BY <1>1, <1>2, <1>3, <1>4, <1>5, <1>6 DEF Next, Step

IsNew(rules, f, k) ==
    /\ \A a \in rules : a.body # f[k].body
    /\ \A j \in 1..(k - 1) : f[j].body # f[k].body

NewOnes(rules, f, n) == {f[i] : i \in {k \in 1..n : IsNew(rules, f, k)}}

LEMMA RegisterIs ==
    ASSUME NEW rules, NEW f, NEW n \in Nat, NEW cs, cs = [i \in 1..n |-> f[i]]
    PROVE  Tx!Register(rules, cs) = rules \cup NewOnes(rules, f, n)
<1> DEFINE First == {i \in DOMAIN cs : /\ \A a \in rules : a.body # cs[i].body
                                       /\ \A j \in DOMAIN cs : j < i => cs[j].body # cs[i].body}
           New == {k \in 1..n : IsNew(rules, f, k)}
<1>1. Tx!Register(rules, cs) = rules \cup {cs[i] : i \in First}
  BY DEF Tx!Register
<1>2. DOMAIN cs = 1..n /\ \A i \in 1..n : cs[i] = f[i]
  OBVIOUS
<1>3. First = New
  <2>1. ASSUME NEW i \in 1..n
        PROVE  (\A j \in DOMAIN cs : j < i => cs[j].body # cs[i].body)
               <=> (\A j \in 1..(i - 1) : f[j].body # f[i].body)
    <3>1. 1..(i - 1) = {j \in 1..n : j < i}
      OBVIOUS
    <3> QED BY <1>2, <3>1
  <2> QED BY <1>2, <2>1 DEF IsNew
<1>4. {cs[i] : i \in First} = {f[i] : i \in First}
  BY <1>2, <1>3
<1> QED BY <1>1, <1>3, <1>4 DEF NewOnes

(* One more constraint: the ledger the loop built so far decides as the    *)
(* definition over the whole sequence does.                                *)
LEMMA RegisterOne ==
    ASSUME NEW rules, NEW f, NEW n \in Nat \ {0}, NEW inLedger,
           inLedger = rules \cup NewOnes(rules, f, n - 1),
           \A i \in 1..(n - 1) : \E a \in inLedger : a.body = f[i].body
    PROVE  rules \cup NewOnes(rules, f, n) =
               IF \E a \in inLedger : a.body = f[n].body THEN inLedger ELSE inLedger \cup {f[n]}
<1>3. IsNew(rules, f, n) <=> ~\E a \in inLedger : a.body = f[n].body
  <2> USE DEF IsNew
  <2>1. ASSUME IsNew(rules, f, n), NEW a \in inLedger, a.body = f[n].body PROVE FALSE
    <3>1. CASE a \in rules
      BY <2>1, <3>1
    <3>2. CASE \E k \in 1..(n - 1) : a = f[k]
      BY <2>1, <3>2
    <3> QED BY <3>1, <3>2 DEF NewOnes
  <2>2. ASSUME ~\E a \in inLedger : a.body = f[n].body PROVE IsNew(rules, f, n)
    <3>1. \A a \in rules : a.body # f[n].body
      BY <2>2
    <3>2. \A j \in 1..(n - 1) : f[j].body # f[n].body
      BY <2>2
    <3> QED BY <3>1, <3>2
  <2> QED BY <2>1, <2>2
<1>4. 1..n = 1..(n - 1) \cup {n}
  OBVIOUS
<1>5. NewOnes(rules, f, n) =
          NewOnes(rules, f, n - 1) \cup (IF IsNew(rules, f, n) THEN {f[n]} ELSE {})
  BY <1>4 DEF NewOnes
<1> QED BY <1>3, <1>5

LEMMA RegisterStep == IndInv /\ [Next]_vars => RegisterInv'
<1> SUFFICES ASSUME IndInv, [Next]_vars, pc' = "registering", job'.by = "prompt_hook"
             PROVE  RegisterInv'
  BY DEF RegisterInv
<1> USE DEF IndInv
<1>0. /\ items \in Seq(Items) /\ Len(items) \in Nat /\ DOMAIN items = 1..Len(items)
      /\ next \in Nat \ {0} /\ job \in Jobs
  BY DEF TypeOK
<1>1. CASE UNCHANGED vars
  BY <1>1 DEF vars, RegisterInv, ItemsAreValid, ValidAt, Known
<1>2. ASSUME next' = 1, ledger' = saved'.rules, items' \in Seq(Items),
             IF Known(job)' THEN items' = <<>>
             ELSE IF ValidAt' # {} THEN ItemsAreValid' ELSE items' = PatternItems(job')
      PROVE  RegisterInv'
  <2> DEFINE rules == {Rule(r) : r \in saved'.rules}
             f == [i \in DOMAIN items' |-> Rule(items'[i])]
  <2>1. next' <= Len(items') + 1
    BY <1>2
  <2>2. [i \in 1..(1 - 1) |-> Rule(items'[i])] = [i \in 1..(1 - 1) |-> f[i]]
    OBVIOUS
  <2>3. rules = Tx!Register(rules, [i \in 1..(1 - 1) |-> Rule(items'[i])])
    BY <2>2, RegisterNone
  <2> QED BY <1>2, <2>1, <2>3 DEF RegisterInv, Known
<1>3. ASSUME NEW j \in Jobs, Begin(j) PROVE RegisterInv'
  <2>1. /\ next' = 1 /\ items' = <<>> /\ cands' = <<>> /\ ValidAt' = {}
        /\ job' = j /\ saved' = saved /\ ledger' = saved'.rules
    BY <1>3 DEF Begin, PhaseInv, ValidAt
  <2>2. ~Known(j) => PatternItems(j) = <<>>
    BY <1>3, <2>1, JobFields, PatternType DEF Begin, Goto
  <2> QED BY <1>2, <2>1, <2>2 DEF Known
<1>4. ASSUME Use PROVE RegisterInv'
  <2>1. /\ next' = 1 /\ UNCHANGED <<job, cands, items, ledger, saved>> /\ items # <<>>
        /\ pc = "extracted" /\ job.by = "prompt_hook"
    BY <1>4 DEF Use, Goto
  <2>2. ItemsAreValid' /\ ValidAt' # {} /\ ~Known(job)'
    BY <1>0, <2>1 DEF CandidatesAccounted, ItemsAreValid, ValidAt, PhaseInv, Known
  <2>3. ledger' = saved'.rules
    BY <2>1 DEF PhaseInv
  <2> QED BY <1>0, <1>2, <2>1, <2>2, <2>3
<1>5. ASSUME FallBack PROVE RegisterInv'
  <2>1. /\ next' = 1 /\ UNCHANGED <<job, cands, ledger, saved>> /\ items' = PatternItems(job)
        /\ pc = "falling_back" /\ job.by = "prompt_hook"
    BY <1>5 DEF FallBack
  <2>2. ValidAt' = {} /\ ~Known(job)' /\ ledger' = saved'.rules /\ items' \in Seq(Items)
    BY <1>0, <2>1, PatternType DEF ValidAt, PhaseInv, Known
  <2> QED BY <1>2, <2>1, <2>2
<1>6. ASSUME Register PROVE RegisterInv'
  <2> DEFINE S == {Rule(r) : r \in saved.rules}
             L == {Rule(r) : r \in ledger}
             f == [i \in DOMAIN items |-> Rule(items[i])]
  <2>1. /\ next \in DOMAIN items /\ next' = next + 1
        /\ UNCHANGED <<job, cands, items, saved>>
        /\ pc = "registering" /\ job.by = "prompt_hook"
        /\ ledger' = IF \E r \in ledger : r.body = items[next].body
                     THEN ledger ELSE ledger \cup {items[next]}
    BY <1>0, <1>6 DEF Register
  <2>2. \A i \in 1..next : i \in DOMAIN items /\ f[i] = Rule(items[i]) /\ f[i].body = items[i].body
    BY <1>0, <2>1 DEF Rule
  <2>3. L = Tx!Register(S, [i \in 1..(next - 1) |-> f[i]])
    <3>1. [i \in 1..(next - 1) |-> f[i]] = [i \in 1..(next - 1) |-> Rule(items[i])]
      BY <1>0, <2>2
    <3> QED BY <2>1, <3>1 DEF RegisterInv
  <2>13. ASSUME NEW i \in 1..next
         PROVE  (\E a \in L : a.body = f[i].body) <=> \E r \in ledger : r.body = items[i].body
    <3>1. \A r \in ledger : Rule(r) \in L /\ Rule(r).body = r.body
      BY DEF Rule
    <3>2. \A a \in L : \E r \in ledger : a.body = r.body
      BY DEF Rule
    <3>3. f[i].body = items[i].body
      BY <2>2
    <3> HIDE DEF L, f
    <3> QED BY <3>1, <3>2, <3>3
  <2>4. \A i \in 1..(next - 1) : \E a \in L : a.body = f[i].body
    <3>1. \A i \in 1..(next - 1) : i \in 1..next /\ \E r \in ledger : r.body = items[i].body
      BY <1>0, <2>1 DEF RegisterInv
    <3> HIDE DEF L, f
    <3> QED BY <2>13, <3>1
  <2>5. (\E a \in L : a.body = f[next].body) <=> \E r \in ledger : r.body = items[next].body
    <3>1. next \in 1..next
      BY <1>0
    <3> HIDE DEF L, f
    <3> QED BY <2>13, <3>1
  <2>6. {Rule(r) : r \in ledger'} = IF \E a \in L : a.body = f[next].body THEN L ELSE L \cup {f[next]}
    BY <1>0, <2>1, <2>2, <2>5
  <2>7. Tx!Register(S, [i \in 1..next |-> f[i]]) =
            IF \E a \in L : a.body = f[next].body THEN L ELSE L \cup {f[next]}
    <3> DEFINE before == [i \in 1..(next - 1) |-> f[i]]
               now == [i \in 1..next |-> f[i]]
    <3>1. next \in Nat \ {0}
      BY <1>0
    <3>2. L = Tx!Register(S, before)
      BY <2>3
    <3>3. before = [i \in 1..(next - 1) |-> f[i]] /\ now = [i \in 1..next |-> f[i]]
      OBVIOUS
    <3> HIDE DEF S, L, f, before, now
    <3>4. Tx!Register(S, now) = S \cup NewOnes(S, f, next)
      BY <3>1, <3>3, RegisterIs
    <3>5. L = S \cup NewOnes(S, f, next - 1)
      BY <3>1, <3>2, <3>3, RegisterIs
    <3>6. S \cup NewOnes(S, f, next) = IF \E a \in L : a.body = f[next].body THEN L ELSE L \cup {f[next]}
      BY <2>4, <3>1, <3>5, RegisterOne
    <3>7. Tx!Register(S, now) = IF \E a \in L : a.body = f[next].body THEN L ELSE L \cup {f[next]}
      BY <3>4, <3>6
    <3> QED BY <3>7 DEF now
  <2>8. [i \in 1..next |-> f[i]] = [i \in 1..(next' - 1) |-> Rule(items'[i])]
    BY <1>0, <2>1, <2>2
  <2>9. {Rule(r) : r \in ledger'} =
            Tx!Register({Rule(r) : r \in saved'.rules}, [i \in 1..(next' - 1) |-> Rule(items'[i])])
    BY <2>1, <2>6, <2>7, <2>8
  <2>10. \A i \in 1..(next' - 1) : \E r \in ledger' : r.body = items'[i].body
    <3>1. \E r \in ledger' : r.body = items[next].body
      BY <2>1
    <3>2. ledger \subseteq ledger'
      BY <2>1
    <3> QED BY <1>0, <2>1, <3>1, <3>2 DEF RegisterInv
  <2>11. next' <= Len(items') + 1
    BY <1>0, <2>1
  <2>12. IF Known(job)' THEN items' = <<>> /\ ledger' = saved'.rules
         ELSE IF ValidAt' # {} THEN ItemsAreValid' ELSE items' = PatternItems(job')
    <3>1. ~Known(job)
      BY <1>0, <2>1 DEF RegisterInv
    <3> QED BY <2>1, <3>1 DEF RegisterInv, Known, ValidAt, ItemsAreValid
  <2> QED BY <2>9, <2>10, <2>11, <2>12 DEF RegisterInv
<1>7. ASSUME AskFails \/ (\E r \in Responses : Answered(r)) \/ Scan \/ Scanned \/ Swallow \/ Return
             \/ Save \/ Kill
      PROVE  FALSE
  <2>1. CASE Scan
    BY <2>1, ScanItems
  <2> QED BY <1>7, <2>1 DEF AskFails, Answered, Scanned, Swallow, Return, Save, Kill, Leave, Goto
<1> QED BY <1>1, <1>3, <1>4, <1>5, <1>6, <1>7 DEF Next, Step

LEMMA IndStep == IndInv /\ [Next]_vars => IndInv'
BY TypeStep, PhaseStep, LedgerStep, RequestsStep, ScanStep, RegisterStep, AccountedStep, AuthorityStep
   DEF IndInv

THEOREM Invariance == Spec => []IndInv
<1> QED BY IndInit, IndStep, PTL DEF Spec

-----------------------------------------------------------------------------
(* The results.                                                            *)

(* Every candidate is an item or has an error, in both modes.              *)
THEOREM AccountingCorrect == Spec => []CandidatesAccounted
<1>1. IndInv => CandidatesAccounted
  BY DEF IndInv
<1> QED BY <1>1, Invariance, PTL

(* No answer of a provider changes who is recorded as the author.          *)
THEOREM AuthorityCorrect == Spec => []AuthorityKept
<1>1. IndInv => AuthorityKept
  BY DEF IndInv
<1> QED BY <1>1, Invariance, PTL

(* A prompt costs one request, but for the hooks that were killed.         *)
THEOREM RequestsBounded == Spec => []AskedOncePerPrompt
<1>1. IndInv => AskedOncePerPrompt
  <2> SUFFICES ASSUME IndInv, NEW t \in Texts PROVE requests[t] <= 1 + deaths[t]
    BY DEF AskedOncePerPrompt
  <2>1. requests[t] \in Nat /\ deaths[t] \in Nat
    BY DEF IndInv, TypeOK
  <2>2. requests[t] <= deaths[t] + (IF Spent(t) THEN 1 ELSE 0)
    BY DEF IndInv, RequestsInv
  <2> QED BY <2>1, <2>2
<1> QED BY <1>1, Invariance, PTL

(* A saved prompt hook did to its session what SessionTx says.             *)
THEOREM RegistersCorrect == Spec => RegistersExtract
<1>1. IndInv /\ [Next]_vars => [RegistersStep]_vars
  <2> SUFFICES ASSUME IndInv, Next, saved' # saved PROVE RegistersStep
    BY DEF vars, RegistersStep
  <2>1. Save
    BY DEF Next, Step, Begin, AskFails, Answered, Scan, Scanned, Use, Swallow, FallBack, Return,
           Register, Kill
  <2>2. /\ pc = "registering" /\ job.by = "prompt_hook" /\ next > Len(items)
        /\ saved' = [rules |-> ledger, processed |-> saved.processed \cup {job.text}]
    BY <2>1 DEF Save
  <2>3. saved'.rules = ledger /\ saved'.processed = saved.processed \cup {job.text}
    BY <2>2
  <2>4. items \in Seq(Items) /\ Len(items) \in Nat /\ DOMAIN items = 1..Len(items) /\ next \in Nat
        /\ saved = [rules |-> saved.rules, processed |-> saved.processed]
    BY DEF IndInv, TypeOK
  <2>5. RegisterInv
    BY DEF IndInv
  <2>6. ~Known(job)
    <3> SUFFICES ASSUME Known(job) PROVE FALSE
      OBVIOUS
    <3>1. ledger = saved.rules /\ job.text \in saved.processed
      BY <2>2, <2>5 DEF RegisterInv, Known
    <3>2. saved.processed \cup {job.text} = saved.processed
      BY <3>1
    <3> QED BY <2>2, <2>4, <3>1, <3>2
  <2>7. next - 1 = Len(items)
    BY <2>2, <2>4, <2>5 DEF RegisterInv
  <2>8. {Rule(r) : r \in ledger} =
            Tx!Register({Rule(r) : r \in saved.rules}, [i \in DOMAIN items |-> Rule(items[i])])
    BY <2>2, <2>4, <2>5, <2>7 DEF RegisterInv
  <2>9. IF ValidAt # {} THEN ItemsAreValid ELSE items = PatternItems(job)
    BY <2>2, <2>5, <2>6 DEF RegisterInv
  <2> QED BY <2>2, <2>3, <2>6, <2>8, <2>9 DEF Known, RegistersStep
<1> QED BY <1>1, Invariance, PTL DEF Spec, RegistersExtract
=============================================================================
