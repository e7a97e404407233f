------------------------- MODULE EvidenceGate_proofs -------------------------
(***************************************************************************)
(* Proofs about EvidenceGate, for any events, payloads and claims, and     *)
(* about what ToolEvents says of the results it judges by.                 *)
(***************************************************************************)
EXTENDS ToolEvents, TraceStore_proofs, FiniteSetTheorems, WellFoundedInduction

(***************************************************************************)
(* Lists of claims and the two indexes.                                    *)
(***************************************************************************)

(* list.remove on a list without repetitions.                              *)
LEMMA WithoutFacts ==
    ASSUME NEW S, NEW s \in Seq(S), NEW q, NoRepeats(s)
    PROVE  /\ Without(s, q) \in Seq(S)
           /\ NoRepeats(Without(s, q))
           /\ Image(Without(s, q)) = Image(s) \ {q}
<1>1. CASE q \notin Image(s)
  BY <1>1 DEF Without
<1>2. CASE q \in Image(s)
  <2> DEFINE n == CHOOSE n \in 1..Len(s) : s[n] = q /\ \A m \in 1..(n - 1) : s[m] # q
             w == SubSeq(s, 1, n - 1) \o SubSeq(s, n + 1, Len(s))
  <2>1. PICK k \in 1..Len(s) : s[k] = q
    BY <1>2 DEF Image
  <2>2. \A m \in 1..(k - 1) : s[m] # q
    BY <2>1 DEF NoRepeats
  <2>3. n \in 1..Len(s) /\ s[n] = q
    BY <2>1, <2>2
  <2>4. Without(s, q) = w
    BY <1>2 DEF Without
  <2> HIDE DEF n
  <2>5. /\ w \in Seq(S) /\ Len(w) = Len(s) - 1 /\ Len(s) \in Nat
        /\ \A i \in 1..Len(w) : w[i] = IF i < n THEN s[i] ELSE s[i + 1]
    <3> DEFINE a == SubSeq(s, 1, n - 1)
               b == SubSeq(s, n + 1, Len(s))
    <3>1. /\ n \in Int /\ 1 <= n /\ n <= Len(s) /\ Len(s) \in Nat
          /\ \A i \in 1..Len(s) : s[i] \in S
      BY <2>3
    <3>2. /\ a \in Seq(S)
          /\ Len(a) = IF 1 <= n - 1 THEN n - 1 - 1 + 1 ELSE 0
          /\ \A i \in 1..(n - 1 - 1 + 1) : a[i] = s[1 + i - 1]
      <4>1. 1 \in Int /\ n - 1 \in Int /\ \A i \in 1..(n - 1) : s[i] \in S
        BY <3>1
      <4> QED BY <4>1, SubSeqProperties
    <3>3. /\ b \in Seq(S)
          /\ Len(b) = IF n + 1 <= Len(s) THEN Len(s) - (n + 1) + 1 ELSE 0
          /\ \A i \in 1..(Len(s) - (n + 1) + 1) : b[i] = s[n + 1 + i - 1]
      <4>1. n + 1 \in Int /\ Len(s) \in Int /\ \A i \in (n + 1)..Len(s) : s[i] \in S
        BY <3>1
      <4> QED BY <4>1, SubSeqProperties
    <3> HIDE DEF a, b
    <3>4. /\ a \o b \in Seq(S)
          /\ Len(a \o b) = Len(a) + Len(b)
          /\ \A i \in 1..(Len(a) + Len(b)) :
                (a \o b)[i] = IF i <= Len(a) THEN a[i] ELSE b[i - Len(a)]
      BY <3>2, <3>3, ConcatProperties
    <3>5. Len(a) = n - 1 /\ Len(b) = Len(s) - n
      BY <3>1, <3>2, <3>3
    <3>6. ASSUME NEW i \in 1..(Len(s) - 1)
          PROVE  (a \o b)[i] = IF i < n THEN s[i] ELSE s[i + 1]
      <4>1. CASE i < n
        <5>1. i \in 1..(n - 1 - 1 + 1) /\ 1 + i - 1 = i
          BY <3>1, <4>1
        <5> QED BY <3>1, <3>2, <3>4, <3>5, <4>1, <5>1
      <4>2. CASE ~(i < n)
        <5>1. /\ i - (n - 1) \in 1..(Len(s) - (n + 1) + 1)
              /\ n + 1 + (i - (n - 1)) - 1 = i + 1
          BY <3>1, <4>2
        <5> QED BY <3>1, <3>3, <3>4, <3>5, <4>2, <5>1
      <4> QED BY <4>1, <4>2
    <3>7. w = a \o b
      BY DEF a, b
    <3> HIDE DEF w
    <3>8. Len(w) = Len(s) - 1
      <4>1. Len(w) = Len(a \o b)
        BY ONLY <3>7
      <4>2. Len(a \o b) = (n - 1) + (Len(s) - n)
        BY ONLY <3>4, <3>5
      <4>3. (n - 1) + (Len(s) - n) = Len(s) - 1
        BY ONLY <3>1
      <4> QED BY ONLY <4>1, <4>2, <4>3
    <3>9. \A i \in 1..Len(w) : w[i] = IF i < n THEN s[i] ELSE s[i + 1]
      BY <3>6, <3>7, <3>8
    <3>10. w \in Seq(S)
      BY <3>4, <3>7
    <3> QED BY <3>1, <3>8, <3>9, <3>10
  <2> HIDE DEF w
  <2>6. NoRepeats(w)
    BY <2>3, <2>5 DEF NoRepeats
  <2>7. \A i \in 1..Len(w) : w[i] \in Image(s) \ {q}
    BY <2>3, <2>5 DEF Image, NoRepeats
  <2>8. ASSUME NEW j \in 1..Len(s), s[j] # q
        PROVE  \E i \in 1..Len(w) : w[i] = s[j]
    <3>1. CASE j < n
      <4>1. j \in 1..Len(w) /\ w[j] = s[j]
        BY <2>3, <2>5, <3>1
      <4> QED BY <4>1
    <3>2. CASE j > n
      <4>1. j - 1 \in 1..Len(w) /\ w[j - 1] = s[j]
        BY <2>3, <2>5, <3>2
      <4> QED BY <4>1
    <3> QED BY <2>3, <2>8, <3>1, <3>2
  <2>9. Image(w) = Image(s) \ {q}
    BY <2>7, <2>8 DEF Image
  <2> QED BY <2>4, <2>5, <2>6, <2>9
<1> QED BY <1>1, <1>2

(* Appending a claim that is not listed yet.                               *)
LEMMA AppendFacts ==
    ASSUME NEW S, NEW s \in Seq(S), NEW q \in S, NoRepeats(s), q \notin Image(s)
    PROVE  /\ Append(s, q) \in Seq(S)
           /\ NoRepeats(Append(s, q))
           /\ Image(Append(s, q)) = Image(s) \cup {q}
<1> DEFINE w == Append(s, q)
<1>1. /\ w \in Seq(S) /\ Len(w) = Len(s) + 1 /\ Len(s) \in Nat
      /\ \A i \in 1..Len(s) : w[i] = s[i]
      /\ w[Len(s) + 1] = q
  OBVIOUS
<1> HIDE DEF w
<1>2. \A i \in 1..Len(s) : s[i] # q
  BY DEF Image
<1>3. NoRepeats(w)
  BY <1>1, <1>2 DEF NoRepeats
<1>4. Image(w) = Image(s) \cup {q}
  <2>1. \A x \in Image(w) : x \in Image(s) \cup {q}
    BY <1>1 DEF Image
  <2>2. \A i \in 1..Len(s) : i \in 1..Len(w)
    BY <1>1
  <2>3. Len(s) + 1 \in 1..Len(w)
    BY <1>1
  <2> QED BY <1>1, <2>1, <2>2, <2>3 DEF Image
<1> QED BY <1>1, <1>3, <1>4 DEF w

LEMMA WithFacts ==
    ASSUME NEW S, NEW s \in Seq(S), NEW q \in S, NoRepeats(s)
    PROVE  /\ With(s, q) \in Seq(S)
           /\ NoRepeats(With(s, q))
           /\ Image(With(s, q)) = Image(s) \cup {q}
BY AppendFacts DEF With

(* A list of claims without or with claim q.                               *)
Listing(S, q, here) == IF here THEN S \cup {q} ELSE S \ {q}

(* An index that is exact for a claim stays without repetitions, forgets   *)
(* the claim's old evidence and learns the new (add_evaluation).           *)
LEMMA ReindexedFacts ==
    ASSUME NEW K, NEW index \in [K -> Seq(ClaimIds)], NEW q \in ClaimIds,
           NEW old, NEW new,
           \A k \in K : NoRepeats(index[k]),
           \A k \in K : q \in Image(index[k]) <=> k \in old
    PROVE  LET r == Reindexed(index, old, new, q)
           IN  /\ r \in [K -> Seq(ClaimIds)]
               /\ \A k \in K : /\ NoRepeats(r[k])
                               /\ Image(r[k]) = Listing(Image(index[k]), q, k \in new)
<1> DEFINE kept(k) == IF k \in old THEN Without(index[k], q) ELSE index[k]
           r == Reindexed(index, old, new, q)
<1>1. ASSUME NEW k \in K
      PROVE  /\ kept(k) \in Seq(ClaimIds) /\ NoRepeats(kept(k))
             /\ Image(kept(k)) = Image(index[k]) \ {q}
  <2>1. index[k] \in Seq(ClaimIds) /\ NoRepeats(index[k])
    OBVIOUS
  <2>2. k \notin old => Image(index[k]) = Image(index[k]) \ {q}
    OBVIOUS
  <2>3. /\ Without(index[k], q) \in Seq(ClaimIds)
        /\ NoRepeats(Without(index[k], q))
        /\ Image(Without(index[k], q)) = Image(index[k]) \ {q}
    BY <2>1, WithoutFacts
  <2> QED BY <2>1, <2>2, <2>3
<1>2. ASSUME NEW k \in K
      PROVE  /\ With(kept(k), q) \in Seq(ClaimIds) /\ NoRepeats(With(kept(k), q))
             /\ Image(With(kept(k), q)) = Image(kept(k)) \cup {q}
  <2> HIDE DEF kept
  <2> QED BY <1>1, WithFacts
<1>3. /\ DOMAIN index = K
      /\ r = [k \in K |-> IF k \in new THEN With(kept(k), q) ELSE kept(k)]
  BY DEF Reindexed
<1> HIDE DEF kept, r
<1>4. r \in [K -> Seq(ClaimIds)]
  BY <1>1, <1>2, <1>3
<1>5. ASSUME NEW k \in K
      PROVE  /\ NoRepeats(r[k])
             /\ Image(r[k]) = Listing(Image(index[k]), q, k \in new)
  <2>1. CASE k \in new
    <3>1. r[k] = With(kept(k), q)
      BY <1>3, <2>1
    <3> QED BY <1>1, <1>2, <2>1, <3>1 DEF Listing
  <2>2. CASE k \notin new
    <3>1. r[k] = kept(k)
      BY <1>3, <2>2
    <3> QED BY <1>1, <2>2, <3>1 DEF Listing
  <2> QED BY <2>1, <2>2
<1> QED BY <1>4, <1>5 DEF r

(***************************************************************************)
(* Verdicts.                                                               *)
(***************************************************************************)

(* The verdict says which kinds of evidence there are.                     *)
LEMMA DecideFacts ==
    ASSUME NEW c, NEW sup, NEW con
    PROVE  /\ Decide(c, sup, con) \in Verdict
           /\ Decide(c, sup, con) = "UNVERIFIED" <=> sup \cup con = {}
           /\ ~TraceLevel(c) =>
                 /\ Decide(c, sup, con) = "CONTRADICTED" <=> con # {}
                 /\ Decide(c, sup, con) = "VERIFIED" <=> con = {} /\ sup # {}
<1> DEFINE newest == {e \in sup \cup con : \A f \in sup \cup con : f.sequence <= e.sequence}
           against == IF TraceLevel(c) THEN newest \cap con ELSE con
<1>1. Decide(c, sup, con) =
        CASE sup \cup con = {} -> "UNVERIFIED"
          [] sup \cup con # {} /\ against = {} -> "VERIFIED"
          [] against # {} -> "CONTRADICTED"
  BY DEF Decide
<1>2. against \subseteq con /\ (~TraceLevel(c) => against = con)
  OBVIOUS
<1> HIDE DEF against
<1>3. CASE sup \cup con = {}
  <2>1. Decide(c, sup, con) = "UNVERIFIED"
    BY <1>1, <1>2, <1>3
  <2> QED BY <1>3, <2>1 DEF Verdict
<1>4. CASE sup \cup con # {} /\ against = {}
  <2>1. Decide(c, sup, con) = "VERIFIED"
    BY <1>1, <1>4
  <2> QED BY <1>2, <1>4, <2>1 DEF Verdict
<1>5. CASE against # {}
  <2>1. Decide(c, sup, con) = "CONTRADICTED"
    BY <1>1, <1>2, <1>5
  <2> QED BY <1>2, <1>5, <2>1 DEF Verdict
<1> QED BY <1>3, <1>4, <1>5

(* References to events of the store are references.                       *)
LEMMA RefsToType ==
    ASSUME NEW es \in SUBSET Event
    PROVE  RefsTo(es) \in SUBSET Ref /\ (RefsTo(es) = {} <=> es = {})
<1>1. \A e \in es : [trace |-> e.trace, id |-> e.id] \in Ref
  BY EventType DEF Ref
<1>2. RefsTo(es) \in SUBSET Ref
  BY <1>1 DEF RefsTo
<1>3. RefsTo(es) = {} <=> es = {}
  BY Zenon DEF RefsTo
<1> QED BY <1>2, <1>3

(* What evaluate registers is an evaluation of the claim, which cites      *)
(* something exactly when it decides.                                      *)
LEMMA JudgedFacts ==
    ASSUME NEW c \in Claims, NEW es \in SUBSET Event
    PROVE  LET v == Judged(c, es)
           IN  /\ v \in Evaluation /\ v # None
               /\ v.claim = c
               /\ Refs(v) \subseteq RefsTo(es)
               /\ v.verdict = "UNVERIFIED" <=> Refs(v) = {}
<1> DEFINE sup == {e \in es : Supports(c, e)}
           con == {e \in es : Contradicts(c, e)}
           v == Judged(c, es)
<1>1. v = [claim |-> c, verdict |-> Decide(c, sup, con),
           supporting |-> RefsTo(sup), contradicting |-> RefsTo(con)]
  BY DEF Judged
<1>2. sup \in SUBSET Event /\ con \in SUBSET Event
  OBVIOUS
<1>3. RefsTo(sup) \cup RefsTo(con) \subseteq RefsTo(es)
  BY DEF RefsTo
<1> HIDE DEF sup, con, v
<1>4. v \in Evaluation
  BY <1>1, <1>2, RefsToType, DecideFacts DEF Evaluation
<1>5. v.verdict = "UNVERIFIED" <=> Refs(v) = {}
  BY <1>1, <1>2, RefsToType, DecideFacts DEF Refs
<1> QED BY <1>1, <1>3, <1>4, <1>5, NoEvaluationAssumption DEF v, Refs

(* One event either supports or contradicts a claim that is not about a    *)
(* file, unless it says nothing.                                           *)
LEMMA OneEventFacts ==
    ASSUME NEW c \in Claims, NEW r \in Event, ~TraceLevel(c),
           Judged(c, {r}).verdict # "UNVERIFIED"
    PROVE  LET v == Judged(c, {r})
           IN  /\ Refs(v) = RefsTo({r})
               /\ v.verdict = "VERIFIED" => Supports(c, r) /\ ~Contradicts(c, r)
               /\ v.verdict # "VERIFIED" => Contradicts(c, r)
<1> DEFINE sup == {e \in {r} : Supports(c, e)}
           con == {e \in {r} : Contradicts(c, e)}
           v == Judged(c, {r})
<1>1. v = [claim |-> c, verdict |-> Decide(c, sup, con),
           supporting |-> RefsTo(sup), contradicting |-> RefsTo(con)]
  BY DEF Judged
<1>2. v.verdict = Decide(c, sup, con) /\ Refs(v) = RefsTo(sup) \cup RefsTo(con)
  BY <1>1 DEF Refs
<1>3. sup \cup con = {r}
  <2>1. sup \cup con # {}
    BY <1>2, DecideFacts
  <2> QED BY <2>1
<1>4. RefsTo(sup) \cup RefsTo(con) = RefsTo(sup \cup con)
  BY DEF RefsTo
<1>5. /\ v.verdict = "VERIFIED" => con = {} /\ sup # {}
      /\ v.verdict # "VERIFIED" => con # {}
  <2>1. Decide(c, sup, con) \in Verdict
    BY DecideFacts
  <2> QED BY <1>2, <2>1, DecideFacts DEF Verdict
<1> QED BY <1>2, <1>3, <1>4, <1>5

(***************************************************************************)
(* The trace.                                                              *)
(***************************************************************************)

(* The store is well formed, its indexes are exact, and numbers are taken  *)
(* one by one.                                                             *)
StoreInv ==
    /\ trace \in Store /\ LogOK(trace.events) /\ Agrees(trace)
    /\ \A t \in Traces : trace.lastSeq[t] < Len(trace.events)

LEMMA ClaimFacts ==
    ASSUME NEW c \in Claims
    PROVE  /\ c \in Claim /\ c.id \in ClaimIds /\ c.type \in ClaimType
           /\ c.trace # None => c.trace \in Traces
BY EvidenceAssumption DEF Claim

LEMMA ImageAppend ==
    ASSUME NEW S, NEW s \in Seq(S), NEW e \in S
    PROVE  Image(Append(s, e)) = Image(s) \cup {e}
<1> DEFINE w == Append(s, e)
<1>1. /\ Len(w) = Len(s) + 1 /\ Len(s) \in Nat
      /\ \A i \in 1..Len(s) : w[i] = s[i]
      /\ w[Len(s) + 1] = e
  OBVIOUS
<1> HIDE DEF w
<1>2. \A x \in Image(w) : x \in Image(s) \cup {e}
  BY <1>1 DEF Image
<1>3. (\A i \in 1..Len(s) : i \in 1..Len(w)) /\ Len(s) + 1 \in 1..Len(w)
  BY <1>1
<1> QED BY <1>1, <1>2, <1>3 DEF Image, w

(* Events of the store are told apart by their ids, and the tool events of *)
(* one kind by trace and call id.                                          *)
LEMMA EventsUnique ==
    ASSUME StoreInv, NEW e \in Image(trace.events), NEW f \in Image(trace.events)
    PROVE  /\ e \in Event
           /\ trace.byId[e.id] = e
           /\ e.id = f.id => e = f
           /\ e.kind = f.kind /\ e.kind # "OTHER" /\ SlotOf(e) = SlotOf(f) => e = f
<1>1. trace \in Store /\ Agrees(trace)
  BY DEF StoreInv
<1>2. PICK i \in 1..Len(trace.events) : e = trace.events[i]
  BY DEF Image
<1>3. PICK j \in 1..Len(trace.events) : f = trace.events[j]
  BY DEF Image
<1>4. e \in Event /\ f \in Event
  BY <1>1, <1>2, <1>3, StoreType
<1>5. /\ trace.byId[e.id] = e /\ trace.byId[f.id] = f
      /\ e.kind = "TOOL_CALL" => trace.calls[SlotOf(e)] = e
      /\ f.kind = "TOOL_CALL" => trace.calls[SlotOf(f)] = f
      /\ e.kind = "TOOL_RESULT" => trace.results[SlotOf(e)] = e
      /\ f.kind = "TOOL_RESULT" => trace.results[SlotOf(f)] = f
  BY <1>1, <1>2, <1>3, Lookups
<1>6. e.kind \in {"TOOL_CALL", "TOOL_RESULT", "OTHER"}
  BY <1>4, EventType DEF Kind
<1> QED BY <1>4, <1>5, <1>6

(* What list_events gives the gate.                                        *)
LEMMA ScopeFacts ==
    ASSUME StoreInv, NEW c \in Claims, c.trace # None
    PROVE  /\ Scope(c) \in SUBSET Event
           /\ Scope(c) \subseteq Image(trace.events)
           /\ \A e \in Scope(c) : e.trace = c.trace /\ c.session \in {None, Payload[e.id].session}
           /\ \A e \in Image(trace.events) :
                 e.trace = c.trace /\ c.session \in {None, Payload[e.id].session} => e \in Scope(c)
<1>1. trace \in Store /\ Agrees(trace) /\ c.trace \in Traces
  BY ClaimFacts DEF StoreInv
<1>2. {trace.byTrace[c.trace][m] : m \in 1..Len(trace.byTrace[c.trace])} =
        {trace.events[n] : n \in {n \in 1..Len(trace.events) : trace.events[n].trace = c.trace}}
  BY <1>1 DEF Agrees
<1>3. Image(trace.byTrace[c.trace]) = {e \in Image(trace.events) : e.trace = c.trace}
  BY <1>2 DEF Image
<1>4. Image(trace.events) \in SUBSET Event
  BY <1>1, StoreType DEF Image
<1> QED BY <1>3, <1>4 DEF Scope

(* Recording an event keeps what is on record.                             *)
LEMMA RecordFacts ==
    ASSUME StoreInv, NEW x \in Candidates, Record(x)
    PROVE  /\ StoreInv'
           /\ Image(trace.events) \subseteq Image(trace.events)'
           /\ \A c \in Claims : c.trace # None => Scope(c) \subseteq Scope(c)'
           /\ \A i \in EventIds : trace.byId[i] # None => trace'.byId[i] = trace.byId[i]
<1> DEFINE n == trace.lastSeq[x.trace] + 1
           e == [x EXCEPT !.sequence = n]
<1>1. /\ trace \in Store /\ LogOK(trace.events) /\ Agrees(trace)
      /\ x \in Event /\ x.trace \in Traces
      /\ \A t \in Traces : trace.lastSeq[t] < Len(trace.events)
  BY EvidenceAssumption, EventType DEF StoreInv
<1>2. /\ Len(trace.events) < MaxEvents /\ Accepts(trace, e) /\ trace' = Appended(trace, e)
  BY DEF Record
<1>3. /\ Len(trace.events) \in Nat
      /\ \A t \in Traces : trace.lastSeq[t] \in Int /\ trace.lastSeq[t] >= -1
  <2>1. trace.events \in Seq(Event) /\ trace.lastSeq \in [Traces -> Numbers \cup {-1}]
    BY <1>1, StoreType
  <2>2. \A t \in Traces : trace.lastSeq[t] \in Numbers \cup {-1}
    BY <2>1
  <2>3. Len(trace.events) \in Nat
    BY <2>1
  <2>4. \A m \in Numbers \cup {-1} : m \in Int /\ m >= -1
    BY TraceAssumption
  <2> QED BY <2>2, <2>3, <2>4
<1>4. n \in Numbers /\ n <= Len(trace.events)
  BY <1>1, <1>2, <1>3, EvidenceAssumption
<1>5. e \in Event /\ e.trace = x.trace /\ e.sequence = n
  BY <1>1, <1>4 DEF Event
<1> HIDE DEF e, n
<1>6. /\ trace' \in Store /\ LogOK(trace'.events) /\ Agrees(trace')
      /\ trace'.events = Append(trace.events, e)
      /\ trace'.byId = [trace.byId EXCEPT ![e.id] = e]
      /\ trace'.byTrace = [trace.byTrace EXCEPT ![e.trace] = Append(@, e)]
      /\ trace'.lastSeq = [trace.lastSeq EXCEPT ![e.trace] = e.sequence]
  <2>1. trace' \in Store
    BY <1>1, <1>2, <1>5, AppendedType
  <2>2. Agrees(trace')
    BY <1>1, <1>2, <1>5, AppendedAgrees
  <2>3. LogOK(Append(trace.events, e))
    BY <1>1, <1>2, <1>5, AppendedLogOK
  <2>4. /\ trace'.events = Append(trace.events, e)
        /\ trace'.byId = [trace.byId EXCEPT ![e.id] = e]
        /\ trace'.byTrace = [trace.byTrace EXCEPT ![e.trace] = Append(@, e)]
        /\ trace'.lastSeq = [trace.lastSeq EXCEPT ![e.trace] = e.sequence]
    BY <1>1, <1>2, <1>5, AppendedFields
  <2> QED BY <2>1, <2>2, <2>3, <2>4
<1>7. /\ trace.events \in Seq(Event) /\ trace.byTrace \in [Traces -> Seq(Event)]
      /\ trace.lastSeq \in [Traces -> Numbers \cup {-1}]
      /\ trace.byId \in [EventIds -> Event \cup {None}]
  BY <1>1, StoreType
<1>8. Len(trace'.events) = Len(trace.events) + 1
  BY <1>5, <1>6, <1>7
<1>9. \A t \in Traces : trace'.lastSeq[t] < Len(trace'.events)
  <2> SUFFICES ASSUME NEW t \in Traces
               PROVE  trace'.lastSeq[t] < Len(trace'.events)
    OBVIOUS
  <2>1. CASE t = e.trace
    <3>1. trace'.lastSeq[t] = n /\ n \in Int
      BY <1>4, <1>5, <1>6, <1>7, <2>1, TraceAssumption
    <3> QED BY <1>3, <1>4, <1>8, <3>1
  <2>2. CASE t # e.trace
    <3>1. trace'.lastSeq[t] = trace.lastSeq[t]
      BY <1>6, <1>7, <2>2
    <3> QED BY <1>1, <1>3, <1>8, <3>1
  <2> QED BY <2>1, <2>2
<1>10. StoreInv'
  BY <1>6, <1>9 DEF StoreInv
<1>11. Image(trace.events) \subseteq Image(trace.events)'
  <2>1. Image(trace'.events) = Image(trace.events) \cup {e}
    BY <1>5, <1>6, <1>7, ImageAppend
  <2> QED BY <2>1 DEF Image
<1>12. ASSUME NEW t \in Traces
       PROVE  Image(trace.byTrace[t]) \subseteq Image(trace'.byTrace[t])
  <2>1. CASE t = e.trace
    <3>1. trace'.byTrace[t] = Append(trace.byTrace[t], e) /\ trace.byTrace[t] \in Seq(Event)
      BY <1>6, <1>7, <2>1
    <3> QED BY <1>5, <3>1, ImageAppend
  <2>2. CASE t # e.trace
    <3>1. trace'.byTrace[t] = trace.byTrace[t]
      BY <1>6, <1>7, <2>2
    <3> QED BY <3>1
  <2> QED BY <2>1, <2>2
<1>13. ASSUME NEW c \in Claims, c.trace # None
       PROVE  Scope(c) \subseteq Scope(c)'
  <2>1. Image(trace.byTrace[c.trace]) \subseteq Image(trace'.byTrace[c.trace])
    BY <1>12, <1>13, ClaimFacts
  <2> QED BY <2>1 DEF Scope, Image
<1>14. ASSUME NEW i \in EventIds, trace.byId[i] # None
       PROVE  trace'.byId[i] = trace.byId[i]
  <2>1. trace.byId[e.id] = None
    BY <1>2 DEF Accepts
  <2> QED BY <1>6, <1>7, <1>14, <2>1
<1> QED BY <1>10, <1>11, <1>13, <1>14

(***************************************************************************)
(* Evaluating a claim.                                                     *)
(***************************************************************************)

(* Evaluation v was decided by the result r of the execution e.            *)
DecidedFrom(v, e, r) ==
    /\ v = Judged(v.claim, {r})
    /\ v.claim.trace # None /\ v.claim.type # "GENERIC" /\ HasSelector(v.claim)
    /\ e \in Executions(v.claim)
    /\ r \in Scope(v.claim) /\ r.kind = "TOOL_RESULT" /\ r.call = e.call

(* A claim resolves to at most one result, that of its one execution.      *)
LEMMA ResolvedFacts ==
    ASSUME StoreInv, NEW c \in Claims, c.trace # None, NEW r \in Resolved(c)
    PROVE  /\ Resolved(c) = {r} /\ r \in Scope(c) /\ r.kind = "TOOL_RESULT" /\ HasSelector(c)
           /\ \E e \in Executions(c) : Executions(c) = {e} /\ r.call = e.call
<1>1. PICK e \in Executions(c) : Executions(c) = {e} /\ e.call = r.call
  BY DEF Resolved
<1>2. ASSUME NEW x \in Resolved(c)
      PROVE  x = r
  <2>1. /\ x \in Scope(c) /\ r \in Scope(c)
        /\ x.kind = "TOOL_RESULT" /\ r.kind = "TOOL_RESULT" /\ x.call = r.call
    BY <1>1 DEF Resolved
  <2>2. SlotOf(x) = SlotOf(r)
    BY <2>1, ScopeFacts DEF SlotOf
  <2>3. x \in Image(trace.events) /\ r \in Image(trace.events)
    BY <2>1, ScopeFacts
  <2> QED BY <2>1, <2>2, <2>3, EventsUnique
<1>3. r \in Scope(c) /\ r.kind = "TOOL_RESULT" /\ HasSelector(c)
  BY DEF Resolved
<1> QED BY <1>1, <1>2, <1>3

LEMMA ConsideredFacts ==
    ASSUME StoreInv, NEW c \in Claims
    PROVE  /\ Considered(c) \in SUBSET Event
           /\ Considered(c) \subseteq Image(trace.events)
           /\ Considered(c) # {} => c.trace # None /\ c.type # "GENERIC"
           /\ Considered(c) # {} /\ ~TraceLevel(c) => Considered(c) = Resolved(c)
<1>1. Resolved(c) \subseteq Scope(c)
  BY DEF Resolved
<1>2. Considered(c) # {} => /\ c.trace # None /\ c.type # "GENERIC"
                           /\ Considered(c) = IF TraceLevel(c) THEN Scope(c) ELSE Resolved(c)
  BY DEF Considered
<1>3. Considered(c) # {} => Considered(c) \subseteq Scope(c) /\ c.trace # None
  BY <1>1, <1>2
<1> QED BY <1>2, <1>3, ScopeFacts

(* What evaluate registers.                                                *)
LEMMA EvaluatedFacts ==
    ASSUME StoreInv, NEW c \in Claims
    PROVE  LET v == Evaluated(c)
           IN  /\ v \in Evaluation /\ v # None /\ v.claim = c
               /\ v.verdict = "UNVERIFIED" <=> Refs(v) = {}
               /\ \A ref \in Refs(v) : trace.byId[ref.id] # None /\ trace.byId[ref.id].trace = ref.trace
               /\ v.verdict # "UNVERIFIED" /\ ~TraceLevel(c) =>
                     \E e, r \in Image(trace.events) : DecidedFrom(v, e, r) /\ Executions(c) = {e}
<1> DEFINE v == Evaluated(c)
<1>1. v = Judged(c, Considered(c))
  BY DEF Evaluated
<1>2. Considered(c) \in SUBSET Event /\ Considered(c) \subseteq Image(trace.events)
  BY ConsideredFacts
<1>3. /\ v \in Evaluation /\ v # None /\ v.claim = c
      /\ Refs(v) \subseteq RefsTo(Considered(c))
      /\ v.verdict = "UNVERIFIED" <=> Refs(v) = {}
  BY <1>1, <1>2, JudgedFacts
<1> HIDE DEF v
<1>4. ASSUME NEW ref \in Refs(v)
      PROVE  trace.byId[ref.id] # None /\ trace.byId[ref.id].trace = ref.trace
  <2>1. PICK x \in Considered(c) : ref = [trace |-> x.trace, id |-> x.id]
    BY <1>3 DEF RefsTo
  <2>2. x \in Event /\ trace.byId[x.id] = x
    BY <1>2, EventsUnique
  <2> QED BY <2>1, <2>2, EventType
<1>5. ASSUME v.verdict # "UNVERIFIED", ~TraceLevel(c)
      PROVE  \E e, r \in Image(trace.events) : DecidedFrom(v, e, r) /\ Executions(c) = {e}
  <2>1. PICK r \in Considered(c) : TRUE
    BY <1>3, <1>5 DEF RefsTo
  <2>2. c.trace # None /\ c.type # "GENERIC" /\ r \in Resolved(c) /\ Considered(c) = Resolved(c)
    BY <1>5, <2>1, ConsideredFacts
  <2>3. /\ Resolved(c) = {r} /\ r \in Scope(c) /\ r.kind = "TOOL_RESULT" /\ HasSelector(c)
        /\ \E e \in Executions(c) : Executions(c) = {e} /\ r.call = e.call
    BY <2>2, ResolvedFacts
  <2>4. PICK e \in Executions(c) : Executions(c) = {e} /\ r.call = e.call
    BY <2>3
  <2>5. e \in Scope(c)
    BY DEF Executions
  <2>6. e \in Image(trace.events) /\ r \in Image(trace.events)
    BY <2>2, <2>3, <2>5, ScopeFacts
  <2>7. DecidedFrom(v, e, r)
    BY <1>1, <1>3, <2>2, <2>3, <2>4 DEF DecidedFrom, v
  <2> QED BY <2>4, <2>6, <2>7
<1> QED BY <1>3, <1>4, <1>5 DEF v

(* Evaluating a claim again, decided from e and r before: the execution is *)
(* still there, so it is the only one or the claim is now ambiguous; by a  *)
(* call id it is the only one.                                             *)
LEMMA EvaluatedAgain ==
    ASSUME StoreInv, NEW c \in Claims, ~TraceLevel(c), NEW v, v.claim = c,
           NEW e \in Image(trace.events), NEW r \in Image(trace.events),
           v.verdict # "UNVERIFIED", DecidedFrom(v, e, r)
    PROVE  /\ Evaluated(c).verdict # "UNVERIFIED" => Evaluated(c) = v
           /\ c.call # None => Evaluated(c) = v
<1>1. /\ v = Judged(c, {r}) /\ c.trace # None /\ c.type # "GENERIC" /\ HasSelector(c)
      /\ e \in Executions(c)
      /\ r \in Scope(c) /\ r.kind = "TOOL_RESULT" /\ r.call = e.call
  BY DEF DecidedFrom
<1>2. ASSUME Evaluated(c).verdict # "UNVERIFIED"
      PROVE  Evaluated(c) = v
  <2>1. PICK f, x \in Image(trace.events) : DecidedFrom(Evaluated(c), f, x) /\ Executions(c) = {f}
    BY <1>2, EvaluatedFacts
  <2>2. f = e
    BY <1>1, <2>1
  <2>3. Evaluated(c).claim = c
    BY EvaluatedFacts
  <2>4. /\ x \in Scope(c) /\ x.kind = "TOOL_RESULT" /\ x.call = f.call
        /\ Evaluated(c) = Judged(c, {x})
    BY <2>1, <2>3 DEF DecidedFrom
  <2>5. SlotOf(x) = SlotOf(r)
    BY <1>1, <2>2, <2>4, ScopeFacts DEF SlotOf
  <2>6. x = r
    BY <1>1, <2>1, <2>4, <2>5, EventsUnique
  <2> QED BY <1>1, <2>4, <2>6
<1>3. ASSUME c.call # None
      PROVE  Evaluated(c) = v
  <2>1. ASSUME NEW f \in Executions(c)
        PROVE  f = e
    <3>1. /\ f \in Scope(c) /\ e \in Scope(c) /\ f.kind = "TOOL_CALL" /\ e.kind = "TOOL_CALL"
          /\ f.call = c.call /\ e.call = c.call
      BY <1>1, <1>3 DEF Executions, Selects
    <3>2. SlotOf(f) = SlotOf(e)
      BY <1>1, <3>1, ScopeFacts DEF SlotOf
    <3>3. f \in Image(trace.events)
      BY <1>1, <3>1, ScopeFacts
    <3> QED BY <3>1, <3>2, <3>3, EventsUnique
  <2>2. Executions(c) = {e}
    BY <1>1, <2>1
  <2>3. r \in Resolved(c)
    BY <1>1, <2>2 DEF Resolved
  <2>4. Resolved(c) = {r}
    BY <1>1, <2>3, ResolvedFacts
  <2>5. ~(c.type = "FILE_EXISTS" /\ c.path = None)
    <3> SUFFICES ASSUME c.type = "FILE_EXISTS", c.path = None
                 PROVE  FALSE
      OBVIOUS
    <3>1. r \in Event /\ Payload[r.id] \in PayloadData
      BY EventsUnique, EventType, EvidenceAssumption
    <3>2. c.path \notin Payload[r.id].present /\ c.path \notin Payload[r.id].gone
      BY <3>1, EvidenceAssumption DEF PayloadData
    <3>3. ~Supports(c, r) /\ ~Contradicts(c, r)
      BY <3>2 DEF Supports, Contradicts
    <3>4. Judged(c, {r}).verdict = Decide(c, {}, {})
      BY <3>3 DEF Judged
    <3>5. Decide(c, {}, {}) = "UNVERIFIED"
      BY DecideFacts
    <3> QED BY <1>1, <3>4, <3>5
  <2>6. Considered(c) = {r}
    BY <1>1, <2>4, <2>5 DEF Considered
  <2> QED BY <1>1, <2>6 DEF Evaluated
<1> QED BY <1>2, <1>3

(***************************************************************************)
(* The invariant.                                                          *)
(***************************************************************************)

FiledOK ==
    \A q \in ClaimIds : LET v == graph.evaluations[q] IN v # None =>
        /\ v.claim.id = q
        /\ v.verdict = "UNVERIFIED" <=> Refs(v) = {}

(* Every decided evaluation about an execution was decided from a result   *)
(* and a call that are on record.                                          *)
JudgedInv ==
    \A q \in ClaimIds : LET v == graph.evaluations[q] IN
        v # None /\ v.verdict # "UNVERIFIED" /\ ~TraceLevel(v.claim) =>
            \E e, r \in Image(trace.events) : DecidedFrom(v, e, r)

GraphInv == graph \in Graph /\ FiledOK /\ GraphExact
EvidenceInv == StoreInv /\ GraphInv /\ JudgedInv

LEMMA GraphType ==
    ASSUME graph \in Graph
    PROVE  /\ graph.evaluations \in [ClaimIds -> Evaluation \cup {None}]
           /\ graph.order \in Seq(ClaimIds)
           /\ graph.citing \in [EventIds -> Seq(ClaimIds)]
           /\ graph.citingIn \in [Traces \X EventIds -> Seq(ClaimIds)]
BY DEF Graph

(* An index says which claims cite an event.                               *)
LEMMA IndexedFacts ==
    ASSUME GraphInv, NEW q \in ClaimIds
    PROVE  LET old == IF graph.evaluations[q] = None THEN {} ELSE Refs(graph.evaluations[q])
           IN  /\ \A i \in EventIds : q \in Image(graph.citing[i]) <=> i \in EventKeys(old)
               /\ \A k \in Traces \X EventIds : q \in Image(graph.citingIn[k]) <=> k \in TraceKeys(old)
<1>1. /\ \A p \in ClaimIds : graph.evaluations[p] # None => graph.evaluations[p].claim.id = p
      /\ \A i \in EventIds :
            Image(graph.citing[i]) = {v.claim.id : v \in {v \in Current : i \in EventKeys(Refs(v))}}
      /\ \A k \in Traces \X EventIds :
            Image(graph.citingIn[k]) = {v.claim.id : v \in {v \in Current : k \in TraceKeys(Refs(v))}}
  BY DEF GraphInv, GraphExact, FiledOK
<1>2. /\ \A v \in Current : v # None /\ v.claim.id \in ClaimIds /\ graph.evaluations[v.claim.id] = v
      /\ graph.evaluations[q] # None => graph.evaluations[q] \in Current
  BY <1>1 DEF Current
<1>3. EventKeys({}) = {} /\ TraceKeys({}) = {}
  BY DEF EventKeys, TraceKeys
<1>4. CASE graph.evaluations[q] = None
  <2>1. \A v \in Current : v.claim.id # q
    BY <1>2, <1>4
  <2> QED BY <1>1, <1>3, <1>4, <2>1
<1>5. CASE graph.evaluations[q] # None
  <2>1. \A v \in Current : v.claim.id = q <=> v = graph.evaluations[q]
    BY <1>1, <1>2, <1>5
  <2> QED BY <1>1, <1>2, <1>5, <2>1
<1> QED BY <1>4, <1>5

(* What Evaluate makes of the graph, field by field.                       *)
LEMMA EvaluateFields ==
    ASSUME StoreInv, GraphInv, NEW c \in Claims, Evaluate(c)
    PROVE  /\ trace' = trace
           /\ graph'.evaluations = [graph.evaluations EXCEPT ![c.id] = Evaluated(c)]
           /\ graph'.order = IF graph.evaluations[c.id] = None THEN Append(graph.order, c.id)
                             ELSE graph.order
           /\ graph' = [evaluations |-> graph'.evaluations, order |-> graph'.order,
                        citing |-> graph'.citing, citingIn |-> graph'.citingIn]
           /\ graph'.citing \in [EventIds -> Seq(ClaimIds)]
           /\ graph'.citingIn \in [Traces \X EventIds -> Seq(ClaimIds)]
           /\ \A i \in EventIds :
                 /\ NoRepeats(graph'.citing[i])
                 /\ Image(graph'.citing[i]) =
                       Listing(Image(graph.citing[i]), c.id, i \in EventKeys(Refs(Evaluated(c))))
           /\ \A k \in Traces \X EventIds :
                 /\ NoRepeats(graph'.citingIn[k])
                 /\ Image(graph'.citingIn[k]) =
                       Listing(Image(graph.citingIn[k]), c.id, k \in TraceKeys(Refs(Evaluated(c))))
<1> DEFINE v == Evaluated(c)
           q == c.id
           old == IF graph.evaluations[q] = None THEN {} ELSE Refs(graph.evaluations[q])
           citing == Reindexed(graph.citing, EventKeys(old), EventKeys(Refs(v)), q)
           citingIn == Reindexed(graph.citingIn, TraceKeys(old), TraceKeys(Refs(v)), q)
<1>1. v.claim = c /\ q \in ClaimIds
  BY EvaluatedFacts, ClaimFacts
<1>2. graph' = [evaluations |-> [graph.evaluations EXCEPT ![q] = v],
               order |-> IF graph.evaluations[q] = None THEN Append(graph.order, q) ELSE graph.order,
               citing |-> citing, citingIn |-> citingIn]
  BY <1>1 DEF Evaluate, AddEvaluation
<1>3. /\ \A i \in EventIds : q \in Image(graph.citing[i]) <=> i \in EventKeys(old)
      /\ \A k \in Traces \X EventIds : q \in Image(graph.citingIn[k]) <=> k \in TraceKeys(old)
  BY <1>1, IndexedFacts
<1>4. /\ graph.citing \in [EventIds -> Seq(ClaimIds)]
      /\ graph.citingIn \in [Traces \X EventIds -> Seq(ClaimIds)]
      /\ \A i \in EventIds : NoRepeats(graph.citing[i])
      /\ \A k \in Traces \X EventIds : NoRepeats(graph.citingIn[k])
  BY GraphType DEF GraphInv, GraphExact
<1>5. trace' = trace
  BY DEF Evaluate
<1> HIDE DEF v, q, old
<1>6. /\ citing \in [EventIds -> Seq(ClaimIds)]
      /\ \A i \in EventIds :
            /\ NoRepeats(citing[i])
            /\ Image(citing[i]) = Listing(Image(graph.citing[i]), q, i \in EventKeys(Refs(v)))
  <2>1. PICK index : index = graph.citing
    OBVIOUS
  <2>2. PICK was, now : was = EventKeys(old) /\ now = EventKeys(Refs(v))
    OBVIOUS
  <2>3. /\ index \in [EventIds -> Seq(ClaimIds)] /\ q \in ClaimIds
        /\ \A i \in EventIds : NoRepeats(index[i])
        /\ \A i \in EventIds : q \in Image(index[i]) <=> i \in was
    BY <1>1, <1>3, <1>4, <2>1, <2>2
  <2>4. /\ Reindexed(index, was, now, q) \in [EventIds -> Seq(ClaimIds)]
        /\ \A i \in EventIds :
              /\ NoRepeats(Reindexed(index, was, now, q)[i])
              /\ Image(Reindexed(index, was, now, q)[i]) =
                    Listing(Image(index[i]), q, i \in now)
    <3> QED BY ONLY <2>3, ReindexedFacts
  <2>5. citing = Reindexed(index, was, now, q)
    BY <2>1, <2>2
  <2> HIDE DEF citing
  <2> QED BY <2>1, <2>2, <2>4, <2>5
<1>7. /\ citingIn \in [Traces \X EventIds -> Seq(ClaimIds)]
      /\ \A k \in Traces \X EventIds :
            /\ NoRepeats(citingIn[k])
            /\ Image(citingIn[k]) = Listing(Image(graph.citingIn[k]), q, k \in TraceKeys(Refs(v)))
  <2>1. PICK index : index = graph.citingIn
    OBVIOUS
  <2>2. PICK was, now : was = TraceKeys(old) /\ now = TraceKeys(Refs(v))
    OBVIOUS
  <2>3. /\ index \in [Traces \X EventIds -> Seq(ClaimIds)] /\ q \in ClaimIds
        /\ \A k \in Traces \X EventIds : NoRepeats(index[k])
        /\ \A k \in Traces \X EventIds : q \in Image(index[k]) <=> k \in was
    BY <1>1, <1>3, <1>4, <2>1, <2>2
  <2>4. /\ Reindexed(index, was, now, q) \in [Traces \X EventIds -> Seq(ClaimIds)]
        /\ \A k \in Traces \X EventIds :
              /\ NoRepeats(Reindexed(index, was, now, q)[k])
              /\ Image(Reindexed(index, was, now, q)[k]) =
                    Listing(Image(index[k]), q, k \in now)
    <3> QED BY ONLY <2>3, ReindexedFacts
  <2>5. citingIn = Reindexed(index, was, now, q)
    BY <2>1, <2>2
  <2> HIDE DEF citingIn
  <2> QED BY <2>1, <2>2, <2>4, <2>5
<1> HIDE DEF citing, citingIn
<1>8. /\ graph'.evaluations = [graph.evaluations EXCEPT ![q] = v]
      /\ graph'.order = IF graph.evaluations[q] = None THEN Append(graph.order, q) ELSE graph.order
      /\ graph'.citing = citing /\ graph'.citingIn = citingIn
  BY <1>2
<1>9. graph' = [evaluations |-> graph'.evaluations, order |-> graph'.order,
               citing |-> graph'.citing, citingIn |-> graph'.citingIn]
  BY <1>2, <1>8
<1> QED BY <1>5, <1>6, <1>7, <1>8, <1>9 DEF v, q

(* Evaluate keeps the graph exact.                                         *)
LEMMA EvaluateGraph ==
    ASSUME StoreInv, GraphInv, NEW c \in Claims, Evaluate(c)
    PROVE  GraphInv'
<1> DEFINE v == Evaluated(c)
           q == c.id
<1>1. /\ v \in Evaluation /\ v # None /\ v.claim = c /\ q \in ClaimIds
      /\ v.verdict = "UNVERIFIED" <=> Refs(v) = {}
      /\ \A ref \in Refs(v) : trace.byId[ref.id] # None /\ trace.byId[ref.id].trace = ref.trace
  BY EvaluatedFacts, ClaimFacts
<1>2. /\ trace' = trace
      /\ graph'.evaluations = [graph.evaluations EXCEPT ![q] = v]
      /\ graph'.order = IF graph.evaluations[q] = None THEN Append(graph.order, q) ELSE graph.order
      /\ graph' = [evaluations |-> graph'.evaluations, order |-> graph'.order,
                   citing |-> graph'.citing, citingIn |-> graph'.citingIn]
      /\ graph'.citing \in [EventIds -> Seq(ClaimIds)]
      /\ graph'.citingIn \in [Traces \X EventIds -> Seq(ClaimIds)]
  BY EvaluateFields
<1>3. \A i \in EventIds :
         /\ NoRepeats(graph'.citing[i])
         /\ Image(graph'.citing[i]) = Listing(Image(graph.citing[i]), q, i \in EventKeys(Refs(v)))
  BY EvaluateFields
<1>4. \A k \in Traces \X EventIds :
         /\ NoRepeats(graph'.citingIn[k])
         /\ Image(graph'.citingIn[k]) = Listing(Image(graph.citingIn[k]), q, k \in TraceKeys(Refs(v)))
  BY EvaluateFields
<1> HIDE DEF v, q
<1>5. /\ graph.evaluations \in [ClaimIds -> Evaluation \cup {None}]
      /\ graph.order \in Seq(ClaimIds)
  BY GraphType DEF GraphInv
<1>6. /\ graph'.evaluations \in [ClaimIds -> Evaluation \cup {None}]
      /\ graph'.evaluations[q] = v
      /\ \A p \in ClaimIds : p # q => graph'.evaluations[p] = graph.evaluations[p]
  BY <1>1, <1>2, <1>5
<1>7. /\ graph'.order \in Seq(ClaimIds) /\ NoRepeats(graph'.order)
      /\ Image(graph'.order) = {p \in ClaimIds : graph'.evaluations[p] # None}
  <2>1. NoRepeats(graph.order) /\ Image(graph.order) = {p \in ClaimIds : graph.evaluations[p] # None}
    BY DEF GraphInv, GraphExact
  <2>2. CASE graph.evaluations[q] = None
    <3>1. q \notin Image(graph.order) /\ graph'.order = Append(graph.order, q)
      BY <1>2, <2>1, <2>2
    <3>2. /\ graph'.order \in Seq(ClaimIds) /\ NoRepeats(graph'.order)
          /\ Image(graph'.order) = Image(graph.order) \cup {q}
      BY <1>1, <1>5, <2>1, <3>1, AppendFacts
    <3> QED BY <1>1, <1>6, <2>1, <3>2
  <2>3. CASE graph.evaluations[q] # None
    <3>1. graph'.order = graph.order
      BY <1>2, <2>3
    <3> QED BY <1>1, <1>5, <1>6, <2>1, <2>3, <3>1
  <2> QED BY <2>2, <2>3
<1>8. graph' \in Graph
  BY <1>2, <1>6, <1>7 DEF Graph
<1>9. FiledOK'
  <2>1. q = c.id
    BY DEF q
  <2>2. \A p \in ClaimIds : graph.evaluations[p] # None =>
           /\ graph.evaluations[p].claim.id = p
           /\ graph.evaluations[p].verdict = "UNVERIFIED" <=> Refs(graph.evaluations[p]) = {}
    BY DEF GraphInv, FiledOK
  <2> SUFFICES ASSUME NEW p \in ClaimIds, graph'.evaluations[p] # None
               PROVE  /\ graph'.evaluations[p].claim.id = p
                      /\ graph'.evaluations[p].verdict = "UNVERIFIED" <=> Refs(graph'.evaluations[p]) = {}
    BY DEF FiledOK, Refs
  <2> QED BY <1>1, <1>6, <2>1, <2>2
<1>10. Current' = {graph'.evaluations[p] : p \in ClaimIds} \ {None}
  BY DEF Current
<1>11. /\ \A w \in Current' : w # None /\ w.claim.id \in ClaimIds /\ graph'.evaluations[w.claim.id] = w
       /\ \A w \in Current : w # None /\ w.claim.id \in ClaimIds /\ graph.evaluations[w.claim.id] = w
  BY <1>9, <1>10 DEF FiledOK, Current, GraphInv
<1>12. \A w : w \in Current' <=> w = v \/ (w \in Current /\ w.claim.id # q)
  <2>1. v.claim.id = q
    BY <1>1 DEF q
  <2>2. ASSUME NEW w \in Current'
        PROVE  w = v \/ (w \in Current /\ w.claim.id # q)
    <3>1. CASE w.claim.id = q
      BY <1>6, <1>11, <2>2, <3>1
    <3>2. CASE w.claim.id # q
      <4>1. w = graph.evaluations[w.claim.id]
        BY <1>6, <1>11, <2>2, <3>2
      <4> QED BY <1>11, <2>2, <3>2, <4>1 DEF Current
    <3> QED BY <3>1, <3>2
  <2>3. v \in Current'
    BY <1>1, <1>6, <1>10
  <2>4. ASSUME NEW w \in Current, w.claim.id # q
        PROVE  w \in Current'
    <3>1. w = graph'.evaluations[w.claim.id]
      BY <1>6, <1>11, <2>4
    <3> QED BY <1>10, <1>11, <2>4, <3>1
  <2> QED BY <2>2, <2>3, <2>4
<1>13. v.claim.id = q
  BY <1>1 DEF q
<1>14. ASSUME NEW i \in EventIds
       PROVE  Image(graph'.citing[i]) = {w.claim.id : w \in {w \in Current' : i \in EventKeys(Refs(w))}}
  <2>1. Image(graph.citing[i]) = {w.claim.id : w \in {w \in Current : i \in EventKeys(Refs(w))}}
    BY DEF GraphInv, GraphExact
  <2>2. Image(graph'.citing[i]) = Listing(Image(graph.citing[i]), q, i \in EventKeys(Refs(v)))
    BY <1>3
  <2> QED BY <1>12, <1>13, <2>1, <2>2 DEF Listing
<1>15. ASSUME NEW k \in Traces \X EventIds
       PROVE  Image(graph'.citingIn[k]) = {w.claim.id : w \in {w \in Current' : k \in TraceKeys(Refs(w))}}
  <2>1. Image(graph.citingIn[k]) = {w.claim.id : w \in {w \in Current : k \in TraceKeys(Refs(w))}}
    BY DEF GraphInv, GraphExact
  <2>2. Image(graph'.citingIn[k]) = Listing(Image(graph.citingIn[k]), q, k \in TraceKeys(Refs(v)))
    BY <1>4
  <2> QED BY <1>12, <1>13, <2>1, <2>2 DEF Listing
<1>16. \A w \in Current' : \A ref \in Refs(w) :
          trace'.byId[ref.id] # None /\ trace'.byId[ref.id].trace = ref.trace
  <2>1. \A w \in Current : \A ref \in Refs(w) :
           trace.byId[ref.id] # None /\ trace.byId[ref.id].trace = ref.trace
    BY DEF GraphInv, GraphExact
  <2> QED BY <1>1, <1>2, <1>12, <2>1
<1>17. GraphExact'
  BY <1>3, <1>4, <1>7, <1>14, <1>15, <1>16 DEF GraphExact, Image, NoRepeats, EventKeys, TraceKeys, Refs
<1> QED BY <1>8, <1>9, <1>17 DEF GraphInv

(* What was decided from events on record still is when more is recorded.  *)
LEMMA DecidedStays ==
    ASSUME NEW v, NEW e, NEW r, v.claim \in Claims, DecidedFrom(v, e, r),
           \A c \in Claims : c.trace # None => Scope(c) \subseteq Scope(c)'
    PROVE  DecidedFrom(v, e, r)'
<1>1. /\ v = Judged(v.claim, {r})
      /\ v.claim.trace # None /\ v.claim.type # "GENERIC" /\ HasSelector(v.claim)
      /\ e \in Scope(v.claim) /\ e.kind = "TOOL_CALL" /\ Selects(v.claim, e)
      /\ r \in Scope(v.claim) /\ r.kind = "TOOL_RESULT" /\ r.call = e.call
  BY DEF DecidedFrom, Executions
<1>2. e \in Scope(v.claim)' /\ r \in Scope(v.claim)'
  BY <1>1
<1>3. e \in Executions(v.claim)'
  BY <1>1, <1>2 DEF Executions
<1> QED BY <1>1, <1>2, <1>3 DEF DecidedFrom

(* A registered evaluation is of one of the claims.                        *)
LEMMA Registered ==
    ASSUME GraphInv, NEW q \in ClaimIds, graph.evaluations[q] # None
    PROVE  /\ graph.evaluations[q] \in Evaluation
           /\ graph.evaluations[q].claim \in Claims
           /\ graph.evaluations[q].claim.id = q
BY GraphType DEF GraphInv, FiledOK, Evaluation

LEMMA InitInv == Init => EvidenceInv
<1> SUFFICES ASSUME Init PROVE EvidenceInv
  OBVIOUS
<1>1. trace = EmptyStore /\ graph = EmptyGraph
  BY DEF Init
<1>2. StoreInv
  <2>1. trace \in Store /\ trace.events = <<>> /\ Agrees(trace)
    BY <1>1, EmptyType, EmptyAgrees
  <2>2. \A t \in Traces : trace.lastSeq[t] = -1
    BY <1>1 DEF EmptyStore
  <2>3. LogOK(trace.events)
    BY <2>1, EmptyLog
  <2>4. \A t \in Traces : trace.lastSeq[t] < Len(trace.events)
    BY <2>1, <2>2
  <2> QED BY <2>1, <2>3, <2>4 DEF StoreInv
<1>3. /\ graph.evaluations = [q \in ClaimIds |-> None]
      /\ graph.order = <<>>
      /\ graph.citing = [i \in EventIds |-> <<>>]
      /\ graph.citingIn = [k \in Traces \X EventIds |-> <<>>]
  BY <1>1 DEF EmptyGraph
<1>4. Current = {}
  BY <1>3 DEF Current
<1>5. NoRepeats(<<>>) /\ Image(<<>>) = {}
  BY DEF NoRepeats, Image
<1>6. GraphExact
  BY <1>3, <1>4, <1>5 DEF GraphExact
<1>7. graph \in Graph
  BY <1>1 DEF Graph, EmptyGraph
<1>8. FiledOK /\ JudgedInv
  BY <1>3 DEF FiledOK, JudgedInv
<1> QED BY <1>2, <1>6, <1>7, <1>8 DEF EvidenceInv, GraphInv

(* The graph stays right while events are only added to the store.         *)
LEMMA GraphStays ==
    ASSUME GraphInv, graph' = graph,
           \A i \in EventIds : trace.byId[i] # None => trace'.byId[i] = trace.byId[i]
    PROVE  GraphInv'
<1>1. Current' = Current /\ FiledOK'
  BY DEF Current, FiledOK, GraphInv, Refs
<1>2. ASSUME NEW v \in Current, NEW ref \in Refs(v)
      PROVE  trace'.byId[ref.id] # None /\ trace'.byId[ref.id].trace = ref.trace
  <2>1. trace.byId[ref.id] # None /\ trace.byId[ref.id].trace = ref.trace
    BY DEF GraphInv, GraphExact
  <2>2. v \in Evaluation
    BY Registered DEF Current
  <2>3. ref.id \in EventIds
    BY <2>2 DEF Evaluation, Refs, Ref
  <2> QED BY <2>1, <2>3
<1>3. /\ NoRepeats(graph.order)
      /\ Image(graph.order) = {q \in ClaimIds : graph.evaluations[q] # None}
      /\ \A i \in EventIds :
            /\ NoRepeats(graph.citing[i])
            /\ Image(graph.citing[i]) = {v.claim.id : v \in {v \in Current : i \in EventKeys(Refs(v))}}
      /\ \A k \in Traces \X EventIds :
            /\ NoRepeats(graph.citingIn[k])
            /\ Image(graph.citingIn[k]) = {v.claim.id : v \in {v \in Current : k \in TraceKeys(Refs(v))}}
  BY DEF GraphInv, GraphExact
<1>4. \A v \in Current' : \A ref \in Refs(v) :
         trace'.byId[ref.id] # None /\ trace'.byId[ref.id].trace = ref.trace
  BY <1>1, <1>2
<1>5. PICK now : now = Current
  OBVIOUS
<1>6. /\ \A i \in EventIds :
            Image(graph.citing[i]) = {v.claim.id : v \in {v \in now : i \in EventKeys(Refs(v))}}
      /\ \A k \in Traces \X EventIds :
            Image(graph.citingIn[k]) = {v.claim.id : v \in {v \in now : k \in TraceKeys(Refs(v))}}
  BY <1>3, <1>5
<1>7. now = Current'
  BY <1>1, <1>5
<1>8. GraphExact'
  BY <1>3, <1>4, <1>6, <1>7 DEF GraphExact
<1>9. graph' \in Graph
  BY DEF GraphInv
<1> QED BY <1>1, <1>8, <1>9 DEF GraphInv

LEMMA RecordInv ==
    ASSUME EvidenceInv, NEW x \in Candidates, Record(x)
    PROVE  EvidenceInv'
<1>1. /\ StoreInv /\ GraphInv /\ JudgedInv /\ graph' = graph
  BY DEF EvidenceInv, Record
<1>2. /\ StoreInv'
      /\ Image(trace.events) \subseteq Image(trace.events)'
      /\ \A c \in Claims : c.trace # None => Scope(c) \subseteq Scope(c)'
      /\ \A i \in EventIds : trace.byId[i] # None => trace'.byId[i] = trace.byId[i]
  BY <1>1, RecordFacts
<1>3. GraphInv'
  BY <1>1, <1>2, GraphStays
<1>4. JudgedInv'
  <2> SUFFICES ASSUME NEW q \in ClaimIds, graph.evaluations[q] # None,
                      graph.evaluations[q].verdict # "UNVERIFIED",
                      ~TraceLevel(graph.evaluations[q].claim)
               PROVE  \E e, r \in Image(trace.events)' : DecidedFrom(graph.evaluations[q], e, r)'
    BY <1>1 DEF JudgedInv
  <2>1. PICK v : v = graph.evaluations[q]
    OBVIOUS
  <2>2. PICK e, r \in Image(trace.events) : DecidedFrom(v, e, r)
    BY <1>1, <2>1 DEF JudgedInv
  <2>3. v.claim \in Claims
    BY <1>1, <2>1, Registered
  <2>4. DecidedFrom(v, e, r)'
    BY <1>2, <2>2, <2>3, DecidedStays
  <2> QED BY <1>1, <1>2, <2>1, <2>2, <2>4
<1> QED BY <1>2, <1>3, <1>4 DEF EvidenceInv

LEMMA EvaluateInv ==
    ASSUME EvidenceInv, NEW c \in Claims, Evaluate(c)
    PROVE  EvidenceInv'
<1>1. /\ StoreInv /\ GraphInv /\ JudgedInv /\ c.id \in ClaimIds /\ trace' = trace
      /\ graph'.evaluations = [graph.evaluations EXCEPT ![c.id] = Evaluated(c)]
      /\ graph.evaluations \in [ClaimIds -> Evaluation \cup {None}]
  BY ClaimFacts, EvaluateFields, GraphType DEF EvidenceInv, GraphInv
<1>2. GraphInv'
  BY <1>1, EvaluateGraph
<1>3. StoreInv'
  BY <1>1 DEF StoreInv
<1>4. JudgedInv'
  <2> SUFFICES ASSUME NEW q \in ClaimIds, NEW v, v = graph'.evaluations[q],
                      v # None, v.verdict # "UNVERIFIED", ~TraceLevel(v.claim)
               PROVE  \E e, r \in Image(trace.events)' : DecidedFrom(v, e, r)'
    BY DEF JudgedInv
  <2>1. PICK e, r \in Image(trace.events) : DecidedFrom(v, e, r)
    <3>1. CASE q = c.id
      <4>1. v = Evaluated(c) /\ v.claim = c
        BY <1>1, <3>1, EvaluatedFacts
      <4> QED BY <1>1, <4>1, EvaluatedFacts
    <3>2. CASE q # c.id
      <4>1. v = graph.evaluations[q]
        BY <1>1, <3>2
      <4> QED BY <1>1, <4>1 DEF JudgedInv
    <3> QED BY <3>1, <3>2
  <2>2. DecidedFrom(v, e, r)'
    BY <1>1, <2>1 DEF DecidedFrom, Executions, Scope, Image
  <2>3. Image(trace.events)' = Image(trace.events)
    BY <1>1 DEF Image
  <2> QED BY <2>1, <2>2, <2>3
<1> QED BY <1>2, <1>3, <1>4 DEF EvidenceInv

LEMMA NextInv == EvidenceInv /\ [Next]_vars => EvidenceInv'
<1> SUFFICES ASSUME EvidenceInv, [Next]_vars
             PROVE  EvidenceInv'
  OBVIOUS
<1>1. CASE Next
  BY <1>1, RecordInv, EvaluateInv DEF Next
<1>2. CASE UNCHANGED vars
  <2>1. trace' = trace /\ graph' = graph
    BY <1>2 DEF vars
  <2>2. StoreInv'
    BY <2>1 DEF EvidenceInv, StoreInv
  <2>3. GraphInv'
    BY <2>1, GraphStays DEF EvidenceInv
  <2>4. JudgedInv'
    BY <2>1 DEF EvidenceInv, JudgedInv, DecidedFrom, Executions, Scope
  <2> QED BY <2>2, <2>3, <2>4 DEF EvidenceInv
<1> QED BY <1>1, <1>2

(* The store is well formed, its indexes and those of the graph are exact, *)
(* and every decided evaluation of an execution has the call and the       *)
(* result it was decided from on record (TraceStore.append, evaluate,      *)
(* add_evaluation).                                                        *)
THEOREM EvidenceCorrect == Spec => []EvidenceInv
BY InitInv, NextInv, PTL DEF Spec

(* Store and graph have their types, and an evaluation is UNVERIFIED       *)
(* exactly when it cites nothing (TraceStore, EvidenceGraph).              *)
THEOREM TypeCorrect == Spec => []TypeOK
<1>1. EvidenceInv => TypeOK
  BY DEF EvidenceInv, StoreInv, GraphInv, FiledOK, TypeOK
<1> QED BY <1>1, EvidenceCorrect, PTL

(* The graph says what the latest evaluations say, whatever was evaluated  *)
(* before (add_evaluation).                                                *)
THEOREM GraphCorrect == Spec => []GraphExact
<1>1. EvidenceInv => GraphExact
  BY DEF EvidenceInv, GraphInv
<1> QED BY <1>1, EvidenceCorrect, PTL

(* What is on record about a decided claim: its result and, before it, the *)
(* call, which fits the claim.                                             *)
LEMMA OnRecord ==
    ASSUME EvidenceInv, NEW c \in Claims, NEW v, v.claim = c, ~TraceLevel(c),
           v.verdict # "UNVERIFIED",
           NEW e \in Image(trace.events), NEW r \in Image(trace.events), DecidedFrom(v, e, r)
    PROVE  /\ r \in Event /\ v = Judged(c, {r}) /\ Refs(v) = RefsTo({r})
           /\ r.kind = "TOOL_RESULT" /\ e.kind = "TOOL_CALL" /\ SlotOf(r) = SlotOf(e)
           /\ e.sequence < r.sequence
           /\ c.type # "GENERIC" /\ HasSelector(c) /\ c.trace = r.trace
           /\ c.session \in {None, Payload[r.id].session}
           /\ c.session \in {None, Payload[e.id].session}
           /\ Selects(c, e)
           /\ v.verdict = "VERIFIED" => Supports(c, r)
           /\ v.verdict # "VERIFIED" => Contradicts(c, r)
<1>1. /\ v = Judged(c, {r}) /\ c.trace # None /\ c.type # "GENERIC" /\ HasSelector(c)
      /\ e \in Scope(c) /\ e.kind = "TOOL_CALL" /\ Selects(c, e)
      /\ r \in Scope(c) /\ r.kind = "TOOL_RESULT" /\ r.call = e.call
      /\ StoreInv
  BY DEF DecidedFrom, Executions, EvidenceInv
<1>2. /\ r \in Event /\ e \in Event
      /\ e.trace = c.trace /\ c.session \in {None, Payload[e.id].session}
      /\ r.trace = c.trace /\ c.session \in {None, Payload[r.id].session}
  BY <1>1, ScopeFacts
<1>3. SlotOf(r) = SlotOf(e)
  BY <1>1, <1>2 DEF SlotOf
<1>4. /\ Refs(v) = RefsTo({r})
      /\ v.verdict = "VERIFIED" => Supports(c, r)
      /\ v.verdict # "VERIFIED" => Contradicts(c, r)
  BY <1>1, <1>2, OneEventFacts
<1>5. e.sequence < r.sequence
  <2>1. PICK log : log = trace.events
    OBVIOUS
  <2>2. SequencesGrow(log) /\ CallsCorrelated(log) /\ log \in Seq(Event)
    BY <1>1, <2>1, StoreType DEF StoreInv, LogOK
  <2>3. PICK i \in 1..Len(log) : r = log[i]
    BY <2>1 DEF Image
  <2>4. PICK j \in 1..(i - 1) : log[j].kind = "TOOL_CALL" /\ SlotOf(log[j]) = SlotOf(r)
    BY <1>1, <2>2, <2>3 DEF CallsCorrelated
  <2>5. j \in 1..Len(log) /\ j < i
    BY <2>2
  <2>6. log[j] \in Image(trace.events)
    BY <2>1, <2>5 DEF Image
  <2>7. log[j] = e
    BY <1>1, <1>3, <2>4, <2>6, EventsUnique
  <2>8. log[j].trace = log[i].trace
    BY <1>2, <2>3, <2>7
  <2> QED BY <2>2, <2>3, <2>5, <2>7, <2>8 DEF SequencesGrow
<1> QED BY <1>1, <1>2, <1>3, <1>4, <1>5

(* The events a decided current evaluation was decided from.               *)
LEMMA CurrentDecided ==
    ASSUME EvidenceInv, NEW v \in Current, v.verdict # "UNVERIFIED", ~TraceLevel(v.claim)
    PROVE  v.claim \in Claims /\ \E e, r \in Image(trace.events) : DecidedFrom(v, e, r)
<1>1. PICK q \in ClaimIds : v = graph.evaluations[q] /\ v # None
  BY DEF Current
<1> QED BY <1>1, Registered DEF EvidenceInv, JudgedInv

(* A claim about an execution is decided by one result, whose call fits    *)
(* everything the claim says, and verified only by a success (evaluate,    *)
(* _resolve_single_tool_execution).                                        *)
THEOREM DecidedCorrect == Spec => []DecidedByOne
<1> DEFINE Decides(v, r, e) ==
              /\ Refs(v) = RefsTo({r})
              /\ r.kind = "TOOL_RESULT" /\ e.kind = "TOOL_CALL" /\ SlotOf(r) = SlotOf(e)
              /\ e.sequence < r.sequence
              /\ v.claim.type # "GENERIC" /\ HasSelector(v.claim) /\ v.claim.trace = r.trace
              /\ v.claim.session \in {None, Payload[r.id].session}
              /\ v.claim.session \in {None, Payload[e.id].session}
              /\ v.claim.call \in {None, e.call}
              /\ v.claim.tool \in {None, Payload[e.id].tool}
              /\ v.claim.command # None => RunsCommand(v.claim, e)
              /\ v.verdict = "VERIFIED" =>
                    /\ Payload[r.id].status = "SUCCESS"
                    /\ v.claim.type = "COMMAND_EXITED_ZERO" => Payload[r.id].exit = 0
<1>1. EvidenceInv => DecidedByOne
  <2> SUFFICES ASSUME EvidenceInv, NEW v \in Current, v.verdict # "UNVERIFIED", ~TraceLevel(v.claim)
               PROVE  \E r \in Image(trace.events) : \E e \in Image(trace.events) : Decides(v, r, e)
    BY DEF DecidedByOne
  <2>1. v.claim \in Claims
    BY CurrentDecided
  <2>2. PICK e, r \in Image(trace.events) : DecidedFrom(v, e, r)
    BY CurrentDecided
  <2>3. /\ Refs(v) = RefsTo({r})
        /\ r.kind = "TOOL_RESULT" /\ e.kind = "TOOL_CALL" /\ SlotOf(r) = SlotOf(e)
        /\ e.sequence < r.sequence
        /\ v.claim.type # "GENERIC" /\ HasSelector(v.claim) /\ v.claim.trace = r.trace
        /\ v.claim.session \in {None, Payload[r.id].session}
        /\ v.claim.session \in {None, Payload[e.id].session}
        /\ Selects(v.claim, e)
        /\ v.verdict = "VERIFIED" => Supports(v.claim, r)
    BY <2>1, <2>2, OnRecord
  <2>4. v.claim.call \in {None, e.call} /\ v.claim.tool \in {None, Payload[e.id].tool}
        /\ (v.claim.command # None => RunsCommand(v.claim, e))
    BY <2>3 DEF Selects
  <2>5. v.verdict = "VERIFIED" =>
           /\ Payload[r.id].status = "SUCCESS"
           /\ v.claim.type = "COMMAND_EXITED_ZERO" => Payload[r.id].exit = 0
    BY <2>3 DEF Supports, OutcomeSupports, Succeeded
  <2>6. Decides(v, r, e)
    BY <2>3, <2>4, <2>5
  <2> HIDE DEF Decides
  <2> QED BY <2>6
<1> QED BY <1>1, EvidenceCorrect, PTL

(* Of two claims about the same result the stronger is never verified and  *)
(* the weaker contradicted (the cases of evaluate).                        *)
THEOREM StrongerCorrect == Spec => []StrongerWins
<1>1. EvidenceInv => StrongerWins
  <2> SUFFICES ASSUME EvidenceInv, NEW v \in Current, NEW w \in Current,
                      v.claim.type \in DOMAIN Strength, w.claim.type \in DOMAIN Strength,
                      Strength[v.claim.type] >= Strength[w.claim.type],
                      w.claim.expected = None,
                      v.verdict = "VERIFIED", w.verdict # "UNVERIFIED", Refs(v) = Refs(w),
                      w.verdict # "VERIFIED"
               PROVE  FALSE
    BY DEF StrongerWins
  <2>1. /\ DOMAIN Strength = {"COMMAND_EXITED_ZERO", "TESTS_PASSED", "TOOL_SUCCEEDED", "ACTION_COMPLETED"}
        /\ Strength["COMMAND_EXITED_ZERO"] = 3 /\ Strength["TESTS_PASSED"] = 2
        /\ Strength["TOOL_SUCCEEDED"] = 1 /\ Strength["ACTION_COMPLETED"] = 1
    BY DEF Strength
  <2>2. ~TraceLevel(v.claim) /\ ~TraceLevel(w.claim)
    BY <2>1 DEF TraceLevel
  <2>3. PICK c \in Claims, d \in Claims : c = v.claim /\ d = w.claim
    BY <2>2, CurrentDecided
  <2>4. PICK e, r \in Image(trace.events) : DecidedFrom(v, e, r)
    BY <2>2, CurrentDecided
  <2>5. PICK f, x \in Image(trace.events) : DecidedFrom(w, f, x)
    BY <2>2, CurrentDecided
  <2>6. r \in Event /\ Refs(v) = RefsTo({r}) /\ Supports(c, r)
    BY <2>2, <2>3, <2>4, OnRecord
  <2>7. x \in Event /\ Refs(w) = RefsTo({x}) /\ Contradicts(d, x)
    BY <2>2, <2>3, <2>5, OnRecord
  <2>8. r = x
    <3>1. [trace |-> r.trace, id |-> r.id] = [trace |-> x.trace, id |-> x.id]
      BY <2>6, <2>7 DEF RefsTo
    <3>2. r.id = x.id
      BY <3>1
    <3> QED BY <3>2, EventsUnique DEF EvidenceInv
  <2>9. OutcomeSupports(c, r) /\ ~OutcomeSupports(d, r)
    BY <2>1, <2>3, <2>6, <2>7, <2>8 DEF Supports, Contradicts
  <2>10. OutcomeSupports(d, r)
    <3>1. Succeeded(r) /\ Expected(d, r)
      BY <2>3, <2>9 DEF OutcomeSupports, Expected
    <3>2. CASE d.type = "COMMAND_EXITED_ZERO"
      <4>1. c.type = "COMMAND_EXITED_ZERO"
        BY <2>1, <2>3, <3>2
      <4> QED BY <2>9, <3>1, <3>2, <4>1 DEF OutcomeSupports
    <3>3. CASE d.type = "TESTS_PASSED"
      <4>1. c.type \in {"COMMAND_EXITED_ZERO", "TESTS_PASSED"}
        BY <2>1, <2>3, <3>3
      <4> QED BY <2>9, <3>1, <3>3, <4>1 DEF OutcomeSupports
    <3>4. CASE d.type \in {"TOOL_SUCCEEDED", "ACTION_COMPLETED"}
      BY <3>1, <3>4 DEF OutcomeSupports
    <3> QED BY <2>1, <2>3, <3>2, <3>3, <3>4
  <2> QED BY <2>9, <2>10
<1> QED BY <1>1, EvidenceCorrect, PTL

(* Evaluating a claim about an execution again, on a trace that has grown, *)
(* never flips its verdict, and never changes it when the claim names its  *)
(* call (evaluate, TraceStore.append).                                     *)
THEOREM NoFlips == Spec => NeverFlips
<1> DEFINE Kept(old, new) ==
              /\ {old.verdict, new.verdict} # {"VERIFIED", "CONTRADICTED"}
              /\ old.claim.call # None /\ old.verdict # "UNVERIFIED" => new = old
           Step == \A q \in ClaimIds :
              LET old == graph.evaluations[q]
                  new == graph'.evaluations[q]
              IN  /\ old # None /\ new # None
                  /\ old.claim = new.claim /\ ~TraceLevel(new.claim)
                  => Kept(old, new)
<1>1. ASSUME EvidenceInv, [Next]_vars
      PROVE  Step
  <2> SUFFICES ASSUME NEW q \in ClaimIds, NEW old, NEW new,
                      old = graph.evaluations[q], new = graph'.evaluations[q],
                      old # None, new # None, old.claim = new.claim, ~TraceLevel(new.claim)
               PROVE  Kept(old, new)
    OBVIOUS
  <2>1. CASE new = old
    BY <2>1
  <2>2. CASE new # old
    <3>1. graph' # graph
      BY <2>2
    <3>2. PICK c \in Claims : Evaluate(c)
      BY <1>1, <3>1 DEF Next, Record, vars
    <3>3. /\ graph'.evaluations = [graph.evaluations EXCEPT ![c.id] = Evaluated(c)]
          /\ graph.evaluations \in [ClaimIds -> Evaluation \cup {None}]
      BY <1>1, <3>2, EvaluateFields, GraphType DEF EvidenceInv, GraphInv
    <3>4. q = c.id /\ new = Evaluated(c)
      BY <2>2, <3>3
    <3>5. new.claim = c
      BY <1>1, <3>4, EvaluatedFacts DEF EvidenceInv
    <3>6. CASE old.verdict = "UNVERIFIED"
      BY <3>6
    <3>7. CASE old.verdict # "UNVERIFIED"
      <4>1. PICK e, r \in Image(trace.events) : DecidedFrom(old, e, r)
        BY <1>1, <3>7 DEF EvidenceInv, JudgedInv
      <4>2. /\ new.verdict # "UNVERIFIED" => new = old
            /\ c.call # None => new = old
        BY <1>1, <3>4, <3>5, <3>7, <4>1, EvaluatedAgain DEF EvidenceInv
      <4> QED BY <2>2, <3>5, <4>2
    <3> QED BY <3>6, <3>7
  <2> QED BY <2>1, <2>2
<1>2. EvidenceInv /\ [Next]_vars => [Step]_vars
  BY <1>1
<1>3. NeverFlips <=> [][Step]_vars
  BY DEF NeverFlips
<1> QED BY <1>2, <1>3, EvidenceCorrect, PTL DEF Spec

(***************************************************************************)
(* Fresh evaluations.                                                      *)
(***************************************************************************)

(* Only evaluating a claim changes an evaluation, and only that claim's.   *)
LEMMA FreshEvaluation ==
    ASSUME EvidenceInv, [Next]_vars, NEW q \in ClaimIds,
           graph'.evaluations[q] # graph.evaluations[q]
    PROVE  \E c \in Claims : graph'.evaluations[q] = Evaluated(c) /\ Evaluated(c).claim = c
<1>1. PICK c \in Claims : Evaluate(c)
  <2>1. graph' # graph
    OBVIOUS
  <2> QED BY <2>1 DEF Next, Record, vars
<1>2. /\ graph'.evaluations = [graph.evaluations EXCEPT ![c.id] = Evaluated(c)]
      /\ graph.evaluations \in [ClaimIds -> Evaluation \cup {None}]
  BY <1>1, EvaluateFields, GraphType DEF EvidenceInv, GraphInv
<1>3. q = c.id /\ graph'.evaluations[q] = Evaluated(c)
  BY <1>2
<1> QED BY <1>3, EvaluatedFacts DEF EvidenceInv

(* A claim about an execution whose one call has a result in scope is      *)
(* undecided only if no exit code was recorded.                            *)
LEMMA UndecidedResult ==
    ASSUME StoreInv, NEW c \in Claims, Evaluated(c).verdict = "UNVERIFIED",
           c.type \notin {"GENERIC", "FILE_EXISTS"}, c.trace # None, HasSelector(c),
           NEW e, Executions(c) = {e},
           NEW r \in Scope(c), r.kind = "TOOL_RESULT", r.call = e.call
    PROVE  c.type = "COMMAND_EXITED_ZERO" /\ Payload[r.id].exit = None
<1>1. r \in Resolved(c)
  BY DEF Resolved
<1>2. Considered(c) = {r}
  BY <1>1, ResolvedFacts DEF Considered, TraceLevel
<1> DEFINE sup == {x \in {r} : Supports(c, x)}
           con == {x \in {r} : Contradicts(c, x)}
<1>3. Decide(c, sup, con) = "UNVERIFIED"
  BY <1>2 DEF Evaluated, Judged
<1>4. sup \cup con = {}
  BY <1>3, DecideFacts
<1>5. ~Supports(c, r) /\ ~Contradicts(c, r)
  BY <1>4
<1> QED BY <1>5 DEF Supports, Contradicts, Inconclusive

(* A fresh evaluation leaves a claim about an execution undecided only for *)
(* a reason (evaluate, _resolve_single_tool_execution).                    *)
THEOREM UndecidedCorrect == Spec => UndecidedForAReason
<1> DEFINE Fits(c) == {n \in 1..Len(trace.events) : /\ trace.events[n].kind = "TOOL_CALL"
                                                    /\ trace.events[n] \in Scope(c)
                                                    /\ Selects(c, trace.events[n])}
           NoResult(c, n) == \A r \in Scope(c) :
               r.kind = "TOOL_RESULT" /\ r.call = trace.events[n].call =>
                  c.type = "COMMAND_EXITED_ZERO" /\ Payload[r.id].exit = None
           Step == \A q \in ClaimIds :
              LET v == graph'.evaluations[q]
                  c == v.claim
              IN  /\ v # graph.evaluations[q] /\ v.verdict = "UNVERIFIED"
                  /\ c.type \notin {"GENERIC", "FILE_EXISTS"} /\ c.trace # None /\ HasSelector(c)
                  => \/ Cardinality(Fits(c)) # 1
                     \/ \A n \in Fits(c) : NoResult(c, n)
<1>1. ASSUME EvidenceInv, [Next]_vars
      PROVE  Step
  <2> SUFFICES ASSUME NEW q \in ClaimIds, NEW v, NEW c,
                      v = graph'.evaluations[q], c = v.claim,
                      v # graph.evaluations[q], v.verdict = "UNVERIFIED",
                      c.type \notin {"GENERIC", "FILE_EXISTS"}, c.trace # None, HasSelector(c),
                      Cardinality(Fits(c)) = 1, NEW n \in Fits(c)
               PROVE  NoResult(c, n)
    OBVIOUS
  <2>1. c \in Claims /\ v = Evaluated(c) /\ StoreInv
    BY <1>1, FreshEvaluation DEF EvidenceInv
  <2>2. Fits(c) = {n}
    <3>1. Len(trace.events) \in Nat
      BY <2>1, StoreType DEF StoreInv
    <3>2. IsFiniteSet(Fits(c))
      <4>1. PICK k \in Nat : k = Len(trace.events)
        BY <3>1
      <4>2. IsFiniteSet(1..k)
        BY FS_Interval
      <4>3. Fits(c) \in SUBSET (1..k)
        BY <4>1
      <4> HIDE DEF Fits
      <4> QED BY <4>2, <4>3, FS_Subset
    <3>3. \E m : Fits(c) = {m}
      <4> HIDE DEF Fits
      <4> QED BY <3>2, FS_Singleton
    <3> QED BY <3>3
  <2>3. Executions(c) = {trace.events[n]}
    <3>1. trace.events[n] \in Executions(c)
      BY DEF Executions
    <3>2. ASSUME NEW e \in Executions(c)
          PROVE  e = trace.events[n]
      <4>1. PICK m \in 1..Len(trace.events) : e = trace.events[m]
        BY <2>1, ScopeFacts DEF Executions, Image
      <4>2. m \in Fits(c)
        BY <4>1 DEF Executions
      <4> QED BY <2>2, <4>1, <4>2
    <3> QED BY <3>1, <3>2
  <2> QED BY <2>1, <2>3, UndecidedResult
<1>2. EvidenceInv /\ [Next]_vars => [Step]_vars
  BY <1>1
<1>3. UndecidedForAReason <=> [][Step]_vars
  BY DEF UndecidedForAReason
<1> QED BY <1>2, <1>3, EvidenceCorrect, PTL DEF Spec

(* A set of positions that is not empty has a last one.                    *)
LEMMA LastPosition ==
    ASSUME NEW L \in Nat, NEW T \in SUBSET (1..L), T # {}
    PROVE  \E n \in T : \A m \in (n + 1)..L : m \notin T
<1> DEFINE U == {L - n : n \in T}
<1>1. U \subseteq Nat /\ U # {}
  <2>1. \A n \in T : L - n \in Nat
    OBVIOUS
  <2>2. PICK n : n \in T
    OBVIOUS
  <2>3. L - n \in U
    BY <2>2
  <2> QED BY <2>1, <2>3
<1> HIDE DEF U
<1>2. PICK x \in U : \A y \in U : ~(<<y, x>> \in OpToRel(<, Nat))
  BY <1>1, NatLessThanWellFounded, WFMin
<1>3. \A y \in U : ~(y < x)
  BY <1>1, <1>2 DEF OpToRel
<1>4. PICK n \in T : x = L - n
  BY DEF U
<1>5. ASSUME NEW m \in (n + 1)..L, m \in T
      PROVE  FALSE
  <2>1. L - m \in U /\ L - m < x
    BY <1>4, <1>5 DEF U
  <2> QED BY <1>3, <2>1
<1> QED BY <1>5

(* The positions that speak of a claim's file are those of its evidence.   *)
LEMMA MentionsEvidence ==
    ASSUME StoreInv, NEW c \in Claims, TraceLevel(c), c.trace # None,
           NEW n \in 1..Len(trace.events)
    PROVE  LET e == trace.events[n]
           IN  /\ Mentions(c, n) <=> e \in Scope(c) /\ (Supports(c, e) \/ Contradicts(c, e))
               /\ Mentions(c, n) => (Contradicts(c, e) <=> c.path \in Payload[e.id].gone)
<1> DEFINE e == trace.events[n]
<1>1. e \in Image(trace.events)
  BY DEF Image
<1>2. e \in Scope(c) <=> e.trace = c.trace /\ c.session \in {None, Payload[e.id].session}
  BY <1>1, ScopeFacts
<1>3. c.type = "FILE_EXISTS"
  BY DEF TraceLevel
<1>4. Supports(c, e) <=> /\ Observes(e) /\ c.path \in Payload[e.id].present
                         /\ e.kind = "TOOL_RESULT" => Succeeded(e)
  BY <1>3 DEF Supports
<1>5. Contradicts(c, e) <=> Observes(e) /\ c.path \in Payload[e.id].gone
  BY <1>3 DEF Contradicts
<1> QED BY <1>2, <1>4, <1>5 DEF Mentions

(* The evaluation of a claim about a file in the whole trace.              *)
LEMMA FileVerdict ==
    ASSUME StoreInv, NEW c \in Claims, TraceLevel(c), c.trace # None, c.path # None
    PROVE  LET v == Evaluated(c)
               last == {n \in 1..Len(trace.events) : /\ Mentions(c, n)
                                                     /\ \A m \in (n + 1)..Len(trace.events) :
                                                           ~Mentions(c, m)}
           IN  /\ v.verdict = "UNVERIFIED" <=> last = {}
               /\ \A n \in last : v.verdict = "CONTRADICTED" <=>
                     c.path \in Payload[trace.events[n].id].gone
<1> DEFINE sup == {x \in Scope(c) : Supports(c, x)}
           con == {x \in Scope(c) : Contradicts(c, x)}
           newest == {x \in sup \cup con : \A f \in sup \cup con : f.sequence <= x.sequence}
           told == {n \in 1..Len(trace.events) : Mentions(c, n)}
           last == {n \in 1..Len(trace.events) : /\ Mentions(c, n)
                                                 /\ \A m \in (n + 1)..Len(trace.events) :
                                                       ~Mentions(c, m)}
<1>1. Considered(c) = Scope(c)
  BY DEF Considered, TraceLevel
<1>2. Evaluated(c).verdict = Decide(c, sup, con)
  BY <1>1 DEF Evaluated, Judged
<1>3. /\ Len(trace.events) \in Nat /\ SequencesGrow(trace.events)
      /\ \A n \in 1..Len(trace.events) : trace.events[n] \in Event
  BY StoreType DEF StoreInv, LogOK
<1>4. \A x : x \in sup \cup con <=> \E n \in told : x = trace.events[n]
  <2>1. ASSUME NEW x \in sup \cup con
        PROVE  \E n \in told : x = trace.events[n]
    <3>1. PICK n \in 1..Len(trace.events) : x = trace.events[n]
      BY ScopeFacts DEF Image
    <3>2. Mentions(c, n)
      BY <2>1, <3>1, MentionsEvidence
    <3> QED BY <3>1, <3>2
  <2>2. ASSUME NEW n \in told
        PROVE  trace.events[n] \in sup \cup con
    BY MentionsEvidence
  <2> QED BY <2>1, <2>2
<1>5. last = {} <=> told = {}
  <2>1. ASSUME told # {}
        PROVE  last # {}
    <3>1. told \in SUBSET (1..Len(trace.events))
      OBVIOUS
    <3>2. PICK n \in told : \A m \in (n + 1)..Len(trace.events) : m \notin told
      <4> HIDE DEF told
      <4> QED BY <1>3, <2>1, <3>1, LastPosition
    <3>3. \A m \in (n + 1)..Len(trace.events) : m \in 1..Len(trace.events)
      BY <1>3
    <3>4. n \in last
      BY <3>2, <3>3
    <3> QED BY <3>4
  <2> QED BY <2>1
<1>6. Evaluated(c).verdict = "UNVERIFIED" <=> last = {}
  <2>1. sup \cup con = {} <=> told = {}
    <3> HIDE DEF sup, con, told
    <3> QED BY <1>4
  <2> HIDE DEF sup, con, told, last
  <2> QED BY <1>2, <1>5, <2>1, DecideFacts
<1>7. ASSUME NEW n \in last
      PROVE  Evaluated(c).verdict = "CONTRADICTED" <=> c.path \in Payload[trace.events[n].id].gone
  <2> DEFINE e == trace.events[n]
  <2>1. n \in told /\ e \in Scope(c) /\ e \in sup \cup con /\ (e \in con <=> c.path \in Payload[e.id].gone)
    BY MentionsEvidence
  <2>2. ASSUME NEW m \in told, m # n
        PROVE  /\ trace.events[m].sequence < e.sequence
               /\ trace.events[m].sequence \in Int /\ e.sequence \in Int
    <3>1. m < n
      BY <1>3, <2>2
    <3>2. trace.events[m].trace = e.trace
      BY DEF Mentions
    <3>3. trace.events[m].sequence \in Nat /\ e.sequence \in Nat
      BY <1>3, EventType
    <3> QED BY <1>3, <3>1, <3>2, <3>3 DEF SequencesGrow
  <2>3. \A f \in sup \cup con :
           /\ f.sequence <= e.sequence
           /\ f # e => f.sequence < e.sequence
           /\ f.sequence \in Int /\ e.sequence \in Int
    <3> SUFFICES ASSUME NEW f \in sup \cup con
                 PROVE  /\ f.sequence <= e.sequence
                        /\ f # e => f.sequence < e.sequence
                        /\ f.sequence \in Int /\ e.sequence \in Int
      OBVIOUS
    <3>1. PICK m \in told : f = trace.events[m]
      <4> HIDE DEF sup, con, told
      <4> QED BY <1>4
    <3>2. e.sequence \in Int
      BY <1>3, EventType
    <3>3. CASE m = n
      BY <3>1, <3>2, <3>3
    <3>4. CASE m # n
      <4>1. /\ trace.events[m].sequence < e.sequence
            /\ trace.events[m].sequence \in Int /\ e.sequence \in Int
        BY <2>2, <3>4
      <4> QED BY <3>1, <4>1
    <3> QED BY <3>3, <3>4
  <2> HIDE DEF sup, con, told, last, e
  <2>4. newest = {e}
    <3>1. e \in newest
      BY <2>1, <2>3
    <3>2. ASSUME NEW x \in newest
          PROVE  x = e
      BY <2>1, <2>3
    <3> QED BY <3>1, <3>2
  <2>5. Decide(c, sup, con) =
          CASE sup \cup con = {} -> "UNVERIFIED"
            [] sup \cup con # {} /\ newest \cap con = {} -> "VERIFIED"
            [] newest \cap con # {} -> "CONTRADICTED"
    BY DEF Decide
  <2> HIDE DEF newest
  <2>6. CASE e \in con
    <3>1. newest \cap con # {} /\ sup \cup con # {}
      BY <2>4, <2>6
    <3>2. Decide(c, sup, con) = "CONTRADICTED"
      BY <2>5, <3>1
    <3> QED BY <1>2, <2>1, <2>6, <3>2 DEF e
  <2>7. CASE e \notin con
    <3>1. newest \cap con = {} /\ sup \cup con # {}
      BY <2>1, <2>4, <2>7
    <3>2. Decide(c, sup, con) = "VERIFIED"
      BY <2>5, <3>1
    <3> QED BY <1>2, <2>1, <2>7, <3>2 DEF e
  <2> QED BY <2>6, <2>7
<1> QED BY <1>6, <1>7

(* A fresh evaluation about a file in the whole trace says what the last   *)
(* observation in the log says (evaluate, _check_file_exists_in_event).    *)
THEOREM LastObservationCorrect == Spec => LastObservationDecides
<1> DEFINE Last(c) == {n \in 1..Len(trace.events) : /\ Mentions(c, n)
                                                    /\ \A m \in (n + 1)..Len(trace.events) :
                                                          ~Mentions(c, m)}
           Step == \A q \in ClaimIds :
              LET v == graph'.evaluations[q]
              IN  /\ v # graph.evaluations[q]
                  /\ TraceLevel(v.claim) /\ v.claim.trace # None /\ v.claim.path # None
                  => /\ v.verdict = "UNVERIFIED" <=> Last(v.claim) = {}
                     /\ \A n \in Last(v.claim) : v.verdict = "CONTRADICTED" <=>
                           v.claim.path \in Payload[trace.events[n].id].gone
<1>1. ASSUME EvidenceInv, [Next]_vars
      PROVE  Step
  <2> SUFFICES ASSUME NEW q \in ClaimIds, NEW v, NEW c,
                      v = graph'.evaluations[q], c = v.claim, v # graph.evaluations[q],
                      TraceLevel(c), c.trace # None, c.path # None
               PROVE  /\ v.verdict = "UNVERIFIED" <=> Last(c) = {}
                      /\ \A n \in Last(c) : v.verdict = "CONTRADICTED" <=>
                            c.path \in Payload[trace.events[n].id].gone
    OBVIOUS
  <2>1. c \in Claims /\ v = Evaluated(c) /\ StoreInv
    BY <1>1, FreshEvaluation DEF EvidenceInv
  <2> QED BY <2>1, FileVerdict
<1>2. EvidenceInv /\ [Next]_vars => [Step]_vars
  BY <1>1
<1>3. LastObservationDecides <=> [][Step]_vars
  BY DEF LastObservationDecides
<1> QED BY <1>2, <1>3, EvidenceCorrect, PTL DEF Spec

(***************************************************************************)
(* What tools reported.                                                    *)
(***************************************************************************)

(* A hook's response recorded as a success reports none but a zero exit    *)
(* code, and no error.                                                     *)
LEMMA HookSuccess ==
    ASSUME NEW x \in Response, x.form # "record",
           NEW exit, ToToolResult(x) = Outcome("SUCCESS", exit)
    PROVE  /\ ~ReportsFailure(x)
           /\ Reported(x) \subseteq {0}
           /\ IF x.form = "other" THEN exit = None /\ Reported(x) = {}
              ELSE x.form \in {"mapping", "text"} /\ exit = 0
<1>1. HookResult(x) = Outcome("SUCCESS", exit)
  BY DEF ToToolResult
<1>2. \A st, ex : Outcome(st, ex) = Outcome("SUCCESS", exit) => st = "SUCCESS" /\ ex = exit
  <2> SUFFICES ASSUME NEW st, NEW ex, Outcome(st, ex) = Outcome("SUCCESS", exit)
               PROVE  st = "SUCCESS" /\ ex = exit
    OBVIOUS
  <2>1. Outcome(st, ex).status = st /\ Outcome(st, ex).exit = ex
    BY DEF Outcome
  <2>2. Outcome("SUCCESS", exit).status = "SUCCESS" /\ Outcome("SUCCESS", exit).exit = exit
    BY DEF Outcome
  <2> QED BY <2>1, <2>2
<1>3. x.word = None /\ x.form \in {"mapping", "text", "other"}
  BY DEF Response
<1>4. CASE x.form = "other"
  <2>1. HookResult(x) = Outcome("SUCCESS", None)
    BY <1>4 DEF HookResult
  <2>2. exit = None
    BY <1>1, <1>2, <2>1
  <2>3. x.exit = None /\ x.code = None /\ x.flagged = FALSE
    BY <1>4 DEF Response
  <2>4. Reported(x) = {}
    BY <2>3 DEF Reported
  <2> QED BY <1>3, <1>4, <2>2, <2>3, <2>4 DEF ReportsFailure
<1>5. CASE x.form # "other"
  <2>1. ~(x.flagged \/ ReadCode(x) \notin {0, None})
    <3> SUFFICES ASSUME x.flagged \/ ReadCode(x) \notin {0, None}
                 PROVE  FALSE
      OBVIOUS
    <3>1. HookResult(x) = Outcome("ERROR", ReadCode(x))
      BY <1>5 DEF HookResult
    <3>2. "ERROR" = "SUCCESS"
      BY <1>1, <1>2, <3>1
    <3> QED BY <3>2
  <2>2. HookResult(x) = Outcome("SUCCESS", 0)
    BY <1>5, <2>1 DEF HookResult
  <2>3. exit = 0
    BY <1>1, <1>2, <2>2
  <2>4. ~x.flagged /\ ReadCode(x) \in {0, None}
    BY <2>1
  <2>5. Reported(x) \subseteq {0}
    BY <2>4 DEF Reported, ReadCode
  <2> QED BY <1>3, <1>5, <2>3, <2>4, <2>5 DEF ReportsFailure
<1> QED BY <1>4, <1>5

(* Another agent's record that is recorded as a success reports no failure *)
(* and, if any, the exit code that is recorded.                            *)
LEMMA RecordSuccess ==
    ASSUME NEW x \in Response, x.form = "record",
           NEW exit, ToToolResult(x) = Outcome("SUCCESS", exit)
    PROVE  /\ ~ReportsFailure(x)
           /\ x.exit = exit /\ x.code = None /\ exit # Odd
<1>1. RecordResult(x) = Outcome("SUCCESS", exit)
  BY DEF ToToolResult
<1>2. \A st, ex : Outcome(st, ex) = Outcome("SUCCESS", exit) => st = "SUCCESS" /\ ex = exit
  <2> SUFFICES ASSUME NEW st, NEW ex, Outcome(st, ex) = Outcome("SUCCESS", exit)
               PROVE  st = "SUCCESS" /\ ex = exit
    OBVIOUS
  <2>1. Outcome(st, ex).status = st /\ Outcome(st, ex).exit = ex
    BY DEF Outcome
  <2>2. Outcome("SUCCESS", exit).status = "SUCCESS" /\ Outcome("SUCCESS", exit).exit = exit
    BY DEF Outcome
  <2> QED BY <2>1, <2>2
<1>3. x.code = None /\ x.word \in StatusWords \cup {None}
  BY DEF Response
<1> DEFINE failed == x.flagged \/ (x.exit # None /\ (x.quoted \/ x.exit # 0))
<1>4. RecordResult(x) =
        CASE x.word = "unknown" \/ x.exit = Odd -> Outcome(None, None)
          [] x.word \notin {"unknown", None} /\ x.exit # Odd -> Outcome(x.word, x.exit)
          [] x.word = None /\ x.exit # Odd ->
                Outcome(IF failed THEN "ERROR" ELSE "SUCCESS", x.exit)
  BY DEF RecordResult, Refused
<1>5. None # "SUCCESS" /\ None # "unknown"
  BY OddAssumption DEF StatusWords
<1>6. ~(x.word = "unknown" \/ x.exit = Odd)
  <2> SUFFICES ASSUME x.word = "unknown" \/ x.exit = Odd
               PROVE  FALSE
    OBVIOUS
  <2>1. RecordResult(x) = Outcome(None, None)
    BY <1>4, <1>5
  <2> QED BY <1>1, <1>2, <1>5, <2>1
<1>7. CASE x.word # None
  <2>1. RecordResult(x) = Outcome(x.word, x.exit)
    BY <1>4, <1>6, <1>7
  <2>2. x.word = "SUCCESS" /\ x.exit = exit
    BY <1>1, <1>2, <2>1
  <2> QED BY <1>3, <1>6, <1>7, <2>2 DEF ReportsFailure
<1>8. CASE x.word = None
  <2>1. RecordResult(x) = Outcome(IF failed THEN "ERROR" ELSE "SUCCESS", x.exit)
    BY <1>4, <1>6, <1>8
  <2>2. (IF failed THEN "ERROR" ELSE "SUCCESS") = "SUCCESS" /\ x.exit = exit
    BY <1>1, <1>2, <2>1
  <2>3. ~failed
    BY <2>2
  <2>4. Reported(x) \subseteq {0}
    BY <1>3, <2>3 DEF Reported
  <2> QED BY <1>3, <1>6, <1>8, <2>2, <2>3, <2>4 DEF ReportsFailure
<1> QED BY <1>7, <1>8

(* What stands behind a result that is recorded as a success.              *)
LEMMA SuccessReported ==
    ASSUME NEW x \in Response, NEW exit \in ExitCodes \cup {None},
           ToToolResult(x) = Outcome("SUCCESS", exit)
    PROVE  /\ ~ReportsFailure(x)
           /\ exit = 0 => Reported(x) = {0} \/ (Reported(x) = {} /\ x.form \in {"mapping", "text"})
           /\ exit # None => Reported(x) \subseteq {exit}
<1>1. CASE x.form = "record"
  <2>1. /\ ~ReportsFailure(x)
        /\ x.exit = exit /\ x.code = None /\ exit # Odd
    BY <1>1, RecordSuccess
  <2>2. exit # None => Reported(x) = {exit}
    BY <2>1 DEF Reported
  <2> QED BY <2>1, <2>2, OddAssumption
<1>2. CASE x.form # "record"
  <2>1. /\ ~ReportsFailure(x)
        /\ Reported(x) \subseteq {0}
        /\ IF x.form = "other" THEN exit = None /\ Reported(x) = {}
           ELSE x.form \in {"mapping", "text"} /\ exit = 0
    BY <1>2, HookSuccess
  <2>2. Reported(x) = {} \/ Reported(x) = {0}
    BY <2>1
  <2> QED BY <2>1, <2>2, OddAssumption
<1> QED BY <1>1, <1>2

(* No claim about an execution is VERIFIED by a result that was reported   *)
(* as a failure or with another exit code than the claim is about, by any  *)
(* word or key that the adapters read (to_tool_result of both, evaluate).  *)
THEOREM ReportedCorrect == Spec => []VerifiedAsReported
<1>1. ASSUME EvidenceInv
      PROVE  VerifiedAsReported
  <2> SUFFICES ASSUME NEW v \in Current, v.verdict = "VERIFIED", ~TraceLevel(v.claim),
                      NEW ref \in Refs(v), NEW x \in ReportedAs[ref.id]
               PROVE  /\ ~ReportsFailure(x)
                      /\ v.claim.type = "COMMAND_EXITED_ZERO" =>
                            Reported(x) = {0} \/ (Reported(x) = {} /\ x.form \in {"mapping", "text"})
                      /\ v.claim.type \in {"TOOL_SUCCEEDED", "TESTS_PASSED"} /\ v.claim.expected # None =>
                            Reported(x) \subseteq {v.claim.expected}
    BY DEF VerifiedAsReported
  <2>1. PICK q \in ClaimIds : v = graph.evaluations[q] /\ v # None
    BY DEF Current
  <2>2. PICK e, r \in Image(trace.events) : DecidedFrom(v, e, r)
    BY <1>1, <2>1 DEF EvidenceInv, JudgedInv
  <2> DEFINE c == v.claim
  <2>3. v = Judged(c, {r}) /\ r.kind = "TOOL_RESULT" /\ c.type # "GENERIC"
    BY <2>2 DEF DecidedFrom
  <2>4. r \in Event /\ c \in Claims
    <3>1. v \in Evaluation
      BY <1>1, <2>1, GraphType DEF EvidenceInv, GraphInv
    <3> QED BY <1>1, <2>2, <3>1, EventsUnique DEF EvidenceInv, Evaluation
  <2>5. Refs(v) = RefsTo({r}) /\ Supports(c, r)
    BY <2>3, <2>4, OneEventFacts
  <2>6. ref.id = r.id
    BY <2>5 DEF RefsTo
  <2>7. r.id \in EventIds /\ Payload[r.id] \in PayloadData
    BY <2>4, EventType, EvidenceAssumption
  <2>8. Payload[r.id].status = "SUCCESS"
    BY <2>3, <2>5 DEF Supports, OutcomeSupports, Succeeded
  <2>9. Payload[r.id].exit \in ExitCodes \cup {None}
    BY <2>7 DEF PayloadData
  <2>10. x \in Response /\ ToToolResult(x) = Outcome("SUCCESS", Payload[r.id].exit)
    BY <2>6, <2>7, <2>8 DEF ReportedAs
  <2>11. /\ c.type = "COMMAND_EXITED_ZERO" => Payload[r.id].exit = 0
         /\ c.type \in {"TOOL_SUCCEEDED", "TESTS_PASSED"} => c.expected \in {None, Payload[r.id].exit}
    BY <2>5 DEF Supports, OutcomeSupports, Expected
  <2>12. /\ ~ReportsFailure(x)
         /\ Payload[r.id].exit = 0 =>
               Reported(x) = {0} \/ (Reported(x) = {} /\ x.form \in {"mapping", "text"})
         /\ Payload[r.id].exit # None => Reported(x) \subseteq {Payload[r.id].exit}
    BY <2>9, <2>10, SuccessReported
  <2> QED BY <2>11, <2>12
<1> QED BY <1>1, EvidenceCorrect, PTL
==============================================================================
