---------------------------- MODULE SpecGuard_proofs ----------------------------
(***************************************************************************)
(* Proofs about SpecGuard.  The loop invariant says what the decision so   *)
(* far stands for: the constraints considered for the current action, and  *)
(* all constraints for the actions before it.  The last two parts are      *)
(* about what it is given to judge: what the adapter reads in the texts of *)
(* patches (CodexPatch) and in the calls of tools (CodexAction).           *)
(***************************************************************************)
EXTENDS CodexAction, SequenceTheorems, WellFoundedInduction, TLAPS

(* d is the decision about the constraints of l with an index in N and the *)
(* actions in S.                                                           *)
Decides(d, l, N, S) ==
    /\ d = [kind |-> d.kind, matched |-> d.matched, violating |-> d.violating]
    /\ d.kind \in {"ALLOW", "WARN", "BLOCK"}
    /\ d.matched = {n \in N : \E a \in S : Applies(l[n], a)}
    /\ d.violating = {n \in N : \E a \in S : Broken(l[n], a)}
    /\ d.kind = "BLOCK" <=> \E n \in N, a \in S : Broken(l[n], a) /\ Binding(l[n])
    /\ d.kind = "ALLOW" <=> \A n \in N, a \in S : ~Broken(l[n], a)

WellFormed(l) == \A n \in DOMAIN l : l[n] \in Constraint /\ (l[n].effect # "DENY" => l[n].compliance # None)

(* What subs holds for each kind of call.                                  *)
CallInv ==
    /\ call.kind \in {"idle", "pre", "patch", "post"}
    /\ call.kind = "idle" => call = Idle
    /\ call.kind = "pre" => call.action \in Actions /\ subs = <<call.action>>
    /\ call.kind = "patch" =>
         call.patch \in Patches /\ subs = [n \in DOMAIN call.patch.ops |-> SubAction(call.patch, n)]
    /\ call.kind = "post" =>
         /\ call.action \in Action /\ Synced(call.action) = call.action
         /\ call.obs \in Observations
         /\ subs = PostActions(call.action, call.obs)

LoopInv ==
    /\ Decides(result, ledger, 1..Len(ledger), {subs[m] : m \in 1..(cur - 1)})
    /\ IF Done THEN decision = NoDecision /\ nxt = 1
       ELSE Decides(decision, ledger, 1..(nxt - 1), {subs[cur]})

LedgerInv == ledger \in Seq(Constraint) /\ WellFormed(ledger)

TypeInv ==
    /\ subs \in Seq(Action)
    /\ cur \in 1..(Len(subs) + 1)
    /\ nxt \in 1..(Len(ledger) + 1)

GuardInv == LedgerInv /\ TypeInv /\ CallInv /\ LoopInv

--------------------------------------------------------------------------------
(* One round of the loop extends the decision by one constraint.           *)
LEMMA ConsideredDecides ==
    ASSUME NEW l, NEW k \in Nat \ {0}, NEW a, NEW d, NEW c, NEW e,
           c = l[k], c.effect # "DENY" => c.compliance # None,
           Decides(d, l, 1..(k - 1), {a}), e = Considered(d, c, k, a)
    PROVE  Decides(e, l, 1..k, {a})
<1> DEFINE applies == Applies(c, a)
           broken == Broken(c, a)
<1>1. 1..k = 1..(k - 1) \cup {k}
  OBVIOUS
<1>2. CASE ~applies
  <2>1. e = d /\ ~broken
    BY <1>2 DEF Considered, Applies, Broken
  <2> QED BY <1>1, <1>2, <2>1 DEF Decides
<1>3. CASE applies /\ ~broken
  <2>1. e = [kind |-> d.kind, matched |-> d.matched \cup {k}, violating |-> d.violating]
    <3>1. c.effect # "DENY" /\ Complies(c, a)
      BY <1>3 DEF Broken, Complies
    <3> QED BY <1>3, <3>1 DEF Considered, Applies
  <2>2. e.kind = d.kind /\ e.matched = d.matched \cup {k} /\ e.violating = d.violating
    BY <2>1
  <2> QED BY <1>1, <1>3, <2>1, <2>2 DEF Decides
<1>4. CASE applies /\ broken
  <2> DEFINE new == IF Binding(c) THEN "BLOCK" ELSE "WARN"
  <2>1. e = [kind |-> Raised(d.kind, new), matched |-> d.matched \cup {k},
             violating |-> d.violating \cup {k}]
    <3>1. ~(c.effect # "DENY" /\ Complies(c, a))
      BY <1>4 DEF Broken, Complies
    <3> QED BY <1>4, <3>1 DEF Considered, Applies, Binding
  <2>2. e.kind = Raised(d.kind, new) /\ e.matched = d.matched \cup {k}
        /\ e.violating = d.violating \cup {k}
    BY <2>1
  <2>3. /\ Raised(d.kind, new) \in {"ALLOW", "WARN", "BLOCK"}
        /\ Raised(d.kind, new) = "BLOCK" <=> d.kind = "BLOCK" \/ Binding(c)
        /\ Raised(d.kind, new) # "ALLOW"
    BY DEF Raised, Decides
  <2> HIDE DEF new
  <2>4. /\ e.matched = {n \in 1..k : \E b \in {a} : Applies(l[n], b)}
        /\ e.violating = {n \in 1..k : \E b \in {a} : Broken(l[n], b)}
    BY <1>1, <1>4, <2>2 DEF Decides
  <2>5. e.kind = "BLOCK" <=> \E n \in 1..k, b \in {a} : Broken(l[n], b) /\ Binding(l[n])
    BY <1>1, <1>4, <2>2, <2>3 DEF Decides
  <2>6. e.kind = "ALLOW" <=> \A n \in 1..k, b \in {a} : ~Broken(l[n], b)
    BY <1>1, <1>4, <2>2, <2>3 DEF Decides
  <2> QED BY <2>1, <2>2, <2>3, <2>4, <2>5, <2>6 DEF Decides
<1> QED BY <1>2, <1>3, <1>4 DEF Broken

(* _aggregate_decisions joins what two decisions stand for.                *)
LEMMA AggregatedDecides ==
    ASSUME NEW r, NEW d, NEW e, NEW l, NEW N, NEW S, NEW a,
           Decides(r, l, N, S), Decides(d, l, N, {a}), e = Aggregated(r, d)
    PROVE  Decides(e, l, N, S \cup {a})
<1>1. /\ e = [kind |-> e.kind, matched |-> e.matched, violating |-> e.violating]
      /\ e.kind = IF d.kind = "ALLOW" THEN r.kind ELSE Raised(r.kind, d.kind)
      /\ e.matched = r.matched \cup d.matched
      /\ e.violating = r.violating \cup d.violating
  BY DEF Aggregated
<1>2. /\ e.kind \in {"ALLOW", "WARN", "BLOCK"}
      /\ e.kind = "BLOCK" <=> r.kind = "BLOCK" \/ d.kind = "BLOCK"
      /\ e.kind = "ALLOW" <=> r.kind = "ALLOW" /\ d.kind = "ALLOW"
  BY <1>1 DEF Raised, Decides
<1>3. /\ e.matched = {n \in N : \E b \in S \cup {a} : Applies(l[n], b)}
      /\ e.violating = {n \in N : \E b \in S \cup {a} : Broken(l[n], b)}
  BY <1>1 DEF Decides
<1>4. e.kind = "BLOCK" <=> \E n \in N, b \in S \cup {a} : Broken(l[n], b) /\ Binding(l[n])
  BY <1>2 DEF Decides
<1>5. e.kind = "ALLOW" <=> \A n \in N, b \in S \cup {a} : ~Broken(l[n], b)
  BY <1>2 DEF Decides
<1> QED BY <1>1, <1>2, <1>3, <1>4, <1>5 DEF Decides

LEMMA NothingDecided ==
    ASSUME NEW l, NEW N, NEW S, N = {} \/ S = {}
    PROVE  Decides(NoDecision, l, N, S)
BY DEF Decides, NoDecision

(* The decision about all constraints is the one the rules ask for.        *)
LEMMA DecidesVerdict ==
    ASSUME NEW l, NEW S, NEW d, Decides(d, l, DOMAIN l, S)
    PROVE  d.kind = Verdict(l, S)
BY DEF Decides, Verdict

--------------------------------------------------------------------------------
(* The actions derived from patches and observations are actions.          *)
LEMMA SubActionType ==
    ASSUME NEW p \in Patches
    PROVE  /\ [n \in DOMAIN p.ops |-> SubAction(p, n)] \in Seq(Action)
           /\ Len([n \in DOMAIN p.ops |-> SubAction(p, n)]) = Len(p.ops)
           /\ Len(p.ops) \in Nat /\ DOMAIN p.ops = 1..Len(p.ops)
           /\ \A n \in DOMAIN p.ops : p.ops[n] \in PatchOp
<1>1. p \in Patch
  BY GuardAssumption
<1>2. /\ p.ops \in Seq(PatchOp) /\ p.tool \in Tools /\ p.payload \in Payload
      /\ Len(p.ops) \in Nat /\ DOMAIN p.ops = 1..Len(p.ops)
      /\ \A n \in DOMAIN p.ops : p.ops[n] \in PatchOp
  BY <1>1 DEF Patch
<1>3. ASSUME NEW n \in DOMAIN p.ops
      PROVE  SubAction(p, n) \in Action
  <2>1. p.ops[n].path \in Paths /\ p.ops[n].kind \in Kinds
    BY <1>2 DEF PatchOp, Kinds
  <2>2. "filesystem" \in Types /\ "apply_patch" \in Verbs /\ NoFields \in Fields
    BY GuardAssumption DEF NoFields, Fields, Optional
  <2> QED BY <1>2, <2>1, <2>2 DEF SubAction, Action, Optional
<1> QED BY <1>2, <1>3

LEMMA EffectType ==
    ASSUME NEW a \in Action, NEW obs \in Observation, NEW k \in Kinds, NEW P \in SUBSET Paths,
           NEW o \in Optional(Verbs)
    PROVE  /\ EffectAction(a, obs, k, P, o) \in Action
           /\ [EffectAction(a, obs, k, P, o) EXCEPT !.target = Or(obs.target, a.target)] \in Action
<1>1. MergedContext(a, obs) \in Fields
  BY DEF MergedContext, Fields, Action, Observation
<1>2. /\ Or(obs.target, a.target) \in Optional(Types)
      /\ Or(Or(obs.target, a.target), "filesystem") \in Optional(Types)
      /\ Or(obs.tool, a.tool) \in Optional(Tools)
      /\ Or(obs.output, a.payload) \in Payload
  BY GuardAssumption DEF Or, Optional, Action, Observation
<1> QED BY <1>1, <1>2 DEF EffectAction, Action

(* The three ways PostActions puts a list together.                        *)
LEMMA ListOfThree ==
    ASSUME NEW S, NEW w \in S, NEW r \in S, NEW g \in S, NEW hasW \in BOOLEAN, NEW hasR \in BOOLEAN,
           NEW s, s = (IF hasW THEN <<w>> ELSE <<>>) \o (IF hasR THEN <<r>> ELSE <<>>) \o <<g>>
    PROVE  /\ s \in Seq(S)
           /\ hasW => \E m \in 1..Len(s) : s[m] = w
           /\ \E m \in 1..Len(s) : s[m] = g
<1> DEFINE x == IF hasW THEN <<w>> ELSE <<>>
           y == IF hasR THEN <<r>> ELSE <<>>
           z == <<g>>
<1>1. /\ x \in Seq(S) /\ Len(x) \in Nat /\ (hasW => Len(x) = 1 /\ x[1] = w)
      /\ y \in Seq(S) /\ Len(y) \in Nat
      /\ z \in Seq(S) /\ Len(z) = 1 /\ z[1] = g
  OBVIOUS
<1>2. s = (x \o y) \o z
  OBVIOUS
<1> HIDE DEF x, y, z
<1>3. /\ x \o y \in Seq(S) /\ Len(x \o y) = Len(x) + Len(y)
      /\ hasW => (x \o y)[1] = w
  BY <1>1, ConcatProperties
<1>4. /\ s \in Seq(S) /\ Len(s) = Len(x) + Len(y) + 1
      /\ s[Len(x) + Len(y) + 1] = g
      /\ hasW => s[1] = w
  BY <1>1, <1>2, <1>3, ConcatProperties
<1>5. 1 \in 1..Len(s) /\ Len(x) + Len(y) + 1 \in 1..Len(s)
  BY <1>1, <1>4
<1> QED BY <1>4, <1>5

LEMMA PostActionsType ==
    ASSUME NEW a \in Action, NEW obs \in Observations
    PROVE  /\ WriteAction(a, obs) \in Action /\ ReadAction(a, obs) \in Action
           /\ GeneralAction(a, obs) \in Action
           /\ PostActions(a, obs) \in Seq(Action)
           /\ obs.changed # {} =>
                \E m \in 1..Len(PostActions(a, obs)) : PostActions(a, obs)[m] = WriteAction(a, obs)
           /\ \E m \in 1..Len(PostActions(a, obs)) : PostActions(a, obs)[m] = GeneralAction(a, obs)
<1>1. /\ obs \in Observation
      /\ obs.changed \in SUBSET Paths /\ obs.accessed \in SUBSET Paths /\ a.paths \in SUBSET Paths
      /\ Or(obs.kind, a.kind) \in Kinds /\ a.op \in Optional(Verbs)
  BY GuardAssumption DEF Observation, Action, Or, Optional
<1>2. WriteAction(a, obs) \in Action /\ ReadAction(a, obs) \in Action
  <2>1. {"FILE_WRITE", "FILE_READ"} \subseteq Kinds /\ {"write", "read"} \subseteq Optional(Verbs)
    BY GuardAssumption DEF Kinds, Optional
  <2> QED BY <1>1, <2>1, EffectType DEF WriteAction, ReadAction
<1>3. GeneralAction(a, obs) \in Action
  <2>1. \A x \in Action : Synced(x) \in Action
    BY DEF Synced, Action, Kinds
  <2>2. \A P \in SUBSET Paths :
          [EffectAction(a, obs, Or(obs.kind, a.kind), P, a.op)
              EXCEPT !.target = Or(obs.target, a.target)] \in Action
    BY <1>1, EffectType
  <2>3. (IF obs.changed \cup obs.accessed = {} THEN a.paths
         ELSE obs.changed \cup obs.accessed) \in SUBSET Paths
    BY <1>1
  <2> QED BY <2>1, <2>2, <2>3 DEF GeneralAction
<1>4. PostActions(a, obs) =
        (IF obs.changed # {} THEN <<WriteAction(a, obs)>> ELSE <<>>)
        \o (IF obs.accessed # {} THEN <<ReadAction(a, obs)>> ELSE <<>>)
        \o <<GeneralAction(a, obs)>>
  BY DEF PostActions
<1>5. (obs.changed # {}) \in BOOLEAN /\ (obs.accessed # {}) \in BOOLEAN
  OBVIOUS
<1> QED BY <1>2, <1>3, <1>4, <1>5, ListOfThree

LEMMA ObservedActionType ==
    ASSUME NEW obs \in Observations
    PROVE  ObservedAction(obs) \in Action /\ Synced(ObservedAction(obs)) = ObservedAction(obs)
<1> DEFINE k == Or(obs.kind, "GENERIC")
           raw == [kind |-> k, target |-> obs.target, tool |-> obs.tool, paths |-> {},
                   op |-> None, payload |-> obs.output, context |-> obs.context]
<1>1. obs \in Observation
  BY GuardAssumption
<1>2. raw \in Action
  BY <1>1 DEF Observation, Action, Or, Optional, Kinds
<1>3. \A x \in Action : Synced(x) \in Action /\ Synced(Synced(x)) = Synced(x)
  BY DEF Synced, Action, Kinds
<1> QED BY <1>2, <1>3 DEF ObservedAction

--------------------------------------------------------------------------------
LEMMA InitInv == Init => GuardInv
<1> SUFFICES ASSUME Init PROVE GuardInv
  OBVIOUS
<1>1. ledger \in Seq({c \in Constraint : c.effect # "DENY" => c.compliance # None})
  BY GuardAssumption DEF Init
<1>2. LedgerInv
  BY <1>1 DEF LedgerInv, WellFormed
<1>3. subs = <<>> /\ Len(subs) = 0 /\ cur = 1 /\ nxt = 1 /\ Len(ledger) \in Nat
  BY <1>1 DEF Init
<1>4. TypeInv
  BY <1>3 DEF TypeInv
<1>5. CallInv
  BY DEF Init, CallInv, Idle
<1>6. LoopInv
  <2>1. {subs[m] : m \in 1..(cur - 1)} = {}
    BY <1>3
  <2> QED BY <1>3, <2>1, NothingDecided DEF Init, LoopInv, Done
<1> QED BY <1>2, <1>4, <1>5, <1>6 DEF GuardInv

(* A call starts, or ends, with nothing decided.                           *)
LEMMA FreshCall ==
    ASSUME LedgerInv, NEW s \in Seq(Action), subs' = s, cur' = 1, nxt' = 1,
           decision' = NoDecision, result' = NoDecision, UNCHANGED ledger
    PROVE  LedgerInv' /\ TypeInv' /\ LoopInv'
<1>1. Len(s) \in Nat /\ Len(ledger) \in Nat
  BY DEF LedgerInv
<1>2. LedgerInv' /\ TypeInv'
  BY <1>1 DEF LedgerInv, WellFormed, TypeInv
<1>3. {subs'[m] : m \in 1..(cur' - 1)} = {} /\ 1..(nxt' - 1) = {}
  OBVIOUS
<1>4. LoopInv'
  BY <1>3, NothingDecided DEF LoopInv, Done
<1> QED BY <1>2, <1>4

LEMMA StepInv == GuardInv /\ [Next]_vars => GuardInv'
<1> SUFFICES ASSUME GuardInv, [Next]_vars PROVE GuardInv'
  OBVIOUS
<1>i. LedgerInv /\ TypeInv /\ CallInv /\ LoopInv
  BY DEF GuardInv
<1>t. /\ Len(ledger) \in Nat /\ Len(subs) \in Nat /\ cur \in Nat \ {0} /\ nxt \in Nat \ {0}
      /\ DOMAIN ledger = 1..Len(ledger)
  BY <1>i DEF LedgerInv, TypeInv
<1>1. ASSUME NEW a \in Actions, Evaluate(a)
      PROVE  GuardInv'
  <2>1. <<a>> \in Seq(Action)
    BY GuardAssumption
  <2>2. call' = [kind |-> "pre", action |-> a] /\ subs' = <<a>>
    BY <1>1 DEF Evaluate, Begin
  <2>3. CallInv'
    BY <2>2 DEF CallInv
  <2> QED BY <1>1, <1>i, <2>1, <2>3, FreshCall DEF Evaluate, Begin, GuardInv
<1>2. ASSUME NEW p \in Patches, EvaluatePatch(p)
      PROVE  GuardInv'
  <2>1. [n \in DOMAIN p.ops |-> SubAction(p, n)] \in Seq(Action)
    BY SubActionType
  <2>2. /\ call' = [kind |-> "patch", patch |-> p]
        /\ subs' = [n \in DOMAIN p.ops |-> SubAction(p, n)]
    BY <1>2 DEF EvaluatePatch, Begin
  <2>3. CallInv'
    BY <2>2 DEF CallInv
  <2> QED BY <1>2, <1>i, <2>1, <2>3, FreshCall DEF EvaluatePatch, Begin, GuardInv
<1>3. ASSUME NEW a \in Action, Synced(a) = a, NEW obs \in Observations, EvaluatePostAction(a, obs)
      PROVE  GuardInv'
  <2>1. PostActions(a, obs) \in Seq(Action)
    BY PostActionsType
  <2>2. call' = [kind |-> "post", obs |-> obs, action |-> a] /\ subs' = PostActions(a, obs)
    BY <1>3 DEF EvaluatePostAction, Begin
  <2>3. CallInv'
    BY <1>3, <2>2 DEF CallInv
  <2> QED BY <1>3, <1>i, <2>1, <2>3, FreshCall DEF EvaluatePostAction, Begin, GuardInv
<1>4. CASE Return
  <2>1. <<>> \in Seq(Action)
    OBVIOUS
  <2>2. CallInv'
    BY <1>4 DEF Return, CallInv, Idle
  <2> QED BY <1>4, <1>i, <2>1, <2>2, FreshCall DEF Return, GuardInv
<1>5. CASE ConsiderConstraint
  <2>1. /\ ~Done /\ nxt \in DOMAIN ledger /\ nxt' = nxt + 1
        /\ decision' = Considered(decision, ledger[nxt], nxt, subs[cur])
        /\ UNCHANGED <<ledger, call, subs, cur, result>>
    BY <1>5, <1>t DEF ConsiderConstraint
  <2>2. Decides(decision', ledger, 1..nxt, {subs[cur]})
    <3>1. Decides(decision, ledger, 1..(nxt - 1), {subs[cur]})
      BY <1>i, <2>1 DEF LoopInv
    <3>2. ledger[nxt].effect # "DENY" => ledger[nxt].compliance # None
      BY <1>i, <2>1 DEF LedgerInv, WellFormed
    <3> QED BY <1>t, <2>1, <3>1, <3>2, ConsideredDecides
  <2>3. LedgerInv' /\ TypeInv' /\ CallInv'
    BY <1>i, <1>t, <2>1 DEF LedgerInv, WellFormed, TypeInv, CallInv
  <2>4. LoopInv'
    <3>1. nxt' - 1 = nxt /\ ~Done'
      BY <1>t, <2>1 DEF Done
    <3> QED BY <1>i, <2>1, <2>2, <3>1 DEF LoopInv
  <2> QED BY <2>3, <2>4 DEF GuardInv
<1>6. CASE AddDecision
  <2>1. /\ ~Done /\ nxt > Len(ledger) /\ result' = Aggregated(result, decision)
        /\ decision' = NoDecision /\ cur' = cur + 1 /\ nxt' = 1
        /\ UNCHANGED <<ledger, call, subs>>
    BY <1>6 DEF AddDecision
  <2>2. nxt - 1 = Len(ledger) /\ cur <= Len(subs)
    BY <1>i, <1>t, <2>1 DEF TypeInv, Done
  <2>3. LedgerInv' /\ TypeInv' /\ CallInv'
    BY <1>i, <1>t, <2>1, <2>2 DEF LedgerInv, WellFormed, TypeInv, CallInv
  <2>4. Decides(result', ledger, 1..Len(ledger), {subs[m] : m \in 1..(cur - 1)} \cup {subs[cur]})
    BY <1>i, <2>1, <2>2, AggregatedDecides DEF LoopInv
  <2>5. {subs[m] : m \in 1..(cur' - 1)} = {subs[m] : m \in 1..(cur - 1)} \cup {subs[cur]}
    <3>1. 1..(cur' - 1) = 1..(cur - 1) \cup {cur}
      BY <1>t, <2>1
    <3> QED BY <3>1
  <2>6. Decides(decision', ledger, 1..(nxt' - 1), {subs'[cur']})
    <3>1. 1..(nxt' - 1) = {}
      BY <2>1
    <3> QED BY <2>1, <3>1, NothingDecided
  <2>7. LoopInv'
    BY <2>1, <2>4, <2>5, <2>6 DEF LoopInv
  <2> QED BY <2>3, <2>7 DEF GuardInv
<1>7. CASE UNCHANGED vars
  BY <1>7, <1>i DEF vars, GuardInv, LedgerInv, WellFormed, TypeInv, CallInv, LoopInv, Done
<1>8. ASSUME NEW a \in Actions PROVE a \in Action /\ Synced(a) = a
  BY GuardAssumption
<1>9. ASSUME NEW obs \in Observations, EvaluateObservation(obs)
      PROVE  GuardInv'
  BY <1>3, <1>9, ObservedActionType DEF EvaluateObservation
<1> QED BY <1>1, <1>2, <1>3, <1>4, <1>5, <1>6, <1>7, <1>8, <1>9 DEF Next

LEMMA Inductive == Spec => []GuardInv
BY InitInv, StepInv, PTL DEF Spec

--------------------------------------------------------------------------------
(* What a finished call has decided.                                       *)
LEMMA DoneDecides ==
    ASSUME GuardInv, Done
    PROVE  /\ Decides(result, ledger, DOMAIN ledger, {subs[m] : m \in DOMAIN subs})
           /\ DOMAIN subs = 1..Len(subs)
<1>1. DOMAIN ledger = 1..Len(ledger) /\ DOMAIN subs = 1..Len(subs) /\ Len(subs) \in Nat
  BY DEF GuardInv, LedgerInv, TypeInv
<1>2. cur - 1 = Len(subs)
  BY <1>1 DEF GuardInv, TypeInv, Done
<1> QED BY <1>1, <1>2 DEF GuardInv, LoopInv

(* The state of a call always has its type.                                *)
THEOREM TypeCorrect == Spec => []TypeOK
<1>1. GuardInv => TypeOK
  <2> SUFFICES ASSUME GuardInv PROVE TypeOK
    OBVIOUS
  <2>1. DOMAIN ledger = 1..Len(ledger) /\ Len(ledger) \in Nat /\ nxt \in 1..(Len(ledger) + 1)
    BY DEF GuardInv, LedgerInv, TypeInv
  <2>2. \A d, N, S : Decides(d, ledger, N, S) /\ N \subseteq 1..Len(ledger) => d \in DecisionType
    <3> SUFFICES ASSUME NEW d, NEW N, NEW S, Decides(d, ledger, N, S), N \subseteq 1..Len(ledger)
                 PROVE  d \in DecisionType
      OBVIOUS
    <3>1. d.matched \subseteq N /\ d.violating \subseteq N
      BY DEF Decides
    <3> QED BY <3>1 DEF Decides, DecisionType
  <2>3. result \in DecisionType
    BY <2>2 DEF GuardInv, LoopInv
  <2>4. decision \in DecisionType
    <3>1. 1..(nxt - 1) \subseteq 1..Len(ledger)
      BY <2>1
    <3>2. NoDecision \in DecisionType
      BY DEF NoDecision, DecisionType
    <3> QED BY <2>2, <3>1, <3>2 DEF GuardInv, LoopInv
  <2> QED BY <2>3, <2>4 DEF GuardInv, LedgerInv, TypeInv, TypeOK
<1> QED BY <1>1, Inductive, PTL

(* A finished call decided what the rules ask for, for any number of       *)
(* constraints and actions.                                                *)
THEOREM DecisionCorrect == Spec => []DecisionExact
<1>1. GuardInv => DecisionExact
  BY DoneDecides, DecidesVerdict DEF DecisionExact, Decides
<1> QED BY <1>1, Inductive, PTL

--------------------------------------------------------------------------------
(* A patch of operations of one kind matches a scope exactly when one of   *)
(* its operations does.                                                    *)
LEMMA ScopeOfPatch ==
    ASSUME NEW p \in Patches, NEW k \in {"FILE_WRITE", "FILE_DELETE"},
           \A n \in DOMAIN p.ops : p.ops[n].kind = k, NEW sc
    PROVE  MatchScope(sc, PatchAction(p)) <=>
               \E n \in DOMAIN p.ops : MatchScope(sc, SubAction(p, n))
<1> DEFINE whole == PatchAction(p)
           sub(n) == SubAction(p, n)
<1>1. PICK first : first \in DOMAIN p.ops
  <2>1. p.ops \in Seq(PatchOp) /\ p.ops # <<>>
    BY GuardAssumption DEF Patch
  <2>2. 1 \in DOMAIN p.ops
    BY <2>1
  <2> QED BY <2>2
<1>2. /\ whole.kind = k /\ whole.target = "filesystem" /\ whole.tool = p.tool
      /\ whole.paths = {p.ops[n].path : n \in DOMAIN p.ops}
      /\ whole.op = "apply_patch" /\ whole.payload = p.payload /\ whole.context = NoFields
  <2>1. (IF \E n \in DOMAIN p.ops : p.ops[n].kind = "FILE_WRITE"
         THEN "FILE_WRITE" ELSE "FILE_DELETE") = k
    BY <1>1
  <2> QED BY <2>1 DEF PatchAction
<1>3. ASSUME NEW n \in DOMAIN p.ops
      PROVE  /\ sub(n).kind = k /\ sub(n).target = "filesystem" /\ sub(n).tool = p.tool
             /\ sub(n).paths = {p.ops[n].path}
             /\ sub(n).op = "apply_patch" /\ sub(n).payload = p.payload
             /\ sub(n).context = NoFields
  BY DEF SubAction
<1> HIDE DEF whole, sub
<1>4. ASSUME NEW n \in DOMAIN p.ops
      PROVE  /\ TargetMatches(sc, sub(n)) <=> TargetMatches(sc, whole)
             /\ ToolMatches(sc, sub(n)) <=> ToolMatches(sc, whole)
             /\ SelectorsMatch(sc, sub(n)) <=> SelectorsMatch(sc, whole)
  <2>1. \A key \in Keys : FieldOf(sub(n), key) = FieldOf(whole, key)
    BY <1>2, <1>3 DEF FieldOf
  <2> QED BY <1>2, <1>3, <2>1 DEF TargetMatches, ToolMatches, SelectorsMatch
<1>5. ASSUME NEW n \in DOMAIN p.ops
      PROVE  ActionMatches(sc, sub(n)) <=> ActionMatches(sc, whole)
  <2>1. VerbsOf(sub(n)) = VerbsOf(whole)
    BY <1>2, <1>3 DEF VerbsOf, CommandVerbs
  <2> QED BY <2>1 DEF ActionMatches
<1>6. PathMatches(sc, whole) <=> \E n \in DOMAIN p.ops : PathMatches(sc, sub(n))
  <2>1. CASE sc.paths = {}
    BY <1>1, <2>1 DEF PathMatches
  <2>2. CASE sc.paths # {}
    <3>1. PathMatches(sc, whole) <=>
            \E n \in DOMAIN p.ops : \E q \in sc.paths : <<q, p.ops[n].path>> \in Covers
      BY <1>2, <2>2 DEF PathMatches
    <3>2. \A n \in DOMAIN p.ops :
            PathMatches(sc, sub(n)) <=> \E q \in sc.paths : <<q, p.ops[n].path>> \in Covers
      BY <1>3, <2>2 DEF PathMatches
    <3> QED BY <3>1, <3>2
  <2> QED BY <2>1, <2>2
<1>7. /\ MatchScope(sc, whole) <=>
           /\ TargetMatches(sc, whole) /\ ToolMatches(sc, whole) /\ ActionMatches(sc, whole)
           /\ PathMatches(sc, whole) /\ SelectorsMatch(sc, whole)
      /\ \A n \in DOMAIN p.ops : MatchScope(sc, sub(n)) <=>
           /\ TargetMatches(sc, sub(n)) /\ ToolMatches(sc, sub(n)) /\ ActionMatches(sc, sub(n))
           /\ PathMatches(sc, sub(n)) /\ SelectorsMatch(sc, sub(n))
  BY DEF MatchScope
<1>8. MatchScope(sc, whole) <=> \E n \in DOMAIN p.ops : MatchScope(sc, sub(n))
  BY <1>4, <1>5, <1>6, <1>7
<1> QED BY <1>8 DEF whole, sub

(* A constraint that the whole patch breaks is broken by one operation.    *)
LEMMA BrokenByPart ==
    ASSUME NEW p \in Patches, NEW k \in {"FILE_WRITE", "FILE_DELETE"},
           \A n \in DOMAIN p.ops : p.ops[n].kind = k, NEW c, Broken(c, PatchAction(p))
    PROVE  \E n \in DOMAIN p.ops : Broken(c, SubAction(p, n))
<1>1. PICK n \in DOMAIN p.ops : MatchScope(c.scope, SubAction(p, n))
  BY ScopeOfPatch DEF Broken, Applies
<1>2. c.effect = "DENY" \/ ~MatchScope(c.compliance, SubAction(p, n))
  BY ScopeOfPatch DEF Broken
<1> QED BY <1>1, <1>2 DEF Broken, Applies

(* If every constraint broken by b is broken by an action of S, the        *)
(* decision about S is at least as severe as the one about b.              *)
LEMMA MoreBroken ==
    ASSUME NEW l, NEW S, NEW b, \A n \in DOMAIN l : Broken(l[n], b) => \E a \in S : Broken(l[n], a)
    PROVE  AtLeast(Verdict(l, S), Verdict(l, {b}))
<1>1. CASE \E n \in DOMAIN l : Broken(l[n], b) /\ Binding(l[n])
  BY <1>1 DEF Verdict, AtLeast
<1>2. CASE ~\E n \in DOMAIN l : Broken(l[n], b) /\ Binding(l[n])
  BY <1>2 DEF Verdict, AtLeast
<1> QED BY <1>1, <1>2

(* Splitting a patch of writes, or one of deletions, never weakens it.     *)
THEOREM SplitCorrect == Spec => []SplitStricter
<1>1. GuardInv => SplitStricter
  <2> SUFFICES ASSUME GuardInv, Done, call.kind = "patch",
                      {call.patch.ops[n].kind : n \in DOMAIN call.patch.ops} # {"FILE_WRITE", "FILE_DELETE"}
               PROVE  AtLeast(result.kind, Verdict(ledger, {PatchAction(call.patch)}))
    BY DEF SplitStricter
  <2> DEFINE p == call.patch
  <2>1. p \in Patches /\ subs = [n \in DOMAIN p.ops |-> SubAction(p, n)]
    BY DEF GuardInv, CallInv
  <2> HIDE DEF p
  <2>2. PICK k \in {"FILE_WRITE", "FILE_DELETE"} : \A n \in DOMAIN p.ops : p.ops[n].kind = k
    <3>1. \A n \in DOMAIN p.ops : p.ops[n].kind \in {"FILE_WRITE", "FILE_DELETE"}
      BY <2>1, SubActionType DEF PatchOp
    <3>2. {p.ops[n].kind : n \in DOMAIN p.ops} # {"FILE_WRITE", "FILE_DELETE"}
      BY DEF p
    <3> QED BY <3>1, <3>2
  <2>3. result.kind = Verdict(ledger, {subs[m] : m \in DOMAIN subs})
    BY DoneDecides, DecidesVerdict
  <2>4. ASSUME NEW n \in DOMAIN ledger, Broken(ledger[n], PatchAction(p))
        PROVE  \E a \in {subs[m] : m \in DOMAIN subs} : Broken(ledger[n], a)
    <3>1. PICK m \in DOMAIN p.ops : Broken(ledger[n], SubAction(p, m))
      BY <2>1, <2>2, <2>4, BrokenByPart
    <3>2. m \in DOMAIN subs /\ subs[m] = SubAction(p, m)
      BY <2>1
    <3> QED BY <3>1, <3>2
  <2>5. AtLeast(Verdict(ledger, {subs[m] : m \in DOMAIN subs}), Verdict(ledger, {PatchAction(p)}))
    BY <2>4, MoreBroken
  <2> QED BY <2>3, <2>5 DEF p
<1> QED BY <1>1, Inductive, PTL

--------------------------------------------------------------------------------
(* What went as planned is checked afterwards as it was planned.           *)
LEMMA PlannedAgain ==
    ASSUME NEW a \in Action, Synced(a) = a, NEW obs \in Observations, AsPlanned(a, obs)
    PROVE  GeneralAction(a, obs) = a
<1>1. /\ Or(obs.kind, a.kind) = a.kind /\ Or(obs.tool, a.tool) = a.tool
      /\ Or(obs.target, a.target) = a.target /\ Or(obs.output, a.payload) = a.payload
  BY DEF AsPlanned, Or
<1>2. MergedContext(a, obs) = a.context
  <2>1. a.context \in Fields
    BY DEF Action
  <2>2. \A k \in Keys : MergedContext(a, obs)[k] = a.context[k]
    BY DEF MergedContext, AsPlanned, NoFields
  <2> QED BY <2>1, <2>2 DEF MergedContext, Fields
<1>3. (IF obs.changed \cup obs.accessed = {} THEN a.paths ELSE obs.changed \cup obs.accessed)
        = a.paths
  BY DEF AsPlanned
<1>4. [EffectAction(a, obs, a.kind, a.paths, a.op) EXCEPT !.target = a.target] = a
  BY <1>1, <1>2 DEF EffectAction, Action
<1> QED BY <1>1, <1>3, <1>4 DEF GeneralAction

(* The check after an action that went as planned is no weaker than the    *)
(* check before it.                                                        *)
THEOREM PostCheckCovers == Spec => []PostCoversPre
<1>1. GuardInv => PostCoversPre
  <2> SUFFICES ASSUME GuardInv, Done, call.kind = "post", AsPlanned(call.action, call.obs)
               PROVE  AtLeast(result.kind, Verdict(ledger, {call.action}))
    BY DEF PostCoversPre
  <2>1. /\ call.action \in Action /\ Synced(call.action) = call.action
        /\ call.obs \in Observations /\ subs = PostActions(call.action, call.obs)
    BY DEF GuardInv, CallInv
  <2>2. PICK m \in DOMAIN subs : subs[m] = call.action
    <3>1. GeneralAction(call.action, call.obs) = call.action
      BY <2>1, PlannedAgain
    <3>2. \E m \in 1..Len(subs) : subs[m] = GeneralAction(call.action, call.obs)
      BY <2>1, PostActionsType
    <3> QED BY <3>1, <3>2, DoneDecides
  <2>3. result.kind = Verdict(ledger, {subs[n] : n \in DOMAIN subs})
    BY DoneDecides, DecidesVerdict
  <2>4. AtLeast(Verdict(ledger, {subs[n] : n \in DOMAIN subs}), Verdict(ledger, {call.action}))
    BY <2>2, MoreBroken
  <2> QED BY <2>3, <2>4
<1> QED BY <1>1, Inductive, PTL

(* A change of a protected path is never missed by the check after the     *)
(* action.                                                                 *)
THEOREM ChangesCaught == Spec => []ChangesBlocked
<1>1. GuardInv => ChangesBlocked
  <2> SUFFICES ASSUME GuardInv, Done, call.kind = "post",
                      NEW n \in DOMAIN ledger, NEW p \in call.obs.changed,
                      ProtectsFromWrites(ledger[n], p)
               PROVE  result.kind = "BLOCK" /\ n \in result.violating
    BY DEF ChangesBlocked
  <2> DEFINE w == WriteAction(call.action, call.obs)
  <2>1. /\ call.action \in Action /\ call.obs \in Observations
        /\ subs = PostActions(call.action, call.obs)
    BY DEF GuardInv, CallInv
  <2>2. PICK m \in DOMAIN subs : subs[m] = w
    BY <2>1, PostActionsType, DoneDecides
  <2>3. w.kind = "FILE_WRITE" /\ w.paths = call.obs.changed
    BY DEF WriteAction, EffectAction
  <2> HIDE DEF w
  <2>4. "write" \in VerbsOf(w)
    BY <2>3 DEF VerbsOf, KindVerbs, Kinds
  <2>5. MatchScope(ledger[n].scope, w)
    <3>1. SelectorsMatch(ledger[n].scope, w)
      BY DEF SelectorsMatch, ProtectsFromWrites, NoFields
    <3>2. ActionMatches(ledger[n].scope, w)
      BY <2>4 DEF ActionMatches, ProtectsFromWrites
    <3>3. PathMatches(ledger[n].scope, w)
      BY <2>3 DEF PathMatches, ProtectsFromWrites
    <3> QED BY <3>1, <3>2, <3>3
            DEF MatchScope, TargetMatches, ToolMatches, ProtectsFromWrites
  <2>6. Broken(ledger[n], w) /\ Binding(ledger[n])
    BY <2>5 DEF Broken, Applies, Binding, ProtectsFromWrites
  <2> QED BY <2>2, <2>6, DoneDecides DEF Decides
<1> QED BY <1>1, Inductive, PTL

--------------------------------------------------------------------------------
(* Patches.  The operations PreToolUse judges leave out no path that the   *)
(* text names, whatever its format and whatever is wrong with it: what the *)
(* loop over the lines missed is added as written and as deleted.          *)

Has(s, x) == \E i \in 1..Len(s) : s[i] = x

FlattenOf(f, s, L) == f = [i \in 1..L |-> IF i = 1 THEN s[i] ELSE f[i-1] \o s[i]]

ScanOf(f, text, L) ==
    f = [n \in 0..L |-> IF n = 0 THEN [ops |-> <<>>, second |-> FALSE]
                        ELSE ScanLine(f[n-1], text, n)]

(* A set of numbers that is not empty has a least one.                     *)
LEMMA LeastNumber ==
    ASSUME NEW T \in SUBSET Nat, T # {}
    PROVE  \E n \in T : \A m \in T : ~(m < n)
<1>1. PICK n \in T : \A m \in T : ~(<<m, n>> \in OpToRel(<, Nat))
  BY NatLessThanWellFounded, WFMin
<1> QED BY <1>1 DEF OpToRel

(* Counting up to L: what holds at 0 and is passed on holds throughout.    *)
LEMMA Stepwise ==
    ASSUME NEW L \in Nat, NEW S, 0 \in S, \A n \in 1..L : n - 1 \in S => n \in S
    PROVE  L \in S
<1> DEFINE T == {n \in 0..L : n \notin S}
<1>1. ASSUME T # {} PROVE FALSE
  <2>1. T \in SUBSET Nat
    OBVIOUS
  <2>2. PICK n \in T : \A m \in T : ~(m < n)
    <3> HIDE DEF T
    <3> QED BY <1>1, <2>1, LeastNumber
  <2>3. n \in 0..L /\ n \notin S
    BY <2>2
  <2>4. n \in 1..L /\ n - 1 \in 0..L /\ n - 1 < n
    BY <2>3
  <2>5. n - 1 \in S
    BY <2>2, <2>4
  <2> QED BY <2>3, <2>4, <2>5
<1> QED BY <1>1

(* The members of a concatenation.                                         *)
LEMMA ConcatHas ==
    ASSUME NEW S, NEW a \in Seq(S), NEW b \in Seq(S)
    PROVE  a \o b \in Seq(S) /\ \A x : Has(a \o b, x) <=> Has(a, x) \/ Has(b, x)
<1> DEFINE c == a \o b
<1>1. /\ Len(a) \in Nat /\ Len(b) \in Nat /\ Len(c) = Len(a) + Len(b)
      /\ \A i \in 1..Len(a) : c[i] = a[i]
      /\ \A i \in 1..Len(b) : c[Len(a) + i] = b[i]
      /\ c \in Seq(S)
  OBVIOUS
<1> HIDE DEF c
<1>2. ASSUME NEW x, Has(c, x) PROVE Has(a, x) \/ Has(b, x)
  <2>1. PICK i \in 1..Len(c) : c[i] = x
    BY <1>2 DEF Has
  <2>2. i \in 1..Len(a) \/ (i - Len(a) \in 1..Len(b) /\ Len(a) + (i - Len(a)) = i)
    BY <1>1
  <2> QED BY <1>1, <2>1, <2>2 DEF Has
<1>3. ASSUME NEW x, Has(a, x) PROVE Has(c, x)
  <2>1. \A i \in 1..Len(a) : i \in 1..Len(c)
    BY <1>1
  <2> QED BY <1>1, <1>3, <2>1 DEF Has
<1>4. ASSUME NEW x, Has(b, x) PROVE Has(c, x)
  <2>1. \A i \in 1..Len(b) : Len(a) + i \in 1..Len(c)
    BY <1>1
  <2> QED BY <1>1, <1>4, <2>1 DEF Has
<1>5. /\ c \in Seq(S)
      /\ \A x : Has(c, x) <=> Has(a, x) \/ Has(b, x)
  BY <1>1, <1>2, <1>3, <1>4
<1> QED BY <1>5 DEF c

(* The recursive definition of FlattenSeq has a solution.                  *)
LEMMA FlattenExists ==
    ASSUME NEW s, NEW L \in Nat
    PROVE  \E f : FlattenOf(f, s, L)
<1> DEFINE S == {l \in 0..L : \E f : FlattenOf(f, s, l)}
<1>1. 0 \in S
  <2>1. FlattenOf([i \in 1..0 |-> s[i]], s, 0)
    BY DEF FlattenOf
  <2> QED BY <2>1
<1>2. ASSUME NEW l \in 1..L, l - 1 \in S PROVE l \in S
  <2>1. PICK g : FlattenOf(g, s, l - 1)
    BY <1>2
  <2> DEFINE f == [i \in 1..l |-> IF i = 1 THEN s[i] ELSE g[i-1] \o s[i]]
  <2>2. ASSUME NEW i \in 1..(l - 1) PROVE f[i] = g[i]
    <3>1. i \in 1..l
      OBVIOUS
    <3> QED BY <2>1, <3>1 DEF FlattenOf
  <2>3. ASSUME NEW i \in 1..l, i # 1 PROVE f[i-1] = g[i-1]
    <3>1. i - 1 \in 1..(l - 1)
      BY <2>3
    <3> QED BY <2>2, <3>1
  <2>4. f = [i \in 1..l |-> IF i = 1 THEN s[i] ELSE f[i-1] \o s[i]]
    BY <2>3
  <2>5. FlattenOf(f, s, l)
    BY <2>4 DEF FlattenOf
  <2> QED BY <2>5
<1> HIDE DEF S
<1>3. L \in S
  BY <1>1, <1>2, Stepwise
<1> QED BY <1>3 DEF S

(* FlattenSeq has the members of its parts.                                *)
LEMMA FlattenHas ==
    ASSUME NEW S, NEW s \in Seq(Seq(S))
    PROVE  /\ FlattenSeq(s) \in Seq(S)
           /\ \A x : Has(FlattenSeq(s), x) <=> \E n \in 1..Len(s) : Has(s[n], x)
<1>1. Len(s) \in Nat
  OBVIOUS
<1>2. CASE Len(s) = 0
  <2>1. FlattenSeq(s) = s /\ s = <<>>
    BY <1>2 DEF FlattenSeq
  <2> QED BY <2>1 DEF Has
<1>3. CASE Len(s) # 0
  <2> DEFINE f == CHOOSE g : FlattenOf(g, s, Len(s))
  <2>1. FlattenOf(f, s, Len(s))
    BY <1>1, FlattenExists
  <2>2. FlattenSeq(s) = f[Len(s)]
    BY <1>3 DEF FlattenSeq, FlattenOf
  <2> HIDE DEF f
  <2>3. \A i \in 1..Len(s) : f[i] = IF i = 1 THEN s[i] ELSE f[i-1] \o s[i]
    BY <2>1 DEF FlattenOf
  <2> DEFINE Good(i) == /\ f[i] \in Seq(S)
                        /\ \A x : Has(f[i], x) <=> \E n \in 1..i : Has(s[n], x)
             T == {i \in 0..Len(s) : i # 0 => Good(i)}
  <2>4. ASSUME NEW i \in 1..Len(s), i - 1 \in T PROVE i \in T
    <3>1. s[i] \in Seq(S) /\ i \in 0..Len(s)
      BY <1>1
    <3>2. CASE i = 1
      <4>1. f[i] = s[i] /\ \A n \in 1..i : n = i
        BY <2>3, <3>2
      <4> QED BY <3>1, <3>2, <4>1
    <3>3. CASE i # 1
      <4>1. i - 1 # 0 /\ \A n : n \in 1..i <=> n = i \/ n \in 1..(i - 1)
        BY <3>3
      <4>2. Good(i - 1)
        BY <2>4, <4>1
      <4>3. f[i] = f[i-1] \o s[i]
        BY <2>3, <3>3
      <4>4. /\ f[i] \in Seq(S)
            /\ \A x : Has(f[i], x) <=> Has(f[i-1], x) \/ Has(s[i], x)
        BY <3>1, <4>2, <4>3, ConcatHas
      <4> QED BY <3>1, <4>1, <4>2, <4>4
    <3> QED BY <3>2, <3>3
  <2> HIDE DEF Good
  <2>5. 0 \in T
    BY <1>1
  <2>6. Len(s) \in T
    <3> HIDE DEF T
    <3> QED BY <1>1, <2>4, <2>5, Stepwise
  <2>7. Good(Len(s))
    BY <1>3, <2>6
  <2> QED BY <2>2, <2>7 DEF Good
<1> QED BY <1>2, <1>3

(* Once leaves out no member.                                              *)
LEMMA OnceHas ==
    ASSUME NEW S, NEW all \in Seq(S)
    PROVE  Once(all) \in Seq(S) /\ \A p : Has(Once(all), p) <=> Has(all, p)
<1> DEFINE once == [n \in DOMAIN all |-> IF \E m \in 1..(n - 1) : all[m] = all[n]
                                         THEN <<>> ELSE <<all[n]>>]
<1>1. Len(all) \in Nat /\ DOMAIN all = 1..Len(all) /\ \A n \in 1..Len(all) : all[n] \in S
  OBVIOUS
<1>2. ASSUME NEW n \in 1..Len(all) PROVE once[n] \in Seq(S)
  BY <1>1
<1>3. once \in Seq(Seq(S)) /\ Len(once) = Len(all)
  BY <1>1, <1>2
<1>4. ASSUME NEW n \in 1..Len(once), NEW p, Has(once[n], p) PROVE Has(all, p)
  <2>1. n \in 1..Len(all) /\ once[n] \in {<<>>, <<all[n]>>}
    BY <1>1, <1>3
  <2> HIDE DEF once
  <2>2. once[n] = <<all[n]>>
    BY <1>4, <2>1 DEF Has
  <2>3. p = all[n]
    BY <1>4, <2>2 DEF Has
  <2> QED BY <2>1, <2>3 DEF Has
<1>5. ASSUME NEW p, Has(all, p) PROVE \E n \in 1..Len(once) : Has(once[n], p)
  <2> DEFINE T == {n \in 1..Len(all) : all[n] = p}
  <2>1. T \in SUBSET Nat /\ T # {}
    BY <1>1, <1>5 DEF Has
  <2>2. PICK n \in T : \A m \in T : ~(m < n)
    <3> HIDE DEF T
    <3> QED BY <2>1, LeastNumber
  <2>3. n \in 1..Len(all) /\ all[n] = p
    BY <2>2
  <2>4. ASSUME NEW m \in 1..(n - 1) PROVE all[m] # all[n]
    <3>1. m \in 1..Len(all) /\ m < n
      BY <1>1, <2>3
    <3> QED BY <2>2, <2>3, <3>1
  <2>5. once[n] = <<p>>
    BY <1>1, <2>3, <2>4
  <2> HIDE DEF once
  <2>6. Has(once[n], p)
    BY <2>5 DEF Has
  <2> QED BY <1>3, <2>3, <2>6
<1> HIDE DEF once
<1>6. Once(all) = FlattenSeq(once)
  BY DEF Once, once
<1> HIDE DEF once
<1> QED BY <1>3, <1>4, <1>5, <1>6, FlattenHas

(* parse_patch_paths answers the paths the lines name.                     *)
Mentions(text, p) == p \in Paths /\ \E n \in 1..Len(text) : p \in {text[n].old, text[n].new}

LEMMA PathsOfText ==
    ASSUME NEW text \in Seq(Line)
    PROVE  /\ ParsePatchPaths(text) \in Seq(Paths)
           /\ \A p : Mentions(text, p) <=> Has(ParsePatchPaths(text), p)
<1> DEFINE each == [n \in DOMAIN text |-> Given(text[n].old) \o Given(text[n].new)]
           all == FlattenSeq(each)
<1>1. /\ Len(text) \in Nat /\ DOMAIN text = 1..Len(text)
      /\ \A n \in 1..Len(text) : text[n].old \in Optional(Paths) /\ text[n].new \in Optional(Paths)
  <2>1. \A n \in 1..Len(text) : text[n] \in Line
    OBVIOUS
  <2> QED BY <2>1 DEF Line
<1>2. ASSUME NEW q \in Optional(Paths)
      PROVE  Given(q) \in Seq(Paths) /\ \A p : Has(Given(q), p) <=> p \in Paths /\ p = q
  <2>1. CASE q = None
    <3>1. Given(q) = <<>> /\ q \notin Paths
      BY <2>1, GuardAssumption DEF Given
    <3> QED BY <3>1 DEF Has
  <2>2. CASE q # None
    <3>1. Given(q) = <<q>> /\ q \in Paths
      BY <2>2 DEF Given, Optional
    <3>2. <<q>> \in Seq(Paths) /\ \A p : Has(<<q>>, p) <=> p = q
      BY <3>1 DEF Has
    <3> QED BY <3>1, <3>2
  <2> QED BY <2>1, <2>2
<1>3. ASSUME NEW n \in 1..Len(text)
      PROVE  /\ each[n] \in Seq(Paths)
             /\ \A p : Has(each[n], p) <=> p \in Paths /\ p \in {text[n].old, text[n].new}
  <2>1. each[n] = Given(text[n].old) \o Given(text[n].new)
    BY <1>1
  <2> HIDE DEF each
  <2>2. Given(text[n].old) \in Seq(Paths) /\ Given(text[n].new) \in Seq(Paths)
    BY <1>1, <1>2
  <2> QED BY <1>1, <1>2, <2>1, <2>2, ConcatHas
<1>4. each \in Seq(Seq(Paths)) /\ Len(each) = Len(text)
  BY <1>1, <1>3
<1> HIDE DEF each
<1>5. all \in Seq(Paths) /\ \A p : Mentions(text, p) <=> Has(all, p)
  BY <1>3, <1>4, FlattenHas DEF Mentions
<1>6. ParsePatchPaths(text) = Once(all)
  BY DEF ParsePatchPaths, all, each
<1> HIDE DEF all
<1> QED BY <1>5, <1>6, OnceHas

(* What a line adds are operations on paths.                               *)
LEMMA OpType ==
    ASSUME NEW k \in {"FILE_WRITE", "FILE_DELETE"}, NEW p \in Optional(Paths)
    PROVE  /\ Op(k, p) \in Seq(PatchOp)
           /\ p # None => Op(k, p) = <<[kind |-> k, path |-> p]>>
<1>1. CASE p = None
  BY <1>1 DEF Op
<1>2. CASE p # None
  <2>1. Op(k, p) = <<[kind |-> k, path |-> p]>> /\ p \in Paths
    BY <1>2 DEF Op, Optional
  <2>2. [kind |-> k, path |-> p] \in PatchOp
    BY <2>1 DEF PatchOp
  <2> QED BY <2>1, <2>2
<1> QED BY <1>1, <1>2

LEMMA LineOpsType ==
    ASSUME NEW text \in Seq(Line), NEW n \in 1..Len(text), NEW ops
    PROVE  LineOps(text, n, ops) \in Seq(PatchOp)
<1>1. \A m \in 1..Len(text) : text[m].old \in Optional(Paths) /\ text[m].new \in Optional(Paths)
  <2>1. \A m \in 1..Len(text) : text[m] \in Line
    OBVIOUS
  <2> QED BY <2>1 DEF Line
<1>2. \A b : WriteOrDelete(b) \in {"FILE_WRITE", "FILE_DELETE"}
  BY DEF WriteOrDelete
<1>3. GitOp(text, n) \in Seq(PatchOp)
  <2>1. \A p, q \in Optional(Paths) : Or(p, q) \in Optional(Paths)
    BY DEF Or
  <2>2. \E k \in {"FILE_WRITE", "FILE_DELETE"} :
           \/ GitOp(text, n) = Op(k, Or(text[n].old, text[n].new))
           \/ GitOp(text, n) = Op(k, Or(text[n].new, text[n].old))
    BY <1>2 DEF GitOp
  <2> QED BY <1>1, <2>1, <2>2, OpType
<1>4. IndexOp(text, n) \in Seq(PatchOp)
  <2>1. \E b : IndexOp(text, n) = Op(WriteOrDelete(b), text[n].new)
    BY DEF IndexOp
  <2> QED BY <1>1, <1>2, <2>1, OpType
<1>5. Paired(text, n) => n + 1 \in 1..Len(text)
  BY DEF Paired
<1>6. /\ Op("FILE_DELETE", text[n].new) \in Seq(PatchOp)
      /\ Op("FILE_WRITE", text[n].new) \in Seq(PatchOp)
      /\ Paired(text, n) => Op("FILE_WRITE", text[n + 1].new) \in Seq(PatchOp)
  BY <1>1, <1>5, OpType
<1>7. <<>> \in Seq(PatchOp)
  OBVIOUS
<1> QED BY <1>3, <1>4, <1>6, <1>7 DEF LineOps

(* The recursive definition of the loop has a solution.                    *)
LEMMA ScanExists ==
    ASSUME NEW text, NEW L \in Nat
    PROVE  \E f : ScanOf(f, text, L)
<1> DEFINE S == {l \in 0..L : \E f : ScanOf(f, text, l)}
           nothing == [ops |-> <<>>, second |-> FALSE]
<1>1. 0 \in S
  <2>1. ScanOf([n \in 0..0 |-> nothing], text, 0)
    BY DEF ScanOf
  <2> QED BY <2>1
<1>2. ASSUME NEW l \in 1..L, l - 1 \in S PROVE l \in S
  <2>1. PICK g : ScanOf(g, text, l - 1)
    BY <1>2
  <2> DEFINE f == [n \in 0..l |-> IF n = 0 THEN nothing ELSE ScanLine(g[n-1], text, n)]
  <2>2. ASSUME NEW n \in 0..(l - 1) PROVE f[n] = g[n]
    <3>1. n \in 0..l
      OBVIOUS
    <3> QED BY <2>1, <3>1 DEF ScanOf
  <2>3. ASSUME NEW n \in 0..l, n # 0 PROVE f[n-1] = g[n-1]
    <3>1. n - 1 \in 0..(l - 1)
      BY <2>3
    <3> QED BY <2>2, <3>1
  <2>4. f = [n \in 0..l |-> IF n = 0 THEN nothing ELSE ScanLine(f[n-1], text, n)]
    BY <2>3
  <2>5. ScanOf(f, text, l)
    BY <2>4 DEF ScanOf
  <2> QED BY <2>5
<1> HIDE DEF S
<1>3. L \in S
  BY <1>1, <1>2, Stepwise
<1> QED BY <1>3 DEF S

(* The loop over the lines, as a function of the number of lines read.     *)
Scan(text) == CHOOSE g : ScanOf(g, text, Len(text))

Acc == [ops : Seq(PatchOp), second : BOOLEAN]

(* Its steps.                                                              *)
LEMMA ScanSteps ==
    ASSUME NEW text \in Seq(Line)
    PROVE  /\ Scan(text)[0] = [ops |-> <<>>, second |-> FALSE]
           /\ \A n \in 1..Len(text) : Scan(text)[n] = ScanLine(Scan(text)[n-1], text, n)
           /\ \A n \in 0..Len(text) : Scan(text)[n] \in Acc
           /\ Scanned(text) = Scan(text)[Len(text)].ops
<1> DEFINE L == Len(text)
           f == Scan(text)
<1>1. L \in Nat
  OBVIOUS
<1>2. ScanOf(f, text, L)
  BY <1>1, ScanExists DEF Scan
<1>3. Scanned(text) = f[L].ops
  BY DEF Scanned, ScanOf, Scan
<1> HIDE DEF f, L
<1>4. /\ f[0] = [ops |-> <<>>, second |-> FALSE]
      /\ \A n \in 1..L : f[n] = ScanLine(f[n-1], text, n)
  <2>1. /\ 0 \in 0..L
        /\ \A n \in 1..L : n \in 0..L /\ n # 0
    BY <1>1
  <2>2. \A n \in 0..L : f[n] = IF n = 0 THEN [ops |-> <<>>, second |-> FALSE]
                                        ELSE ScanLine(f[n-1], text, n)
    BY <1>2 DEF ScanOf
  <2> QED BY <2>1, <2>2
<1>5. ASSUME NEW k \in 0..L PROVE f[k] \in Acc
  <2> DEFINE S == {n \in 0..k : f[n] \in Acc}
  <2>1. 0 \in S
    <3>1. 0 \in 0..k
      BY <1>1
    <3>2. [ops |-> <<>>, second |-> FALSE] \in Acc
      <4>1. <<>> \in Seq(PatchOp)
        OBVIOUS
      <4> QED BY <4>1 DEF Acc
    <3> QED BY <1>4, <3>1, <3>2
  <2>2. ASSUME NEW n \in 1..k, n - 1 \in S PROVE n \in S
    <3>1. n \in 1..L /\ n \in 0..k
      BY <1>1
    <3>2. f[n-1] \in Acc /\ f[n] = ScanLine(f[n-1], text, n)
      BY <1>4, <2>2, <3>1
    <3>3. LineOps(text, n, f[n-1].ops) \in Seq(PatchOp) /\ Paired(text, n) \in BOOLEAN
      BY <3>1, LineOpsType DEF Paired, L
    <3>4. f[n] \in Acc
      <4>1. CASE f[n-1].second
        BY <3>2, <4>1 DEF ScanLine, Acc
      <4>2. CASE ~f[n-1].second
        <5>1. f[n-1].ops \o LineOps(text, n, f[n-1].ops) \in Seq(PatchOp)
          BY <3>2, <3>3 DEF Acc
        <5> QED BY <3>2, <3>3, <4>2, <5>1 DEF ScanLine, Acc
      <4> QED BY <4>1, <4>2
    <3> QED BY <3>1, <3>4
  <2>3. k \in S
    <3> HIDE DEF S
    <3> QED BY <1>1, <2>1, <2>2, Stepwise
  <2> QED BY <2>3
<1>6. Scanned(text) = f[L].ops
  BY <1>3 DEF f, L
<1> QED BY <1>4, <1>5, <1>6 DEF f, L

(* The loop over the lines finds operations on paths.                      *)
LEMMA ScannedType ==
    ASSUME NEW text \in Seq(Line)
    PROVE  Scanned(text) \in Seq(PatchOp)
<1>1. Len(text) \in 0..Len(text)
  OBVIOUS
<1>2. Scan(text)[Len(text)] \in Acc /\ Scanned(text) = Scan(text)[Len(text)].ops
  BY <1>1, ScanSteps
<1> QED BY <1>2 DEF Acc

BothOps(p) == {[kind |-> k, path |-> p] : k \in {"FILE_WRITE", "FILE_DELETE"}}

(* The operations of a text: those the loop finds, and both for a path it  *)
(* finds none about.                                                       *)
LEMMA OperationsExact ==
    ASSUME NEW text \in Seq(Line)
    PROVE  /\ ParsePatchOperations(text) \in Seq(PatchOp)
           /\ \A o : Has(ParsePatchOperations(text), o) <=>
                \/ Has(Scanned(text), o)
                \/ \E p : /\ Mentions(text, p) /\ o \in BothOps(p)
                          /\ \A q : Has(Scanned(text), q) => q.path # p
<1> DEFINE ops == Scanned(text)
           paths == ParsePatchPaths(text)
           Seen(p) == \E m \in DOMAIN ops : ops[m].path = p
           Both(p) == Op("FILE_WRITE", p) \o Op("FILE_DELETE", p)
           added == [n \in DOMAIN paths |-> IF Seen(paths[n]) THEN <<>> ELSE Both(paths[n])]
<1>1. ops \in Seq(PatchOp) /\ paths \in Seq(Paths)
  BY ScannedType, PathsOfText
<1>2. \A p : Mentions(text, p) <=> Has(paths, p)
  BY PathsOfText
<1>3. ParsePatchOperations(text) = ops \o FlattenSeq(added)
  BY DEF ParsePatchOperations
<1> HIDE DEF ops, paths
<1>4. /\ Len(paths) \in Nat /\ DOMAIN paths = 1..Len(paths)
      /\ \A n \in 1..Len(paths) : paths[n] \in Paths
      /\ Len(ops) \in Nat /\ DOMAIN ops = 1..Len(ops)
  BY <1>1
<1>5. ASSUME NEW p \in Paths
      PROVE  Both(p) \in Seq(PatchOp) /\ \A o : Has(Both(p), o) <=> o \in BothOps(p)
  <2>1. p # None /\ p \in Optional(Paths)
    BY GuardAssumption DEF Optional
  <2>2. PICK w : w = [kind |-> "FILE_WRITE", path |-> p]
    OBVIOUS
  <2>3. PICK e : e = [kind |-> "FILE_DELETE", path |-> p]
    OBVIOUS
  <2>4. PICK ws : ws = Op("FILE_WRITE", p)
    OBVIOUS
  <2>5. PICK es : es = Op("FILE_DELETE", p)
    OBVIOUS
  <2>6. ws = <<w>> /\ es = <<e>> /\ ws \in Seq(PatchOp) /\ es \in Seq(PatchOp)
    BY <2>1, <2>2, <2>3, <2>4, <2>5, OpType
  <2>7. \A o : (Has(ws, o) <=> o = w) /\ (Has(es, o) <=> o = e)
    BY <2>6 DEF Has
  <2>8. ws \o es \in Seq(PatchOp) /\ \A o : Has(ws \o es, o) <=> Has(ws, o) \/ Has(es, o)
    BY <2>6, ConcatHas
  <2>9. \A o : o \in BothOps(p) <=> o = w \/ o = e
    BY <2>2, <2>3 DEF BothOps
  <2> QED BY <2>4, <2>5, <2>7, <2>8, <2>9
<1> HIDE DEF Both
<1>6. ASSUME NEW n \in 1..Len(paths)
      PROVE  /\ added[n] \in Seq(PatchOp)
             /\ \A o : Has(added[n], o) <=> ~Seen(paths[n]) /\ o \in BothOps(paths[n])
  <2>1. added[n] = IF Seen(paths[n]) THEN <<>> ELSE Both(paths[n])
    BY <1>4
  <2>2. PICK none : none = <<>>
    OBVIOUS
  <2>3. none \in Seq(PatchOp) /\ \A o : ~Has(none, o)
    BY <2>2 DEF Has
  <2> HIDE DEF added, Seen
  <2>4. CASE Seen(paths[n])
    <3>1. added[n] = none
      BY <2>1, <2>2, <2>4
    <3> QED BY <2>3, <2>4, <3>1
  <2>5. CASE ~Seen(paths[n])
    <3>1. added[n] = Both(paths[n])
      BY <2>1, <2>5
    <3> QED BY <1>4, <1>5, <2>5, <3>1
  <2> QED BY <2>4, <2>5
<1>7. added \in Seq(Seq(PatchOp)) /\ Len(added) = Len(paths)
  BY <1>4, <1>6
<1> HIDE DEF added
<1>8. /\ FlattenSeq(added) \in Seq(PatchOp)
      /\ \A o : Has(FlattenSeq(added), o) <=> \E n \in 1..Len(added) : Has(added[n], o)
  BY <1>7, FlattenHas
<1>9. /\ ParsePatchOperations(text) \in Seq(PatchOp)
      /\ \A o : Has(ParsePatchOperations(text), o) <=> Has(ops, o) \/ Has(FlattenSeq(added), o)
  BY <1>1, <1>3, <1>8, ConcatHas
<1>10. \A p : Seen(p) <=> \E q : Has(ops, q) /\ q.path = p
  BY <1>4 DEF Has
<1> HIDE DEF Seen
<1>11. ASSUME NEW o
       PROVE  Has(FlattenSeq(added), o) <=>
                \E p : /\ Mentions(text, p) /\ o \in BothOps(p)
                       /\ \A q : Has(ops, q) => q.path # p
  <2>1. ASSUME Has(FlattenSeq(added), o)
        PROVE  \E p : Mentions(text, p) /\ o \in BothOps(p) /\ ~Seen(p)
    <3>1. PICK n \in 1..Len(paths) : Has(added[n], o)
      BY <1>7, <1>8, <2>1
    <3>2. Mentions(text, paths[n])
      BY <1>2, <3>1 DEF Has
    <3> QED BY <1>6, <3>1, <3>2
  <2>2. ASSUME NEW p, Mentions(text, p), o \in BothOps(p), ~Seen(p)
        PROVE  Has(FlattenSeq(added), o)
    <3>1. PICK n \in 1..Len(paths) : paths[n] = p
      BY <1>2, <2>2 DEF Has
    <3>2. Has(added[n], o)
      BY <1>6, <2>2, <3>1
    <3> QED BY <1>7, <1>8, <3>1, <3>2
  <2> QED BY <1>10, <2>1, <2>2
<1>12. /\ ParsePatchOperations(text) \in Seq(PatchOp)
       /\ \A o : Has(ParsePatchOperations(text), o) <=>
             \/ Has(ops, o)
             \/ \E p : /\ Mentions(text, p) /\ o \in BothOps(p)
                       /\ \A q : Has(ops, q) => q.path # p
  BY <1>9, <1>11
<1> QED BY <1>12 DEF ops

(* So every path the text names has one.                                   *)
LEMMA OperationsOfText ==
    ASSUME NEW text \in Seq(Line)
    PROVE  /\ ParsePatchOperations(text) \in Seq(PatchOp)
           /\ \A p : Mentions(text, p) =>
                \E o \in PatchOp : o.path = p /\ Has(ParsePatchOperations(text), o)
<1>1. ParsePatchOperations(text) \in Seq(PatchOp)
  BY OperationsExact
<1>2. ASSUME NEW p, Mentions(text, p)
      PROVE  \E o \in PatchOp : o.path = p /\ Has(ParsePatchOperations(text), o)
  <2>1. CASE \E q : Has(Scanned(text), q) /\ q.path = p
    <3>1. PICK q : Has(Scanned(text), q) /\ q.path = p
      BY <2>1
    <3>2. q \in PatchOp
      BY <3>1, ScannedType DEF Has
    <3> QED BY <3>1, <3>2, OperationsExact
  <2>2. CASE ~\E q : Has(Scanned(text), q) /\ q.path = p
    <3>1. PICK o : o = [kind |-> "FILE_WRITE", path |-> p]
      OBVIOUS
    <3>2. o \in PatchOp /\ o.path = p /\ o \in BothOps(p)
      BY <1>2, <3>1 DEF Mentions, PatchOp, BothOps
    <3>3. Has(ParsePatchOperations(text), o)
      BY <1>2, <2>2, <3>2, OperationsExact
    <3> QED BY <3>2, <3>3
  <2> QED BY <2>1, <2>2
<1> QED BY <1>1, <1>2

(* What is read of a text.                                                 *)
LEMMA ReadTextType ==
    ASSUME NEW text \in Seq(TextLine)
    PROVE  /\ ReadText(text) \in Seq(Line) /\ Len(ReadText(text)) = Len(text)
           /\ \A n \in 1..Len(text) : ReadText(text)[n] = ReadLine(text[n])
<1>1. Len(text) \in Nat /\ DOMAIN text = 1..Len(text)
  OBVIOUS
<1>2. ASSUME NEW n \in 1..Len(text) PROVE ReadLine(text[n]) \in Line
  <2>1. text[n] \in TextLine
    OBVIOUS
  <2> QED BY <2>1 DEF TextLine
<1>3. PICK r : r = ReadText(text)
  OBVIOUS
<1>4. r = [n \in 1..Len(text) |-> ReadLine(text[n])]
  BY <1>1, <1>3 DEF ReadText
<1>5. \A n \in 1..Len(text) : r[n] = ReadLine(text[n]) /\ r[n] \in Line
  BY <1>2, <1>4
<1>6. r = [n \in 1..Len(text) |-> r[n]]
  BY <1>4
<1>7. r \in Seq(Line) /\ Len(r) = Len(text)
  BY <1>1, <1>5, <1>6
<1> QED BY <1>3, <1>5, <1>7

(* What ToPatch adds for the paths beside the text.                        *)
LEMMA ToPatchOps ==
    ASSUME NEW x \in PatchInput
    PROVE  /\ ToPatch(x).ops \in Seq(PatchOp)
           /\ \A o : Has(ToPatch(x).ops, o) <=>
                \/ Has(ParsePatchOperations(ReadText(x.text)), o)
                \/ \E p : /\ Has(x.named, p) /\ ~Mentions(ReadText(x.text), p)
                          /\ o = [kind |-> "FILE_WRITE", path |-> p]
<1>1. PICK text : text = ReadText(x.text)
  OBVIOUS
<1>2. PICK ops : ops = ParsePatchOperations(text)
  OBVIOUS
<1>3. PICK paths : paths = ParsePatchPaths(text)
  OBVIOUS
<1>4. PICK beside : beside = Once(x.named)
  OBVIOUS
<1>5. x.text \in Seq(TextLine) /\ x.named \in Seq(Paths)
  BY DEF PatchInput
<1>6. text \in Seq(Line)
  BY <1>1, <1>5, ReadTextType
<1>7. ops \in Seq(PatchOp) /\ paths \in Seq(Paths) /\ \A q : Mentions(text, q) <=> Has(paths, q)
  BY <1>2, <1>3, <1>6, OperationsExact, PathsOfText
<1>8. beside \in Seq(Paths) /\ \A q : Has(beside, q) <=> Has(x.named, q)
  BY <1>4, <1>5, OnceHas
<1>9. \A p : p \in Range(paths) <=> Mentions(text, p)
  <2>1. DOMAIN paths = 1..Len(paths)
    BY <1>7
  <2> QED BY <1>7, <2>1 DEF Has, Range
<1> DEFINE each == [n \in DOMAIN beside |-> IF beside[n] \in Range(paths) THEN <<>>
                                            ELSE Op("FILE_WRITE", beside[n])]
<1>10. /\ Len(beside) \in Nat /\ DOMAIN beside = 1..Len(beside)
       /\ \A n \in 1..Len(beside) : beside[n] \in Paths
  BY <1>8
<1>11. ASSUME NEW n \in 1..Len(beside)
       PROVE  /\ each[n] \in Seq(PatchOp)
              /\ \A o : Has(each[n], o) <=> /\ ~Mentions(text, beside[n])
                                           /\ o = [kind |-> "FILE_WRITE", path |-> beside[n]]
  <2>1. PICK p : p = beside[n]
    OBVIOUS
  <2>2. PICK w : w = [kind |-> "FILE_WRITE", path |-> p]
    OBVIOUS
  <2>3. PICK e : e = each[n]
    OBVIOUS
  <2>4. p \in Paths /\ p # None /\ p \in Optional(Paths)
    BY <1>10, <2>1, GuardAssumption DEF Optional
  <2>5. e = IF p \in Range(paths) THEN <<>> ELSE Op("FILE_WRITE", p)
    BY <1>10, <2>1, <2>3
  <2>6. CASE p \in Range(paths)
    <3>1. PICK none : none = <<>>
      OBVIOUS
    <3>2. none \in Seq(PatchOp) /\ (\A o : ~Has(none, o)) /\ e = none
      BY <2>5, <2>6, <3>1 DEF Has
    <3>3. e \in Seq(PatchOp) /\ \A o : Has(e, o) <=> ~Mentions(text, p) /\ o = w
      BY <1>9, <2>6, <3>2
    <3> QED BY <2>1, <2>2, <2>3, <3>3
  <2>7. CASE p \notin Range(paths)
    <3>1. e = <<w>> /\ e \in Seq(PatchOp)
      BY <2>2, <2>4, <2>5, <2>7, OpType
    <3>2. \A o : Has(e, o) <=> o = w
      BY <3>1 DEF Has
    <3>3. e \in Seq(PatchOp) /\ \A o : Has(e, o) <=> ~Mentions(text, p) /\ o = w
      BY <1>9, <2>7, <3>1, <3>2
    <3> QED BY <2>1, <2>2, <2>3, <3>3
  <2> QED BY <2>6, <2>7
<1>12. PICK E : E = each
  OBVIOUS
<1>13. E \in Seq(Seq(PatchOp)) /\ Len(E) = Len(beside)
  <2>1. \A n \in 1..Len(beside) : E[n] \in Seq(PatchOp)
    BY <1>11, <1>12
  <2>2. E = [n \in 1..Len(beside) |-> E[n]]
    BY <1>10, <1>12
  <2> QED BY <1>10, <2>1, <2>2
<1>14. \A n \in 1..Len(beside) : \A o :
          Has(E[n], o) <=> /\ ~Mentions(text, beside[n])
                           /\ o = [kind |-> "FILE_WRITE", path |-> beside[n]]
  BY <1>11, <1>12
<1>15. ToPatch(x).ops = ops \o FlattenSeq(E)
  BY <1>1, <1>2, <1>3, <1>4, <1>12 DEF ToPatch
<1> HIDE DEF each
<1>16. PICK rest : rest = FlattenSeq(E)
  OBVIOUS
<1>17. /\ rest \in Seq(PatchOp)
       /\ \A o : Has(rest, o) <=> \E n \in 1..Len(E) : Has(E[n], o)
  BY <1>13, <1>16, FlattenHas
<1>18. \A o : Has(rest, o) <=> \E p : /\ Has(x.named, p) /\ ~Mentions(text, p)
                                      /\ o = [kind |-> "FILE_WRITE", path |-> p]
  <2>1. \A p : Has(x.named, p) <=> \E n \in 1..Len(beside) : beside[n] = p
    BY <1>8 DEF Has
  <2> QED BY <1>13, <1>14, <1>17, <2>1
<1>19. ops \o rest \in Seq(PatchOp) /\ \A o : Has(ops \o rest, o) <=> Has(ops, o) \/ Has(rest, o)
  BY <1>7, <1>17, ConcatHas
<1> QED BY <1>1, <1>2, <1>15, <1>16, <1>18, <1>19

(* The same of an input of apply_patch, for the paths read in its text and *)
(* those beside it.                                                        *)
LEMMA NoPathMissed ==
    ASSUME NEW x \in PatchInput, NEW p \in Paths, Mentions(ReadText(x.text), p) \/ Has(x.named, p)
    PROVE  \E n \in DOMAIN ToPatch(x).ops :
              ToPatch(x).ops[n] \in PatchOp /\ ToPatch(x).ops[n].path = p
<1>1. PICK text : text = ReadText(x.text)
  OBVIOUS
<1>2. PICK ops : ops = ToPatch(x).ops
  OBVIOUS
<1>3. text \in Seq(Line)
  <2>1. x.text \in Seq(TextLine)
    BY DEF PatchInput
  <2> QED BY <1>1, <2>1, ReadTextType
<1>4. /\ ops \in Seq(PatchOp)
      /\ \A o : Has(ParsePatchOperations(text), o) => Has(ops, o)
      /\ \A o : Has(x.named, p) /\ ~Mentions(text, p) /\ o = [kind |-> "FILE_WRITE", path |-> p]
                 => Has(ops, o)
  BY <1>1, <1>2, ToPatchOps
<1>5. \E o \in PatchOp : o.path = p /\ Has(ops, o)
  <2>1. CASE Mentions(text, p)
    BY <1>3, <1>4, <2>1, OperationsOfText
  <2>2. CASE ~Mentions(text, p)
    <3>1. PICK o : o = [kind |-> "FILE_WRITE", path |-> p]
      OBVIOUS
    <3>2. o \in PatchOp /\ o.path = p
      BY <3>1 DEF PatchOp
    <3> QED BY <1>1, <1>4, <2>2, <3>1, <3>2
  <2> QED BY <2>1, <2>2
<1>6. DOMAIN ops = 1..Len(ops)
  BY <1>4
<1> QED BY <1>2, <1>5, <1>6 DEF Has

(* A written prefix is dropped.                                            *)
LEMMA UnderRead ==
    ASSUME NEW p \in Paths, Len(p) = 1, ~p[1].root, NEW side \in {"a", "b"}
    PROVE  /\ Under(side, p) = <<Under(side, p)[1]>> /\ Under(side, p) \in Seq(Word)
           /\ CleanPath(Under(side, p)) = p
<1>1. p \in Seq(Word) /\ p[1] \in Word
  <2>1. p \in Seq(Word)
    BY PathAssumption DEF Name
  <2> QED BY <2>1
<1>2. PICK steps : steps = p[1].steps
  OBVIOUS
<1>3. steps \in Seq(Segments) /\ steps # <<>> /\ p[1] = [root |-> FALSE, steps |-> steps]
  BY <1>1, <1>2 DEF Word
<1>4. p = <<[root |-> FALSE, steps |-> steps]>>
  <2>1. p = <<p[1]>>
    BY <1>1
  <2> QED BY <1>3, <2>1
<1>5. PICK long : long = <<side>> \o steps
  OBVIOUS
<1>6. /\ long \in Seq(Segments) /\ long # <<>> /\ Len(long) > 1 /\ long[1] = side
      /\ Tail(long) = steps
  <2>1. PICK first : first = <<side>>
    OBVIOUS
  <2>2. first \in Seq(Segments) /\ Len(first) = 1 /\ first[1] = side
    BY <2>1, PathAssumption
  <2>3. /\ long \in Seq(Segments) /\ Len(long) = 1 + Len(steps) /\ Len(steps) \in Nat
        /\ Len(steps) # 0
        /\ \A n \in 1..1 : long[n] = first[n]
        /\ \A n \in 1..Len(steps) : long[1 + n] = steps[n]
    BY <1>3, <1>5, <2>1, <2>2
  <2>4. Tail(long) = steps
    <3>1. PICK t : t = Tail(long)
      OBVIOUS
    <3>2. t \in Seq(Segments) /\ Len(t) = Len(steps) /\ \A n \in 1..Len(t) : t[n] = long[n + 1]
      BY <2>3, <3>1
    <3>3. \A n \in 1..Len(steps) : t[n] = steps[n]
      BY <2>3, <3>2
    <3> QED BY <1>3, <3>1, <3>2, <3>3
  <2> QED BY <2>2, <2>3, <2>4
<1>7. PICK w : w = [root |-> FALSE, steps |-> long]
  OBVIOUS
<1>8. w \in Word /\ Prefixed(w) /\ w.steps = long /\ ~w.root
  BY <1>6, <1>7 DEF Word, Prefixed
<1>9. Tail(p) = <<>>
  BY <1>4
<1>10. Under(side, p) = <<w>>
  <2>1. <<w>> \o <<>> = <<w>>
    BY <1>8
  <2> QED BY <1>2, <1>5, <1>7, <1>9, <2>1 DEF Under
<1>11. <<w>> # Null
  <2>1. PICK v : v = [root |-> TRUE, steps |-> <<"dev", "null">>]
    OBVIOUS
  <2>2. v.root
    BY <2>1
  <2>3. <<w>> # <<v>>
    BY <1>8, <2>2
  <2> QED BY <2>1, <2>3 DEF Null
<1>12. PICK q : q = <<w>>
  OBVIOUS
<1>13. q[1] = w /\ q # <<>> /\ q \in Seq(Word)
  BY <1>8, <1>12
<1>14. CleanPath(q) = <<[root |-> FALSE, steps |-> Tail(long)]>>
  BY <1>8, <1>11, <1>12, <1>13 DEF CleanPath
<1>15. CleanPath(q) = p
  BY <1>4, <1>6, <1>14
<1> QED BY <1>10, <1>12, <1>13, <1>15

(* How a line may write a simple path: alone or below a or b.              *)
Spellings(p) == {p, Under("a", p), Under("b", p)}

Writes(line, p) ==
    /\ line.words # <<>>
    /\ \/ <<line.words[1]>> \in Spellings(p)
       \/ line.kind = "diff" /\ <<line.words[2]>> \in Spellings(p)

(* It is read as it is meant.                                              *)
LEMMA SimpleRead ==
    ASSUME NEW p \in Paths, Simple(p)
    PROVE  \A q \in Spellings(p) : q = <<q[1]>> /\ CleanPath(q) = p
<1>1. p \in Seq(Word) /\ Len(p) = 1 /\ p[1] \in Word
  <2>1. p \in Seq(Word)
    BY PathAssumption DEF Name
  <2> QED BY <2>1 DEF Simple
<1>2. PICK steps : steps = p[1].steps
  OBVIOUS
<1>3. steps \in Seq(Segments) /\ steps # <<>> /\ p[1] = [root |-> FALSE, steps |-> steps]
  BY <1>1, <1>2 DEF Simple, Word
<1>4. p = <<[root |-> FALSE, steps |-> steps]>>
  <2>1. p = <<p[1]>>
    BY <1>1
  <2> QED BY <1>3, <2>1
<1>5. CleanPath(p) = p
  <2>1. ~Prefixed(p[1])
    BY DEF Simple
  <2>2. p # <<>> /\ <<p[1]>> # Null
    <3>1. PICK w : w = p[1]
      OBVIOUS
    <3>2. PICK v : v = [root |-> TRUE, steps |-> <<"dev", "null">>]
      OBVIOUS
    <3>3. w.root = FALSE /\ v.root = TRUE
      BY <1>3, <3>1, <3>2
    <3>4. <<w>> # <<v>>
      BY <3>3
    <3>5. Null = <<v>>
      BY <3>2 DEF Null
    <3>6. p # <<>>
      BY <1>1
    <3> QED BY <3>1, <3>4, <3>5, <3>6
  <2> QED BY <1>2, <1>4, <2>1, <2>2 DEF CleanPath
<1>6. ASSUME NEW side \in {"a", "b"}
      PROVE  Under(side, p) = <<Under(side, p)[1]>> /\ CleanPath(Under(side, p)) = p
  BY <1>1, <1>2, <1>3, <1>4, <1>6, UnderRead
<1>7. p = <<p[1]>>
  BY <1>1
<1> QED BY <1>5, <1>6, <1>7 DEF Spellings

(* A text that writes a simple path mentions it.                           *)
LEMMA WrittenMentioned ==
    ASSUME NEW text \in Seq(TextLine), NEW p \in Paths, Simple(p),
           \E n \in 1..Len(text) : Writes(text[n], p)
    PROVE  Mentions(ReadText(text), p)
<1>1. PICK n \in 1..Len(text) : Writes(text[n], p)
  OBVIOUS
<1>2. PICK line : line = text[n]
  OBVIOUS
<1>3. line \in TextLine
  BY <1>2
<1>4. /\ ReadText(text)[n] = ReadLine(line)
      /\ n \in 1..Len(ReadText(text))
  BY <1>2, ReadTextType
<1>5. \A words : words # <<>> => CleanPath(words) = CleanPath(<<words[1]>>)
  BY DEF CleanPath
<1>6. p \in {ReadLine(line).old, ReadLine(line).new}
  <2>1. CASE line.kind = "diff"
    <3>1. p = CleanPath(<<line.words[1]>>) \/ p = CleanPath(<<line.words[2]>>)
      BY <1>1, <1>2, SimpleRead DEF Writes
    <3> QED BY <2>1, <3>1 DEF ReadLine
  <2>2. CASE line.kind # "diff"
    <3>1. line.words # <<>> /\ p = CleanPath(<<line.words[1]>>)
      BY <1>1, <1>2, <2>2, SimpleRead DEF Writes
    <3>2. ReadLine(line).new = CleanPath(line.words)
      BY <2>2 DEF ReadLine
    <3> QED BY <1>5, <3>1, <3>2
  <2> QED BY <2>1, <2>2
<1> QED BY <1>4, <1>6 DEF Mentions

(* A prohibition to change or delete the path p, whoever does it.          *)
ProtectsFromChanges(c, p) ==
    /\ c.status = "ACTIVE" /\ c.effect = "DENY" /\ c.strength = "HARD"
    /\ c.scope.target = None /\ c.scope.tools = {} /\ c.scope.selectors = NoFields
    /\ c.scope.actions = {} \/ {"write", "delete"} \subseteq c.scope.actions
    /\ \E q \in c.scope.paths : <<q, p>> \in Covers

(* The path p is written in a line of the patch, so that the adapter reads *)
(* it as it is written, or it is named beside the text.                    *)
Shows(x, p) ==
    \/ Simple(p) /\ \E m \in 1..Len(x.text) : Writes(x.text[m], p)
    \/ Has(x.named, p)

(* A patch that writes the path of a file nobody may change in any of its  *)
(* lines, or names it beside its text, is blocked on account of that rule: *)
(* in a line, a path the adapter reads as it is written.                   *)
MentionedGuarded ==
    Done /\ call.kind = "patch" =>
        \A x \in InputsOf[call.patch], p \in Paths, n \in DOMAIN ledger :
            Shows(x, p) /\ ProtectsFromChanges(ledger[n], p) =>
                result.kind = "BLOCK" /\ n \in result.violating

(* Whatever the text of a patch looks like, headers of several formats     *)
(* mixed, cut short or contradicting each other, followed by time stamps or*)
(* by anything else, writing a protected path in it gets the patch blocked *)
(* if the adapter reads that path as it is written, that is for a relative *)
(* path without blanks outside the directories a and b; naming any         *)
(* protected path beside the text does as well (the consistency check at   *)
(* the end of parse_patch_operations, _clean_path and to_action).          *)
THEOREM NoFileSlipsThrough == Spec => []MentionedGuarded
<1>1. GuardInv => MentionedGuarded
  <2> SUFFICES ASSUME GuardInv, Done, call.kind = "patch",
                      NEW x \in InputsOf[call.patch], NEW p \in Paths, NEW n \in DOMAIN ledger,
                      Shows(x, p), ProtectsFromChanges(ledger[n], p)
               PROVE  result.kind = "BLOCK" /\ n \in result.violating
    BY DEF MentionedGuarded
  <2>1. /\ call.patch \in Patches
        /\ subs = [m \in DOMAIN call.patch.ops |-> SubAction(call.patch, m)]
    BY DEF GuardInv, CallInv
  <2>2. x \in PatchInput /\ ToPatch(x) = call.patch
    BY <2>1, PatchAssumption DEF InputsOf
  <2>3. PICK m \in DOMAIN call.patch.ops :
           call.patch.ops[m] \in PatchOp /\ call.patch.ops[m].path = p
    <3>1. x.text \in Seq(TextLine)
      BY <2>2 DEF PatchInput
    <3>2. Mentions(ReadText(x.text), p) \/ Has(x.named, p)
      BY <3>1, WrittenMentioned DEF Shows
    <3> QED BY <2>2, <3>2, NoPathMissed
  <2>4. PICK a : a = SubAction(call.patch, m)
    OBVIOUS
  <2>5. m \in DOMAIN subs /\ subs[m] = a
    BY <2>1, <2>3, <2>4
  <2>6. a.paths = {p} /\ a.kind \in {"FILE_WRITE", "FILE_DELETE"}
    BY <2>3, <2>4 DEF SubAction, PatchOp
  <2>7. \E v \in VerbsOf(a) : v \in {"write", "delete"}
    BY <2>6 DEF VerbsOf, KindVerbs, Kinds
  <2>8. MatchScope(ledger[n].scope, a)
    <3>1. SelectorsMatch(ledger[n].scope, a)
      BY DEF SelectorsMatch, ProtectsFromChanges, NoFields
    <3>2. ActionMatches(ledger[n].scope, a)
      BY <2>7 DEF ActionMatches, ProtectsFromChanges
    <3>3. PathMatches(ledger[n].scope, a)
      BY <2>6 DEF PathMatches, ProtectsFromChanges
    <3> QED BY <3>1, <3>2, <3>3
            DEF MatchScope, TargetMatches, ToolMatches, ProtectsFromChanges
  <2>9. Broken(ledger[n], a) /\ Binding(ledger[n])
    BY <2>8 DEF Broken, Applies, Binding, ProtectsFromChanges
  <2> QED BY <2>5, <2>9, DoneDecides DEF Decides
<1> QED BY <1>1, Inductive, PTL

--------------------------------------------------------------------------------
(* Patches in the formats that are known.  The parts of a document are read*)
(* one by one: a part starts with a line that ends what is read of the     *)
(* part before it, so that its operation does not depend on what follows,  *)
(* and each part adds one operation, about its own path.                   *)

(* The parts of two texts one after the other.                             *)
LEMMA Joined ==
    ASSUME NEW S, NEW t \in Seq(S), NEW s \in Seq(S), NEW u, u = t \o s
    PROVE  /\ u \in Seq(S) /\ Len(u) = Len(t) + Len(s) /\ Len(t) \in Nat /\ Len(s) \in Nat
           /\ \A n \in 1..Len(t) : u[n] = t[n]
           /\ \A n \in 1..Len(s) : u[Len(t) + n] = s[n]
OBVIOUS

(* The lesser of two numbers.                                              *)
LEMMA MinOfTwo ==
    ASSUME NEW a \in Nat, NEW b \in Nat
    PROVE  Min({a, b}) = IF a <= b THEN a ELSE b
<1>1. CASE a <= b
  <2>1. \A x \in {a, b} : a <= x
    BY <1>1
  <2>2. \A y \in {a, b} : (\A x \in {a, b} : y <= x) => y = a
    BY <1>1
  <2> QED BY <1>1, <2>1, <2>2 DEF Min
<1>2. CASE ~(a <= b)
  <2>1. \A x \in {a, b} : b <= x
    BY <1>2
  <2>2. \A y \in {a, b} : (\A x \in {a, b} : y <= x) => y = b
    BY <1>2
  <2> QED BY <1>2, <2>1, <2>2 DEF Min
<1> QED BY <1>1, <1>2

(* What is read of a text does not depend on a text after it that starts   *)
(* as a new part does.                                                     *)
Apart(t, s) ==
    /\ s # <<>> /\ s[1].kind # "plus"
    /\ (\E n \in 1..Len(t) : t[n].kind = "diff") => s[1].kind = "diff"
    /\ (\E n \in 1..Len(t) : t[n].kind = "index") => s[1].kind = "index"

(* Each of its lines tells the same.                                       *)
LEMMA LinesApart ==
    ASSUME NEW t \in Seq(Line), NEW s \in Seq(Line), Apart(t, s)
    PROVE  \A n \in 1..Len(t) :
              /\ Paired(t \o s, n) <=> Paired(t, n)
              /\ \A ops : LineOps(t \o s, n, ops) = LineOps(t, n, ops)
<1> PICK u : u = t \o s
  OBVIOUS
<1> SUFFICES ASSUME NEW n \in 1..Len(t), NEW ops
             PROVE  /\ Paired(u, n) <=> Paired(t, n)
                    /\ LineOps(u, n, ops) = LineOps(t, n, ops)
  OBVIOUS
<1>1. /\ u \in Seq(Line) /\ Len(u) = Len(t) + Len(s) /\ Len(t) \in Nat /\ Len(s) \in Nat
      /\ \A m \in 1..Len(t) : u[m] = t[m]
      /\ \A m \in 1..Len(s) : u[Len(t) + m] = s[m]
  BY Joined
<1>2. Len(s) > 0 /\ u[Len(t) + 1] = s[1] /\ u[n] = t[n]
  BY <1>1 DEF Apart
<1>3. Paired(u, n) <=> Paired(t, n)
  <2>1. CASE n < Len(t)
    <3>1. n + 1 \in 1..Len(t) /\ n < Len(u)
      BY <1>1, <2>1
    <3>2. u[n + 1] = t[n + 1]
      BY <1>1, <3>1
    <3> QED BY <1>2, <2>1, <3>1, <3>2 DEF Paired
  <2>2. CASE ~(n < Len(t))
    <3>1. n = Len(t)
      BY <1>1, <2>2
    <3>2. u[n + 1].kind # "plus"
      BY <1>2, <3>1 DEF Apart
    <3> QED BY <2>2, <3>2 DEF Paired
  <2> QED BY <2>1, <2>2
<1>4. ASSUME Paired(t, n) PROVE u[n + 1] = t[n + 1]
  <2>1. n + 1 \in 1..Len(t)
    BY <1>1, <1>4 DEF Paired
  <2> QED BY <1>1, <2>1
<1>5. ASSUME t[n].kind = "diff" PROVE GitOp(u, n) = GitOp(t, n)
  <2>1. u[Len(t) + 1].kind = "diff"
    BY <1>2, <1>5 DEF Apart
  <2>2. GitBlock(u, n) = GitBlock(t, n)
    <3>1. ASSUME NEW m \in GitBlock(u, n) PROVE m \in GitBlock(t, n)
      <4>1. m \in (n + 1)..Len(u) /\ \A j \in (n + 1)..m : u[j].kind \notin Stars \cup {"diff"}
        BY DEF GitBlock
      <4>2. m <= Len(t)
        <5>1. Len(t) + 1 \notin (n + 1)..m
          BY <2>1, <4>1
        <5> QED BY <1>1, <4>1, <5>1
      <4>3. \A j \in (n + 1)..m : j \in 1..Len(t) /\ u[j] = t[j]
        BY <1>1, <4>1, <4>2
      <4>4. m \in (n + 1)..Len(t)
        BY <1>1, <4>1, <4>2
      <4> QED BY <4>1, <4>3, <4>4 DEF GitBlock
    <3>2. ASSUME NEW m \in GitBlock(t, n) PROVE m \in GitBlock(u, n)
      <4>1. m \in (n + 1)..Len(t) /\ \A j \in (n + 1)..m : t[j].kind \notin Stars \cup {"diff"}
        BY DEF GitBlock
      <4>2. m \in (n + 1)..Len(u) /\ \A j \in (n + 1)..m : j \in 1..Len(t) /\ u[j] = t[j]
        BY <1>1, <4>1
      <4> QED BY <4>1, <4>2 DEF GitBlock
    <3> QED BY <3>1, <3>2
  <2>3. \A m \in GitBlock(t, n) : u[m] = t[m]
    <3>1. \A m \in GitBlock(t, n) : m \in 1..Len(t)
      BY <1>1 DEF GitBlock
    <3> QED BY <1>1, <3>1
  <2>4. /\ {m \in GitBlock(u, n) : u[m].kind = "gone" \/ ToNull(u[m])}
           = {m \in GitBlock(t, n) : t[m].kind = "gone" \/ ToNull(t[m])}
        /\ {m \in GitBlock(u, n) : u[m].kind = "fresh" \/ FromNull(u[m])}
           = {m \in GitBlock(t, n) : t[m].kind = "fresh" \/ FromNull(t[m])}
    BY <2>2, <2>3
  <2> HIDE DEF GitBlock
  <2> QED BY <1>2, <2>4 DEF GitOp
<1>6. ASSUME t[n].kind = "index" PROVE IndexOp(u, n) = IndexOp(t, n)
  <2>1. u[Len(t) + 1].kind = "index"
    BY <1>2, <1>6 DEF Apart
  <2> DEFINE After(x) == {m \in (n + 1)..Min({Len(x), n + 4}) :
                             \A j \in (n + 1)..m : x[j].kind # "index"}
  <2>2. /\ \A m : m \in (n + 1)..Min({Len(u), n + 4}) <=> m \in (n + 1)..Len(u) /\ m <= n + 4
        /\ \A m : m \in (n + 1)..Min({Len(t), n + 4}) <=> m \in (n + 1)..Len(t) /\ m <= n + 4
    <3>1. /\ Min({Len(u), n + 4}) = IF Len(u) <= n + 4 THEN Len(u) ELSE n + 4
          /\ Min({Len(t), n + 4}) = IF Len(t) <= n + 4 THEN Len(t) ELSE n + 4
      <4>1. Len(u) \in Nat /\ n + 4 \in Nat
        BY <1>1
      <4> QED BY <1>1, <4>1, MinOfTwo
    <3> QED BY <1>1, <3>1
  <2>3. ASSUME NEW m \in After(u) PROVE m \in After(t) /\ u[m] = t[m]
    <3>1. /\ m \in (n + 1)..Len(u) /\ m <= n + 4
          /\ \A j \in (n + 1)..m : u[j].kind # "index"
      BY <2>2
    <3>2. m <= Len(t)
      <4>1. Len(t) + 1 \notin (n + 1)..m
        BY <2>1, <3>1
      <4> QED BY <1>1, <3>1, <4>1
    <3>3. \A j \in (n + 1)..m : j \in 1..Len(t) /\ u[j] = t[j]
      BY <1>1, <3>1, <3>2
    <3>4. m \in (n + 1)..Len(t) /\ m \in (n + 1)..m
      BY <1>1, <3>1, <3>2
    <3>5. m \in (n + 1)..Min({Len(t), n + 4})
      BY <2>2, <3>1, <3>4
    <3> QED BY <3>1, <3>3, <3>4, <3>5
  <2>4. ASSUME NEW m \in After(t) PROVE m \in After(u)
    <3>1. /\ m \in (n + 1)..Len(t) /\ m <= n + 4
          /\ \A j \in (n + 1)..m : t[j].kind # "index"
      BY <2>2
    <3>2. m \in (n + 1)..Len(u) /\ \A j \in (n + 1)..m : j \in 1..Len(t) /\ u[j] = t[j]
      BY <1>1, <3>1
    <3>3. m \in (n + 1)..Min({Len(u), n + 4})
      BY <2>2, <3>1, <3>2
    <3> QED BY <3>1, <3>2, <3>3
  <2>5. /\ IndexOp(u, n) = Op(WriteOrDelete(\E m \in After(u) : ToNull(u[m])), u[n].new)
        /\ IndexOp(t, n) = Op(WriteOrDelete(\E m \in After(t) : ToNull(t[m])), t[n].new)
    BY DEF IndexOp
  <2> HIDE DEF After
  <2>6. (\E m \in After(u) : ToNull(u[m])) <=> (\E m \in After(t) : ToNull(t[m]))
    BY <2>3, <2>4
  <2> QED BY <1>2, <2>5, <2>6
<1>7. LineOps(u, n, ops) = LineOps(t, n, ops)
  <2> HIDE DEF GitOp, IndexOp
  <2> QED BY <1>2, <1>3, <1>4, <1>5, <1>6 DEF LineOps
<1> QED BY <1>3, <1>7

(* So the loop is at its end where it would be without the text after it.  *)
LEMMA ScanPrefix ==
    ASSUME NEW t \in Seq(Line), NEW s \in Seq(Line), Apart(t, s)
    PROVE  Scan(t \o s)[Len(t)] = Scan(t)[Len(t)]
<1> DEFINE u == t \o s
           f == Scan(u)
           g == Scan(t)
           S == {n \in 0..Len(t) : f[n] = g[n]}
<1>1. u \in Seq(Line) /\ Len(u) = Len(t) + Len(s) /\ Len(t) \in Nat /\ Len(s) \in Nat
  BY Joined
<1>2. /\ f[0] = g[0]
      /\ \A n \in 1..Len(t) : f[n] = ScanLine(f[n-1], u, n) /\ g[n] = ScanLine(g[n-1], t, n)
  <2>1. \A n \in 1..Len(t) : n \in 1..Len(u)
    BY <1>1
  <2> HIDE DEF u
  <2> QED BY <1>1, <2>1, ScanSteps
<1>3. ASSUME NEW n \in 1..Len(t), NEW acc PROVE ScanLine(acc, u, n) = ScanLine(acc, t, n)
  <2>1. (Paired(u, n) <=> Paired(t, n)) /\ \A ops : LineOps(u, n, ops) = LineOps(t, n, ops)
    BY LinesApart
  <2> HIDE DEF u, f, g
  <2>2. Paired(u, n) \in BOOLEAN /\ Paired(t, n) \in BOOLEAN
    BY DEF Paired
  <2>3. Paired(u, n) = Paired(t, n)
    BY <2>1, <2>2
  <2>4. LineOps(u, n, acc.ops) = LineOps(t, n, acc.ops)
    BY <2>1
  <2> QED BY <2>3, <2>4 DEF ScanLine
<1> HIDE DEF f, g, u
<1>4. 0 \in S
  BY <1>1, <1>2
<1>5. ASSUME NEW n \in 1..Len(t), n - 1 \in S PROVE n \in S
  <2>1. n \in 0..Len(t) /\ f[n-1] = g[n-1]
    BY <1>1, <1>5
  <2> QED BY <1>2, <1>3, <2>1
<1>6. Len(t) \in S
  <2> HIDE DEF S
  <2> QED BY <1>1, <1>4, <1>5, Stepwise
<1> QED BY <1>6 DEF f, g, u

(* What is read of a part of a document, with the names of CodexPatch's    *)
(* own definitions of the part: a line of one path, the lines of a body, a *)
(* part, its --- and +++ line, its header and all of it.                   *)
LineOf(k, p) == [kind |-> k, old |-> None, new |-> p]

ReadBody(style) ==
    {line \in Line :
        /\ line.kind \in {"text", "minus"} \/ (line.kind = "marker" /\ style = "codex")
        /\ line.old = None /\ (line.kind # "minus" => line.new = None)}

ReadPart(style) ==
    {f \in [does : {"change", "create", "delete", "rename"}, from : Paths, path : Paths,
            bare : BOOLEAN, body : Seq(ReadBody(style))] :
        /\ f.does = "rename" <=> f.from # f.path
        /\ f.does = "rename" \/ f.bare => style = "git"}

FromTo(f) ==
    <<LineOf("minus", IF f.does = "create" THEN None ELSE f.from),
      LineOf("plus", IF f.does = "delete" THEN None ELSE f.path)>>

Header(style, f) ==
    CASE style = "codex" -> <<LineOf(IF f.does = "delete" THEN "delete" ELSE "put", f.path)>>
      [] style = "git" ->
            <<[kind |-> "diff", old |-> f.from, new |-> f.path], LineOf(GitMark(f), None)>>
            \o (IF f.bare THEN <<>> ELSE FromTo(f))
      [] style = "plain" -> FromTo(f)
      [] style = "index" -> <<LineOf("index", f.path), LineOf("text", None)>> \o FromTo(f)

Lines(style, f) == Header(style, f) \o f.body

(* A line of one path has its type.                                        *)
LEMMA LineOfType ==
    ASSUME NEW k \in LineKinds, NEW p \in Optional(Paths)
    PROVE  /\ LineOf(k, p) \in Line
           /\ LineOf(k, p).kind = k /\ LineOf(k, p).new = p /\ LineOf(k, p).old = None
BY DEF LineOf, Line, Optional

(* What a part says, taken apart.                                          *)
LEMMA FileType ==
    ASSUME NEW style \in Styles, NEW f \in ReadPart(style)
    PROVE  /\ f.does \in {"change", "create", "delete", "rename"} /\ f.bare \in BOOLEAN
           /\ f.from \in Paths /\ f.path \in Paths /\ f.from # None /\ f.path # None
           /\ f.from \in Optional(Paths) /\ f.path \in Optional(Paths) /\ None \in Optional(Paths)
           /\ f.does = "rename" <=> f.from # f.path
           /\ f.does = "rename" \/ f.bare => style = "git"
           /\ f.body \in Seq(Line)
           /\ \A n \in 1..Len(f.body) :
                /\ f.body[n].kind \in {"text", "minus"} \/ (f.body[n].kind = "marker" /\ style = "codex")
                /\ f.body[n].old = None /\ (f.body[n].kind # "minus" => f.body[n].new = None)
<1>1. /\ f.does \in {"change", "create", "delete", "rename"} /\ f.bare \in BOOLEAN
      /\ f.from \in Paths /\ f.path \in Paths /\ f.body \in Seq(ReadBody(style))
  BY DEF ReadPart
<1>2. /\ f.does = "rename" <=> f.from # f.path
      /\ f.does = "rename" \/ f.bare => style = "git"
  BY DEF ReadPart
<1>3. None \notin Paths
  BY GuardAssumption
<1>4. \A line \in ReadBody(style) :
         /\ line \in Line
         /\ line.kind \in {"text", "minus"} \/ (line.kind = "marker" /\ style = "codex")
         /\ line.old = None /\ (line.kind # "minus" => line.new = None)
  BY DEF ReadBody
<1>5. f.body \in Seq(Line)
  <2>1. ReadBody(style) \subseteq Line
    BY <1>4
  <2> QED BY <1>1, <2>1
<1>6. \A n \in 1..Len(f.body) : f.body[n] \in ReadBody(style)
  BY <1>1
<1>7. f.from \in Optional(Paths) /\ f.path \in Optional(Paths) /\ None \in Optional(Paths)
  BY <1>1 DEF Optional
<1>8. f.from # None /\ f.path # None
  BY <1>1, <1>3
<1> QED BY <1>1, <1>2, <1>4, <1>5, <1>6, <1>7, <1>8

(* The --- and the +++ line.                                               *)
LEMMA FromToType ==
    ASSUME NEW style \in Styles, NEW f \in ReadPart(style)
    PROVE  /\ FromTo(f) \in Seq(Line) /\ Len(FromTo(f)) = 2
           /\ FromTo(f)[1] = LineOf("minus", IF f.does = "create" THEN None ELSE f.from)
           /\ FromTo(f)[2] = LineOf("plus", IF f.does = "delete" THEN None ELSE f.path)
<1>1. PICK a : a = LineOf("minus", IF f.does = "create" THEN None ELSE f.from)
  OBVIOUS
<1>2. PICK b : b = LineOf("plus", IF f.does = "delete" THEN None ELSE f.path)
  OBVIOUS
<1>3. a \in Line /\ b \in Line
  BY <1>1, <1>2, FileType, LineOfType DEF LineKinds
<1>4. FromTo(f) = <<a, b>>
  BY <1>1, <1>2 DEF FromTo
<1> QED BY <1>1, <1>2, <1>3, <1>4

(* What a header consists of.                                              *)
HeadLen(style, f) ==
    IF style = "codex" THEN 1 ELSE IF style = "plain" \/ f.bare THEN 2 ELSE 4

Headed(style, f, h) ==
    /\ style = "codex" => h[1] = LineOf(IF f.does = "delete" THEN "delete" ELSE "put", f.path)
    /\ style = "git" =>
         /\ h[1] = [kind |-> "diff", old |-> f.from, new |-> f.path]
         /\ h[2] = LineOf(GitMark(f), None)
         /\ ~f.bare => h[3] = FromTo(f)[1] /\ h[4] = FromTo(f)[2]
    /\ style = "plain" => h[1] = FromTo(f)[1] /\ h[2] = FromTo(f)[2]
    /\ style = "index" =>
         /\ h[1] = LineOf("index", f.path) /\ h[2] = LineOf("text", None)
         /\ h[3] = FromTo(f)[1] /\ h[4] = FromTo(f)[2]

(* The header of a part consists of that.                                  *)
LEMMA HeaderType ==
    ASSUME NEW style \in Styles, NEW f \in ReadPart(style)
    PROVE  /\ Header(style, f) \in Seq(Line) /\ Headed(style, f, Header(style, f))
           /\ Len(Header(style, f)) = HeadLen(style, f)
<1>0. style \in {"codex", "git", "plain", "index"} /\ (f.bare => style = "git")
  BY FileType DEF Styles
<1> PICK c : c = FromTo(f)
  OBVIOUS
<1>1. c \in Seq(Line) /\ Len(c) = 2
  BY FromToType
<1>2. \A a, b \in Line :
         /\ <<a, b>> \o c \in Seq(Line) /\ Len(<<a, b>> \o c) = 4
         /\ (<<a, b>> \o c)[1] = a /\ (<<a, b>> \o c)[2] = b
         /\ (<<a, b>> \o c)[3] = c[1] /\ (<<a, b>> \o c)[4] = c[2]
  <2> SUFFICES ASSUME NEW a \in Line, NEW b \in Line
               PROVE  /\ <<a, b>> \o c \in Seq(Line) /\ Len(<<a, b>> \o c) = 4
                      /\ (<<a, b>> \o c)[1] = a /\ (<<a, b>> \o c)[2] = b
                      /\ (<<a, b>> \o c)[3] = c[1] /\ (<<a, b>> \o c)[4] = c[2]
    OBVIOUS
  <2>0. PICK u : u = <<a, b>>
    OBVIOUS
  <2>1. u \in Seq(Line) /\ Len(u) = 2 /\ u[1] = a /\ u[2] = b
    BY <2>0
  <2>2. /\ u \o c \in Seq(Line) /\ Len(u \o c) = 4
        /\ (u \o c)[1] = u[1] /\ (u \o c)[2] = u[2]
        /\ (u \o c)[3] = c[1] /\ (u \o c)[4] = c[2]
    <3>1. PICK v : v = u \o c
      OBVIOUS
    <3>2. /\ v \in Seq(Line) /\ Len(v) = 2 + 2
          /\ \A n \in 1..2 : v[n] = u[n]
          /\ \A n \in 1..2 : v[2 + n] = c[n]
      <4>1. /\ v \in Seq(Line) /\ Len(v) = Len(u) + Len(c)
            /\ \A n \in 1..Len(u) : v[n] = u[n]
            /\ \A n \in 1..Len(c) : v[Len(u) + n] = c[n]
        <5>1. u \in Seq(Line) /\ c \in Seq(Line)
          BY <1>1, <2>1
        <5> QED BY <3>1, <5>1, Joined
      <4> QED BY <1>1, <2>1, <4>1
    <3>3. v[2 + 1] = c[1] /\ v[2 + 2] = c[2]
      BY <3>2
    <3> QED BY <3>1, <3>2, <3>3
  <2> QED BY <2>0, <2>1, <2>2
<1>3. CASE style = "codex"
  <2>1. PICK a : a = LineOf(IF f.does = "delete" THEN "delete" ELSE "put", f.path)
    OBVIOUS
  <2>2. a \in Line
    BY <2>1, FileType, LineOfType DEF LineKinds, Stars
  <2>3. PICK h : h = <<a>>
    OBVIOUS
  <2>4. Header(style, f) = h
    BY <1>3, <2>1, <2>3 DEF Header
  <2>5. h \in Seq(Line) /\ Len(h) = 1 /\ h[1] = a
    BY <2>2, <2>3
  <2>6. Headed(style, f, h)
    BY <1>3, <2>1, <2>5 DEF Headed
  <2> QED BY <1>3, <2>4, <2>5, <2>6 DEF HeadLen
<1>4. CASE style = "git"
  <2>1. PICK a : a = [kind |-> "diff", old |-> f.from, new |-> f.path]
    OBVIOUS
  <2>2. PICK b : b = LineOf(GitMark(f), None)
    OBVIOUS
  <2>3. a \in Line
    BY <2>1, FileType DEF Line, LineKinds
  <2>4. b \in Line
    BY <2>2, FileType, LineOfType DEF LineKinds, GitMark
  <2>5. Header(style, f) = <<a, b>> \o (IF f.bare THEN <<>> ELSE c)
    BY <1>4, <2>1, <2>2 DEF Header
  <2>6. CASE f.bare
    <3>1. <<a, b>> \o <<>> = <<a, b>>
      BY <2>3, <2>4
    <3>2. PICK h : h = <<a, b>>
      OBVIOUS
    <3>3. Header(style, f) = h
      BY <2>5, <2>6, <3>1, <3>2
    <3>4. h \in Seq(Line) /\ Len(h) = 2 /\ h[1] = a /\ h[2] = b
      BY <2>3, <2>4, <3>2
    <3>5. Headed(style, f, h)
      BY <1>4, <2>1, <2>2, <2>6, <3>4 DEF Headed
    <3> QED BY <1>4, <2>6, <3>3, <3>4, <3>5 DEF HeadLen
  <2>7. CASE ~f.bare
    <3>1. Header(style, f) = <<a, b>> \o c
      BY <2>5, <2>7
    <3>2. PICK h : h = <<a, b>> \o c
      OBVIOUS
    <3>3. /\ h \in Seq(Line) /\ Len(h) = 4
          /\ h[1] = a /\ h[2] = b /\ h[3] = c[1] /\ h[4] = c[2]
      BY <1>2, <2>3, <2>4, <3>2
    <3>4. Headed(style, f, h)
      BY <1>4, <2>1, <2>2, <2>7, <3>3 DEF Headed
    <3> QED BY <1>4, <2>7, <3>1, <3>2, <3>3, <3>4 DEF HeadLen
  <2> QED BY <2>6, <2>7
<1>5. CASE style = "plain"
  <2>1. Header(style, f) = c
    BY <1>5 DEF Header
  <2>2. Headed(style, f, c)
    BY <1>1, <1>5 DEF Headed
  <2> QED BY <1>1, <1>5, <2>1, <2>2 DEF HeadLen
<1>6. CASE style = "index"
  <2>1. PICK a : a = LineOf("index", f.path)
    OBVIOUS
  <2>2. PICK b : b = LineOf("text", None)
    OBVIOUS
  <2>3. a \in Line /\ b \in Line
    BY <2>1, <2>2, FileType, LineOfType DEF LineKinds
  <2>4. PICK h : h = <<a, b>> \o c
    OBVIOUS
  <2>5. Header(style, f) = h
    BY <1>6, <2>1, <2>2, <2>4 DEF Header
  <2>6. /\ h \in Seq(Line) /\ Len(h) = 4
        /\ h[1] = a /\ h[2] = b /\ h[3] = c[1] /\ h[4] = c[2]
    BY <1>2, <2>3, <2>4
  <2>7. Headed(style, f, h)
    BY <1>6, <2>1, <2>2, <2>6 DEF Headed
  <2> QED BY <1>0, <1>6, <2>5, <2>6, <2>7 DEF HeadLen
<1> QED BY <1>0, <1>3, <1>4, <1>5, <1>6

(* The lines of a part.                                                    *)
LEMMA LinesType ==
    ASSUME NEW style \in Styles, NEW f \in ReadPart(style)
    PROVE  /\ Lines(style, f) \in Seq(Line) /\ Headed(style, f, Lines(style, f))
           /\ HeadLen(style, f) \in 1..Len(Lines(style, f))
           /\ \A n \in 1..Len(f.body) : Lines(style, f)[HeadLen(style, f) + n] = f.body[n]
           /\ Len(Lines(style, f)) = HeadLen(style, f) + Len(f.body)
<1> DEFINE s == Lines(style, f)
           h == Header(style, f)
           b == f.body
<1>1. h \in Seq(Line) /\ Headed(style, f, h) /\ Len(h) = HeadLen(style, f)
  BY HeaderType
<1>2. b \in Seq(Line)
  BY FileType
<1>3. s = h \o b
  BY DEF Lines
<1> HIDE DEF s, h, b
<1>4. /\ s \in Seq(Line) /\ Len(s) = Len(h) + Len(b) /\ Len(h) \in Nat /\ Len(b) \in Nat
      /\ \A n \in 1..Len(h) : s[n] = h[n]
      /\ \A n \in 1..Len(b) : s[Len(h) + n] = b[n]
  <2>1. h \in Seq(Line)
    BY <1>1
  <2> QED BY <1>2, <1>3, <2>1, Joined
<1>5. /\ Len(h) \in {1, 2, 4} /\ (style \in {"plain", "git", "index"} => Len(h) \in {2, 4})
      /\ style = "index" \/ (style = "git" /\ ~f.bare) => Len(h) = 4
  <2>1. f.bare => style = "git"
    BY FileType
  <2> QED BY <1>1, <2>1 DEF HeadLen
<1>6. /\ s[1] = h[1] /\ (Len(h) \in {2, 4} => s[2] = h[2])
      /\ Len(h) = 4 => s[3] = h[3] /\ s[4] = h[4]
  BY <1>4, <1>5
<1>7. Headed(style, f, s)
  <2>1. style \in {"codex", "git", "plain", "index"}
    BY DEF Styles
  <2>2. CASE style = "codex"
    BY <1>1, <1>6, <2>2 DEF Headed
  <2>3. CASE style = "git"
    BY <1>1, <1>5, <1>6, <2>3 DEF Headed
  <2>4. CASE style = "plain"
    BY <1>1, <1>5, <1>6, <2>4 DEF Headed
  <2>5. CASE style = "index"
    BY <1>1, <1>5, <1>6, <2>5 DEF Headed
  <2> QED BY <2>1, <2>2, <2>3, <2>4, <2>5
<1>8. Len(h) \in 1..Len(s)
  <2>1. Len(h) >= 1
    BY <1>5
  <2>2. Len(s) = Len(h) + Len(b) /\ Len(h) \in Nat /\ Len(b) \in Nat
    BY <1>4
  <2> QED BY <2>1, <2>2
<1>9. /\ s \in Seq(Line) /\ Headed(style, f, s)
      /\ HeadLen(style, f) \in 1..Len(s)
      /\ \A n \in 1..Len(b) : s[HeadLen(style, f) + n] = b[n]
      /\ Len(s) = HeadLen(style, f) + Len(b)
  BY <1>1, <1>4, <1>7, <1>8
<1> QED BY <1>9 DEF s, b

(* The kinds of lines a style has, and how its parts begin.                *)
KindsOf(style) ==
    CASE style = "codex" -> {"put", "delete", "text", "minus", "marker"}
      [] style = "git" -> {"diff", "fresh", "gone", "text", "minus", "plus"}
      [] style = "plain" -> {"minus", "plus", "text"}
      [] style = "index" -> {"index", "minus", "plus", "text"}

Begins(style) ==
    CASE style = "codex" -> {"put", "delete"} [] style = "git" -> {"diff"}
      [] style = "plain" -> {"minus"} [] style = "index" -> {"index"}

(* The lines of a part are of these kinds.                                 *)
LEMMA LinesKinds ==
    ASSUME NEW style \in Styles, NEW f \in ReadPart(style)
    PROVE  /\ \A n \in 1..Len(Lines(style, f)) : Lines(style, f)[n].kind \in KindsOf(style)
           /\ Lines(style, f)[1].kind \in Begins(style)
<1> DEFINE s == Lines(style, f)
           b == f.body
           H == HeadLen(style, f)
<1>0. style \in {"codex", "git", "plain", "index"} /\ (f.bare => style = "git")
  BY FileType DEF Styles
<1>1. /\ s \in Seq(Line) /\ Headed(style, f, s) /\ H \in 1..Len(s)
      /\ \A n \in 1..Len(b) : s[H + n] = b[n]
      /\ Len(s) = H + Len(b)
  BY LinesType
<1>2. \A n \in 1..Len(b) :
         b[n].kind \in {"text", "minus"} \/ (b[n].kind = "marker" /\ style = "codex")
  BY FileType
<1>3. FromTo(f)[1].kind = "minus" /\ FromTo(f)[2].kind = "plus"
  <2>1. \A k, p : LineOf(k, p).kind = k
    BY DEF LineOf
  <2> QED BY <2>1, FromToType
<1>4. Len(b) \in Nat /\ H = (IF style = "codex" THEN 1 ELSE IF style = "plain" \/ f.bare THEN 2 ELSE 4)
  BY FileType DEF HeadLen
<1> HIDE DEF s, b, H
<1>5. ASSUME NEW n \in 1..Len(s), n > H PROVE s[n].kind \in KindsOf(style)
  <2>1. n - H \in 1..Len(b) /\ H + (n - H) = n
    BY <1>1, <1>4, <1>5
  <2>2. s[n].kind \in {"text", "minus"} \/ (s[n].kind = "marker" /\ style = "codex")
    BY <1>1, <1>2, <2>1
  <2> QED BY <1>0, <2>2 DEF KindsOf
<1>6. GitMark(f) \in {"fresh", "gone", "text"}
  BY DEF GitMark
<1>7. ASSUME NEW n \in 1..H PROVE s[n].kind \in KindsOf(style)
  <2>1. CASE style = "codex"
    <3>1. n = 1 /\ s[1].kind \in {"put", "delete"}
      BY <1>1, <1>4, <2>1 DEF Headed, LineOf
    <3> QED BY <2>1, <3>1 DEF KindsOf
  <2>2. CASE style = "git"
    <3>1. /\ n \in {1, 2} \/ (~f.bare /\ n \in {3, 4})
      BY <1>4, <2>2
    <3>2. /\ s[1].kind = "diff" /\ s[2].kind \in {"fresh", "gone", "text"}
          /\ ~f.bare => s[3].kind = "minus" /\ s[4].kind = "plus"
      BY <1>1, <1>3, <1>6, <2>2 DEF Headed, LineOf
    <3> QED BY <2>2, <3>1, <3>2 DEF KindsOf
  <2>3. CASE style = "plain"
    <3>1. n \in {1, 2} /\ s[1].kind = "minus" /\ s[2].kind = "plus"
      BY <1>1, <1>3, <1>4, <2>3 DEF Headed
    <3> QED BY <2>3, <3>1 DEF KindsOf
  <2>4. CASE style = "index"
    <3>1. n \in {1, 2, 3, 4}
      BY <1>0, <1>4, <2>4
    <3>2. s[1].kind = "index" /\ s[2].kind = "text" /\ s[3].kind = "minus" /\ s[4].kind = "plus"
      BY <1>1, <1>3, <2>4 DEF Headed, LineOf
    <3> QED BY <2>4, <3>1, <3>2 DEF KindsOf
  <2> QED BY <1>0, <2>1, <2>2, <2>3, <2>4
<1>8. s[1].kind \in Begins(style)
  <2>1. CASE style = "codex"
    BY <1>1, <2>1 DEF Headed, LineOf, Begins
  <2>2. CASE style = "git"
    BY <1>1, <2>2 DEF Headed, Begins
  <2>3. CASE style = "plain"
    BY <1>1, <1>3, <2>3 DEF Headed, Begins
  <2>4. CASE style = "index"
    BY <1>1, <2>4 DEF Headed, LineOf, Begins
  <2> QED BY <1>0, <2>1, <2>2, <2>3, <2>4
<1>9. \A n \in 1..Len(s) : s[n].kind \in KindsOf(style)
  <2> SUFFICES ASSUME NEW n \in 1..Len(s) PROVE s[n].kind \in KindsOf(style)
    OBVIOUS
  <2>1. n > H \/ n \in 1..H
    BY <1>1
  <2> QED BY <1>5, <1>7, <2>1
<1> QED BY <1>8, <1>9 DEF s

(* A part comes apart from a text in the same style.                       *)
LEMMA PartApart ==
    ASSUME NEW style \in Styles, NEW f \in ReadPart(style), NEW t \in Seq(Line),
           \A n \in 1..Len(t) : t[n].kind \in KindsOf(style)
    PROVE  Apart(t, Lines(style, f))
<1>1. style \in {"codex", "git", "plain", "index"}
  BY DEF Styles
<1>2. PICK s : s = Lines(style, f)
  OBVIOUS
<1>3. s \in Seq(Line) /\ s # <<>> /\ s[1].kind \in Begins(style)
  <2>1. s \in Seq(Line) /\ Len(s) # 0 /\ s[1].kind \in Begins(style)
    BY <1>2, LinesType, LinesKinds
  <2> QED BY <2>1
<1>4. /\ "plus" \notin Begins(style)
      /\ "diff" \in KindsOf(style) => Begins(style) = {"diff"}
      /\ "index" \in KindsOf(style) => Begins(style) = {"index"}
  BY <1>1 DEF Begins, KindsOf
<1> QED BY <1>2, <1>3, <1>4 DEF Apart

(* The operation that stands for a part.                                   *)
MainOp(f) == [kind |-> WriteOrDelete(f.does = "delete"), path |-> f.path]

(* It is what the adapter makes of a kind and a path.                      *)
LEMMA MainOpType ==
    ASSUME NEW style \in Styles, NEW f \in ReadPart(style)
    PROVE  /\ MainOp(f) \in PatchOp /\ MainOp(f).path = f.path
           /\ f.does = "delete" => Op("FILE_DELETE", f.path) = <<MainOp(f)>>
           /\ f.does # "delete" => Op("FILE_WRITE", f.path) = <<MainOp(f)>>
           /\ Op(WriteOrDelete(f.does = "delete"), f.path) = <<MainOp(f)>>
<1>1. PICK k : k = WriteOrDelete(f.does = "delete")
  OBVIOUS
<1>2. /\ k \in {"FILE_WRITE", "FILE_DELETE"}
      /\ f.does = "delete" => k = "FILE_DELETE"
      /\ f.does # "delete" => k = "FILE_WRITE"
  BY <1>1 DEF WriteOrDelete
<1>3. f.path \in Paths /\ f.path # None /\ f.path \in Optional(Paths)
  BY FileType
<1>4. MainOp(f) = [kind |-> k, path |-> f.path]
  BY <1>1 DEF MainOp
<1>5. MainOp(f) \in PatchOp /\ MainOp(f).path = f.path
  BY <1>2, <1>3, <1>4 DEF PatchOp
<1>6. Op(k, f.path) = <<MainOp(f)>>
  BY <1>2, <1>3, <1>4, OpType
<1> QED BY <1>1, <1>2, <1>5, <1>6

(* The loop is at b where it was at a, and has found the operations X more. *)
Grown(a, b, X) ==
    /\ b \in Acc /\ ~b.second
    /\ \A o : Has(b.ops, o) <=> Has(a.ops, o) \/ o \in X

(* Reading a line that was not read with the one before it.                *)
LEMMA LineRead ==
    ASSUME NEW text \in Seq(Line), NEW n \in 1..Len(text), NEW a \in Acc, ~a.second
    PROVE  /\ ScanLine(a, text, n) \in Acc
           /\ ScanLine(a, text, n).second <=> Paired(text, n)
           /\ LineOps(text, n, a.ops) = <<>> => ScanLine(a, text, n).ops = a.ops
           /\ \A m \in PatchOp : LineOps(text, n, a.ops) = <<m>> =>
                \A o : Has(ScanLine(a, text, n).ops, o) <=> Has(a.ops, o) \/ o = m
<1>1. PICK x : x = LineOps(text, n, a.ops)
  OBVIOUS
<1>2. PICK p : p = Paired(text, n)
  OBVIOUS
<1>3. PICK b : b = ScanLine(a, text, n)
  OBVIOUS
<1>4. x \in Seq(PatchOp) /\ p \in BOOLEAN /\ a.ops \in Seq(PatchOp)
  BY <1>1, <1>2, LineOpsType DEF Paired, Acc
<1>5. b = [ops |-> a.ops \o x, second |-> p]
  BY <1>1, <1>2, <1>3 DEF ScanLine
<1>6. b \in Acc /\ b.ops = a.ops \o x /\ b.second = p
  <2>1. a.ops \o x \in Seq(PatchOp)
    BY <1>4
  <2> QED BY <1>4, <1>5, <2>1 DEF Acc
<1>7. ASSUME x = <<>> PROVE b.ops = a.ops
  BY <1>4, <1>6, <1>7
<1>8. ASSUME NEW m \in PatchOp, x = <<m>>
      PROVE  \A o : Has(b.ops, o) <=> Has(a.ops, o) \/ o = m
  <2>1. \A o : Has(x, o) <=> o = m
    BY <1>8 DEF Has
  <2>2. \A o : Has(a.ops \o x, o) <=> Has(a.ops, o) \/ Has(x, o)
    BY <1>4, ConcatHas
  <2> QED BY <1>6, <2>1, <2>2
<1>9. b.second <=> Paired(text, n)
  BY <1>2, <1>4, <1>6
<1> QED BY <1>1, <1>3, <1>6, <1>7, <1>8, <1>9

(* Lines that tell of no operation.                                        *)
LEMMA QuietRead ==
    ASSUME NEW text \in Seq(Line), NEW n \in 1..Len(text), NEW a \in Acc, ~a.second,
           text[n].kind \in {"text", "marker", "fresh", "gone", "minus"}, ~Paired(text, n)
    PROVE  Grown(a, ScanLine(a, text, n), {})
<1>1. LineOps(text, n, a.ops) = <<>>
  BY DEF LineOps
<1>2. PICK b : b = ScanLine(a, text, n)
  OBVIOUS
<1>3. b \in Acc /\ ~b.second /\ b.ops = a.ops
  BY <1>1, <1>2, LineRead
<1> QED BY <1>2, <1>3 DEF Grown

(* A line that tells of the operation m.                                   *)
LEMMA OpRead ==
    ASSUME NEW text \in Seq(Line), NEW n \in 1..Len(text), NEW a \in Acc, ~a.second,
           NEW m \in PatchOp, LineOps(text, n, a.ops) = <<m>>, ~Paired(text, n)
    PROVE  Grown(a, ScanLine(a, text, n), {m})
<1>1. PICK b : b = ScanLine(a, text, n)
  OBVIOUS
<1>2. b \in Acc /\ ~b.second /\ \A o : Has(b.ops, o) <=> Has(a.ops, o) \/ o = m
  BY <1>1, LineRead
<1> QED BY <1>1, <1>2 DEF Grown

(* Reading the --- and the +++ line of a part finds its operation and      *)
(* nothing else, if no other operation is about its path.                  *)
LEMMA FromToRead ==
    ASSUME NEW style \in Styles, NEW f \in ReadPart(style), NEW text \in Seq(Line),
           NEW n \in 1..Len(text), n + 1 <= Len(text),
           text[n] = FromTo(f)[1], text[n + 1] = FromTo(f)[2],
           NEW a \in Acc, ~a.second,
           Has(a.ops, MainOp(f)) \/ \A o : Has(a.ops, o) => o.path # f.path
    PROVE  Grown(a, ScanLine(ScanLine(a, text, n), text, n + 1), {MainOp(f)})
<1> DEFINE m == MainOp(f)
<1>1. PICK b : b = ScanLine(a, text, n)
  OBVIOUS
<1>2. PICK c : c = ScanLine(b, text, n + 1)
  OBVIOUS
<1>3. /\ f.from # None /\ f.path # None /\ (f.does = "delete" => f.from = f.path)
      /\ m \in PatchOp /\ m.path = f.path
      /\ f.does = "delete" => Op("FILE_DELETE", f.path) = <<m>>
      /\ f.does # "delete" => Op("FILE_WRITE", f.path) = <<m>>
  BY FileType, MainOpType
<1>4. /\ text[n].kind = "minus" /\ text[n + 1].kind = "plus"
      /\ text[n].new = IF f.does = "create" THEN None ELSE f.from
      /\ text[n + 1].new = IF f.does = "delete" THEN None ELSE f.path
  <2>1. \A k, p : LineOf(k, p).kind = k /\ LineOf(k, p).new = p
    BY DEF LineOf
  <2> QED BY <2>1, FromToType
<1>5. n + 1 \in 1..Len(text) /\ n < Len(text)
  OBVIOUS
<1> HIDE DEF m
<1>6. CASE f.does \in {"create", "delete"}
  <2>1. Paired(text, n)
    BY <1>4, <1>5, <1>6 DEF Paired
  <2>2. LineOps(text, n, a.ops) = <<m>>
    <3>1. CASE f.does = "create"
      BY <1>3, <1>4, <2>1, <3>1 DEF LineOps, FromNull
    <3>2. CASE f.does = "delete"
      BY <1>3, <1>4, <2>1, <3>2 DEF LineOps, FromNull
    <3> QED BY <1>6, <3>1, <3>2
  <2>3. b \in Acc /\ b.second /\ \A o : Has(b.ops, o) <=> Has(a.ops, o) \/ o = m
    BY <1>1, <1>3, <2>1, <2>2, LineRead
  <2>4. c \in Acc /\ ~c.second /\ c.ops = b.ops
    <3>1. c = [b EXCEPT !.second = FALSE]
      BY <1>2, <2>3 DEF ScanLine
    <3> QED BY <2>3, <3>1 DEF Acc
  <2> QED BY <1>1, <1>2, <2>3, <2>4 DEF Grown, m
<1>7. CASE f.does \notin {"create", "delete"}
  <2>1. ~Paired(text, n) /\ ~Paired(text, n + 1)
    BY <1>3, <1>4, <1>7 DEF Paired
  <2>2. Grown(a, b, {})
    BY <1>1, <1>4, <2>1, QuietRead
  <2>3. b \in Acc /\ ~b.second /\ \A o : Has(b.ops, o) <=> Has(a.ops, o)
    BY <2>2 DEF Grown
  <2>4. DOMAIN b.ops = 1..Len(b.ops)
    BY <2>3 DEF Acc
  <2>5. CASE \A i \in DOMAIN b.ops : b.ops[i].path # f.path
    <3>1. LineOps(text, n + 1, b.ops) = <<m>>
      BY <1>3, <1>4, <1>7, <2>1, <2>5 DEF LineOps
    <3>2. Grown(b, c, {m})
      BY <1>2, <1>3, <1>5, <2>1, <2>3, <3>1, OpRead
    <3> QED BY <1>1, <1>2, <2>3, <3>2 DEF Grown, m
  <2>6. CASE ~\A i \in DOMAIN b.ops : b.ops[i].path # f.path
    <3>1. LineOps(text, n + 1, b.ops) = <<>>
      BY <1>3, <1>4, <1>7, <2>1, <2>6 DEF LineOps
    <3>2. c \in Acc /\ ~c.second /\ c.ops = b.ops
      BY <1>2, <1>5, <2>1, <2>3, <3>1, LineRead
    <3>3. Has(a.ops, m)
      <4>1. PICK i \in DOMAIN b.ops : b.ops[i].path = f.path
        BY <2>6
      <4>2. Has(b.ops, b.ops[i])
        BY <2>4, <4>1 DEF Has
      <4>3. ~\A o : Has(a.ops, o) => o.path # f.path
        BY <2>3, <4>1, <4>2
      <4> QED BY <4>3 DEF m
    <3>4. \A o : Has(c.ops, o) <=> Has(a.ops, o) \/ o \in {m}
      BY <2>3, <3>2, <3>3
    <3> QED BY <1>1, <1>2, <3>2, <3>4 DEF Grown, m
  <2> QED BY <2>5, <2>6
<1> QED BY <1>6, <1>7

(* What a diff line and an Index line tell of their part.                  *)
LEMMA GitRead ==
    ASSUME NEW f \in ReadPart("git"), NEW u \in Seq(Line), NEW c \in 1..Len(u), c + 1 <= Len(u),
           u[c] = [kind |-> "diff", old |-> f.from, new |-> f.path],
           u[c + 1] = LineOf(GitMark(f), None),
           \A i \in (c + 2)..Len(u) :
              u[i].kind # "gone" /\ (f.does # "delete" => ~ToNull(u[i]))
    PROVE  GitOp(u, c) = <<MainOp(f)>>
<1> DEFINE deletions == {i \in GitBlock(u, c) : u[i].kind = "gone" \/ ToNull(u[i])}
           creations == {i \in GitBlock(u, c) : u[i].kind = "fresh" \/ FromNull(u[i])}
           deletedLast == \E i \in deletions : \A j \in creations : j < i
<1>1. "git" \in Styles /\ Len(u) \in Nat
  BY DEF Styles
<1>2. /\ f.from # None /\ f.path # None /\ (f.does = "delete" => f.from = f.path)
      /\ Op(WriteOrDelete(f.does = "delete"), f.path) = <<MainOp(f)>>
  BY <1>1, FileType, MainOpType
<1>3. u[c].old = f.from /\ u[c].new = f.path /\ u[c + 1].kind = GitMark(f) /\ u[c + 1].new = None
  BY DEF LineOf
<1>4. GitOp(u, c) = Op(WriteOrDelete(deletions # {}),
                       IF deletedLast THEN Or(u[c].old, u[c].new) ELSE Or(u[c].new, u[c].old))
  BY DEF GitOp
<1>5. CASE f.does = "delete"
  <2>1. c + 1 \in deletions
    <3>1. GitMark(f) = "gone"
      BY <1>5 DEF GitMark
    <3>2. c + 1 \in (c + 1)..Len(u) /\ \A j \in (c + 1)..(c + 1) : j = c + 1
      BY <1>1
    <3>3. u[c + 1].kind \notin Stars \cup {"diff"}
      BY <1>3, <3>1 DEF Stars
    <3> QED BY <1>3, <3>1, <3>2, <3>3 DEF GitBlock
  <2>2. (deletions # {}) = (f.does = "delete")
    BY <1>5, <2>1
  <2>3. Or(u[c].old, u[c].new) = f.path /\ Or(u[c].new, u[c].old) = f.path
    BY <1>2, <1>3, <1>5 DEF Or
  <2> HIDE DEF deletions, deletedLast
  <2> QED BY <1>2, <1>4, <2>2, <2>3
<1>6. CASE f.does # "delete"
  <2>1. deletions = {}
    <3> SUFFICES ASSUME NEW i \in deletions PROVE FALSE
      OBVIOUS
    <3>1. i \in (c + 1)..Len(u) /\ (u[i].kind = "gone" \/ ToNull(u[i]))
      BY DEF GitBlock
    <3>2. i = c + 1 \/ i \in (c + 2)..Len(u)
      BY <1>1, <3>1
    <3>3. i = c + 1
      BY <1>6, <3>1, <3>2
    <3>4. u[c + 1].kind \notin {"gone", "plus"}
      BY <1>3, <1>6 DEF GitMark
    <3> QED BY <3>1, <3>3, <3>4 DEF ToNull
  <2>2. ~deletedLast
    BY <2>1
  <2>3. (deletions # {}) = (f.does = "delete")
    BY <1>6, <2>1
  <2>4. Or(u[c].new, u[c].old) = f.path
    BY <1>2, <1>3 DEF Or
  <2> HIDE DEF deletions, deletedLast
  <2> QED BY <1>2, <1>4, <2>2, <2>3, <2>4
<1> QED BY <1>5, <1>6

LEMMA IndexRead ==
    ASSUME NEW f \in ReadPart("index"), NEW u \in Seq(Line), NEW c \in 1..Len(u), c + 3 <= Len(u),
           u[c] = LineOf("index", f.path), u[c + 1] = LineOf("text", None),
           u[c + 2] = FromTo(f)[1], u[c + 3] = FromTo(f)[2],
           \A i \in (c + 4)..Len(u) : u[i].kind # "plus"
    PROVE  IndexOp(u, c) = <<MainOp(f)>>
<1> DEFINE after == {i \in (c + 1)..Min({Len(u), c + 4}) :
                        \A j \in (c + 1)..i : u[j].kind # "index"}
<1>1. "index" \in Styles /\ Len(u) \in Nat /\ c + 4 \in Nat
  BY DEF Styles
<1>2. /\ f.path # None /\ Op(WriteOrDelete(f.does = "delete"), f.path) = <<MainOp(f)>>
  BY <1>1, FileType, MainOpType
<1>3. /\ u[c].new = f.path /\ u[c + 1].kind = "text"
      /\ u[c + 2].kind = "minus" /\ u[c + 3].kind = "plus"
      /\ u[c + 3].new = IF f.does = "delete" THEN None ELSE f.path
  <2>1. \A k, p : LineOf(k, p).kind = k /\ LineOf(k, p).new = p
    BY DEF LineOf
  <2> QED BY <1>1, <2>1, FromToType
<1>4. \A i : i \in (c + 1)..Min({Len(u), c + 4}) <=> i \in (c + 1)..Len(u) /\ i <= c + 4
  <2>1. Min({Len(u), c + 4}) = IF Len(u) <= c + 4 THEN Len(u) ELSE c + 4
    BY <1>1, MinOfTwo
  <2> QED BY <1>1, <2>1
<1>5. IndexOp(u, c) = Op(WriteOrDelete(\E i \in after : ToNull(u[i])), u[c].new)
  BY DEF IndexOp
<1>6. ASSUME f.does = "delete" PROVE \E i \in after : ToNull(u[i])
  <2>1. /\ c + 3 \in (c + 1)..Min({Len(u), c + 4})
    <3>1. c + 3 \in (c + 1)..Len(u) /\ c + 3 <= c + 4
      BY <1>1
    <3> QED BY <1>4, <3>1
  <2>2. \A j \in (c + 1)..(c + 3) : j \in {c + 1, c + 2, c + 3}
    BY <1>1
  <2>3. \A j \in (c + 1)..(c + 3) : u[j].kind # "index"
    BY <1>3, <2>2
  <2>4. c + 3 \in after
    BY <2>1, <2>3
  <2> QED BY <1>3, <1>6, <2>4 DEF ToNull
<1>7. ASSUME NEW i \in after, ToNull(u[i]) PROVE f.does = "delete"
  <2>1. i \in (c + 1)..Len(u) /\ u[i].kind = "plus" /\ u[i].new = None
    BY <1>4, <1>7 DEF ToNull
  <2>2. i \in {c + 1, c + 2, c + 3} \/ i \in (c + 4)..Len(u)
    BY <1>1, <2>1
  <2>3. i = c + 3
    BY <1>3, <2>1, <2>2
  <2> QED BY <1>2, <1>3, <2>1, <2>3
<1>8. (\E i \in after : ToNull(u[i])) = (f.does = "delete")
  BY <1>6, <1>7
<1> HIDE DEF after
<1> QED BY <1>2, <1>3, <1>5, <1>8

(* The lines after the header find nothing.                                *)
LEMMA BodyRead ==
    ASSUME NEW u \in Seq(Line), NEW H \in 0..Len(u), ~Scan(u)[H].second,
           \A n \in (H + 1)..Len(u) : u[n].kind \in {"text", "minus", "marker"}
    PROVE  Grown(Scan(u)[H], Scan(u)[Len(u)], {})
<1> DEFINE F == Scan(u)
           S == {n \in 0..Len(u) : n >= H => Grown(F[H], F[n], {})}
<1>1. /\ Len(u) \in Nat
      /\ \A n \in 1..Len(u) : F[n] = ScanLine(F[n-1], u, n)
      /\ \A n \in 0..Len(u) : F[n] \in Acc
  BY ScanSteps
<1>2. Grown(F[H], F[H], {})
  BY <1>1 DEF Grown
<1> HIDE DEF F
<1>3. 0 \in S
  <2>1. 0 >= H => H = 0
    BY <1>1
  <2> QED BY <1>1, <1>2, <2>1
<1>4. ASSUME NEW n \in 1..Len(u), n - 1 \in S PROVE n \in S
  <2>1. n \in 0..Len(u)
    BY <1>1
  <2>2. CASE n <= H
    <3>1. n >= H => n = H
      BY <1>1, <2>2
    <3> QED BY <1>2, <2>1, <3>1
  <2>3. CASE ~(n <= H)
    <3>1. n - 1 >= H /\ n \in (H + 1)..Len(u)
      BY <1>1, <2>3
    <3>2. PICK a : a = F[n-1]
      OBVIOUS
    <3>3. Grown(F[H], a, {})
      BY <1>4, <3>1, <3>2
    <3>4. a \in Acc /\ ~a.second
      BY <3>3 DEF Grown
    <3>5. u[n].kind \in {"text", "minus", "marker"}
      BY <3>1
    <3>6. ~Paired(u, n)
      <4>1. ASSUME n < Len(u) PROVE u[n + 1].kind # "plus"
        <5>1. n + 1 \in (H + 1)..Len(u)
          BY <1>1, <3>1, <4>1
        <5> QED BY <5>1
      <4> QED BY <4>1 DEF Paired
    <3>7. Grown(a, ScanLine(a, u, n), {})
      BY <3>4, <3>5, <3>6, QuietRead
    <3>8. Grown(a, F[n], {})
      BY <1>1, <3>2, <3>7
    <3>9. Grown(F[H], F[n], {})
      BY <3>3, <3>8 DEF Grown
    <3> QED BY <2>1, <3>9
  <2> QED BY <2>2, <2>3
<1>5. Len(u) \in S
  <2> HIDE DEF S
  <2> QED BY <1>1, <1>3, <1>4, Stepwise
<1>6. Grown(F[H], F[Len(u)], {})
  BY <1>1, <1>5
<1> QED BY <1>6 DEF F

(* Grown twice.                                                            *)
LEMMA GrownOn ==
    ASSUME NEW a, NEW b, NEW c, NEW X, NEW Y, Grown(a, b, X), Grown(b, c, Y)
    PROVE  Grown(a, c, X \cup Y)
BY DEF Grown

(* A part after a text adds its operation, if the text has none about the  *)
(* path.                                                                   *)
LEMMA PartRead ==
    ASSUME NEW style \in Styles, NEW f \in ReadPart(style), NEW t \in Seq(Line),
           Apart(t, Lines(style, f)), ~Scan(t)[Len(t)].second,
           \A o : Has(Scan(t)[Len(t)].ops, o) => o.path # f.path
    PROVE  Grown(Scan(t)[Len(t)],
                 Scan(t \o Lines(style, f))[Len(t \o Lines(style, f))], {MainOp(f)})
<1>1. PICK s : s = Lines(style, f)
  OBVIOUS
<1>2. PICK u : u = t \o s
  OBVIOUS
<1>3. PICK H : H = HeadLen(style, f)
  OBVIOUS
<1>4. PICK L : L = Len(t)
  OBVIOUS
<1>5. PICK F : F = Scan(u)
  OBVIOUS
<1>6. PICK a : a = Scan(t)[L]
  OBVIOUS
<1>7. PICK m : m = MainOp(f)
  OBVIOUS
<1>8. /\ s \in Seq(Line) /\ Headed(style, f, s) /\ H \in 1..Len(s)
      /\ \A n \in 1..Len(f.body) : s[H + n] = f.body[n]
      /\ Len(s) = H + Len(f.body)
  BY <1>1, <1>3, LinesType
<1>9. /\ u \in Seq(Line) /\ Len(u) = L + Len(s) /\ L \in Nat /\ Len(s) \in Nat
      /\ \A n \in 1..Len(s) : u[L + n] = s[n]
  <2>1. s \in Seq(Line)
    BY <1>8
  <2> QED BY <1>2, <1>4, <2>1, Joined
<1>10. F[L] = a
  BY <1>1, <1>2, <1>4, <1>5, <1>6, <1>8, ScanPrefix
<1>11. /\ \A n \in 1..Len(u) : F[n] = ScanLine(F[n-1], u, n)
       /\ \A n \in 0..Len(u) : F[n] \in Acc
  BY <1>5, <1>9, ScanSteps
<1>12. /\ a \in Acc /\ ~a.second /\ \A o : Has(a.ops, o) => o.path # f.path
  <2>1. L \in 0..Len(u)
    BY <1>9
  <2> QED BY <1>4, <1>6, <1>10, <1>11, <2>1
<1>13. ASSUME NEW n \in (L + H + 1)..Len(u) PROVE u[n].kind \in {"text", "minus", "marker"}
  <2>1. f.body \in Seq(Line) /\ \A i \in 1..Len(f.body) : f.body[i].kind \in {"text", "minus", "marker"}
    BY FileType
  <2>2. PICK i : i = n - L - H
    OBVIOUS
  <2>3. i \in 1..Len(f.body) /\ H + i \in 1..Len(s) /\ L + (H + i) = n
    <3>1. PICK K : K = Len(f.body)
      OBVIOUS
    <3>2. K \in Nat /\ H \in 1..Len(s) /\ Len(s) = H + K /\ L \in Nat /\ Len(u) = L + Len(s)
      BY <1>8, <1>9, <2>1, <3>1
    <3>3. i \in 1..K
      BY <2>2, <3>2
    <3>4. H + i \in 1..Len(s) /\ L + (H + i) = n
      BY <2>2, <3>2, <3>3
    <3> QED BY <3>1, <3>3, <3>4
  <2>4. u[n] = f.body[i]
    BY <1>8, <1>9, <2>3
  <2> QED BY <2>1, <2>3, <2>4
<1>14. m \in PatchOp
  BY <1>7, MainOpType
<1>15. /\ style \in {"codex", "git", "plain", "index"} /\ (f.bare => style = "git")
       /\ H = (IF style = "codex" THEN 1 ELSE IF style = "plain" \/ f.bare THEN 2 ELSE 4)
  BY <1>3, FileType DEF Styles, HeadLen
<1>16. /\ FromTo(f)[1].kind = "minus" /\ FromTo(f)[2].kind = "plus"
       /\ FromTo(f)[2].new = IF f.does = "delete" THEN None ELSE f.path
       /\ \A k, p : LineOf(k, p).kind = k /\ LineOf(k, p).new = p
  <2>1. \A k, p : LineOf(k, p).kind = k /\ LineOf(k, p).new = p
    BY DEF LineOf
  <2> QED BY <2>1, FromToType
<1>17. f.path # None
  BY FileType
<1>18. Grown(a, F[L + H], {m})
  <2>1. CASE style = "codex"
    <3>1. H = 1 /\ L + 1 \in 1..Len(u) /\ (L + 1) - 1 = L
      BY <1>8, <1>9, <1>15, <2>1
    <3>2. u[L + 1] = LineOf(IF f.does = "delete" THEN "delete" ELSE "put", f.path)
      BY <1>8, <1>9, <2>1, <3>1 DEF Headed
    <3>3. ~Paired(u, L + 1)
      BY <1>16, <3>2 DEF Paired
    <3>4. LineOps(u, L + 1, a.ops) = <<m>>
      <4>0. /\ u[L + 1].kind = (IF f.does = "delete" THEN "delete" ELSE "put")
            /\ u[L + 1].new = f.path
        BY <1>16, <3>2
      <4>1. /\ f.does = "delete" => Op("FILE_DELETE", f.path) = <<m>>
            /\ f.does # "delete" => Op("FILE_WRITE", f.path) = <<m>>
        BY <1>7, MainOpType
      <4>2. CASE f.does = "delete"
        <5>1. u[L + 1].kind = "delete"
          BY <4>0, <4>2
        <5>2. LineOps(u, L + 1, a.ops) = Op("FILE_DELETE", u[L + 1].new)
          BY <3>3, <5>1 DEF LineOps
        <5> QED BY <4>0, <4>1, <4>2, <5>2
      <4>3. CASE f.does # "delete"
        <5>1. u[L + 1].kind = "put"
          BY <4>0, <4>3
        <5>2. LineOps(u, L + 1, a.ops) = Op("FILE_WRITE", u[L + 1].new)
          BY <3>3, <5>1 DEF LineOps
        <5> QED BY <4>0, <4>1, <4>3, <5>2
      <4> QED BY <4>2, <4>3
    <3>5. Grown(a, ScanLine(a, u, L + 1), {m})
      BY <1>9, <1>12, <1>14, <3>1, <3>3, <3>4, OpRead
    <3> QED BY <1>10, <1>11, <3>1, <3>5
  <2>2. CASE style = "plain"
    <3>1. H = 2 /\ L + 1 \in 1..Len(u) /\ L + 2 \in 1..Len(u) /\ (L + 1) + 1 <= Len(u)
      BY <1>8, <1>9, <1>15, <2>2
    <3>2. u[L + 1] = FromTo(f)[1] /\ u[(L + 1) + 1] = FromTo(f)[2]
      <4>1. (L + 1) + 1 = L + 2 /\ 1 \in 1..Len(s) /\ 2 \in 1..Len(s)
        BY <1>8, <1>9, <3>1
      <4> QED BY <1>8, <1>9, <2>2, <4>1 DEF Headed
    <3>3. Grown(a, ScanLine(ScanLine(a, u, L + 1), u, (L + 1) + 1), {m})
      BY <1>7, <1>9, <1>12, <3>1, <3>2, FromToRead
    <3>4. /\ (L + 1) - 1 = L /\ (L + 2) - 1 = L + 1 /\ (L + 1) + 1 = L + 2
      BY <1>9
    <3>5. F[L + 1] = ScanLine(a, u, L + 1) /\ F[L + 2] = ScanLine(F[L + 1], u, L + 2)
      BY <1>10, <1>11, <3>1, <3>4
    <3> QED BY <3>1, <3>3, <3>4, <3>5
  <2>3. ASSUME H = 4, Grown(a, F[L + 2], {m}), s[3] = FromTo(f)[1], s[4] = FromTo(f)[2]
        PROVE  Grown(a, F[L + H], {m})
    <3>1. /\ L + 3 \in 1..Len(u) /\ (L + 3) + 1 <= Len(u) /\ 3 \in 1..Len(s) /\ 4 \in 1..Len(s)
          /\ (L + 3) - 1 = L + 2 /\ (L + 4) - 1 = L + 3 /\ (L + 3) + 1 = L + 4
          /\ L + 4 \in 1..Len(u)
      BY <1>8, <1>9, <2>3
    <3>2. u[L + 3] = FromTo(f)[1] /\ u[(L + 3) + 1] = FromTo(f)[2]
      BY <1>9, <2>3, <3>1
    <3>3. PICK b : b = F[L + 2]
      OBVIOUS
    <3>4. b \in Acc /\ ~b.second /\ Has(b.ops, m) /\ Grown(a, b, {m})
      BY <2>3, <3>3 DEF Grown
    <3>5. Grown(b, ScanLine(ScanLine(b, u, L + 3), u, (L + 3) + 1), {m})
      BY <1>7, <1>9, <3>1, <3>2, <3>4, FromToRead
    <3>6. F[L + 3] = ScanLine(b, u, L + 3) /\ F[L + 4] = ScanLine(F[L + 3], u, L + 4)
      BY <1>11, <3>1, <3>3
    <3>7. Grown(b, F[L + 4], {m})
      BY <3>1, <3>5, <3>6
    <3>8. Grown(a, F[L + 4], {m} \cup {m})
      BY <3>4, <3>7, GrownOn
    <3> QED BY <2>3, <3>8
  <2>4. ASSUME H \in {2, 4}, LineOps(u, L + 1, a.ops) = <<m>>, ~Paired(u, L + 1),
               u[L + 2].kind \in {"text", "fresh", "gone"}
        PROVE  Grown(a, F[L + 2], {m})
    <3>1. /\ L + 1 \in 1..Len(u) /\ L + 2 \in 1..Len(u)
          /\ (L + 1) - 1 = L /\ (L + 2) - 1 = L + 1
      BY <1>8, <1>9, <2>4
    <3>2. PICK b : b = F[L + 1]
      OBVIOUS
    <3>3. b = ScanLine(a, u, L + 1) /\ F[L + 2] = ScanLine(b, u, L + 2)
      BY <1>10, <1>11, <3>1, <3>2
    <3>4. Grown(a, b, {m})
      BY <1>9, <1>12, <1>14, <2>4, <3>1, <3>3, OpRead
    <3>5. ~Paired(u, L + 2)
      BY <2>4 DEF Paired
    <3>6. b \in Acc /\ ~b.second
      BY <3>4 DEF Grown
    <3>7. Grown(b, F[L + 2], {})
      BY <1>9, <2>4, <3>1, <3>3, <3>5, <3>6, QuietRead
    <3>8. Grown(a, F[L + 2], {m} \cup {})
      BY <3>4, <3>7, GrownOn
    <3> QED BY <3>8
  <2>5. CASE style = "git"
    <3>1. H \in {2, 4} /\ (f.bare <=> H = 2)
      BY <1>15, <2>5, FileType
    <3>2. /\ L + 1 \in 1..Len(u) /\ (L + 1) + 1 <= Len(u) /\ (L + 1) + 1 = L + 2
          /\ 1 \in 1..Len(s) /\ 2 \in 1..Len(s) /\ H <= Len(s)
      BY <1>8, <1>9, <3>1
    <3>3. /\ u[L + 1] = [kind |-> "diff", old |-> f.from, new |-> f.path]
          /\ u[(L + 1) + 1] = LineOf(GitMark(f), None)
      BY <1>8, <1>9, <2>5, <3>2 DEF Headed
    <3>4. ASSUME H = 4 PROVE s[3] = FromTo(f)[1] /\ s[4] = FromTo(f)[2]
      BY <1>8, <2>5, <3>1, <3>4 DEF Headed
    <3>5. ASSUME NEW i \in ((L + 1) + 2)..Len(u)
          PROVE  u[i].kind # "gone" /\ (f.does # "delete" => ~ToNull(u[i]))
      <4>1. CASE i \in (L + H + 1)..Len(u)
        BY <1>13, <4>1 DEF ToNull
      <4>2. CASE i \notin (L + H + 1)..Len(u)
        <5>1. H = 4 /\ i \in {L + 3, L + 4} /\ 3 \in 1..Len(s) /\ 4 \in 1..Len(s)
          BY <1>9, <3>1, <3>2, <4>2
        <5>2. u[i] = FromTo(f)[1] \/ u[i] = FromTo(f)[2]
          BY <1>9, <3>4, <5>1
        <5> QED BY <1>16, <1>17, <5>2 DEF ToNull
      <4> QED BY <4>1, <4>2
    <3>6. GitOp(u, L + 1) = <<m>>
      <4>1. f \in ReadPart("git")
        BY <2>5
      <4> QED BY <1>7, <1>9, <3>2, <3>3, <3>5, <4>1, GitRead
    <3>7. u[L + 1].kind = "diff"
      BY <3>3
    <3>8. LineOps(u, L + 1, a.ops) = <<m>> /\ ~Paired(u, L + 1)
      BY <3>6, <3>7 DEF LineOps, Paired
    <3>9. u[L + 2].kind \in {"text", "fresh", "gone"}
      BY <1>16, <3>2, <3>3 DEF GitMark
    <3>10. Grown(a, F[L + 2], {m})
      BY <2>4, <3>1, <3>8, <3>9
    <3> QED BY <2>3, <3>1, <3>4, <3>10
  <2>6. CASE style = "index"
    <3>1. H = 4
      BY <1>15, <2>6
    <3>2. /\ L + 1 \in 1..Len(u) /\ (L + 1) + 3 <= Len(u)
          /\ (L + 1) + 1 = L + 2 /\ (L + 1) + 2 = L + 3 /\ (L + 1) + 3 = L + 4
          /\ 1 \in 1..Len(s) /\ 2 \in 1..Len(s) /\ 3 \in 1..Len(s) /\ 4 \in 1..Len(s)
      BY <1>8, <1>9, <3>1
    <3>3. s[3] = FromTo(f)[1] /\ s[4] = FromTo(f)[2]
      BY <1>8, <2>6 DEF Headed
    <3>4. /\ u[L + 1] = LineOf("index", f.path) /\ u[(L + 1) + 1] = LineOf("text", None)
          /\ u[(L + 1) + 2] = FromTo(f)[1] /\ u[(L + 1) + 3] = FromTo(f)[2]
      BY <1>8, <1>9, <2>6, <3>2, <3>3 DEF Headed
    <3>5. \A i \in ((L + 1) + 4)..Len(u) : u[i].kind # "plus"
      <4>1. (L + 1) + 4 = L + H + 1
        BY <1>9, <3>1
      <4> QED BY <1>13, <4>1
    <3>6. IndexOp(u, L + 1) = <<m>>
      <4>1. f \in ReadPart("index")
        BY <2>6
      <4> QED BY <1>7, <1>9, <3>2, <3>4, <3>5, <4>1, IndexRead
    <3>7. u[L + 1].kind = "index" /\ u[L + 2].kind = "text"
      BY <1>16, <3>2, <3>4
    <3>8. LineOps(u, L + 1, a.ops) = <<m>> /\ ~Paired(u, L + 1)
      BY <3>6, <3>7 DEF LineOps, Paired
    <3>9. Grown(a, F[L + 2], {m})
      BY <2>4, <3>1, <3>7, <3>8
    <3> QED BY <2>3, <3>1, <3>3, <3>9
  <2> QED BY <1>15, <2>1, <2>2, <2>5, <2>6
<1>19. Grown(F[L + H], F[Len(u)], {})
  <2>1. L + H \in 0..Len(u)
    BY <1>8, <1>9
  <2>2. PICK K : K = L + H
    OBVIOUS
  <2>3. ~Scan(u)[K].second
    BY <1>5, <1>18, <2>2 DEF Grown
  <2> QED BY <1>5, <1>9, <1>13, <2>1, <2>2, <2>3, BodyRead
<1>20. Grown(a, F[Len(u)], {m} \cup {})
  BY <1>18, <1>19, GrownOn
<1> QED BY <1>1, <1>2, <1>4, <1>5, <1>6, <1>7, <1>20

(* What holds of the empty sequence and is kept by appending holds of all. *)
LEMMA SequencesStepwise ==
    ASSUME NEW T, NEW P, <<>> \in P,
           \A t \in Seq(T), x \in T : t \in P => Append(t, x) \in P
    PROVE  Seq(T) \subseteq P
<1> SUFFICES ASSUME NEW s \in Seq(T) PROVE s \in P
  OBVIOUS
<1> DEFINE S == {n \in 0..Len(s) : SubSeq(s, 1, n) \in P}
<1>1. Len(s) \in Nat /\ s = SubSeq(s, 1, Len(s)) /\ SubSeq(s, 1, 0) = <<>>
  <2>1. SubSeq(s, 1, 0) = <<>>
    BY SubSeqEmpty
  <2> QED BY <2>1, SubSeqFull
<1>2. 0 \in S
  <2>1. 0 \in 0..Len(s)
    OBVIOUS
  <2>2. SubSeq(s, 1, 0) \in P
    BY <1>1
  <2> QED BY <2>1, <2>2
<1>3. ASSUME NEW n \in 1..Len(s), n - 1 \in S PROVE n \in S
  <2>1. SubSeq(s, 1, n - 1) \in Seq(T) /\ s[n] \in T
    BY <1>1
  <2>2. SubSeq(s, 1, n) = Append(SubSeq(s, 1, n - 1), s[n])
    BY <1>1
  <2>3. n \in 0..Len(s)
    BY <1>1
  <2> QED BY <1>3, <2>1, <2>2, <2>3
<1>4. Len(s) \in S
  <2> HIDE DEF S
  <2> QED BY <1>1, <1>2, <1>3, Stepwise
<1> QED BY <1>1, <1>4

(* No parts.                                                               *)
LEMMA FlattenEmpty == FlattenSeq(<<>>) = <<>>
BY DEF FlattenSeq

(* One part more.                                                          *)
LEMMA FlattenAppend ==
    ASSUME NEW S, NEW ss \in Seq(Seq(S)), NEW s \in Seq(S)
    PROVE  FlattenSeq(Append(ss, s)) = FlattenSeq(ss) \o s
<1>1. PICK tt : tt = Append(ss, s)
  OBVIOUS
<1>2. PICK L : L = Len(ss)
  OBVIOUS
<1>3. /\ L \in Nat /\ Len(tt) = L + 1 /\ tt[L + 1] = s
      /\ \A i \in 1..L : tt[i] = ss[i]
  BY <1>1, <1>2
<1> DEFINE f == CHOOSE h : FlattenOf(h, tt, L + 1)
           g == CHOOSE h : FlattenOf(h, ss, L)
<1>4. FlattenOf(f, tt, L + 1) /\ FlattenOf(g, ss, L)
  <2>1. L + 1 \in Nat
    BY <1>3
  <2> QED BY <1>3, <2>1, FlattenExists
<1>5. FlattenSeq(tt) = f[L + 1]
  <2>1. Len(tt) # 0
    BY <1>3
  <2> QED BY <1>3, <2>1 DEF FlattenSeq, FlattenOf
<1>6. L # 0 => FlattenSeq(ss) = g[L]
  BY <1>2 DEF FlattenSeq, FlattenOf
<1> HIDE DEF f, g
<1>7. /\ \A i \in 1..(L + 1) : f[i] = IF i = 1 THEN tt[i] ELSE f[i-1] \o tt[i]
      /\ \A i \in 1..L : g[i] = IF i = 1 THEN ss[i] ELSE g[i-1] \o ss[i]
  BY <1>4 DEF FlattenOf
<1>8. CASE L = 0
  <2>1. FlattenSeq(ss) = <<>>
    <3>1. ss = <<>>
      <4>1. Len(ss) = 0
        BY <1>2, <1>8
      <4> QED BY <4>1
    <3> QED BY <3>1, FlattenEmpty
  <2>2. 1 \in 1..(L + 1) /\ L + 1 = 1
    BY <1>3, <1>8
  <2>3. f[L + 1] = s
    BY <1>3, <1>7, <2>2
  <2>4. s = <<>> \o s
    OBVIOUS
  <2> QED BY <1>1, <1>5, <2>1, <2>3, <2>4
<1>9. CASE L # 0
  <2> DEFINE T == {i \in 0..L : i # 0 => f[i] = g[i]}
  <2>1. 0 \in T
    BY <1>3
  <2>2. ASSUME NEW i \in 1..L, i - 1 \in T PROVE i \in T
    <3>1. i \in 1..(L + 1) /\ i \in 0..L /\ tt[i] = ss[i]
      BY <1>3
    <3>2. i # 1 => f[i-1] = g[i-1]
      BY <2>2, <3>1
    <3>3. f[i] = g[i]
      BY <1>7, <3>1, <3>2
    <3> QED BY <3>1, <3>3
  <2>3. L \in T
    <3> HIDE DEF T
    <3> QED BY <1>3, <2>1, <2>2, Stepwise
  <2>4. L + 1 \in 1..(L + 1) /\ L + 1 # 1 /\ (L + 1) - 1 = L
    BY <1>3, <1>9
  <2>5. f[L + 1] = f[L] \o s
    BY <1>3, <1>7, <2>4
  <2>6. f[L] = g[L]
    BY <1>9, <2>3
  <2> QED BY <1>1, <1>5, <1>6, <1>9, <2>5, <2>6
<1> QED BY <1>8, <1>9

(* The text of a document, and what is found in it.                        *)
PartsOf(style, files) == [n \in DOMAIN files |-> Lines(style, files[n])]
TextOf(style, files) == FlattenSeq(PartsOf(style, files))

Separate(files) ==
    \A m, n \in 1..Len(files) : m # n => Own(files[m]) \cap Own(files[n]) = {}

WellRead(style, files) ==
    LET text == TextOf(style, files) IN
    /\ text \in Seq(Line)
    /\ \A n \in 1..Len(text) : text[n].kind \in KindsOf(style)
    /\ ~Scan(text)[Len(text)].second
    /\ \A o : Has(Scan(text)[Len(text)].ops, o) <=> \E n \in 1..Len(files) : o = MainOp(files[n])

(* A document of no files.                                                 *)
LEMMA NothingRead == ASSUME NEW style PROVE WellRead(style, <<>>)
<1>1. PartsOf(style, <<>>) = <<>>
  BY DEF PartsOf
<1>2. PICK text : text = TextOf(style, <<>>)
  OBVIOUS
<1>3. text = <<>>
  BY <1>1, <1>2, FlattenEmpty DEF TextOf
<1>4. text \in Seq(Line) /\ Len(text) = 0
  BY <1>3
<1>5. Scan(text)[0] = [ops |-> <<>>, second |-> FALSE]
  BY <1>4, ScanSteps
<1>6. /\ ~Scan(text)[Len(text)].second
      /\ \A o : ~Has(Scan(text)[Len(text)].ops, o)
  BY <1>4, <1>5 DEF Has
<1>7. \A n \in 1..Len(text) : text[n].kind \in KindsOf(style)
  BY <1>4
<1>8. Len(<<>>) = 0
  OBVIOUS
<1> QED BY <1>2, <1>4, <1>6, <1>7, <1>8 DEF WellRead

(* A document of one file more.                                            *)
LEMMA OneMoreRead ==
    ASSUME NEW style \in Styles, NEW fs \in Seq(ReadPart(style)), NEW f \in ReadPart(style),
           NEW gs, gs = Append(fs, f), Separate(gs), WellRead(style, fs)
    PROVE  WellRead(style, gs)
<1>1. PICK s : s = Lines(style, f)
  OBVIOUS
<1>2. PICK t : t = TextOf(style, fs)
  OBVIOUS
<1>3. PICK u : u = TextOf(style, gs)
  OBVIOUS
<1>4. /\ Len(fs) \in Nat /\ DOMAIN fs = 1..Len(fs) /\ DOMAIN gs = 1..Len(gs)
      /\ Len(gs) = Len(fs) + 1 /\ gs[Len(fs) + 1] = f
      /\ \A n \in 1..Len(fs) : gs[n] = fs[n] /\ fs[n] \in ReadPart(style)
  OBVIOUS
<1>5. \A n \in 1..Len(fs) : Lines(style, fs[n]) \in Seq(Line)
  BY <1>4, LinesType
<1>6. PartsOf(style, fs) \in Seq(Seq(Line)) /\ s \in Seq(Line)
  <2>1. \A n \in 1..Len(fs) : PartsOf(style, fs)[n] \in Seq(Line)
    BY <1>4, <1>5 DEF PartsOf
  <2>2. PartsOf(style, fs) = [n \in 1..Len(fs) |-> PartsOf(style, fs)[n]]
    BY <1>4 DEF PartsOf
  <2>3. PartsOf(style, fs) \in Seq(Seq(Line))
    BY <1>4, <2>1, <2>2
  <2> QED BY <1>1, <2>3, LinesType
<1>7. PartsOf(style, gs) = Append(PartsOf(style, fs), s)
  <2>1. PICK p : p = PartsOf(style, fs)
    OBVIOUS
  <2>2. PICK q : q = PartsOf(style, gs)
    OBVIOUS
  <2>3. q = [n \in 1..Len(gs) |-> q[n]] /\ p = [n \in 1..Len(fs) |-> p[n]]
    BY <1>4, <2>1, <2>2 DEF PartsOf
  <2>4. /\ \A n \in 1..Len(fs) : q[n] = p[n]
        /\ q[Len(fs) + 1] = s
    BY <1>1, <1>4, <2>1, <2>2 DEF PartsOf
  <2>5. p \in Seq(Seq(Line)) /\ Len(p) = Len(fs)
    BY <1>4, <1>6, <2>1, <2>3
  <2>6. PICK r : r = Append(p, s)
    OBVIOUS
  <2>7. /\ r = [n \in 1..(Len(fs) + 1) |-> r[n]]
        /\ \A n \in 1..Len(fs) : r[n] = p[n]
        /\ r[Len(fs) + 1] = s
    <3>1. r \in Seq(Seq(Line)) /\ Len(r) = Len(p) + 1
      BY <1>6, <2>5, <2>6
    <3>2. /\ \A n \in 1..Len(p) : r[n] = p[n]
          /\ r[Len(p) + 1] = s
      BY <1>6, <2>5, <2>6
    <3> QED BY <2>5, <3>1, <3>2
  <2>8. \A n \in 1..(Len(fs) + 1) : q[n] = r[n]
    BY <1>4, <2>4, <2>7
  <2> QED BY <1>4, <2>1, <2>2, <2>3, <2>6, <2>7, <2>8
<1>8. u = t \o s
  BY <1>2, <1>3, <1>6, <1>7, FlattenAppend DEF TextOf
<1>9. PICK a : a = Scan(t)[Len(t)]
  OBVIOUS
<1>10. /\ t \in Seq(Line)
       /\ \A n \in 1..Len(t) : t[n].kind \in KindsOf(style)
       /\ ~a.second
       /\ \A o : Has(a.ops, o) <=> \E n \in 1..Len(fs) : o = MainOp(fs[n])
  BY <1>2, <1>9 DEF WellRead
<1>11. Apart(t, s)
  BY <1>1, <1>10, PartApart
<1>12. ASSUME NEW o, Has(a.ops, o) PROVE o.path # f.path
  <2>1. PICK n \in 1..Len(fs) : o = MainOp(fs[n])
    BY <1>10, <1>12
  <2>2. o.path = fs[n].path
    BY <1>4, <2>1, MainOpType
  <2>3. Own(fs[n]) \cap Own(f) = {}
    <3>1. n \in 1..Len(gs) /\ Len(fs) + 1 \in 1..Len(gs) /\ n # Len(fs) + 1
      BY <1>4
    <3> QED BY <1>4, <3>1 DEF Separate
  <2> QED BY <2>2, <2>3 DEF Own
<1>13. Grown(a, Scan(u)[Len(u)], {MainOp(f)})
  BY <1>1, <1>8, <1>9, <1>10, <1>11, <1>12, PartRead
<1>14. /\ u \in Seq(Line) /\ Len(u) = Len(t) + Len(s) /\ Len(t) \in Nat /\ Len(s) \in Nat
       /\ \A n \in 1..Len(t) : u[n] = t[n]
       /\ \A n \in 1..Len(s) : u[Len(t) + n] = s[n]
  BY <1>6, <1>8, <1>10, Joined
<1>15. ASSUME NEW n \in 1..Len(u) PROVE u[n].kind \in KindsOf(style)
  <2>1. n \in 1..Len(t) \/ (n - Len(t) \in 1..Len(s) /\ Len(t) + (n - Len(t)) = n)
    BY <1>14
  <2>2. \A i \in 1..Len(s) : s[i].kind \in KindsOf(style)
    BY <1>1, LinesKinds
  <2> QED BY <1>10, <1>14, <2>1, <2>2
<1>16. PICK b : b = Scan(u)[Len(u)]
  OBVIOUS
<1>17. ASSUME NEW o
       PROVE  Has(b.ops, o) <=> \E n \in 1..Len(gs) : o = MainOp(gs[n])
  <2>1. Has(b.ops, o) <=> Has(a.ops, o) \/ o = MainOp(f)
    BY <1>13, <1>16 DEF Grown
  <2>2. \A n : n \in 1..Len(gs) <=> n \in 1..Len(fs) \/ n = Len(fs) + 1
    BY <1>4
  <2> QED BY <1>4, <1>10, <2>1, <2>2
<1>18. ~b.second
  BY <1>13, <1>16 DEF Grown
<1> QED BY <1>3, <1>14, <1>15, <1>16, <1>17, <1>18 DEF WellRead

(* The loop finds one operation for each part.                             *)
LEMMA DocumentRead ==
    ASSUME NEW style \in Styles, NEW files \in Seq(ReadPart(style)), Separate(files)
    PROVE  WellRead(style, files)
<1> DEFINE P == {fs \in Seq(ReadPart(style)) : Separate(fs) => WellRead(style, fs)}
<1>1. <<>> \in P
  <2>1. <<>> \in Seq(ReadPart(style))
    OBVIOUS
  <2> QED BY <2>1, NothingRead
<1>2. ASSUME NEW fs \in Seq(ReadPart(style)), NEW f \in ReadPart(style), fs \in P
      PROVE  Append(fs, f) \in P
  <2>1. PICK gs : gs = Append(fs, f)
    OBVIOUS
  <2>2. gs \in Seq(ReadPart(style))
    BY <2>1
  <2>3. ASSUME Separate(gs) PROVE WellRead(style, gs)
    <3>1. Separate(fs)
      <4>1. \A n \in 1..Len(fs) : n \in 1..Len(gs) /\ gs[n] = fs[n]
        BY <2>1
      <4> QED BY <2>3, <4>1 DEF Separate
    <3> QED BY <1>2, <2>1, <2>3, <3>1, OneMoreRead
  <2> QED BY <2>1, <2>2, <2>3
<1> HIDE DEF P
<1>3. files \in P
  BY <1>1, <1>2, SequencesStepwise
<1> QED BY <1>3 DEF P

(* The paths the lines of a part name.                                     *)
LEMMA LinesMention ==
    ASSUME NEW style \in Styles, NEW f \in ReadPart(style)
    PROVE  /\ \A p \in Own(f) : Mentions(Lines(style, f), p)
           /\ f.does # "rename" /\ (\A n \in 1..Len(f.body) : f.body[n].kind # "minus") =>
                \A p : Mentions(Lines(style, f), p) => p = f.path
<1>1. PICK s : s = Lines(style, f)
  OBVIOUS
<1>2. PICK b : b = f.body
  OBVIOUS
<1>3. PICK H : H = HeadLen(style, f)
  OBVIOUS
<1>4. /\ s \in Seq(Line) /\ Headed(style, f, s) /\ H \in 1..Len(s)
      /\ \A n \in 1..Len(b) : s[H + n] = b[n]
      /\ Len(s) = H + Len(b)
  BY <1>1, <1>2, <1>3, LinesType
<1>5. /\ f.from \in Paths /\ f.path \in Paths /\ f.from # None /\ f.path # None
      /\ f.does = "rename" <=> f.from # f.path
      /\ f.does = "rename" \/ f.bare => style = "git"
      /\ style \in {"codex", "git", "plain", "index"}
      /\ b \in Seq(Line) /\ \A n \in 1..Len(b) : b[n].old = None /\ (b[n].kind # "minus" => b[n].new = None)
  BY <1>2, FileType DEF Styles
<1>6. H = (IF style = "codex" THEN 1 ELSE IF style = "plain" \/ f.bare THEN 2 ELSE 4)
  BY <1>3 DEF HeadLen
<1>7. PICK x : x = FromTo(f)[1]
  OBVIOUS
<1>8. PICK y : y = FromTo(f)[2]
  OBVIOUS
<1>9. /\ x.old = None /\ x.new = IF f.does = "create" THEN None ELSE f.from
      /\ y.old = None /\ y.new = IF f.does = "delete" THEN None ELSE f.path
      /\ \A k, p : LineOf(k, p).old = None /\ LineOf(k, p).new = p
  <2>1. \A k, p : LineOf(k, p).old = None /\ LineOf(k, p).new = p
    BY DEF LineOf
  <2> QED BY <1>7, <1>8, <2>1, FromToType
<1>10. /\ style = "codex" => H = 1 /\ s[1].new = f.path /\ s[1].old = None
       /\ style = "git" => s[1].old = f.from /\ s[1].new = f.path /\ s[2].old = None /\ s[2].new = None
       /\ style = "git" /\ ~f.bare => s[3] = x /\ s[4] = y
       /\ style = "plain" => H = 2 /\ s[1] = x /\ s[2] = y
       /\ style = "index" => /\ H = 4 /\ s[1].new = f.path /\ s[1].old = None
                             /\ s[2].old = None /\ s[2].new = None /\ s[3] = x /\ s[4] = y
  <2>1. CASE style = "codex"
    BY <1>4, <1>6, <1>9, <2>1 DEF Headed
  <2>2. CASE style = "git"
    BY <1>4, <1>7, <1>8, <1>9, <2>2 DEF Headed
  <2>3. CASE style = "plain"
    BY <1>4, <1>6, <1>7, <1>8, <2>3 DEF Headed
  <2>4. CASE style = "index"
    BY <1>4, <1>5, <1>6, <1>7, <1>8, <1>9, <2>4 DEF Headed
  <2> QED BY <1>5, <2>1, <2>2, <2>3, <2>4
<1>11. 1 \in 1..Len(s) /\ (H # 1 => 2 \in 1..Len(s))
  <2>1. Len(s) \in Nat /\ H <= Len(s) /\ H \in {1, 2, 4}
    BY <1>4, <1>6
  <2> QED BY <2>1
<1>12. ASSUME NEW p \in Own(f) PROVE Mentions(s, p)
  <2>1. p \in Paths /\ (p = f.from \/ p = f.path)
    BY <1>5, <1>12 DEF Own
  <2>2. CASE style \in {"codex", "git", "index"}
    <3>1. p \in {s[1].old, s[1].new}
      BY <1>5, <1>10, <2>1, <2>2
    <3> QED BY <1>11, <2>1, <3>1 DEF Mentions
  <2>3. CASE style = "plain"
    <3>1. p = f.path /\ f.from = f.path /\ H # 1
      BY <1>5, <1>10, <2>1, <2>3
    <3>2. p \in {s[1].old, s[1].new} \/ p \in {s[2].old, s[2].new}
      BY <1>9, <1>10, <2>3, <3>1
    <3> QED BY <1>11, <2>1, <3>1, <3>2 DEF Mentions
  <2> QED BY <1>5, <2>2, <2>3
<1>13. ASSUME f.does # "rename", \A n \in 1..Len(b) : b[n].kind # "minus",
              NEW p, Mentions(s, p)
       PROVE  p = f.path
  <2>1. p # None
    BY <1>13, GuardAssumption DEF Mentions
  <2>2. PICK n \in 1..Len(s) : p \in {s[n].old, s[n].new}
    BY <1>13 DEF Mentions
  <2>3. CASE n > H
    <3>1. PICK K : K = Len(b)
      OBVIOUS
    <3>2. K \in Nat /\ H \in 1..Len(s) /\ Len(s) = H + K
      BY <1>4, <1>5, <3>1
    <3>3. n - H \in 1..K /\ H + (n - H) = n
      BY <2>3, <3>2
    <3>4. s[n] = b[n - H]
      BY <1>4, <3>1, <3>3
    <3>5. b[n - H].old = None /\ b[n - H].new = None
      BY <1>5, <1>13, <3>1, <3>3
    <3> QED BY <2>1, <2>2, <3>4, <3>5
  <2>4. CASE ~(n > H)
    <3>1. n \in {1, 2, 3, 4} /\ (H = 1 => n = 1) /\ (H = 2 => n \in {1, 2}) /\ f.from = f.path
      BY <1>4, <1>5, <1>6, <1>13, <2>4
    <3>2. \A l \in {x, y} : l.old = None /\ l.new \in {None, f.path}
      BY <1>9, <3>1
    <3>3. s[n].old \in {None, f.path} /\ s[n].new \in {None, f.path}
      <4>1. CASE style = "codex"
        BY <1>10, <3>1, <4>1
      <4>2. CASE style = "git"
        <5>1. n \in {1, 2} \/ (~f.bare /\ n \in {3, 4})
          BY <1>6, <3>1, <4>2
        <5> QED BY <1>10, <3>1, <3>2, <4>2, <5>1
      <4>3. CASE style = "plain"
        BY <1>10, <3>1, <3>2, <4>3
      <4>4. CASE style = "index"
        BY <1>10, <3>1, <3>2, <4>4
      <4> QED BY <1>5, <4>1, <4>2, <4>3, <4>4
    <3> QED BY <2>1, <2>2, <3>3
  <2> QED BY <2>3, <2>4
<1> QED BY <1>1, <1>2, <1>12, <1>13

(* The paths a document names are those its parts name.                    *)
LEMMA TextMentions ==
    ASSUME NEW style \in Styles, NEW files \in Seq(ReadPart(style)), NEW p
    PROVE  Mentions(TextOf(style, files), p) <=>
              \E n \in 1..Len(files) : Mentions(Lines(style, files[n]), p)
<1>1. PICK parts : parts = PartsOf(style, files)
  OBVIOUS
<1>2. PICK text : text = FlattenSeq(parts)
  OBVIOUS
<1>3. Len(files) \in Nat /\ DOMAIN files = 1..Len(files)
  OBVIOUS
<1>4. \A n \in 1..Len(files) : parts[n] = Lines(style, files[n]) /\ parts[n] \in Seq(Line)
  BY <1>1, <1>3, LinesType DEF PartsOf
<1>5. parts \in Seq(Seq(Line)) /\ Len(parts) = Len(files)
  <2>1. parts = [n \in 1..Len(files) |-> parts[n]]
    BY <1>1, <1>3 DEF PartsOf
  <2> QED BY <1>3, <1>4, <2>1
<1>6. \A l : Has(text, l) <=> \E n \in 1..Len(files) : Has(parts[n], l)
  BY <1>2, <1>5, FlattenHas
<1>7. \A t : Mentions(t, p) <=> p \in Paths /\ \E l : Has(t, l) /\ p \in {l.old, l.new}
  BY DEF Mentions, Has
<1>8. Mentions(text, p) <=> \E n \in 1..Len(files) : Mentions(parts[n], p)
  BY <1>6, <1>7
<1> QED BY <1>1, <1>2, <1>4, <1>8 DEF TextOf

(* A document as it is read: from the lines it consists of to the parts    *)
(* whose operations are known.                                             *)
RawLine == [kind : LineKinds, words : Seq(Word)]

ReadFile(f) ==
    [does |-> f.does, from |-> f.from, path |-> f.path, bare |-> f.bare, body |-> ReadText(f.body)]
ReadFiles(files) == [n \in DOMAIN files |-> ReadFile(files[n])]

ReadEach(ss) == [n \in DOMAIN ss |-> ReadText(ss[n])]

(* A function on the numbers up to L is a sequence of what it maps to.      *)
LEMMA Listed ==
    ASSUME NEW V, NEW L \in Nat, NEW a, a = [n \in 1..L |-> a[n]], \A n \in 1..L : a[n] \in V
    PROVE  a \in Seq(V) /\ Len(a) = L
OBVIOUS

(* What is read of a line is read of it alone.                             *)
LEMMA ReadLines ==
    ASSUME NEW S, NEW s \in Seq(S)
    PROVE  /\ ReadText(s) \in Seq({ReadLine(l) : l \in S}) /\ Len(ReadText(s)) = Len(s)
           /\ \A n \in 1..Len(s) : ReadText(s)[n] = ReadLine(s[n])
<1>1. Len(s) \in Nat /\ DOMAIN s = 1..Len(s) /\ \A n \in 1..Len(s) : s[n] \in S
  OBVIOUS
<1>2. PICK r : r = ReadText(s)
  OBVIOUS
<1>3. r = [n \in 1..Len(s) |-> ReadLine(s[n])]
  BY <1>1, <1>2 DEF ReadText
<1>4. PICK T : T = {ReadLine(l) : l \in S}
  OBVIOUS
<1>5. \A n \in 1..Len(s) : r[n] = ReadLine(s[n]) /\ r[n] \in T
  BY <1>1, <1>3, <1>4
<1>6. r = [n \in 1..Len(s) |-> r[n]]
  BY <1>3
<1>7. r \in Seq(T) /\ Len(r) = Len(s)
  BY <1>1, <1>5, <1>6
<1> QED BY <1>2, <1>4, <1>5, <1>7

(* So texts are read one after the other,                                  *)
LEMMA ReadConcat ==
    ASSUME NEW S, NEW s \in Seq(S), NEW t \in Seq(S)
    PROVE  ReadText(s \o t) = ReadText(s) \o ReadText(t)
<1>1. PICK u : u = s \o t
  OBVIOUS
<1>2. /\ u \in Seq(S) /\ Len(u) = Len(s) + Len(t) /\ Len(s) \in Nat /\ Len(t) \in Nat
      /\ \A n \in 1..Len(s) : u[n] = s[n]
      /\ \A n \in 1..Len(t) : u[Len(s) + n] = t[n]
  BY <1>1, Joined
<1>3. PICK T : T = {ReadLine(l) : l \in S}
  OBVIOUS
<1>4. PICK a : a = ReadText(s)
  OBVIOUS
<1>5. PICK b : b = ReadText(t)
  OBVIOUS
<1>6. PICK c : c = ReadText(u)
  OBVIOUS
<1>7. PICK v : v = a \o b
  OBVIOUS
<1>8. /\ a \in Seq(T) /\ Len(a) = Len(s) /\ \A n \in 1..Len(s) : a[n] = ReadLine(s[n])
      /\ b \in Seq(T) /\ Len(b) = Len(t) /\ \A n \in 1..Len(t) : b[n] = ReadLine(t[n])
      /\ c \in Seq(T) /\ Len(c) = Len(u) /\ \A n \in 1..Len(u) : c[n] = ReadLine(u[n])
  BY <1>2, <1>3, <1>4, <1>5, <1>6, ReadLines
<1>9. a \in Seq(T) /\ b \in Seq(T)
  BY <1>8
<1>10. /\ v \in Seq(T) /\ Len(v) = Len(a) + Len(b)
       /\ \A n \in 1..Len(a) : v[n] = a[n]
       /\ \A n \in 1..Len(b) : v[Len(a) + n] = b[n]
  BY <1>7, <1>9, Joined
<1>11. ASSUME NEW n \in 1..Len(u) PROVE c[n] = v[n]
  <2>1. CASE n \in 1..Len(s)
    BY <1>2, <1>8, <1>10, <2>1
  <2>2. CASE n \notin 1..Len(s)
    <3>1. PICK k : k = n - Len(s)
      OBVIOUS
    <3>2. k \in 1..Len(t) /\ Len(s) + k = n
      BY <1>2, <2>2, <3>1
    <3>3. u[n] = t[k]
      BY <1>2, <3>2
    <3>4. v[n] = b[k]
      BY <1>8, <1>10, <3>2
    <3>5. b[k] = ReadLine(t[k]) /\ c[n] = ReadLine(u[n])
      BY <1>8, <1>11, <3>2
    <3> QED BY <3>3, <3>4, <3>5
  <2> QED BY <2>1, <2>2
<1>12. Len(c) = Len(v) /\ c \in Seq(T)
  BY <1>2, <1>8, <1>10
<1>13. c = v
  BY <1>8, <1>10, <1>11, <1>12
<1> QED BY <1>1, <1>4, <1>5, <1>6, <1>7, <1>13

(* however many they are.                                                  *)
LEMMA ReadFlatten ==
    ASSUME NEW S, NEW ss \in Seq(Seq(S))
    PROVE  ReadText(FlattenSeq(ss)) = FlattenSeq(ReadEach(ss))
<1>1. PICK T : T = {ReadLine(l) : l \in S}
  OBVIOUS
<1>2. \A s \in Seq(S) : ReadText(s) \in Seq(T)
  BY <1>1, ReadLines
<1> DEFINE P == {tt \in Seq(Seq(S)) : ReadText(FlattenSeq(tt)) = FlattenSeq(ReadEach(tt))}
<1>3. <<>> \in P
  <2>1. <<>> \in Seq(Seq(S)) /\ ReadEach(<<>>) = <<>> /\ ReadText(<<>>) = <<>>
    BY DEF ReadEach, ReadText
  <2> QED BY <2>1, FlattenEmpty
<1>4. ASSUME NEW tt \in Seq(Seq(S)), NEW s \in Seq(S), tt \in P
      PROVE  Append(tt, s) \in P
  <2>1. PICK uu : uu = Append(tt, s)
    OBVIOUS
  <2>2. PICK L : L = Len(tt)
    OBVIOUS
  <2>3. /\ uu \in Seq(Seq(S)) /\ L \in Nat /\ Len(uu) = L + 1 /\ uu[L + 1] = s
        /\ DOMAIN uu = 1..(L + 1) /\ DOMAIN tt = 1..L
        /\ \A n \in 1..L : uu[n] = tt[n] /\ tt[n] \in Seq(S)
    BY <2>1, <2>2
  <2>4. PICK a : a = ReadEach(tt)
    OBVIOUS
  <2>5. PICK b : b = ReadEach(uu)
    OBVIOUS
  <2>6. PICK r : r = ReadText(s)
    OBVIOUS
  <2>7. a = [n \in 1..L |-> ReadText(tt[n])] /\ b = [n \in 1..(L + 1) |-> ReadText(uu[n])]
    BY <2>3, <2>4, <2>5 DEF ReadEach
  <2>8. \A n \in 1..L : a[n] \in Seq(T)
    BY <1>2, <2>3, <2>7
  <2>9. PICK V : V = Seq(T)
    OBVIOUS
  <2>10. a \in Seq(V) /\ Len(a) = L /\ r \in V /\ b \in Seq(V) /\ Len(b) = L + 1
    <3>1. a = [n \in 1..L |-> a[n]] /\ \A n \in 1..L : a[n] \in V
      BY <2>7, <2>8, <2>9
    <3>2. r \in V
      BY <1>2, <2>6, <2>9
    <3>3. \A n \in 1..(L + 1) : b[n] \in V
      <4>1. \A n \in 1..(L + 1) : uu[n] \in Seq(S)
        BY <2>3
      <4> QED BY <1>2, <2>7, <2>9, <4>1
    <3>4. b = [n \in 1..(L + 1) |-> b[n]] /\ L + 1 \in Nat
      BY <2>3, <2>7
    <3>5. a \in Seq(V) /\ Len(a) = L
      <4>1. \A n \in 1..L : a[n] \in V
        BY <3>1
      <4>2. a = [n \in 1..L |-> a[n]]
        BY <3>1
      <4>3. L \in Nat
        BY <2>3
      <4> QED BY <4>1, <4>2, <4>3, Listed
    <3>6. b \in Seq(V) /\ Len(b) = L + 1
      <4>1. PICK M : M = L + 1
        OBVIOUS
      <4>2. \A n \in 1..M : b[n] \in V
        BY <3>3, <4>1
      <4>3. b = [n \in 1..M |-> b[n]]
        BY <3>4, <4>1
      <4>4. M \in Nat
        BY <2>3, <4>1
      <4>5. b \in Seq(V) /\ Len(b) = M
        BY <4>2, <4>3, <4>4, Listed
      <4> QED BY <4>1, <4>5
    <3> QED BY <3>2, <3>5, <3>6
  <2>20. b = Append(a, r)
    <3>1. PICK c : c = Append(a, r)
      OBVIOUS
    <3>2. c \in Seq(V) /\ Len(c) = L + 1 /\ c[L + 1] = r /\ \A n \in 1..L : c[n] = a[n]
      BY <2>10, <3>1
    <3>3. ASSUME NEW n \in 1..(L + 1) PROVE b[n] = c[n]
      <4>1. CASE n = L + 1
        BY <2>3, <2>6, <2>7, <3>2, <4>1
      <4>2. CASE n # L + 1
        <5>1. n \in 1..L
          BY <2>3, <4>2
        <5>2. b[n] = ReadText(uu[n]) /\ a[n] = ReadText(tt[n])
          BY <2>7, <5>1
        <5> QED BY <2>3, <3>2, <5>1, <5>2
      <4> QED BY <4>1, <4>2
    <3> QED BY <2>10, <3>1, <3>2, <3>3
  <2>11. FlattenSeq(uu) = FlattenSeq(tt) \o s /\ FlattenSeq(tt) \in Seq(S)
    BY <2>1, FlattenAppend, FlattenHas
  <2>12. FlattenSeq(b) = FlattenSeq(a) \o r
    BY <2>9, <2>10, <2>20, FlattenAppend
  <2>13. ReadText(FlattenSeq(uu)) = ReadText(FlattenSeq(tt)) \o r
    <3>1. PICK t : t = FlattenSeq(tt)
      OBVIOUS
    <3>2. t \in Seq(S)
      BY <2>11, <3>1
    <3> QED BY <2>6, <2>11, <3>1, <3>2, ReadConcat
  <2>14. ReadText(FlattenSeq(tt)) = FlattenSeq(a)
    BY <1>4, <2>4
  <2> QED BY <2>1, <2>3, <2>5, <2>12, <2>13, <2>14
<1> HIDE DEF P
<1>5. ss \in P
  BY <1>3, <1>4, SequencesStepwise
<1> QED BY <1>5 DEF P

(* A path that is read as it is written, alone or with a prefix.           *)
Legible(d, p) == Simple(p) \/ (d.prefixed /\ Len(p) = 1 /\ ~p[1].root)

(* A path the document may write is read as it is, with a time stamp or    *)
(* without.                                                                *)
LEMMA NameRead ==
    ASSUME NEW d, NEW stamp \in Seq(Word),
           NEW p \in Paths, Legible(d, p), NEW side \in {"a", "b"}
    PROVE  /\ Written(d, side, p) \in Seq(Word) /\ Len(Written(d, side, p)) = 1
           /\ CleanPath(<<Written(d, side, p)[1]>>) = p
           /\ CleanPath(Written(d, side, p) \o stamp) = p
           /\ Written(d, side, p) \o stamp \in Seq(Word)
<1>1. PICK w : w = Written(d, side, p)
  OBVIOUS
<1>2. w \in Seq(Word) /\ w = <<w[1]>> /\ CleanPath(w) = p
  <2>1. Len(p) = 1 /\ ~p[1].root /\ p \in Seq(Word)
    BY PathAssumption DEF Legible, Simple, Name
  <2>2. CASE d.prefixed
    BY <1>1, <2>1, <2>2, UnderRead DEF Written
  <2>3. CASE ~d.prefixed
    <3>1. w = p /\ Simple(p)
      BY <1>1, <2>3 DEF Written, Legible
    <3> QED BY <2>1, <3>1, SimpleRead DEF Spellings
  <2> QED BY <2>2, <2>3
<1>3. Len(w) = 1
  BY <1>2
<1>4. w \o stamp \in Seq(Word) /\ w \o stamp # <<>> /\ (w \o stamp)[1] = w[1]
  <2>1. PICK v : v = w \o stamp
    OBVIOUS
  <2>2. /\ v \in Seq(Word) /\ Len(v) = 1 + Len(stamp) /\ Len(stamp) \in Nat
        /\ \A n \in 1..1 : v[n] = w[n]
    <3>1. w \in Seq(Word)
      BY <1>2
    <3>2. /\ v \in Seq(Word) /\ Len(v) = Len(w) + Len(stamp) /\ Len(stamp) \in Nat
          /\ \A n \in 1..Len(w) : v[n] = w[n]
      BY <2>1, <3>1, Joined
    <3> QED BY <1>3, <3>2
  <2>3. v # <<>>
    BY <2>2
  <2>4. v[1] = w[1]
    <3>1. 1 \in 1..1
      OBVIOUS
    <3> QED BY <2>2, <3>1
  <2> QED BY <2>1, <2>2, <2>3, <2>4
<1>5. CleanPath(w \o stamp) = CleanPath(w)
  <2>1. PICK v : v = w \o stamp
    OBVIOUS
  <2>2. v # <<>> /\ v[1] = w[1]
    BY <1>4, <2>1
  <2>4. w # <<>>
    BY <1>3
  <2>3. CleanPath(v) = CleanPath(w)
    BY <2>2, <2>4 DEF CleanPath
  <2> QED BY <2>1, <2>3
<1> QED BY <1>1, <1>2, <1>3, <1>4, <1>5

(* /dev/null is read as no path.                                           *)
LEMMA NullRead ==
    /\ Null \in Seq(Word) /\ <<>> \in Seq(Word)
    /\ CleanPath(Null) = None /\ CleanPath(<<>>) = None
<1>1. PICK steps : steps = <<"dev", "null">>
  OBVIOUS
<1>2. steps \in Seq(Segments) \ {<<>>}
  BY <1>1, PathAssumption
<1>3. PICK w : w = [root |-> TRUE, steps |-> steps]
  OBVIOUS
<1>4. w \in Word
  BY <1>2, <1>3 DEF Word
<1>5. PICK q : q = <<w>>
  OBVIOUS
<1>6. q \in Seq(Word) /\ q = Null /\ q[1] = w
  BY <1>1, <1>3, <1>4, <1>5 DEF Null
<1>7. <<q[1]>> = Null
  BY <1>5, <1>6
<1> QED BY <1>6, <1>7 DEF CleanPath

(* Single lines and pairs of lines are read one by one.                    *)
LEMMA RawRead ==
    ASSUME NEW k \in LineKinds, NEW words
    PROVE  /\ k # "diff" => ReadLine(Raw(k, words)) = LineOf(k, CleanPath(words))
           /\ words \in Seq(Word) => Raw(k, words) \in RawLine
BY DEF ReadLine, Raw, LineOf, RawLine

LEMMA OneRead ==
    ASSUME NEW a \in RawLine
    PROVE  <<a>> \in Seq(RawLine) /\ ReadText(<<a>>) = <<ReadLine(a)>>
BY DEF ReadText

LEMMA TwoRead ==
    ASSUME NEW a \in RawLine, NEW b \in RawLine
    PROVE  <<a, b>> \in Seq(RawLine) /\ ReadText(<<a, b>>) = <<ReadLine(a), ReadLine(b)>>
BY DEF ReadText

(* The --- and +++ lines of a part are read as they are meant,             *)
LEMMA PairRead ==
    ASSUME NEW d, d.stamp \in Seq(Word),
           NEW f, f.from \in Paths, f.path \in Paths, Legible(d, f.from), Legible(d, f.path)
    PROVE  FromToLines(d, f) \in Seq(RawLine) /\ ReadText(FromToLines(d, f)) = FromTo(f)
<1>1. PICK x : x = IF f.does = "create" THEN Null ELSE Written(d, "a", f.from) \o d.stamp
  OBVIOUS
<1>2. PICK y : y = IF f.does = "delete" THEN Null ELSE Written(d, "b", f.path) \o d.stamp
  OBVIOUS
<1>3. x \in Seq(Word) /\ CleanPath(x) = IF f.does = "create" THEN None ELSE f.from
  <2>1. CASE f.does = "create"
    BY <1>1, <2>1, NullRead
  <2>2. CASE f.does # "create"
    <3>1. PICK stamp : stamp = d.stamp
      OBVIOUS
    <3>2. PICK q : q = f.from
      OBVIOUS
    <3>3. stamp \in Seq(Word) /\ q \in Paths /\ Legible(d, q)
      BY <3>1, <3>2
    <3>4. /\ Written(d, "a", q) \o stamp \in Seq(Word)
          /\ CleanPath(Written(d, "a", q) \o stamp) = q
      BY <3>3, NameRead
    <3> QED BY <1>1, <2>2, <3>1, <3>2, <3>4
  <2> QED BY <2>1, <2>2
<1>4. y \in Seq(Word) /\ CleanPath(y) = IF f.does = "delete" THEN None ELSE f.path
  <2>1. CASE f.does = "delete"
    BY <1>2, <2>1, NullRead
  <2>2. CASE f.does # "delete"
    <3>1. PICK stamp : stamp = d.stamp
      OBVIOUS
    <3>2. PICK q : q = f.path
      OBVIOUS
    <3>3. stamp \in Seq(Word) /\ q \in Paths /\ Legible(d, q)
      BY <3>1, <3>2
    <3>4. /\ Written(d, "b", q) \o stamp \in Seq(Word)
          /\ CleanPath(Written(d, "b", q) \o stamp) = q
      BY <3>3, NameRead
    <3> QED BY <1>2, <2>2, <3>1, <3>2, <3>4
  <2> QED BY <2>1, <2>2
<1>5. PICK a : a = Raw("minus", x)
  OBVIOUS
<1>6. PICK b : b = Raw("plus", y)
  OBVIOUS
<1>7. {"minus", "plus"} \subseteq LineKinds
  BY DEF LineKinds
<1>8. /\ a \in RawLine /\ ReadLine(a) = LineOf("minus", CleanPath(x))
      /\ b \in RawLine /\ ReadLine(b) = LineOf("plus", CleanPath(y))
  BY <1>3, <1>4, <1>5, <1>6, <1>7, RawRead
<1>9. FromToLines(d, f) = <<a, b>>
  BY <1>1, <1>2, <1>5, <1>6 DEF FromToLines
<1>10. FromTo(f) = <<ReadLine(a), ReadLine(b)>>
  BY <1>3, <1>4, <1>8 DEF FromTo
<1> QED BY <1>8, <1>9, <1>10, TwoRead

(* and so is its header.                                                   *)
LEMMA HeaderRead ==
    ASSUME NEW d, IsDocument(d), NEW f \in FilePatch(d.style),
           Legible(d, f.from), Legible(d, f.path)
    PROVE  /\ HeaderLines(d, f) \in Seq(RawLine)
           /\ ReadText(HeaderLines(d, f)) = Header(d.style, f)
<1>1. /\ d.prefixed \in BOOLEAN /\ (d.prefixed => d.style \in {"git", "plain"})
      /\ d.stamp \in Seq(Word) /\ d.style \in {"codex", "git", "plain", "index"}
  BY DEF IsDocument, Styles
<1>2. f.from \in Paths /\ f.path \in Paths /\ f.does \in {"change", "create", "delete", "rename"}
  BY DEF FilePatch
<1>3. FromToLines(d, f) \in Seq(RawLine) /\ ReadText(FromToLines(d, f)) = FromTo(f)
  BY <1>1, <1>2, PairRead
<1>4. PICK ft : ft = FromToLines(d, f)
  OBVIOUS
<1>5. \A q \in Paths : q \in Seq(Word)
  BY PathAssumption DEF Name
<1>6. ASSUME NEW k \in LineKinds, k # "diff", ~d.prefixed
      PROVE  Raw(k, f.path) \in RawLine /\ ReadLine(Raw(k, f.path)) = LineOf(k, f.path)
  <2>1. CleanPath(f.path) = f.path
    BY <1>2, <1>6, SimpleRead DEF Legible, Spellings
  <2> QED BY <1>2, <1>5, <1>6, <2>1, RawRead
<1>7. ASSUME NEW k \in LineKinds, k # "diff"
      PROVE  Raw(k, <<>>) \in RawLine /\ ReadLine(Raw(k, <<>>)) = LineOf(k, None)
  BY <1>7, NullRead, RawRead
<1>8. CASE d.style = "codex"
  <2>1. PICK k : k = IF f.does = "delete" THEN "delete" ELSE "put"
    OBVIOUS
  <2>2. k \in LineKinds /\ k # "diff" /\ ~d.prefixed
    BY <1>1, <1>8, <2>1 DEF LineKinds, Stars
  <2>3. PICK a : a = Raw(k, f.path)
    OBVIOUS
  <2>4. a \in RawLine /\ ReadLine(a) = LineOf(k, f.path)
    BY <1>6, <2>2, <2>3
  <2>5. HeaderLines(d, f) = <<a>> /\ Header(d.style, f) = <<ReadLine(a)>>
    BY <1>8, <2>1, <2>3, <2>4 DEF HeaderLines, Header
  <2> QED BY <2>4, <2>5, OneRead
<1>9. CASE d.style = "git"
  <2>1. PICK v : v = Written(d, "a", f.from)
    OBVIOUS
  <2>2. PICK w : w = Written(d, "b", f.path)
    OBVIOUS
  <2>3. /\ v \in Seq(Word) /\ Len(v) = 1 /\ CleanPath(<<v[1]>>) = f.from
        /\ w \in Seq(Word) /\ Len(w) = 1 /\ CleanPath(<<w[1]>>) = f.path
    <3>1. PICK p : p = f.from
      OBVIOUS
    <3>2. PICK q : q = f.path
      OBVIOUS
    <3>3. p \in Paths /\ q \in Paths /\ Legible(d, p) /\ Legible(d, q) /\ <<>> \in Seq(Word)
      BY <1>2, <3>1, <3>2
    <3>4. v \in Seq(Word) /\ Len(v) = 1 /\ CleanPath(<<v[1]>>) = p
      BY <2>1, <3>1, <3>3, NameRead
    <3>5. w \in Seq(Word) /\ Len(w) = 1 /\ CleanPath(<<w[1]>>) = q
      BY <2>2, <3>2, <3>3, NameRead
    <3> QED BY <3>1, <3>2, <3>4, <3>5
  <2>4. PICK words : words = v \o w
    OBVIOUS
  <2>5. words \in Seq(Word) /\ words[1] = v[1] /\ words[2] = w[1]
    <3>1. /\ words \in Seq(Word)
          /\ \A n \in 1..Len(v) : words[n] = v[n]
          /\ \A n \in 1..Len(w) : words[Len(v) + n] = w[n]
      <4>1. v \in Seq(Word) /\ w \in Seq(Word)
        BY <2>3
      <4> QED BY <2>4, <4>1, Joined
    <3>2. 1 \in 1..Len(v) /\ 1 \in 1..Len(w) /\ Len(v) + 1 = 2
      BY <2>3
    <3> QED BY <3>1, <3>2
  <2>6. PICK a : a = Raw("diff", words)
    OBVIOUS
  <2>7. a \in RawLine /\ a.kind = "diff" /\ a.words = words
    BY <2>5, <2>6 DEF Raw, RawLine, LineKinds
  <2>8. ReadLine(a) = [kind |-> "diff", old |-> f.from, new |-> f.path]
    BY <2>3, <2>5, <2>7 DEF ReadLine
  <2>9. PICK b : b = Raw(GitMark(f), <<>>)
    OBVIOUS
  <2>10. GitMark(f) \in LineKinds /\ GitMark(f) # "diff"
    BY DEF GitMark, LineKinds
  <2>11. b \in RawLine /\ ReadLine(b) = LineOf(GitMark(f), None)
    BY <1>7, <2>9, <2>10
  <2>12. PICK ab : ab = <<a, b>>
    OBVIOUS
  <2>13. ab \in Seq(RawLine) /\ ReadText(ab) = <<ReadLine(a), ReadLine(b)>>
    BY <2>7, <2>11, <2>12, TwoRead
  <2>14. PICK rest : rest = IF f.bare THEN <<>> ELSE ft
    OBVIOUS
  <2>15. rest \in Seq(RawLine) /\ ReadText(rest) = IF f.bare THEN <<>> ELSE FromTo(f)
    <3>1. <<>> \in Seq(RawLine) /\ ReadText(<<>>) = <<>>
      BY DEF ReadText
    <3> QED BY <1>3, <1>4, <2>14, <3>1
  <2>16. HeaderLines(d, f) = ab \o rest
    BY <1>4, <1>9, <2>1, <2>2, <2>4, <2>6, <2>9, <2>12, <2>14 DEF HeaderLines
  <2>17. Header(d.style, f) = ReadText(ab) \o ReadText(rest)
    BY <1>9, <2>8, <2>11, <2>13, <2>15 DEF Header
  <2>18. ReadText(ab \o rest) = ReadText(ab) \o ReadText(rest) /\ ab \o rest \in Seq(RawLine)
    <3>1. ab \in Seq(RawLine) /\ rest \in Seq(RawLine)
      BY <2>13, <2>15
    <3> QED BY <3>1, ReadConcat, Joined
  <2> QED BY <2>16, <2>17, <2>18
<1>10. CASE d.style = "plain"
  BY <1>3, <1>10 DEF HeaderLines, Header
<1>11. CASE d.style = "index"
  <2>1. ~d.prefixed /\ {"index", "text"} \subseteq LineKinds
    BY <1>1, <1>11 DEF LineKinds
  <2>2. PICK a : a = Raw("index", f.path)
    OBVIOUS
  <2>3. PICK b : b = Raw("text", <<>>)
    OBVIOUS
  <2>4. /\ a \in RawLine /\ ReadLine(a) = LineOf("index", f.path)
        /\ b \in RawLine /\ ReadLine(b) = LineOf("text", None)
    BY <1>6, <1>7, <2>1, <2>2, <2>3
  <2>5. PICK ab : ab = <<a, b>>
    OBVIOUS
  <2>6. ab \in Seq(RawLine) /\ ReadText(ab) = <<ReadLine(a), ReadLine(b)>>
    BY <2>4, <2>5, TwoRead
  <2>7. HeaderLines(d, f) = ab \o ft
    BY <1>4, <1>11, <2>2, <2>3, <2>5 DEF HeaderLines
  <2>8. Header(d.style, f) = ReadText(ab) \o ReadText(ft)
    BY <1>3, <1>4, <1>11, <2>4, <2>6 DEF Header
  <2>9. ReadText(ab \o ft) = ReadText(ab) \o ReadText(ft) /\ ab \o ft \in Seq(RawLine)
    <3>1. ab \in Seq(RawLine) /\ ft \in Seq(RawLine)
      BY <1>3, <1>4, <2>6
    <3> QED BY <3>1, ReadConcat, Joined
  <2> QED BY <2>7, <2>8, <2>9
<1> QED BY <1>1, <1>8, <1>9, <1>10, <1>11

(* A body is read as one: what stands in it are no headers.                *)
LEMMA BodyOfFile ==
    ASSUME NEW style \in Styles, NEW f \in FilePatch(style)
    PROVE  /\ f.body \in Seq(RawLine) /\ ReadText(f.body) \in Seq(ReadBody(style))
           /\ Len(ReadText(f.body)) = Len(f.body)
           /\ \A n \in 1..Len(f.body) : ReadText(f.body)[n].kind = f.body[n].kind
<1>1. f.body \in Seq(BodyLine(style))
  BY DEF FilePatch
<1>2. ASSUME NEW l \in BodyLine(style)
      PROVE  l \in RawLine /\ ReadLine(l) \in ReadBody(style) /\ ReadLine(l).kind = l.kind
  <2>1. /\ l.kind \in {"text", "minus"} \/ (l.kind = "marker" /\ style = "codex")
        /\ l \in TextLine
    BY DEF BodyLine
  <2>2. /\ l.kind \in LineKinds /\ ReadLine(l) \in Line /\ l \in RawLine
        /\ l.kind \in {"marker", "gone", "fresh", "text"} => l.words = <<>>
    BY <2>1 DEF TextLine, RawLine
  <2>3. ReadLine(l) = [kind |-> l.kind, old |-> None, new |-> CleanPath(l.words)]
    BY <2>1 DEF ReadLine
  <2>4. ReadLine(l).kind = l.kind /\ ReadLine(l).old = None /\ ReadLine(l).new = CleanPath(l.words)
    BY <2>3
  <2>5. l.kind # "minus" => CleanPath(l.words) = None
    BY <2>1, <2>2, NullRead
  <2> QED BY <2>1, <2>2, <2>4, <2>5 DEF ReadBody
<1>3. PICK T : T = {ReadLine(l) : l \in BodyLine(style)}
  OBVIOUS
<1>4. T \subseteq ReadBody(style) /\ BodyLine(style) \subseteq RawLine
  BY <1>2, <1>3
<1>5. PICK r : r = ReadText(f.body)
  OBVIOUS
<1>6. r \in Seq(T) /\ Len(r) = Len(f.body) /\ \A n \in 1..Len(f.body) : r[n] = ReadLine(f.body[n])
  BY <1>1, <1>3, <1>5, ReadLines
<1>7. r \in Seq(ReadBody(style)) /\ f.body \in Seq(RawLine)
  BY <1>1, <1>4, <1>6
<1>8. \A n \in 1..Len(f.body) : f.body[n] \in BodyLine(style)
  BY <1>1
<1> QED BY <1>2, <1>5, <1>6, <1>7, <1>8

(* A part of a document is read as what it says.                           *)
LEMMA FileRead ==
    ASSUME NEW d, IsDocument(d), NEW f \in FilePatch(d.style),
           Legible(d, f.from), Legible(d, f.path)
    PROVE  /\ ReadFile(f) \in ReadPart(d.style)
           /\ PartLines(d, f) \in Seq(RawLine)
           /\ ReadText(PartLines(d, f)) = Lines(d.style, ReadFile(f))
<1>1. PICK style : style = d.style
  OBVIOUS
<1>2. style \in Styles /\ f \in FilePatch(style)
  BY <1>1 DEF IsDocument
<1>3. PICK body : body = ReadText(f.body)
  OBVIOUS
<1>4. f.body \in Seq(RawLine) /\ body \in Seq(ReadBody(style))
  BY <1>2, <1>3, BodyOfFile
<1>5. PICK g : g = ReadFile(f)
  OBVIOUS
<1>6. g = [does |-> f.does, from |-> f.from, path |-> f.path, bare |-> f.bare, body |-> body]
  BY <1>3, <1>5 DEF ReadFile
<1>7. /\ g.does = f.does /\ g.from = f.from /\ g.path = f.path /\ g.bare = f.bare
      /\ g.body = body
  BY <1>6
<1>8. /\ f.does \in {"change", "create", "delete", "rename"} /\ f.from \in Paths /\ f.path \in Paths
      /\ f.bare \in BOOLEAN
      /\ f.does = "rename" <=> f.from # f.path
      /\ f.does = "rename" \/ f.bare => style = "git"
  BY <1>2 DEF FilePatch
<1>9. g \in ReadPart(style)
  <2>1. g \in [does : {"change", "create", "delete", "rename"}, from : Paths, path : Paths,
               bare : BOOLEAN, body : Seq(ReadBody(style))]
    BY <1>4, <1>6, <1>8
  <2> QED BY <1>7, <1>8, <2>1 DEF ReadPart
<1>10. PICK head : head = HeaderLines(d, f)
  OBVIOUS
<1>11. head \in Seq(RawLine) /\ ReadText(head) = Header(style, f)
  BY <1>1, <1>10, HeaderRead
<1>12. Header(style, g) = Header(style, f)
  BY <1>7 DEF Header, FromTo, GitMark
<1>13. Lines(style, g) = ReadText(head) \o body
  BY <1>7, <1>11, <1>12 DEF Lines
<1>14. PartLines(d, f) = head \o f.body
  BY <1>10 DEF PartLines
<1>15. head \o f.body \in Seq(RawLine) /\ ReadText(head \o f.body) = ReadText(head) \o body
  <2>1. head \in Seq(RawLine) /\ f.body \in Seq(RawLine)
    BY <1>4, <1>11
  <2> QED BY <1>3, <2>1, ReadConcat, Joined
<1> QED BY <1>1, <1>5, <1>9, <1>13, <1>14, <1>15

(* A document of such files is read as all its parts say.                  *)
LEMMA TextRead ==
    ASSUME NEW d, IsDocument(d), Readable(d)
    PROVE  /\ ReadFiles(d.files) \in Seq(ReadPart(d.style))
           /\ Len(ReadFiles(d.files)) = Len(d.files)
           /\ ReadText(InputOf(d).text) = TextOf(d.style, ReadFiles(d.files))
<1>1. PICK style : style = d.style
  OBVIOUS
<1>2. PICK files : files = d.files
  OBVIOUS
<1>3. files \in Seq(FilePatch(style)) /\ Len(files) \in Nat /\ DOMAIN files = 1..Len(files)
  <2>1. files \in Seq(FilePatch(style))
    BY <1>1, <1>2 DEF IsDocument
  <2> QED BY <2>1
<1>4. ASSUME NEW n \in 1..Len(files)
      PROVE  /\ ReadFile(files[n]) \in ReadPart(style)
             /\ PartLines(d, files[n]) \in Seq(RawLine)
             /\ ReadText(PartLines(d, files[n])) = Lines(style, ReadFile(files[n]))
  <2>1. files[n] \in FilePatch(style)
    BY <1>3
  <2>2. Legible(d, files[n].from) /\ Legible(d, files[n].path)
    BY <1>2, <1>3 DEF Readable, Touched, Own, Legible
  <2> QED BY <1>1, <2>1, <2>2, FileRead
<1>5. PICK gs : gs = ReadFiles(files)
  OBVIOUS
<1>6. gs = [n \in 1..Len(files) |-> ReadFile(files[n])]
  BY <1>3, <1>5 DEF ReadFiles
<1>7. gs \in Seq(ReadPart(style)) /\ Len(gs) = Len(files)
  <2>1. \A n \in 1..Len(files) : gs[n] \in ReadPart(style)
    BY <1>4, <1>6
  <2>2. gs = [n \in 1..Len(files) |-> gs[n]]
    BY <1>6
  <2> QED BY <1>3, <2>1, <2>2
<1>8. PICK raw : raw = [n \in DOMAIN files |-> PartLines(d, files[n])]
  OBVIOUS
<1>9. \A n \in 1..Len(files) : raw[n] = PartLines(d, files[n]) /\ raw[n] \in Seq(RawLine)
  BY <1>3, <1>4, <1>8
<1>10. raw \in Seq(Seq(RawLine)) /\ DOMAIN raw = 1..Len(files)
  <2>1. raw = [n \in 1..Len(files) |-> raw[n]]
    BY <1>3, <1>8
  <2> QED BY <1>3, <1>9, <2>1
<1>11. ReadText(FlattenSeq(raw)) = FlattenSeq(ReadEach(raw))
  BY <1>10, ReadFlatten
<1>12. ReadEach(raw) = PartsOf(style, gs)
  <2>1. PICK e : e = ReadEach(raw)
    OBVIOUS
  <2>2. e = [n \in 1..Len(files) |-> ReadText(raw[n])]
    BY <1>10, <2>1 DEF ReadEach
  <2>3. PICK q : q = PartsOf(style, gs)
    OBVIOUS
  <2>4. q = [n \in 1..Len(files) |-> Lines(style, gs[n])]
    <3>1. DOMAIN gs = 1..Len(files)
      BY <1>6
    <3> QED BY <2>3, <3>1 DEF PartsOf
  <2>5. \A n \in 1..Len(files) : ReadText(raw[n]) = Lines(style, gs[n])
    BY <1>4, <1>6, <1>9
  <2>6. e = q
    BY <2>2, <2>4, <2>5
  <2> QED BY <2>1, <2>3, <2>6
<1>13. InputOf(d).text = FlattenSeq(raw)
  BY <1>2, <1>8 DEF InputOf
<1> QED BY <1>1, <1>2, <1>5, <1>7, <1>11, <1>12, <1>13 DEF TextOf

(* Every change a document of legible files makes is among its operations; *)
(* there are no others if it is clear.                                     *)
LEMMA ChangesFound ==
    ASSUME NEW d, IsDocument(d), Readable(d), InputOf(d) \in PatchInput
    PROVE  /\ ToPatch(InputOf(d)).ops \in Seq(PatchOp)
           /\ \A c \in ChangesOf(d) : Has(ToPatch(InputOf(d)).ops, c)
           /\ Clear(d) => \A o : Has(ToPatch(InputOf(d)).ops, o) => o \in ChangesOf(d)
<1>1. PICK style : style = d.style
  OBVIOUS
<1>2. PICK files : files = ReadFiles(d.files)
  OBVIOUS
<1>3. PICK named : named = d.named
  OBVIOUS
<1>4. PICK text : text = TextOf(style, files)
  OBVIOUS
<1>5. PICK ops : ops = ToPatch(InputOf(d)).ops
  OBVIOUS
<1>6. PICK found : found = Scanned(text)
  OBVIOUS
<1>7. /\ style \in Styles /\ named \in Seq(Paths) /\ files \in Seq(ReadPart(style))
      /\ Separate(files) /\ DOMAIN files = 1..Len(files) /\ Len(files) \in Nat
      /\ DOMAIN d.files = 1..Len(files) /\ d.files \in Seq(FilePatch(style))
      /\ \A n \in 1..Len(files) :
            /\ files[n] = ReadFile(d.files[n]) /\ d.files[n] \in FilePatch(style)
            /\ files[n].from = d.files[n].from /\ files[n].path = d.files[n].path
            /\ files[n].does = d.files[n].does /\ files[n].body = ReadText(d.files[n].body)
  <2>1. /\ style \in Styles /\ named \in Seq(Paths) /\ d.files \in Seq(FilePatch(style))
        /\ \A m, n \in DOMAIN d.files : m # n => Own(d.files[m]) \cap Own(d.files[n]) = {}
    BY <1>1, <1>3 DEF IsDocument
  <2>2. files \in Seq(ReadPart(style)) /\ Len(files) = Len(d.files)
    BY <1>1, <1>2, TextRead
  <2>3. DOMAIN files = 1..Len(files) /\ Len(files) \in Nat /\ DOMAIN d.files = 1..Len(files)
    BY <2>1, <2>2
  <2>4. ASSUME NEW n \in 1..Len(files)
        PROVE  /\ files[n] = ReadFile(d.files[n]) /\ d.files[n] \in FilePatch(style)
               /\ files[n].from = d.files[n].from /\ files[n].path = d.files[n].path
               /\ files[n].does = d.files[n].does /\ files[n].body = ReadText(d.files[n].body)
    <3>1. files[n] = ReadFile(d.files[n])
      BY <1>2, <2>3, <2>4 DEF ReadFiles
    <3>2. d.files[n] \in FilePatch(style)
      BY <2>1, <2>3, <2>4
    <3> QED BY <3>1, <3>2 DEF ReadFile
  <2>5. \A n \in 1..Len(files) : Own(files[n]) = Own(d.files[n])
    BY <2>4 DEF Own
  <2>6. Separate(files)
    BY <2>1, <2>3, <2>5 DEF Separate
  <2> QED BY <2>1, <2>2, <2>3, <2>4, <2>6
<1>8. ReadText(InputOf(d).text) = text /\ InputOf(d).named = named
  BY <1>1, <1>2, <1>3, <1>4, TextRead DEF InputOf
<1>9. /\ text \in Seq(Line)
      /\ \A o : Has(found, o) <=> \E n \in 1..Len(files) : o = MainOp(files[n])
  <2>1. WellRead(style, files)
    BY <1>7, DocumentRead
  <2>2. text \in Seq(Line)
    BY <1>4, <2>1 DEF WellRead
  <2>3. found = Scan(text)[Len(text)].ops
    BY <1>6, <2>2, ScanSteps
  <2> QED BY <1>4, <2>1, <2>2, <2>3 DEF WellRead
<1>10. /\ ops \in Seq(PatchOp)
       /\ \A o : Has(ops, o) <=>
            \/ Has(found, o)
            \/ \E p : /\ Mentions(text, p) /\ o \in BothOps(p)
                      /\ \A q : Has(found, q) => q.path # p
            \/ \E p : /\ Has(named, p) /\ ~Mentions(text, p)
                      /\ o = [kind |-> "FILE_WRITE", path |-> p]
  <2>1. /\ ops \in Seq(PatchOp)
        /\ \A o : Has(ops, o) <=>
             \/ Has(ParsePatchOperations(text), o)
             \/ \E p : /\ Has(named, p) /\ ~Mentions(text, p)
                       /\ o = [kind |-> "FILE_WRITE", path |-> p]
    BY <1>5, <1>8, ToPatchOps
  <2>2. \A o : Has(ParsePatchOperations(text), o) <=>
                \/ Has(found, o)
                \/ \E p : /\ Mentions(text, p) /\ o \in BothOps(p)
                          /\ \A q : Has(found, q) => q.path # p
    BY <1>6, <1>9, OperationsExact
  <2> QED BY <2>1, <2>2
<1>11. \A p : Mentions(text, p) <=> \E n \in 1..Len(files) : Mentions(Lines(style, files[n]), p)
  BY <1>4, <1>7, TextMentions
<1>12. ASSUME NEW n \in 1..Len(files)
       PROVE  /\ files[n] \in ReadPart(style)
              /\ MainOp(files[n]).path = files[n].path
              /\ \A p \in Own(files[n]) : Mentions(text, p)
              /\ files[n].from \in Paths /\ files[n].path \in Paths
              /\ files[n].does = "rename" <=> files[n].from # files[n].path
  <2>1. files[n] \in ReadPart(style)
    BY <1>7
  <2>2. \A p \in Own(files[n]) : Mentions(Lines(style, files[n]), p)
    BY <1>7, <2>1, LinesMention
  <2>3. \A p \in Own(files[n]) : Mentions(text, p)
    BY <1>11, <2>2
  <2>4. /\ files[n].from \in Paths /\ files[n].path \in Paths
        /\ files[n].does = "rename" <=> files[n].from # files[n].path
    BY <1>7, <2>1, FileType
  <2> QED BY <1>7, <2>1, <2>3, <2>4, MainOpType
<1>13. \A p : p \in Touched(d) <=> \E n \in 1..Len(files) : p \in Own(files[n])
  BY <1>7 DEF Touched, Own
<1>14. \A c : c \in ChangesOf(d) <=>
                 \/ \E n \in 1..Len(files) : c = MainOp(files[n])
                 \/ \E n \in 1..Len(files) : /\ files[n].from # files[n].path
                                             /\ c = [kind |-> "FILE_DELETE", path |-> files[n].from]
                 \/ \E p : /\ Has(named, p) /\ p \notin Touched(d)
                           /\ c = [kind |-> "FILE_WRITE", path |-> p]
  <2>1. \A f, c : c \in ChangesTo(f) <=>
                    \/ c = MainOp(f)
                    \/ f.from # f.path /\ c = [kind |-> "FILE_DELETE", path |-> f.from]
    BY DEF ChangesTo, MainOp
  <2>2. \A n \in 1..Len(files) : ChangesTo(d.files[n]) = ChangesTo(files[n])
    BY <1>7 DEF ChangesTo
  <2>3. \A c : c \in PathChanges(d) <=> \E n \in 1..Len(files) : c \in ChangesTo(files[n])
    BY <1>7, <2>2 DEF PathChanges
  <2>4. \A p : p \in Range(d.named) <=> Has(named, p)
    <3>1. DOMAIN named = 1..Len(named)
      BY <1>7
    <3> QED BY <1>3, <3>1 DEF Range, Has
  <2>5. \A c : c \in NamedChanges(d) <=> \E p : /\ Has(named, p) /\ p \notin Touched(d)
                                                /\ c = [kind |-> "FILE_WRITE", path |-> p]
    BY <2>4 DEF NamedChanges
  <2> QED BY <2>1, <2>3, <2>5 DEF ChangesOf
<1>15. ASSUME NEW n \in 1..Len(files), files[n].from # files[n].path
       PROVE  Has(ops, [kind |-> "FILE_DELETE", path |-> files[n].from])
  <2>1. PICK p : p = files[n].from
    OBVIOUS
  <2>2. PICK c : c = [kind |-> "FILE_DELETE", path |-> p]
    OBVIOUS
  <2>3. Mentions(text, p) /\ c \in BothOps(p)
    BY <1>12, <2>1, <2>2 DEF Own, BothOps
  <2>4. ASSUME NEW q, Has(found, q) PROVE q.path # p
    <3>1. PICK m \in 1..Len(files) : q = MainOp(files[m])
      BY <1>9, <2>4
    <3>2. q.path = files[m].path
      BY <1>12, <3>1
    <3>3. CASE m = n
      BY <1>15, <2>1, <3>2, <3>3
    <3>4. CASE m # n
      <4>1. Own(files[m]) \cap Own(files[n]) = {}
        BY <1>7, <3>4 DEF Separate
      <4> QED BY <2>1, <3>2, <4>1 DEF Own
    <3> QED BY <3>3, <3>4
  <2> QED BY <1>10, <2>1, <2>2, <2>3, <2>4
<1>16. ASSUME NEW p, Has(named, p), p \notin Touched(d)
       PROVE  Has(ops, [kind |-> "FILE_WRITE", path |-> p])
  <2>1. PICK c : c = [kind |-> "FILE_WRITE", path |-> p]
    OBVIOUS
  <2>2. c \in BothOps(p)
    BY <2>1 DEF BothOps
  <2>3. ASSUME NEW q, Has(found, q) PROVE q.path # p
    <3>1. PICK m \in 1..Len(files) : q = MainOp(files[m])
      BY <1>9, <2>3
    <3>2. q.path = files[m].path
      BY <1>12, <3>1
    <3> QED BY <1>13, <1>16, <3>2 DEF Own
  <2>4. CASE Mentions(text, p)
    BY <1>10, <2>1, <2>2, <2>3, <2>4
  <2>5. CASE ~Mentions(text, p)
    BY <1>10, <1>16, <2>1, <2>5
  <2> QED BY <2>4, <2>5
<1>17. \A c \in ChangesOf(d) : Has(ops, c)
  <2> SUFFICES ASSUME NEW c \in ChangesOf(d) PROVE Has(ops, c)
    OBVIOUS
  <2>1. CASE \E n \in 1..Len(files) : c = MainOp(files[n])
    BY <1>9, <1>10, <2>1
  <2>2. CASE \E n \in 1..Len(files) : /\ files[n].from # files[n].path
                                      /\ c = [kind |-> "FILE_DELETE", path |-> files[n].from]
    BY <1>15, <2>2
  <2>3. CASE \E p : /\ Has(named, p) /\ p \notin Touched(d)
                    /\ c = [kind |-> "FILE_WRITE", path |-> p]
    BY <1>16, <2>3
  <2> QED BY <1>14, <2>1, <2>2, <2>3
<1>18. ASSUME Clear(d), NEW o, Has(ops, o) PROVE o \in ChangesOf(d)
  <2>1. ASSUME NEW p, Mentions(text, p)
        PROVE  \E n \in 1..Len(files) : p = files[n].path
    <3>1. PICK n \in 1..Len(files) : Mentions(Lines(style, files[n]), p)
      BY <1>11, <2>1
    <3>2. PICK f : f = d.files[n]
      OBVIOUS
    <3>3. f.does # "rename" /\ \A m \in DOMAIN f.body : f.body[m].kind # "minus"
      BY <1>7, <1>18, <3>2 DEF Clear
    <3>4. /\ f.body \in Seq(RawLine) /\ Len(ReadText(f.body)) = Len(f.body)
          /\ \A m \in 1..Len(f.body) : ReadText(f.body)[m].kind = f.body[m].kind
      BY <1>7, <3>2, BodyOfFile
    <3>5. /\ files[n].does # "rename"
          /\ \A m \in 1..Len(files[n].body) : files[n].body[m].kind # "minus"
      BY <1>7, <3>2, <3>3, <3>4
    <3> QED BY <1>7, <1>12, <3>1, <3>5, LinesMention
  <2>2. CASE Has(found, o)
    BY <1>9, <1>14, <2>2
  <2>3. ASSUME NEW p, Mentions(text, p), \A q : Has(found, q) => q.path # p PROVE FALSE
    <3>1. PICK n \in 1..Len(files) : p = files[n].path
      BY <2>1, <2>3
    <3>2. Has(found, MainOp(files[n])) /\ MainOp(files[n]).path = p
      BY <1>9, <1>12, <3>1
    <3> QED BY <2>3, <3>2
  <2>4. CASE \E p : /\ Has(named, p) /\ ~Mentions(text, p)
                    /\ o = [kind |-> "FILE_WRITE", path |-> p]
    <3>1. PICK p : /\ Has(named, p) /\ ~Mentions(text, p)
                   /\ o = [kind |-> "FILE_WRITE", path |-> p]
      BY <2>4
    <3>2. p \notin Touched(d)
      BY <1>12, <1>13, <3>1
    <3> QED BY <1>14, <3>1, <3>2
  <2> QED BY <1>10, <1>18, <2>2, <2>3, <2>4
<1> QED BY <1>5, <1>10, <1>17, <1>18

(* More actions are judged at least as hard.                               *)
LEMMA MoreActions ==
    ASSUME NEW l, NEW S, NEW T, T \subseteq S
    PROVE  AtLeast(Verdict(l, S), Verdict(l, T))
<1>1. CASE \E n \in DOMAIN l, a \in T : Broken(l[n], a) /\ Binding(l[n])
  BY <1>1 DEF Verdict, AtLeast
<1>2. CASE ~\E n \in DOMAIN l, a \in T : Broken(l[n], a) /\ Binding(l[n])
  <2>1. CASE \E n \in DOMAIN l, a \in T : Broken(l[n], a)
    BY <1>2, <2>1 DEF Verdict, AtLeast
  <2>2. CASE ~\E n \in DOMAIN l, a \in T : Broken(l[n], a)
    BY <1>2, <2>2 DEF Verdict, AtLeast
  <2> QED BY <2>1, <2>2
<1> QED BY <1>1, <1>2

(* However many files a patch is about and in whichever of the formats it  *)
(* is written, with prefixes, time stamps and paths beside it or without,  *)
(* PreToolUse judges all that it does to them, and nothing else if its     *)
(* lines are clear; this is so for files whose names the adapter reads as  *)
(* they are meant, which _clean_path does not do for names with blanks,    *)
(* absolute ones and the directories a and b (parse_patch_operations,      *)
(* to_action and handle_pre_tool_use).                                     *)
THEOREM PatchesAreJudged == Spec => []PatchJudged
<1>1. GuardInv => PatchJudged
  <2> SUFFICES ASSUME GuardInv, Done, call.kind = "patch", NEW d \in DocumentsOf[call.patch],
                      Readable(d), NEW made,
                      made = {SubAction([call.patch EXCEPT !.ops = <<c>>], 1) : c \in ChangesOf(d)}
               PROVE  /\ AtLeast(result.kind, Verdict(ledger, made))
                      /\ Clear(d) => AtLeast(Verdict(ledger, made), result.kind)
    BY DEF PatchJudged
  <2>1. /\ call.patch \in Patches
        /\ subs = [m \in DOMAIN call.patch.ops |-> SubAction(call.patch, m)]
    BY DEF GuardInv, CallInv
  <2>2. PICK p : p = call.patch
    OBVIOUS
  <2>3. d \in Documents /\ ToPatch(InputOf(d)) = p
    BY <2>1, <2>2 DEF DocumentsOf
  <2>4. IsDocument(d) /\ InputOf(d) \in PatchInput
    BY <2>3, PatchAssumption
  <2>5. /\ p.ops \in Seq(PatchOp)
        /\ \A c \in ChangesOf(d) : Has(p.ops, c)
        /\ Clear(d) => \A o : Has(p.ops, o) => o \in ChangesOf(d)
    BY <2>3, <2>4, ChangesFound
  <2>6. p = [tool |-> p.tool, payload |-> p.payload, ops |-> p.ops]
    BY <2>3 DEF ToPatch
  <2> DEFINE Of(c) == [kind |-> c.kind, target |-> "filesystem", tool |-> p.tool,
                       paths |-> {c.path}, op |-> "apply_patch", payload |-> p.payload,
                       context |-> NoFields]
  <2>7. \A c : SubAction([p EXCEPT !.ops = <<c>>], 1) = Of(c)
    <3> SUFFICES ASSUME NEW c PROVE SubAction([p EXCEPT !.ops = <<c>>], 1) = Of(c)
      OBVIOUS
    <3>1. PICK r : r = [p EXCEPT !.ops = <<c>>]
      OBVIOUS
    <3>2. r = [tool |-> p.tool, payload |-> p.payload, ops |-> <<c>>]
      BY <2>6, <3>1
    <3>3. r.tool = p.tool /\ r.payload = p.payload /\ r.ops[1] = c
      BY <3>2
    <3> QED BY <3>1, <3>3 DEF SubAction
  <2>8. \A n : SubAction(p, n) = Of(p.ops[n])
    BY DEF SubAction
  <2> HIDE DEF Of
  <2>9. made = {Of(c) : c \in ChangesOf(d)}
    BY <2>2, <2>7
  <2>10. DOMAIN p.ops = 1..Len(p.ops) /\ DOMAIN subs = DOMAIN p.ops
    BY <2>1, <2>2, <2>5
  <2>11. \A n \in DOMAIN p.ops : subs[n] = Of(p.ops[n])
    BY <2>1, <2>2, <2>8
  <2>12. PICK S : S = {subs[m] : m \in DOMAIN subs}
    OBVIOUS
  <2>13. result.kind = Verdict(ledger, S)
    BY <2>12, DoneDecides, DecidesVerdict
  <2>14. made \subseteq S
    <3> SUFFICES ASSUME NEW c \in ChangesOf(d) PROVE Of(c) \in S
      BY <2>9
    <3>1. PICK n \in 1..Len(p.ops) : p.ops[n] = c
      BY <2>5 DEF Has
    <3> QED BY <2>10, <2>11, <2>12, <3>1
  <2>15. ASSUME Clear(d) PROVE S \subseteq made
    <3> SUFFICES ASSUME NEW n \in DOMAIN p.ops PROVE Of(p.ops[n]) \in made
      BY <2>10, <2>11, <2>12
    <3>1. Has(p.ops, p.ops[n])
      BY <2>10 DEF Has
    <3> QED BY <2>5, <2>9, <2>15, <3>1
  <2>16. AtLeast(Verdict(ledger, S), Verdict(ledger, made))
    BY <2>14, MoreActions
  <2>17. ASSUME Clear(d) PROVE AtLeast(Verdict(ledger, made), Verdict(ledger, S))
    BY <2>15, <2>17, MoreActions
  <2> QED BY <2>13, <2>16, <2>17
<1> QED BY <1>1, Inductive, PTL

--------------------------------------------------------------------------------
(* Commands and tools.                                                     *)

(* A program that writes and is not hidden in its stage gets the stage     *)
(* refused,                                                                *)
LEMMA WriterRefused ==
    ASSUME NEW s \in Stage, NEW r \in s.runs, r.writes # {}, ~Hidden(s, r)
    PROVE  OpaqueStage(s)
<1>1. r \in Command /\ r.marks \subseteq s.marks
  BY DEF Stage
<1>2. CanWrite(r)
  BY <1>1 DEF Command
<1>3. CASE r.marks \cap {"dynamic", "evaluation", "redirect"} # {}
  BY <1>1, <1>3 DEF OpaqueStage
<1>4. CASE r.marks \cap {"dynamic", "evaluation", "redirect"} = {}
  <2>1. r.program = s.program /\ "output" \notin r.marks
    BY <1>4 DEF Hidden
  <2>2. \/ r.program = "find" /\ "option" \in r.marks
        \/ r.program \in {"git_other", "interpreter", "mutator", "unknown"}
    BY <1>2, <1>4, <2>1 DEF CanWrite
  <2> QED BY <1>1, <2>1, <2>2 DEF OpaqueStage
<1> QED BY <1>3, <1>4

(* and a stage none of whose programs can write is passed, unless it looks *)
(* like a deletion.                                                        *)
LEMMA ReaderPassed ==
    ASSUME NEW s \in Stage, "wildcard" \notin s.marks,
           \A r \in s.runs : r.program = s.program /\ ~CanWrite(r)
    PROVE  ~OpaqueStage(s) /\ s.program # "interpreter"
<1>1. s.runs # {} /\ \A m \in s.marks \ {"wildcard"} : \E r \in s.runs : m \in r.marks
  BY DEF Stage
<1>2. PICK r \in s.runs : TRUE
  BY <1>1
<1>3. s.program \notin {"git_other", "interpreter", "mutator", "unknown"}
  BY <1>2 DEF CanWrite
<1>4. s.marks \cap {"dynamic", "evaluation", "redirect", "wildcard"} = {}
  BY <1>1 DEF CanWrite
<1>5. ~(s.program = "find" /\ "option" \in s.marks)
  BY <1>1 DEF CanWrite
<1> QED BY <1>3, <1>4, <1>5 DEF OpaqueStage

(* So a shell command that may write is not read, and one that cannot is   *)
(* left to SpecGuard.                                                      *)
LEMMA ReadingOfCalls ==
    ASSUME NEW x \in ToolInput
    PROVE  /\ IsShellTool(x.tool) /\ MayWrite(x) # {} => Unreadable(x)
           /\ Harmless(x) => ~Unreadable(x)
<1>1. \A n \in DOMAIN x.commands :
         /\ \A m \in DOMAIN x.commands[n] : x.commands[n][m] \in Stage
         /\ Range(x.commands[n]) = {x.commands[n][m] : m \in DOMAIN x.commands[n]}
  BY DEF ToolInput, Range
<1>2. ASSUME IsShellTool(x.tool), MayWrite(x) # {} PROVE Unreadable(x)
  <2>1. \E s \in Stages(x) : WritesOf(s) # {}
    BY <1>2 DEF MayWrite, IsShellTool
  <2>2. PICK n \in DOMAIN x.commands :
           \E m \in DOMAIN x.commands[n] : WritesOf(x.commands[n][m]) # {}
    BY <1>1, <2>1 DEF Stages
  <2>3. PICK m \in DOMAIN x.commands[n] : WritesOf(x.commands[n][m]) # {}
    BY <2>2
  <2>4. PICK s : s = x.commands[n][m]
    OBVIOUS
  <2>5. \E r \in s.runs : r.writes # {} /\ ~Hidden(s, r)
    BY <2>3, <2>4 DEF WritesOf
  <2>6. OpaqueStage(s)
    BY <1>1, <2>4, <2>5, WriterRefused
  <2> QED BY <1>2, <2>4, <2>6 DEF Unreadable, IsOpaque, OpaqueCommand
<1>3. ASSUME Harmless(x), Unreadable(x) PROVE FALSE
  <2>1. IsShellTool(x.tool) /\ IsOpaque(x.commands)
    BY <1>3 DEF Harmless, Unreadable
  <2>2. PICK n \in DOMAIN x.commands : \E m \in DOMAIN x.commands[n] :
          \/ OpaqueStage(x.commands[n][m])
          \/ Len(x.commands[n]) > 1 /\ x.commands[n][m].program \in {"interpreter", "module_runner"}
    BY <2>1 DEF IsOpaque, OpaqueCommand
  <2>3. PICK m \in DOMAIN x.commands[n] :
          \/ OpaqueStage(x.commands[n][m])
          \/ Len(x.commands[n]) > 1 /\ x.commands[n][m].program \in {"interpreter", "module_runner"}
    BY <2>2
  <2>4. PICK s : s = x.commands[n][m]
    OBVIOUS
  <2>5. /\ "wildcard" \notin s.marks
        /\ \A r \in s.runs : r.program = s.program /\ ~CanWrite(r)
        /\ Len(x.commands[n]) > 1 => s.program # "module_runner"
    BY <1>1, <1>3, <2>1, <2>4 DEF Harmless
  <2>6. ~OpaqueStage(s) /\ s.program # "interpreter"
    BY <1>1, <2>4, <2>5, ReaderPassed
  <2> QED BY <2>3, <2>4, <2>5, <2>6
<1> QED BY <1>2, <1>3

(* A file that a HARD rule protects is not written by any tool, command,   *)
(* chain or pipeline whose text shows the write, and what cannot write is  *)
(* left to the rules: for commands and rules of any number; not so for     *)
(* programs hidden in a stage that seems to read or test                   *)
(* (handle_pre_tool_use over to_action and is_opaque_destructive_command). *)
THEOREM WritesAreStopped == Spec => []WritesStopped
<1>1. GuardInv => WritesStopped
  <2> SUFFICES ASSUME GuardInv, Done, call.kind = "pre", NEW x \in ReadAs[call.action]
               PROVE  /\ \A n \in DOMAIN ledger, p \in MayWrite(x) :
                            ProtectsFromWrites(ledger[n], p) => Answer(x, result.kind) = "BLOCK"
                      /\ Harmless(x) => Answer(x, result.kind) = result.kind
    BY DEF WritesStopped
  <2>1. call.action \in Actions /\ subs = <<call.action>>
    BY DEF GuardInv, CallInv
  <2>2. x \in ToolInputs /\ x \in ToolInput /\ ToAction(x) = call.action
    BY <2>1, ToolAssumption DEF ReadAs
  <2>3. ASSUME Harmless(x) PROVE Answer(x, result.kind) = result.kind
    BY <2>2, <2>3, ReadingOfCalls DEF Answer
  <2>4. ASSUME NEW n \in DOMAIN ledger, NEW p \in MayWrite(x), ProtectsFromWrites(ledger[n], p)
        PROVE  Answer(x, result.kind) = "BLOCK"
    <3>1. HardFs # {}
      BY <2>4 DEF HardFs, ProtectsFromWrites
    <3>2. MayWrite(x) # {}
      BY <2>4
    <3>3. CASE Unreadable(x)
      BY <3>1, <3>3 DEF Answer
    <3>4. CASE ~Unreadable(x)
      <4>1. ~IsPatchTool(x.tool) /\ ~IsShellTool(x.tool)
        BY <2>2, <3>2, <3>4, ReadingOfCalls DEF Unreadable
      <4>2. "write" \in Says[x.tool] /\ x.named = p /\ p # None
        BY <2>4, <4>1 DEF MayWrite
      <4>3. PICK a : a = call.action
        OBVIOUS
      <4>4. a = OtherAction(x)
        BY <2>2, <4>1, <4>3 DEF ToAction
      <4>5. a.kind = "FILE_WRITE" /\ a.paths = {p} \ {None}
        BY <4>2, <4>4 DEF OtherAction, KindOf
      <4>6. "write" \in VerbsOf(a) /\ p \in a.paths
        BY <4>2, <4>5 DEF VerbsOf, KindVerbs, Kinds
      <4>7. MatchScope(ledger[n].scope, a)
        <5>1. SelectorsMatch(ledger[n].scope, a)
          BY <2>4 DEF SelectorsMatch, ProtectsFromWrites, NoFields
        <5>2. ActionMatches(ledger[n].scope, a)
          BY <2>4, <4>6 DEF ActionMatches, ProtectsFromWrites
        <5>3. PathMatches(ledger[n].scope, a)
          BY <2>4, <4>6 DEF PathMatches, ProtectsFromWrites
        <5> QED BY <2>4, <5>1, <5>2, <5>3
                DEF MatchScope, TargetMatches, ToolMatches, ProtectsFromWrites
      <4>8. Broken(ledger[n], a) /\ Binding(ledger[n])
        BY <2>4, <4>7 DEF Broken, Applies, Binding, ProtectsFromWrites
      <4>9. 1 \in DOMAIN subs /\ subs[1] = a
        BY <2>1, <4>3
      <4>10. result.kind = "BLOCK"
        BY <4>8, <4>9, DoneDecides DEF Decides
      <4> QED BY <4>10 DEF Answer
    <3> QED BY <3>3, <3>4
  <2> QED BY <2>3, <2>4
<1> QED BY <1>1, Inductive, PTL
================================================================================
