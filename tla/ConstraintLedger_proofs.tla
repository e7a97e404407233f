----------------------- MODULE ConstraintLedger_proofs -----------------------
(***************************************************************************)
(* Proofs about ConstraintLedger, for every set of identifiers.            *)
(***************************************************************************)
EXTENDS TLAPS, WellFoundedInduction, ConstraintLedger

USE NoIdAssumption

(* Registering an id that is not yet a key keeps the keys distinct and the *)
(* order of the keys there were (the dictionary's insertion order).        *)
LEMMA AppendOrder ==
    ASSUME NEW o \in Seq(Ids), NEW r \in Ids,
           \A i \in 1..Len(o) : o[i] # r,
           \A i, j \in 1..Len(o) : o[i] = o[j] => i = j
    PROVE  LET p == Append(o, r) IN
           /\ p \in Seq(Ids)
           /\ \A i, j \in 1..Len(p) : p[i] = p[j] => i = j
           /\ \A c \in Ids : (\E i \in 1..Len(p) : p[i] = c)
                               <=> (c = r \/ \E i \in 1..Len(o) : o[i] = c)
           /\ \A c, d \in Ids : Before(o, c, d) => Before(p, c, d)
           /\ \A c \in Ids : (\E i \in 1..Len(o) : o[i] = c) => Before(p, c, r)
<1> DEFINE p == Append(o, r)
<1>1. /\ p \in Seq(Ids)
      /\ Len(p) = Len(o) + 1
      /\ Len(o) \in Nat
      /\ \A i \in 1..Len(o) : p[i] = o[i]
      /\ p[Len(o) + 1] = r
  OBVIOUS
<1> HIDE DEF p
<1>2. \A i \in 1..Len(p) : i \in 1..Len(o) \/ i = Len(o) + 1
  BY <1>1
<1>3. \A i \in 1..Len(o) : i \in 1..Len(p) /\ i < Len(o) + 1
  BY <1>1
<1>3a. Len(o) + 1 \in 1..Len(p)
  BY <1>1
<1>4. \A i, j \in 1..Len(p) : p[i] = p[j] => i = j
  BY <1>1, <1>2
<1>5. \A c \in Ids : (\E i \in 1..Len(p) : p[i] = c)
                       <=> (c = r \/ \E i \in 1..Len(o) : o[i] = c)
  BY <1>1, <1>2, <1>3, <1>3a
<1>6. \A c, d \in Ids : Before(o, c, d) => Before(p, c, d)
  BY <1>1, <1>3 DEF Before
<1>7. \A c \in Ids : (\E i \in 1..Len(o) : o[i] = c) => Before(p, c, r)
  BY <1>1, <1>3, <1>3a DEF Before
<1> QED
  BY <1>1, <1>4, <1>5, <1>6, <1>7 DEF p

(* The fields of the two records supersede() writes.                       *)
LEMMA SupersedeRecords ==
    ASSUME NEW c \in Ids, NEW d \in Ids, record[c] \in Record
    PROVE  /\ Superseded(c, d) \in Record
           /\ Superseded(c, d).status = "SUPERSEDED"
           /\ Superseded(c, d).supersedes = record[c].supersedes
           /\ Superseded(c, d).supersededBy = d
           /\ Superseded(c, d).conflictsWith = record[c].conflictsWith
           /\ Replacement(c) \in Record
           /\ Replacement(c).status = "ACTIVE"
           /\ Replacement(c).supersedes = c
           /\ Replacement(c).supersededBy = NoId
           /\ Replacement(c).conflictsWith = {}
<1> DEFINE u == [record[c] EXCEPT !.status = "SUPERSEDED"]
<1>1. /\ u \in Record
      /\ u.status = "SUPERSEDED"
      /\ u.supersedes = record[c].supersedes
      /\ u.conflictsWith = record[c].conflictsWith
  BY DEF Record, Status
<1>2. Superseded(c, d) = [u EXCEPT !.supersededBy = d]
  BY DEF Superseded, Record
<1> HIDE DEF u
<1> DEFINE w == [u EXCEPT !.supersededBy = d]
<1>3. /\ w \in Record
      /\ w.status = u.status
      /\ w.supersedes = u.supersedes
      /\ w.supersededBy = d
      /\ w.conflictsWith = u.conflictsWith
  BY <1>1 DEF Record, Status
<1>4. /\ Replacement(c) \in Record
      /\ Replacement(c).status = "ACTIVE"
      /\ Replacement(c).supersedes = c
      /\ Replacement(c).supersededBy = NoId
      /\ Replacement(c).conflictsWith = {}
  BY DEF Replacement, Unlinked, Record, Status
<1> QED
  BY <1>1, <1>2, <1>3, <1>4

(* Every step keeps the variables well typed.                              *)
LEMMA TypeStep == TypeOK /\ [Next]_vars => TypeOK'
<1> SUFFICES ASSUME TypeOK, [Next]_vars PROVE TypeOK'
  OBVIOUS
<1> USE DEF TypeOK, Record, Status
<1>1. ASSUME NEW c \in Ids, Add(c) PROVE TypeOK'
  BY <1>1 DEF Add, Unlinked
<1>2. ASSUME NEW c \in Ids, Revoke(c) PROVE TypeOK'
  BY <1>2 DEF Revoke
<1>3. ASSUME NEW c \in Ids, ResolveConflict(c) PROVE TypeOK'
  BY <1>3 DEF ResolveConflict
<1>4. ASSUME NEW c \in Ids, NEW d \in Ids, Supersede(c, d) PROVE TypeOK'
  <2>1. Superseded(c, d) \in Record /\ Replacement(c) \in Record
    BY SupersedeRecords
  <2>3. record' \in [Ids -> Record]
    BY <1>4, <2>1 DEF Supersede
  <2>4. order' \in Seq(Ids)
    BY <1>4 DEF Supersede
  <2> QED
    BY <1>4, <2>3, <2>4 DEF Supersede
<1>5. ASSUME NEW c \in Ids, NEW d \in Ids, MarkConflicted(c, d) PROVE TypeOK'
  BY <1>5 DEF MarkConflicted
<1>6. CASE TakeSnapshot
  BY <1>6 DEF TakeSnapshot
<1>7. CASE FromSnapshot
  BY <1>7 DEF FromSnapshot
<1>8. CASE UNCHANGED vars
  BY <1>8 DEF vars
<1> QED
  BY <1>1, <1>2, <1>3, <1>4, <1>5, <1>6, <1>7, <1>8 DEF Next

(* The ledger starts well typed and every operation keeps it so.           *)
THEOREM TypeCorrect == Spec => []TypeOK
<1>1. Init => TypeOK
  BY DEF Init, TypeOK, Record, Status, AbsentRecord, Unlinked
<1> QED
  BY <1>1, TypeStep, PTL DEF Spec

-----------------------------------------------------------------------------
(* The lineage.                                                            *)

(* A step that keeps every link, and neither registers nor supersedes      *)
(* anything, keeps the lineage well formed.                                *)
KeepsLinks(rec, rec2) ==
    \A x \in Ids :
        /\ rec2[x].supersedes = rec[x].supersedes
        /\ rec2[x].supersededBy = rec[x].supersededBy
        /\ rec2[x].status = "ABSENT" <=> rec[x].status = "ABSENT"
        /\ rec2[x].status = "SUPERSEDED" <=> rec[x].status = "SUPERSEDED"
        /\ rec[x].status = "ABSENT" => rec2[x] = rec[x]

LEMMA LineageStable ==
    ASSUME NEW rec \in [Ids -> Record], NEW rec2 \in [Ids -> Record],
           NEW o \in Seq(Ids), LineageOf(rec, o), KeepsLinks(rec, rec2)
    PROVE  LineageOf(rec2, o)
<1> USE DEF KeepsLinks
<1>1. RegisteredOnce(rec2, o)
  BY DEF LineageOf, RegisteredOnce
<1>2. SuccessorIffSuperseded(rec2)
  BY DEF LineageOf, SuccessorIffSuperseded
<1>3. LinksInverse(rec2)
  BY DEF LineageOf, LinksInverse
<1>4. LinksForward(rec2, o)
  BY DEF LineageOf, LinksForward
<1> QED
  BY <1>1, <1>2, <1>3, <1>4 DEF LineageOf

(* Registering an unlinked ACTIVE record under a new id.                   *)
LEMMA LineageAdd ==
    ASSUME NEW rec \in [Ids -> Record], NEW o \in Seq(Ids), LineageOf(rec, o),
           NEW c \in Ids, rec[c].status = "ABSENT"
    PROVE  LineageOf([rec EXCEPT ![c] = Unlinked("ACTIVE")], Append(o, c))
<1> DEFINE new == [rec EXCEPT ![c] = Unlinked("ACTIVE")]
           p == Append(o, c)
<1> USE DEF LineageOf, RegisteredOnce
<1>1. \A i \in 1..Len(o) : o[i] # c
  OBVIOUS
<1>2. /\ p \in Seq(Ids)
      /\ \A i, j \in 1..Len(p) : p[i] = p[j] => i = j
      /\ \A x \in Ids : (\E i \in 1..Len(p) : p[i] = x)
                           <=> (x = c \/ \E i \in 1..Len(o) : o[i] = x)
      /\ \A x, y \in Ids : Before(o, x, y) => Before(p, x, y)
  BY <1>1, AppendOrder
<1>3. /\ new[c].status = "ACTIVE"
      /\ new[c].supersedes = NoId
      /\ new[c].supersededBy = NoId
      /\ \A x \in Ids \ {c} : new[x] = rec[x]
  BY DEF Unlinked
<1>4. rec[c].supersedes = NoId /\ rec[c].supersededBy = NoId
  BY DEF AbsentRecord, Unlinked
<1> HIDE DEF new, p
<1>5. RegisteredOnce(new, p)
  <2>1. ASSUME NEW x \in Ids
        PROVE  new[x].status # "ABSENT" <=> \E i \in 1..Len(p) : p[i] = x
    <3>1. CASE x = c
      BY <1>2, <1>3, <3>1
    <3>2. CASE x # c
      BY <1>2, <1>3, <3>2
    <3> QED
      BY <3>1, <3>2
  <2>2. \A x \in Ids : new[x].status = "ABSENT" => new[x] = AbsentRecord
    BY <1>3
  <2> QED
    BY <1>2, <2>1, <2>2
<1>6. SuccessorIffSuperseded(new)
  BY <1>3 DEF SuccessorIffSuperseded
<1>7. LinksInverse(new)
  BY <1>3, <1>4 DEF LinksInverse
<1>8. LinksForward(new, p)
  BY <1>2, <1>3 DEF LinksForward
<1>9. LineageOf(new, p)
  BY <1>5, <1>6, <1>7, <1>8
<1> QED
  BY <1>9 DEF new, p

(* Retiring a registered record c, which is not yet superseded, in favour  *)
(* of a new id r.                                                          *)
LEMMA LineageSupersede ==
    ASSUME NEW rec \in [Ids -> Record], NEW o \in Seq(Ids), LineageOf(rec, o),
           NEW c \in Ids, NEW r \in Ids,
           rec[c].status \notin {"ABSENT", "SUPERSEDED"}, rec[r].status = "ABSENT",
           NEW new \in [Ids -> Record],
           \A x \in Ids \ {c, r} : new[x] = rec[x],
           new[c].status = "SUPERSEDED", new[c].supersededBy = r,
           new[c].supersedes = rec[c].supersedes,
           new[r].status = "ACTIVE", new[r].supersedes = c, new[r].supersededBy = NoId
    PROVE  LineageOf(new, Append(o, r))
<1> DEFINE p == Append(o, r)
<1> USE DEF LineageOf, RegisteredOnce
<1>1. \A i \in 1..Len(o) : o[i] # r
  OBVIOUS
<1>2. /\ p \in Seq(Ids)
      /\ \A i, j \in 1..Len(p) : p[i] = p[j] => i = j
      /\ \A x \in Ids : (\E i \in 1..Len(p) : p[i] = x)
                           <=> (x = r \/ \E i \in 1..Len(o) : o[i] = x)
      /\ \A x, y \in Ids : Before(o, x, y) => Before(p, x, y)
      /\ \A x \in Ids : (\E i \in 1..Len(o) : o[i] = x) => Before(p, x, r)
  BY <1>1, AppendOrder
<1>3. /\ rec[r].supersedes = NoId /\ rec[r].supersededBy = NoId
      /\ rec[c].supersededBy = NoId
      /\ c # r
  BY DEF SuccessorIffSuperseded, AbsentRecord, Unlinked
<1> HIDE DEF p
<1>4. RegisteredOnce(new, p)
  <2>1. ASSUME NEW x \in Ids
        PROVE  new[x].status # "ABSENT" <=> \E i \in 1..Len(p) : p[i] = x
    <3>1. CASE x = c
      BY <1>2, <1>3, <3>1
    <3>2. CASE x = r
      BY <1>2, <1>3, <3>2
    <3>3. CASE x \notin {c, r}
      BY <1>2, <3>3
    <3> QED
      BY <3>1, <3>2, <3>3
  <2>2. \A x \in Ids : new[x].status = "ABSENT" => new[x] = AbsentRecord
    OBVIOUS
  <2> QED
    BY <1>2, <2>1, <2>2
<1>5. SuccessorIffSuperseded(new)
  BY <1>3 DEF SuccessorIffSuperseded
<1>6. Before(p, c, r)
  BY <1>2
<1>7. LinksInverse(new)
  BY <1>3 DEF LinksInverse
<1>8. LinksForward(new, p)
  BY <1>2, <1>3, <1>6 DEF LinksForward
<1> QED
  BY <1>4, <1>5, <1>7, <1>8 DEF p

(* Supersession links form disjoint finite chains in every reachable       *)
(* ledger and snapshot, whatever the calls.                                *)
THEOREM LineageCorrect == Spec => []LineageInv
<1>1. Init => LineageInv
  BY DEF Init, LineageInv, LineageOf, RegisteredOnce, SuccessorIffSuperseded,
         LinksInverse, LinksForward, AbsentRecord, Unlinked
<1>2. TypeOK /\ LineageInv /\ [Next]_vars => LineageInv'
  <2> SUFFICES ASSUME TypeOK, LineageInv, [Next]_vars
               PROVE  LineageInv'
    OBVIOUS
  <2>0. /\ record \in [Ids -> Record] /\ order \in Seq(Ids)
        /\ snap.record \in [Ids -> Record] /\ snap.order \in Seq(Ids)
        /\ LineageOf(record, order) /\ LineageOf(snap.record, snap.order)
    BY DEF TypeOK, LineageInv
  <2>t. TypeOK'
    BY TypeStep
  <2>1. ASSUME NEW c \in Ids, Add(c) PROVE LineageInv'
    BY <2>0, <2>1, LineageAdd DEF Add, Present, LineageInv
  <2>2. ASSUME NEW c \in Ids, Revoke(c) PROVE LineageInv'
    <3>1. record[c].status \in {"ACTIVE", "CONFLICTED"}
      BY <2>2 DEF Revoke, CanTransition, AllowedTransitions
    <3>2. KeepsLinks(record, record')
      BY <2>0, <2>2, <3>1 DEF Revoke, Record, KeepsLinks
    <3>3. LineageOf(record', order)
      BY <2>0, <2>t, <3>2, LineageStable DEF TypeOK
    <3> QED
      BY <2>0, <2>2, <3>3 DEF Revoke, LineageInv
  <2>3. ASSUME NEW c \in Ids, ResolveConflict(c) PROVE LineageInv'
    <3>1. record[c].status = "CONFLICTED"
      BY <2>3 DEF ResolveConflict, CanTransition, AllowedTransitions
    <3>2. KeepsLinks(record, record')
      BY <2>0, <2>3, <3>1 DEF ResolveConflict, Record, KeepsLinks
    <3>3. LineageOf(record', order)
      BY <2>0, <2>t, <3>2, LineageStable DEF TypeOK
    <3> QED
      BY <2>0, <2>3, <3>3 DEF ResolveConflict, LineageInv
  <2>4. ASSUME NEW c \in Ids, NEW d \in Ids, Supersede(c, d) PROVE LineageInv'
    <3>1. record[c].status \in {"ACTIVE", "CONFLICTED"} /\ record[d].status = "ABSENT" /\ c # d
      BY <2>4 DEF Supersede, CanTransition, AllowedTransitions, Present
    <3>2. /\ record'[c] = Superseded(c, d)
          /\ record'[d] = Replacement(c)
          /\ \A x \in Ids \ {c, d} : record'[x] = record[x]
      BY <2>0, <2>4, <3>1 DEF Supersede
    <3>3. /\ record'[c].status = "SUPERSEDED" /\ record'[c].supersededBy = d
          /\ record'[c].supersedes = record[c].supersedes
          /\ record'[d].status = "ACTIVE" /\ record'[d].supersedes = c
          /\ record'[d].supersededBy = NoId
      BY <2>0, <3>2, SupersedeRecords
    <3>4. record' \in [Ids -> Record]
      BY <2>t DEF TypeOK
    <3>5. LineageOf(record', Append(order, d))
      BY <2>0, <3>1, <3>2, <3>3, <3>4, LineageSupersede
    <3> QED
      BY <2>0, <2>4, <3>5 DEF Supersede, LineageInv
  <2>5. ASSUME NEW c \in Ids, NEW d \in Ids, MarkConflicted(c, d) PROVE LineageInv'
    <3>1. record[c].status = "ACTIVE"
      BY <2>5 DEF MarkConflicted, CanTransition, AllowedTransitions
    <3>2. KeepsLinks(record, record')
      BY <2>0, <2>5, <3>1 DEF MarkConflicted, Record, KeepsLinks
    <3>3. LineageOf(record', order)
      BY <2>0, <2>t, <3>2, LineageStable DEF TypeOK
    <3> QED
      BY <2>0, <2>5, <3>3 DEF MarkConflicted, LineageInv
  <2>6. CASE TakeSnapshot
    BY <2>6 DEF TakeSnapshot, LineageInv
  <2>7. CASE FromSnapshot
    BY <2>7 DEF FromSnapshot, LineageInv
  <2>8. CASE UNCHANGED vars
    BY <2>8 DEF vars, LineageInv
  <2> QED
    BY <2>1, <2>2, <2>3, <2>4, <2>5, <2>6, <2>7, <2>8 DEF Next
<1> QED
  BY <1>1, <1>2, TypeCorrect, PTL DEF Spec

-----------------------------------------------------------------------------
(* Histories.  get_history never meets an id twice and is never cut short: *)
(* along a link the position in the key order only falls (backward) or     *)
(* only rises (forward), which is the rank the walk lemmas count with.     *)

(* A path of ids that starts at c and follows the links.                   *)
Chain(s, c, link) ==
    /\ s \in Seq(Ids) /\ Len(s) >= 1
    /\ s[1] = c
    /\ \A i \in 1..Len(s) - 1 : s[i+1] = link[s[i]]
Complete(s, link) == link[s[Len(s)]] = NoId

Descends(link, rank) ==
    \A x \in Ids : link[x] # NoId => rank[link[x]] < rank[x]

(* What the path has been through is counted by the rank it has lost.      *)
Ranked(s, c, rank) ==
    /\ \A i \in 1..Len(s) : rank[s[Len(s)]] <= rank[s[i]]
    /\ rank[s[Len(s)]] + Len(s) <= rank[c] + 1

WalkOf(f, c, link, L) ==
    f = [n \in 0..L |-> IF n = 0 THEN <<c>> ELSE Extend(f[n-1], link)]

(* A set of numbers that is not empty has a least one.                     *)
LEMMA LeastNumber ==
    ASSUME NEW T \in SUBSET Nat, T # {}
    PROVE  \E n \in T : \A m \in T : ~(m < n)
<1>1. PICK n \in T : \A m \in T : ~(<<m, n>> \in OpToRel(<, Nat))
  BY NatLessThanWellFounded, WFMin
<1> QED
  BY <1>1 DEF OpToRel

(* The recursive definition of the walk has a solution of every length.    *)
LEMMA WalkExists ==
    ASSUME NEW c \in Ids, NEW link, NEW L \in Nat
    PROVE  \E f : WalkOf(f, c, link, L)
<1> DEFINE T == {l \in Nat : ~ \E f : WalkOf(f, c, link, l)}
<1>1. ASSUME T # {} PROVE FALSE
  <2>1. PICK l \in T : \A m \in T : ~(m < l)
    <3>1. T \in SUBSET Nat
      OBVIOUS
    <3> HIDE DEF T
    <3> QED
      BY <1>1, <3>1, LeastNumber
  <2>2. CASE l = 0
    <3>1. WalkOf([n \in 0..0 |-> <<c>>], c, link, 0)
      BY DEF WalkOf
    <3> QED
      BY <2>1, <2>2, <3>1
  <2>3. CASE l # 0
    <3>1. l \in Nat /\ l - 1 \in Nat /\ l - 1 < l
      BY <2>1, <2>3
    <3>2. PICK g : WalkOf(g, c, link, l - 1)
      BY <2>1, <3>1
    <3> DEFINE f == [n \in 0..l |-> IF n = 0 THEN <<c>> ELSE Extend(g[n-1], link)]
    <3>3. ASSUME NEW m \in 0..l - 1 PROVE f[m] = g[m]
      BY <3>1, <3>2 DEF WalkOf
    <3>4. ASSUME NEW n \in 0..l, n # 0 PROVE f[n-1] = g[n-1]
      BY <3>1, <3>3, <3>4
    <3>5. f = [n \in 0..l |-> IF n = 0 THEN <<c>> ELSE Extend(f[n-1], link)]
      BY <3>4
    <3>6. WalkOf(f, c, link, l)
      BY <3>5 DEF WalkOf
    <3> QED
      BY <2>1, <3>6
  <2> QED
    BY <2>2, <2>3
<1> QED
  BY <1>1

(* One step of a walk along links that lose rank.                          *)
LEMMA ExtendStep ==
    ASSUME NEW c \in Ids, NEW link \in [Ids -> Ids \cup {NoId}],
           NEW rank \in [Ids -> Nat], Descends(link, rank),
           NEW s, Chain(s, c, link), Ranked(s, c, rank)
    PROVE  LET t == Extend(s, link) IN
           /\ Chain(t, c, link) /\ Ranked(t, c, rank)
           /\ IF Complete(s, link) THEN t = s ELSE Len(t) = Len(s) + 1
<1> DEFINE last == s[Len(s)]
           next == link[last]
<1>1. s \in Seq(Ids) /\ Len(s) \in Nat /\ Len(s) >= 1 /\ last \in Ids
  BY DEF Chain
<1>2. CASE next = NoId
  BY <1>2 DEF Extend, Complete
<1>3. CASE next # NoId
  <2>1. next \in Ids /\ rank[next] < rank[last]
    BY <1>1, <1>3 DEF Descends
  <2>2. ~InPath(s, next)
    <3>1. \A i \in 1..Len(s) : s[i] \in Ids /\ rank[last] <= rank[s[i]]
      BY <1>1 DEF Ranked
    <3>2. rank[next] \in Nat /\ rank[last] \in Nat
      BY <1>1, <2>1
    <3>3. \A i \in 1..Len(s) : s[i] # next
      BY <2>1, <3>1, <3>2
    <3> QED
      BY <3>3 DEF InPath
  <2>3. Extend(s, link) = Append(s, next) /\ ~Complete(s, link)
    BY <1>3, <2>2 DEF Extend, Complete
  <2> DEFINE t == Append(s, next)
  <2>4. /\ t \in Seq(Ids) /\ Len(t) = Len(s) + 1
        /\ \A i \in 1..Len(s) : t[i] = s[i]
        /\ t[Len(s) + 1] = next
    BY <1>1, <2>1
  <2> HIDE DEF t, next, last
  <2>5. ASSUME NEW i \in 1..Len(t) - 1 PROVE t[i+1] = link[t[i]]
    <3>1. i \in 1..Len(s) /\ t[i] = s[i]
      BY <1>1, <2>4
    <3>2. CASE i = Len(s)
      BY <2>4, <3>1, <3>2 DEF next, last
    <3>3. CASE i # Len(s)
      <4>1. i \in 1..Len(s) - 1 /\ i + 1 \in 1..Len(s)
        BY <1>1, <3>1, <3>3
      <4>2. s[i+1] = link[s[i]]
        BY <4>1 DEF Chain
      <4> QED
        BY <2>4, <3>1, <4>1, <4>2
    <3> QED
      BY <3>2, <3>3
  <2>6. Chain(t, c, link)
    <3>1. t[1] = c /\ Len(t) >= 1
      BY <1>1, <2>4 DEF Chain
    <3> QED
      BY <2>4, <2>5, <3>1 DEF Chain
  <2>7. Ranked(t, c, rank)
    <3>1. rank[next] \in Nat /\ rank[last] \in Nat /\ rank[c] \in Nat
      BY <1>1, <2>1
    <3>2. rank[last] + Len(s) <= rank[c] + 1
      BY DEF Ranked, last
    <3>3. rank[next] + Len(t) <= rank[c] + 1
      BY <1>1, <2>1, <2>4, <3>1, <3>2
    <3>4. ASSUME NEW i \in 1..Len(t) PROVE rank[next] <= rank[t[i]]
      <4>1. CASE i = Len(s) + 1
        BY <2>4, <3>1, <4>1
      <4>2. CASE i # Len(s) + 1
        <5>1. i \in 1..Len(s) /\ t[i] = s[i] /\ s[i] \in Ids
          BY <1>1, <2>4, <4>2
        <5>2. rank[last] <= rank[s[i]] /\ rank[s[i]] \in Nat
          BY <5>1 DEF Ranked, last
        <5> QED
          BY <2>1, <3>1, <5>1, <5>2
      <4> QED
        BY <4>1, <4>2
    <3> QED
      BY <2>4, <3>3, <3>4 DEF Ranked
  <2> QED
    BY <2>3, <2>4, <2>6, <2>7 DEF t
<1> QED
  BY <1>2, <1>3

(* A walk along links that lose rank reaches the end of its chain, and     *)
(* Len(order) steps suffice when no rank is larger than that.              *)
LEMMA WalkReachesEnd ==
    ASSUME NEW c \in Ids, NEW link \in [Ids -> Ids \cup {NoId}],
           NEW rank \in [Ids -> Nat], Descends(link, rank),
           order \in Seq(Ids), rank[c] <= Len(order)
    PROVE  Chain(Walk(c, link), c, link) /\ Complete(Walk(c, link), link)
<1> DEFINE L == Len(order)
<1>1. L \in Nat
  OBVIOUS
<1> HIDE DEF L
<1> DEFINE f == CHOOSE g : WalkOf(g, c, link, L)
<1>2. WalkOf(f, c, link, L)
  BY <1>1, WalkExists
<1>3. Walk(c, link) = f[L]
  BY DEF Walk, WalkOf, L
<1> HIDE DEF f
<1>4. f[0] = <<c>> /\ \A n \in 1..L : f[n] = Extend(f[n-1], link)
  BY <1>1, <1>2 DEF WalkOf
<1> DEFINE Good(n) == /\ Chain(f[n], c, link) /\ Ranked(f[n], c, rank)
                      /\ Complete(f[n], link) \/ Len(f[n]) = n + 1
           T == {n \in 0..L : ~Good(n)}
<1>5. Good(0)
  <2>1. <<c>> \in Seq(Ids) /\ Len(<<c>>) = 1 /\ <<c>>[1] = c
    OBVIOUS
  <2>2. rank[c] \in Nat
    OBVIOUS
  <2> QED
    BY <1>4, <2>1, <2>2 DEF Chain, Ranked
<1>6. ASSUME NEW n \in 1..L, Good(n-1) PROVE Good(n)
  <2> DEFINE s == f[n-1]
  <2>1. /\ Chain(s, c, link) /\ Ranked(s, c, rank)
        /\ Complete(s, link) \/ Len(s) = (n - 1) + 1
    BY <1>6
  <2>2. f[n] = Extend(s, link)
    BY <1>4
  <2> HIDE DEF s
  <2>3. /\ Chain(f[n], c, link) /\ Ranked(f[n], c, rank)
        /\ IF Complete(s, link) THEN f[n] = s ELSE Len(f[n]) = Len(s) + 1
    BY <2>1, <2>2, ExtendStep
  <2>4. Complete(f[n], link) \/ Len(f[n]) = n + 1
    BY <1>1, <2>1, <2>3
  <2> QED
    BY <2>3, <2>4
<1> HIDE DEF Good
<1>7. Good(L)
  <2>1. ASSUME T # {} PROVE FALSE
    <3>1. T \in SUBSET Nat
      BY <1>1
    <3>2. PICK n \in T : \A m \in T : ~(m < n)
      <4> HIDE DEF T
      <4> QED
        BY <2>1, <3>1, LeastNumber
    <3>3. n # 0
      BY <1>5, <3>2
    <3>4. n \in 1..L /\ n - 1 \in 0..L /\ n - 1 < n
      BY <1>1, <3>2, <3>3
    <3>5. Good(n-1)
      BY <3>2, <3>4
    <3> QED
      BY <1>6, <3>2, <3>4, <3>5
  <2> QED
    BY <1>1, <2>1
<1>8. Complete(f[L], link)
  <2> SUFFICES ASSUME ~Complete(f[L], link) PROVE FALSE
    OBVIOUS
  <2> DEFINE s == f[L]
             last == s[Len(s)]
  <2>1. Chain(s, c, link) /\ Ranked(s, c, rank) /\ Len(s) = L + 1
    BY <1>7 DEF Good
  <2>2. last \in Ids /\ link[last] \in Ids
    <3>1. s \in Seq(Ids) /\ Len(s) \in 1..Len(s)
      BY <2>1 DEF Chain
    <3>2. last \in Ids
      BY <3>1
    <3>3. link[last] # NoId
      BY DEF Complete
    <3> HIDE DEF last
    <3> QED
      BY <3>2, <3>3
  <2>3. rank[link[last]] < rank[last] /\ rank[link[last]] \in Nat /\ rank[last] \in Nat
    <3> HIDE DEF last
    <3>1. link[last] # NoId
      BY <2>2, NoIdAssumption
    <3> QED
      BY <2>2, <3>1 DEF Descends
  <2>4. rank[last] + Len(s) <= rank[c] + 1 /\ rank[c] \in Nat
    BY <2>1 DEF Ranked
  <2>5. rank[c] <= L
    BY DEF L
  <2> HIDE DEF s, last
  <2> QED
    BY <1>1, <2>1, <2>3, <2>4, <2>5
<1> QED
  BY <1>3, <1>7, <1>8 DEF Good

(* Going back from a member of a chain over inverse links meets the same   *)
(* ids in the opposite order, and ends where the chain began.              *)
LEMMA ChainReversed ==
    ASSUME NEW f \in [Ids -> Ids \cup {NoId}], NEW g \in [Ids -> Ids \cup {NoId}],
           \A x, y \in Ids : f[x] = y <=> g[y] = x,
           NEW s, NEW a, Chain(s, a, f), NEW i \in 1..Len(s),
           NEW t, Chain(t, s[i], g), Complete(t, g)
    PROVE  /\ i \in 1..Len(t) /\ t[i] = a
           /\ g[a] = NoId => Len(t) = i
<1>1. /\ s \in Seq(Ids) /\ Len(s) \in Nat /\ s[1] = a
      /\ \A j \in 1..Len(s) - 1 : s[j+1] = f[s[j]]
      /\ t \in Seq(Ids) /\ Len(t) \in Nat /\ Len(t) >= 1 /\ t[1] = s[i]
      /\ \A j \in 1..Len(t) - 1 : t[j+1] = g[t[j]]
      /\ g[t[Len(t)]] = NoId
  BY DEF Chain, Complete
<1> DEFINE Met(j) == j <= Len(t) /\ t[j] = s[i - j + 1]
           T == {j \in 1..i : ~Met(j)}
<1>2. Met(1)
  BY <1>1
<1>3. ASSUME NEW j \in 1..i, j # i, Met(j) PROVE Met(j + 1)
  <2>1. i - j \in 1..Len(s) - 1 /\ i - j + 1 \in 1..Len(s)
    BY <1>1, <1>3
  <2>2. s[i-j] \in Ids /\ s[i-j+1] \in Ids /\ s[i-j+1] = f[s[i-j]]
    BY <1>1, <2>1
  <2>3. g[t[j]] = s[i-j]
    BY <1>3, <2>2
  <2>4. j # Len(t)
    <3>1. g[t[j]] # NoId
      BY <2>2, <2>3, NoIdAssumption
    <3>2. g[t[Len(t)]] = NoId
      BY <1>1
    <3> QED
      BY <3>1, <3>2
  <2>5. j \in 1..Len(t) - 1
    BY <1>1, <1>3, <2>4
  <2>6. t[j+1] = s[i-j]
    BY <1>1, <2>3, <2>5
  <2>7. i - (j + 1) + 1 = i - j
    BY <1>3
  <2> QED
    BY <1>1, <2>5, <2>6, <2>7
<1>4. Met(i)
  <2>1. ASSUME T # {} PROVE FALSE
    <3>1. T \in SUBSET Nat
      OBVIOUS
    <3>2. PICK n \in T : \A m \in T : ~(m < n)
      <4> HIDE DEF T
      <4> QED
        BY <2>1, <3>1, LeastNumber
    <3> HIDE DEF Met
    <3>3. n # 1
      BY <1>2, <3>2
    <3>4. n - 1 \in 1..i /\ n - 1 # i /\ n - 1 < n /\ (n - 1) + 1 = n
      BY <3>2, <3>3
    <3>5. Met(n-1)
      BY <3>2, <3>4
    <3>6. Met((n-1) + 1)
      BY <1>3, <3>4, <3>5
    <3> QED
      BY <3>2, <3>4, <3>6
  <2> HIDE DEF Met
  <2>2. i \in 1..i
    BY <1>1
  <2> QED
    BY <2>1, <2>2
<1>5. i <= Len(t) /\ t[i] = a
  BY <1>1, <1>4
<1>6. ASSUME g[a] = NoId PROVE Len(t) = i
  <2>1. ASSUME Len(t) # i PROVE FALSE
    <3>1. i \in 1..Len(t) - 1 /\ i + 1 \in 1..Len(t)
      BY <1>1, <1>5, <2>1
    <3>2. t[i+1] = NoId
      BY <1>1, <1>5, <1>6, <3>1
    <3>3. t[i+1] \in Ids
      BY <1>1, <3>1
    <3> QED
      BY <3>2, <3>3, NoIdAssumption
  <2> QED
    BY <2>1
<1> QED
  BY <1>1, <1>5, <1>6

(* Every key has a place in the key order, an absent id the place 0.       *)
LEMMA Places ==
    ASSUME NEW o \in Seq(Ids), NEW rec \in [Ids -> Record], RegisteredOnce(rec, o)
    PROVE  \E place \in [Ids -> 0..Len(o)] :
             \A x, y \in Ids : Before(o, x, y) => place[x] < place[y]
<1> DEFINE place == [x \in Ids |-> IF \E i \in 1..Len(o) : o[i] = x
                                   THEN CHOOSE i \in 1..Len(o) : o[i] = x ELSE 0]
<1>1. Len(o) \in Nat /\ \A i, j \in 1..Len(o) : o[i] = o[j] => i = j
  BY DEF RegisteredOnce
<1>2. place \in [Ids -> 0..Len(o)]
  BY <1>1
<1>3. ASSUME NEW i \in 1..Len(o) PROVE place[o[i]] = i
  BY <1>1
<1>4. ASSUME NEW x \in Ids, NEW y \in Ids, Before(o, x, y) PROVE place[x] < place[y]
  <2> HIDE DEF place
  <2> QED
    BY <1>3, <1>4 DEF Before
<1> QED
  BY <1>2, <1>4

(* Both walks of get_history reach the end of the chain they follow.       *)
LEMMA LineageWalks ==
    ASSUME TypeOK, LineageInv, NEW c \in Ids,
           NEW sup, sup = [x \in Ids |-> record[x].supersedes],
           NEW by, by = [x \in Ids |-> record[x].supersededBy]
    PROVE  /\ sup \in [Ids -> Ids \cup {NoId}] /\ by \in [Ids -> Ids \cup {NoId}]
           /\ \A x, y \in Ids : by[x] = y <=> sup[y] = x
           /\ Chain(Walk(c, sup), c, sup) /\ Complete(Walk(c, sup), sup)
           /\ Chain(Walk(c, by), c, by) /\ Complete(Walk(c, by), by)
<1>1. /\ record \in [Ids -> Record] /\ order \in Seq(Ids) /\ Len(order) \in Nat
      /\ RegisteredOnce(record, order) /\ LinksInverse(record) /\ LinksForward(record, order)
  BY DEF TypeOK, LineageInv, LineageOf
<1>2. sup \in [Ids -> Ids \cup {NoId}] /\ by \in [Ids -> Ids \cup {NoId}]
  BY <1>1 DEF Record
<1>3. /\ \A x, y \in Ids : by[x] = y <=> sup[y] = x
      /\ \A x, y \in Ids : by[x] = y => Before(order, x, y)
  BY <1>1 DEF LinksInverse, LinksForward
<1>4. PICK place \in [Ids -> 0..Len(order)] :
         \A x, y \in Ids : Before(order, x, y) => place[x] < place[y]
  BY <1>1, Places
<1> DEFINE back == [x \in Ids |-> Len(order) - place[x]]
<1>5. /\ place \in [Ids -> Nat] /\ back \in [Ids -> Nat]
      /\ place[c] <= Len(order) /\ back[c] <= Len(order)
  <2>1. \A x \in Ids : place[x] \in 0..Len(order)
    BY <1>4
  <2>2. \A x \in Ids : place[x] \in Nat /\ Len(order) - place[x] \in Nat
                       /\ place[x] <= Len(order) /\ Len(order) - place[x] <= Len(order)
    BY <1>1, <2>1
  <2> QED
    BY <1>4, <2>2
<1>6. Descends(sup, place)
  BY <1>2, <1>3, <1>4 DEF Descends
<1>7. Descends(by, back)
  <2>1. ASSUME NEW x \in Ids, by[x] # NoId PROVE back[by[x]] < back[x]
    <3>1. by[x] \in Ids /\ place[x] < place[by[x]]
      BY <1>2, <1>3, <1>4, <2>1
    <3>2. place[x] \in 0..Len(order) /\ place[by[x]] \in 0..Len(order)
      BY <1>4, <3>1
    <3>3. back[x] = Len(order) - place[x] /\ back[by[x]] = Len(order) - place[by[x]]
      BY <3>1
    <3> HIDE DEF back
    <3> QED
      BY <1>1, <3>1, <3>2, <3>3
  <2> QED
    BY <2>1 DEF Descends
<1>8. Chain(Walk(c, sup), c, sup) /\ Complete(Walk(c, sup), sup)
  BY <1>1, <1>2, <1>5, <1>6, WalkReachesEnd
<1>9. Chain(Walk(c, by), c, by) /\ Complete(Walk(c, by), by)
  <2> HIDE DEF back
  <2> QED
    BY <1>1, <1>2, <1>5, <1>7, WalkReachesEnd
<1> QED
  BY <1>2, <1>3, <1>8, <1>9

(* A ledger whose links form chains answers get_history with the chain.    *)
LEMMA HistoryFromLineage == TypeOK /\ LineageInv => HistoryComplete
<1> SUFFICES ASSUME TypeOK, LineageInv, NEW c \in Ids
             PROVE  LET h == GetHistory(c)
                    IN  /\ InPath(h, c)
                        /\ \A i \in 1..Len(h) : GetHistory(h[i]) = h
                        /\ \A i \in 1..Len(h) - 1 : record[h[i]].supersededBy = h[i+1]
                        /\ record[h[1]].supersedes = NoId
                        /\ \A i \in 1..Len(h) : record[h[i]].status = "SUPERSEDED" <=> i < Len(h)
  BY DEF HistoryComplete
<1> PICK sup : sup = [x \in Ids |-> record[x].supersedes]
  OBVIOUS
<1> PICK by : by = [x \in Ids |-> record[x].supersededBy]
  OBVIOUS
<1>1. /\ sup \in [Ids -> Ids \cup {NoId}] /\ by \in [Ids -> Ids \cup {NoId}]
      /\ \A x, y \in Ids : by[x] = y <=> sup[y] = x
      /\ \A x \in Ids : /\ Chain(Walk(x, sup), x, sup) /\ Complete(Walk(x, sup), sup)
                        /\ Chain(Walk(x, by), x, by) /\ Complete(Walk(x, by), by)
  BY LineageWalks
<1>2. PICK back : back = Walk(c, sup)
  OBVIOUS
<1>3. PICK root : root = back[Len(back)]
  OBVIOUS
<1>4. PICK h : h = Walk(root, by)
  OBVIOUS
<1>5. GetHistory(c) = h
  BY <1>2, <1>3, <1>4 DEF GetHistory, LineageRoot
<1>6. /\ Chain(back, c, sup) /\ Len(back) \in 1..Len(back)
      /\ root \in Ids /\ sup[root] = NoId
  <2>1. Chain(back, c, sup) /\ Complete(back, sup)
    BY <1>1, <1>2
  <2>2. back \in Seq(Ids) /\ Len(back) \in 1..Len(back)
    BY <2>1 DEF Chain
  <2>3. root \in Ids
    BY <1>3, <2>2
  <2>4. sup[root] = NoId
    BY <1>3, <2>1 DEF Complete
  <2> QED
    BY <2>1, <2>2, <2>3, <2>4
<1>7. Chain(h, root, by) /\ Complete(h, by)
  BY <1>1, <1>4, <1>6
<1>8. /\ h \in Seq(Ids) /\ Len(h) \in Nat /\ Len(h) >= 1 /\ h[1] = root
      /\ \A i \in 1..Len(h) - 1 : h[i+1] = by[h[i]]
      /\ by[h[Len(h)]] = NoId
  <2>1. by[h[Len(h)]] = NoId
    BY <1>7 DEF Complete
  <2>2. /\ h \in Seq(Ids) /\ Len(h) >= 1 /\ h[1] = root
        /\ \A i \in 1..Len(h) - 1 : h[i+1] = by[h[i]]
    BY <1>7 DEF Chain
  <2>3. Len(h) \in Nat
    BY <2>2
  <2> QED
    BY <2>1, <2>2, <2>3
<1>9. InPath(h, c)
  <2>1. Len(back) \in 1..Len(h) /\ h[Len(back)] = c
    BY <1>1, <1>3, <1>6, <1>7, ChainReversed
  <2> QED
    BY <2>1 DEF InPath
<1>10. ASSUME NEW i \in 1..Len(h) PROVE GetHistory(h[i]) = h
  <2>1. PICK x : x = h[i]
    OBVIOUS
  <2>2. x \in Ids
    BY <1>8, <2>1
  <2>3. PICK t : t = Walk(x, sup)
    OBVIOUS
  <2>4. Chain(t, h[i], sup) /\ Complete(t, sup)
    BY <1>1, <2>1, <2>2, <2>3
  <2>5. Len(t) = i /\ t[i] = root
    BY <1>1, <1>6, <1>7, <2>4, ChainReversed
  <2>6. LineageRoot(x) = root
    BY <2>3, <2>5 DEF LineageRoot
  <2> QED
    BY <1>4, <2>1, <2>6 DEF GetHistory
<1>11. \A i \in 1..Len(h) : record[h[i]].supersededBy = by[h[i]]
  BY <1>8
<1>12. record[h[1]].supersedes = NoId
  BY <1>6, <1>8
<1>13. ASSUME NEW i \in 1..Len(h)
       PROVE  record[h[i]].status = "SUPERSEDED" <=> i < Len(h)
  <2>1. h[i] \in Ids
    BY <1>8
  <2>2. record[h[i]].status = "SUPERSEDED" <=> by[h[i]] # NoId
    BY <1>11, <2>1 DEF LineageInv, LineageOf, SuccessorIffSuperseded
  <2>3. CASE i = Len(h)
    BY <1>8, <2>2, <2>3
  <2>4. CASE i # Len(h)
    <3>1. i \in 1..Len(h) - 1 /\ i + 1 \in 1..Len(h) /\ i < Len(h)
      BY <1>8, <2>4
    <3>2. by[h[i]] \in Ids
      BY <1>8, <3>1
    <3>3. by[h[i]] # NoId
      BY <3>2, NoIdAssumption
    <3> QED
      BY <2>2, <3>1, <3>3
  <2> QED
    BY <2>3, <2>4
<1>14. \A i \in 1..Len(h) - 1 : record[h[i]].supersededBy = h[i+1]
  BY <1>8, <1>11
<1> QED
  BY <1>5, <1>9, <1>10, <1>12, <1>13, <1>14

(* get_history answers the whole lineage of a requirement, the same from   *)
(* every member, with exactly one current representative at its end, in    *)
(* every reachable ledger and for every set of identifiers.                *)
THEOREM HistoriesComplete == Spec => []HistoryComplete
BY TypeCorrect, LineageCorrect, HistoryFromLineage, PTL

-----------------------------------------------------------------------------
(* Conflicts.                                                              *)

ConflictsOf(rec) == ConflictRecordedOf(rec) /\ NoConflictCycleOf(rec)
ConflictInv == ConflictsOf(record) /\ ConflictsOf(snap.record)

(* A step that suspends nothing keeps the conflicts well formed: every     *)
(* record that is CONFLICTED afterwards was so before, with the same peers.*)
SuspendsNothing(rec, rec2) ==
    \A x \in Ids :
        /\ rec2[x].status = "ACTIVE" => rec2[x].conflictsWith = {}
        /\ rec2[x].status = "CONFLICTED" =>
              rec[x].status = "CONFLICTED" /\ rec2[x].conflictsWith = rec[x].conflictsWith

LEMMA ConflictsStable ==
    ASSUME NEW rec, NEW rec2, ConflictsOf(rec), SuspendsNothing(rec, rec2)
    PROVE  ConflictsOf(rec2)
<1>1. ConflictRecordedOf(rec2)
  BY DEF ConflictsOf, ConflictRecordedOf, SuspendsNothing
<1>2. NoConflictCycleOf(rec2)
  <2> SUFFICES ASSUME NEW S \in SUBSET Ids, S # {},
                      \A c \in S : rec2[c].status = "CONFLICTED"
                                   /\ c \notin rec2[c].conflictsWith
               PROVE  \E c \in S : rec2[c].conflictsWith \cap S = {}
    BY DEF NoConflictCycleOf
  <2>1. \A c \in S : /\ rec[c].status = "CONFLICTED"
                     /\ rec2[c].conflictsWith = rec[c].conflictsWith
    BY DEF SuspendsNothing
  <2>2. \E c \in S : rec[c].conflictsWith \cap S = {}
    BY <2>1 DEF ConflictsOf, NoConflictCycleOf
  <2> QED
    BY <2>1, <2>2
<1> QED
  BY <1>1, <1>2 DEF ConflictsOf

(* Suspending an ACTIVE record c in favour of an ACTIVE record d.  In a    *)
(* group that contains c, c itself is the member whose peer is outside:    *)
(* its only peer d is not CONFLICTED, unless d is c.                       *)
LEMMA ConflictsMark ==
    ASSUME NEW rec, NEW rec2, ConflictsOf(rec),
           NEW c \in Ids, NEW d \in Ids,
           rec[c].status = "ACTIVE", rec[d].status = "ACTIVE",
           \A x \in Ids \ {c} : rec2[x] = rec[x],
           rec2[c].status = "CONFLICTED",
           rec2[c].conflictsWith = rec[c].conflictsWith \cup {d}
    PROVE  ConflictsOf(rec2)
<1>0. rec2[c].conflictsWith = {d}
  BY DEF ConflictsOf, ConflictRecordedOf
<1>1. ConflictRecordedOf(rec2)
  BY <1>0 DEF ConflictsOf, ConflictRecordedOf
<1>2. NoConflictCycleOf(rec2)
  <2> SUFFICES ASSUME NEW S \in SUBSET Ids, S # {},
                      \A x \in S : rec2[x].status = "CONFLICTED"
                                   /\ x \notin rec2[x].conflictsWith
               PROVE  \E x \in S : rec2[x].conflictsWith \cap S = {}
    BY DEF NoConflictCycleOf
  <2>1. CASE c \in S
    <3>1. d # c
      BY <1>0, <2>1
    <3>2. d \notin S
      BY <3>1
    <3> QED
      BY <1>0, <2>1, <3>2
  <2>2. CASE c \notin S
    <3>1. \A x \in S : rec2[x] = rec[x]
      BY <2>2
    <3>2. \E x \in S : rec[x].conflictsWith \cap S = {}
      BY <3>1 DEF ConflictsOf, NoConflictCycleOf
    <3> QED
      BY <3>1, <3>2
  <2> QED
    BY <2>1, <2>2
<1> QED
  BY <1>1, <1>2 DEF ConflictsOf

(* The inductive invariant of the conflict links.                          *)
LEMMA ConflictCorrect == Spec => []ConflictInv
<1>1. Init => ConflictInv
  BY DEF Init, ConflictInv, ConflictsOf, ConflictRecordedOf, NoConflictCycleOf,
         AbsentRecord, Unlinked
<1>2. TypeOK /\ ConflictInv /\ [Next]_vars => ConflictInv'
  <2> SUFFICES ASSUME TypeOK, ConflictInv, [Next]_vars
               PROVE  ConflictInv'
    OBVIOUS
  <2>0. /\ record \in [Ids -> Record]
        /\ ConflictsOf(record) /\ ConflictsOf(snap.record)
        /\ \A x \in Ids : record[x].status = "ACTIVE" => record[x].conflictsWith = {}
    BY DEF TypeOK, ConflictInv, ConflictsOf, ConflictRecordedOf
  <2>a. SuspendsNothing(record, record') /\ UNCHANGED snap => ConflictInv'
    BY <2>0, ConflictsStable DEF ConflictInv
  <2>1. ASSUME NEW c \in Ids, Add(c) PROVE ConflictInv'
    BY <2>0, <2>1, <2>a DEF Add, Unlinked, SuspendsNothing
  <2>2. ASSUME NEW c \in Ids, Revoke(c) PROVE ConflictInv'
    BY <2>0, <2>2, <2>a DEF Revoke, SuspendsNothing, Record
  <2>3. ASSUME NEW c \in Ids, ResolveConflict(c) PROVE ConflictInv'
    BY <2>0, <2>3, <2>a DEF ResolveConflict, SuspendsNothing, Record
  <2>4. ASSUME NEW c \in Ids, NEW d \in Ids, Supersede(c, d) PROVE ConflictInv'
    <3>1. /\ record'[c] = Superseded(c, d)
          /\ record'[d] = Replacement(c)
          /\ c # d
          /\ \A x \in Ids \ {c, d} : record'[x] = record[x]
      BY <2>0, <2>4 DEF Supersede
    <3>2. SuspendsNothing(record, record')
      BY <2>0, <3>1, SupersedeRecords DEF SuspendsNothing
    <3> QED
      BY <2>4, <3>2, <2>a DEF Supersede
  <2>5. ASSUME NEW c \in Ids, NEW d \in Ids, MarkConflicted(c, d) PROVE ConflictInv'
    <3>1. record[c].status = "ACTIVE" /\ record[d].status = "ACTIVE"
      BY <2>5 DEF MarkConflicted, CanTransition, AllowedTransitions, Active
    <3>2. /\ \A x \in Ids \ {c} : record'[x] = record[x]
          /\ record'[c].status = "CONFLICTED"
          /\ record'[c].conflictsWith = record[c].conflictsWith \cup {d}
      BY <2>0, <2>5 DEF MarkConflicted, Record
    <3>3. ConflictsOf(record')
      BY <2>0, <3>1, <3>2, ConflictsMark
    <3> QED
      BY <2>0, <2>5, <3>3 DEF MarkConflicted, ConflictInv
  <2>6. CASE TakeSnapshot
    BY <2>0, <2>6 DEF TakeSnapshot, ConflictInv
  <2>7. CASE FromSnapshot
    BY <2>0, <2>7 DEF FromSnapshot, ConflictInv
  <2>8. CASE UNCHANGED vars
    BY <2>8 DEF vars, ConflictInv
  <2> QED
    BY <2>1, <2>2, <2>3, <2>4, <2>5, <2>6, <2>7, <2>8 DEF Next
<1> QED
  BY <1>1, <1>2, TypeCorrect, PTL DEF Spec

(* No history of calls makes a group of constraints switch each other off. *)
THEOREM ConflictsAcyclic == Spec => []NoConflictCycle
<1>1. ConflictInv => NoConflictCycle
  BY DEF ConflictInv, ConflictsOf, NoConflictCycle
<1> QED
  BY <1>1, ConflictCorrect, PTL

(* A CONFLICTED record names exactly one peer, an ACTIVE one none.         *)
THEOREM ConflictsRecorded == Spec => []ConflictRecorded
<1>1. ConflictInv => ConflictRecorded
  BY DEF ConflictInv, ConflictsOf, ConflictRecorded
<1> QED
  BY <1>1, ConflictCorrect, PTL

-----------------------------------------------------------------------------
(* History.                                                                *)

(* No call other than loading a snapshot removes a record, changes a       *)
(* terminal one or re-links a successor.                                   *)
THEOREM HistoryIsKept == Spec => HistoryKept
<1> DEFINE Kept == \A c \in Ids :
              /\ Present(c) => record'[c].status # "ABSENT"
              /\ Terminal(c) => record'[c] = record[c]
              /\ record[c].supersedes # NoId => record'[c].supersedes = record[c].supersedes
           Loaded == <<record', order'>> = <<snap.record, snap.order>>
<1>1. TypeOK /\ LineageInv /\ [Next]_vars => [Loaded \/ Kept]_vars
  <2> SUFFICES ASSUME TypeOK, LineageInv, [Next]_vars
               PROVE  [Loaded \/ Kept]_vars
    OBVIOUS
  <2>0. /\ record \in [Ids -> Record]
        /\ \A x \in Ids : record[x].status = "ABSENT" => record[x].supersedes = NoId
    BY DEF TypeOK, LineageInv, LineageOf, RegisteredOnce, AbsentRecord, Unlinked
  <2> USE DEF Present, Terminal
  <2>1. ASSUME NEW c \in Ids, Add(c) PROVE Kept
    BY <2>0, <2>1 DEF Add, Unlinked
  <2>2. ASSUME NEW c \in Ids, Revoke(c) PROVE Kept
    BY <2>0, <2>2 DEF Revoke, CanTransition, AllowedTransitions, Record
  <2>3. ASSUME NEW c \in Ids, ResolveConflict(c) PROVE Kept
    BY <2>0, <2>3 DEF ResolveConflict, CanTransition, AllowedTransitions, Record
  <2>4. ASSUME NEW c \in Ids, NEW d \in Ids, Supersede(c, d) PROVE Kept
    <3>1. /\ record'[c] = Superseded(c, d)
          /\ record'[d] = Replacement(c)
          /\ c # d /\ record[d].status = "ABSENT"
          /\ record[c].status \in {"ACTIVE", "CONFLICTED"}
          /\ \A x \in Ids \ {c, d} : record'[x] = record[x]
      BY <2>0, <2>4 DEF Supersede, CanTransition, AllowedTransitions
    <3> QED
      BY <2>0, <3>1, SupersedeRecords
  <2>5. ASSUME NEW c \in Ids, NEW d \in Ids, MarkConflicted(c, d) PROVE Kept
    BY <2>0, <2>5 DEF MarkConflicted, CanTransition, AllowedTransitions, Record
  <2>6. CASE TakeSnapshot
    BY <2>6 DEF TakeSnapshot
  <2>7. CASE FromSnapshot
    BY <2>7 DEF FromSnapshot
  <2>8. CASE UNCHANGED vars
    BY <2>8
  <2> QED
    BY <2>1, <2>2, <2>3, <2>4, <2>5, <2>6, <2>7, <2>8 DEF Next
<1> QED
  BY <1>1, TypeCorrect, LineageCorrect, PTL DEF Spec, HistoryKept

=============================================================================
