-------------------------- MODULE HookInstall_proofs --------------------------
(***************************************************************************)
(* Proofs about HookInstall for every number of processes, every events,   *)
(* handlers and files: the file never calls AgentContract twice for an     *)
(* event, a command that succeeds did what it says, and the user's own     *)
(* entries are kept.                                                       *)
(***************************************************************************)
EXTENDS TLAPS, SequenceTheorems, WellFoundedInduction, HookInstall

-------------------------------------------------------------------------------
(* Sequences, and what FlattenSeq and Keep return.                         *)

FlattenOf(f, s, L) == f = [i \in 1..L |-> IF i = 1 THEN s[i] ELSE f[i-1] \o s[i]]

(* A set of numbers that is not empty has a least one.                     *)
LEMMA LeastNumber ==
    ASSUME NEW T \in SUBSET Nat, T # {}
    PROVE  \E n \in T : \A m \in T : ~(m < n)
<1>1. PICK n \in T : \A m \in T : ~(<<m, n>> \in OpToRel(<, Nat))
  BY NatLessThanWellFounded, WFMin
<1> QED BY <1>1 DEF OpToRel

(* Counting up to L: what holds at 0 and is passed on holds throughout.    *)
LEMMA Stepwise ==
    ASSUME NEW L \in Nat, NEW S, 0 \in S, \A n \in 1..L : n - 1 \in S => n \in S
    PROVE  L \in S
<1> DEFINE T == {n \in 0..L : n \notin S}
<1>1. ASSUME T # {} PROVE FALSE
  <2>1. T \in SUBSET Nat
    OBVIOUS
  <2>2. PICK n \in T : \A m \in T : ~(m < n)
    <3> HIDE DEF T
    <3> QED BY <1>1, <2>1, LeastNumber
  <2>3. n \in 0..L /\ n \notin S
    BY <2>2
  <2>4. n \in 1..L /\ n - 1 \in 0..L /\ n - 1 < n
    BY <2>3
  <2>5. n - 1 \in S
    BY <2>2, <2>4
  <2> QED BY <2>3, <2>4, <2>5
<1> QED BY <1>1

(* What holds of the empty sequence and is passed on by Append holds of    *)
(* all sequences.                                                          *)
LEMMA SequencesStepwise ==
    ASSUME NEW T, NEW P, <<>> \in P,
           \A t \in Seq(T), x \in T : t \in P => Append(t, x) \in P
    PROVE  Seq(T) \subseteq P
<1> SUFFICES ASSUME NEW s \in Seq(T) PROVE s \in P
  OBVIOUS
<1> DEFINE S == {n \in 0..Len(s) : SubSeq(s, 1, n) \in P}
<1>1. Len(s) \in Nat /\ s = SubSeq(s, 1, Len(s)) /\ SubSeq(s, 1, 0) = <<>>
  <2>1. SubSeq(s, 1, 0) = <<>>
    BY SubSeqEmpty
  <2> QED BY <2>1, SubSeqFull
<1>2. 0 \in S
  <2>1. 0 \in 0..Len(s)
    OBVIOUS
  <2>2. SubSeq(s, 1, 0) \in P
    BY <1>1
  <2> QED BY <2>1, <2>2
<1>3. ASSUME NEW n \in 1..Len(s), n - 1 \in S PROVE n \in S
  <2>1. SubSeq(s, 1, n - 1) \in Seq(T) /\ s[n] \in T
    BY <1>1
  <2>2. SubSeq(s, 1, n) = Append(SubSeq(s, 1, n - 1), s[n])
    BY <1>1
  <2>3. n \in 0..Len(s)
    BY <1>1
  <2> QED BY <1>3, <2>1, <2>2, <2>3
<1>4. Len(s) \in S
  <2> HIDE DEF S
  <2> QED BY <1>1, <1>2, <1>3, Stepwise
<1> QED BY <1>1, <1>4

(* The recursive definition of FlattenSeq has a solution.                  *)
LEMMA FlattenExists ==
    ASSUME NEW s, NEW L \in Nat
    PROVE  \E f : FlattenOf(f, s, L)
<1> DEFINE S == {l \in 0..L : \E f : FlattenOf(f, s, l)}
<1>1. 0 \in S
  <2>1. FlattenOf([i \in 1..0 |-> s[i]], s, 0)
    BY DEF FlattenOf
  <2> QED BY <2>1
<1>2. ASSUME NEW l \in 1..L, l - 1 \in S PROVE l \in S
  <2>1. PICK g : FlattenOf(g, s, l - 1)
    BY <1>2
  <2> DEFINE f == [i \in 1..l |-> IF i = 1 THEN s[i] ELSE g[i-1] \o s[i]]
  <2>2. ASSUME NEW i \in 1..(l - 1) PROVE f[i] = g[i]
    <3>1. i \in 1..l
      OBVIOUS
    <3> QED BY <2>1, <3>1 DEF FlattenOf
  <2>3. ASSUME NEW i \in 1..l, i # 1 PROVE f[i-1] = g[i-1]
    <3>1. i - 1 \in 1..(l - 1)
      BY <2>3
    <3> QED BY <2>2, <3>1
  <2>4. f = [i \in 1..l |-> IF i = 1 THEN s[i] ELSE f[i-1] \o s[i]]
    BY <2>3
  <2>5. FlattenOf(f, s, l)
    BY <2>4 DEF FlattenOf
  <2> QED BY <2>5
<1> HIDE DEF S
<1>3. L \in S
  BY <1>1, <1>2, Stepwise
<1> QED BY <1>3 DEF S

LEMMA FlattenEmpty == FlattenSeq(<<>>) = <<>>
  BY DEF FlattenSeq

(* The prefixes that FlattenSeq goes through.                              *)
LEMMA FlattenPrefixes ==
    ASSUME NEW S, NEW ss \in Seq(Seq(S))
    PROVE  \E g \in [0..Len(ss) -> Seq(S)] :
              /\ g[0] = <<>> /\ g[Len(ss)] = FlattenSeq(ss)
              /\ \A i \in 1..Len(ss) : g[i] = g[i-1] \o ss[i]
<1>1. Len(ss) \in Nat /\ \A i \in 1..Len(ss) : ss[i] \in Seq(S)
  OBVIOUS
<1> DEFINE f == CHOOSE h : FlattenOf(h, ss, Len(ss))
           g == [i \in 0..Len(ss) |-> IF i = 0 THEN <<>> ELSE f[i]]
<1>2. FlattenOf(f, ss, Len(ss))
  BY <1>1, FlattenExists
<1>3. Len(ss) # 0 => FlattenSeq(ss) = f[Len(ss)]
  BY DEF FlattenSeq, FlattenOf
<1>4. Len(ss) = 0 => FlattenSeq(ss) = <<>>
  BY FlattenEmpty
<1> HIDE DEF f
<1>5. \A i \in 1..Len(ss) : f[i] = IF i = 1 THEN ss[i] ELSE f[i-1] \o ss[i]
  BY <1>2 DEF FlattenOf
<1>6. g[0] = <<>> /\ g[Len(ss)] = FlattenSeq(ss)
  BY <1>1, <1>3, <1>4
<1>7. ASSUME NEW i \in 1..Len(ss) PROVE g[i] = g[i-1] \o ss[i]
  <2>1. i \in 0..Len(ss) /\ i - 1 \in 0..Len(ss) /\ i # 0 /\ g[i] = f[i]
    BY <1>1
  <2>2. CASE i = 1
    <3>1. f[i] = ss[i] /\ g[i-1] = <<>>
      <4>1. i - 1 = 0
        BY <2>2
      <4>2. f[i] = ss[i]
        BY <1>5, <2>2
      <4> QED BY <1>6, <4>1, <4>2
    <3>2. ss[i] = <<>> \o ss[i]
      BY <1>1
    <3> HIDE DEF g
    <3> QED BY <2>1, <3>1, <3>2
  <2>3. CASE i # 1
    <3>1. g[i-1] = f[i-1]
      BY <2>1, <2>3
    <3> QED BY <1>5, <2>1, <2>3, <3>1
  <2> QED BY <2>2, <2>3
<1> DEFINE T == {i \in 0..Len(ss) : g[i] \in Seq(S)}
<1>8. \A i \in 0..Len(ss) : i \in T
  <2> SUFFICES ASSUME NEW n \in 0..Len(ss) PROVE n \in T
    OBVIOUS
  <2>1. 0 \in T
    BY <1>1, <1>6
  <2>2. ASSUME NEW i \in 1..n, i - 1 \in T PROVE i \in T
    <3>1. i \in 1..Len(ss) /\ i \in 0..Len(ss)
      BY <1>1
    <3>2. g[i] = g[i-1] \o ss[i] /\ g[i-1] \in Seq(S) /\ ss[i] \in Seq(S)
      BY <1>1, <1>7, <2>2, <3>1
    <3>3. g[i-1] \o ss[i] \in Seq(S)
      <4> HIDE DEF g
      <4> QED BY <3>2
    <3> QED BY <3>1, <3>2, <3>3
  <2> HIDE DEF T
  <2> QED BY <1>1, <2>1, <2>2, Stepwise
<1>9. g \in [0..Len(ss) -> Seq(S)]
  <2>1. \A i \in 0..Len(ss) : g[i] \in Seq(S)
    BY <1>8
  <2> QED BY <2>1
<1> HIDE DEF g
<1> QED BY <1>6, <1>7, <1>9

LEMMA FlattenAppend ==
    ASSUME NEW S, NEW ss \in Seq(Seq(S)), NEW s \in Seq(S)
    PROVE  /\ FlattenSeq(ss) \in Seq(S)
           /\ FlattenSeq(Append(ss, s)) = FlattenSeq(ss) \o s
<1> DEFINE L == Len(ss)
           tt == Append(ss, s)
<1>1. /\ L \in Nat /\ tt \in Seq(Seq(S)) /\ Len(tt) = L + 1 /\ tt[L + 1] = s
      /\ \A i \in 1..L : tt[i] = ss[i]
  OBVIOUS
<1>2. PICK g \in [0..L -> Seq(S)] :
          /\ g[0] = <<>> /\ g[L] = FlattenSeq(ss)
          /\ \A i \in 1..L : g[i] = g[i-1] \o ss[i]
  BY FlattenPrefixes
<1>3. PICK h \in [0..(L + 1) -> Seq(S)] :
          /\ h[0] = <<>> /\ h[L + 1] = FlattenSeq(tt)
          /\ \A i \in 1..(L + 1) : h[i] = h[i-1] \o tt[i]
  <2> HIDE DEF tt, L
  <2>1. PICK h \in [0..Len(tt) -> Seq(S)] :
            /\ h[0] = <<>> /\ h[Len(tt)] = FlattenSeq(tt)
            /\ \A i \in 1..Len(tt) : h[i] = h[i-1] \o tt[i]
    BY <1>1, FlattenPrefixes
  <2> QED BY <1>1, <2>1
<1> HIDE DEF tt, L
<1> DEFINE T == {i \in 0..L : h[i] = g[i]}
<1>4. L \in T
  <2>1. 0 \in T
    BY <1>1, <1>2, <1>3
  <2>2. ASSUME NEW i \in 1..L, i - 1 \in T PROVE i \in T
    <3>1. i \in 1..(L + 1) /\ i \in 0..L
      BY <1>1
    <3> QED BY <1>1, <1>2, <1>3, <2>2, <3>1
  <2> HIDE DEF T
  <2> QED BY <1>1, <2>1, <2>2, Stepwise
<1>5. h[L + 1] = h[L] \o s
  <2>1. L + 1 \in 1..(L + 1) /\ (L + 1) - 1 = L
    <3>1. L \in Nat
      BY <1>1
    <3> QED BY <3>1
  <2>2. h[L + 1] = h[(L + 1) - 1] \o tt[L + 1]
    BY <1>3, <2>1
  <2> QED BY <1>1, <2>1, <2>2
<1>6. g[L] \in Seq(S)
  <2>1. L \in 0..L
    BY <1>1
  <2> QED BY <1>2, <2>1
<1> QED BY <1>2, <1>3, <1>4, <1>5, <1>6 DEF tt

Singles(s, S) == [n \in DOMAIN s |-> IF s[n] \in S THEN <<s[n]>> ELSE <<>>]

LEMMA SinglesType ==
    ASSUME NEW T, NEW S, NEW s \in Seq(T)
    PROVE  Singles(s, S) \in Seq(Seq(S)) /\ Keep(s, S) = FlattenSeq(Singles(s, S))
<1>1. Len(s) \in Nat /\ DOMAIN s = 1..Len(s)
  OBVIOUS
<1>2. ASSUME NEW n \in 1..Len(s) PROVE Singles(s, S)[n] \in Seq(S)
  <2>1. Singles(s, S)[n] = IF s[n] \in S THEN <<s[n]>> ELSE <<>>
    BY <1>1 DEF Singles
  <2> QED BY <2>1
<1>3. Singles(s, S) = [n \in 1..Len(s) |-> Singles(s, S)[n]]
  BY <1>1 DEF Singles
<1>4. Singles(s, S) \in Seq(Seq(S))
  BY <1>1, <1>2, <1>3
<1> QED BY <1>4 DEF Keep, Singles

LEMMA KeepEmpty == ASSUME NEW S PROVE Keep(<<>>, S) = <<>>
<1>1. [n \in DOMAIN <<>> |-> IF <<>>[n] \in S THEN << <<>>[n] >> ELSE <<>>] = <<>>
  OBVIOUS
<1> QED BY <1>1, FlattenEmpty DEF Keep

LEMMA KeepAppend ==
    ASSUME NEW T, NEW S, NEW s \in Seq(T), NEW x \in T
    PROVE  /\ Keep(s, S) \in Seq(S)
           /\ Keep(Append(s, x), S) = IF x \in S THEN Append(Keep(s, S), x) ELSE Keep(s, S)
<1> DEFINE a == Append(s, x)
           one == IF x \in S THEN <<x>> ELSE <<>>
<1>1. /\ Len(s) \in Nat /\ DOMAIN s = 1..Len(s) /\ DOMAIN a = 1..(Len(s) + 1)
      /\ a[Len(s) + 1] = x /\ \A n \in 1..Len(s) : a[n] = s[n]
      /\ a \in Seq(T)
  OBVIOUS
<1>2. Singles(s, S) \in Seq(Seq(S)) /\ one \in Seq(S)
  BY SinglesType
<1>3. Singles(a, S) = Append(Singles(s, S), one)
  <2>1. DOMAIN Singles(s, S) = 1..Len(s) /\ Len(Singles(s, S)) = Len(s)
    BY <1>1 DEF Singles
  <2>2. DOMAIN Singles(a, S) = 1..(Len(s) + 1) /\ Singles(a, S) \in Seq(Seq(S))
    <3> HIDE DEF a
    <3> QED BY <1>1, SinglesType DEF Singles
  <2>3. /\ Append(Singles(s, S), one) \in Seq(Seq(S))
        /\ Len(Append(Singles(s, S), one)) = Len(s) + 1
        /\ Append(Singles(s, S), one)[Len(s) + 1] = one
        /\ \A n \in 1..Len(s) : Append(Singles(s, S), one)[n] = Singles(s, S)[n]
    <3> HIDE DEF one
    <3> QED BY <1>1, <1>2, <2>1
  <2>4. ASSUME NEW n \in 1..(Len(s) + 1) PROVE Singles(a, S)[n] = Append(Singles(s, S), one)[n]
    <3>1. Singles(a, S)[n] = IF a[n] \in S THEN <<a[n]>> ELSE <<>>
      <4> HIDE DEF a
      <4> QED BY <1>1 DEF Singles
    <3>2. CASE n = Len(s) + 1
      BY <1>1, <2>3, <3>1, <3>2
    <3>3. CASE n # Len(s) + 1
      <4>1. n \in 1..Len(s)
        BY <1>1, <3>3
      <4>2. Singles(s, S)[n] = IF s[n] \in S THEN <<s[n]>> ELSE <<>>
        BY <1>1, <4>1 DEF Singles
      <4> QED BY <1>1, <2>3, <3>1, <4>1, <4>2
    <3> QED BY <3>2, <3>3
  <2> HIDE DEF a, one
  <2>5. Len(Singles(a, S)) = Len(s) + 1
    BY <1>1, <2>2
  <2> DEFINE u == Singles(a, S)
             v == Append(Singles(s, S), one)
  <2>6. u = [n \in 1..(Len(s) + 1) |-> u[n]] /\ v = [n \in 1..(Len(s) + 1) |-> v[n]]
    <3> HIDE DEF u, v
    <3>1. u \in Seq(Seq(S)) /\ v \in Seq(Seq(S)) /\ Len(u) = Len(s) + 1 /\ Len(v) = Len(s) + 1
      BY <2>2, <2>3, <2>5 DEF u, v
    <3> QED BY <3>1
  <2>7. u = v
    <3>1. \A n \in 1..(Len(s) + 1) : u[n] = v[n]
      BY <2>4
    <3> HIDE DEF u, v
    <3> QED BY <2>6, <3>1
  <2> QED BY <2>7
<1>4. Keep(a, S) = Keep(s, S) \o one /\ Keep(s, S) \in Seq(S)
  <2> HIDE DEF one, a
  <2>1. Keep(a, S) = FlattenSeq(Singles(a, S)) /\ Keep(s, S) = FlattenSeq(Singles(s, S))
    BY <1>1, SinglesType
  <2>2. /\ FlattenSeq(Append(Singles(s, S), one)) = FlattenSeq(Singles(s, S)) \o one
        /\ FlattenSeq(Singles(s, S)) \in Seq(S)
    BY <1>2, FlattenAppend
  <2> QED BY <1>3, <2>1, <2>2
<1>5. CASE x \in S
  BY <1>4, <1>5
<1>6. CASE x \notin S
  BY <1>4, <1>6
<1> QED BY <1>4, <1>5, <1>6

(* What is kept once is kept again.                                        *)
LEMMA KeepTwice ==
    ASSUME NEW T, NEW S, NEW s \in Seq(T)
    PROVE  Keep(s, S) \in Seq(S) /\ Keep(Keep(s, S), S) = Keep(s, S)
<1> DEFINE P == {t \in Seq(T) : Keep(t, S) \in Seq(S) /\ Keep(Keep(t, S), S) = Keep(t, S)}
<1>1. <<>> \in P
  <2>1. <<>> \in Seq(T) /\ <<>> \in Seq(S)
    OBVIOUS
  <2> QED BY <2>1, KeepEmpty
<1>2. ASSUME NEW t \in Seq(T), NEW x \in T, t \in P PROVE Append(t, x) \in P
  <2>1. Append(t, x) \in Seq(T)
    OBVIOUS
  <2>2. Keep(t, S) \in Seq(S) /\ Keep(Keep(t, S), S) = Keep(t, S)
    BY <1>2
  <2>3. CASE x \in S
    <3>1. Keep(Append(t, x), S) = Append(Keep(t, S), x)
      BY <2>3, KeepAppend
    <3>2. Keep(Append(Keep(t, S), x), S) = Append(Keep(Keep(t, S), S), x)
      BY <2>2, <2>3, KeepAppend
    <3>3. Append(Keep(t, S), x) \in Seq(S)
      BY <2>2, <2>3
    <3> QED BY <2>1, <2>2, <3>1, <3>2, <3>3
  <2>4. CASE x \notin S
    <3>1. Keep(Append(t, x), S) = Keep(t, S)
      BY <2>4, KeepAppend
    <3> QED BY <2>1, <2>2, <3>1
  <2> QED BY <2>3, <2>4
<1>3. Seq(T) \subseteq P
  <2> HIDE DEF P
  <2> QED BY <1>1, <1>2, SequencesStepwise
<1> QED BY <1>3

-------------------------------------------------------------------------------
(* Entries, what uninstall_hooks leaves of them, and the user's part.      *)

Strip(entry) == [entry EXCEPT !.handlers = Keep(@, Foreign)]
Worth(entry) == entry.handlers # <<>> \/ entry.extra
Stripped(entries) == [n \in DOMAIN entries |-> Strip(entries[n])]
Part(entry) == Keep(entry.handlers, Foreign) \o (IF entry.extra THEN <<"keys">> ELSE <<>>)
Parts(entries) == [n \in DOMAIN entries |-> Part(entries[n])]
User == Foreign \cup {"keys"}

LEMMA KeepOne ==
    ASSUME NEW T, NEW S, NEW x \in T
    PROVE  Keep(<<x>>, S) = IF x \in S THEN <<x>> ELSE <<>>
<1>1. PICK none : none = <<>>
  OBVIOUS
<1>2. Keep(Append(none, x), S) = IF x \in S THEN Append(Keep(none, S), x) ELSE Keep(none, S)
  <2>1. none \in Seq(T)
    BY <1>1
  <2> QED BY <2>1, KeepAppend
<1>3. Keep(none, S) = none
  BY <1>1, KeepEmpty
<1>4. Append(none, x) = <<x>>
  BY <1>1
<1> QED BY <1>1, <1>2, <1>3, <1>4

LEMMA EntryType ==
    ASSUME NEW x \in Entry
    PROVE  /\ x = [grouped |-> x.grouped, handlers |-> x.handlers, extra |-> x.extra]
           /\ x.grouped \in BOOLEAN /\ x.extra \in BOOLEAN
           /\ x.handlers \in Seq(Handlers)
<1>1. CASE x \in [grouped : {TRUE}, handlers : Seq(Handlers), extra : BOOLEAN]
  BY <1>1
<1>2. CASE \E h \in Handlers : x = Alone(h)
  <2>1. PICK h \in Handlers : x = Alone(h)
    BY <1>2
  <2>2. <<h>> \in Seq(Handlers)
    OBVIOUS
  <2> QED BY <2>1, <2>2 DEF Alone
<1> QED BY <1>1, <1>2 DEF Entry

LEMMA StripFacts ==
    ASSUME NEW x \in Entry
    PROVE  /\ Strip(x).handlers = Keep(x.handlers, Foreign)
           /\ Strip(x).handlers \in Seq(Foreign)
           /\ Strip(x).grouped = x.grouped /\ Strip(x).extra = x.extra
           /\ Worth(Strip(x)) => Strip(x) \in Entry
<1>1. /\ x = [grouped |-> x.grouped, handlers |-> x.handlers, extra |-> x.extra]
      /\ x.grouped \in BOOLEAN /\ x.extra \in BOOLEAN /\ x.handlers \in Seq(Handlers)
  BY EntryType
<1>2. Strip(x) = [grouped |-> x.grouped, handlers |-> Keep(x.handlers, Foreign), extra |-> x.extra]
  BY <1>1 DEF Strip
<1>3. Keep(x.handlers, Foreign) \in Seq(Foreign)
  BY <1>1, KeepTwice
<1>4. ASSUME Worth(Strip(x)) PROVE Strip(x) \in Entry
  <2>1. CASE x \in [grouped : {TRUE}, handlers : Seq(Handlers), extra : BOOLEAN]
    <3>1. Keep(x.handlers, Foreign) \in Seq(Handlers)
      BY <1>3 DEF Handlers
    <3>2. x.grouped = TRUE
      BY <2>1
    <3>3. PICK hs \in Seq(Handlers) : hs = Keep(x.handlers, Foreign)
      BY <3>1
    <3>4. Strip(x) \in [grouped : {TRUE}, handlers : Seq(Handlers), extra : BOOLEAN]
      <4>1. Strip(x) = [grouped |-> TRUE, handlers |-> hs, extra |-> x.extra]
        BY <1>2, <3>2, <3>3
      <4>2. x.extra \in BOOLEAN
        BY <1>1
      <4> QED BY <4>1, <4>2
    <3> QED BY <3>4 DEF Entry
  <2>2. CASE \E h \in Handlers : x = Alone(h)
    <3>1. PICK h \in Handlers : x = Alone(h)
      BY <2>2
    <3>2. Keep(<<h>>, Foreign) = IF h \in Foreign THEN <<h>> ELSE <<>>
      BY KeepOne
    <3>3. x.handlers = <<h>> /\ x.extra = FALSE /\ x.grouped = FALSE
      BY <3>1 DEF Alone
    <3>4. h \in Foreign
      BY <1>2, <1>4, <3>2, <3>3 DEF Worth
    <3>5. Strip(x) = Alone(h)
      BY <1>2, <3>2, <3>3, <3>4 DEF Alone
    <3> QED BY <3>5 DEF Entry
  <2> QED BY <2>1, <2>2 DEF Entry
<1> QED BY <1>2, <1>3, <1>4

StrippedEntries == {Strip(e) : e \in Entry}
WorthKeeping == {t \in StrippedEntries : Worth(t)}

LEMMA RemainingKeeps ==
    ASSUME NEW es \in Seq(Entry)
    PROVE  /\ Stripped(es) \in Seq(StrippedEntries) /\ Len(Stripped(es)) = Len(es)
           /\ Remaining(es) = Keep(Stripped(es), WorthKeeping)
           /\ Remaining(es) \in Seq(WorthKeeping) /\ Remaining(es) \in Seq(Entry)
<1>1. Len(es) \in Nat /\ DOMAIN es = 1..Len(es) /\ \A n \in 1..Len(es) : es[n] \in Entry
  OBVIOUS
<1> DEFINE t == Stripped(es)
<1>2. t = [n \in 1..Len(es) |-> Strip(es[n])] /\ \A n \in 1..Len(es) : Strip(es[n]) \in StrippedEntries
  BY <1>1 DEF Stripped, StrippedEntries
<1>3. t \in Seq(StrippedEntries) /\ Len(t) = Len(es) /\ DOMAIN t = 1..Len(es)
  BY <1>1, <1>2
<1>4. \A n \in DOMAIN t : t[n] \in {e \in Range(t) : e.handlers # <<>> \/ e.extra}
                          <=> t[n] \in WorthKeeping
  BY <1>1, <1>2, <1>3 DEF WorthKeeping, Worth, Range
<1>5. Remaining(es) = Keep(t, {e \in Range(t) : e.handlers # <<>> \/ e.extra})
  BY DEF Remaining, Stripped, Strip
<1> HIDE DEF t
<1>6. Remaining(es) = Keep(t, WorthKeeping)
  BY <1>4, <1>5 DEF Keep
<1>7. Remaining(es) \in Seq(WorthKeeping)
  BY <1>3, <1>6, KeepTwice
<1>8. WorthKeeping \subseteq Entry
  BY StripFacts DEF WorthKeeping, StrippedEntries
<1>9. Remaining(es) \in Seq(Entry)
  BY <1>7, <1>8
<1> QED BY <1>3, <1>6, <1>7, <1>9 DEF t

LEMMA RemainingEmpty == Remaining(<<>>) = <<>>
<1>1. <<>> \in Seq(Entry) /\ Stripped(<<>>) = <<>>
  BY DEF Stripped
<1> QED BY <1>1, RemainingKeeps, KeepEmpty

(* A function applied to each member of a sequence, and of a longer one.   *)
LEMMA EachType ==
    ASSUME NEW T, NEW U, NEW s \in Seq(T),
           NEW f, DOMAIN f = T, \A y \in T : f[y] \in U
    PROVE  [n \in DOMAIN s |-> f[s[n]]] \in Seq(U)
<1>1. Len(s) \in Nat /\ DOMAIN s = 1..Len(s) /\ \A n \in 1..Len(s) : s[n] \in T
  OBVIOUS
<1> QED BY <1>1

LEMMA EachAppend ==
    ASSUME NEW T, NEW U, NEW s \in Seq(T), NEW x \in T,
           NEW f, DOMAIN f = T, \A y \in T : f[y] \in U
    PROVE  [n \in DOMAIN Append(s, x) |-> f[Append(s, x)[n]]]
             = Append([n \in DOMAIN s |-> f[s[n]]], f[x])
<1> DEFINE a == Append(s, x)
           u == [n \in DOMAIN a |-> f[a[n]]]
           v == [n \in DOMAIN s |-> f[s[n]]]
           w == Append(v, f[x])
<1>1. /\ Len(s) \in Nat /\ DOMAIN s = 1..Len(s) /\ DOMAIN a = 1..(Len(s) + 1)
      /\ a[Len(s) + 1] = x /\ \A n \in 1..Len(s) : a[n] = s[n] /\ s[n] \in T
  OBVIOUS
<1>2. v \in Seq(U) /\ Len(v) = Len(s)
  BY <1>1
<1>3. /\ w \in Seq(U) /\ Len(w) = Len(s) + 1 /\ w[Len(s) + 1] = f[x]
      /\ \A n \in 1..Len(s) : w[n] = v[n]
  <2> HIDE DEF v
  <2> QED BY <1>1, <1>2
<1>4. w = [n \in 1..(Len(s) + 1) |-> w[n]]
  <2> HIDE DEF w
  <2> QED BY <1>1, <1>3
<1>5. ASSUME NEW n \in 1..(Len(s) + 1) PROVE u[n] = w[n]
  <2>1. u[n] = f[a[n]]
    BY <1>1
  <2>2. CASE n = Len(s) + 1
    BY <1>1, <1>3, <2>1, <2>2
  <2>3. CASE n # Len(s) + 1
    <3>1. n \in 1..Len(s)
      BY <1>1, <2>3
    <3> QED BY <1>1, <1>3, <2>1, <3>1
  <2> QED BY <2>2, <2>3
<1>6. u = w
  <2>1. u = [n \in 1..(Len(s) + 1) |-> u[n]]
    BY <1>1
  <2> HIDE DEF u, w
  <2> QED BY <1>4, <1>5, <2>1
<1> QED BY <1>6

LEMMA RemainingAppend ==
    ASSUME NEW es \in Seq(Entry), NEW x \in Entry
    PROVE  Remaining(Append(es, x)) =
             IF Worth(Strip(x)) THEN Append(Remaining(es), Strip(x)) ELSE Remaining(es)
<1>1. Append(es, x) \in Seq(Entry)
  OBVIOUS
<1>2. Stripped(Append(es, x)) = Append(Stripped(es), Strip(x))
  <2> DEFINE f == [e \in Entry |-> Strip(e)]
  <2>1. DOMAIN f = Entry /\ \A y \in Entry : f[y] \in StrippedEntries
    BY DEF StrippedEntries
  <2>2. f[x] = Strip(x) /\ \A n \in DOMAIN es : f[es[n]] = Strip(es[n])
    OBVIOUS
  <2>3. \A n \in DOMAIN Append(es, x) : f[Append(es, x)[n]] = Strip(Append(es, x)[n])
    BY <1>1
  <2> HIDE DEF f
  <2>4. [n \in DOMAIN Append(es, x) |-> f[Append(es, x)[n]]]
          = Append([n \in DOMAIN es |-> f[es[n]]], f[x])
    BY <2>1, EachAppend
  <2> QED BY <2>2, <2>3, <2>4 DEF Stripped
<1>3. Strip(x) \in WorthKeeping <=> Worth(Strip(x))
  BY DEF WorthKeeping, StrippedEntries
<1>4. Strip(x) \in StrippedEntries
  BY DEF StrippedEntries
<1>5. Keep(Append(Stripped(es), Strip(x)), WorthKeeping) =
        IF Strip(x) \in WorthKeeping THEN Append(Keep(Stripped(es), WorthKeeping), Strip(x))
        ELSE Keep(Stripped(es), WorthKeeping)
  BY <1>4, RemainingKeeps, KeepAppend
<1> QED BY <1>1, <1>2, <1>3, <1>5, RemainingKeeps

(* uninstall_hooks leaves no handler of AgentContract.                     *)
LEMMA NoHookLeft ==
    ASSUME NEW es \in Seq(Entry)
    PROVE  ~Holds(Remaining(es))
<1>1. Remaining(es) \in Seq(WorthKeeping)
  BY RemainingKeeps
<1>2. \A t \in WorthKeeping : t.handlers \in Seq(Foreign)
  BY StripFacts DEF WorthKeeping, StrippedEntries
<1>3. \A hs \in Seq(Foreign) : AC \notin Range(hs)
  BY FilesAssumption DEF Range
<1>4. \A n \in DOMAIN Remaining(es) : Remaining(es)[n] \in WorthKeeping
  BY <1>1
<1> QED BY <1>2, <1>3, <1>4 DEF Holds

LEMMA PartType == ASSUME NEW x \in Entry PROVE Part(x) \in Seq(User)
<1>1. x.handlers \in Seq(Handlers) /\ x.extra \in BOOLEAN
  BY EntryType
<1>2. Keep(x.handlers, Foreign) \in Seq(Foreign)
  BY <1>1, KeepTwice
<1>3. Keep(x.handlers, Foreign) \in Seq(User)
  BY <1>2 DEF User
<1>4. <<"keys">> \in Seq(User) /\ <<>> \in Seq(User)
  BY DEF User
<1>5. (IF x.extra THEN <<"keys">> ELSE <<>>) \in Seq(User)
  BY <1>4
<1> QED BY <1>3, <1>5 DEF Part

LEMMA UserPartAppend ==
    ASSUME NEW es \in Seq(Entry), NEW x \in Entry
    PROVE  /\ UserPart(es) \in Seq(User)
           /\ UserPart(Append(es, x)) = UserPart(es) \o Part(x)
<1>1. Append(es, x) \in Seq(Entry)
  OBVIOUS
<1>2. Parts(Append(es, x)) = Append(Parts(es), Part(x)) /\ Parts(es) \in Seq(Seq(User))
  <2> DEFINE f == [e \in Entry |-> Part(e)]
  <2>1. DOMAIN f = Entry /\ \A y \in Entry : f[y] \in Seq(User)
    BY PartType
  <2>2. f[x] = Part(x) /\ \A n \in DOMAIN es : f[es[n]] = Part(es[n])
    OBVIOUS
  <2>3. \A n \in DOMAIN Append(es, x) : f[Append(es, x)[n]] = Part(Append(es, x)[n])
    BY <1>1
  <2> HIDE DEF f
  <2>4. [n \in DOMAIN Append(es, x) |-> f[Append(es, x)[n]]]
          = Append([n \in DOMAIN es |-> f[es[n]]], f[x])
    BY <2>1, EachAppend
  <2>5. [n \in DOMAIN es |-> f[es[n]]] \in Seq(Seq(User))
    BY <2>1, EachType
  <2> QED BY <2>2, <2>3, <2>4, <2>5 DEF Parts
<1>3. UserPart(es) = FlattenSeq(Parts(es)) /\ UserPart(Append(es, x)) = FlattenSeq(Parts(Append(es, x)))
  BY DEF UserPart, Parts, Part
<1>4. Part(x) \in Seq(User)
  BY PartType
<1> QED BY <1>2, <1>3, <1>4, FlattenAppend

LEMMA UserPartEmpty == UserPart(<<>>) = <<>>
<1>1. Parts(<<>>) = <<>>
  BY DEF Parts
<1>2. UserPart(<<>>) = FlattenSeq(Parts(<<>>))
  BY DEF UserPart, Parts, Part
<1> QED BY <1>1, <1>2, FlattenEmpty

(* uninstall_hooks keeps the user's part of the entries.                   *)
LEMMA UserPartRemaining ==
    ASSUME NEW es \in Seq(Entry)
    PROVE  UserPart(Remaining(es)) = UserPart(es)
<1> DEFINE P == {t \in Seq(Entry) : UserPart(Remaining(t)) = UserPart(t)}
<1>1. <<>> \in P
  <2>1. <<>> \in Seq(Entry)
    OBVIOUS
  <2> QED BY <2>1, RemainingEmpty
<1>2. ASSUME NEW t \in Seq(Entry), NEW x \in Entry, t \in P PROVE Append(t, x) \in P
  <2>1. Append(t, x) \in Seq(Entry) /\ UserPart(Remaining(t)) = UserPart(t)
    BY <1>2
  <2>2. UserPart(Append(t, x)) = UserPart(t) \o Part(x) /\ UserPart(t) \in Seq(User)
    BY UserPartAppend
  <2>3. /\ Strip(x).handlers = Keep(x.handlers, Foreign) /\ Strip(x).extra = x.extra
        /\ x.handlers \in Seq(Handlers) /\ x.extra \in BOOLEAN
    BY StripFacts, EntryType
  <2>4. Part(Strip(x)) = Part(x)
    BY <2>3, KeepTwice DEF Part
  <2>5. CASE Worth(Strip(x))
    <3>1. Remaining(Append(t, x)) = Append(Remaining(t), Strip(x))
      BY <2>5, RemainingAppend
    <3>2. Remaining(t) \in Seq(Entry) /\ Strip(x) \in Entry
      BY <2>5, RemainingKeeps, StripFacts
    <3>3. UserPart(Append(Remaining(t), Strip(x))) = UserPart(Remaining(t)) \o Part(Strip(x))
      BY <3>2, UserPartAppend
    <3> QED BY <2>1, <2>2, <2>4, <3>1, <3>3
  <2>6. CASE ~Worth(Strip(x))
    <3>1. Remaining(Append(t, x)) = Remaining(t)
      BY <2>6, RemainingAppend
    <3>2. Strip(x).handlers = <<>> /\ ~x.extra
      BY <2>3, <2>6 DEF Worth
    <3>3. Part(x) = <<>> \o <<>>
      BY <2>3, <3>2 DEF Part
    <3>4. UserPart(t) \o (<<>> \o <<>>) = UserPart(t)
      BY <2>2
    <3> QED BY <2>1, <2>2, <3>1, <3>3, <3>4
  <2> QED BY <2>5, <2>6
<1>3. Seq(Entry) \subseteq P
  <2> HIDE DEF P
  <2> QED BY <1>1, <1>2, SequencesStepwise
<1> QED BY <1>3

-------------------------------------------------------------------------------
(* Files, and the places in them where AgentContract is called.            *)

Calls(entries, n, m) == entries[n].grouped /\ entries[n].handlers[m] = AC

Once(entries) ==
    \A n, k \in DOMAIN entries : \A m \in DOMAIN entries[n].handlers, l \in DOMAIN entries[k].handlers :
        Calls(entries, n, m) /\ Calls(entries, k, l) => n = k /\ m = l

LEMMA PlacesOnce ==
    ASSUME NEW es
    PROVE  (\A x, y \in HookPlaces(es) : x = y) <=> Once(es)
<1>1. ASSUME NEW n, NEW m
      PROVE  <<n, m>> \in HookPlaces(es) <=>
                n \in DOMAIN es /\ m \in DOMAIN es[n].handlers /\ Calls(es, n, m)
  <2>1. <<n, m>>[1] = n /\ <<n, m>>[2] = m
    OBVIOUS
  <2>2. (\E k \in DOMAIN es : <<n, m>> \in {k} \X DOMAIN es[k].handlers)
           <=> n \in DOMAIN es /\ m \in DOMAIN es[n].handlers
    OBVIOUS
  <2>3. <<n, m>> \in UNION {{k} \X DOMAIN es[k].handlers : k \in DOMAIN es}
           <=> \E k \in DOMAIN es : <<n, m>> \in {k} \X DOMAIN es[k].handlers
    OBVIOUS
  <2> QED BY <2>1, <2>2, <2>3 DEF HookPlaces, Calls
<1>2. ASSUME NEW x \in HookPlaces(es) PROVE \E n, m : x = <<n, m>>
  BY DEF HookPlaces
<1>3. ASSUME \A x, y \in HookPlaces(es) : x = y PROVE Once(es)
  <2>1. ASSUME NEW n \in DOMAIN es, NEW k \in DOMAIN es,
               NEW m \in DOMAIN es[n].handlers, NEW l \in DOMAIN es[k].handlers,
               Calls(es, n, m), Calls(es, k, l)
        PROVE  n = k /\ m = l
    <3>1. <<n, m>> = <<k, l>>
      BY <1>1, <1>3, <2>1
    <3> QED BY <3>1
  <2> QED BY <2>1 DEF Once
<1>4. ASSUME Once(es), NEW x \in HookPlaces(es), NEW y \in HookPlaces(es) PROVE x = y
  <2>1. PICK n, m : x = <<n, m>>
    BY <1>2
  <2>2. PICK k, l : y = <<k, l>>
    BY <1>2
  <2> QED BY <1>1, <1>4, <2>1, <2>2 DEF Once
<1> QED BY <1>3, <1>4

LEMMA OnceCalled == \A c : CallsOnce(c) <=> \A e \in Events : Once(EntriesOf(c, e))
  BY PlacesOnce DEF CallsOnce

LEMMA ContentFacts ==
    ASSUME NEW c, IsValid(c)
    PROVE  /\ c.is = "readable" /\ IsReadable(c) /\ c # Missing /\ c # Broken
           /\ c = Content(c.wrapped, c.extra, c.events)
           /\ \A e : EntriesOf(c, e) \in Seq(Entry)
<1>1. c = [is |-> "readable", wrapped |-> c.wrapped, extra |-> c.extra, events |-> c.events]
  BY DEF IsValid, Content
<1>2. c.is = "readable"
  BY <1>1
<1>3. ASSUME NEW e PROVE EntriesOf(c, e) \in Seq(Entry)
  <2>1. <<>> \in Seq(Entry)
    OBVIOUS
  <2> QED BY <2>1 DEF EntriesOf, IsValid
<1> QED BY <1>1, <1>2, <1>3 DEF IsReadable, Missing, Broken, Content

EntriesAt(events, e) == IF e \in DOMAIN events THEN events[e] ELSE <<>>

(* A change of the entries of events, event by event.                      *)
LEMMA ContentMade ==
    ASSUME NEW w \in BOOLEAN, NEW x \in BOOLEAN, NEW D \in SUBSET Events,
           NEW f \in [D -> Seq(Entry)],
           w = TRUE \/ (D \subseteq LifecycleEvents /\ x = FALSE)
    PROVE  /\ IsValid(Content(w, x, f))
           /\ Content(w, x, f).extra = x /\ Content(w, x, f).events = f
           /\ \A e : EntriesOf(Content(w, x, f), e) = EntriesAt(f, e)
  BY DEF IsValid, Content, EntriesOf, EntriesAt

LEMMA TemplateFacts ==
    ASSUME NEW e
    PROVE  /\ Template(e) \in Entry /\ Part(Template(e)) = <<>>
           /\ Template(e).grouped /\ Template(e).handlers = <<AC>>
<1>1. Template(e) = [grouped |-> TRUE, handlers |-> <<AC>>, extra |-> FALSE]
  BY DEF Template, Group
<1>2. <<AC>> \in Seq(Handlers)
  BY DEF Handlers
<1>3. Template(e) \in Entry
  BY <1>1, <1>2 DEF Entry
<1>4. Keep(<<AC>>, Foreign) = <<>>
  <2>1. AC \in Handlers /\ AC \notin Foreign
    BY FilesAssumption DEF Handlers
  <2> QED BY <2>1, KeepOne
<1>5. Part(Template(e)) = <<>> \o <<>>
  BY <1>1, <1>4 DEF Part
<1> QED BY <1>1, <1>3, <1>5

-------------------------------------------------------------------------------
(* install_hooks                                                           *)

LEMMA HookAdded ==
    ASSUME NEW es \in Seq(Entry), NEW e, ~HasHook(es)
    PROVE  /\ Append(es, Template(e)) \in Seq(Entry)
           /\ HasHook(Append(es, Template(e))) /\ Once(Append(es, Template(e)))
           /\ UserPart(Append(es, Template(e))) = UserPart(es)
<1> DEFINE t == Template(e)
           a == Append(es, t)
<1>1. t \in Entry /\ t.grouped /\ t.handlers = <<AC>> /\ Part(t) = <<>>
  BY TemplateFacts
<1> HIDE DEF t
<1>2. /\ a \in Seq(Entry) /\ Len(es) \in Nat /\ DOMAIN a = 1..(Len(es) + 1)
      /\ a[Len(es) + 1] = t /\ DOMAIN es = 1..Len(es)
      /\ \A n \in 1..Len(es) : a[n] = es[n]
  BY <1>1
<1> HIDE DEF a
<1>3. HasHook(a)
  <2>1. AC \in Range(<<AC>>)
    BY DEF Range
  <2>2. Len(es) + 1 \in DOMAIN a
    BY <1>2
  <2> QED BY <1>1, <1>2, <2>1, <2>2 DEF HasHook
<1>4. \A n \in 1..Len(es) : \A m \in DOMAIN es[n].handlers : ~Calls(es, n, m)
  BY <1>2 DEF HasHook, Calls, Range
<1>5. ASSUME NEW n \in DOMAIN a, NEW m \in DOMAIN a[n].handlers, Calls(a, n, m)
      PROVE  n = Len(es) + 1 /\ m = 1
  <2>1. n = Len(es) + 1
    <3>1. CASE n \in 1..Len(es)
      BY <1>2, <1>4, <1>5, <3>1 DEF Calls
    <3> QED BY <1>2, <3>1
  <2>2. DOMAIN <<AC>> = {1}
    OBVIOUS
  <2>3. DOMAIN a[n].handlers = {1}
    BY <1>1, <1>2, <2>1, <2>2
  <2> QED BY <2>1, <2>3
<1>6. Once(a)
  BY <1>5 DEF Once
<1>7. UserPart(a) = UserPart(es)
  <2>1. UserPart(a) = UserPart(es) \o Part(t) /\ UserPart(es) \in Seq(User)
    BY <1>1, UserPartAppend DEF a
  <2>2. UserPart(es) \o <<>> = UserPart(es)
    BY <2>1
  <2> QED BY <1>1, <2>1, <2>2
<1> QED BY <1>2, <1>3, <1>6, <1>7 DEF a, t

HookIn(e, es) == IF e \in LifecycleEvents /\ ~HasHook(es) THEN Append(es, Template(e)) ELSE es

LEMMA HookInFacts ==
    ASSUME NEW es \in Seq(Entry), NEW e
    PROVE  /\ HookIn(e, es) \in Seq(Entry) /\ UserPart(HookIn(e, es)) = UserPart(es)
           /\ e \in LifecycleEvents => HasHook(HookIn(e, es))
           /\ Once(es) => Once(HookIn(e, es))
  BY HookAdded DEF HookIn

LEMMA NoEntries == ~HasHook(<<>>) /\ Once(<<>>) /\ ~Holds(<<>>)
  BY DEF HasHook, Once, Holds

UsersSame(c, d) == (\A e \in Events : UsersEntries(d, e) = UsersEntries(c, e)) /\ HasExtra(d) = HasExtra(c)
FileOK(c) == c \in {Missing, Broken} \/ (IsValid(c) /\ CallsOnce(c))

LEMMA InstalledFacts ==
    ASSUME NEW c, FileOK(c), c # Broken
    PROVE  /\ IsValid(Installed(c)) /\ CallsOnce(Installed(c))
           /\ \A e \in LifecycleEvents : HasHook(EntriesOf(Installed(c), e))
           /\ UsersSame(c, Installed(c))
<1>1. CASE c = Missing
  <2> DEFINE f == [e \in LifecycleEvents |-> <<Template(e)>>]
  <2>1. Installed(c) = Content(TRUE, FALSE, f)
    BY <1>1 DEF Installed, HooksTemplate
  <2>2. PICK none : none = <<>>
    OBVIOUS
  <2>3. none \in Seq(Entry)
    BY <2>2
  <2>4. \A e : <<Template(e)>> = Append(none, Template(e))
    BY <2>2
  <2>5. ASSUME NEW e \in LifecycleEvents PROVE f[e] = HookIn(e, none)
    BY <2>2, <2>4, NoEntries DEF HookIn
  <2>6. LifecycleEvents \in SUBSET Events
    BY DEF Events
  <2>7. DOMAIN f = LifecycleEvents /\ f = [e \in LifecycleEvents |-> f[e]]
    OBVIOUS
  <2> HIDE DEF f
  <2>8. f \in [LifecycleEvents -> Seq(Entry)]
    BY <2>3, <2>5, <2>7, HookInFacts
  <2>9. /\ IsValid(Content(TRUE, FALSE, f)) /\ Content(TRUE, FALSE, f).extra = FALSE
        /\ \A e : EntriesOf(Content(TRUE, FALSE, f), e) = EntriesAt(f, e)
    <3>1. PICK w \in BOOLEAN, x \in BOOLEAN : w = TRUE /\ x = FALSE
      OBVIOUS
    <3>2. /\ IsValid(Content(w, x, f)) /\ Content(w, x, f).extra = x
          /\ \A e : EntriesOf(Content(w, x, f), e) = EntriesAt(f, e)
      BY <2>6, <2>8, <3>1, ContentMade
    <3>3. Content(w, x, f) = Content(TRUE, FALSE, f)
      BY <3>1
    <3> QED BY <3>1, <3>2, <3>3
  <2>10. \A e \in Events : EntriesOf(Installed(c), e) = HookIn(e, none)
    BY <2>1, <2>2, <2>5, <2>7, <2>9 DEF HookIn, EntriesAt
  <2>11. CallsOnce(Installed(c))
    BY <2>2, <2>3, <2>10, HookInFacts, NoEntries, OnceCalled
  <2>12. \A e \in LifecycleEvents : HasHook(EntriesOf(Installed(c), e))
    BY <2>3, <2>6, <2>10, HookInFacts
  <2>13. UsersSame(c, Installed(c))
    <3>1. ~IsReadable(c)
      BY <1>1 DEF IsReadable, Missing
    <3>2. \A e \in Events : UserPart(EntriesOf(Installed(c), e)) = <<>>
      BY <2>2, <2>3, <2>10, HookInFacts, UserPartEmpty
    <3>3. ~HasExtra(Installed(c))
      BY <2>1, <2>9 DEF HasExtra
    <3> QED BY <3>1, <3>2, <3>3 DEF UsersSame, UsersEntries, HasExtra
  <2> QED BY <2>1, <2>9, <2>11, <2>12, <2>13
<1>2. CASE IsValid(c) /\ CallsOnce(c)
  <2>0. PICK w \in BOOLEAN : w = (c.wrapped \/ DOMAIN c.events = {})
    OBVIOUS
  <2> DEFINE D == DOMAIN c.events \cup LifecycleEvents
             f == Merged(c)
  <2>1. /\ IsReadable(c) /\ c # Missing
        /\ c = Content(c.wrapped, c.extra, c.events)
        /\ \A e : EntriesOf(c, e) \in Seq(Entry)
    BY <1>2, ContentFacts
  <2>2. Installed(c) = Content(w, c.extra, f)
    BY <2>0, <2>1 DEF Installed
  <2>3. /\ c.extra \in BOOLEAN /\ DOMAIN c.events \subseteq Events
        /\ ~c.wrapped => DOMAIN c.events \subseteq LifecycleEvents /\ ~c.extra
    BY <1>2 DEF IsValid
  <2>4. ASSUME NEW e \in D PROVE f[e] = HookIn(e, EntriesOf(c, e))
    BY NoEntries DEF Merged, HookIn, EntriesOf
  <2>5. f = [e \in D |-> f[e]]
    BY DEF Merged
  <2> HIDE DEF f
  <2>6. f \in [D -> Seq(Entry)]
    BY <2>1, <2>4, <2>5, HookInFacts
  <2>7. D \in SUBSET Events
    BY <2>3 DEF Events
  <2>8. (w = TRUE \/ (D \subseteq LifecycleEvents /\ c.extra = FALSE))
    BY <2>0, <2>3
  <2> HIDE DEF D
  <2>9. /\ IsValid(Installed(c)) /\ Installed(c).extra = c.extra
        /\ \A e : EntriesOf(Installed(c), e) = EntriesAt(f, e)
    <3>1. PICK x \in BOOLEAN : x = c.extra
      BY <2>3
    <3>2. w = TRUE \/ (D \subseteq LifecycleEvents /\ x = FALSE)
      BY <2>8, <3>1
    <3>3. /\ IsValid(Content(w, x, f)) /\ Content(w, x, f).extra = x
          /\ \A e : EntriesOf(Content(w, x, f), e) = EntriesAt(f, e)
      <4>1. CASE w = TRUE
        BY <2>6, <2>7, <4>1, ContentMade
      <4>2. CASE D \subseteq LifecycleEvents /\ x = FALSE
        BY <2>6, <2>7, <4>2, ContentMade
      <4> QED BY <3>2, <4>1, <4>2
    <3> QED BY <2>2, <3>1, <3>3
  <2>10. \A e \in Events : EntriesOf(Installed(c), e) = HookIn(e, EntriesOf(c, e))
    <3>1. ASSUME NEW e \in Events, e \notin D
          PROVE  EntriesOf(c, e) = <<>> /\ HookIn(e, EntriesOf(c, e)) = EntriesOf(c, e)
      BY <3>1 DEF D, EntriesOf, HookIn
    <3> QED BY <2>4, <2>5, <2>9, <3>1 DEF EntriesAt
  <2>11. CallsOnce(Installed(c))
    BY <1>2, <2>1, <2>10, HookInFacts, OnceCalled
  <2>12. \A e \in LifecycleEvents : HasHook(EntriesOf(Installed(c), e))
    BY <2>1, <2>10, HookInFacts DEF Events
  <2>13. UsersSame(c, Installed(c))
    <3>1. IsReadable(Installed(c))
      BY <2>9, ContentFacts
    <3> QED BY <2>1, <2>9, <2>10, <3>1, HookInFacts DEF UsersSame, UsersEntries, HasExtra
  <2> QED BY <2>9, <2>11, <2>12, <2>13
<1> QED BY <1>1, <1>2 DEF FileOK

-------------------------------------------------------------------------------
(* uninstall_hooks                                                         *)

LEMMA NoneHeld ==
    ASSUME NEW es, ~Holds(es)
    PROVE  Once(es)
<1>1. \A n \in DOMAIN es : \A m \in DOMAIN es[n].handlers : ~Calls(es, n, m)
  BY DEF Holds, Calls, Range
<1> QED BY <1>1 DEF Once

Left(c) == {e \in DOMAIN c.events : Holds(c.events[e]) => Remaining(c.events[e]) # <<>>}

LEMMA UninstalledFacts ==
    ASSUME NEW c, IsValid(c), CallsOnce(c)
    PROVE  /\ FileOK(Uninstalled(c)) /\ Uninstalled(c) # Broken
           /\ IsReadable(Uninstalled(c)) =>
                 \A e \in DOMAIN Uninstalled(c).events : ~Holds(Uninstalled(c).events[e])
           /\ UsersSame(c, Uninstalled(c))
<1>1. /\ c # Missing /\ c # Broken /\ IsReadable(c)
      /\ \A e : EntriesOf(c, e) \in Seq(Entry)
  BY ContentFacts
<1>2. /\ c.wrapped \in BOOLEAN /\ c.extra \in BOOLEAN /\ DOMAIN c.events \subseteq Events
      /\ c.wrapped = TRUE \/ (DOMAIN c.events \subseteq LifecycleEvents /\ c.extra = FALSE)
  BY DEF IsValid
<1> DEFINE D == Left(c)
           f == [e \in D |-> Remaining(c.events[e])]
<1>3. D \subseteq DOMAIN c.events /\ \A e \in DOMAIN c.events : e \notin D => Remaining(c.events[e]) = <<>>
  BY DEF Left
<1>4. \A e \in DOMAIN c.events : c.events[e] = EntriesOf(c, e) /\ c.events[e] \in Seq(Entry)
  BY <1>1 DEF EntriesOf
<1>5. Uninstalled(c) = IF \A e \in DOMAIN c.events : ~Holds(c.events[e]) THEN c
                       ELSE IF D = {} /\ ~c.extra THEN Missing
                       ELSE Content(c.wrapped, c.extra, f)
  BY DEF Uninstalled, Left
<1>6. f = [e \in D |-> f[e]] /\ \A e \in D : f[e] = Remaining(c.events[e])
  OBVIOUS
<1> HIDE DEF D, f
<1>7. ASSUME NEW e \in DOMAIN c.events, e \notin D PROVE UserPart(c.events[e]) = <<>>
  BY <1>3, <1>4, <1>7, UserPartRemaining, UserPartEmpty
<1>8. CASE \A e \in DOMAIN c.events : ~Holds(c.events[e])
  <2>1. Uninstalled(c) = c
    BY <1>5, <1>8
  <2> QED BY <1>1, <1>8, <2>1 DEF FileOK, UsersSame
<1>9. CASE Uninstalled(c) = Missing /\ D = {} /\ ~c.extra
  <2>1. ~IsReadable(Missing) /\ Missing # Broken
    BY DEF IsReadable, Missing, Broken
  <2>2. \A e \in Events : UserPart(EntriesOf(c, e)) = <<>>
    BY <1>4, <1>7, <1>9, UserPartEmpty DEF EntriesOf
  <2> QED BY <1>1, <1>9, <2>1, <2>2 DEF FileOK, UsersSame, UsersEntries, HasExtra
<1>10. CASE Uninstalled(c) = Content(c.wrapped, c.extra, f)
  <2>1. f \in [D -> Seq(Entry)]
    BY <1>3, <1>4, <1>6, RemainingKeeps
  <2>2. D \in SUBSET Events
    BY <1>2, <1>3
  <2>3. PICK w \in BOOLEAN, x \in BOOLEAN : w = c.wrapped /\ x = c.extra
    BY <1>2
  <2>4. /\ IsValid(Content(w, x, f)) /\ Content(w, x, f).extra = x
        /\ Content(w, x, f).events = f
        /\ \A e : EntriesOf(Content(w, x, f), e) = EntriesAt(f, e)
    <3>1. CASE w = TRUE
      BY <2>1, <2>2, <3>1, ContentMade
    <3>2. CASE D \subseteq LifecycleEvents /\ x = FALSE
      BY <2>1, <2>2, <3>2, ContentMade
    <3> QED BY <1>2, <1>3, <2>3, <3>1, <3>2
  <2>5. Uninstalled(c) = Content(w, x, f)
    BY <1>10, <2>3
  <2>6. /\ IsValid(Uninstalled(c)) /\ Uninstalled(c).extra = c.extra
        /\ Uninstalled(c).events = f
        /\ \A e : EntriesOf(Uninstalled(c), e) = EntriesAt(f, e)
    BY <2>3, <2>4, <2>5
  <2>7. \A e \in D : ~Holds(f[e])
    BY <1>3, <1>4, <1>6, NoHookLeft
  <2>8. CallsOnce(Uninstalled(c))
    <3>1. \A e : ~Holds(EntriesAt(f, e))
      BY <1>6, <2>7, NoEntries DEF EntriesAt
    <3> QED BY <2>6, <3>1, NoneHeld, OnceCalled
  <2>9. IsReadable(Uninstalled(c)) /\ Uninstalled(c) # Broken
    BY <2>6, ContentFacts
  <2>10. ASSUME NEW e \in Events PROVE UserPart(EntriesAt(f, e)) = UserPart(EntriesOf(c, e))
    <3>1. CASE e \in D
      <4>1. EntriesAt(f, e) = Remaining(c.events[e]) /\ e \in DOMAIN c.events
        BY <1>3, <1>6, <3>1 DEF EntriesAt
      <4> QED BY <1>4, <4>1, UserPartRemaining
    <3>2. CASE e \in DOMAIN c.events /\ e \notin D
      <4>1. EntriesAt(f, e) = <<>>
        BY <1>6, <3>2 DEF EntriesAt
      <4> QED BY <1>4, <1>7, <3>2, <4>1, UserPartEmpty
    <3>3. CASE e \notin DOMAIN c.events
      <4>1. EntriesAt(f, e) = <<>> /\ EntriesOf(c, e) = <<>>
        BY <1>3, <1>6, <3>3 DEF EntriesAt, EntriesOf
      <4> QED BY <4>1
    <3> QED BY <3>1, <3>2, <3>3
  <2>11. UsersSame(c, Uninstalled(c))
    BY <1>1, <2>6, <2>9, <2>10 DEF UsersSame, UsersEntries, HasExtra
  <2>12. DOMAIN f = D
    BY <1>6
  <2> QED BY <2>6, <2>7, <2>8, <2>9, <2>11, <2>12 DEF FileOK
<1> QED BY <1>5, <1>8, <1>9, <1>10

-------------------------------------------------------------------------------
(* What a command makes of a file.                                         *)
Commands == {"install", "uninstall"}
Ready(command, c) == c # Broken /\ (c = Missing => command = "install")

Achieved(command, c) ==
    IF command = "install"
    THEN IsReadable(c) /\ \A e \in LifecycleEvents : HasHook(EntriesOf(c, e))
    ELSE IsReadable(c) => \A e \in DOMAIN c.events : ~Holds(c.events[e])

LEMMA AfterFacts ==
    ASSUME NEW command \in Commands, NEW c, FileOK(c), Ready(command, c)
    PROVE  /\ FileOK(After(command, c)) /\ Achieved(command, After(command, c))
           /\ UsersSame(c, After(command, c))
<1>1. CASE command = "install"
  <2>1. After(command, c) = Installed(c)
    BY <1>1 DEF After
  <2>2. /\ IsValid(Installed(c)) /\ CallsOnce(Installed(c))
        /\ \A e \in LifecycleEvents : HasHook(EntriesOf(Installed(c), e))
        /\ UsersSame(c, Installed(c))
    BY InstalledFacts DEF Ready
  <2>3. IsReadable(Installed(c))
    BY <2>2, ContentFacts
  <2> QED BY <1>1, <2>1, <2>2, <2>3 DEF FileOK, Achieved
<1>2. CASE command = "uninstall"
  <2>1. command # "install"
    BY <1>2
  <2>2. After(command, c) = Uninstalled(c)
    BY <2>1 DEF After
  <2>3. IsValid(c) /\ CallsOnce(c)
    BY <2>1 DEF FileOK, Ready
  <2> QED BY <2>1, <2>2, <2>3, UninstalledFacts DEF Achieved
<1> QED BY <1>1, <1>2 DEF Commands

(* AddHandler: one more handler of the user in a group.                    *)
LEMMA HandlerAdded ==
    ASSUME NEW es \in Seq(Entry), Once(es), NEW n \in DOMAIN es, es[n].grouped, NEW h \in Foreign
    PROVE  /\ [es EXCEPT ![n].handlers = Append(@, h)] \in Seq(Entry)
           /\ Once([es EXCEPT ![n].handlers = Append(@, h)])
<1> DEFINE hs == Append(es[n].handlers, h)
           g == [es[n] EXCEPT !.handlers = hs]
           u == [es EXCEPT ![n] = g]
<1>1. /\ es[n] \in Entry /\ Len(es) \in Nat /\ DOMAIN es = 1..Len(es)
      /\ es = [k \in 1..Len(es) |-> es[k]] /\ \A k \in 1..Len(es) : es[k] \in Entry
  OBVIOUS
<1>2. /\ es[n].grouped = TRUE
      /\ es[n] = [grouped |-> es[n].grouped, handlers |-> es[n].handlers, extra |-> es[n].extra]
      /\ es[n].extra \in BOOLEAN /\ es[n].handlers \in Seq(Handlers)
  BY <1>1, EntryType
<1>3. /\ hs \in Seq(Handlers) /\ DOMAIN hs = 1..(Len(es[n].handlers) + 1)
      /\ hs[Len(es[n].handlers) + 1] = h /\ DOMAIN es[n].handlers = 1..Len(es[n].handlers)
      /\ \A k \in DOMAIN es[n].handlers : hs[k] = es[n].handlers[k]
      /\ Len(es[n].handlers) \in Nat
  <2>1. h \in Handlers
    BY DEF Handlers
  <2> QED BY <1>2, <2>1
<1> HIDE DEF hs
<1>4. g = [grouped |-> es[n].grouped, handlers |-> hs, extra |-> es[n].extra]
  <2>1. PICK d, t, a, b : d = es[n] /\ t = es[n].grouped /\ a = es[n].handlers /\ b = es[n].extra
    OBVIOUS
  <2>2. d = [grouped |-> t, handlers |-> a, extra |-> b]
    BY <1>2, <2>1
  <2>3. [d EXCEPT !.handlers = hs] = [grouped |-> t, handlers |-> hs, extra |-> b]
    BY <2>2
  <2> QED BY <2>1, <2>3
<1>5. g \in Entry
  BY <1>2, <1>3, <1>4 DEF Entry
<1>6. g.grouped = TRUE /\ g.handlers = hs
  BY <1>2, <1>4
<1> HIDE DEF g
<1>7. /\ u \in Seq(Entry) /\ DOMAIN u = DOMAIN es /\ u[n] = g
      /\ \A k \in DOMAIN es : k # n => u[k] = es[k]
  BY <1>1, <1>5
<1> HIDE DEF u
<1>8. ASSUME NEW k \in DOMAIN u, NEW m \in DOMAIN u[k].handlers, Calls(u, k, m)
      PROVE  k \in DOMAIN es /\ m \in DOMAIN es[k].handlers /\ Calls(es, k, m)
  <2>1. CASE k # n
    BY <1>7, <1>8, <2>1 DEF Calls
  <2>2. CASE k = n
    <3>1. u[k].handlers = hs /\ hs[m] = AC /\ m \in DOMAIN hs
      BY <1>6, <1>7, <1>8, <2>2 DEF Calls
    <3>2. m # Len(es[n].handlers) + 1
      BY <1>3, <3>1, FilesAssumption
    <3>3. m \in DOMAIN es[n].handlers
      BY <1>3, <3>1, <3>2
    <3> QED BY <1>3, <2>2, <3>1, <3>3 DEF Calls
  <2> QED BY <2>1, <2>2
<1>9. Once(u)
  BY <1>8 DEF Once
<1>10. [es EXCEPT ![n].handlers = Append(@, h)] = u
  BY DEF u, g, hs
<1> QED BY <1>7, <1>9, <1>10

-------------------------------------------------------------------------------
(* The inductive invariant: besides the types, what is in the file and what *)
(* each process has read is a file in which AgentContract is called at most *)
(* once for an event; a process that is to write has read a file that can   *)
(* be changed, or there was none and it installs; and no command has ended  *)
(* before it ends.                                                          *)
HooksInv ==
    /\ TypeOK
    /\ FileOK(file)
    /\ \A p \in Processes : FileOK(seen[p])
    /\ \A p \in Processes : pc[p] = "write" => Ready(cmd[p], seen[p])
    /\ \A p \in Processes : pc[p] # "idle" => outcome[p] = "none"

LEMMA FilesOK ==
    ASSUME NEW c, FileOK(c)
    PROVE  /\ c \in {Missing, Broken} \/ IsValid(c)
           /\ IsReadable(c) => IsValid(c) /\ CallsOnce(c) /\ \A command : Ready(command, c)
<1>1. ~IsReadable(Missing) /\ ~IsReadable(Broken)
  BY DEF IsReadable, Missing, Broken
<1> QED BY <1>1, ContentFacts DEF FileOK, Ready

LEMMA InitHooks == Init => HooksInv
<1> SUFFICES ASSUME Init PROVE HooksInv
  OBVIOUS
<1>1. FileOK(file) /\ FileOK(Missing)
  BY FilesAssumption DEF Init, FileOK
<1>2. TypeOK
  BY <1>1, FilesAssumption DEF TypeOK, Init, FileOK
<1> QED BY <1>1, <1>2 DEF HooksInv, Init

LEMMA StartHooks ==
    ASSUME HooksInv, NEW p \in Processes, NEW command \in Commands, Start(p, command)
    PROVE  HooksInv'
<1>1. /\ pc \in [Processes -> {"idle", "read", "write"}]
      /\ cmd \in [Processes -> Commands] /\ DOMAIN seen = Processes
      /\ outcome \in [Processes -> {"none", "ok", "refused"}]
      /\ edits \in 0..MaxEdits
  BY DEF HooksInv, TypeOK, Commands
<1>2. /\ cmd' = [cmd EXCEPT ![p] = command] /\ seen' = [seen EXCEPT ![p] = Missing]
      /\ file' = file /\ edits' = edits
  BY DEF Start
<1>3. /\ pc' \in [Processes -> {"idle", "read", "write"}]
      /\ outcome' \in [Processes -> {"none", "ok", "refused"}]
      /\ pc'[p] # "idle" => outcome'[p] = "none"
      /\ pc'[p] = "write" => file = Missing /\ command = "install"
      /\ \A q \in Processes : q # p => pc'[q] = pc[q] /\ outcome'[q] = outcome[q]
  <2>1. CASE file = Missing /\ command = "uninstall"
    <3>1. pc' = [pc EXCEPT ![p] = "idle"] /\ outcome' = [outcome EXCEPT ![p] = "ok"]
      BY <2>1 DEF Start, End, GoTo
    <3> QED BY <1>1, <3>1
  <2>2. CASE ~(file = Missing /\ command = "uninstall")
    <3>1. /\ pc' = [pc EXCEPT ![p] = IF file = Missing THEN "write" ELSE "read"]
          /\ outcome' = [outcome EXCEPT ![p] = "none"]
      BY <2>2 DEF Start, GoTo
    <3> QED BY <1>1, <2>2, <3>1 DEF Commands
  <2> QED BY <2>1, <2>2
<1>4. FileOK(Missing)
  BY DEF FileOK
<1>5. Missing # Broken
  BY DEF Missing, Broken
<1>6. \A q \in Processes : FileOK(seen'[q])
  BY <1>1, <1>2, <1>4 DEF HooksInv
<1>7. \A q \in Processes : pc'[q] = "write" => Ready(cmd'[q], seen'[q])
  <2> TAKE q \in Processes
  <2>1. CASE q = p
    BY <1>1, <1>2, <1>3, <1>5, <2>1 DEF Ready
  <2>2. CASE q # p
    BY <1>1, <1>2, <1>3, <2>2 DEF HooksInv
  <2> QED BY <2>1, <2>2
<1>8. \A q \in Processes : pc'[q] # "idle" => outcome'[q] = "none"
  BY <1>3 DEF HooksInv
<1>9. DOMAIN seen' = Processes /\ cmd' \in [Processes -> Commands]
  BY <1>1, <1>2
<1>10. FileOK(file')
  BY <1>2 DEF HooksInv
<1> QED
  BY <1>1, <1>2, <1>3, <1>6, <1>7, <1>8, <1>9, <1>10, FilesOK DEF HooksInv, TypeOK, Commands

LEMMA ReadHooks ==
    ASSUME HooksInv, NEW p \in Processes, Read(p)
    PROVE  HooksInv'
<1>1. /\ pc \in [Processes -> {"idle", "read", "write"}] /\ DOMAIN seen = Processes
      /\ outcome \in [Processes -> {"none", "ok", "refused"}] /\ pc[p] = "read"
  BY DEF HooksInv, TypeOK, Read
<1>2. seen' = [seen EXCEPT ![p] = file] /\ file' = file /\ cmd' = cmd /\ edits' = edits
  BY DEF Read
<1>3. /\ pc' \in [Processes -> {"idle", "read", "write"}]
      /\ outcome' \in [Processes -> {"none", "ok", "refused"}]
      /\ pc'[p] # "idle" => outcome'[p] = "none"
      /\ pc'[p] = "write" => IsReadable(file)
      /\ \A q \in Processes : q # p => pc'[q] = pc[q] /\ outcome'[q] = outcome[q]
  <2>1. ASSUME NEW o \in {"ok", "refused"}, End(p, o)
        PROVE  /\ pc' \in [Processes -> {"idle", "read", "write"}]
               /\ outcome' \in [Processes -> {"none", "ok", "refused"}]
               /\ pc'[p] = "idle"
               /\ \A q \in Processes : q # p => pc'[q] = pc[q] /\ outcome'[q] = outcome[q]
    BY <1>1, <2>1 DEF End, GoTo
  <2>2. CASE IsReadable(file) /\ GoTo(p, "write") /\ UNCHANGED outcome
    BY <1>1, <2>2 DEF GoTo, HooksInv
  <2>3. \/ End(p, "refused") \/ End(p, "ok")
        \/ IsReadable(file) /\ GoTo(p, "write") /\ UNCHANGED outcome
    BY DEF Read
  <2> QED BY <2>1, <2>2, <2>3
<1>4. FileOK(file)
  BY DEF HooksInv
<1>5. \A q \in Processes : FileOK(seen'[q])
  BY <1>1, <1>2, <1>4 DEF HooksInv
<1>6. \A q \in Processes : pc'[q] = "write" => Ready(cmd'[q], seen'[q])
  <2> TAKE q \in Processes
  <2>1. CASE q = p
    BY <1>1, <1>2, <1>3, <1>4, <2>1, FilesOK
  <2>2. CASE q # p
    BY <1>1, <1>2, <1>3, <2>2 DEF HooksInv
  <2> QED BY <2>1, <2>2
<1>7. \A q \in Processes : pc'[q] # "idle" => outcome'[q] = "none"
  BY <1>3 DEF HooksInv
<1>8. DOMAIN seen' = Processes /\ FileOK(file')
  BY <1>1, <1>2, <1>4
<1> QED
  BY <1>2, <1>3, <1>5, <1>6, <1>7, <1>8, FilesOK DEF HooksInv, TypeOK

LEMMA WriteHooks ==
    ASSUME HooksInv, NEW p \in Processes, Write(p)
    PROVE  HooksInv'
<1>1. /\ pc \in [Processes -> {"idle", "read", "write"}]
      /\ outcome \in [Processes -> {"none", "ok", "refused"}] /\ pc[p] = "write"
      /\ cmd[p] \in Commands
  BY DEF HooksInv, TypeOK, Write, Commands
<1>2. /\ file' = After(cmd[p], seen[p]) /\ cmd' = cmd /\ seen' = seen /\ edits' = edits
      /\ pc' = [pc EXCEPT ![p] = "idle"] /\ outcome' = [outcome EXCEPT ![p] = "ok"]
  BY DEF Write, End, GoTo
<1>3. FileOK(file')
  BY <1>1, <1>2, AfterFacts DEF HooksInv
<1>4. /\ pc' \in [Processes -> {"idle", "read", "write"}]
      /\ outcome' \in [Processes -> {"none", "ok", "refused"}]
      /\ pc'[p] = "idle"
      /\ \A q \in Processes : q # p => pc'[q] = pc[q] /\ outcome'[q] = outcome[q]
  BY <1>1, <1>2
<1>5. \A q \in Processes : pc'[q] = "write" => Ready(cmd'[q], seen'[q])
  BY <1>2, <1>4 DEF HooksInv
<1>6. \A q \in Processes : pc'[q] # "idle" => outcome'[q] = "none"
  BY <1>4 DEF HooksInv
<1> QED
  BY <1>2, <1>3, <1>4, <1>5, <1>6, FilesOK DEF HooksInv, TypeOK

LEMMA KillHooks ==
    ASSUME HooksInv, NEW p \in Processes, Kill(p)
    PROVE  HooksInv'
<1>1. pc \in [Processes -> {"idle", "read", "write"}] /\ pc' = [pc EXCEPT ![p] = "idle"]
  BY DEF HooksInv, TypeOK, Kill, GoTo
<1>2. /\ pc' \in [Processes -> {"idle", "read", "write"}] /\ pc'[p] = "idle"
      /\ \A q \in Processes : q # p => pc'[q] = pc[q]
  BY <1>1
<1> QED BY <1>2 DEF HooksInv, TypeOK, Kill

LEMMA EditHooks ==
    ASSUME HooksInv, FileOK(file'), edits' = edits + 1, edits < MaxEdits,
           UNCHANGED <<pc, cmd, seen, outcome>>
    PROVE  HooksInv'
<1>1. edits' \in 0..MaxEdits
  BY FilesAssumption DEF HooksInv, TypeOK
<1> QED BY <1>1, FilesOK DEF HooksInv, TypeOK

LEMMA AddHandlerHooks == ASSUME HooksInv, AddHandler PROVE HooksInv'
<1>1. IsValid(file) /\ CallsOnce(file)
  BY FilesOK DEF HooksInv, AddHandler
<1>2. PICK e \in DOMAIN file.events, h \in Foreign : \E n \in DOMAIN file.events[e] :
        /\ file.events[e][n].grouped
        /\ file' = Content(file.wrapped, file.extra,
                           [file.events EXCEPT ![e][n].handlers = Append(@, h)])
  BY DEF AddHandler
<1>3. PICK n \in DOMAIN file.events[e] :
        /\ file.events[e][n].grouped
        /\ file' = Content(file.wrapped, file.extra,
                           [file.events EXCEPT ![e][n].handlers = Append(@, h)])
  BY <1>2
<1> DEFINE es == file.events[e]
           new == [es EXCEPT ![n].handlers = Append(@, h)]
           f == [file.events EXCEPT ![e] = new]
<1>4. /\ file.wrapped \in BOOLEAN /\ file.extra \in BOOLEAN /\ DOMAIN file.events \subseteq Events
      /\ file.events \in [DOMAIN file.events -> Seq(Entry)]
      /\ file.wrapped = TRUE \/ (DOMAIN file.events \subseteq LifecycleEvents /\ file.extra = FALSE)
  BY <1>1 DEF IsValid
<1>5. \A d \in DOMAIN file.events : EntriesOf(file, d) = file.events[d] /\ Once(file.events[d])
  BY <1>1, <1>4, OnceCalled DEF EntriesOf
<1>6. new \in Seq(Entry) /\ Once(new)
  BY <1>3, <1>4, <1>5, HandlerAdded
<1>7. file' = Content(file.wrapped, file.extra, f)
  BY <1>3
<1> HIDE DEF new
<1>8. /\ f \in [DOMAIN file.events -> Seq(Entry)] /\ f[e] = new
      /\ \A d \in DOMAIN file.events : d # e => f[d] = file.events[d]
  BY <1>4, <1>6
<1> HIDE DEF f
<1>9. PICK w \in BOOLEAN, x \in BOOLEAN : w = file.wrapped /\ x = file.extra
  BY <1>4
<1>10. /\ IsValid(Content(w, x, f))
       /\ \A d : EntriesOf(Content(w, x, f), d) = EntriesAt(f, d)
  <2>1. DOMAIN file.events \in SUBSET Events
    BY <1>4
  <2>2. CASE w = TRUE
    BY <1>8, <2>1, <2>2, ContentMade
  <2>3. CASE DOMAIN file.events \subseteq LifecycleEvents /\ x = FALSE
    BY <1>8, <2>1, <2>3, ContentMade
  <2> QED BY <1>4, <1>9, <2>2, <2>3
<1>11. \A d : Once(EntriesAt(f, d))
  BY <1>5, <1>6, <1>8, NoEntries DEF EntriesAt
<1>12. file' = Content(w, x, f)
  BY <1>7, <1>9
<1>13. FileOK(file')
  <2>1. CallsOnce(Content(w, x, f))
    BY <1>10, <1>11, OnceCalled
  <2> QED BY <1>10, <1>12, <2>1 DEF FileOK
<1> QED BY <1>13, EditHooks DEF AddHandler

LEMMA StepHooks == HooksInv /\ [Next]_vars => HooksInv'
<1> SUFFICES ASSUME HooksInv, [Next]_vars PROVE HooksInv'
  OBVIOUS
<1>1. CASE \E p \in Processes, command \in {"install", "uninstall"} : Start(p, command)
  BY <1>1, StartHooks DEF Commands
<1>2. CASE \E p \in Processes : Read(p)
  BY <1>2, ReadHooks
<1>3. CASE \E p \in Processes : Write(p)
  BY <1>3, WriteHooks
<1>4. CASE \E p \in Processes : Kill(p)
  BY <1>4, KillHooks
<1>5. CASE Edit
  <2>1. FileOK(file')
    BY <1>5, FilesAssumption DEF Edit, FileOK
  <2> QED BY <1>5, <2>1, EditHooks DEF Edit
<1>6. CASE AddHandler
  BY <1>6, AddHandlerHooks
<1>7. CASE UNCHANGED vars
  BY <1>7 DEF HooksInv, TypeOK, vars
<1> QED BY <1>1, <1>2, <1>3, <1>4, <1>5, <1>6, <1>7 DEF Next

LEMMA HooksInductive == Spec => []HooksInv
  BY InitHooks, StepHooks, PTL DEF Spec

(* hooks.json never calls AgentContract twice for an event, and is always  *)
(* a file that both commands accept unless the user breaks it, whatever    *)
(* commands run at once, are killed, or meet edits (install_hooks and      *)
(* uninstall_hooks).                                                       *)
THEOREM NeverHookedTwice == Spec => []HooksOnce
<1>1. HooksInv => HooksOnce
  BY FilesOK DEF HooksInv, HooksOnce
<1> QED BY <1>1, HooksInductive, PTL

(* A command that writes over the file it read keeps everything of the     *)
(* user's, in order (install_hooks and uninstall_hooks).                   *)
THEOREM ForeignIsKept == Spec => ForeignKept
<1>1. ASSUME HooksInv, [Next]_vars, NEW p \in Processes,
             pc[p] = "write", pc'[p] = "idle", file = seen[p]
      PROVE  /\ \A e \in Events : UsersEntries(file', e) = UsersEntries(file, e)
             /\ HasExtra(file') = HasExtra(file)
  <2>1. pc \in [Processes -> {"idle", "read", "write"}]
    BY <1>1 DEF HooksInv, TypeOK
  <2>2. CASE Write(p)
    <3>1. file' = After(cmd[p], file) /\ cmd[p] \in Commands
      BY <1>1, <2>2 DEF Write, HooksInv, TypeOK, Commands
    <3>2. UsersSame(file, After(cmd[p], file))
      BY <1>1, <3>1, AfterFacts DEF HooksInv
    <3> QED BY <3>1, <3>2 DEF UsersSame
  <2>3. CASE file' = file
    BY <2>3
  <2>4. Write(p) \/ file' = file
    <3>1. ASSUME NEW q \in Processes, NEW command, Start(q, command) PROVE file' = file
      BY <3>1 DEF Start
    <3>2. ASSUME NEW q \in Processes, Read(q) \/ Kill(q) PROVE file' = file
      BY <3>2 DEF Read, Kill
    <3>3. ASSUME NEW q \in Processes, Write(q) PROVE q = p
      BY <1>1, <2>1, <3>3 DEF Write, End, GoTo
    <3>4. ~Edit /\ ~AddHandler
      BY <1>1 DEF Edit, AddHandler
    <3>5. UNCHANGED vars => file' = file
      BY DEF vars
    <3> QED BY <1>1, <3>1, <3>2, <3>3, <3>4, <3>5 DEF Next
  <2> QED BY <2>2, <2>3, <2>4
<1>2. HooksInv /\ [Next]_vars =>
        [\A p \in Processes : pc[p] = "write" /\ pc'[p] = "idle" /\ file = seen[p] =>
            /\ \A e \in Events : UsersEntries(file', e) = UsersEntries(file, e)
            /\ HasExtra(file') = HasExtra(file)]_vars
  BY <1>1
<1> QED BY <1>2, HooksInductive, PTL DEF Spec, ForeignKept

(* When install_hooks succeeds the file has every hook, and when           *)
(* uninstall_hooks succeeds it has none.                                   *)
THEOREM SuccessesAreTrue == Spec => SuccessIsTrue
<1>1. ASSUME HooksInv, [Next]_vars, NEW p \in Processes,
             pc'[p] = "idle", outcome'[p] = "ok", pc[p] # "idle"
      PROVE  Achieved(cmd'[p], file')
  <2>1. /\ pc \in [Processes -> {"idle", "read", "write"}] /\ cmd[p] \in Commands
        /\ outcome[p] = "none" /\ FileOK(file) /\ FileOK(seen[p])
    BY <1>1 DEF HooksInv, TypeOK, Commands
  <2>2. CASE Write(p)
    <3>1. file' = After(cmd[p], seen[p]) /\ cmd' = cmd /\ Ready(cmd[p], seen[p])
      BY <1>1, <2>2 DEF Write, HooksInv
    <3> QED BY <2>1, <3>1, AfterFacts
  <2>3. CASE Read(p)
    <3>1. file' = file /\ cmd' = cmd
      BY <2>3 DEF Read
    <3>2. IsReadable(file) /\ After(cmd[p], file) = file
      <4>1. End(p, "refused") => outcome'[p] = "refused"
        BY <1>1, <2>1 DEF End, GoTo, HooksInv, TypeOK
      <4>2. GoTo(p, "write") => pc'[p] = "write"
        BY <2>1 DEF GoTo
      <4> QED BY <1>1, <2>3, <4>1, <4>2 DEF Read
    <3>3. Achieved(cmd[p], After(cmd[p], file))
      BY <2>1, <3>2, AfterFacts, FilesOK
    <3> QED BY <3>1, <3>2, <3>3
  <2>4. CASE pc' = pc \/ outcome' = outcome
    BY <1>1, <2>1, <2>4
  <2>5. CASE \E q \in Processes \ {p} : pc' = [pc EXCEPT ![q] = pc'[q]]
    BY <1>1, <2>1, <2>5
  <2>6. ASSUME NEW q \in Processes, NEW l, GoTo(q, l) PROVE pc' = [pc EXCEPT ![q] = pc'[q]]
    BY <2>1, <2>6 DEF GoTo
  <2>7. ASSUME NEW q \in Processes, NEW command, Start(q, command)
        PROVE  pc' = [pc EXCEPT ![q] = pc'[q]] /\ q # p
    BY <1>1, <2>6, <2>7 DEF Start, End
  <2>8. ASSUME NEW q \in Processes, Read(q) \/ Write(q) PROVE pc' = [pc EXCEPT ![q] = pc'[q]]
    BY <2>6, <2>8 DEF Read, Write, End
  <2>9. ASSUME NEW q \in Processes, Kill(q) PROVE outcome' = outcome
    BY <2>9 DEF Kill
  <2>10. (Edit \/ AddHandler \/ UNCHANGED vars) => pc' = pc
    BY DEF Edit, AddHandler, vars
  <2> QED BY <1>1, <2>2, <2>3, <2>4, <2>5, <2>7, <2>8, <2>9, <2>10 DEF Next
<1>2. HooksInv /\ [Next]_vars =>
        [\A p \in Processes : pc'[p] = "idle" /\ outcome'[p] = "ok" /\ pc[p] # "idle" =>
            IF cmd'[p] = "install"
            THEN IsReadable(file') /\ \A e \in LifecycleEvents : HasHook(EntriesOf(file', e))
            ELSE IsReadable(file') => \A e \in DOMAIN file'.events : ~Holds(file'.events[e])]_vars
  BY <1>1 DEF Achieved
<1> QED BY <1>2, HooksInductive, PTL DEF Spec, SuccessIsTrue
===============================================================================
