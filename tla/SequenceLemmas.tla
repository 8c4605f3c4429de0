--------------------------- MODULE SequenceLemmas ---------------------------
(***************************************************************************)
(* Lemmas about the sequence operators that MapReduceData is written with. *)
(* The library's induction theorems take the formula to be proved as an    *)
(* operator; here an induction is over the set of the numbers for which    *)
(* the formula holds, by LeastElement.                                     *)
(***************************************************************************)
EXTENDS Integers, Sequences, SequencesExt, FiniteSetTheorems,
        SequenceTheorems, FunctionTheorems, TLAPS

-----------------------------------------------------------------------------
(* Induction.                                                              *)

(* A set of naturals that is not empty has a least element.                *)
LEMMA LeastElement ==
  ASSUME NEW T, T \subseteq Nat, T # {}
  PROVE  \E n \in T : \A k \in T : n =< k
<1> DEFINE R == OpToRel(<, Nat)
<1>1. IsWellFoundedOn(R, Nat)  BY NatLessThanWellFounded DEF OpToRel
<1> HIDE DEF R
<1>2. PICK n \in T : \A k \in T : <<k, n>> \notin R  BY <1>1, WFMin
<1>3. \A k \in T : ~(k < n)
  <2> TAKE k \in T
  <2>1. k \in Nat /\ n \in Nat  OBVIOUS
  <2> QED BY <1>2, <2>1 DEF R, OpToRel
<1>4. \A k \in T : n =< k  BY <1>3
<1> QED BY <1>4

(* A set with 0, and with the successor of each of its naturals, holds all *)
(* naturals.                                                               *)
LEMMA InductionSet ==
  ASSUME NEW S, 0 \in S, \A n \in Nat : n \in S => n + 1 \in S
  PROVE  \A n \in Nat : n \in S
<1> SUFFICES ASSUME Nat \ S # {} PROVE FALSE  OBVIOUS
<1> DEFINE T == Nat \ S
<1>0. T \subseteq Nat /\ T # {}  OBVIOUS
<1>1. PICK n \in T : \A k \in T : n =< k  BY <1>0, LeastElement
<1>2. n \in Nat /\ n # 0 /\ n \notin S  OBVIOUS
<1>3. n - 1 \in Nat /\ ~(n =< n - 1) /\ (n - 1) + 1 = n  BY <1>2
<1>4. n - 1 \in S  BY <1>1, <1>3
<1> QED BY <1>2, <1>3, <1>4

(* Of the positions of a sequence that are in a set, one comes first.      *)
LEMMA FirstPosition ==
  ASSUME NEW n \in Nat, NEW T \in SUBSET (1 .. n), T # {}
  PROVE  \E i \in T : \A j \in 1 .. i - 1 : j \in 1 .. n /\ j \notin T
<1>0. T \subseteq Nat  OBVIOUS
<1>1. PICK i \in T : \A j \in T : i =< j  BY <1>0, LeastElement
<1>2. i \in 1 .. n  OBVIOUS
<1>3. \A j \in 1 .. i - 1 : ~(i =< j) /\ j \in 1 .. n  BY <1>2
<1> QED BY <1>1, <1>3

(* A function on 1 .. n is a sequence of what its values are.              *)
LEMMA SeqOfValues ==
  ASSUME NEW T, NEW n \in Nat, NEW v, v = [i \in 1 .. n |-> v[i]],
         \A i \in 1 .. n : v[i] \in T
  PROVE  v \in Seq(T) /\ Len(v) = n
  OBVIOUS

(* Sequences of one element, and of two.                                   *)
LEMMA OneElement ==
  ASSUME NEW S, NEW s \in Seq(S), Len(s) = 1
  PROVE  s = <<s[1]>> /\ s[1] \in S
<1>1. s[1] \in S  OBVIOUS
<1>2. <<s[1]>> \in Seq(S) /\ Len(<<s[1]>>) = 1  BY <1>1
<1>3. \A i \in 1 .. Len(s) : s[i] = <<s[1]>>[i]  OBVIOUS
<1> QED BY <1>1, <1>2, <1>3, SeqEqual

(* One after the other, two elements are a pair.                           *)
LEMMA TwoElements ==
  ASSUME NEW S, NEW a \in S, NEW b \in S
  PROVE  <<a>> \o <<b>> = <<a, b>>
<1> DEFINE t == <<a>> \o <<b>>  u == <<a, b>>
<1>1. /\ t \in Seq(S) /\ Len(t) = 2
      /\ \A i \in 1 .. 2 : t[i] = IF i =< 1 THEN <<a>>[i] ELSE <<b>>[i - 1]
  <2>1. <<a>> \in Seq(S) /\ <<b>> \in Seq(S) /\ Len(<<a>>) = 1 /\ Len(<<b>>) = 1  OBVIOUS
  <2> QED BY <2>1, ConcatProperties
<1>2. u \in Seq(S) /\ Len(u) = 2 /\ u[1] = a /\ u[2] = b  OBVIOUS
<1>3. t[1] = a /\ t[2] = b  BY <1>1
<1> HIDE DEF t, u
<1>4. \A i \in 1 .. Len(t) : t[i] = u[i]  BY <1>1, <1>2, <1>3
<1>5. t = u  BY <1>1, <1>2, <1>4, SeqEqual
<1> QED BY <1>5 DEF t, u

-----------------------------------------------------------------------------
(* FlattenSeq.                                                             *)

(* What the recursive function inside FlattenSeq has to satisfy.           *)
Flattens(f, ss, n) ==
  f = [i \in 1 .. n |-> IF i = 1 THEN ss[i] ELSE f[i - 1] \o ss[i]]

(* There is such a function, for every number of sequences.                *)
LEMMA FlattensExists ==
  ASSUME NEW ss, NEW n \in Nat
  PROVE  \E f : Flattens(f, ss, n)
<1> DEFINE S == {k \in Nat : \E f : Flattens(f, ss, k)}
<1>1. 0 \in S
  <2> DEFINE f == [i \in 1 .. 0 |-> <<>>]
  <2>1. 1 .. 0 = {}  OBVIOUS
  <2>2. f = [i \in 1 .. 0 |-> IF i = 1 THEN ss[i] ELSE f[i - 1] \o ss[i]]  BY <2>1
  <2>3. Flattens(f, ss, 0)  BY <2>2 DEF Flattens
  <2> QED BY <2>3
<1>2. ASSUME NEW k \in Nat, k \in S PROVE k + 1 \in S
  <2>1. PICK f : Flattens(f, ss, k)  BY <1>2
  <2> DEFINE g == [i \in 1 .. k + 1 |-> IF i = 1 THEN ss[i] ELSE f[i - 1] \o ss[i]]
  <2>2. \A i \in 1 .. k : g[i] = f[i]
    <3> TAKE i \in 1 .. k
    <3>1. i \in 1 .. k + 1  OBVIOUS
    <3>2. f[i] = IF i = 1 THEN ss[i] ELSE f[i - 1] \o ss[i]  BY <2>1 DEF Flattens
    <3> QED BY <3>1, <3>2
  <2>3. \A i \in 1 .. k + 1 : i # 1 => g[i - 1] = f[i - 1]
    <3> SUFFICES ASSUME NEW i \in 1 .. k + 1, i # 1 PROVE g[i - 1] = f[i - 1]  OBVIOUS
    <3>1. i - 1 \in 1 .. k  OBVIOUS
    <3> HIDE DEF g
    <3> QED BY <3>1, <2>2
  <2>4. g = [i \in 1 .. k + 1 |-> IF i = 1 THEN ss[i] ELSE g[i - 1] \o ss[i]]
    <3> DEFINE h == [i \in 1 .. k + 1 |-> IF i = 1 THEN ss[i] ELSE g[i - 1] \o ss[i]]
    <3>1. \A i \in 1 .. k + 1 : g[i] = h[i]
      <4> TAKE i \in 1 .. k + 1
      <4>1. CASE i = 1  BY <4>1
      <4>2. CASE i # 1
        <5>1. g[i] = f[i - 1] \o ss[i]  BY <4>2
        <5>2. g[i - 1] = f[i - 1]  BY <2>3, <4>2
        <5> HIDE DEF g
        <5> QED BY <5>1, <5>2, <4>2
      <4> QED BY <4>1, <4>2
    <3>2. g = [i \in 1 .. k + 1 |-> g[i]] /\ h = [i \in 1 .. k + 1 |-> h[i]]  OBVIOUS
    <3> HIDE DEF g, h
    <3>3. g = h  BY <3>1, <3>2
    <3> QED BY <3>3 DEF h
  <2> HIDE DEF g
  <2>5. Flattens(g, ss, k + 1)  BY <2>4 DEF Flattens
  <2> QED BY <2>5
<1> HIDE DEF S
<1>3. n \in S  BY <1>1, <1>2, InductionSet
<1> QED BY <1>3 DEF S

(* Its value at each position, from the one before.                        *)
LEMMA FlattensStep ==
  ASSUME NEW ss, NEW n \in Nat, NEW f, Flattens(f, ss, n), NEW k \in Nat, k + 1 \in 1 .. n
  PROVE  f[k + 1] = IF k = 0 THEN ss[k + 1] ELSE f[k] \o ss[k + 1]
<1>1. (k + 1) - 1 = k /\ (k + 1 = 1 <=> k = 0)  OBVIOUS
<1>2. f[k + 1] = IF k + 1 = 1 THEN ss[k + 1] ELSE f[(k + 1) - 1] \o ss[k + 1]
  BY DEF Flattens
<1> QED BY <1>1, <1>2

(* Two such functions agree as far as both are defined and the sequences   *)
(* are the same.                                                           *)
LEMMA FlattensAgree ==
  ASSUME NEW ss, NEW tt, NEW n \in Nat, NEW m \in Nat, n =< m,
         NEW f, Flattens(f, ss, n), NEW g, Flattens(g, tt, m),
         \A i \in 1 .. n : ss[i] = tt[i]
  PROVE  \A i \in 1 .. n : f[i] = g[i]
<1> DEFINE S == {k \in Nat : k \in 1 .. n => f[k] = g[k]}
<1>1. 0 \in S  OBVIOUS
<1>2. ASSUME NEW k \in Nat, k \in S PROVE k + 1 \in S
  <2> SUFFICES ASSUME k + 1 \in 1 .. n PROVE f[k + 1] = g[k + 1]  OBVIOUS
  <2>1. k + 1 \in 1 .. m
    <3>1. \A a, b, c \in Nat : b =< c /\ a + 1 \in 1 .. b => a + 1 \in 1 .. c
      OBVIOUS
    <3> QED BY <3>1
  <2>2. f[k + 1] = IF k = 0 THEN ss[k + 1] ELSE f[k] \o ss[k + 1]  BY FlattensStep
  <2>3. g[k + 1] = IF k = 0 THEN tt[k + 1] ELSE g[k] \o tt[k + 1]
    BY <2>1, FlattensStep
  <2>4. CASE k = 0  BY <2>2, <2>3, <2>4
  <2>5. CASE k # 0
    <3>1. k \in 1 .. n  BY <2>5
    <3>2. f[k] = g[k]  BY <3>1, <1>2
    <3> QED BY <2>2, <2>3, <3>2, <2>5
  <2> QED BY <2>4, <2>5
<1> HIDE DEF S
<1>3. \A k \in Nat : k \in S  BY <1>1, <1>2, InductionSet
<1> QED BY <1>3 DEF S

(* The text book equations: nothing flattens to nothing, and one more      *)
(* sequence is appended.                                                   *)
LEMMA FlattenEmpty == FlattenSeq(<<>>) = <<>>
  BY DEF FlattenSeq

(* FlattenSeq takes its value from such a function.                        *)
LEMMA FlattenOfChosen ==
  ASSUME NEW ss, Len(ss) \in Nat \ {0}
  PROVE  \E f : Flattens(f, ss, Len(ss)) /\ FlattenSeq(ss) = f[Len(ss)]
<1> DEFINE n == Len(ss)
           f == CHOOSE g : g = [i \in 1 .. n |-> IF i = 1 THEN ss[i] ELSE g[i - 1] \o ss[i]]
<1>1. \E g : g = [i \in 1 .. n |-> IF i = 1 THEN ss[i] ELSE g[i - 1] \o ss[i]]
  BY FlattensExists DEF Flattens
<1>2. f = [i \in 1 .. n |-> IF i = 1 THEN ss[i] ELSE f[i - 1] \o ss[i]]  BY <1>1
<1>3. FlattenSeq(ss) = f[n]  BY DEF FlattenSeq
<1>4. Flattens(f, ss, n)  BY <1>2 DEF Flattens
<1> QED BY <1>3, <1>4

(* One more sequence is appended at the end.                               *)
LEMMA FlattenAppend ==
  ASSUME NEW S, NEW ss \in Seq(Seq(S)), NEW s \in Seq(S)
  PROVE  FlattenSeq(Append(ss, s)) = FlattenSeq(ss) \o s
<1> DEFINE tt == Append(ss, s)  n == Len(ss)
<1>1. /\ n \in Nat /\ Len(tt) = n + 1 /\ tt[n + 1] = s
      /\ \A i \in 1 .. n : ss[i] = tt[i]
  BY AppendProperties
<1>2. PICK g : Flattens(g, tt, n + 1) /\ FlattenSeq(tt) = g[n + 1]
  <2>1. Len(tt) \in Nat \ {0}  BY <1>1
  <2> QED BY <1>1, <2>1, FlattenOfChosen
<1>3. CASE n = 0
  <2>1. ss = <<>>  BY <1>3, EmptySeq
  <2>2. FlattenSeq(ss) = <<>>  BY <2>1, FlattenEmpty
  <2>3. g[1] = tt[1]  BY <1>2, <1>3 DEF Flattens
  <2>4. <<>> \o s = s  BY ConcatEmptySeq
  <2> QED BY <2>2, <2>3, <2>4, <1>1, <1>2, <1>3
<1>4. CASE n # 0
  <2>1. PICK f : Flattens(f, ss, n) /\ FlattenSeq(ss) = f[n]
    BY <1>1, <1>4, FlattenOfChosen
  <2>2. f[n] = g[n]
    <3>1. n \in 1 .. n /\ n + 1 \in Nat /\ n =< n + 1  BY <1>1, <1>4
    <3> HIDE DEF tt, n
    <3>2. \A i \in 1 .. n : f[i] = g[i]  BY <1>1, <1>2, <2>1, <3>1, FlattensAgree
    <3> QED BY <3>1, <3>2
  <2>3. g[n + 1] = g[n] \o tt[n + 1]
    <3>1. n \in Nat /\ n + 1 \in Nat /\ n + 1 \in 1 .. n + 1 /\ n # 0  BY <1>1, <1>4
    <3> HIDE DEF tt, n
    <3> QED BY <1>2, <3>1, FlattensStep
  <2> QED BY <1>1, <1>2, <2>1, <2>2, <2>3
<1> QED BY <1>3, <1>4

(* The same with the sequence taken apart.                                 *)
FirstOf(t, n) == [i \in 1 .. n |-> t[i]]

(* So a sequence of sequences is flattened up to its last one, which is    *)
(* appended.                                                               *)
LEMMA FlattenFirst ==
  ASSUME NEW S, NEW t \in Seq(Seq(S)), NEW n \in Nat, Len(t) = n + 1
  PROVE  /\ FirstOf(t, n) \in Seq(Seq(S)) /\ Len(FirstOf(t, n)) = n
         /\ \A i \in 1 .. n : FirstOf(t, n)[i] = t[i]
         /\ t[n + 1] \in Seq(S)
         /\ FlattenSeq(t) = FlattenSeq(FirstOf(t, n)) \o t[n + 1]
<1>1. /\ FirstOf(t, n) \in Seq(Seq(S)) /\ Len(FirstOf(t, n)) = n
      /\ \A i \in 1 .. n : FirstOf(t, n)[i] = t[i]
  BY DEF FirstOf
<1>2. t[n + 1] \in Seq(S)  OBVIOUS
<1>3. t = Append(FirstOf(t, n), t[n + 1])  BY <1>1, <1>2 DEF FirstOf
<1>4. FlattenSeq(Append(FirstOf(t, n), t[n + 1])) = FlattenSeq(FirstOf(t, n)) \o t[n + 1]
  BY <1>1, <1>2, FlattenAppend
<1> QED BY <1>1, <1>2, <1>3, <1>4

(* Flattening sequences of S's gives a sequence of S's.                    *)
LEMMA FlattenType ==
  ASSUME NEW S, NEW ss \in Seq(Seq(S))
  PROVE  FlattenSeq(ss) \in Seq(S)
<1> DEFINE N == {n \in Nat : \A tt \in Seq(Seq(S)) : Len(tt) = n => FlattenSeq(tt) \in Seq(S)}
<1>1. 0 \in N
  <2> SUFFICES ASSUME NEW tt \in Seq(Seq(S)), Len(tt) = 0 PROVE FlattenSeq(tt) \in Seq(S)
    OBVIOUS
  <2>1. tt = <<>>  BY EmptySeq
  <2> QED BY <2>1, FlattenEmpty, EmptySeq
<1>2. ASSUME NEW n \in Nat, n \in N PROVE n + 1 \in N
  <2> SUFFICES ASSUME NEW tt \in Seq(Seq(S)), Len(tt) = n + 1
               PROVE  FlattenSeq(tt) \in Seq(S)
    OBVIOUS
  <2> HIDE DEF N
  <2>1. /\ FirstOf(tt, n) \in Seq(Seq(S)) /\ Len(FirstOf(tt, n)) = n
        /\ tt[n + 1] \in Seq(S)
        /\ FlattenSeq(tt) = FlattenSeq(FirstOf(tt, n)) \o tt[n + 1]
    BY FlattenFirst
  <2>2. FlattenSeq(FirstOf(tt, n)) \in Seq(S)  BY <2>1, <1>2 DEF N
  <2> QED BY <2>1, <2>2, ConcatProperties
<1> HIDE DEF N
<1>3. \A n \in Nat : n \in N  BY <1>1, <1>2, InductionSet
<1>4. Len(ss) \in Nat  OBVIOUS
<1> QED BY <1>3, <1>4 DEF N

-----------------------------------------------------------------------------
(* Sequences that list a set.                                              *)

(* s lists D by lab: its positions are in bijection with D, and at the     *)
(* position of d stands lab[d].  Two sequences that list the same set are  *)
(* equal but for the order.                                                *)
ListsBy(s, D, lab, f) ==
  /\ f \in [DOMAIN s -> D]
  /\ \A i, j \in DOMAIN s : f[i] = f[j] => i = j
  /\ \A d \in D : \E i \in DOMAIN s : f[i] = d
  /\ \A i \in DOMAIN s : s[i] = lab[f[i]]
Lists(s, D, lab) == \E f : ListsBy(s, D, lab, f)

(* The empty sequence lists the empty set.                                 *)
LEMMA ListsNothing ==
  ASSUME NEW lab
  PROVE  Lists(<<>>, {}, lab)
<1> DEFINE f == [i \in {} |-> i]
<1>1. DOMAIN <<>> = {}  OBVIOUS
<1>2. ListsBy(<<>>, {}, lab, f)  BY <1>1 DEF ListsBy
<1> QED BY <1>2 DEF Lists

(* A sequence of one element lists a set of one element.                   *)
LEMMA ListsOne ==
  ASSUME NEW lab, NEW d, NEW x, x = lab[d]
  PROVE  Lists(<<x>>, {d}, lab)
<1> DEFINE f == [i \in {1} |-> d]
<1>1. DOMAIN <<x>> = {1} /\ <<x>>[1] = x  OBVIOUS
<1>2. ListsBy(<<x>>, {d}, lab, f)  BY <1>1 DEF ListsBy
<1> QED BY <1>2 DEF Lists

(* Concatenation lists the union, if nothing is listed twice.              *)
LEMMA ListsConcat ==
  ASSUME NEW S, NEW s \in Seq(S), NEW t \in Seq(S), NEW lab, NEW D, NEW E,
         D \cap E = {}, Lists(s, D, lab), Lists(t, E, lab)
  PROVE  Lists(s \o t, D \cup E, lab)
<1>1. PICK f : ListsBy(s, D, lab, f)  BY DEF Lists
<1>2. PICK g : ListsBy(t, E, lab, g)  BY DEF Lists
<1> DEFINE a == Len(s)  b == Len(t)
           h == [i \in 1 .. a + b |-> IF i =< a THEN f[i] ELSE g[i - a]]
<1>3. /\ a \in Nat /\ b \in Nat
      /\ DOMAIN s = 1 .. a /\ DOMAIN t = 1 .. b /\ DOMAIN (s \o t) = 1 .. a + b
      /\ \A i \in 1 .. a + b : (s \o t)[i] = IF i =< a THEN s[i] ELSE t[i - a]
  BY ConcatProperties, LenProperties
<1> HIDE DEF a, b
<1>4. \A i \in 1 .. a + b : i =< a => i \in 1 .. a /\ h[i] = f[i] /\ h[i] \in D
  <2> SUFFICES ASSUME NEW i \in 1 .. a + b, i =< a
               PROVE  i \in 1 .. a /\ h[i] = f[i] /\ h[i] \in D
    OBVIOUS
  <2>1. i \in 1 .. a /\ h[i] = f[i]  BY <1>3
  <2>2. f[i] \in D  BY <2>1, <1>1, <1>3 DEF ListsBy
  <2> QED BY <2>1, <2>2
<1>5. \A i \in 1 .. a + b : ~(i =< a) => i - a \in 1 .. b /\ h[i] = g[i - a] /\ h[i] \in E
  <2> SUFFICES ASSUME NEW i \in 1 .. a + b, ~(i =< a)
               PROVE  i - a \in 1 .. b /\ h[i] = g[i - a] /\ h[i] \in E
    OBVIOUS
  <2>1. i - a \in 1 .. b /\ h[i] = g[i - a]  BY <1>3
  <2>2. g[i - a] \in E  BY <2>1, <1>2, <1>3 DEF ListsBy
  <2> QED BY <2>1, <2>2
<1>6. h \in [1 .. a + b -> D \cup E]
  <2>1. \A i \in 1 .. a + b : h[i] \in D \cup E  BY <1>4, <1>5
  <2>2. h = [i \in 1 .. a + b |-> h[i]]  OBVIOUS
  <2> HIDE DEF h
  <2> QED BY <2>1, <2>2
<1> HIDE DEF h
<1>7. \A i, j \in 1 .. a + b : h[i] = h[j] => i = j
  <2> SUFFICES ASSUME NEW i \in 1 .. a + b, NEW j \in 1 .. a + b, h[i] = h[j]
               PROVE  i = j
    OBVIOUS
  <2>1. CASE i =< a
    <3>1. j =< a  BY <2>1, <1>4, <1>5
    <3>2. i \in 1 .. a /\ j \in 1 .. a /\ f[i] = f[j]  BY <2>1, <3>1, <1>4
    <3> QED BY <3>2, <1>1, <1>3 DEF ListsBy
  <2>2. CASE ~(i =< a)
    <3>1. ~(j =< a)  BY <2>2, <1>4, <1>5
    <3>2. i - a \in 1 .. b /\ j - a \in 1 .. b /\ g[i - a] = g[j - a]
      BY <2>2, <3>1, <1>5
    <3>3. i - a = j - a  BY <3>2, <1>2, <1>3 DEF ListsBy
    <3> QED BY <3>3, <1>3
  <2> QED BY <2>1, <2>2
<1>8. \A d \in D \cup E : \E i \in 1 .. a + b : h[i] = d
  <2> TAKE d \in D \cup E
  <2>1. CASE d \in D
    <3>1. PICK i \in 1 .. a : f[i] = d  BY <2>1, <1>1, <1>3 DEF ListsBy
    <3>2. i \in 1 .. a + b /\ i =< a  BY <1>3
    <3> QED BY <3>1, <3>2, <1>4
  <2>2. CASE d \in E
    <3>1. PICK i \in 1 .. b : g[i] = d  BY <2>2, <1>2, <1>3 DEF ListsBy
    <3>2. i + a \in 1 .. a + b /\ ~(i + a =< a) /\ (i + a) - a = i  BY <1>3
    <3> QED BY <3>1, <3>2, <1>5
  <2> QED BY <2>1, <2>2
<1>9. \A i \in 1 .. a + b : (s \o t)[i] = lab[h[i]]
  <2> TAKE i \in 1 .. a + b
  <2>1. CASE i =< a
    <3>1. i \in 1 .. a /\ h[i] = f[i] /\ (s \o t)[i] = s[i]  BY <2>1, <1>3, <1>4
    <3> QED BY <3>1, <1>1, <1>3 DEF ListsBy
  <2>2. CASE ~(i =< a)
    <3>1. i - a \in 1 .. b /\ h[i] = g[i - a] /\ (s \o t)[i] = t[i - a]
      BY <2>2, <1>3, <1>5
    <3> QED BY <3>1, <1>2, <1>3 DEF ListsBy
  <2> QED BY <2>1, <2>2
<1>10. ListsBy(s \o t, D \cup E, lab, h)  BY <1>3, <1>6, <1>7, <1>8, <1>9 DEF ListsBy
<1> QED BY <1>10 DEF Lists

(* Flattening lists the union of what the sequences list, if nothing is    *)
(* listed by two of them.                                                  *)
LEMMA ListsFlatten ==
  ASSUME NEW S, NEW ss \in Seq(Seq(S)), NEW lab, NEW D,
         \A i \in 1 .. Len(ss) : Lists(ss[i], D[i], lab),
         \A i, j \in 1 .. Len(ss) : i # j => D[i] \cap D[j] = {}
  PROVE  Lists(FlattenSeq(ss), UNION {D[i] : i \in 1 .. Len(ss)}, lab)
<1> DEFINE N == {n \in Nat : \A tt \in Seq(Seq(S)) :
                   /\ Len(tt) = n /\ n =< Len(ss)
                   /\ \A i \in 1 .. n : tt[i] = ss[i]
                   => Lists(FlattenSeq(tt), UNION {D[i] : i \in 1 .. n}, lab)}
<1>1. 0 \in N
  <2> SUFFICES ASSUME NEW tt \in Seq(Seq(S)), Len(tt) = 0
               PROVE  Lists(FlattenSeq(tt), UNION {D[i] : i \in 1 .. 0}, lab)
    OBVIOUS
  <2>1. tt = <<>>  BY EmptySeq
  <2>2. UNION {D[i] : i \in 1 .. 0} = {}  OBVIOUS
  <2> QED BY <2>1, <2>2, FlattenEmpty, ListsNothing
<1>2. ASSUME NEW n \in Nat, n \in N PROVE n + 1 \in N
  <2> SUFFICES ASSUME NEW tt \in Seq(Seq(S)), Len(tt) = n + 1, n + 1 =< Len(ss),
                      \A i \in 1 .. n + 1 : tt[i] = ss[i]
               PROVE  Lists(FlattenSeq(tt), UNION {D[i] : i \in 1 .. n + 1}, lab)
    <3>1. n + 1 \in Nat  OBVIOUS
    <3> QED BY <3>1, Zenon
  <2>0. Len(ss) \in Nat  OBVIOUS
  <2> DEFINE uu == FirstOf(tt, n)  u == tt[n + 1]
  <2>1. /\ uu \in Seq(Seq(S)) /\ Len(uu) = n
        /\ \A i \in 1 .. n : uu[i] = tt[i]
        /\ u \in Seq(S)
        /\ FlattenSeq(tt) = FlattenSeq(uu) \o u
    BY FlattenFirst
  <2> HIDE DEF uu
  <2>2. n =< Len(ss) /\ n + 1 \in 1 .. Len(ss)  BY <2>0
  <2>3. \A i \in 1 .. n : i \in 1 .. n + 1 /\ i \in 1 .. Len(ss)  BY <2>0
  <2>4. \A i \in 1 .. n : uu[i] = ss[i]  BY <2>1, <2>3
  <2>5. Lists(FlattenSeq(uu), UNION {D[i] : i \in 1 .. n}, lab)
    BY <2>1, <2>2, <2>4, <1>2
  <2>6. u = ss[n + 1]
    <3>1. n + 1 \in 1 .. n + 1  OBVIOUS
    <3> QED BY <3>1
  <2>7. Lists(u, D[n + 1], lab)  BY <2>2, <2>6
  <2>8. (UNION {D[i] : i \in 1 .. n}) \cap D[n + 1] = {}
    <3>1. \A i \in 1 .. n : i # n + 1  OBVIOUS
    <3> QED BY <3>1, <2>2, <2>3
  <2>9. FlattenSeq(uu) \in Seq(S)  BY <2>1, FlattenType
  <2>10. UNION {D[i] : i \in 1 .. n + 1} = (UNION {D[i] : i \in 1 .. n}) \cup D[n + 1]
    <3>1. \A i : i \in 1 .. n + 1 <=> i \in 1 .. n \/ i = n + 1  OBVIOUS
    <3> QED BY <3>1
  <2> DEFINE U == UNION {D[i] : i \in 1 .. n}
  <2> HIDE DEF N, U
  <2>11. Lists(FlattenSeq(uu) \o u, U \cup D[n + 1], lab)
    BY <2>1, <2>5, <2>7, <2>8, <2>9, ListsConcat DEF U
  <2> QED BY <2>1, <2>10, <2>11 DEF U
<1> HIDE DEF N
<1>3. \A n \in Nat : n \in N  BY <1>1, <1>2, InductionSet
<1>4. Len(ss) \in Nat /\ Len(ss) =< Len(ss)  OBVIOUS
<1> QED BY <1>3, <1>4 DEF N

(* A sequence made from one that lists D, by leaving out some elements and *)
(* replacing each other one by a new one, lists what was not left out.     *)
Part(d, E) == IF d \in E THEN {d} ELSE {}

(* Leaving out and relabelling keep the list one of what is left.          *)
LEMMA ListsSelect ==
  ASSUME NEW S, NEW s \in Seq(S), NEW D, NEW lab, Lists(s, D, lab),
         NEW T, NEW ss \in Seq(Seq(T)), Len(ss) = Len(s),
         NEW E \in SUBSET D, NEW lab2,
         \A i \in 1 .. Len(s) : \A d \in D :
           s[i] = lab[d] => Lists(ss[i], Part(d, E), lab2)
  PROVE  Lists(FlattenSeq(ss), E, lab2)
<1> DEFINE n == Len(s)
<1>1. n \in Nat /\ DOMAIN s = 1 .. n  BY LenProperties
<1> HIDE DEF n
<1>2. PICK f : ListsBy(s, D, lab, f)  BY DEF Lists
<1>3. \A i \in 1 .. n : f[i] \in D /\ s[i] = lab[f[i]]  BY <1>1, <1>2 DEF ListsBy
<1> DEFINE DD == [i \in 1 .. n |-> Part(f[i], E)]
<1>4. \A i \in 1 .. n : Lists(ss[i], DD[i], lab2)  BY <1>3 DEF n
<1>5. \A i, j \in 1 .. n : i # j => DD[i] \cap DD[j] = {}
  <2>1. \A i, j \in 1 .. n : f[i] = f[j] => i = j  BY <1>1, <1>2 DEF ListsBy
  <2>2. \A x, y : x # y => Part(x, E) \cap Part(y, E) = {}  BY DEF Part
  <2>3. \A i \in 1 .. n : DD[i] = Part(f[i], E)  OBVIOUS
  <2> HIDE DEF DD
  <2> SUFFICES ASSUME NEW i \in 1 .. n, NEW j \in 1 .. n, i # j
               PROVE  DD[i] \cap DD[j] = {}
    OBVIOUS
  <2>4. f[i] # f[j]  BY <2>1
  <2> QED BY <2>2, <2>3, <2>4
<1>6. UNION {DD[i] : i \in 1 .. n} = E
  <2>1. \A d \in E : \E i \in 1 .. n : f[i] = d  BY <1>1, <1>2 DEF ListsBy
  <2>2. \A d \in E : \E i \in 1 .. n : d \in DD[i]  BY <2>1 DEF Part
  <2>3. \A i \in 1 .. n : DD[i] \subseteq E  BY DEF Part
  <2> HIDE DEF DD
  <2> QED BY <2>2, <2>3
<1>7. Len(ss) = n  BY DEF n
<1> HIDE DEF DD
<1>8. Lists(FlattenSeq(ss), UNION {DD[i] : i \in 1 .. n}, lab2)
  BY <1>4, <1>5, <1>7, ListsFlatten
<1> QED BY <1>6, <1>8

(* A sequence is as long as the set it lists is large.                     *)
LEMMA ListsCount ==
  ASSUME NEW S, NEW s \in Seq(S), NEW D, NEW lab, Lists(s, D, lab)
  PROVE  IsFiniteSet(D) /\ Cardinality(D) = Len(s)
<1>1. PICK f : ListsBy(s, D, lab, f)  BY DEF Lists
<1>2. Len(s) \in Nat /\ DOMAIN s = 1 .. Len(s)  BY LenProperties
<1>3. f \in Bijection(1 .. Len(s), D)
  BY <1>1, <1>2 DEF ListsBy, Bijection, Injection, Surjection, IsInjective
<1>4. ExistsBijection(1 .. Len(s), D)  BY <1>3 DEF ExistsBijection
<1>5. IsFiniteSet(D)  BY <1>2, <1>4, FS_NatBijection
<1>6. Cardinality(D) = Len(s)  BY <1>2, <1>4, FS_CountingElements
<1> QED BY <1>5, <1>6

(* Its elements are the labels of that set.                                *)
LEMMA ListsElements ==
  ASSUME NEW s, NEW D, NEW lab, Lists(s, D, lab)
  PROVE  ToSet(s) = {lab[d] : d \in D}
<1>1. PICK f : ListsBy(s, D, lab, f)  BY DEF Lists
<1>2. \A i \in DOMAIN s : f[i] \in D /\ s[i] = lab[f[i]]  BY <1>1 DEF ListsBy
<1>3. \A d \in D : \E i \in DOMAIN s : f[i] = d  BY <1>1 DEF ListsBy
<1> QED BY <1>2, <1>3 DEF ToSet

(* Sequences that list the same set have the same bag of elements.         *)
CountOf(s, x) == Cardinality({i \in DOMAIN s : s[i] = x})
CountIn(D, lab, x) == Cardinality({d \in D : lab[d] = x})

(* An element occurs as often as it is a label.                            *)
LEMMA ListsCountOf ==
  ASSUME NEW S, NEW s \in Seq(S), NEW D, NEW lab, NEW x, Lists(s, D, lab)
  PROVE  CountOf(s, x) = CountIn(D, lab, x)
<1> DEFINE I == {i \in DOMAIN s : s[i] = x}  J == {d \in D : lab[d] = x}
<1>1. PICK f : ListsBy(s, D, lab, f)  BY DEF Lists
<1> DEFINE g == [i \in I |-> f[i]]
<1>2. \A i \in I : g[i] = f[i] /\ i \in DOMAIN s /\ f[i] \in J  BY <1>1 DEF ListsBy
<1>3. \A d \in J : \E i \in I : f[i] = d  BY <1>1 DEF ListsBy
<1>4. \A i, j \in I : f[i] = f[j] => i = j  BY <1>1 DEF ListsBy
<1>5. g \in [I -> J]  BY <1>2
<1> HIDE DEF I, J, g
<1>6. g \in Bijection(I, J)
  BY <1>2, <1>3, <1>4, <1>5 DEF Bijection, Injection, Surjection, IsInjective
<1>7. ExistsBijection(I, J)  BY <1>6 DEF ExistsBijection
<1>8. IsFiniteSet(I)
  <2>1. Len(s) \in Nat /\ DOMAIN s = 1 .. Len(s)  BY LenProperties
  <2>2. IsFiniteSet(1 .. Len(s))  BY <2>1, FS_Interval
  <2>3. I \in SUBSET (1 .. Len(s))  BY <2>1 DEF I
  <2> QED BY <2>2, <2>3, FS_Subset
<1>9. Cardinality(I) = Cardinality(J)  BY <1>7, <1>8, FS_Bijection
<1> QED BY <1>9 DEF I, J, CountOf, CountIn

(* So two lists of one set are the same bag.                               *)
LEMMA ListsSameBag ==
  ASSUME NEW S, NEW s \in Seq(S), NEW t \in Seq(S), NEW D, NEW lab,
         Lists(s, D, lab), Lists(t, D, lab)
  PROVE  ToBag(s) = ToBag(t)
<1>1. ToSet(s) = ToSet(t)
  <2>1. ToSet(s) = {lab[d] : d \in D}  BY ListsElements
  <2>2. ToSet(t) = {lab[d] : d \in D}  BY ListsElements
  <2> QED BY <2>1, <2>2
<1>2. Range(s) = Range(t)  BY <1>1 DEF ToSet, Range
<1>3. \A x : CountOf(s, x) = CountOf(t, x)
  <2> TAKE x
  <2>1. CountOf(s, x) = CountIn(D, lab, x)  BY ListsCountOf
  <2>2. CountOf(t, x) = CountIn(D, lab, x)  BY ListsCountOf
  <2> QED BY <2>1, <2>2
<1>4. /\ ToBag(s) = [x \in Range(s) |-> CountOf(s, x)]
      /\ ToBag(t) = [x \in Range(t) |-> CountOf(t, x)]
  BY DEF ToBag, CountOf
<1> QED BY <1>2, <1>3, <1>4

(* SetToSeq puts the elements of a finite set in a sequence.               *)
LEMMA SetToSeqType ==
  ASSUME NEW S, IsFiniteSet(S)
  PROVE  SetToSeq(S) \in Seq(S)
<1>1. Cardinality(S) \in Nat /\ ExistsBijection(1 .. Cardinality(S), S)  BY FS_CardinalityType
<1>2. \E f \in [1 .. Cardinality(S) -> S] : IsInjective(f)
  BY <1>1 DEF ExistsBijection, Bijection, Injection
<1>3. SetToSeq(S) \in [1 .. Cardinality(S) -> S]  BY <1>2 DEF SetToSeq
<1>4. \A n \in Nat : \A f \in [1 .. n -> S] : f \in Seq(S)  BY SeqDef
<1> QED BY <1>1, <1>3, <1>4

(* The elements of a sequence are finitely many, and of its type.          *)
LEMMA ElementsOfSeq ==
  ASSUME NEW S, NEW s \in Seq(S)
  PROVE  IsFiniteSet(ToSet(s)) /\ ToSet(s) \subseteq S
<1>1. s \in [1 .. Len(s) -> S] /\ Len(s) \in Nat /\ DOMAIN s = 1 .. Len(s)  OBVIOUS
<1>2. ToSet(s) \subseteq S  BY <1>1 DEF ToSet
<1>3. s \in Surjection(1 .. Len(s), ToSet(s))  BY <1>1 DEF Surjection, ToSet
<1>4. IsFiniteSet(1 .. Len(s))  BY <1>1, FS_Interval
<1> QED BY <1>2, <1>3, <1>4, FS_Surjection

(* A sequence of three elements, taken apart.                              *)
LEMMA ThreeElements ==
  ASSUME NEW a, NEW b, NEW c, NEW s, s = <<a, b, c>>
  PROVE  /\ DOMAIN s = {1, 2, 3} /\ Len(s) = 3 /\ 1 .. Len(s) = {1, 2, 3}
         /\ s[1] = a /\ s[2] = b /\ s[3] = c
         /\ SubSeq(s, 1, 1) = <<a>> /\ SubSeq(s, 3, 3) = <<c>>
         /\ 1 .. 2 - 1 = {1} /\ 2 + 1 = 3 /\ Len(<<a>>) + 2 = 3
<1>1. Len(s) = 3 /\ s[1] = a /\ s[2] = b /\ s[3] = c  OBVIOUS
<1>2. 1 .. 3 = {1, 2, 3} /\ 1 .. 2 - 1 = {1} /\ 2 + 1 = 3  OBVIOUS
<1>3. Len(<<a>>) + 2 = 3  OBVIOUS
<1>4. DOMAIN s = 1 .. 3  OBVIOUS
<1> DEFINE S == {a, b, c}
<1>5. ASSUME NEW i \in {1, 2, 3} PROVE SubSeq(s, i, i) = <<s[i]>>
  <2> DEFINE u == SubSeq(s, i, i)
  <2>1. i \in Int /\ \A j \in i .. i : s[j] \in S  BY <1>1
  <2> HIDE DEF S
  <2>2. u \in Seq(S) /\ Len(u) = 1 /\ \A j \in 1 .. 1 : u[j] = s[i + j - 1]
    BY <2>1, SubSeqProperties
  <2> HIDE DEF u
  <2>3. u = <<u[1]>>  BY <2>2, OneElement
  <2>4. u[1] = s[i]  BY <2>1, <2>2
  <2> QED BY <2>3, <2>4 DEF u
<1>6. SubSeq(s, 1, 1) = <<a>> /\ SubSeq(s, 3, 3) = <<c>>  BY <1>1, <1>5
<1> QED BY <1>1, <1>2, <1>3, <1>4, <1>6

=============================================================================
