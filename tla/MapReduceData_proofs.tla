------------------------ MODULE MapReduceData_proofs ------------------------
(***************************************************************************)
(* Proofs about MapReduceData: what the files hold, for every number of    *)
(* mappers, reducers, lines and words.                                     *)
(***************************************************************************)
EXTENDS MapReduceData, SequenceLemmas

-----------------------------------------------------------------------------
(* Types.                                                                  *)

(* What a job starts with, and never changes.                              *)
InputOK ==
  /\ app \in Apps
  /\ input \in BoundedSeq(Lines(app), MaxRecords)
  /\ hash \in [Keys -> Reducers]

(* The input is a sequence of at most MaxRecords lines, each a text of at  *)
(* most MaxLength words.                                                   *)
LEMMA InputType ==
  ASSUME InputOK
  PROVE  /\ input \in Seq(Lines(app)) /\ Len(input) \in 0 .. MaxRecords
         /\ DOMAIN input = 1 .. Len(input)
         /\ \A i \in DOMAIN input : input[i] \in Lines(app) /\ i - 1 \in 0 .. MaxRecords - 1
         /\ \A l \in Lines(app) : l \in Seq(Words) /\ Len(l) \in 0 .. MaxLength
<1>1. PICK n \in 0 .. MaxRecords : input \in [1 .. n -> Lines(app)]
  BY DEF InputOK, BoundedSeq, SeqOf
<1>2. n \in Nat /\ MaxRecords \in Nat  BY SizeAssumption
<1>3. input \in Seq(Lines(app)) /\ Len(input) = n  BY <1>1, <1>2
<1>4. \A i \in DOMAIN input : input[i] \in Lines(app) /\ i - 1 \in 0 .. MaxRecords - 1
  BY <1>1, <1>2
<1>5. ASSUME NEW l \in Lines(app) PROVE l \in Seq(Words) /\ Len(l) \in 0 .. MaxLength
  <2>0. MaxLength \in Nat  BY SizeAssumption
  <2>1. l \in Seq(STRING) /\ Len(l) =< MaxLength  BY LinesAssumption DEF InputOK
  <2>2. \A i \in 1 .. Len(l) : l[i] \in Words  BY <2>1 DEF Words, ToSet
  <2>3. l \in [1 .. Len(l) -> Words] /\ Len(l) \in Nat  BY <2>1, <2>2
  <2> QED BY <2>0, <2>1, <2>3
<1> QED BY <1>1, <1>2, <1>3, <1>4, <1>5

(* A number that a task writes is a word.                                  *)
LEMMA NumberType == \A n \in 0 .. MaxNumber : to_string(n) \in Words
  BY DEF Words, Numbers

(* In a job with a word, 1 and every record number are such numbers.       *)
LEMMA NumberBound ==
  ASSUME MaxLength # 0
  PROVE  /\ MaxNumber \in Nat /\ MaxRecords =< MaxNumber /\ 1 =< MaxNumber
         /\ to_string(1) = "1"
<1>1. \A a, b \in Nat \ {0} : a * b \in Nat /\ a =< a * b
  <2> TAKE a, b \in Nat \ {0}
  <2>1. a * b = a + a * (b - 1) /\ b - 1 \in Nat  OBVIOUS
  <2>2. a * (b - 1) \in Nat  BY <2>1
  <2> QED BY <2>1, <2>2
<1>2. MaxNumber \in Nat /\ MaxRecords =< MaxNumber
  BY <1>1, SizeAssumption DEF MaxNumber
<1>3. 1 =< MaxNumber /\ 1 \in 0 .. MaxNumber  BY <1>2, SizeAssumption
<1> QED BY <1>2, <1>3, ToStringAssumption

(* ReverseWeblinkGraph emits one pair of texts.                            *)
LEMMA SourceType ==
  ASSUME InputOK, NEW l \in Lines(app), NEW n
  PROVE  \E k, v \in Seq(Words) : ReverseWeblinkGraphMap(n, l) = << <<k, v>> >>
<1> DEFINE source == IF Contains(l, ",") THEN SubSeq(l, 1, FirstComma(l) - 1) ELSE l
           target == SubSeq(l, Len(source) + 2, Len(l))
           I == {i \in 1 .. Len(l) : l[i] = ","}
<1>1. l \in Seq(Words) /\ Len(l) \in Nat /\ DOMAIN l = 1 .. Len(l)  BY InputType
<1>2. source \in Seq(Words)
  <2>1. CASE Contains(l, ",")
    <3> HIDE DEF source, target
    <3>1. I # {}  BY <2>1 DEF Contains
    <3>2. PICK i \in I : \A j \in 1 .. i - 1 : j \in 1 .. Len(l) /\ j \notin I
      <4>1. I \in SUBSET (1 .. Len(l))  OBVIOUS
      <4> HIDE DEF I
      <4> QED BY <1>1, <3>1, <4>1, FirstPosition
    <3>3. i \in DOMAIN l /\ l[i] = "," /\ \A j \in 1 .. i - 1 : l[j] # ","
      BY <1>1, <3>2
    <3> HIDE DEF I
    <3>4. FirstComma(l) \in 1 .. Len(l)  BY <1>1, <3>3 DEF FirstComma
    <3>5. FirstComma(l) - 1 \in Int /\ \A j \in 1 .. FirstComma(l) - 1 : l[j] \in Words
      BY <1>1, <3>4
    <3>6. SubSeq(l, 1, FirstComma(l) - 1) \in Seq(Words)  BY <3>5, SubSeqProperties
    <3> QED BY <2>1, <3>6 DEF source
  <2>2. CASE ~Contains(l, ",")  BY <2>2, <1>1
  <2> QED BY <2>1, <2>2
<1>3. target \in Seq(Words)
  <2> HIDE DEF source
  <2>1. Len(source) + 2 \in Int /\ Len(source) \in Nat  BY <1>2
  <2>2. \A i \in Len(source) + 2 .. Len(l) : l[i] \in Words  BY <1>1, <2>1
  <2> QED BY <1>1, <2>1, <2>2, SubSeqProperties
<1>4. ReverseWeblinkGraphMap(n, l) = << <<target, source>> >>
  BY DEF ReverseWeblinkGraphMap
<1> QED BY <1>2, <1>3, <1>4

(* The keys and values of map_fn are texts, and every key is one that hash *)
(* is defined for.                                                         *)
Emission == Keys \X Seq(Words)

(* map_fn gives pairs of texts; how many, and their keys, do not depend on *)
(* the record's number.                                                    *)
LEMMA MapTexts ==
  ASSUME InputOK, NEW l \in Lines(app), NEW n \in 0 .. MaxRecords - 1
  PROVE  /\ map_fn(n, l) \in Seq(Seq(Words) \X Seq(Words))
         /\ DOMAIN map_fn(n, l) = DOMAIN map_fn(0, l)
         /\ \A j \in DOMAIN map_fn(n, l) : map_fn(n, l)[j][1] = map_fn(0, l)[j][1]
<1> DEFINE Pair == Seq(Words) \X Seq(Words)
<1>1. l \in Seq(Words) /\ Len(l) \in 0 .. MaxLength /\ DOMAIN l = 1 .. Len(l)
      /\ Len(l) \in Nat
  BY InputType, SizeAssumption
<1>2. \A i \in DOMAIN l : <<l[i]>> \in Seq(Words)  BY <1>1
<1>3. ASSUME NEW i \in DOMAIN l
      PROVE  "1" \in Words /\ to_string(n) \in Words /\ to_string(0) \in Words
  <2>1. MaxLength # 0  BY <1>1, <1>3
  <2>2. n \in 0 .. MaxNumber /\ 0 \in 0 .. MaxNumber /\ 1 \in 0 .. MaxNumber
    BY <2>1, NumberBound, SizeAssumption
  <2> QED BY <2>1, <2>2, NumberType, NumberBound
<1>4. CASE app = "WordCounter"
  <2>1. /\ map_fn(n, l) = [i \in DOMAIN l |-> <<<<l[i]>>, <<"1">>>>]
        /\ map_fn(0, l) = [i \in DOMAIN l |-> <<<<l[i]>>, <<"1">>>>]
    BY <1>4 DEF map_fn, WordCounterMap
  <2>2. \A i \in DOMAIN l : <<<<l[i]>>, <<"1">>>> \in Pair
    <3>1. \A x \in Words : <<x>> \in Seq(Words)  OBVIOUS
    <3> QED BY <1>2, <1>3, <3>1
  <2> HIDE DEF Pair
  <2>3. map_fn(n, l) \in Seq(Pair)  BY <1>1, <2>1, <2>2
  <2> QED BY <2>1, <2>3 DEF Pair
<1>5. CASE app = "InvertedIndex"
  <2>1. /\ map_fn(n, l) = [i \in DOMAIN l |-> <<<<l[i]>>, <<to_string(n)>>>>]
        /\ map_fn(0, l) = [i \in DOMAIN l |-> <<<<l[i]>>, <<to_string(0)>>>>]
    BY <1>5 DEF map_fn, InvertedIndexMap
  <2>2. \A i \in DOMAIN l : <<<<l[i]>>, <<to_string(n)>>>> \in Pair
    <3>1. \A x \in Words : <<x>> \in Seq(Words)  OBVIOUS
    <3> QED BY <1>2, <1>3, <3>1
  <2> HIDE DEF Pair
  <2>3. map_fn(n, l) \in Seq(Pair)  BY <1>1, <2>1, <2>2
  <2> QED BY <2>1, <2>3 DEF Pair
<1>6. CASE app \notin {"WordCounter", "InvertedIndex"}
  <2>1. /\ map_fn(n, l) = ReverseWeblinkGraphMap(n, l)
        /\ map_fn(0, l) = ReverseWeblinkGraphMap(0, l)
    BY <1>6 DEF map_fn
  <2>2. ReverseWeblinkGraphMap(n, l) = ReverseWeblinkGraphMap(0, l)
    BY DEF ReverseWeblinkGraphMap
  <2>3. PICK k, v \in Seq(Words) : ReverseWeblinkGraphMap(n, l) = << <<k, v>> >>
    BY SourceType
  <2>4. << <<k, v>> >> \in Seq(Pair)
    <3>1. <<k, v>> \in Pair  OBVIOUS
    <3> HIDE DEF Pair
    <3> QED BY <3>1
  <2> QED BY <2>1, <2>2, <2>3, <2>4
<1> QED BY <1>4, <1>5, <1>6

(* And each key is one of Keys.                                            *)
LEMMA MapType ==
  ASSUME InputOK, NEW l \in Lines(app), NEW n \in 0 .. MaxRecords - 1
  PROVE  map_fn(n, l) \in Seq(Emission)
<1> DEFINE e == map_fn(n, l)
<1>1. /\ e \in Seq(Seq(Words) \X Seq(Words))
      /\ DOMAIN e = DOMAIN map_fn(0, l)
      /\ \A j \in DOMAIN e : e[j][1] = map_fn(0, l)[j][1]
  BY MapTexts
<1>2. \A j \in DOMAIN map_fn(0, l) : map_fn(0, l)[j][1] \in Keys
  BY DEF Keys, ToSet
<1> HIDE DEF e
<1>3. \A j \in DOMAIN e : e[j] \in Emission
  <2> TAKE j \in DOMAIN e
  <2>1. e[j] \in Seq(Words) \X Seq(Words)  BY <1>1
  <2>2. e[j][1] \in Keys  BY <1>1, <1>2
  <2> QED BY <2>1, <2>2 DEF Emission
<1>4. Len(e) \in Nat /\ DOMAIN e = 1 .. Len(e) /\ e = [j \in 1 .. Len(e) |-> e[j]]
  BY <1>1
<1>5. e \in Seq(Emission)  BY <1>3, <1>4
<1> QED BY <1>5 DEF e

(* The keys that hash is defined for are texts.                            *)
LEMMA KeysType ==
  ASSUME InputOK
  PROVE  Keys \subseteq Seq(Words)
<1> SUFFICES ASSUME NEW l \in Lines(app), NEW e \in ToSet(map_fn(0, l))
             PROVE  e[1] \in Seq(Words)
  BY DEF Keys
<1>1. 0 \in 0 .. MaxRecords - 1  BY SizeAssumption
<1>2. map_fn(0, l) \in Seq(Seq(Words) \X Seq(Words))  BY <1>1, MapTexts
<1>3. PICK j \in DOMAIN map_fn(0, l) : e = map_fn(0, l)[j]  BY DEF ToSet
<1> QED BY <1>2, <1>3

(* What a mapper emits, what it writes, and what a reducer makes of it.    *)
LEMMA EmittedType ==
  ASSUME InputOK, NEW m
  PROVE  Emitted(m) \in Seq(Emission)
<1> DEFINE ss == [i \in DOMAIN input |->
                    IF HashInRange(i - 1, nr_mapper) = m THEN map_fn(i - 1, input[i]) ELSE <<>>]
<1>1. DOMAIN input = 1 .. Len(input) /\ Len(input) \in Nat  BY InputType
<1>2. \A i \in DOMAIN input : ss[i] \in Seq(Emission)
  <2> TAKE i \in DOMAIN input
  <2>1. input[i] \in Lines(app) /\ i - 1 \in 0 .. MaxRecords - 1  BY InputType
  <2>2. map_fn(i - 1, input[i]) \in Seq(Emission)  BY <2>1, MapType
  <2>3. <<>> \in Seq(Emission)  OBVIOUS
  <2> QED BY <2>2, <2>3
<1>3. DOMAIN ss = 1 .. Len(input)  BY <1>1
<1>4. Emitted(m) = FlattenSeq(ss)  BY DEF Emitted
<1> HIDE DEF ss
<1>5. ss \in Seq(Seq(Emission))
  <2>1. ss = [i \in 1 .. Len(input) |-> ss[i]]
    <3>1. ss = [i \in DOMAIN ss |-> ss[i]]  BY DEF ss
    <3> QED BY <1>3, <3>1
  <2> QED BY <1>1, <1>2, <2>1
<1> QED BY <1>4, <1>5, FlattenType

(* A file is written with words.                                           *)
LEMMA WrittenType ==
  ASSUME InputOK, NEW m, NEW r
  PROVE  Written(m, r) \in Seq(Words)
<1> DEFINE e == Emitted(m)
           ss == [i \in DOMAIN e |->
                    IF HashInRange(hash[e[i][1]], nr_reducer) = r
                    THEN e[i][1] \o e[i][2] ELSE <<>>]
<1>1. Written(m, r) = FlattenSeq(ss)  BY DEF Written
<1>2. e \in Seq(Emission)  BY EmittedType
<1> HIDE DEF e
<1>3. \A i \in DOMAIN e : e[i][1] \o e[i][2] \in Seq(Words)
  <2> TAKE i \in DOMAIN e
  <2>1. e[i] \in Emission  BY <1>2
  <2>2. e[i][1] \in Seq(Words) /\ e[i][2] \in Seq(Words)  BY <2>1, KeysType DEF Emission
  <2> QED BY <2>2, ConcatProperties
<1>4. ss \in Seq(Seq(Words))
  <2>1. DOMAIN e = 1 .. Len(e) /\ Len(e) \in Nat  BY <1>2
  <2>2. \A i \in 1 .. Len(e) : ss[i] \in Seq(Words)  BY <1>3, <2>1
  <2>3. ss = [i \in 1 .. Len(e) |-> ss[i]]  BY <2>1
  <2> HIDE DEF ss
  <2> QED BY <2>1, <2>2, <2>3
<1> QED BY <1>1, <1>4, FlattenType

(* Reading a text gives pairs of its words.                                *)
LEMMA ReadTextType ==
  ASSUME NEW S, NEW w \in Seq(S)
  PROVE  ReadText(w) \in Seq(S \X S)
<1>1. Len(w) \in Nat /\ Len(w) \div 2 \in Nat  OBVIOUS
<1>2. \A i \in 1 .. Len(w) \div 2 : 2 * i - 1 \in 1 .. Len(w) /\ 2 * i \in 1 .. Len(w)
  BY <1>1
<1>3. \A i \in 1 .. Len(w) \div 2 : <<w[2 * i - 1], w[2 * i]>> \in S \X S
  BY <1>2
<1> QED BY <1>1, <1>3 DEF ReadText

(* The values of a key are words.                                          *)
LEMMA ValuesType ==
  ASSUME NEW p \in Seq(Words \X Words), NEW k
  PROVE  /\ ValuesOf(p, k) \in Seq(Words)
         /\ [i \in DOMAIN p |-> IF p[i][1] = k THEN <<p[i][2]>> ELSE <<>>] \in Seq(Seq(Words))
<1> DEFINE ss == [i \in DOMAIN p |-> IF p[i][1] = k THEN <<p[i][2]>> ELSE <<>>]
<1>1. ss \in Seq(Seq(Words))
  <2>1. DOMAIN p = 1 .. Len(p) /\ Len(p) \in Nat  OBVIOUS
  <2>2. \A i \in 1 .. Len(p) : ss[i] \in Seq(Words)
    <3> TAKE i \in 1 .. Len(p)
    <3>1. p[i][2] \in Words  OBVIOUS
    <3>2. \A x \in Words : <<x>> \in Seq(Words)  OBVIOUS
    <3>3. <<>> \in Seq(Words)  OBVIOUS
    <3> QED BY <2>1, <3>1, <3>2, <3>3
  <2>3. ss = [i \in 1 .. Len(p) |-> ss[i]]  BY <2>1
  <2> HIDE DEF ss
  <2> QED BY <2>1, <2>2, <2>3
<1>2. ValuesOf(p, k) = FlattenSeq(ss)  BY DEF ValuesOf
<1> HIDE DEF ss
<1>3. ValuesOf(p, k) \in Seq(Words)  BY <1>1, <1>2, FlattenType
<1> QED BY <1>1, <1>3 DEF ss

(* The files are texts.                                                    *)
FilesOK == temp \in [Mappers -> [Reducers -> Seq(Words)]]

(* A reducer accumulates pairs of words.                                   *)
LEMMA AccumulatedType ==
  ASSUME FilesOK, NEW r \in Reducers
  PROVE  /\ Accumulated(r) \in Seq(Words \X Words)
         /\ [i \in 1 .. nr_mapper |-> ReadText(temp[i - 1][r])] \in Seq(Seq(Words \X Words))
<1> DEFINE ss == [i \in 1 .. nr_mapper |-> ReadText(temp[i - 1][r])]
           Pair == Words \X Words
<1>1. nr_mapper \in Nat  BY SizeAssumption
<1>2. \A i \in 1 .. nr_mapper : ss[i] \in Seq(Pair)
  <2> TAKE i \in 1 .. nr_mapper
  <2>1. i - 1 \in Mappers  BY <1>1 DEF Mappers
  <2>2. temp[i - 1][r] \in Seq(Words)  BY <2>1 DEF FilesOK
  <2> QED BY <2>2, ReadTextType
<1>3. ss = [i \in 1 .. nr_mapper |-> ss[i]]  OBVIOUS
<1>4. Accumulated(r) = FlattenSeq(ss)  BY DEF Accumulated
<1> HIDE DEF ss, Pair
<1>5. ss \in Seq(Seq(Pair))  BY <1>1, <1>2, <1>3
<1>6. Accumulated(r) \in Seq(Pair)  BY <1>4, <1>5, FlattenType
<1> QED BY <1>5, <1>6 DEF ss, Pair

-----------------------------------------------------------------------------
(* Reading back what was written.                                          *)

(* A text of pairs is read pair by pair.                                   *)
LEMMA ReadTextConcat ==
  ASSUME NEW S, NEW s \in Seq(S), NEW t \in Seq(S), NEW c \in Nat, Len(s) = 2 * c
  PROVE  ReadText(s \o t) = ReadText(s) \o ReadText(t)
<1> DEFINE d == Len(t) \div 2
           p == ReadText(s)  q == ReadText(t)  u == s \o t
<1>1. /\ u \in Seq(S) /\ Len(u) = 2 * c + Len(t)
      /\ \A i \in 1 .. 2 * c + Len(t) : u[i] = IF i =< 2 * c THEN s[i] ELSE t[i - 2 * c]
  <2>1. /\ u \in Seq(S) /\ Len(u) = Len(s) + Len(t)
        /\ \A i \in 1 .. Len(s) + Len(t) : u[i] = IF i =< Len(s) THEN s[i] ELSE t[i - Len(s)]
    BY ConcatProperties
  <2> QED BY <2>1
<1>2. Len(t) \in Nat /\ d \in Nat /\ 2 * d =< Len(t)  OBVIOUS
<1>3. Len(u) \div 2 = c + d
  <2>1. \A x \in Nat : (2 * c + x) \div 2 = c + (x \div 2)  OBVIOUS
  <2> QED BY <1>1, <1>2, <2>1
<1>4. (2 * c) \div 2 = c  OBVIOUS
<1>5. /\ p = [i \in 1 .. c |-> <<s[2 * i - 1], s[2 * i]>>]
      /\ q = [i \in 1 .. d |-> <<t[2 * i - 1], t[2 * i]>>]
      /\ ReadText(u) = [i \in 1 .. c + d |-> <<u[2 * i - 1], u[2 * i]>>]
  BY <1>3, <1>4 DEF ReadText
<1>6. p \in Seq(S \X S) /\ q \in Seq(S \X S)  BY ReadTextType
<1> HIDE DEF p, q, u, d
<1>7. Len(p) = c /\ Len(q) = d  BY <1>2, <1>5, <1>6
<1>8. /\ p \o q \in Seq(S \X S) /\ Len(p \o q) = c + d
      /\ \A i \in 1 .. c + d : (p \o q)[i] = IF i =< c THEN p[i] ELSE q[i - c]
  BY <1>6, <1>7, ConcatProperties
<1>9. ASSUME NEW i \in 1 .. c + d
      PROVE  (p \o q)[i] = <<u[2 * i - 1], u[2 * i]>>
  <2>1. CASE i =< c
    <3>1. /\ 2 * i - 1 \in 1 .. 2 * c + Len(t) /\ 2 * i \in 1 .. 2 * c + Len(t)
          /\ 2 * i - 1 =< 2 * c /\ 2 * i =< 2 * c /\ i \in 1 .. c
      BY <2>1, <1>2
    <3>2. u[2 * i - 1] = s[2 * i - 1] /\ u[2 * i] = s[2 * i]  BY <1>1, <3>1
    <3>3. p[i] = <<s[2 * i - 1], s[2 * i]>>  BY <1>5, <3>1
    <3> QED BY <1>8, <2>1, <3>2, <3>3
  <2>2. CASE ~(i =< c)
    <3>1. /\ 2 * i - 1 \in 1 .. 2 * c + Len(t) /\ 2 * i \in 1 .. 2 * c + Len(t)
          /\ ~(2 * i - 1 =< 2 * c) /\ ~(2 * i =< 2 * c) /\ i - c \in 1 .. d
          /\ (2 * i - 1) - 2 * c = 2 * (i - c) - 1 /\ 2 * i - 2 * c = 2 * (i - c)
      BY <2>2, <1>2
    <3>2. u[2 * i - 1] = t[2 * (i - c) - 1] /\ u[2 * i] = t[2 * (i - c)]  BY <1>1, <3>1
    <3>3. q[i - c] = <<t[2 * (i - c) - 1], t[2 * (i - c)]>>  BY <1>5, <3>1
    <3> QED BY <1>8, <2>2, <3>2, <3>3
  <2> QED BY <2>1, <2>2
<1>10. p \o q = [i \in 1 .. c + d |-> (p \o q)[i]]
  <2> DEFINE x == p \o q
  <2>1. x \in Seq(S \X S) /\ Len(x) = c + d  BY <1>8
  <2> HIDE DEF x
  <2>2. x = [i \in 1 .. Len(x) |-> x[i]]  BY <2>1
  <2> QED BY <2>1, <2>2 DEF x
<1>11. p \o q = ReadText(u)  BY <1>5, <1>9, <1>10
<1> QED BY <1>11 DEF p, q, u

(* So a file that was written from texts of no or two words is read as     *)
(* these texts are.                                                        *)
LEMMA ReadTextFlatten ==
  ASSUME NEW S, NEW ss \in Seq(Seq(S)), \A i \in 1 .. Len(ss) : Len(ss[i]) \in {0, 2}
  PROVE  ReadText(FlattenSeq(ss)) = FlattenSeq([i \in 1 .. Len(ss) |-> ReadText(ss[i])])
<1> DEFINE Read(tt) == [i \in 1 .. Len(tt) |-> ReadText(tt[i])]
           Good(tt) == /\ \E c \in Nat : Len(FlattenSeq(tt)) = 2 * c
                       /\ ReadText(FlattenSeq(tt)) = FlattenSeq(Read(tt))
           Short(tt) == \A i \in 1 .. Len(tt) : Len(tt[i]) \in {0, 2}
           N == {n \in Nat : \A tt \in Seq(Seq(S)) : Len(tt) = n /\ Short(tt) => Good(tt)}
<1>1. 0 \in N
  <2> SUFFICES ASSUME NEW tt \in Seq(Seq(S)), Len(tt) = 0 PROVE Good(tt)
    OBVIOUS
  <2>1. tt = <<>>  BY EmptySeq
  <2>2. FlattenSeq(tt) = <<>> /\ Len(FlattenSeq(tt)) = 2 * 0  BY <2>1, FlattenEmpty
  <2>3. Read(tt) = <<>>  BY <2>1
  <2>4. ReadText(<<>>) = <<>>  BY DEF ReadText
  <2> QED BY <2>2, <2>3, <2>4, FlattenEmpty
<1>2. ASSUME NEW n \in Nat, n \in N PROVE n + 1 \in N
  <2> SUFFICES ASSUME NEW tt \in Seq(Seq(S)), Len(tt) = n + 1, Short(tt)
               PROVE  Good(tt)
    <3>1. n + 1 \in Nat  OBVIOUS
    <3> HIDE DEF Short, Good
    <3> QED BY <3>1
  <2> DEFINE uu == FirstOf(tt, n)  u == tt[n + 1]
  <2>1. /\ uu \in Seq(Seq(S)) /\ Len(uu) = n
        /\ \A i \in 1 .. n : uu[i] = tt[i]
        /\ u \in Seq(S)
        /\ FlattenSeq(tt) = FlattenSeq(uu) \o u
    BY FlattenFirst
  <2>2. Len(u) \in {0, 2} /\ Short(uu)
    <3>1. n + 1 \in 1 .. n + 1 /\ \A i \in 1 .. n : i \in 1 .. n + 1  OBVIOUS
    <3> HIDE DEF uu
    <3> QED BY <2>1, <3>1
  <2> HIDE DEF uu, Short
  <2>3. Good(uu)  BY <2>1, <2>2, <1>2
  <2>4. FlattenSeq(uu) \in Seq(S)  BY <2>1, FlattenType
  <2> HIDE DEF u
  <2>5. PICK c \in Nat : Len(FlattenSeq(uu)) = 2 * c  BY <2>3
  <2>6. \E b \in Nat : Len(FlattenSeq(tt)) = 2 * b
    <3>1. Len(FlattenSeq(tt)) = 2 * c + Len(u)
      <4>1. Len(FlattenSeq(uu) \o u) = Len(FlattenSeq(uu)) + Len(u)
        BY <2>1, <2>4, ConcatProperties
      <4> QED BY <2>1, <2>5, <4>1
    <3>2. CASE Len(u) = 0
      <4>1. 2 * c + 0 = 2 * c  OBVIOUS
      <4> QED BY <3>1, <3>2, <4>1
    <3>3. CASE Len(u) = 2
      <4>1. 2 * c + 2 = 2 * (c + 1) /\ c + 1 \in Nat  OBVIOUS
      <4> QED BY <3>1, <3>3, <4>1
    <3> QED BY <2>2, <3>2, <3>3
  <2>7. ReadText(FlattenSeq(tt)) = ReadText(FlattenSeq(uu)) \o ReadText(u)
    BY <2>1, <2>4, <2>5, ReadTextConcat
  <2>8. FlattenSeq(Read(tt)) = FlattenSeq(Read(uu)) \o ReadText(u)
    <3>1. \A i \in 1 .. n : uu[i] \in Seq(S)  BY <2>1
    <3>2. Read(uu) \in Seq(Seq(S \X S)) /\ ReadText(u) \in Seq(S \X S)
      <4> DEFINE v == Read(uu)  T == Seq(S \X S)
      <4>1. \A i \in 1 .. n : v[i] \in T  BY <2>1, <3>1, ReadTextType
      <4>2. v = [i \in 1 .. n |-> v[i]]  BY <2>1
      <4>3. ReadText(u) \in Seq(S \X S)  BY <2>1, ReadTextType
      <4> HIDE DEF v, T
      <4>4. v \in Seq(T)  BY <4>1, <4>2, SeqOfValues
      <4> QED BY <4>3, <4>4 DEF v, T
    <3>3. Read(tt) = Append(Read(uu), ReadText(u))
      <4> DEFINE v == Read(uu)  x == ReadText(u)  w == Read(tt)
      <4>1. v = [i \in 1 .. n |-> ReadText(uu[i])]  BY <2>1
      <4>2. w = [i \in 1 .. n + 1 |-> ReadText(tt[i])]  OBVIOUS
      <4>3. \A i \in 1 .. n : w[i] = v[i]
        <5>1. \A i \in 1 .. n : i \in 1 .. n + 1  OBVIOUS
        <5> QED BY <2>1, <4>1, <4>2, <5>1
      <4>4. w[n + 1] = x
        <5>1. n + 1 \in 1 .. n + 1  OBVIOUS
        <5> QED BY <4>2, <5>1 DEF u
      <4>5. Len(v) = n  BY <4>1
      <4> HIDE DEF v, w, x
      <4>6. Append(v, x) = [i \in 1 .. n + 1 |-> IF i = n + 1 THEN x ELSE v[i]]
        BY <4>1, <4>5
      <4>7. \A i \in 1 .. n + 1 : w[i] = IF i = n + 1 THEN x ELSE v[i]
        <5> TAKE i \in 1 .. n + 1
        <5>1. i # n + 1 => i \in 1 .. n  OBVIOUS
        <5> QED BY <4>3, <4>4, <5>1
      <4>8. w = [i \in 1 .. n + 1 |-> w[i]]  BY <4>2
      <4>9. w = Append(v, x)  BY <4>6, <4>7, <4>8
      <4> QED BY <4>9 DEF v, w, x
    <3> HIDE DEF Read
    <3> QED BY <3>2, <3>3, FlattenAppend
  <2> QED BY <2>3, <2>6, <2>7, <2>8
<1> HIDE DEF N, Good, Short
<1>3. \A n \in Nat : n \in N  BY <1>1, <1>2, InductionSet
<1>4. Len(ss) \in Nat  OBVIOUS
<1>5. Short(ss)  BY DEF Short
<1>6. Good(ss)  BY <1>3, <1>4, <1>5 DEF N
<1> QED BY <1>6 DEF Good

-----------------------------------------------------------------------------
(* The positions of the job's emissions: the p[2]-th pair of line p[1].    *)
(* Every sequence between map_fn and reduce_fn lists a set of them.        *)
Positions == {p \in (DOMAIN input) \X Nat : p[2] \in DOMAIN map_fn(p[1] - 1, input[p[1]])}
EmissionAt == [p \in Positions |-> map_fn(p[1] - 1, input[p[1]])[p[2]]]
PairAt == [p \in Positions |-> <<EmissionAt[p][1][1], EmissionAt[p][2][1]>>]
ValueAt == [p \in Positions |-> PairAt[p][2]]

PositionsOf(m) == {p \in Positions : HashInRange(p[1] - 1, nr_mapper) = m}
SentTo(p, r) == EmissionAt[p][1] # <<>> /\ HashInRange(hash[EmissionAt[p][1]], nr_reducer) = r
PositionsFor(r) == {p \in Positions : SentTo(p, r)}
PositionsWith(r, k) == {p \in PositionsFor(r) : PairAt[p][1] = k}

(* A mapper's emissions are those of the records that hash to it.          *)
LEMMA EmittedLists ==
  ASSUME InputOK, NEW m
  PROVE  Lists(Emitted(m), PositionsOf(m), EmissionAt)
<1> DEFINE ss == [i \in DOMAIN input |->
                    IF HashInRange(i - 1, nr_mapper) = m THEN map_fn(i - 1, input[i]) ELSE <<>>]
           n == Len(input)
           D == [i \in 1 .. n |-> {p \in PositionsOf(m) : p[1] = i}]
<1>1. DOMAIN input = 1 .. n /\ n \in Nat  BY InputType
<1>2. Emitted(m) = FlattenSeq(ss)  BY DEF Emitted
<1>3. ASSUME NEW i \in 1 .. n
      PROVE  Lists(ss[i], D[i], EmissionAt) /\ ss[i] \in Seq(Emission)
  <2> DEFINE e == map_fn(i - 1, input[i])
             f == [j \in DOMAIN e |-> <<i, j>>]
  <2>1. input[i] \in Lines(app) /\ i - 1 \in 0 .. MaxRecords - 1  BY <1>1, InputType
  <2>2. e \in Seq(Emission)  BY <2>1, MapType
  <2>3. CASE HashInRange(i - 1, nr_mapper) # m
    <3>1. D[i] = {}  BY <2>3 DEF PositionsOf
    <3>2. ss[i] = <<>>  BY <1>1, <2>3
    <3>3. <<>> \in Seq(Emission)  OBVIOUS
    <3> QED BY <3>1, <3>2, <3>3, ListsNothing
  <2>4. CASE HashInRange(i - 1, nr_mapper) = m
    <3>1. ss[i] = e  BY <1>1, <2>4
    <3>2. DOMAIN e = 1 .. Len(e) /\ Len(e) \in Nat  BY <2>2
    <3>3. \A j \in DOMAIN e : j \in Nat  BY <3>2
    <3>4. \A j \in DOMAIN e : /\ <<i, j>> \in Positions /\ <<i, j>> \in D[i]
                              /\ EmissionAt[<<i, j>>] = e[j]
      BY <1>1, <2>4, <3>3 DEF Positions, PositionsOf, EmissionAt
    <3>5. \A p \in D[i] : p[2] \in DOMAIN e /\ p = <<i, p[2]>>
      BY DEF PositionsOf, Positions
    <3> HIDE DEF e, D
    <3>6. ListsBy(e, D[i], EmissionAt, f)  BY <3>4, <3>5 DEF ListsBy
    <3>7. Lists(e, D[i], EmissionAt)  BY <3>6 DEF Lists
    <3> QED BY <2>2, <3>1, <3>7
  <2> QED BY <2>3, <2>4
<1>4. \A i, j \in 1 .. n : i # j => D[i] \cap D[j] = {}  OBVIOUS
<1>5. UNION {D[i] : i \in 1 .. n} = PositionsOf(m)
  <2>1. \A p \in PositionsOf(m) : p[1] \in 1 .. n
    BY <1>1 DEF PositionsOf, Positions
  <2>2. \A p \in PositionsOf(m) : p \in D[p[1]]  BY <2>1
  <2>3. \A i \in 1 .. n : D[i] \subseteq PositionsOf(m)  OBVIOUS
  <2> HIDE DEF D
  <2> QED BY <2>1, <2>2, <2>3
<1>6. ss = [i \in 1 .. n |-> ss[i]]  BY <1>1
<1> HIDE DEF ss, n, D
<1>7. ss \in Seq(Seq(Emission)) /\ Len(ss) = n  BY <1>1, <1>3, <1>6, SeqOfValues
<1>8. Lists(FlattenSeq(ss), UNION {D[i] : i \in 1 .. n}, EmissionAt)
  BY <1>3, <1>4, <1>7, ListsFlatten
<1> QED BY <1>2, <1>5, <1>8

(* The emissions are one word and one word, or empty.                      *)
OneWordEmissions ==
  \A p \in Positions :
    \/ Len(EmissionAt[p][1]) = 1 /\ Len(EmissionAt[p][2]) = 1
    \/ Len(EmissionAt[p][1]) = 0 /\ Len(EmissionAt[p][2]) = 0

(* What is emitted at a position is a key and a text.                      *)
LEMMA EmissionType ==
  ASSUME InputOK, NEW p \in Positions
  PROVE  EmissionAt[p] \in Emission
<1>1. p[1] \in DOMAIN input /\ p[2] \in DOMAIN map_fn(p[1] - 1, input[p[1]])
  BY DEF Positions
<1>2. input[p[1]] \in Lines(app) /\ p[1] - 1 \in 0 .. MaxRecords - 1  BY <1>1, InputType
<1>3. map_fn(p[1] - 1, input[p[1]]) \in Seq(Emission)  BY <1>2, MapType
<1>4. EmissionAt[p] = map_fn(p[1] - 1, input[p[1]])[p[2]]  BY DEF EmissionAt
<1> QED BY <1>1, <1>3, <1>4

(* What a reducer reads back of a mapper's file is what the mapper emitted *)
(* for it, but for empty pairs.                                            *)
LEMMA ReadLists ==
  ASSUME InputOK, OneWordEmissions, NEW m, NEW r
  PROVE  Lists(ReadText(Written(m, r)), {p \in PositionsOf(m) : SentTo(p, r)}, PairAt)
<1> DEFINE e == Emitted(m)
           n == Len(e)
           ToR(i) == HashInRange(hash[e[i][1]], nr_reducer) = r
           ss == [i \in DOMAIN e |-> IF ToR(i) THEN e[i][1] \o e[i][2] ELSE <<>>]
           tt == [i \in 1 .. n |-> ReadText(ss[i])]
           E == {p \in PositionsOf(m) : SentTo(p, r)}
<1>1. e \in Seq(Emission) /\ DOMAIN e = 1 .. n /\ n \in Nat  BY EmittedType
<1>2. Written(m, r) = FlattenSeq(ss)  BY DEF Written
<1>3. Lists(e, PositionsOf(m), EmissionAt)  BY EmittedLists
<1>4. ReadText(<<>>) = <<>>  BY DEF ReadText
<1>5. \A p \in PositionsOf(m) : p \in Positions  BY DEF PositionsOf
<1>6. ASSUME NEW i \in 1 .. n, NEW p \in PositionsOf(m), e[i] = EmissionAt[p]
      PROVE  /\ ss[i] \in Seq(Words) /\ Len(ss[i]) \in {0, 2}
             /\ Lists(ReadText(ss[i]), Part(p, E), PairAt)
             /\ ReadText(ss[i]) \in Seq(Words \X Words)
  <2> DEFINE k == EmissionAt[p][1]  v == EmissionAt[p][2]
  <2>1. k \in Seq(Words) /\ v \in Seq(Words)
    <3>1. EmissionAt[p] \in Emission  BY <1>5, EmissionType
    <3> QED BY <3>1, KeysType DEF Emission
  <2>2. \/ Len(k) = 1 /\ Len(v) = 1
        \/ Len(k) = 0 /\ Len(v) = 0
    BY <1>5 DEF OneWordEmissions
  <2>3. ss[i] = IF HashInRange(hash[k], nr_reducer) = r THEN k \o v ELSE <<>>
    BY <1>1, <1>6
  <2>4. p \in E <=> k # <<>> /\ HashInRange(hash[k], nr_reducer) = r
    BY DEF SentTo
  <2>5. PairAt[p] = <<k[1], v[1]>>  BY <1>5 DEF PairAt
  <2> HIDE DEF k, v, ss, E
  <2>6. CASE HashInRange(hash[k], nr_reducer) = r /\ Len(k) = 1
    <3>1. Len(v) = 1 /\ k # <<>>  BY <2>2, <2>6
    <3>2. k \o v = <<k[1], v[1]>> /\ k[1] \in Words /\ v[1] \in Words
      <4>1. k = <<k[1]>> /\ k[1] \in Words  BY <2>1, <2>6, OneElement
      <4>2. v = <<v[1]>> /\ v[1] \in Words  BY <2>1, <3>1, OneElement
      <4>3. <<k[1]>> \o <<v[1]>> = <<k[1], v[1]>>  BY <4>1, <4>2, TwoElements
      <4> QED BY <4>1, <4>2, <4>3, Zenon
    <3>3. ss[i] = <<k[1], v[1]>>  BY <2>3, <2>6, <3>2
    <3>4. ss[i] \in Seq(Words) /\ Len(ss[i]) = 2  BY <3>2, <3>3
    <3>5. ReadText(<<k[1], v[1]>>) = << <<k[1], v[1]>> >>
      <4>1. Len(<<k[1], v[1]>>) \div 2 = 1 /\ 1 .. 1 = {1} /\ 2 * 1 - 1 = 1 /\ 2 * 1 = 2  OBVIOUS
      <4> QED BY <4>1 DEF ReadText
    <3>6. Lists(ReadText(ss[i]), {p}, PairAt)  BY <2>5, <3>3, <3>5, ListsOne
    <3> QED BY <2>4, <2>6, <3>1, <3>4, <3>6, ReadTextType DEF Part
  <2>7. CASE HashInRange(hash[k], nr_reducer) # r \/ Len(k) # 1
    <3>1. ss[i] = <<>>
      <4>1. CASE HashInRange(hash[k], nr_reducer) # r  BY <2>3, <4>1
      <4>2. CASE Len(k) # 1
        <5>1. k = <<>> /\ v = <<>>  BY <2>1, <2>2, <4>2
        <5>2. k \o v = <<>>  BY <5>1
        <5> QED BY <2>3, <5>2
      <4> QED BY <2>7, <4>1, <4>2
    <3>2. ~(p \in E)
      <4>1. Len(k) # 1 => k = <<>>  BY <2>1, <2>2
      <4> QED BY <2>4, <2>7, <4>1
    <3>3. <<>> \in Seq(Words) /\ Len(<<>>) = 0 /\ <<>> \in Seq(Words \X Words)  OBVIOUS
    <3> QED BY <1>4, <3>1, <3>2, <3>3, ListsNothing DEF Part
  <2> QED BY <2>6, <2>7
<1>7. \A i \in 1 .. n : \E p \in PositionsOf(m) : e[i] = EmissionAt[p]
  BY <1>1, <1>3 DEF Lists, ListsBy
<1>8. ss = [i \in 1 .. n |-> ss[i]]  BY <1>1
<1>9. tt = [i \in 1 .. n |-> tt[i]]  OBVIOUS
<1>10. \A i \in 1 .. n : tt[i] = ReadText(ss[i])  OBVIOUS
<1>11. E \in SUBSET PositionsOf(m)  OBVIOUS
<1> HIDE DEF ss, E, e
<1>12. ss \in Seq(Seq(Words)) /\ Len(ss) = n
  <2> DEFINE T == Seq(Words)
  <2>1. \A i \in 1 .. n : ss[i] \in T  BY <1>6, <1>7
  <2> HIDE DEF T, n
  <2>2. ss \in Seq(T) /\ Len(ss) = n  BY <1>1, <1>8, <2>1, SeqOfValues
  <2> QED BY <2>2 DEF T
<1>13. ReadText(FlattenSeq(ss)) = FlattenSeq(tt)
  <2>1. \A i \in 1 .. Len(ss) : Len(ss[i]) \in {0, 2}  BY <1>6, <1>7, <1>12
  <2>2. ReadText(FlattenSeq(ss)) = FlattenSeq([i \in 1 .. Len(ss) |-> ReadText(ss[i])])
    BY <1>12, <2>1, ReadTextFlatten
  <2> QED BY <1>12, <2>2
<1> HIDE DEF tt, n
<1>14. tt \in Seq(Seq(Words \X Words)) /\ Len(tt) = n
  <2> DEFINE T == Seq(Words \X Words)
  <2>1. \A i \in 1 .. n : tt[i] \in T  BY <1>6, <1>7, <1>10
  <2> HIDE DEF T
  <2>2. tt \in Seq(T) /\ Len(tt) = n  BY <1>1, <1>9, <2>1, SeqOfValues
  <2> QED BY <2>2 DEF T
<1>15. Lists(FlattenSeq(tt), E, PairAt)
  <2>1. \A i \in 1 .. Len(e) : \A p \in PositionsOf(m) :
          e[i] = EmissionAt[p] => Lists(tt[i], Part(p, E), PairAt)
    BY <1>6, <1>10 DEF n
  <2>2. Len(tt) = Len(e)  BY <1>14 DEF n
  <2> DEFINE T == Words \X Words
  <2>3. tt \in Seq(Seq(T))  BY <1>14
  <2> HIDE DEF T
  <2> QED BY <1>1, <1>3, <1>11, <2>1, <2>2, <2>3, ListsSelect
<1> QED BY <1>2, <1>13, <1>15 DEF E

(* The mappers' files for r are complete.                                  *)
FilesFor(r) == \A m \in Mappers : temp[m][r] = Written(m, r)

(* A record number hashes to a mapper.                                     *)
LEMMA RecordHash == \A h \in Nat : HashInRange(h, nr_mapper) \in Mappers
  BY SizeAssumption DEF HashInRange, Mappers

(* Then the reducer accumulates every pair that was sent to it.            *)
LEMMA AccumulatedLists ==
  ASSUME InputOK, FilesOK, OneWordEmissions, NEW r \in Reducers, FilesFor(r)
  PROVE  Lists(Accumulated(r), PositionsFor(r), PairAt)
<1> DEFINE ss == [i \in 1 .. nr_mapper |-> ReadText(temp[i - 1][r])]
           D == [i \in 1 .. nr_mapper |-> {p \in PositionsOf(i - 1) : SentTo(p, r)}]
           T == Words \X Words
<1>1. nr_mapper \in Nat  BY SizeAssumption
<1>2. Accumulated(r) = FlattenSeq(ss)  BY DEF Accumulated
<1>3. ss \in Seq(Seq(T))  BY AccumulatedType
<1>4. Len(ss) = nr_mapper  BY <1>1
<1>5. \A i \in 1 .. nr_mapper : Lists(ss[i], D[i], PairAt)
  <2> TAKE i \in 1 .. nr_mapper
  <2>1. i - 1 \in Mappers  BY <1>1 DEF Mappers
  <2>2. ss[i] = ReadText(Written(i - 1, r))  BY <2>1 DEF FilesFor
  <2>3. D[i] = {p \in PositionsOf(i - 1) : SentTo(p, r)}  OBVIOUS
  <2> HIDE DEF ss, D
  <2> QED BY <2>2, <2>3, ReadLists
<1>6. \A i, j \in 1 .. nr_mapper : i # j => D[i] \cap D[j] = {}
  BY <1>1 DEF PositionsOf
<1>7. UNION {D[i] : i \in 1 .. nr_mapper} = PositionsFor(r)
  <2>1. ASSUME NEW p \in PositionsFor(r) PROVE \E i \in 1 .. nr_mapper : p \in D[i]
    <3>1. p \in Positions /\ SentTo(p, r)  BY DEF PositionsFor
    <3>2. p[1] - 1 \in Nat  BY <3>1, InputType DEF Positions
    <3> DEFINE m == HashInRange(p[1] - 1, nr_mapper)
    <3>3. m \in Mappers  BY <3>2, RecordHash
    <3> HIDE DEF m
    <3>4. m + 1 \in 1 .. nr_mapper /\ (m + 1) - 1 = m  BY <1>1, <3>3 DEF Mappers
    <3>5. p \in D[m + 1]  BY <3>1, <3>4 DEF m, PositionsOf
    <3> QED BY <3>4, <3>5
  <2>2. \A i \in 1 .. nr_mapper : D[i] \subseteq PositionsFor(r)
    BY DEF PositionsOf, PositionsFor
  <2> HIDE DEF D
  <2> QED BY <2>1, <2>2
<1> HIDE DEF ss, D, T
<1>8. Lists(FlattenSeq(ss), UNION {D[i] : i \in 1 .. nr_mapper}, PairAt)
  BY <1>3, <1>4, <1>5, <1>6, ListsFlatten
<1> QED BY <1>2, <1>7, <1>8

(* Its keys are those of these pairs.                                      *)
LEMMA AccumulatedKeys ==
  ASSUME InputOK, FilesOK, OneWordEmissions, NEW r \in Reducers, FilesFor(r), NEW k
  PROVE  k \in {p[1] : p \in ToSet(Accumulated(r))} <=> PositionsWith(r, k) # {}
<1>1. ToSet(Accumulated(r)) = {PairAt[p] : p \in PositionsFor(r)}
  BY AccumulatedLists, ListsElements
<1> QED BY <1>1 DEF PositionsWith

(* And what it finds with a key are the values emitted with it.            *)
LEMMA ValuesLists ==
  ASSUME InputOK, FilesOK, OneWordEmissions, NEW r \in Reducers, FilesFor(r), NEW k
  PROVE  Lists(ValuesOf(Accumulated(r), k), PositionsWith(r, k), ValueAt)
<1> DEFINE a == Accumulated(r)
           ss == [i \in DOMAIN a |-> IF a[i][1] = k THEN <<a[i][2]>> ELSE <<>>]
           E == PositionsWith(r, k)
           T == Words \X Words
<1>1. a \in Seq(T)  BY AccumulatedType
<1>2. Lists(a, PositionsFor(r), PairAt)  BY AccumulatedLists
<1> HIDE DEF a
<1>3. DOMAIN a = 1 .. Len(a) /\ Len(a) \in Nat  BY <1>1
<1>4. ValuesOf(a, k) = FlattenSeq(ss)  BY DEF ValuesOf
<1>5. ss \in Seq(Seq(Words))  BY <1>1, ValuesType
<1>6. Len(ss) = Len(a)  BY <1>3
<1>7. ASSUME NEW i \in 1 .. Len(a), NEW p \in PositionsFor(r), a[i] = PairAt[p]
      PROVE  Lists(ss[i], Part(p, E), ValueAt)
  <2>1. p \in Positions  BY DEF PositionsFor
  <2>2. ValueAt[p] = PairAt[p][2]  BY <2>1 DEF ValueAt
  <2>3. p \in E <=> PairAt[p][1] = k  BY DEF PositionsWith
  <2>4. CASE PairAt[p][1] = k
    <3>1. ss[i] = <<PairAt[p][2]>>  BY <1>3, <1>7, <2>4
    <3>2. Part(p, E) = {p}  BY <2>3, <2>4 DEF Part
    <3> HIDE DEF ss, E
    <3> QED BY <2>2, <3>1, <3>2, ListsOne
  <2>5. CASE PairAt[p][1] # k
    <3>1. ss[i] = <<>>  BY <1>3, <1>7, <2>5
    <3>2. Part(p, E) = {}  BY <2>3, <2>5 DEF Part
    <3> HIDE DEF ss, E
    <3> QED BY <3>1, <3>2, ListsNothing
  <2> QED BY <2>4, <2>5
<1>8. E \in SUBSET PositionsFor(r)  BY DEF PositionsWith
<1> HIDE DEF ss, E, T
<1>9. Lists(FlattenSeq(ss), E, ValueAt)
  BY <1>1, <1>2, <1>5, <1>6, <1>7, <1>8, ListsSelect
<1> QED BY <1>4, <1>9 DEF a, E

(* A key is written by one reducer only, which is told from its hash, and  *)
(* with all the values it was emitted with.                                *)
EmissionsOf(k) == {p \in Positions : EmissionAt[p][1] = <<k>>}
ReducerOf(k) == HashInRange(hash[<<k>>], nr_reducer)

(* The positions with key k that reducer r reads are all of k's, or none.  *)
LEMMA KeyIsSentToOne ==
  ASSUME InputOK, OneWordEmissions, NEW r, NEW k
  PROVE  PositionsWith(r, k) = IF ReducerOf(k) = r THEN EmissionsOf(k) ELSE {}
<1>1. ASSUME NEW p \in Positions
      PROVE  /\ EmissionAt[p][1] # <<>> => EmissionAt[p][1] = <<EmissionAt[p][1][1]>>
             /\ PairAt[p][1] = EmissionAt[p][1][1]
  <2> DEFINE t == EmissionAt[p][1]
  <2>1. t \in Seq(Words)
    <3>1. EmissionAt[p] \in Emission  BY EmissionType
    <3> QED BY <3>1, KeysType DEF Emission
  <2>2. Len(t) = 1 \/ Len(t) = 0  BY DEF OneWordEmissions
  <2>3. PairAt[p][1] = t[1]  BY DEF PairAt
  <2> HIDE DEF t
  <2>4. t # <<>> => t = <<t[1]>>  BY <2>1, <2>2, OneElement, EmptySeq
  <2> QED BY <2>3, <2>4 DEF t
<1>2. ASSUME NEW p \in PositionsWith(r, k)
      PROVE  p \in EmissionsOf(k) /\ ReducerOf(k) = r
  <2>1. /\ p \in Positions /\ EmissionAt[p][1] # <<>> /\ PairAt[p][1] = k
        /\ HashInRange(hash[EmissionAt[p][1]], nr_reducer) = r
    BY DEF PositionsWith, PositionsFor, SentTo
  <2>2. EmissionAt[p][1] = <<k>>  BY <1>1, <2>1
  <2> QED BY <2>1, <2>2 DEF EmissionsOf, ReducerOf
<1>3. ASSUME NEW p \in EmissionsOf(k), ReducerOf(k) = r
      PROVE  p \in PositionsWith(r, k)
  <2>1. p \in Positions /\ EmissionAt[p][1] = <<k>>  BY DEF EmissionsOf
  <2>2. <<k>> # <<>> /\ <<k>>[1] = k  OBVIOUS
  <2>3. PairAt[p][1] = k  BY <1>1, <2>1, <2>2
  <2>4. SentTo(p, r)  BY <1>3, <2>1, <2>2 DEF SentTo, ReducerOf
  <2> QED BY <2>1, <2>3, <2>4 DEF PositionsWith, PositionsFor
<1> QED BY <1>2, <1>3

(* The reducer of an emitted key is one of the reducers.                   *)
LEMMA ReducerOfKey ==
  ASSUME InputOK, NEW k, EmissionsOf(k) # {}
  PROVE  ReducerOf(k) \in Reducers
<1>1. PICK p \in Positions : EmissionAt[p][1] = <<k>>  BY DEF EmissionsOf
<1>2. <<k>> \in Keys
  <2>1. EmissionAt[p] \in Emission  BY EmissionType
  <2> QED BY <1>1, <2>1 DEF Emission
<1>3. hash[<<k>>] \in Reducers  BY <1>2 DEF InputOK
<1>4. \A h \in Nat : HashInRange(h, nr_reducer) \in Reducers
  BY SizeAssumption DEF HashInRange, Reducers
<1>5. hash[<<k>>] \in Nat  BY <1>3, SizeAssumption DEF Reducers
<1> QED BY <1>4, <1>5 DEF ReducerOf

-----------------------------------------------------------------------------
(* WordCounter's sum.                                                      *)

(* stoi() takes "1" back to 1.                                             *)
LEMMA StoiOne ==
  ASSUME MaxLength # 0
  PROVE  Stoi("1") = 1
<1>1. 1 \in 0 .. MaxNumber /\ to_string(1) = "1"  BY NumberBound
<1>2. \A n \in 0 .. MaxNumber : to_string(n) = "1" <=> n = 1  BY ToStringAssumption
<1> QED BY <1>1, <1>2 DEF Stoi

(* The function FoldSeq is defined by.                                     *)
Counts(f, s) ==
  f = [t \in SUBSET DOMAIN s |->
         IF t = {} THEN 0 ELSE LET x == CHOOSE y \in t : TRUE IN f[t \ {x}] + Stoi(s[x])]

(* What reduce_fn of WordCounter is, with that function.                   *)
LEMMA WordCounterReduceIs ==
  ASSUME NEW s
  PROVE  WordCounterReduce(s) = <<to_string((CHOOSE f : Counts(f, s))[DOMAIN s])>>
  BY DEF WordCounterReduce, FoldSeq, FoldFunction, FoldFunctionOnSet, MapThenFoldSet, Counts

(* The sum of ones is their number.                                        *)
LEMMA SumOfOnes ==
  ASSUME MaxLength # 0, NEW s \in Seq(Words), \A i \in 1 .. Len(s) : s[i] = "1"
  PROVE  WordCounterReduce(s) = <<to_string(Len(s))>>
<1> DEFINE D == DOMAIN s
           g == [t \in SUBSET D |-> Cardinality(t)]
           f == CHOOSE h : Counts(h, s)
<1>1. D = 1 .. Len(s) /\ Len(s) \in Nat  OBVIOUS
<1>2. IsFiniteSet(D) /\ Cardinality(D) = Len(s)  BY <1>1, FS_Interval
<1>3. \A i \in D : Stoi(s[i]) = 1  BY <1>1, StoiOne
<1> HIDE DEF D
<1>4. ASSUME NEW t \in SUBSET D, t # {}
      PROVE  LET x == CHOOSE y \in t : TRUE
             IN  /\ x \in D /\ t \ {x} \in SUBSET D
                 /\ Cardinality(t) \in Nat \ {0} /\ Cardinality(t \ {x}) = Cardinality(t) - 1
  <2> DEFINE x == CHOOSE y \in t : TRUE
  <2>1. x \in t  BY <1>4
  <2>2. IsFiniteSet(t)  BY <1>2, FS_Subset
  <2> HIDE DEF x
  <2>3. Cardinality(t) \in Nat /\ Cardinality(t) # 0
    BY <1>4, <2>2, FS_CardinalityType, FS_EmptySet
  <2>4. Cardinality(t \ {x}) = Cardinality(t) - 1  BY <2>1, <2>2, FS_RemoveElement
  <2>5. x \in D /\ t \ {x} \in SUBSET D  BY <2>1
  <2> QED BY <2>3, <2>4, <2>5 DEF x
<1>5. Counts(g, s)
  <2> DEFINE h == [t \in SUBSET D |->
                     IF t = {} THEN 0
                     ELSE LET x == CHOOSE y \in t : TRUE IN g[t \ {x}] + Stoi(s[x])]
  <2>1. ASSUME NEW t \in SUBSET D PROVE g[t] = h[t]
    <3>1. CASE t = {}  BY <3>1, FS_EmptySet
    <3>2. CASE t # {}
      <4> DEFINE x == CHOOSE y \in t : TRUE
      <4>1. /\ x \in D /\ t \ {x} \in SUBSET D
            /\ Cardinality(t) \in Nat \ {0} /\ Cardinality(t \ {x}) = Cardinality(t) - 1
        BY <1>4, <3>2
      <4>2. h[t] = g[t \ {x}] + Stoi(s[x])  BY <3>2
      <4> HIDE DEF x, h
      <4>3. Stoi(s[x]) = 1  BY <1>3, <4>1
      <4>4. g[t \ {x}] = Cardinality(t) - 1 /\ g[t] = Cardinality(t)  BY <4>1
      <4> HIDE DEF g
      <4> QED BY <4>1, <4>2, <4>3, <4>4
    <3> QED BY <3>1, <3>2
  <2>2. g = [t \in SUBSET D |-> g[t]] /\ h = [t \in SUBSET D |-> h[t]]  OBVIOUS
  <2>3. Counts(g, s) <=> g = h  BY DEF Counts, D
  <2> HIDE DEF g, h
  <2>4. g = h  BY <2>1, <2>2
  <2> QED BY <2>3, <2>4
<1>6. Counts(f, s)  BY <1>5
<1> HIDE DEF f, g
<1>7. f[{}] = 0  BY <1>6 DEF Counts
<1> DEFINE N == {n \in Nat : \A t \in SUBSET D : Cardinality(t) = n => f[t] = n}
<1>8. 0 \in N
  <2> SUFFICES ASSUME NEW t \in SUBSET D, Cardinality(t) = 0 PROVE f[t] = 0  OBVIOUS
  <2>1. IsFiniteSet(t)  BY <1>2, FS_Subset
  <2>2. t = {}  BY <2>1, FS_EmptySet
  <2> QED BY <1>7, <2>2
<1>9. ASSUME NEW n \in Nat, n \in N PROVE n + 1 \in N
  <2> SUFFICES ASSUME NEW t \in SUBSET D, Cardinality(t) = n + 1 PROVE f[t] = n + 1
    OBVIOUS
  <2>0. Cardinality({}) = 0 /\ n + 1 # 0  BY FS_EmptySet
  <2>1. t # {}  BY <2>0
  <2> DEFINE x == CHOOSE y \in t : TRUE
  <2>2. /\ x \in D /\ t \ {x} \in SUBSET D
        /\ Cardinality(t \ {x}) = Cardinality(t) - 1
    BY <1>4, <2>1
  <2>3. f[t] = f[t \ {x}] + Stoi(s[x])  BY <1>6, <2>1 DEF Counts, D
  <2> HIDE DEF x
  <2>4. f[t \ {x}] = n
    <3>1. Cardinality(t \ {x}) = n  BY <2>2
    <3> QED BY <1>9, <2>2, <3>1
  <2>5. Stoi(s[x]) = 1  BY <1>3, <2>2
  <2> QED BY <2>3, <2>4, <2>5
<1> HIDE DEF N
<1>10. \A n \in Nat : n \in N  BY <1>8, <1>9, InductionSet
<1>11. f[D] = Len(s)  BY <1>1, <1>2, <1>10 DEF N
<1> QED BY <1>11, WordCounterReduceIs DEF f, D

-----------------------------------------------------------------------------
(* The applications that take words.                                       *)
TakesWords == app \in {"WordCounter", "InvertedIndex"}

(* They emit every word of the input with one value, "1" or the number of  *)
(* its record.                                                             *)
WordAt(p) == input[p[1]][p[2]]
Value(p) == IF app = "WordCounter" THEN "1" ELSE to_string(p[1] - 1)

(* The emissions of map_fn are these words with these values, at these     *)
(* positions.                                                              *)
LEMMA WordEmissions ==
  ASSUME InputOK, TakesWords
  PROVE  /\ Positions = {p \in (DOMAIN input) \X Nat : p[2] \in DOMAIN input[p[1]]}
         /\ \A p \in Positions : /\ EmissionAt[p] = << <<WordAt(p)>>, <<Value(p)>> >>
                                /\ ValueAt[p] = Value(p)
         /\ OneWordEmissions
<1>1. \A i \in DOMAIN input :
        map_fn(i - 1, input[i]) =
          [j \in DOMAIN input[i] |->
             << <<input[i][j]>>, <<IF app = "WordCounter" THEN "1" ELSE to_string(i - 1)>> >>]
  BY DEF TakesWords, map_fn, WordCounterMap, InvertedIndexMap
<1>2. Positions = {p \in (DOMAIN input) \X Nat : p[2] \in DOMAIN input[p[1]]}
  BY <1>1 DEF Positions
<1>3. ASSUME NEW p \in Positions
      PROVE  EmissionAt[p] = << <<WordAt(p)>>, <<Value(p)>> >>
  BY <1>1, <1>2 DEF EmissionAt, WordAt, Value
<1>4. \A p \in Positions : ValueAt[p] = Value(p)
  <2> TAKE p \in Positions
  <2>1. ValueAt[p] = EmissionAt[p][2][1]  BY DEF ValueAt, PairAt
  <2> QED BY <1>3, <2>1
<1>5. OneWordEmissions
  <2> SUFFICES ASSUME NEW p \in Positions
               PROVE  Len(EmissionAt[p][1]) = 1 /\ Len(EmissionAt[p][2]) = 1
    BY DEF OneWordEmissions
  <2> QED BY <1>3
<1> QED BY <1>2, <1>3, <1>4, <1>5

(* The emissions of a word are its occurrences, of which there are no more *)
(* than MaxNumber.                                                         *)
LEMMA EmissionsAreOccurrences ==
  ASSUME InputOK, TakesWords, NEW w
  PROVE  EmissionsOf(w) = Occurrences(w)
<1>1. ASSUME NEW i \in DOMAIN input, NEW j \in DOMAIN input[i]
      PROVE  j \in 1 .. MaxLength /\ j \in Nat
  <2>1. input[i] \in Seq(Words) /\ Len(input[i]) \in 0 .. MaxLength  BY InputType
  <2>2. MaxLength \in Nat  BY SizeAssumption
  <2> QED BY <2>1, <2>2
<1>2. 1 .. MaxLength \subseteq Nat  BY SizeAssumption
<1>3. Positions = {p \in (DOMAIN input) \X Nat : p[2] \in DOMAIN input[p[1]]}
  BY WordEmissions
<1>4. \A p \in Positions : EmissionAt[p][1] = <<w>> <=> WordAt(p) = w
  BY WordEmissions
<1>5. Positions = {o \in (DOMAIN input) \X (1 .. MaxLength) : o[2] \in DOMAIN input[o[1]]}
  BY <1>1, <1>2, <1>3
<1> QED BY <1>4, <1>5 DEF EmissionsOf, Occurrences, WordAt

(* A word occurs at most MaxNumber times, so its count is a number that    *)
(* to_string is known of.                                                  *)
LEMMA OccurrencesBound ==
  ASSUME InputOK, NEW w
  PROVE  IsFiniteSet(Occurrences(w)) /\ Cardinality(Occurrences(w)) \in 0 .. MaxNumber
<1> DEFINE A == 1 .. MaxRecords  B == 1 .. MaxLength
<1>1. MaxRecords \in Nat /\ MaxLength \in Nat  BY SizeAssumption
<1>2. /\ IsFiniteSet(A) /\ Cardinality(A) = MaxRecords
      /\ IsFiniteSet(B) /\ Cardinality(B) = MaxLength
  BY <1>1, FS_Interval
<1>3. DOMAIN input \subseteq A  BY <1>1, InputType
<1>4. Occurrences(w) \in SUBSET (A \X B)  BY <1>3 DEF Occurrences
<1> HIDE DEF A, B
<1>5. IsFiniteSet(A \X B) /\ Cardinality(A \X B) = MaxNumber
  BY <1>2, FS_Product DEF MaxNumber
<1>6. /\ IsFiniteSet(Occurrences(w))
      /\ Cardinality(Occurrences(w)) =< Cardinality(A \X B)
  BY <1>4, <1>5, FS_Subset
<1> QED BY <1>5, <1>6, FS_CardinalityType

(* A word that occurs: the input has a word, so 1 is written "1".          *)
LEMMA OccurrenceLength ==
  ASSUME NEW w, Occurrences(w) # {}
  PROVE  MaxLength # 0
<1>1. 1 .. 0 = {}  OBVIOUS
<1> QED BY <1>1 DEF Occurrences

(* What the reducer of a word makes of the values that it finds.           *)
LEMMA ReduceWords ==
  ASSUME InputOK, FilesOK, TakesWords, NEW r \in Reducers, FilesFor(r),
         NEW w, PositionsWith(r, w) # {}
  PROVE  LET values == ValuesOf(Accumulated(r), w)
         IN  /\ app = "WordCounter" =>
                  reduce_fn(values) = <<to_string(Cardinality(Occurrences(w)))>>
             /\ app = "InvertedIndex" =>
                  reduce_fn(values) = SetToSeq({to_string(o[1] - 1) : o \in Occurrences(w)})
<1> DEFINE values == ValuesOf(Accumulated(r), w)
<1>1. OneWordEmissions  BY WordEmissions
<1>2. values \in Seq(Words)  BY AccumulatedType, ValuesType
<1>3. Lists(values, PositionsWith(r, w), ValueAt)  BY <1>1, ValuesLists
<1>4. PositionsWith(r, w) = Occurrences(w)
  BY <1>1, KeyIsSentToOne, EmissionsAreOccurrences
<1>5. Occurrences(w) \subseteq Positions  BY EmissionsAreOccurrences DEF EmissionsOf
<1>6. ToSet(values) = {Value(o) : o \in Occurrences(w)}
  <2>1. ToSet(values) = {ValueAt[o] : o \in Occurrences(w)}  BY <1>3, <1>4, ListsElements
  <2>2. \A o \in Occurrences(w) : ValueAt[o] = Value(o)  BY <1>5, WordEmissions
  <2> QED BY <2>1, <2>2
<1> HIDE DEF values
<1>7. ASSUME app = "WordCounter"
      PROVE  reduce_fn(values) = <<to_string(Cardinality(Occurrences(w)))>>
  <2>1. MaxLength # 0  BY <1>4, OccurrenceLength
  <2>2. \A i \in 1 .. Len(values) : values[i] = "1"
    <3>1. \A i \in 1 .. Len(values) : values[i] \in ToSet(values)  BY <1>2 DEF ToSet
    <3> QED BY <1>6, <1>7, <3>1 DEF Value
  <2>3. reduce_fn(values) = WordCounterReduce(values)  BY <1>7 DEF reduce_fn
  <2>4. Cardinality(Occurrences(w)) = Len(values)  BY <1>2, <1>3, <1>4, ListsCount
  <2> QED BY <1>2, <2>1, <2>2, <2>3, <2>4, SumOfOnes
<1>8. ASSUME app = "InvertedIndex"
      PROVE  reduce_fn(values) = SetToSeq({to_string(o[1] - 1) : o \in Occurrences(w)})
  <2>1. {Value(o) : o \in Occurrences(w)} = {to_string(o[1] - 1) : o \in Occurrences(w)}
    BY <1>8 DEF Value
  <2> QED BY <1>6, <1>8, <2>1 DEF reduce_fn, InvertedIndexReduce
<1> QED BY <1>7, <1>8 DEF values

(* Whatever the application, the lines of a reducer's output are keys and  *)
(* texts.                                                                  *)
LEMMA ReducedType ==
  ASSUME InputOK, FilesOK, NEW r \in Reducers, FilesFor(r)
  PROVE  Reduced(r) \in SUBSET (Words \X Seq(Words))
<1> DEFINE a == Accumulated(r)
<1>1. a \in Seq(Words \X Words)  BY AccumulatedType
<1> SUFFICES ASSUME NEW w \in {p[1] : p \in ToSet(a)}
             PROVE  w \in Words /\ reduce_fn(ValuesOf(a, w)) \in Seq(Words)
  BY DEF Reduced
<1> DEFINE values == ValuesOf(a, w)
<1>2. w \in Words
  <2>1. PICK p \in ToSet(a) : w = p[1]  OBVIOUS
  <2> HIDE DEF a
  <2>2. p \in Words \X Words  BY <1>1, <2>1 DEF ToSet
  <2> QED BY <2>1, <2>2
<1>3. values \in Seq(Words)  BY <1>1, ValuesType
<1>4. ASSUME app = "WordCounter" PROVE reduce_fn(values) \in Seq(Words)
  <2>1. OneWordEmissions /\ TakesWords  BY <1>4, WordEmissions DEF TakesWords
  <2>2. PositionsWith(r, w) # {}  BY <2>1, AccumulatedKeys
  <2>3. reduce_fn(values) = <<to_string(Cardinality(Occurrences(w)))>>
    BY <1>4, <2>1, <2>2, ReduceWords
  <2>4. to_string(Cardinality(Occurrences(w))) \in Words  BY OccurrencesBound, NumberType
  <2> HIDE DEF values
  <2> QED BY <2>3, <2>4
<1>5. ASSUME app = "InvertedIndex" PROVE reduce_fn(values) \in Seq(Words)
  <2> HIDE DEF values
  <2>1. reduce_fn(values) = SetToSeq(ToSet(values))
    BY <1>5 DEF reduce_fn, InvertedIndexReduce
  <2>2. IsFiniteSet(ToSet(values)) /\ ToSet(values) \subseteq Words
    BY <1>3, ElementsOfSeq
  <2>3. SetToSeq(ToSet(values)) \in Seq(ToSet(values))  BY <2>2, SetToSeqType
  <2> QED BY <2>1, <2>2, <2>3
<1>6. ASSUME app \notin {"WordCounter", "InvertedIndex"}
      PROVE  reduce_fn(values) \in Seq(Words)
  <2> HIDE DEF values
  <2>1. reduce_fn(values) = values  BY <1>6 DEF reduce_fn
  <2> QED BY <1>3, <2>1
<1> QED BY <1>2, <1>4, <1>5, <1>6

-----------------------------------------------------------------------------
(* ReverseWeblinkGraph.                                                    *)

(* Its lines are links of a word to a word, or empty.                      *)
comma == ","
OneWordLink(l) == \E s, t \in STRING : s # comma /\ t # comma /\ l = <<s, comma, t>>
OneWordLinks ==
  "ReverseWeblinkGraph" \in Apps =>
    \A l \in Lines("ReverseWeblinkGraph") : l = <<>> \/ OneWordLink(l)

(* A link is emitted as its target and source, an empty line as an empty   *)
(* pair.                                                                   *)
LEMMA LinkShape ==
  ASSUME NEW s, NEW t, s # comma, t # comma, NEW n
  PROVE  LET l == <<s, comma, t>>
         IN  /\ IsLink(l) /\ Source(l) = <<s>> /\ Target(l) = <<t>>
             /\ ReverseWeblinkGraphMap(n, l) = << <<<<t>>, <<s>>>> >>
<1> DEFINE l == <<s, comma, t>>
<1>1. /\ DOMAIN l = {1, 2, 3} /\ Len(l) = 3 /\ 1 .. Len(l) = {1, 2, 3}
      /\ l[1] = s /\ l[2] = comma /\ l[3] = t
      /\ SubSeq(l, 1, 1) = <<s>> /\ SubSeq(l, 3, 3) = <<t>>
      /\ 1 .. 2 - 1 = {1} /\ 2 + 1 = 3 /\ Len(<<s>>) + 2 = 3
  BY ThreeElements
<1> HIDE DEF l
<1>2. \A i \in {1, 2, 3} : l[i] = comma <=> i = 2  BY <1>1
<1>3. IsLink(l) /\ Contains(l, comma)  BY <1>1 DEF IsLink, Contains, comma
<1>4. CommaAt(l) = 2  BY <1>1, <1>2 DEF CommaAt, comma
<1>5. FirstComma(l) = 2
  <2>1. \A j \in 1 .. 2 - 1 : l[j] # comma  BY <1>1
  <2> QED BY <1>1, <1>2, <2>1 DEF FirstComma, comma
<1>6. Source(l) = <<s>> /\ Target(l) = <<t>>
  <2>1. 2 - 1 = 1  OBVIOUS
  <2> QED BY <1>1, <1>4, <2>1 DEF Source, Target
<1>7. ReverseWeblinkGraphMap(n, l) = << <<<<t>>, <<s>>>> >>
  <2>1. 2 - 1 = 1  OBVIOUS
  <2> QED BY <1>1, <1>3, <1>5, <2>1 DEF ReverseWeblinkGraphMap, comma
<1> QED BY <1>3, <1>6, <1>7 DEF l

(* An empty line has no comma: the source and the target are empty.        *)
LEMMA EmptyLine ==
  ASSUME NEW n
  PROVE  ~IsLink(<<>>) /\ ReverseWeblinkGraphMap(n, <<>>) = << <<<<>>, <<>>>> >>
<1>1. ~Contains(<<>>, ",")  BY DEF Contains
<1>2. SubSeq(<<>>, Len(<<>>) + 2, Len(<<>>)) = <<>>  OBVIOUS
<1> QED BY <1>1, <1>2 DEF IsLink, ReverseWeblinkGraphMap

(* So every line of such an input is emitted in one of these two ways.     *)
LEMMA LineShape ==
  ASSUME InputOK, OneWordLinks, ~TakesWords, NEW l \in Lines(app), NEW n
  PROVE  \/ /\ IsLink(l) /\ map_fn(n, l) = << <<Target(l), Source(l)>> >>
            /\ Len(Target(l)) = 1 /\ Len(Source(l)) = 1
         \/ ~IsLink(l) /\ map_fn(n, l) = << <<<<>>, <<>>>> >>
<1>1. map_fn(n, l) = ReverseWeblinkGraphMap(n, l)  BY DEF TakesWords, map_fn
<1>2. app = "ReverseWeblinkGraph" /\ app \in Apps
  BY AppsAssumption DEF TakesWords, InputOK
<1>3. l = <<>> \/ OneWordLink(l)  BY <1>2 DEF OneWordLinks
<1>4. CASE l = <<>>  BY <1>1, <1>4, EmptyLine
<1>5. CASE OneWordLink(l)
  <2>1. PICK s, t : s # comma /\ t # comma /\ l = <<s, comma, t>>
    BY <1>5 DEF OneWordLink
  <2>2. /\ IsLink(l) /\ Source(l) = <<s>> /\ Target(l) = <<t>>
        /\ ReverseWeblinkGraphMap(n, l) = << <<<<t>>, <<s>>>> >>
    BY <2>1, LinkShape
  <2>3. Len(<<s>>) = 1 /\ Len(<<t>>) = 1  OBVIOUS
  <2> QED BY <1>1, <2>2, <2>3
<1> QED BY <1>3, <1>4, <1>5

(* The emissions of map_fn are one per line.                               *)
LEMMA LinkEmissions ==
  ASSUME InputOK, OneWordLinks, ~TakesWords
  PROVE  /\ Positions = {p \in (DOMAIN input) \X Nat : p[2] = 1}
         /\ \A p \in Positions :
              LET l == input[p[1]]
              IN  IF IsLink(l)
                  THEN /\ EmissionAt[p] = <<Target(l), Source(l)>>
                       /\ Len(Target(l)) = 1 /\ Len(Source(l)) = 1
                  ELSE EmissionAt[p] = <<<<>>, <<>>>>
         /\ OneWordEmissions
<1>1. \A i \in DOMAIN input :
        \/ /\ IsLink(input[i])
           /\ map_fn(i - 1, input[i]) = << <<Target(input[i]), Source(input[i])>> >>
           /\ Len(Target(input[i])) = 1 /\ Len(Source(input[i])) = 1
        \/ ~IsLink(input[i]) /\ map_fn(i - 1, input[i]) = << <<<<>>, <<>>>> >>
  BY InputType, LineShape
<1>2. \A x, j : j \in DOMAIN <<x>> <=> j = 1  OBVIOUS
<1>3. \A i \in DOMAIN input : \A j : j \in DOMAIN map_fn(i - 1, input[i]) <=> j = 1
  BY <1>1, <1>2
<1>4. Positions = {p \in (DOMAIN input) \X Nat : p[2] = 1}
  BY <1>3 DEF Positions
<1>5. \A x : <<x>>[1] = x  OBVIOUS
<1>6. ASSUME NEW p \in Positions
      PROVE  LET l == input[p[1]]
             IN  IF IsLink(l)
                 THEN /\ EmissionAt[p] = <<Target(l), Source(l)>>
                      /\ Len(Target(l)) = 1 /\ Len(Source(l)) = 1
                 ELSE EmissionAt[p] = <<<<>>, <<>>>>
  <2>1. p[1] \in DOMAIN input /\ p[2] = 1  BY <1>4
  <2>2. EmissionAt[p] = map_fn(p[1] - 1, input[p[1]])[1]  BY <2>1 DEF EmissionAt
  <2> QED BY <1>1, <1>5, <2>1, <2>2
<1>7. OneWordEmissions
  <2> SUFFICES ASSUME NEW p \in Positions
               PROVE  \/ Len(EmissionAt[p][1]) = 1 /\ Len(EmissionAt[p][2]) = 1
                      \/ Len(EmissionAt[p][1]) = 0 /\ Len(EmissionAt[p][2]) = 0
    BY DEF OneWordEmissions
  <2>1. \A x, y : <<x, y>>[1] = x /\ <<x, y>>[2] = y  OBVIOUS
  <2>2. Len(<<>>) = 0  OBVIOUS
  <2> QED BY <1>6, <2>1, <2>2
<1> QED BY <1>4, <1>6, <1>7

(* All applications: every key has one word, and so has every value.       *)
LEMMA AllOneWord ==
  ASSUME InputOK, OneWordLinks
  PROVE  OneWordEmissions
  BY WordEmissions, LinkEmissions

(* The sources of the links to w are what is emitted with w.               *)
LEMMA SourcesList ==
  ASSUME InputOK, OneWordLinks, ~TakesWords, NEW w
  PROVE  /\ ReferenceValues(<<w>>) \in Seq(Words)
         /\ Lists(ReferenceValues(<<w>>), EmissionsOf(w), ValueAt)
<1> DEFINE n == Len(input)
           To(i) == IsLink(input[i]) /\ Target(input[i]) = <<w>>
           ss == [i \in DOMAIN input |-> IF To(i) THEN Source(input[i]) ELSE <<>>]
           D == [i \in 1 .. n |-> {p \in EmissionsOf(w) : p[1] = i}]
<1>1. DOMAIN input = 1 .. n /\ n \in Nat  BY InputType
<1>2. ReferenceValues(<<w>>) = FlattenSeq(ss)  BY DEF ReferenceValues, TakesWords
<1>3. ASSUME NEW i \in 1 .. n
      PROVE  ss[i] \in Seq(Words) /\ Lists(ss[i], D[i], ValueAt)
  <2> DEFINE p == <<i, 1>>
  <2>1. p \in Positions /\ p[1] = i  BY <1>1, LinkEmissions
  <2>2. D[i] = IF p \in EmissionsOf(w) THEN {p} ELSE {}
    <3>1. \A q \in Positions : q[1] = i => q = p  BY <1>1, LinkEmissions
    <3> QED BY <3>1 DEF EmissionsOf
  <2>3. EmissionAt[p] \in Emission  BY <2>1, EmissionType
  <2> HIDE DEF p, D
  <2>4. p \in EmissionsOf(w) <=> EmissionAt[p][1] = <<w>>  BY <2>1 DEF EmissionsOf
  <2>5. CASE To(i)
    <3>1. ss[i] = Source(input[i])  BY <1>1, <2>5
    <3>2. EmissionAt[p] = <<<<w>>, Source(input[i])>> /\ Len(Source(input[i])) = 1
      BY <2>1, <2>5, LinkEmissions
    <3>3. Source(input[i]) \in Seq(Words)  BY <2>3, <3>2 DEF Emission
    <3>4. ValueAt[p] = Source(input[i])[1]  BY <2>1, <3>2 DEF ValueAt, PairAt
    <3> HIDE DEF ss
    <3>5. ss[i] = <<ValueAt[p]>>  BY <3>1, <3>2, <3>3, <3>4, OneElement
    <3>6. D[i] = {p}  BY <2>2, <2>4, <3>2
    <3> QED BY <3>1, <3>3, <3>5, <3>6, ListsOne
  <2>6. CASE ~To(i)
    <3>1. ss[i] = <<>>  BY <1>1, <2>6
    <3>2. EmissionAt[p][1] # <<w>>
      <4>1. CASE IsLink(input[i])
        <5>1. EmissionAt[p] = <<Target(input[i]), Source(input[i])>>
          BY <2>1, <4>1, LinkEmissions
        <5> QED BY <2>6, <4>1, <5>1
      <4>2. CASE ~IsLink(input[i])
        <5>1. EmissionAt[p] = <<<<>>, <<>>>>  BY <2>1, <4>2, LinkEmissions
        <5>2. <<>> # <<w>>  OBVIOUS
        <5> QED BY <5>1, <5>2
      <4> QED BY <4>1, <4>2
    <3>3. <<>> \in Seq(Words)  OBVIOUS
    <3>4. D[i] = {}  BY <2>2, <2>4, <3>2
    <3> HIDE DEF ss
    <3> QED BY <3>1, <3>3, <3>4, ListsNothing
  <2> QED BY <2>5, <2>6
<1>4. \A i, j \in 1 .. n : i # j => D[i] \cap D[j] = {}  OBVIOUS
<1>5. UNION {D[i] : i \in 1 .. n} = EmissionsOf(w)
  <2>1. \A p \in EmissionsOf(w) : p[1] \in 1 .. n  BY <1>1 DEF EmissionsOf, Positions
  <2>2. \A p \in EmissionsOf(w) : p \in D[p[1]]  BY <2>1
  <2>3. \A i \in 1 .. n : D[i] \subseteq EmissionsOf(w)  OBVIOUS
  <2> HIDE DEF D
  <2> QED BY <2>1, <2>2, <2>3
<1>6. ss = [i \in 1 .. n |-> ss[i]]  BY <1>1
<1> HIDE DEF ss, n, D
<1>7. ss \in Seq(Seq(Words)) /\ Len(ss) = n  BY <1>1, <1>3, <1>6, SeqOfValues
<1>8. Lists(FlattenSeq(ss), UNION {D[i] : i \in 1 .. n}, ValueAt)
  BY <1>3, <1>4, <1>7, ListsFlatten
<1>9. FlattenSeq(ss) \in Seq(Words)  BY <1>7, FlattenType
<1> QED BY <1>2, <1>5, <1>8, <1>9

-----------------------------------------------------------------------------
(* The output is what the reference says.                                  *)

(* The reference has a key for every word that is emitted as a key.        *)
LEMMA ReferenceKeysEmitted ==
  ASSUME InputOK, OneWordLinks
  PROVE  /\ \A key \in ReferenceKeys : \E w : key = <<w>>
         /\ \A w : <<w>> \in ReferenceKeys <=> EmissionsOf(w) # {}
<1>1. CASE TakesWords
  <2> DEFINE All == UNION {ToSet(l) : l \in ToSet(input)}
  <2>1. ReferenceKeys = {<<w>> : w \in All}  BY <1>1 DEF ReferenceKeys, TakesWords
  <2>2. \A w : w \in All <=> \E i \in DOMAIN input : \E j \in DOMAIN input[i] : input[i][j] = w
    BY DEF ToSet
  <2> HIDE DEF All
  <2>3. Positions = {p \in (DOMAIN input) \X Nat : p[2] \in DOMAIN input[p[1]]}
    BY <1>1, WordEmissions
  <2>4. \A i \in DOMAIN input : \A j \in DOMAIN input[i] :
          <<i, j>> \in Positions /\ WordAt(<<i, j>>) = input[i][j]
    <3> SUFFICES ASSUME NEW i \in DOMAIN input, NEW j \in DOMAIN input[i]
                 PROVE  <<i, j>> \in Positions /\ WordAt(<<i, j>>) = input[i][j]
      OBVIOUS
    <3>1. input[i] \in Seq(Words)  BY InputType
    <3>2. j \in Nat  BY <3>1
    <3> QED BY <2>3, <3>2 DEF WordAt
  <2>5. ASSUME NEW w PROVE EmissionsOf(w) = {p \in Positions : WordAt(p) = w}
    BY <1>1, WordEmissions DEF EmissionsOf
  <2>6. ASSUME NEW w PROVE w \in All <=> EmissionsOf(w) # {}
    <3>1. ASSUME w \in All PROVE EmissionsOf(w) # {}
      <4>1. PICK i \in DOMAIN input : \E j \in DOMAIN input[i] : input[i][j] = w
        BY <2>2, <3>1
      <4>2. PICK j \in DOMAIN input[i] : input[i][j] = w  BY <4>1
      <4>3. <<i, j>> \in EmissionsOf(w)  BY <2>4, <2>5, <4>2
      <4> QED BY <4>3
    <3>2. ASSUME NEW p \in EmissionsOf(w) PROVE w \in All
      <4>1. p \in Positions /\ WordAt(p) = w  BY <2>5
      <4>2. p[1] \in DOMAIN input /\ p[2] \in DOMAIN input[p[1]]  BY <2>3, <4>1
      <4> QED BY <2>2, <4>1, <4>2 DEF WordAt
    <3> QED BY <3>1, <3>2
  <2>7. ASSUME NEW w PROVE <<w>> \in {<<v>> : v \in All} <=> w \in All
    <3>1. \A v : <<v>> = <<w>> => v = w  OBVIOUS
    <3> QED BY <3>1
  <2> QED BY <2>1, <2>6, <2>7
<1>2. CASE ~TakesWords
  <2>1. ReferenceKeys = {Target(l) : l \in {l \in ToSet(input) : IsLink(l)}}
    BY <1>2, AppsAssumption DEF ReferenceKeys, TakesWords, InputOK
  <2> DEFINE p(i) == <<i, 1>>
  <2>2. \A i \in DOMAIN input : p(i) \in Positions /\ p(i)[1] = i  BY <1>2, LinkEmissions
  <2>3. \A q \in Positions : q[1] \in DOMAIN input  BY DEF Positions
  <2>4. \A q \in Positions :
          LET l == input[q[1]]
          IN  IF IsLink(l) THEN EmissionAt[q][1] = Target(l) /\ Len(Target(l)) = 1
                           ELSE EmissionAt[q][1] = <<>>
    <3>1. \A x, y : <<x, y>>[1] = x  OBVIOUS
    <3> QED BY <1>2, <3>1, LinkEmissions
  <2>5. \A key : key \in ReferenceKeys <=>
               \E i \in DOMAIN input : IsLink(input[i]) /\ key = Target(input[i])
    BY <2>1 DEF ToSet
  <2>6. ASSUME NEW w PROVE <<w>> \in ReferenceKeys <=> EmissionsOf(w) # {}
    <3>1. <<>> # <<w>>  OBVIOUS
    <3>2. ASSUME NEW i \in DOMAIN input, IsLink(input[i]), <<w>> = Target(input[i])
          PROVE  p(i) \in EmissionsOf(w)
      <4> HIDE DEF p
      <4> QED BY <2>2, <2>4, <3>2 DEF EmissionsOf
    <3>3. ASSUME NEW q \in EmissionsOf(w)
          PROVE  q[1] \in DOMAIN input /\ IsLink(input[q[1]]) /\ <<w>> = Target(input[q[1]])
      BY <2>3, <2>4, <3>1 DEF EmissionsOf
    <3> HIDE DEF p
    <3> QED BY <2>5, <3>2, <3>3
  <2>7. ASSUME NEW key \in ReferenceKeys PROVE \E w : key = <<w>>
    <3>1. PICK i \in DOMAIN input : IsLink(input[i]) /\ key = Target(input[i])  BY <2>5
    <3>2. EmissionAt[p(i)] \in Emission  BY <2>2, EmissionType
    <3>3. EmissionAt[p(i)][1] = key /\ Len(key) = 1
      <4> HIDE DEF p
      <4> QED BY <2>2, <2>4, <3>1
    <3> HIDE DEF p
    <3>4. key \in Seq(Words)  BY <3>2, <3>3, KeysType DEF Emission
    <3> QED BY <3>3, <3>4, OneElement
  <2> QED BY <2>6, <2>7
<1> QED BY <1>1, <1>2

(* And the values that the reducer of a key writes are the reference's,    *)
(* but for their order.                                                    *)
LEMMA ReducedValues ==
  ASSUME InputOK, FilesOK, OneWordLinks, NEW r \in Reducers, FilesFor(r),
         NEW w, PositionsWith(r, w) # {}
  PROVE  ToBag(reduce_fn(ValuesOf(Accumulated(r), w))) = ToBag(ReferenceValues(<<w>>))
<1> DEFINE values == ValuesOf(Accumulated(r), w)
<1>1. CASE TakesWords
  <2>1. <<w>>[1] = w  OBVIOUS
  <2>2. reduce_fn(values) = ReferenceValues(<<w>>)
    <3>1. CASE app = "WordCounter"
      BY <1>1, <2>1, <3>1, ReduceWords DEF ReferenceValues
    <3>2. CASE app = "InvertedIndex"
      BY <1>1, <2>1, <3>2, ReduceWords DEF ReferenceValues
    <3> QED BY <1>1, <3>1, <3>2 DEF TakesWords
  <2> QED BY <2>2
<1>2. CASE ~TakesWords
  <2>1. reduce_fn(values) = values  BY <1>2 DEF reduce_fn, TakesWords
  <2>2. values \in Seq(Words)  BY AccumulatedType, ValuesType
  <2>3. Lists(values, PositionsWith(r, w), ValueAt)  BY AllOneWord, ValuesLists
  <2>4. PositionsWith(r, w) = EmissionsOf(w)  BY AllOneWord, KeyIsSentToOne
  <2>5. /\ ReferenceValues(<<w>>) \in Seq(Words)
        /\ Lists(ReferenceValues(<<w>>), EmissionsOf(w), ValueAt)
    BY <1>2, SourcesList
  <2> HIDE DEF values
  <2>6. ToBag(values) = ToBag(ReferenceValues(<<w>>))
    BY <2>2, <2>3, <2>4, <2>5, ListsSameBag
  <2> QED BY <2>1, <2>6 DEF values
<1> QED BY <1>1, <1>2

-----------------------------------------------------------------------------
(* The invariant.                                                          *)

(* A finished mapper's files are complete, whatever was in them before; a  *)
(* reducer finishes when all mappers have, with what it made of them.      *)
MappedIsWritten == \A m \in mapped : \A r \in Reducers : temp[m][r] = Written(m, r)
ReducedIsComplete == reduced # {} => mapped = Mappers
OutputIsReduced == \A r \in reduced : output[r] = Reduced(r)

IInv ==
  /\ InputOK /\ FilesOK
  /\ output \in [Reducers -> SUBSET (Words \X Seq(Words))]
  /\ mapped \subseteq Mappers /\ reduced \subseteq Reducers
  /\ crashes \in 0 .. MaxCrashes
  /\ MappedIsWritten /\ ReducedIsComplete /\ OutputIsReduced

(* The invariant holds whatever an earlier job left in the files.          *)
LEMMA InitIInv == Init => IInv
<1> SUFFICES ASSUME Init PROVE IInv  OBVIOUS
<1>1. InputOK  BY DEF Init, InputOK
<1>2. FilesOK
  <2>1. PICK left \in {<<>>} \cup
                       {e[1] \o e[2] : e \in UNION {ToSet(map_fn(0, l)) : l \in Lines(app)}} :
          temp = [m \in Mappers |-> [r \in Reducers |-> left]]
    BY DEF Init
  <2>2. left \in Seq(Words)
    <3>1. CASE left = <<>>  BY <3>1
    <3>2. CASE left # <<>>
      <4>1. PICK l \in Lines(app) : \E e \in ToSet(map_fn(0, l)) : left = e[1] \o e[2]
        BY <3>2
      <4>2. PICK e \in ToSet(map_fn(0, l)) : left = e[1] \o e[2]  BY <4>1
      <4>3. 0 \in 0 .. MaxRecords - 1  BY SizeAssumption
      <4>4. map_fn(0, l) \in Seq(Seq(Words) \X Seq(Words))  BY <1>1, <4>3, MapTexts
      <4>5. e[1] \in Seq(Words) /\ e[2] \in Seq(Words)  BY <4>4 DEF ToSet
      <4> QED BY <4>2, <4>5, ConcatProperties
    <3> QED BY <3>1, <3>2
  <2> QED BY <2>1, <2>2 DEF FilesOK
<1>3. /\ output \in [Reducers -> SUBSET (Words \X Seq(Words))]
      /\ mapped = {} /\ reduced = {} /\ crashes = 0
  BY DEF Init
<1>4. crashes \in 0 .. MaxCrashes  BY <1>3, SizeAssumption
<1> QED BY <1>1, <1>2, <1>3, <1>4
     DEF IInv, MappedIsWritten, ReducedIsComplete, OutputIsReduced

(* What a mapper writes depends only on the job, which no task changes.    *)
LEMMA WrittenStays ==
  ASSUME UNCHANGED <<app, input, hash>>, NEW m, NEW r
  PROVE  Written(m, r)' = Written(m, r)
  BY DEF Written, Emitted, map_fn, HashInRange

(* The words and the keys of the job stay the same.                        *)
LEMMA JobStays ==
  ASSUME UNCHANGED <<app, input, hash>>
  PROVE  Words' = Words /\ (InputOK' <=> InputOK)
  BY DEF Words, InputOK, Keys, map_fn

(* What a reducer makes of its files depends on these and the job.         *)
LEMMA ReducedStays ==
  ASSUME UNCHANGED <<app, input, hash, temp>>, NEW r
  PROVE  Reduced(r)' = Reduced(r)
  BY DEF Reduced, Accumulated, ValuesOf, reduce_fn

(* A mapper that runs, to the end or not, changes its own files only, and  *)
(* leaves texts in them.                                                   *)
LEMMA MapperFiles ==
  ASSUME FilesOK, NEW m \in Mappers, NEW w, w \in [Reducers -> Seq(Words)],
         temp' = [temp EXCEPT ![m] = w]
  PROVE  /\ temp' \in [Mappers -> [Reducers -> Seq(Words)]]
         /\ \A q \in Mappers \ {m} : temp'[q] = temp[q]
         /\ temp'[m] = w
<1> DEFINE F == [Reducers -> Seq(Words)]
<1>1. temp \in [Mappers -> F] /\ w \in F  BY DEF FilesOK
<1> HIDE DEF F
<1>2. temp' \in [Mappers -> F]  BY <1>1
<1>3. \A q \in Mappers \ {m} : temp'[q] = temp[q]  BY <1>1
<1>4. temp'[m] = w  BY <1>1
<1> QED BY <1>2, <1>3, <1>4 DEF F

(* A mapper truncates its files before it writes them, and no reducer has  *)
(* read them yet.                                                          *)
LEMMA MapTaskStep ==
  ASSUME IInv, NEW m \in Mappers, MapTask(m)
  PROVE  IInv'
<1> USE DEF IInv
<1> DEFINE w == [r \in Reducers |-> Opened(temp[m][r]) \o Written(m, r)]
<1>1. /\ m \notin mapped /\ mapped' = mapped \cup {m}
      /\ UNCHANGED <<app, input, hash, output, reduced, crashes>>
      /\ temp' = [temp EXCEPT ![m] = w]
  BY DEF MapTask
<1>2. \A r \in Reducers : w[r] = Written(m, r) /\ w[r] \in Seq(Words)
  <2> TAKE r \in Reducers
  <2>1. Written(m, r) \in Seq(Words)  BY WrittenType
  <2>2. \A t \in Seq(Words) : <<>> \o t = t  BY ConcatEmptySeq
  <2> QED BY <2>1, <2>2 DEF Opened
<1>3. w \in [Reducers -> Seq(Words)]  BY <1>2
<1> HIDE DEF w
<1>4. Words' = Words /\ InputOK'  BY <1>1, JobStays
<1>5. /\ temp' \in [Mappers -> [Reducers -> Seq(Words)]]
      /\ \A q \in Mappers \ {m} : temp'[q] = temp[q]
      /\ temp'[m] = w
  BY <1>1, <1>3, MapperFiles
<1>6. FilesOK'  BY <1>4, <1>5 DEF FilesOK
<1>7. MappedIsWritten'
  <2> SUFFICES ASSUME NEW q \in mapped', NEW r \in Reducers
               PROVE  temp'[q][r] = Written(q, r)'
    BY DEF MappedIsWritten
  <2>1. Written(q, r)' = Written(q, r)  BY <1>1, WrittenStays
  <2>2. CASE q = m  BY <1>2, <1>5, <2>1, <2>2
  <2>3. CASE q # m
    <3>1. q \in mapped /\ q \in Mappers \ {m}  BY <1>1, <2>3
    <3> QED BY <1>5, <2>1, <3>1 DEF MappedIsWritten
  <2> QED BY <2>2, <2>3
<1>8. reduced = {}  BY <1>1 DEF ReducedIsComplete
<1>9. ReducedIsComplete' /\ OutputIsReduced'
  BY <1>1, <1>8 DEF ReducedIsComplete, OutputIsReduced
<1> QED BY <1>1, <1>4, <1>6, <1>7, <1>9

(* A mapper that dies is not done, so no reducer has run.                  *)
LEMMA MapCrashStep ==
  ASSUME IInv, NEW m \in Mappers, MapCrash(m)
  PROVE  IInv'
<1> USE DEF IInv
<1>1. /\ m \notin mapped /\ crashes < MaxCrashes /\ crashes' = crashes + 1
      /\ UNCHANGED <<app, input, hash, output, mapped, reduced>>
  BY DEF MapCrash
<1>2. PICK w \in [Reducers -> Seq(Words)] : temp' = [temp EXCEPT ![m] = w]
  <2>1. \A r \in Reducers : temp[m][r] \in Seq(Words)  BY DEF FilesOK
  <2>2. <<>> \in Seq(Words)  OBVIOUS
  <2>3. CASE \E opened \in Reducers :
               temp' = [temp EXCEPT ![m] =
                          [r \in Reducers |-> IF r < opened THEN Opened(@[r]) ELSE @[r]]]
    <3>1. PICK opened \in Reducers :
            temp' = [temp EXCEPT ![m] =
                       [r \in Reducers |-> IF r < opened THEN Opened(@[r]) ELSE @[r]]]
      BY <2>3
    <3> DEFINE w == [r \in Reducers |-> IF r < opened THEN Opened(temp[m][r]) ELSE temp[m][r]]
    <3>2. w \in [Reducers -> Seq(Words)]  BY <2>1, <2>2 DEF Opened
    <3>3. temp' = [temp EXCEPT ![m] = w]  BY <3>1
    <3> HIDE DEF w
    <3> QED BY <3>2, <3>3
  <2>4. CASE \E cut \in [Reducers -> 0 .. 2 * MaxNumber] :
               /\ \A r \in Reducers : cut[r] =< Len(Written(m, r))
               /\ temp' = [temp EXCEPT ![m] =
                    [r \in Reducers |-> Opened(@[r]) \o SubSeq(Written(m, r), 1, cut[r])]]
    <3>1. PICK cut \in [Reducers -> 0 .. 2 * MaxNumber] :
            /\ \A r \in Reducers : cut[r] =< Len(Written(m, r))
            /\ temp' = [temp EXCEPT ![m] =
                 [r \in Reducers |-> Opened(@[r]) \o SubSeq(Written(m, r), 1, cut[r])]]
      BY <2>4
    <3> DEFINE w == [r \in Reducers |-> Opened(temp[m][r]) \o SubSeq(Written(m, r), 1, cut[r])]
    <3>2. ASSUME NEW r \in Reducers PROVE w[r] \in Seq(Words)
      <4> DEFINE t == Written(m, r)
      <4>1. t \in Seq(Words) /\ cut[r] \in Int /\ cut[r] =< Len(t)
        BY <3>1, WrittenType
      <4> HIDE DEF t
      <4>2. \A i \in 1 .. cut[r] : t[i] \in Words  BY <4>1
      <4>3. SubSeq(t, 1, cut[r]) \in Seq(Words)  BY <4>1, <4>2, SubSeqProperties
      <4>4. w[r] = <<>> \o SubSeq(t, 1, cut[r])  BY DEF Opened, t
      <4> QED BY <2>2, <4>3, <4>4, ConcatProperties
    <3>3. temp' = [temp EXCEPT ![m] = w]  BY <3>1
    <3>4. w \in [Reducers -> Seq(Words)]  BY <3>2
    <3> HIDE DEF w
    <3> QED BY <3>3, <3>4
  <2> QED BY <2>3, <2>4 DEF MapCrash
<1>3. Words' = Words /\ InputOK'  BY <1>1, JobStays
<1>4. /\ temp' \in [Mappers -> [Reducers -> Seq(Words)]]
      /\ \A q \in Mappers \ {m} : temp'[q] = temp[q]
  BY <1>2, MapperFiles
<1>5. FilesOK'  BY <1>3, <1>4 DEF FilesOK
<1>6. MappedIsWritten'
  <2> SUFFICES ASSUME NEW q \in mapped', NEW r \in Reducers
               PROVE  temp'[q][r] = Written(q, r)'
    BY DEF MappedIsWritten
  <2>1. Written(q, r)' = Written(q, r)  BY <1>1, WrittenStays
  <2>2. q \in mapped /\ q \in Mappers \ {m}  BY <1>1
  <2> QED BY <1>4, <2>1, <2>2 DEF MappedIsWritten
<1>7. reduced = {}  BY <1>1 DEF ReducedIsComplete
<1>8. ReducedIsComplete' /\ OutputIsReduced'
  BY <1>1, <1>7 DEF ReducedIsComplete, OutputIsReduced
<1>9. crashes' \in 0 .. MaxCrashes  BY <1>1, SizeAssumption
<1> QED BY <1>1, <1>3, <1>5, <1>6, <1>8, <1>9

(* When all mappers are done, a reducer finds everything in its files.     *)
LEMMA AllMapped ==
  ASSUME IInv, mapped = Mappers, NEW r \in Reducers
  PROVE  FilesFor(r) /\ Reduced(r) \in SUBSET (Words \X Seq(Words))
<1>1. FilesFor(r)  BY DEF IInv, MappedIsWritten, FilesFor
<1> QED BY <1>1, ReducedType DEF IInv

(* A reducer that finishes has complete files to read, and replaces what   *)
(* its output file held.                                                   *)
LEMMA ReduceTaskStep ==
  ASSUME IInv, NEW r \in Reducers, ReduceTask(r)
  PROVE  IInv'
<1> USE DEF IInv
<1>1. /\ mapped = Mappers /\ reduced' = reduced \cup {r}
      /\ output' = [output EXCEPT ![r] = Reduced(r)]
      /\ UNCHANGED <<app, input, hash, temp, mapped, crashes>>
  BY DEF ReduceTask
<1>2. Reduced(r) \in SUBSET (Words \X Seq(Words))  BY <1>1, AllMapped
<1>3. Words' = Words /\ InputOK' /\ FilesOK'  BY <1>1, JobStays DEF FilesOK
<1>4. output' \in [Reducers -> SUBSET (Words' \X Seq(Words'))]  BY <1>1, <1>2, <1>3
<1>5. MappedIsWritten'
  <2>1. \A q, s : Written(q, s)' = Written(q, s)  BY <1>1, WrittenStays
  <2> QED BY <1>1, <2>1 DEF MappedIsWritten
<1>6. OutputIsReduced'
  <2>1. \A s : Reduced(s)' = Reduced(s)  BY <1>1, ReducedStays
  <2> QED BY <1>1, <2>1 DEF OutputIsReduced
<1>7. ReducedIsComplete'  BY <1>1 DEF ReducedIsComplete
<1> QED BY <1>1, <1>3, <1>4, <1>5, <1>6, <1>7

(* A reducer that dies has some of the lines in its file, and is not done. *)
LEMMA ReduceCrashStep ==
  ASSUME IInv, NEW r \in Reducers, ReduceCrash(r)
  PROVE  IInv'
<1> USE DEF IInv
<1>1. /\ mapped = Mappers /\ r \notin reduced
      /\ crashes < MaxCrashes /\ crashes' = crashes + 1
      /\ UNCHANGED <<app, input, hash, temp, mapped, reduced>>
  BY DEF ReduceCrash
<1>2. PICK lines \in SUBSET Reduced(r) : output' = [output EXCEPT ![r] = lines]
  BY DEF ReduceCrash
<1>3. lines \in SUBSET (Words \X Seq(Words))  BY <1>1, AllMapped
<1>4. Words' = Words /\ InputOK' /\ FilesOK'  BY <1>1, JobStays DEF FilesOK
<1>5. output' \in [Reducers -> SUBSET (Words' \X Seq(Words'))]  BY <1>2, <1>3, <1>4
<1>6. MappedIsWritten'
  <2>1. \A q, s : Written(q, s)' = Written(q, s)  BY <1>1, WrittenStays
  <2> QED BY <1>1, <2>1 DEF MappedIsWritten
<1>7. OutputIsReduced'
  <2>1. \A s : Reduced(s)' = Reduced(s)  BY <1>1, ReducedStays
  <2>2. \A s \in reduced : output'[s] = output[s]  BY <1>1, <1>2
  <2> QED BY <1>1, <2>1, <2>2 DEF OutputIsReduced
<1>8. ReducedIsComplete'  BY <1>1 DEF ReducedIsComplete
<1>9. crashes' \in 0 .. MaxCrashes  BY <1>1, SizeAssumption
<1> QED BY <1>1, <1>4, <1>5, <1>6, <1>7, <1>8, <1>9

(* Every step keeps the invariant.                                         *)
LEMMA NextIInv == IInv /\ [Next]_vars => IInv'
<1> SUFFICES ASSUME IInv, [Next]_vars PROVE IInv'  OBVIOUS
<1>1. ASSUME NEW m \in Mappers, MapTask(m) PROVE IInv'  BY <1>1, MapTaskStep
<1>2. ASSUME NEW m \in Mappers, MapCrash(m) PROVE IInv'  BY <1>2, MapCrashStep
<1>3. ASSUME NEW r \in Reducers, ReduceTask(r) PROVE IInv'  BY <1>3, ReduceTaskStep
<1>4. ASSUME NEW r \in Reducers, ReduceCrash(r) PROVE IInv'  BY <1>4, ReduceCrashStep
<1>5. CASE UNCHANGED vars
  <2>1. UNCHANGED <<app, input, hash, temp, output, mapped, reduced, crashes>>
    BY <1>5 DEF vars
  <2>2. Words' = Words /\ InputOK'  BY <2>1, JobStays DEF IInv
  <2>3. \A q, s : Written(q, s)' = Written(q, s)  BY <2>1, WrittenStays
  <2>4. \A s : Reduced(s)' = Reduced(s)  BY <2>1, ReducedStays
  <2> QED BY <2>1, <2>2, <2>3, <2>4
       DEF IInv, FilesOK, MappedIsWritten, ReducedIsComplete, OutputIsReduced
<1> QED BY <1>1, <1>2, <1>3, <1>4, <1>5 DEF Next

(* So it always holds.                                                     *)
LEMMA Invariant == SafeSpec => []IInv
  BY InitIInv, NextIInv, PTL DEF SafeSpec

-----------------------------------------------------------------------------
(* Theorems.                                                               *)

(* Whatever an application emits and whatever dies, the files hold texts   *)
(* and the output keys with texts: the counts that reduce_fn writes are in *)
(* range, and the values it writes are of its input.                       *)
THEOREM DataTypeCorrect == SafeSpec => []TypeOK
<1>1. IInv => TypeOK
  <2> SUFFICES ASSUME IInv PROVE TypeOK  OBVIOUS
  <2>1. input \in Seq(Lines(app))  BY InputType DEF IInv
  <2> QED BY <2>1 DEF IInv, InputOK, FilesOK, TypeOK
<1> QED BY <1>1, Invariant, PTL

(* What the reducers wrote is the reference, once all are done.            *)
LEMMA ReducedIsReference ==
  ASSUME OneWordLinks, IInv
  PROVE  OutputIsReference
<1> SUFFICES ASSUME reduced = Reducers PROVE
      /\ \A r \in Reducers : \A l \in output[r] : <<l[1]>> \in ReferenceKeys
      /\ \A key \in ReferenceKeys :
           \E r \in Reducers : \E l \in output[r] :
             /\ <<l[1]>> = key /\ ToBag(l[2]) = ToBag(ReferenceValues(key))
             /\ \A s \in Reducers \ {r} : \A k \in output[s] : k[1] # l[1]
  BY DEF OutputIsReference
<1>1. InputOK /\ FilesOK  BY DEF IInv
<1>2. Reducers # {}
  <2>1. 0 \in Reducers  BY SizeAssumption DEF Reducers
  <2> QED BY <2>1
<1>3. \A r \in Reducers : FilesFor(r) /\ output[r] = Reduced(r)
  <2>1. mapped = Mappers  BY <1>2 DEF IInv, ReducedIsComplete
  <2> QED BY <2>1, AllMapped DEF IInv, OutputIsReduced
<1>4. OneWordEmissions  BY <1>1, AllOneWord
<1> DEFINE Line(r, w) == <<w, reduce_fn(ValuesOf(Accumulated(r), w))>>
<1>5. \A r \in Reducers : \A w :
        PositionsWith(r, w) # {} <=> w \in {p[1] : p \in ToSet(Accumulated(r))}
  BY <1>1, <1>3, <1>4, AccumulatedKeys
<1>6. \A r \in Reducers : /\ \A l \in output[r] : PositionsWith(r, l[1]) # {}
                          /\ \A w : PositionsWith(r, w) # {} => Line(r, w) \in output[r]
  <2> TAKE r \in Reducers
  <2>1. output[r] = {Line(r, w) : w \in {p[1] : p \in ToSet(Accumulated(r))}}
    BY <1>3 DEF Reduced
  <2>2. \A w : Line(r, w)[1] = w  OBVIOUS
  <2> HIDE DEF Line
  <2> QED BY <1>5, <2>1, <2>2
<1>7. \A r \in Reducers : \A w :
        PositionsWith(r, w) = IF ReducerOf(w) = r THEN EmissionsOf(w) ELSE {}
  BY <1>1, <1>4, KeyIsSentToOne
<1>8. /\ \A key \in ReferenceKeys : \E w : key = <<w>>
      /\ \A w : <<w>> \in ReferenceKeys <=> EmissionsOf(w) # {}
  BY <1>1, ReferenceKeysEmitted
<1>9. ASSUME NEW r \in Reducers, NEW l \in output[r] PROVE <<l[1]>> \in ReferenceKeys
  BY <1>6, <1>7, <1>8
<1>10. ASSUME NEW key \in ReferenceKeys
       PROVE  \E r \in Reducers : \E l \in output[r] :
                /\ <<l[1]>> = key /\ ToBag(l[2]) = ToBag(ReferenceValues(key))
                /\ \A s \in Reducers \ {r} : \A k \in output[s] : k[1] # l[1]
  <2>1. PICK w : key = <<w>>  BY <1>8
  <2>2. EmissionsOf(w) # {}  BY <1>8, <2>1
  <2> DEFINE r == ReducerOf(w)  l == Line(r, w)
  <2>3. r \in Reducers  BY <1>1, <2>2, ReducerOfKey
  <2> HIDE DEF r
  <2>4. PositionsWith(r, w) # {}  BY <1>7, <2>2, <2>3 DEF r
  <2>5. l \in output[r]  BY <1>6, <2>3, <2>4
  <2>6. l[1] = w /\ l[2] = reduce_fn(ValuesOf(Accumulated(r), w))  OBVIOUS
  <2> HIDE DEF l, Line
  <2>7. ToBag(l[2]) = ToBag(ReferenceValues(key))
    BY <1>1, <1>3, <2>1, <2>3, <2>4, <2>6, ReducedValues
  <2>8. \A s \in Reducers \ {r} : \A k \in output[s] : k[1] # l[1]
    <3> SUFFICES ASSUME NEW s \in Reducers \ {r}, NEW k \in output[s], k[1] = w
                 PROVE  FALSE
      BY <2>6
    <3>1. PositionsWith(s, w) # {}  BY <1>6
    <3> QED BY <1>7, <3>1 DEF r
  <2> QED BY <2>1, <2>3, <2>5, <2>6, <2>7, <2>8
<1> QED BY <1>9, <1>10

(* The output is right for every input, spread over any number of mappers  *)
(* and reducers by any hash, whatever an earlier job left in the files and *)
(* whichever tasks died half-way; for ReverseWeblinkGraph, if every line   *)
(* of the input is empty or links one word to one word.                    *)
THEOREM OutputCorrect ==
  ASSUME OneWordLinks
  PROVE  SafeSpec => []OutputIsReference
<1>1. IInv => OutputIsReference  BY ReducedIsReference
<1> QED BY <1>1, Invariant, PTL

(* The values that a word counting reducer accumulates are all "1".        *)
LEMMA CountsOnes ==
  ASSUME IInv, mapped = Mappers, app = "WordCounter", NEW r \in Reducers,
         NEW p \in ToSet(Accumulated(r))
  PROVE  IsNumber(p[2])
<1>1. InputOK /\ FilesOK /\ FilesFor(r)  BY AllMapped DEF IInv
<1>2. TakesWords  BY DEF TakesWords
<1>3. OneWordEmissions  BY <1>1, <1>2, WordEmissions
<1>4. ToSet(Accumulated(r)) = {PairAt[q] : q \in PositionsFor(r)}
  BY <1>1, <1>3, AccumulatedLists, ListsElements
<1>5. PICK q \in Positions : p = PairAt[q]  BY <1>4 DEF PositionsFor
<1>6. p[2] = "1"
  <2>1. p[2] = ValueAt[q]  BY <1>5 DEF ValueAt
  <2>2. ValueAt[q] = Value(q)  BY <1>1, <1>2, WordEmissions
  <2> QED BY <2>1, <2>2 DEF Value
<1>7. MaxLength # 0
  <2>1. q[1] \in DOMAIN input /\ q[2] \in DOMAIN input[q[1]]
    BY <1>1, <1>2, WordEmissions
  <2>2. input[q[1]] \in Seq(Words) /\ Len(input[q[1]]) \in 0 .. MaxLength
    BY <1>1, <2>1, InputType
  <2> QED BY <2>1, <2>2
<1>8. 1 \in 0 .. MaxNumber /\ to_string(1) = "1"  BY <1>7, NumberBound
<1> QED BY <1>6, <1>8 DEF IsNumber

(* No reducer of any application throws, for every input, hash and number  *)
(* of workers, whatever the files held before.                             *)
THEOREM ReducersDoNotThrow == SafeSpec => []NoReducerThrows
<1>1. IInv => NoReducerThrows  BY CountsOnes DEF NoReducerThrows, CanReduce
<1> QED BY <1>1, Invariant, PTL

=============================================================================
