--------------------------- MODULE MapReduceData ---------------------------
(***************************************************************************)
(* What the tasks compute: map_controller_module and                       *)
(* reduce_controller_module of include/MapReduceMaster.h, the files they   *)
(* exchange (include/Utility.h), and the three applications.  A task is    *)
(* one step, or dies half-way through its files and is run again.  That    *)
(* reduce tasks wait for all map tasks is what MapReduceMaster proves.     *)
(*                                                                         *)
(* A text is the sequence of its white-space separated words: writing      *)
(* joins texts with blanks, and operator >> takes them apart again.  A     *)
(* comma of ReverseWeblinkGraph's input counts as a word.                  *)
(***************************************************************************)
EXTENDS Integers, Sequences, FiniteSets, SequencesExt

CONSTANTS
  Apps,         \* the classes that may be registered under "MapReduce"
  nr_mapper, nr_reducer,
  Lines(_),     \* the texts a line of an application's input may be
  MaxRecords,   \* bound: lines of input
  MaxLength,    \* bound: words of a line
  MaxCrashes    \* bound: tasks that die half-way

ASSUME AppsAssumption == Apps \subseteq {"WordCounter", "InvertedIndex", "ReverseWeblinkGraph"}
ASSUME SizeAssumption ==
  /\ nr_mapper \in Nat \ {0} /\ nr_reducer \in Nat \ {0}
  /\ MaxRecords \in Nat \ {0} /\ MaxLength \in Nat /\ MaxCrashes \in Nat
ASSUME LinesAssumption ==
  \A a \in Apps : \A l \in Lines(a) : l \in Seq(STRING) /\ Len(l) =< MaxLength

(* No record number and no count is larger.  std::to_string writes "1" for *)
(* 1, and for nothing else.                                                *)
MaxNumber == MaxRecords * MaxLength
to_string(n) == ToString(n)
ASSUME ToStringAssumption == \A n \in 0 .. MaxNumber : to_string(n) = "1" <=> n = 1

Mappers  == 0 .. nr_mapper - 1
Reducers == 0 .. nr_reducer - 1
VARIABLES
  app,        \* the application linked to the library
  input,      \* inputFileName: a sequence of lines
  hash,       \* std::hash<string>, on the keys of this job
  temp,       \* temp[m][r]: the words in temp_[m]_[r].txt
  output,     \* output[r]: the lines <<key, values>> of output_[r].txt
  mapped, reduced,   \* tasks the master has recorded as done
  crashes
vars == <<app, input, hash, temp, output, mapped, reduced, crashes>>

Numbers == {to_string(n) : n \in 0 .. MaxNumber}
Words   == (UNION {ToSet(l) : l \in Lines(app)}) \cup Numbers

-----------------------------------------------------------------------------
(* The applications' map_fn: the emitted <<key, value>> pairs, both texts. *)

WordCounterMap(n, line)   == [i \in DOMAIN line |-> <<<<line[i]>>, <<"1">>>>]
InvertedIndexMap(n, line) == [i \in DOMAIN line |-> <<<<line[i]>>, <<to_string(n)>>>>]

(* getline() up to the first comma, then to the end of the line, which is  *)
(* empty if there is no comma.                                             *)
FirstComma(line) ==
  CHOOSE i \in DOMAIN line : line[i] = "," /\ \A j \in 1 .. i - 1 : line[j] # ","
ReverseWeblinkGraphMap(n, line) ==
  LET source == IF Contains(line, ",") THEN SubSeq(line, 1, FirstComma(line) - 1) ELSE line
  IN  << <<SubSeq(line, Len(source) + 2, Len(line)), source>> >>

map_fn(n, line) ==
  CASE app = "WordCounter"   -> WordCounterMap(n, line)
    [] app = "InvertedIndex" -> InvertedIndexMap(n, line)
    [] OTHER                 -> ReverseWeblinkGraphMap(n, line)

Keys == UNION {{e[1] : e \in ToSet(map_fn(0, l))} : l \in Lines(app)}

(* The applications' reduce_fn: the values emitted with the key.           *)

IsNumber(word) == \E n \in 0 .. MaxNumber : to_string(n) = word
Stoi(word) == CHOOSE n \in 0 .. MaxNumber : to_string(n) = word
WordCounterReduce(values) ==
  <<to_string(FoldSeq(LAMBDA v, count : count + Stoi(v), 0, values))>>

(* sort(), then unique() and erase(): each value once.  (Their order is    *)
(* left out.)                                                              *)
InvertedIndexReduce(values) == SetToSeq(ToSet(values))

reduce_fn(values) ==
  CASE app = "WordCounter"   -> WordCounterReduce(values)
    [] app = "InvertedIndex" -> InvertedIndexReduce(values)
    [] OTHER                 -> values

-----------------------------------------------------------------------------
(* The controller modules.                                                 *)

(* hash<int> is the identity.                                              *)
HashInRange(h, max_range) == h % max_range

(* What mapper m emits: the records that hash to it, in their order.       *)
(* (The first version goes without that test.)                             *)
EmittedForAll(m) == FlattenSeq([i \in DOMAIN input |-> map_fn(i - 1, input[i])])
Emitted(m) ==
  FlattenSeq([i \in DOMAIN input |->
    IF HashInRange(i - 1, nr_mapper) = m THEN map_fn(i - 1, input[i]) ELSE <<>>])

(* What it writes for reducer r: key, blank, value, new line.              *)
Written(m, r) ==
  LET pairs == Emitted(m)
  IN  FlattenSeq([i \in DOMAIN pairs |->
        IF HashInRange(hash[pairs[i][1]], nr_reducer) = r
        THEN pairs[i][1] \o pairs[i][2] ELSE <<>>])

(* An ofstream truncates the file (std::ios::app would not).               *)
Appended(old) == old
Opened(old) == <<>>

(* read_text(): as long as both a key and a value can be read.             *)
ReadText(words) ==
  [i \in 1 .. Len(words) \div 2 |-> <<words[2 * i - 1], words[2 * i]>>]

(* key_value_acc: per key the values of every file, in the order read.     *)
Accumulated(r) == FlattenSeq([i \in 1 .. nr_mapper |-> ReadText(temp[i - 1][r])])

ValuesOf(pairs, key) ==
  FlattenSeq([i \in DOMAIN pairs |-> IF pairs[i][1] = key THEN <<pairs[i][2]>> ELSE <<>>])

Reduced(r) ==
  LET acc == Accumulated(r)
  IN  {<<key, reduce_fn(ValuesOf(acc, key))>> : key \in {p[1] : p \in ToSet(acc)}}

-----------------------------------------------------------------------------
(* The data directory may hold files of an earlier job, here of one pair.  *)
Init ==
  /\ app \in Apps
  /\ input \in BoundedSeq(Lines(app), MaxRecords)
  /\ hash \in [Keys -> Reducers]
  /\ \E left \in {<<>>} \cup {e[1] \o e[2] : e \in UNION {ToSet(map_fn(0, l)) : l \in Lines(app)}} :
       temp = [m \in Mappers |-> [r \in Reducers |-> left]]
  /\ output = [r \in Reducers |-> {}]
  /\ mapped = {} /\ reduced = {} /\ crashes = 0

MapTask(m) ==
  /\ m \notin mapped
  /\ temp' = [temp EXCEPT ![m] = [r \in Reducers |-> Opened(@[r]) \o Written(m, r)]]
  /\ mapped' = mapped \cup {m}
  /\ UNCHANGED <<app, input, hash, output, reduced, crashes>>

(* The mapper dies with files[0 .. opened - 1] open; when all are, some of *)
(* each file's words have reached the disk, perhaps all of them.           *)
MapCrash(m) ==
  /\ m \notin mapped /\ crashes < MaxCrashes
  /\ \/ \E opened \in Reducers :
          temp' = [temp EXCEPT ![m] =
                     [r \in Reducers |-> IF r < opened THEN Opened(@[r]) ELSE @[r]]]
     \/ \E cut \in [Reducers -> 0 .. 2 * MaxNumber] :
          /\ \A r \in Reducers : cut[r] =< Len(Written(m, r))
          /\ temp' = [temp EXCEPT ![m] =
               [r \in Reducers |-> Opened(@[r]) \o SubSeq(Written(m, r), 1, cut[r])]]
  /\ crashes' = crashes + 1
  /\ UNCHANGED <<app, input, hash, output, mapped, reduced>>

(* stoi() of something else throws: the task dies and is run again.        *)
CanReduce(r) ==
  app = "WordCounter" => \A p \in ToSet(Accumulated(r)) : IsNumber(p[2])

ReduceTask(r) ==
  /\ mapped = Mappers /\ r \notin reduced /\ CanReduce(r)
  /\ output' = [output EXCEPT ![r] = Reduced(r)]
  /\ reduced' = reduced \cup {r}
  /\ UNCHANGED <<app, input, hash, temp, mapped, crashes>>

ReduceCrash(r) ==
  /\ mapped = Mappers /\ r \notin reduced /\ CanReduce(r)
  /\ crashes < MaxCrashes
  /\ \E lines \in SUBSET Reduced(r) : output' = [output EXCEPT ![r] = lines]
  /\ crashes' = crashes + 1
  /\ UNCHANGED <<app, input, hash, temp, mapped, reduced>>

Next ==
  \/ \E m \in Mappers : MapTask(m) \/ MapCrash(m)
  \/ \E r \in Reducers : ReduceTask(r) \/ ReduceCrash(r)

SafeSpec == Init /\ [][Next]_vars

-----------------------------------------------------------------------------
(* Correctness.                                                            *)

TypeOK ==
  /\ app \in Apps /\ input \in Seq(Lines(app))
  /\ hash \in [Keys -> Reducers]
  /\ temp \in [Mappers -> [Reducers -> Seq(Words)]]
  /\ output \in [Reducers -> SUBSET (Words \X Seq(Words))]
  /\ mapped \subseteq Mappers /\ reduced \subseteq Reducers
  /\ crashes \in 0 .. MaxCrashes

(* What the job is asked for, said of the input as a whole: the keys, and  *)
(* the bag of words that belongs to each.                                  *)
Occurrences(w) == {o \in (DOMAIN input) \X (1 .. MaxLength) :
                     o[2] \in DOMAIN input[o[1]] /\ input[o[1]][o[2]] = w}
IsLink(line) == Contains(line, ",")
CommaAt(link) == CHOOSE i \in DOMAIN link : link[i] = ","
Source(link) == SubSeq(link, 1, CommaAt(link) - 1)
Target(link) == SubSeq(link, CommaAt(link) + 1, Len(link))

ReferenceKeys ==
  IF app = "ReverseWeblinkGraph"
  THEN {Target(l) : l \in {l \in ToSet(input) : IsLink(l)}}
  ELSE {<<w>> : w \in UNION {ToSet(l) : l \in ToSet(input)}}

ReferenceValues(key) ==
  CASE app = "WordCounter"   -> <<to_string(Cardinality(Occurrences(key[1])))>>
    [] app = "InvertedIndex" -> SetToSeq({to_string(o[1] - 1) : o \in Occurrences(key[1])})
    [] OTHER ->
         FlattenSeq([i \in DOMAIN input |->
           IF IsLink(input[i]) /\ Target(input[i]) = key THEN Source(input[i]) ELSE <<>>])

(* When every reducer is done, the output files together hold one line for *)
(* every key of the reference, with its values, and no other line: however *)
(* the records and keys were spread over the workers, whatever an earlier  *)
(* job or a task that died half-way left in the files (588-727).           *)
OutputIsReference ==
  reduced = Reducers =>
    /\ \A r \in Reducers : \A l \in output[r] : <<l[1]>> \in ReferenceKeys
    /\ \A key \in ReferenceKeys :
         \E r \in Reducers : \E l \in output[r] :
           /\ <<l[1]>> = key /\ ToBag(l[2]) = ToBag(ReferenceValues(key))
           /\ \A s \in Reducers \ {r} : \A k \in output[s] : k[1] # l[1]

(* Once the mappers are done, reduce_fn finds a number wherever it calls   *)
(* stoi() (WordCounter.cpp 30-34), whatever was in the files before: no    *)
(* reducer throws, dies and is run again for ever.                         *)
NoReducerThrows == mapped = Mappers => \A r \in Reducers : CanReduce(r)

=============================================================================
