---------------------------- MODULE MapReduceJob ----------------------------
(***************************************************************************)
(* What MapReduceMaster::process() promises, without servers, heart-beats  *)
(* or restarts: every map task is committed, then every reduce task, then  *)
(* the job returns; what was committed stays committed.                    *)
(***************************************************************************)
CONSTANTS Mappers, Reducers

VARIABLES stage, mapped, reduced
vars == <<stage, mapped, reduced>>

TypeOK ==
  /\ stage \in {"map", "reduce", "returned"}
  /\ mapped \subseteq Mappers
  /\ reduced \subseteq Reducers

Init == stage = "map" /\ mapped = {} /\ reduced = {}

CommitMap(m) ==
  /\ stage = "map" /\ m \notin mapped
  /\ mapped' = mapped \cup {m}
  /\ UNCHANGED <<stage, reduced>>

StartReduce ==
  /\ stage = "map" /\ mapped = Mappers
  /\ stage' = "reduce"
  /\ UNCHANGED <<mapped, reduced>>

CommitReduce(r) ==
  /\ stage = "reduce" /\ r \notin reduced
  /\ reduced' = reduced \cup {r}
  /\ UNCHANGED <<stage, mapped>>

Return ==
  /\ stage = "reduce" /\ reduced = Reducers
  /\ stage' = "returned"
  /\ UNCHANGED <<mapped, reduced>>

Next ==
  \/ \E m \in Mappers : CommitMap(m)
  \/ StartReduce
  \/ \E r \in Reducers : CommitReduce(r)
  \/ Return

SafeSpec == Init /\ [][Next]_vars
=============================================================================
