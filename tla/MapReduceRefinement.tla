------------------------ MODULE MapReduceRefinement ------------------------
(***************************************************************************)
(* process() with its servers implements MapReduceJob.  A task counts as   *)
(* committed when the master has recorded it as done and its files are     *)
(* complete on disk, so a recorded task whose files are not, or are later  *)
(* touched again, is not a step of MapReduceJob.                           *)
(***************************************************************************)
EXTENDS MapReduceMaster

MapLoop    == phase = "map" /\ InLoop
ReduceLoop == phase = "reduce" /\ StatusHeld

Committed(m) == MapOutputReady(m) /\ (MapLoop => task_status[m] = 1)

stage  == IF pc = "returned" THEN "returned" ELSE phase
mapped == IF phase = "map" /\ ~InLoop THEN {} ELSE {m \in Workers : Committed(m)}
reduced ==
  IF ReduceLoop
  THEN {r \in Reducers : task_status[r] = 1 /\ ReduceOutputReady(r)}
  ELSE {}

Job == INSTANCE MapReduceJob WITH Mappers <- Workers

(* Whatever is killed whenever: tasks are committed one by one, all map    *)
(* tasks before any reduce task, all reduce tasks before process() returns,*)
(* and no crash or restart takes a commit back.                            *)
ImplementsJob == Job!SafeSpec
=============================================================================
