-------------------- MODULE MapReduceRefinement_proofs --------------------
(***************************************************************************)
(* process() implements MapReduceJob, for any number of servers, kills,    *)
(* failed forks and servers that leave, when the controller modules do not *)
(* end in error codes and there are as many reducers as mappers.           *)
(***************************************************************************)
EXTENDS MapReduceRefinement, MapReduceMaster_proofs

USE WorkersAssumption

(* The refinement mapping without the files: what is committed is what is  *)
(* recorded, and in the reduce phase every map task.                       *)
MappingInv ==
  /\ mapped = IF phase = "reduce" THEN Workers ELSE IF InLoop THEN DoneWorkers ELSE {}
  /\ reduced = IF ReduceLoop THEN DoneWorkers ELSE {}

(* The inductive invariant makes every recorded task complete on disk.     *)
LEMMA MappingHolds ==
  ASSUME NoErrorCodes, nr_mapper = nr_reducer PROVE IInv => MappingInv
<1> SUFFICES ASSUME IInv PROVE MappingInv OBVIOUS
<1> USE DEF IInv
<1>1. Workers = Reducers /\ TaskCount = nr_mapper
  BY DEF Workers, Reducers, TaskCount
<1>2. ASSUME StatusHeld, NEW w \in Workers, task_status[w] = 1 PROVE Ready(phase, w)
  BY <1>1, <1>2 DEF RecordInv, Settled, Written, Workers
<1>3. ASSUME phase = "reduce" PROVE mapped = Workers
  BY <1>3 DEF mapped, Committed, MapLoop, BarrierInv
<1>4. ASSUME phase = "map", InLoop PROVE mapped = DoneWorkers
  BY <1>2, <1>4 DEF mapped, Committed, MapLoop, Ready, DoneWorkers, StatusHeld
<1>5. ASSUME phase = "map", ~InLoop PROVE mapped = {}
  BY <1>5 DEF mapped
<1>6. ASSUME ReduceLoop PROVE reduced = DoneWorkers
  BY <1>1, <1>2, <1>6 DEF reduced, ReduceLoop, Ready, DoneWorkers
<1>7. ASSUME ~ReduceLoop PROVE reduced = {}
  BY <1>7 DEF reduced
<1> QED
  BY <1>3, <1>4, <1>5, <1>6, <1>7 DEF MappingInv, TypeOK, Phases

(* A step that keeps the phase, the status vector and the part of the      *)
(* program the master is in is no step of the job.                         *)
LEMMA Stutters ==
  ASSUME MappingInv, MappingInv', UNCHANGED <<phase, task_status>>,
         InLoop' = InLoop, StatusHeld' = StatusHeld,
         (pc = "returned") = (pc' = "returned")
  PROVE  UNCHANGED Job!vars
<1>1. stage' = stage BY DEF stage
<1>2. DoneWorkers' = DoneWorkers BY DEF DoneWorkers
<1>3. mapped' = mapped BY <1>2 DEF MappingInv
<1>4. reduced' = reduced BY <1>2 DEF MappingInv, ReduceLoop
<1> QED BY <1>1, <1>3, <1>4 DEF Job!vars

(* The master's steps: Answer commits, MapPhaseEnds and Return are the     *)
(* job's, and the others stutter.                                          *)
LEMMA MasterImplements ==
  ASSUME IInv, MappingInv, MappingInv', nr_mapper = nr_reducer, Master
  PROVE  Job!Next \/ UNCHANGED Job!vars
<1> USE DEF IInv
<1>1. TaskCount = nr_mapper BY DEF TaskCount
<1>2. CASE StartServer \/ AllForked \/ StartupSleepEnds \/ NewClient \/ CallTask
             \/ SleepEnds \/ SkipDone \/ Restart \/ Reconnect \/ Recall \/ Poll \/ PassAgain
  BY <1>2, Stutters
  DEF StartServer, AllForked, StartupSleepEnds, NewClient, CallTask, SleepEnds, SkipDone,
      Restart, Reconnect, Recall, Poll, PassAgain, InLoop, StatusHeld, LoopControl
<1>3. CASE AllCalled
  <2> USE <1>3 DEF AllCalled
  <2>1. ~InLoop /\ ~StatusHeld /\ InLoop' /\ StatusHeld'
    BY DEF InLoop, StatusHeld, LoopControl
  <2>2. PICK junk \in [Workers \ (0 .. TaskCount - 1) -> {0, 1}] :
          task_status' = [i \in Index |-> IF i \in DOMAIN junk THEN junk[i] ELSE 0]
    OBVIOUS
  <2>3. DoneWorkers' = {}
    <3>1. Workers \ (0 .. TaskCount - 1) = {} BY <1>1 DEF Workers
    <3> QED BY <2>2, <3>1 DEF DoneWorkers, Index
  <2>4. stage' = stage BY DEF stage
  <2>5. mapped' = mapped /\ reduced' = reduced
    BY <2>1, <2>3 DEF MappingInv, ReduceLoop
  <2> QED BY <2>4, <2>5 DEF Job!vars
<1>4. CASE Answer /\ reply # "yes"
  BY <1>4, Stutters DEF Answer, InLoop, StatusHeld, LoopControl
<1>5. CASE Answer /\ reply = "yes"
  <2> USE <1>5 DEF Answer
  <2>1. InLoop /\ StatusHeld /\ InLoop' /\ StatusHeld'
    BY DEF InLoop, StatusHeld, LoopControl
  <2>2. worker_idx \in Workers /\ worker_idx \notin DoneWorkers
    BY DEF TypeOK, IndexInv, Workers, ControlInv, DoneWorkers
  <2>3. DoneWorkers' = DoneWorkers \cup {worker_idx}
    BY <2>2 DEF DoneWorkers, TypeOK, Index
  <2>4. stage' = stage /\ stage = phase BY DEF stage
  <2>5. CASE phase = "map"
    <3>1. mapped = DoneWorkers /\ mapped' = DoneWorkers' /\ reduced' = reduced
      BY <2>1, <2>5 DEF MappingInv, ReduceLoop
    <3>2. Job!CommitMap(worker_idx) BY <2>2, <2>3, <2>4, <2>5, <3>1 DEF Job!CommitMap
    <3> QED BY <2>2, <3>2 DEF Job!Next
  <2>6. CASE phase = "reduce"
    <3>1. reduced = DoneWorkers /\ reduced' = DoneWorkers' /\ mapped' = mapped
      BY <2>1, <2>6 DEF MappingInv, ReduceLoop
    <3>2. Job!CommitReduce(worker_idx)
      BY <2>2, <2>3, <2>4, <2>6, <3>1 DEF Job!CommitReduce
    <3>3. worker_idx \in Reducers BY <2>2 DEF Workers, Reducers
    <3> QED BY <3>2, <3>3 DEF Job!Next
  <2> QED BY <2>5, <2>6 DEF TypeOK, Phases
<1>6. CASE MapPhaseEnds
  <2> USE <1>6 DEF MapPhaseEnds
  <2>1. DoneWorkers = Workers
    BY <1>1, AllRecorded DEF AllDone, InLoop, LoopControl
  <2>2. mapped = Workers /\ mapped' = Workers /\ reduced = {} /\ reduced' = {}
    BY <2>1 DEF MappingInv, ReduceLoop, InLoop, StatusHeld, LoopControl
  <2>3. Job!StartReduce BY <2>2 DEF Job!StartReduce, stage
  <2> QED BY <2>3 DEF Job!Next
<1>7. CASE ReducePhaseEnds \/ StopServer
  <2> USE <1>7 DEF ReducePhaseEnds, StopServer
  <2>1. phase = "reduce" /\ StatusHeld /\ StatusHeld' /\ UNCHANGED <<phase, task_status>>
    BY DEF ControlInv, StatusHeld, InLoop, LoopControl
  <2>2. DoneWorkers' = DoneWorkers BY <2>1 DEF DoneWorkers
  <2>3. mapped' = mapped /\ reduced' = reduced
    BY <2>1, <2>2 DEF MappingInv, ReduceLoop
  <2>4. stage' = stage BY <2>1 DEF stage
  <2> QED BY <2>3, <2>4 DEF Job!vars
<1>8. CASE Return
  <2> USE <1>8 DEF Return
  <2>1. phase = "reduce" /\ DoneWorkers = Workers /\ StatusHeld /\ StatusHeld'
    BY DEF ControlInv, StatusHeld
  <2>2. DoneWorkers' = DoneWorkers BY DEF DoneWorkers
  <2>3. reduced = Reducers /\ reduced' = reduced /\ mapped' = mapped
    BY <2>1, <2>2 DEF MappingInv, ReduceLoop, Workers, Reducers
  <2>4. Job!Return BY <2>1, <2>3 DEF Job!Return, stage
  <2> QED BY <2>4 DEF Job!Next
<1> QED BY <1>2, <1>3, <1>4, <1>5, <1>6, <1>7, <1>8 DEF Master

(* Clients, servers and the environment do not change what is committed.   *)
LEMMA OthersImplement ==
  ASSUME MappingInv, MappingInv', NEW w \in Workers,
         ClientIO(w) \/ Worker(w) \/ Environment(w)
  PROVE  UNCHANGED Job!vars
<1>1. UNCHANGED masterVars
  BY DEF ClientIO, ConnectOk, ConnectRefused, NoticeEof, ReadFails, Worker, Environment, Listen, Handle,
      StartTask, AnswerPoll, HandleStop, LeaveExit, StdinReturns, Kill, Die, TaskStep,
      MapRead, MapOpen, MapClose, MapReturn, ReduceRead, ReduceApply, ReduceOpen,
      ReduceClose, ReduceReturn
<1> QED BY <1>1, Stutters DEF masterVars, InLoop, StatusHeld

(* Every step is one of the job's or a stutter.                            *)
LEMMA StepImplements ==
  ASSUME nr_mapper = nr_reducer
  PROVE  IInv /\ MappingInv /\ MappingInv' /\ [Next]_vars => [Job!Next]_(Job!vars)
<1> SUFFICES ASSUME IInv, MappingInv, MappingInv', [Next]_vars
             PROVE  Job!Next \/ UNCHANGED Job!vars
  OBVIOUS
<1>1. CASE Master BY <1>1, MasterImplements
<1>2. CASE \E w \in Workers : ClientIO(w) \/ Worker(w) \/ Environment(w)
  BY <1>2, OthersImplement
<1>3. CASE UNCHANGED vars
  BY <1>3, Stutters DEF vars, masterVars, InLoop, StatusHeld
<1> QED BY <1>1, <1>2, <1>3 DEF Next

(* Tasks are committed one by one, all map tasks before any reduce task,   *)
(* all reduce tasks before process() returns, and no crash or restart      *)
(* takes a commit back (lines 311-345, 395-426, 507-537).                  *)
THEOREM ProcessImplementsJob ==
  ASSUME NoErrorCodes, nr_mapper = nr_reducer PROVE SafeSpec => ImplementsJob
<1>1. Init => Job!Init
  BY DEF Init, Job!Init, stage, mapped, reduced, ReduceLoop, InLoop, StatusHeld, LoopControl
<1>2. IInv => MappingInv BY MappingHolds
<1>3. IInv /\ MappingInv /\ MappingInv' /\ [Next]_vars => [Job!Next]_(Job!vars)
  BY StepImplements
<1> QED BY <1>1, <1>2, <1>3, Invariance, PTL DEF SafeSpec, ImplementsJob, Job!SafeSpec
=============================================================================
