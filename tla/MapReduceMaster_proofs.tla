----------------------- MODULE MapReduceMaster_proofs -----------------------
(***************************************************************************)
(* Proofs about MapReduceMaster, for any number of servers, kills and      *)
(* servers that leave.                                                     *)
(***************************************************************************)
EXTENDS MapReduceInvariant, FiniteSetTheorems, TLAPS

USE WorkersAssumption, ResultsAssumption, BoundsAssumption

-----------------------------------------------------------------------------
(* Types.                                                                  *)

(* Every index of a loop over files is that of a server or a reducer.      *)
LEMMA FollowingType ==
  ASSUME NEW bound \in {nr_mapper, nr_reducer}, NEW c \in Index
  PROVE  Following(c, bound) \in Index
BY DEF Following, Index, Workers, Reducers

(* The requests and phases as the sets they are.                           *)
LEMMA PhaseFacts ==
  /\ Phases \subseteq Requests
  /\ \A p \in Phases : IsDone(p) \in Requests /\ IsDone(p) \notin Phases
  /\ \A p, q \in Phases : IsDone(p) = IsDone(q) => p = q
BY DEF Phases, Requests, IsDone

(* Sending a request keeps the sets of requests well-typed.                *)
LEMMA PostType ==
  ASSUME TypeOK, NEW w \in Workers, NEW m \in Requests, Post(w, m)
  PROVE  req' \in [Workers -> SUBSET Requests]
BY DEF TypeOK, Post

TypeInv == TypeOK /\ IndexInv

(* Types hold initially, and every action keeps them.                      *)
LEMMA TypeInit == Init => TypeInv
<1> SUFFICES ASSUME Init PROVE TypeInv OBVIOUS
<1>1. 0 \in Index /\ 0 \in Workers BY DEF Index, Workers, Reducers
<1> QED BY <1>1 DEF Init, TypeInv, TypeOK, IndexInv, Control, LoopControl, Phases, ConnState,
             ProcState, FileState, Requests

(* One step per action of the master, of the clients and of the servers.   *)
LEMMA TypeStep == TypeInv /\ [Next]_vars => TypeInv'
<1> SUFFICES ASSUME TypeInv, [Next]_vars PROVE TypeInv' OBVIOUS
<1> USE DEF TypeInv, TypeOK, IndexInv, masterVars, clientVars, procVars, diskVars, envVars,
            Control, LoopControl
<1>0. 0 \in Index /\ 0 \in Workers /\ Workers \subseteq Index
  BY DEF Index, Workers, Reducers
<1>1. CASE StartServer
  <2>1. worker_idx \in Workers BY <1>1 DEF StartServer, Workers
  <2>2. CASE ForkServer(worker_idx) /\ UNCHANGED envVars
    BY <1>0, <1>1, <2>1, <2>2 DEF StartServer, ForkServer, ProcState
  <2>3. CASE ForkFails BY <1>1, <2>3 DEF StartServer, ForkFails
  <2> QED BY <1>1, <2>2, <2>3 DEF StartServer
<1>2. CASE AllForked BY <1>2 DEF AllForked
<1>3. CASE StartupSleepEnds BY <1>3 DEF StartupSleepEnds
<1>4. CASE NewClient
  <2>1. conn' \in [Workers -> ConnState] BY <1>4 DEF NewClient, ConnState
  <2>2. pc' \in Control /\ worker_idx' \in 0 .. nr_mapper /\ IndexInv'
    BY <1>4 DEF NewClient
  <2> QED BY <1>4, <2>1, <2>2 DEF NewClient
<1>5. CASE CallTask
  <2>1. worker_idx \in Workers BY <1>5 DEF CallTask, Workers
  <2>2. req' \in [Workers -> SUBSET Requests]
    BY <1>5, <2>1, PhaseFacts, PostType DEF CallTask
  <2> QED BY <1>5, <2>2 DEF CallTask
<1>6. CASE AllCalled BY <1>6 DEF AllCalled
<1>7. CASE SleepEnds BY <1>7 DEF SleepEnds
<1>8. CASE SkipDone BY <1>8 DEF SkipDone
<1>9. CASE Restart
  <2>1. CASE ForkServer(worker_idx) /\ UNCHANGED envVars
    BY <1>0, <1>9, <2>1 DEF Restart, ForkServer, ProcState
  <2>2. CASE ForkFails BY <1>9, <2>2 DEF Restart, ForkFails
  <2> QED BY <1>9, <2>1, <2>2 DEF Restart
<1>10. CASE Reconnect BY <1>10 DEF Reconnect, ConnState
<1>11. CASE Recall
  <2>1. worker_idx \in Workers BY <1>11 DEF Recall, Workers
  <2>2. req' \in [Workers -> SUBSET Requests]
    BY <1>11, <2>1, PhaseFacts, PostType DEF Recall
  <2> QED BY <1>11, <2>2 DEF Recall
<1>12. CASE Poll
  <2>1. worker_idx \in Workers BY <1>12 DEF Poll, Workers
  <2>2. req' \in [Workers -> SUBSET Requests]
    BY <1>12, <2>1, PhaseFacts, PostType DEF Poll
  <2> QED BY <1>12, <2>2 DEF Poll
<1>13. CASE Answer
  <2>1. worker_idx \in Workers /\ worker_idx + 1 \in 0 .. nr_mapper
    BY <1>13 DEF Answer, Workers
  <2>2. task_status' \in [Index -> {0, 1}] /\ nr_done' \in Nat
    BY <1>0, <1>13, <2>1 DEF Answer
  <2>3. /\ UNCHANGED <<phase, conn, req, procVars, diskVars, envVars>>
        /\ pc' = "check" /\ reply' = "none" /\ worker_idx' = worker_idx + 1
    BY <1>13 DEF Answer
  <2> QED BY <2>1, <2>2, <2>3
<1>14. CASE PassAgain BY <1>14 DEF PassAgain
<1>15. CASE MapPhaseEnds BY <1>15 DEF MapPhaseEnds, Phases
<1>16. CASE ReducePhaseEnds BY <1>16 DEF ReducePhaseEnds
<1>17. CASE StopServer
  <2>1. worker_idx \in Workers BY <1>17 DEF StopServer, Workers
  <2>2. req' \in [Workers -> SUBSET Requests]
    BY <1>17, <2>1, PostType DEF StopServer, Requests
  <2> QED BY <1>17, <2>2 DEF StopServer
<1>18. CASE Return BY <1>18 DEF Return
<1>19. ASSUME NEW w \in Workers, ClientIO(w) PROVE TypeInv'
  BY <1>19 DEF ClientIO, ConnectOk, ConnectRefused, NoticeEof, ReadFails, ConnState
<1>20. ASSUME NEW w \in Workers, Listen(w) PROVE TypeInv'
  BY <1>20 DEF Listen, ProcState
<1>21. ASSUME NEW w \in Workers, NEW p \in Phases, StartTask(w, p) PROVE TypeInv'
  BY <1>0, <1>21 DEF StartTask, MapSteps, ReduceSteps
<1>22. ASSUME NEW w \in Workers, NEW p \in Phases, AnswerPoll(w, p) PROVE TypeInv'
  BY <1>22 DEF AnswerPoll
<1>23. ASSUME NEW w \in Workers, Die(w), UNCHANGED <<masterVars, conn, reply, diskVars>>,
              kills' \in 0 .. MaxKills, leaves' = leaves
       PROVE  TypeInv'
  BY <1>0, <1>23 DEF Die, ProcState
<1>24. ASSUME NEW w \in Workers, HandleStop(w) PROVE TypeInv'
  BY <1>23, <1>24 DEF HandleStop
<1>25. ASSUME NEW w \in Workers, LeaveExit(w) PROVE TypeInv'
  BY <1>23, <1>25 DEF LeaveExit
<1>26. ASSUME NEW w \in Workers, Kill(w) PROVE TypeInv'
  BY <1>23, <1>26 DEF Kill
<1>27. ASSUME NEW w \in Workers, StdinReturns(w) PROVE TypeInv'
  BY <1>27 DEF StdinReturns, ProcState
<1>28. ASSUME NEW w \in Workers, MapRead(w) PROVE TypeInv'
  <2>1. CASE Die(w) BY <1>23, <1>28, <2>1 DEF MapRead
  <2>2. CASE ~Die(w)
    <3>1. PICK s \in MapSteps : task' = [task EXCEPT ![w] = s]
      BY <1>28, <2>2 DEF MapRead, MapSteps
    <3> QED BY <1>28, <2>2, <3>1 DEF MapRead
  <2> QED BY <2>1, <2>2
<1>29. ASSUME NEW w \in Workers, MapOpen(w) \/ MapClose(w) PROVE TypeInv'
  <2>1. Following(cursor[w], nr_reducer) \in Index BY FollowingType
  <2>2. PICK s \in MapSteps : task' = [task EXCEPT ![w] = s]
    BY <1>29 DEF MapOpen, MapClose, MapSteps
  <2>3. PICK f \in FileState : temp' = [temp EXCEPT ![w][cursor[w]] = f]
    BY <1>29 DEF MapOpen, MapClose, FileState
  <2>4. temp' \in [Workers -> [Index -> FileState]] BY <2>3
  <2>5. cursor' \in [Workers -> Index] BY <1>29, <2>1 DEF MapOpen, MapClose
  <2> QED BY <1>29, <2>2, <2>4, <2>5 DEF MapOpen, MapClose
<1>30. ASSUME NEW w \in Workers, MapReturn(w) \/ ReduceReturn(w) PROVE TypeInv'
  <2>1. PICK p \in Phases : completed' = [completed EXCEPT ![w] = @ \cup {p}]
    BY <1>30 DEF MapReturn, ReduceReturn, Phases
  <2> QED BY <1>30, <2>1 DEF MapReturn, ReduceReturn
<1>31. ASSUME NEW w \in Workers, ReduceRead(w) PROVE TypeInv'
  <2>1. Following(cursor[w], nr_mapper) \in Index BY FollowingType
  <2> QED BY <1>31, <2>1 DEF ReduceRead, ReduceSteps
<1>32. ASSUME NEW w \in Workers, ReduceApply(w) PROVE TypeInv'
  <2>1. CASE Die(w) BY <1>23, <1>32, <2>1 DEF ReduceApply
  <2>2. CASE ~Die(w)
    <3>1. PICK s \in ReduceSteps : task' = [task EXCEPT ![w] = s]
      BY <1>32, <2>2 DEF ReduceApply, ReduceSteps
    <3> QED BY <1>32, <2>2, <3>1 DEF ReduceApply
  <2> QED BY <2>1, <2>2
<1>33. ASSUME NEW w \in Workers, ReduceOpen(w) \/ ReduceClose(w) PROVE TypeInv'
  BY <1>0, <1>33 DEF ReduceOpen, ReduceClose, ReduceSteps, FileState
<1>34. CASE UNCHANGED vars BY <1>34 DEF vars
<1> QED
  BY <1>1, <1>2, <1>3, <1>4, <1>5, <1>6, <1>7, <1>8, <1>9, <1>10, <1>11, <1>12, <1>13,
     <1>14, <1>15, <1>16, <1>17, <1>18, <1>19, <1>20, <1>21, <1>22, <1>24, <1>25, <1>26,
     <1>27, <1>28, <1>29, <1>30, <1>31, <1>32, <1>33, <1>34
  DEF Next, Master, Worker, Environment, Handle, TaskStep

(* Every variable keeps its type; among them worker_idx never leaves the   *)
(* pool and cursor never leaves the files the controller modules open.     *)
THEOREM TypeCorrect == SafeSpec => []TypeOK
<1>1. SafeSpec => []TypeInv BY TypeInit, TypeStep, PTL DEF SafeSpec
<1> QED BY <1>1, PTL DEF TypeInv
-----------------------------------------------------------------------------
(* The inductive invariant.                                                *)

(* Nothing is forked, called, recorded or finished yet.                    *)
LEMMA InvInit == Init => IInv
<1> SUFFICES ASSUME Init PROVE IInv OBVIOUS
<1>1. TypeOK /\ IndexInv BY TypeInit DEF TypeInv
<1>2. /\ GoneInv /\ SpawnInv /\ DownInv /\ CallInv /\ FlagInv
      /\ PollInv /\ ReplyInv /\ UntoldInv
  BY DEF Init, GoneInv, SpawnInv, DownInv, CallInv, FlagInv, PollInv, ReplyInv, UntoldInv, Untold,
         Serving, Steps, MapSteps, ReduceSteps
<1>3. RecordInv /\ CountInv /\ ControlInv /\ BarrierInv /\ MapLoopInv /\ ReduceLoopInv
  BY DEF Init, RecordInv, CountInv, ControlInv, BarrierInv, MapLoopInv, ReduceLoopInv,
         StatusHeld, InLoop, LoopControl
<1> QED BY <1>1, <1>2, <1>3 DEF IInv

(* What the invariant says of the servers and the files alone.             *)
ServerInv == GoneInv /\ CallInv /\ FlagInv /\ BarrierInv /\ MapLoopInv /\ ReduceLoopInv

(* Steps of the master that only move it through its program.              *)
LEMMA ServerInvFrame ==
  ASSUME ServerInv, UNCHANGED <<phase, req, procVars, diskVars>>
  PROVE  ServerInv'
<1> USE DEF ServerInv, procVars, diskVars
<1>1. GoneInv' BY DEF GoneInv, Serving
<1>2. CallInv' BY DEF CallInv
<1>3. FlagInv' BY DEF FlagInv, Settled, Written, Ready, MapOutputReady, ReduceOutputReady
<1>4. BarrierInv' BY DEF BarrierInv, MapOutputReady
<1>5. MapLoopInv' BY DEF MapLoopInv, Written, Ready, MapOutputReady
<1>6. ReduceLoopInv' BY DEF ReduceLoopInv, Written, Ready, ReduceOutputReady
<1> QED BY <1>1, <1>2, <1>3, <1>4, <1>5, <1>6

(* AllForked, StartupSleepEnds, SleepEnds, SkipDone, PassAgain, Return:    *)
(* only pc and worker_idx change.                                          *)
LEMMA ControlSteps ==
  ASSUME IInv, TypeInv',
         AllForked \/ StartupSleepEnds \/ SleepEnds \/ SkipDone \/ PassAgain \/ Return
  PROVE  IInv'
<1> USE DEF IInv, TypeInv
<1> USE DEF AllForked, StartupSleepEnds, SleepEnds, SkipDone, PassAgain, Return,
            clientVars, envVars
<1>1. ServerInv' BY ServerInvFrame DEF ServerInv
<1>2. UNCHANGED <<phase, task_status, nr_done, conn, req, reply, procVars, diskVars>>
  OBVIOUS
<1>3. pc # "restartSleep" /\ pc # "await" OBVIOUS
<1>4. DownInv' /\ SpawnInv' BY <1>2, <1>3 DEF DownInv, SpawnInv, procVars
<1>5. PollInv' BY <1>2, <1>3 DEF PollInv
<1>6. ReplyInv' BY <1>2, <1>3 DEF ReplyInv
<1>7. UntoldInv'
  <2>1. \A w \in Workers : NotCalledYet(w)' => NotCalledYet(w)
    BY DEF NotCalledYet
  <2> QED BY <1>2, <2>1 DEF UntoldInv, Untold, procVars
<1>8. RecordInv'
  <2>1. StatusHeld' => StatusHeld BY DEF StatusHeld, InLoop, LoopControl
  <2> QED BY <1>2, <2>1 DEF RecordInv, TaskCount, Settled, Written, Ready, MapOutputReady,
                            ReduceOutputReady, procVars, diskVars
<1>9. CountInv'
  <2>1. InLoop' => InLoop BY DEF InLoop, LoopControl
  <2> QED BY <1>2, <2>1 DEF CountInv, TaskCount, DoneWorkers
<1>10. ControlInv' BY <1>2 DEF ControlInv, DoneWorkers
<1> QED BY <1>1, <1>4, <1>5, <1>6, <1>7, <1>8, <1>9, <1>10 DEF ServerInv

(* The counter reaches nr_mapper only when every server's task is recorded.*)
LEMMA AllRecorded ==
  ASSUME TypeOK, CountInv, InLoop, TaskCount = nr_mapper, nr_done = nr_mapper
  PROVE  DoneWorkers = Workers
<1>1. IsFiniteSet(Workers) /\ Cardinality(Workers) = nr_mapper
  BY FS_Interval DEF Workers
<1>2. DoneWorkers \subseteq Workers BY DEF DoneWorkers
<1>3. Cardinality(DoneWorkers) = Cardinality(Workers) BY <1>1 DEF CountInv
<1> QED BY <1>1, <1>2, <1>3, FS_Subset

(* The steps between phases: the status vector is made, the loop is left.  *)
LEMMA PhaseSteps ==
  ASSUME IInv, TypeInv', AllCalled \/ MapPhaseEnds \/ ReducePhaseEnds
  PROVE  IInv'
<1> USE DEF IInv, TypeInv
<1>1. CASE AllCalled
  <2> USE <1>1 DEF AllCalled, clientVars, envVars
  <2>1. ServerInv' BY ServerInvFrame DEF ServerInv
  <2>2. SpawnInv' /\ DownInv' /\ PollInv' /\ ReplyInv' /\ UntoldInv' /\ ControlInv'
    BY DEF SpawnInv, DownInv, PollInv, ReplyInv, UntoldInv, NotCalledYet, ControlInv, procVars
  <2>3. ASSUME NEW w \in Workers, w < TaskCount PROVE task_status'[w] = 0
    <3>1. TaskCount \in Nat BY DEF TaskCount
    <3>2. w \in 0 .. TaskCount - 1 /\ w \in Index BY <2>3, <3>1 DEF Workers, Index
    <3>3. PICK junk \in [Workers \ (0 .. TaskCount - 1) -> {0, 1}] :
            task_status' = [i \in Index |-> IF i \in DOMAIN junk THEN junk[i] ELSE 0]
      OBVIOUS
    <3> QED BY <3>2, <3>3
  <2>4. RecordInv' BY <2>3 DEF RecordInv, TaskCount
  <2>5. CountInv'
    <3> SUFFICES ASSUME TaskCount = nr_mapper PROVE DoneWorkers' = {}
      BY FS_EmptySet DEF CountInv, TaskCount
    <3> QED BY <2>3 DEF DoneWorkers, Workers
  <2> QED BY <2>1, <2>2, <2>4, <2>5 DEF ServerInv
<1>2. CASE MapPhaseEnds
  <2> USE <1>2 DEF MapPhaseEnds, clientVars, procVars, diskVars, envVars
  <2>1. DoneWorkers = Workers
    BY AllRecorded DEF AllDone, TaskCount, InLoop, LoopControl
  <2>2. ASSUME NEW w \in Workers PROVE Settled("map", w)
    <3>1. task_status[w] = 1 /\ w < TaskCount /\ StatusHeld
      BY <2>1 DEF DoneWorkers, TaskCount, Workers, StatusHeld, InLoop, LoopControl
    <3> QED BY <3>1 DEF RecordInv
  <2>3. BarrierInv' BY <2>2 DEF BarrierInv, Settled, Written, Ready, MapOutputReady
  <2>4. CallInv' BY <2>2 DEF CallInv, Settled, Phases
  <2>5. FlagInv' BY DEF FlagInv, Settled, Written, Ready, MapOutputReady, ReduceOutputReady, Phases
  <2>6. GoneInv' /\ SpawnInv' /\ DownInv' /\ PollInv' /\ ReplyInv' /\ ControlInv'
    BY DEF GoneInv, Serving, SpawnInv, DownInv, PollInv, ReplyInv, ControlInv
  <2>7. MapLoopInv' /\ ReduceLoopInv'
    BY DEF MapLoopInv, ReduceLoopInv, Written, Ready, MapOutputReady, ReduceOutputReady
  <2>8. RecordInv' /\ CountInv'
    BY DEF RecordInv, CountInv, StatusHeld, InLoop, LoopControl
  <2>9. UntoldInv'
    BY DEF UntoldInv, Untold, CallInv, FlagInv, Phases
  <2> QED BY <2>3, <2>4, <2>5, <2>6, <2>7, <2>8, <2>9
<1>3. CASE ReducePhaseEnds
  <2> USE <1>3 DEF ReducePhaseEnds, clientVars, envVars
  <2>1. ServerInv' BY ServerInvFrame DEF ServerInv
  <2>2. nr_mapper = nr_reducer => DoneWorkers = Workers
    BY AllRecorded DEF AllDone, TaskCount, InLoop, LoopControl
  <2>3. ControlInv' BY <2>2 DEF ControlInv, DoneWorkers
  <2>4. SpawnInv' /\ DownInv' /\ PollInv' /\ ReplyInv' /\ UntoldInv' /\ CountInv'
    BY DEF SpawnInv, DownInv, PollInv, ReplyInv, UntoldInv, NotCalledYet, CountInv, InLoop,
           LoopControl, procVars
  <2>5. RecordInv'
    BY DEF RecordInv, StatusHeld, InLoop, LoopControl, TaskCount, Settled, Ready,
           Written, Ready, MapOutputReady, ReduceOutputReady, procVars, diskVars
  <2> QED BY <2>1, <2>3, <2>4, <2>5 DEF ServerInv
<1> QED BY <1>1, <1>2, <1>3

(* Connections come and go.                                                *)
LEMMA ConnectionSteps ==
  ASSUME IInv, TypeInv', NewClient \/ Reconnect \/ \E w \in Workers : ClientIO(w)
  PROVE  IInv'
<1> USE DEF IInv, TypeInv
<1> USE DEF NewClient, Reconnect, ClientIO, ConnectOk, ConnectRefused, NoticeEof, ReadFails,
            masterVars, envVars
<1>1. ServerInv' BY ServerInvFrame DEF ServerInv
<1>2. UNCHANGED <<phase, task_status, nr_done, req, reply, procVars, diskVars>>
  OBVIOUS
<1>3. DownInv'
  <2>1. CASE NewClient BY <2>1, <1>2 DEF DownInv, procVars, TypeOK
  <2>2. CASE Reconnect BY <2>2, <1>2 DEF DownInv, procVars, TypeOK
  <2>3. ASSUME NEW w \in Workers, ClientIO(w) PROVE DownInv'
    BY <2>3, <1>2 DEF DownInv, procVars, TypeOK
  <2> QED BY <2>1, <2>2, <2>3
<1>4. SpawnInv' /\ PollInv' /\ ReplyInv'
  BY <1>2 DEF SpawnInv, PollInv, ReplyInv, Settled, Written, Ready, MapOutputReady, ReduceOutputReady,
              procVars, diskVars
<1>5. UntoldInv'
  <2>1. \A w \in Workers : NotCalledYet(w)' => NotCalledYet(w)
    BY DEF NotCalledYet
  <2> QED BY <1>2, <2>1 DEF UntoldInv, Untold, procVars
<1>6. RecordInv'
  <2>1. StatusHeld' => StatusHeld BY DEF StatusHeld, InLoop, LoopControl
  <2> QED BY <1>2, <2>1 DEF RecordInv, TaskCount, Settled, Written, Ready, MapOutputReady,
                            ReduceOutputReady, procVars, diskVars
<1>7. CountInv'
  <2>1. InLoop' => InLoop BY DEF InLoop, LoopControl
  <2> QED BY <1>2, <2>1 DEF CountInv, TaskCount, DoneWorkers
<1>8. ControlInv' BY <1>2 DEF ControlInv, DoneWorkers
<1> QED BY <1>1, <1>3, <1>4, <1>5, <1>6, <1>7, <1>8 DEF ServerInv

-----------------------------------------------------------------------------
(* Requests and forks.                                                     *)

(* What sending a request other than a call of a task leaves alone.        *)
LEMMA PostFrame ==
  ASSUME TypeOK, GoneInv, NEW v \in Workers, NEW m \in Requests, Post(v, m)
  PROVE  /\ \A w \in Workers : w # v => req'[w] = req[w]
         /\ req'[v] = req[v] \/ req'[v] = req[v] \cup {m}
         /\ ~Serving(v) => req' = req
         /\ \A w \in Workers : req[w] \subseteq req'[w]
BY DEF Post, TypeOK

(* A call of the phase's task to a server that has not had it yet.         *)
LEMMA CallSteps ==
  ASSUME IInv, TypeInv', CallTask \/ Recall
  PROVE  IInv'
<1> DEFINE v == worker_idx
<1> USE DEF IInv, TypeInv
<1>1. v \in Workers /\ NotCalledYet(v)
  BY DEF CallTask, Recall, Workers, TypeOK, IndexInv, NotCalledYet
<1>2. Untold(phase, v) BY <1>1 DEF UntoldInv
<1>3. /\ \A w \in Workers : w # v => req'[w] = req[w]
      /\ req'[v] = req[v] \/ req'[v] = req[v] \cup {phase}
      /\ ~Serving(v) => req' = req
  BY <1>1, PostFrame, PhaseFacts DEF CallTask, Recall, TypeOK
<1>4. /\ UNCHANGED <<phase, task_status, nr_done, conn, reply, procVars, diskVars>>
      /\ pc \in {"call", "recall"} /\ pc' \in {"call", "check"}
      /\ worker_idx' = worker_idx + 1
  BY DEF CallTask, Recall, envVars
<1>5. task[v] = "idle"
  <2>1. phase \in {"map", "reduce"} BY DEF TypeOK, Phases
  <2>2. task[v] \in {"idle"} \cup MapSteps \cup ReduceSteps BY <1>1 DEF TypeOK
  <2>3. \A p \in Phases : task[v] \notin Steps(p) BY <1>1, <1>2 DEF CallInv, Untold
  <2> QED BY <2>2, <2>3 DEF Steps, Phases
<1>6. GoneInv' BY <1>3, <1>4 DEF GoneInv, Serving, procVars
<1>7. SpawnInv' /\ DownInv' BY <1>4 DEF SpawnInv, DownInv, procVars
<1>8. CallInv' BY <1>1, <1>3, <1>4, <1>5 DEF CallInv, procVars
<1>9. FlagInv'
  BY <1>1, <1>2, <1>3, <1>4 DEF FlagInv, CallInv, Untold, Settled, Written, Ready, MapOutputReady,
     ReduceOutputReady, procVars, diskVars
<1>10. PollInv'
  BY <1>1, <1>3, <1>4, PhaseFacts DEF PollInv, TypeOK
<1>11. ReplyInv' BY <1>4 DEF ReplyInv
<1>12. UntoldInv'
  <2> SUFFICES ASSUME NEW w \in Workers, NotCalledYet(w)' PROVE Untold(phase, w)'
    BY DEF UntoldInv
  <2>1. NotCalledYet(w) /\ w # v
    BY DEF NotCalledYet, Workers, CallTask, Recall, TypeOK
  <2>2. Untold(phase, w) /\ req'[w] = req[w] BY <1>3, <2>1 DEF UntoldInv
  <2> QED BY <1>4, <2>2 DEF Untold, procVars
<1>13. RecordInv'
  <2> SUFFICES ASSUME StatusHeld', NEW w \in Workers, w < TaskCount, task_status[w] = 1
               PROVE  Settled(phase, w)'
    BY <1>4 DEF RecordInv, TaskCount
  <2>1. pc = "recall"
    BY DEF CallTask, StatusHeld, InLoop, LoopControl, Recall
  <2>2. w # v BY <2>1 DEF ControlInv
  <2>3. Settled(phase, w)
    BY <2>1 DEF RecordInv, StatusHeld, InLoop, LoopControl
  <2> QED
    BY <1>3, <1>4, <2>2, <2>3 DEF Settled, Written, Ready, MapOutputReady, ReduceOutputReady,
       procVars, diskVars
<1>14. CountInv'
  <2>1. InLoop' => InLoop BY DEF CallTask, Recall, InLoop, LoopControl
  <2> QED BY <1>4, <2>1 DEF CountInv, TaskCount, DoneWorkers
<1>15. ControlInv' BY <1>4 DEF ControlInv
<1>16. BarrierInv' /\ MapLoopInv' /\ ReduceLoopInv'
  BY <1>4 DEF BarrierInv, MapLoopInv, ReduceLoopInv, Written, Ready, MapOutputReady, ReduceOutputReady,
     procVars, diskVars
<1> QED BY <1>6, <1>7, <1>8, <1>9, <1>10, <1>11, <1>12, <1>13, <1>14, <1>15, <1>16

(* A request that is no call of a task: a heart-beat, or stop_server.      *)
LEMMA PollSteps ==
  ASSUME IInv, TypeInv', Poll \/ StopServer
  PROVE  IInv'
<1> DEFINE v == worker_idx
<1> USE DEF IInv, TypeInv
<1>1. v \in Workers BY DEF Poll, StopServer, Workers, TypeOK
<1>2. PICK m \in Requests \ Phases :
        Post(v, m) /\
        ((Poll /\ m = IsDone(phase)) \/ (StopServer /\ m = "stop_server"))
  BY PhaseFacts DEF Poll, StopServer, TypeOK, Requests, Phases
<1>3. /\ \A w \in Workers : w # v => req'[w] = req[w]
      /\ req'[v] = req[v] \/ req'[v] = req[v] \cup {m}
      /\ ~Serving(v) => req' = req
  BY <1>1, <1>2, PostFrame
<1>4. /\ UNCHANGED <<phase, task_status, nr_done, conn, procVars, diskVars>>
      /\ \/ pc = "check" /\ pc' = "await" /\ worker_idx' = worker_idx
         \/ pc = "stop" /\ pc' = "stop"
  BY DEF Poll, StopServer, envVars
<1>5. \A w \in Workers : \A p \in Phases : p \in req'[w] <=> p \in req[w]
  BY <1>1, <1>2, <1>3
<1>6. GoneInv' BY <1>1, <1>3, <1>4 DEF GoneInv, Serving, procVars
<1>7. SpawnInv' /\ DownInv' BY <1>4 DEF SpawnInv, DownInv, procVars
<1>8. CallInv' BY <1>4, <1>5 DEF CallInv, procVars
<1>9. \A w \in Workers : \A p \in Phases : Settled(p, w)' <=> Settled(p, w)
  BY <1>4, <1>5 DEF Settled, Written, Ready, MapOutputReady, ReduceOutputReady, procVars, diskVars
<1>10. FlagInv' BY <1>4, <1>9 DEF FlagInv, procVars
<1>11. PollInv'
  <2> SUFFICES ASSUME NEW w \in Workers, NEW p \in Phases, IsDone(p) \in req'[w]
               PROVE  pc' = "await" /\ w = worker_idx' /\ phase' = p /\ reply' = "none"
    BY DEF PollInv
  <2>1. IsDone(p) \notin req[w] BY <1>4 DEF PollInv
  <2>2. w = v /\ m = IsDone(p) BY <1>1, <1>3, <2>1
  <2>3. Poll /\ p = phase
    BY <1>2, <2>2, PhaseFacts DEF TypeOK, IsDone
  <2> QED BY <2>2, <2>3 DEF Poll
<1>12. ReplyInv' BY DEF Poll, StopServer, ReplyInv
<1>13. UntoldInv' BY <1>4 DEF UntoldInv, NotCalledYet
<1>14. RecordInv'
  <2>1. StatusHeld BY <1>4 DEF StatusHeld, InLoop, LoopControl
  <2> QED BY <1>4, <1>9, <2>1 DEF RecordInv, TaskCount, TypeOK
<1>15. CountInv'
  <2>1. InLoop' => InLoop BY <1>4 DEF InLoop, LoopControl
  <2> QED BY <1>4, <2>1 DEF CountInv, TaskCount, DoneWorkers
<1>16. ControlInv'
  <2>1. CASE Poll BY <2>1 DEF Poll, ControlInv
  <2>2. CASE StopServer BY <2>2 DEF StopServer, ControlInv, DoneWorkers
  <2> QED BY <2>1, <2>2
<1>17. BarrierInv' /\ MapLoopInv' /\ ReduceLoopInv'
  BY <1>4 DEF BarrierInv, MapLoopInv, ReduceLoopInv, Written, Ready, MapOutputReady, ReduceOutputReady,
     procVars, diskVars
<1> QED BY <1>6, <1>7, <1>8, <1>10, <1>11, <1>12, <1>13, <1>14, <1>15, <1>16, <1>17

(* fork(): the child takes the place of no process or of a dead one, which *)
(* otherwise stays as it is.                                               *)
LEMMA ForkSteps ==
  ASSUME IInv, TypeInv', StartServer \/ Restart
  PROVE  IInv'
<1> DEFINE v == worker_idx
<1> USE DEF IInv, TypeInv
<1>1. v \in Workers BY DEF StartServer, Restart, Workers, TypeOK
<1>2. req[v] = {} /\ task[v] = "idle" /\ completed[v] = {}
  <2>1. CASE StartServer
    <3>1. proc[v] = "none" BY <1>1, <2>1 DEF StartServer, SpawnInv, Workers
    <3> QED BY <1>1, <3>1 DEF GoneInv, Serving
  <2>2. CASE Restart
    <3>1. ~Serving(v)
      BY <1>1, <2>2 DEF Restart, IsServerDown, DownInv, Serving
    <3> QED BY <1>1, <3>1 DEF GoneInv
  <2> QED BY <2>1, <2>2
<1>3. UNCHANGED <<phase, task_status, nr_done, conn, req, reply, temp, output>>
  BY DEF StartServer, Restart, clientVars, diskVars
<1>4. \/ pc = "spawn" /\ pc' = "spawn" /\ worker_idx' = worker_idx + 1
      \/ pc = "check" /\ pc' = "restartSleep" /\ worker_idx' = worker_idx
  BY DEF StartServer, Restart
<1>5. /\ UNCHANGED <<task, completed>>
      /\ proc' = [proc EXCEPT ![v] = "starting"] \/ proc' = proc
      /\ \A w \in Workers : w # v => cursor'[w] = cursor[w] /\ acc'[w] = acc[w]
      /\ acc'[v] = TRUE \/ acc'[v] = acc[v]
  <2>1. CASE ForkServer(v)
    <3>1. task' = task BY <1>1, <1>2, <2>1 DEF ForkServer, TypeOK
    <3>2. completed' = completed BY <1>1, <1>2, <2>1 DEF ForkServer, TypeOK
    <3> QED BY <1>1, <2>1, <3>1, <3>2 DEF ForkServer, TypeOK
  <2>2. CASE ForkFails BY <2>2 DEF ForkFails, procVars
  <2> QED BY <2>1, <2>2 DEF StartServer, Restart
<1>6. GoneInv' BY <1>1, <1>2, <1>3, <1>5 DEF GoneInv, Serving, TypeOK
<1>7. SpawnInv' BY <1>4, <1>5 DEF SpawnInv, TypeOK, Workers
<1>8. DownInv'
  <2>1. \A w \in Workers : w # v => proc'[w] = proc[w] BY <1>5 DEF TypeOK
  <2>2. CASE StartServer
    <3>1. proc[v] = "none" /\ pc = "spawn" BY <1>1, <2>2 DEF StartServer, SpawnInv, Workers
    <3>2. conn[v] \notin {"deaf", "disconnected"} BY <1>1, <3>1 DEF DownInv
    <3> QED BY <1>3, <2>1, <3>1, <3>2 DEF DownInv
  <2>3. CASE Restart
    <3>1. conn[v] = "disconnected" /\ pc = "check" /\ pc' = "restartSleep" /\ v' = v
      BY <2>3 DEF Restart, IsServerDown
    <3> QED BY <1>3, <2>1, <3>1 DEF DownInv
  <2> QED BY <2>2, <2>3
<1>9. CallInv' BY <1>3, <1>5 DEF CallInv
<1>10. \A w \in Workers : \A p \in Phases : Settled(p, w)' <=> Settled(p, w)
  BY <1>3, <1>5 DEF Settled, Written, Ready, MapOutputReady, ReduceOutputReady
<1>11. FlagInv' BY <1>3, <1>5, <1>10 DEF FlagInv
<1>12. PollInv' /\ ReplyInv' BY <1>3, <1>4 DEF PollInv, ReplyInv
<1>13. UntoldInv'
  <2> SUFFICES ASSUME NEW w \in Workers, NotCalledYet(w)' PROVE Untold(phase, w)
    BY <1>3, <1>5 DEF UntoldInv, Untold
  <2>1. NotCalledYet(w) \/ w = v BY <1>4 DEF NotCalledYet
  <2>2. CASE NotCalledYet(w) BY <2>2 DEF UntoldInv
  <2>3. CASE w = v BY <1>2, <2>3 DEF Untold, Steps, MapSteps, ReduceSteps
  <2> QED BY <2>1, <2>2, <2>3
<1>14. RecordInv'
  <2>1. StatusHeld' => StatusHeld BY <1>4 DEF StatusHeld, InLoop, LoopControl
  <2> QED BY <1>3, <1>10, <2>1 DEF RecordInv, TaskCount, TypeOK
<1>15. CountInv'
  <2>1. InLoop' => InLoop BY <1>4 DEF InLoop, LoopControl
  <2> QED BY <1>3, <2>1 DEF CountInv, TaskCount, DoneWorkers
<1>16. ControlInv'
  <2>1. CASE StartServer BY <2>1 DEF StartServer, ControlInv
  <2>2. CASE Restart BY <2>2 DEF Restart, ControlInv
  <2> QED BY <2>1, <2>2
<1>17. BarrierInv' BY <1>3 DEF BarrierInv, MapOutputReady
<1>18. MapLoopInv' BY <1>1, <1>2, <1>3, <1>5 DEF MapLoopInv, Written, Ready, MapOutputReady, TypeOK
<1>19. ReduceLoopInv'
  BY <1>1, <1>2, <1>3, <1>5 DEF ReduceLoopInv, Written, Ready, ReduceOutputReady, TypeOK
<1> QED
  BY <1>6, <1>7, <1>8, <1>9, <1>11, <1>12, <1>13, <1>14, <1>15, <1>16, <1>17, <1>18, <1>19

(* The answer of the heart-beat is recorded and counted.                   *)
LEMMA AnswerStep ==
  ASSUME IInv, TypeInv', Answer
  PROVE  IInv'
<1> DEFINE v == worker_idx
<1> USE DEF IInv, TypeInv
<1> USE DEF Answer, procVars, diskVars, envVars
<1>1. v \in Workers /\ v \in Index BY DEF Workers, Index, TypeOK, IndexInv
<1>2. task_status[v] # 1 BY DEF ControlInv
<1>3. ServerInv' BY ServerInvFrame DEF ServerInv, procVars, diskVars
<1>4. SpawnInv' /\ DownInv' /\ ReplyInv' /\ UntoldInv' /\ ControlInv'
  BY DEF SpawnInv, DownInv, ReplyInv, UntoldInv, NotCalledYet, ControlInv
<1>5. PollInv' BY DEF PollInv
<1>6. RecordInv'
  <2> SUFFICES ASSUME NEW w \in Workers, w < TaskCount, task_status'[w] = 1
               PROVE  Settled(phase, w)
    BY DEF RecordInv, TaskCount, Settled, Written, Ready, MapOutputReady, ReduceOutputReady
  <2>1. CASE task_status[w] = 1
    BY <2>1 DEF RecordInv, StatusHeld, InLoop, LoopControl
  <2>2. CASE task_status[w] # 1
    <3>1. reply = "yes" /\ w = v BY <2>2 DEF TypeOK, Index
    <3> QED BY <3>1 DEF ReplyInv
  <2> QED BY <2>1, <2>2
<1>7. CountInv'
  <2> SUFFICES ASSUME TaskCount = nr_mapper PROVE nr_done' = Cardinality(DoneWorkers')
    BY DEF CountInv, TaskCount
  <2>1. nr_done = Cardinality(DoneWorkers) BY DEF CountInv, InLoop, LoopControl
  <2>2. CASE reply = "yes"
    <3>1. IsFiniteSet(DoneWorkers)
      <4>1. IsFiniteSet(Workers) BY FS_Interval DEF Workers
      <4>2. DoneWorkers \in SUBSET Workers BY DEF DoneWorkers
      <4> QED BY <4>1, <4>2, FS_Subset
    <3>2. DoneWorkers' = DoneWorkers \cup {v}
      <4>1. task_status' = [task_status EXCEPT ![v] = 1] BY <2>2
      <4>2. \A w \in Workers : task_status'[w] = 1 <=> task_status[w] = 1 \/ w = v
        BY <1>1, <4>1 DEF TypeOK, Index
      <4> QED BY <1>1, <4>2 DEF DoneWorkers
    <3>3. v \notin DoneWorkers BY <1>2 DEF DoneWorkers
    <3>4. Cardinality(DoneWorkers \cup {v}) = Cardinality(DoneWorkers) + 1
      BY <3>1, <3>3, FS_AddElement
    <3> QED BY <2>1, <2>2, <3>2, <3>4
  <2>3. CASE reply # "yes" BY <2>1, <2>3 DEF DoneWorkers
  <2> QED BY <2>2, <2>3
<1> QED BY <1>3, <1>4, <1>5, <1>6, <1>7 DEF ServerInv

(* Every step of the master keeps the invariant.                           *)
LEMMA MasterSteps == ASSUME IInv, TypeInv', Master PROVE IInv'
BY ControlSteps, PhaseSteps, ConnectionSteps, CallSteps, PollSteps, ForkSteps, AnswerStep
DEF Master

-----------------------------------------------------------------------------
(* Steps of the servers and of their environment.                          *)

(* What the invariant says of the master holds on as long as the servers   *)
(* do not undo what is settled, nor take up what they were not told.       *)
MasterInv ==
  SpawnInv /\ DownInv /\ PollInv /\ ReplyInv /\ UntoldInv /\ RecordInv /\ CountInv
  /\ ControlInv

(* A step of a server that leaves what the master knows about it alone.    *)
LEMMA MasterInvFrame ==
  ASSUME MasterInv,
         UNCHANGED <<masterVars, conn, reply>>,
         \A w \in Workers : proc[w] \in {"none", "dead"} => proc'[w] = proc[w],
         \A w \in Workers : req'[w] \subseteq req[w],
         \A w \in Workers : \A p \in Phases : Settled(p, w) => Settled(p, w)',
         \A w \in Workers : Untold(phase, w) => Untold(phase, w)',
         TypeOK, IndexInv
  PROVE  MasterInv'
<1> USE DEF MasterInv, masterVars
<1>1. SpawnInv' /\ DownInv' BY DEF SpawnInv, DownInv
<1>2. PollInv' BY DEF PollInv
<1>3. ReplyInv'
  <2> SUFFICES ASSUME reply = "yes" PROVE pc = "await" /\ Settled(phase, worker_idx)'
    BY DEF ReplyInv
  <2>1. pc = "await" /\ Settled(phase, worker_idx) BY DEF ReplyInv
  <2>2. worker_idx \in Workers BY <2>1 DEF TypeOK, IndexInv, Workers
  <2> QED BY <2>1, <2>2 DEF TypeOK, Settled
<1>4. UntoldInv' BY DEF UntoldInv, NotCalledYet
<1>5. RecordInv' BY DEF RecordInv, StatusHeld, InLoop, TaskCount, TypeOK
<1>6. CountInv' BY DEF CountInv, DoneWorkers, InLoop, TaskCount
<1>7. ControlInv' BY DEF ControlInv, DoneWorkers
<1> QED BY <1>1, <1>2, <1>3, <1>4, <1>5, <1>6, <1>7

(* A server comes up, or its main thread leaves.                           *)
LEMMA ProcessSteps ==
  ASSUME IInv, TypeInv', NEW v \in Workers, Listen(v) \/ StdinReturns(v)
  PROVE  IInv'
<1> USE DEF IInv, TypeInv, Listen, StdinReturns, masterVars, clientVars, diskVars
<1>1. \A w \in Workers : proc[w] \in {"none", "dead"} => proc'[w] = proc[w]
  BY DEF TypeOK
<1>2. \A w \in Workers : \A p \in Phases : Settled(p, w) => Settled(p, w)'
  BY DEF Settled, Written, Ready, MapOutputReady, ReduceOutputReady
<1>3. \A w \in Workers : Untold(phase, w) => Untold(phase, w)' BY DEF Untold
<1>4. MasterInv' BY <1>1, <1>2, <1>3, MasterInvFrame DEF MasterInv
<1>5. GoneInv' BY DEF GoneInv, Serving, TypeOK
<1>6. UNCHANGED <<phase, req, task, completed>> OBVIOUS
<1>9. CallInv' BY <1>6 DEF CallInv
<1>7. FlagInv' BY <1>2, <1>6 DEF FlagInv
<1>8. BarrierInv' /\ MapLoopInv' /\ ReduceLoopInv'
  BY DEF BarrierInv, MapLoopInv, ReduceLoopInv, Written, Ready, MapOutputReady, ReduceOutputReady
<1> QED BY <1>4, <1>5, <1>7, <1>8, <1>9 DEF MasterInv

(* A server is gone: its files stay, everything else of it is lost.        *)
LEMMA DieStep ==
  ASSUME IInv, TypeInv', NEW v \in Workers, Die(v), Alive(v),
         UNCHANGED <<masterVars, conn, reply, diskVars>>
  PROVE  IInv'
<1> USE DEF IInv, TypeInv, Die, Alive, masterVars, diskVars
<1>1. \A w \in Workers : proc[w] \in {"none", "dead"} => proc'[w] = proc[w]
  BY DEF TypeOK
<1>2. \A w \in Workers : req'[w] \subseteq req[w] /\ completed'[w] \subseteq completed[w]
  BY DEF TypeOK
<1>3. \A w \in Workers : task'[w] = task[w] \/ task'[w] = "idle" BY DEF TypeOK
<1>4. "idle" \notin MapSteps \cup ReduceSteps BY DEF MapSteps, ReduceSteps
<1>5. \A w \in Workers : \A p \in Phases : Settled(p, w) => Settled(p, w)'
  BY <1>2, <1>3, <1>4 DEF Settled, Written, Ready, MapOutputReady, ReduceOutputReady, Steps
<1>6. \A w \in Workers : Untold(phase, w) => Untold(phase, w)'
  BY <1>2, <1>3, <1>4 DEF Untold, Steps
<1>7. MasterInv' BY <1>1, <1>2, <1>5, <1>6, MasterInvFrame DEF MasterInv
<1>8. GoneInv' BY DEF GoneInv, Serving, TypeOK
<1>9. CallInv' BY <1>2, <1>3, <1>4 DEF CallInv, Steps
<1>10. FlagInv' BY <1>2, <1>5 DEF FlagInv
<1>11. BarrierInv' BY DEF BarrierInv, MapOutputReady
<1>12. MapLoopInv' BY DEF MapLoopInv, Written, Ready, MapOutputReady, TypeOK
<1>13. ReduceLoopInv' BY DEF ReduceLoopInv, Written, Ready, ReduceOutputReady, TypeOK
<1> QED BY <1>7, <1>8, <1>9, <1>10, <1>11, <1>12, <1>13 DEF MasterInv

(* A thread takes the call of a task.                                      *)
LEMMA StartTaskStep ==
  ASSUME IInv, TypeInv', NEW v \in Workers, NEW q \in Phases, StartTask(v, q)
  PROVE  IInv'
<1> USE DEF IInv, TypeInv, StartTask, masterVars, diskVars
<1>1. q \in req[v] /\ phase = q /\ task[v] = "idle" /\ proc[v] = "up" BY DEF CallInv
<1>2. \A w \in Workers : req'[w] = IF w = v THEN req[v] \ {q} ELSE req[w] BY DEF TypeOK
<1>3. \A w \in Workers : w # v => task'[w] = task[w] /\ cursor'[w] = cursor[w] BY DEF TypeOK
<1>4. /\ task'[v] = IF q = "map" THEN "mapRead" ELSE "reduceRead"
      /\ cursor'[v] = 0
  BY DEF TypeOK
<1>5. \A p \in Phases : task'[v] \in Steps(p) <=> p = q
  BY <1>4 DEF Steps, MapSteps, ReduceSteps, Phases
<1>6. \A w \in Workers : \A p \in Phases : Settled(p, w) => Settled(p, w)'
  BY <1>1, <1>2, <1>3, <1>5 DEF Settled, Written, Ready, MapOutputReady, ReduceOutputReady
<1>7. \A w \in Workers : Untold(phase, w) => Untold(phase, w)'
  BY <1>1, <1>2, <1>3 DEF Untold
<1>8. MasterInv' BY <1>2, <1>6, <1>7, MasterInvFrame DEF MasterInv
<1>9. GoneInv' BY <1>1, <1>2, <1>3 DEF GoneInv, Serving
<1>10. CallInv'
  <2> SUFFICES ASSUME NEW w \in Workers, NEW p \in Phases
               PROVE  /\ p \in req'[w] => phase = p /\ task'[w] = "idle"
                      /\ task'[w] \in Steps(p) => phase = p
    BY DEF CallInv
  <2>1. CASE w = v BY <1>1, <1>2, <1>5, <2>1 DEF CallInv
  <2>2. CASE w # v BY <1>2, <1>3, <2>2 DEF CallInv
  <2> QED BY <2>1, <2>2
<1>11. FlagInv' BY <1>6 DEF FlagInv
<1>12. BarrierInv' BY DEF BarrierInv, MapOutputReady
<1>13. MapLoopInv'
  BY <1>3, <1>4 DEF MapLoopInv, Written, Ready, MapOutputReady
<1>14. ReduceLoopInv'
  <2>1. 0 \in Workers BY DEF Workers
  <2> QED BY <1>3, <1>4, <2>1 DEF ReduceLoopInv, Written, Ready, ReduceOutputReady, TypeOK
<1> QED BY <1>8, <1>9, <1>10, <1>11, <1>12, <1>13, <1>14 DEF MasterInv

(* The heart-beat is answered with the flag.                               *)
LEMMA AnswerPollStep ==
  ASSUME IInv, TypeInv', NEW v \in Workers, NEW q \in Phases, AnswerPoll(v, q)
  PROVE  IInv'
<1> USE DEF IInv, TypeInv, AnswerPoll, masterVars, procVars, diskVars, envVars
<1>1. pc = "await" /\ v = worker_idx /\ phase = q BY DEF PollInv
<1>2. \A w \in Workers : req'[w] = IF w = v THEN req[v] \ {IsDone(q)} ELSE req[w]
  BY DEF TypeOK
<1>3. \A w \in Workers : \A p \in Phases : p \in req'[w] <=> p \in req[w]
  BY <1>2, PhaseFacts
<1>4. \A w \in Workers : \A p \in Phases : Settled(p, w)' <=> Settled(p, w)
  BY <1>3 DEF Settled, Written, Ready, MapOutputReady, ReduceOutputReady
<1>5. SpawnInv' /\ DownInv' BY DEF SpawnInv, DownInv
<1>6. GoneInv' BY <1>2 DEF GoneInv, Serving
<1>7. CallInv' BY <1>3 DEF CallInv
<1>8. FlagInv' BY <1>4 DEF FlagInv
<1>9. PollInv'
  <2> SUFFICES ASSUME NEW w \in Workers, NEW p \in Phases, IsDone(p) \in req'[w]
               PROVE  FALSE
    BY DEF PollInv
  <2>1. w = v /\ p = q BY <1>1, <1>2 DEF PollInv
  <2> QED BY <1>2, <2>1
<1>10. ReplyInv'
  <2>1. reply' = "yes" => Settled(q, v) BY DEF FlagInv
  <2> QED BY <1>1, <1>4, <2>1 DEF ReplyInv
<1>11. UntoldInv' BY <1>1 DEF UntoldInv, NotCalledYet
<1>12. RecordInv' BY <1>4 DEF RecordInv, StatusHeld, InLoop, TaskCount, TypeOK
<1>13. CountInv' BY DEF CountInv, DoneWorkers, InLoop, TaskCount
<1>14. ControlInv' BY DEF ControlInv, DoneWorkers
<1>15. BarrierInv' /\ MapLoopInv' /\ ReduceLoopInv'
  BY DEF BarrierInv, MapLoopInv, ReduceLoopInv, Written, Ready, MapOutputReady, ReduceOutputReady
<1> QED
  BY <1>5, <1>6, <1>7, <1>8, <1>9, <1>10, <1>11, <1>12, <1>13, <1>14, <1>15

-----------------------------------------------------------------------------
(* Steps of the controller modules.                                        *)

(* A server that goes on with its task, or ends it, disturbs neither the   *)
(* master nor the other servers, if what is settled stays on disk.         *)
LEMMA TaskFrame ==
  ASSUME IInv, NEW v \in Workers, Serving(v),
         NEW q \in Phases, task[v] \in Steps(q),
         NEW s \in Steps(q) \cup {"idle"}, task' = [task EXCEPT ![v] = s],
         UNCHANGED <<masterVars, clientVars, proc>>,
         \A w \in Workers : w # v => completed'[w] = completed[w],
         \A w \in Workers : \A p \in Phases : Settled(p, w) => Written(p, w)'
  PROVE  /\ MasterInv' /\ GoneInv' /\ CallInv'
         /\ phase = q
         /\ \A w \in Workers : \A p \in Phases : Settled(p, w) => Settled(p, w)'
<1> USE DEF IInv, TypeInv, masterVars, clientVars
<1>1. phase = q BY DEF CallInv
<1>2. \A w \in Workers : task'[w] = IF w = v THEN s ELSE task[w] BY DEF TypeOK
<1>3. \A p \in Phases : s \in Steps(p) => p = q
  BY DEF Steps, MapSteps, ReduceSteps, Phases
<1>4. \A w \in Workers : \A p \in Phases : Settled(p, w) => Settled(p, w)'
  <2> SUFFICES ASSUME NEW w \in Workers, NEW p \in Phases, Settled(p, w)
               PROVE  task'[w] \notin Steps(p)
    BY DEF Settled
  <2>1. CASE w = v BY <1>2, <1>3, <2>1 DEF Settled
  <2>2. CASE w # v BY <1>2, <2>2 DEF Settled
  <2> QED BY <2>1, <2>2
<1>5. \A w \in Workers : Untold(phase, w) => Untold(phase, w)'
  BY <1>1, <1>2 DEF Untold
<1>6. MasterInv' BY <1>4, <1>5, MasterInvFrame DEF MasterInv
<1>7. GoneInv' BY <1>2 DEF GoneInv, Serving
<1>8. "idle" \notin Steps(q) BY DEF Steps, MapSteps, ReduceSteps
<1>9. CallInv'
  <2> SUFFICES ASSUME NEW w \in Workers, NEW p \in Phases
               PROVE  /\ p \in req[w] => phase = p /\ task'[w] = "idle"
                      /\ task'[w] \in Steps(p) => phase = p
    BY DEF CallInv
  <2>1. CASE w = v BY <1>1, <1>2, <1>3, <1>8, <2>1 DEF CallInv
  <2>2. CASE w # v BY <1>2, <2>2 DEF CallInv
  <2> QED BY <2>1, <2>2
<1> QED BY <1>1, <1>4, <1>6, <1>7, <1>9

(* map_controller_module up to the point where it touches a file.          *)
LEMMA MapReadStep ==
  ASSUME IInv, TypeInv', NEW v \in Workers, MapRead(v)
  PROVE  IInv'
<1> USE DEF IInv, TypeInv, masterVars, clientVars, diskVars
<1>1. CASE Die(v) BY <1>1, DieStep DEF MapRead, Serving, Alive, diskVars
<1>2. CASE ~Die(v)
  <2> USE <1>2 DEF MapRead
  <2>1. PICK s \in {"mapOpen", "mapReturn"} :
          task' = [task EXCEPT ![v] = s] /\ (s = "mapReturn" => ~NoErrorCodes)
    BY DEF NoErrorCodes
  <2>2. /\ Serving(v) /\ task[v] = "mapRead"
        /\ UNCHANGED <<masterVars, clientVars, proc, cursor, acc, completed, diskVars>>
    OBVIOUS
  <2>3. \A w \in Workers : \A p \in Phases : Settled(p, w) => Written(p, w)'
    BY <2>2 DEF Settled, Written, Ready, MapOutputReady, ReduceOutputReady
  <2>4. /\ MasterInv' /\ GoneInv' /\ CallInv'
        /\ \A w \in Workers : \A p \in Phases : Settled(p, w) => Settled(p, w)'
    <3>1. "map" \in Phases /\ {"mapRead", "mapOpen", "mapReturn"} \subseteq Steps("map")
      BY DEF Phases, Steps, MapSteps
    <3> QED BY <2>1, <2>2, <2>3, <3>1, TaskFrame
  <2>5. FlagInv' BY <2>2, <2>4 DEF FlagInv
  <2>6. BarrierInv' BY <2>2 DEF BarrierInv, MapOutputReady
  <2>7. MapLoopInv'
    <3>1. 0 \in Reducers BY DEF Reducers
    <3> QED BY <2>1, <2>2, <3>1 DEF MapLoopInv, Written, Ready, MapOutputReady, TypeOK
  <2>8. ReduceLoopInv' BY <2>1, <2>2 DEF ReduceLoopInv, Written, Ready, ReduceOutputReady, TypeOK
  <2> QED BY <2>4, <2>5, <2>6, <2>7, <2>8 DEF MasterInv
<1> QED BY <1>1, <1>2

(* One temporary file is truncated, or closed.                             *)
LEMMA MapFileStep ==
  ASSUME IInv, TypeInv', NEW v \in Workers, MapOpen(v) \/ MapClose(v)
  PROVE  IInv'
<1> DEFINE c == cursor[v]
<1> USE DEF IInv, TypeInv, masterVars, clientVars
<1>1. /\ Serving(v) /\ task[v] \in {"mapOpen", "mapClose"} /\ c \in Reducers
      /\ UNCHANGED <<masterVars, clientVars, proc, acc, completed, output>>
  BY DEF MapOpen, MapClose, MapLoopInv
<1>2. PICK s \in MapSteps : task' = [task EXCEPT ![v] = s]
  BY DEF MapOpen, MapClose, MapSteps
<1>3. \A w \in Workers : w # v => /\ temp'[w] = temp[w] /\ task'[w] = task[w]
                                   /\ cursor'[w] = cursor[w]
  BY DEF MapOpen, MapClose, TypeOK
<1>4. task[v] \in Steps("map") /\ MapSteps = Steps("map") /\ "map" \in Phases
  BY <1>1 DEF Steps, MapSteps, Phases
<1>5. \A w \in Workers : \A p \in Phases : Settled(p, w) => Written(p, w)'
  BY <1>1, <1>3, <1>4 DEF Settled, Written, Ready, MapOutputReady, ReduceOutputReady, Phases
<1>6. /\ MasterInv' /\ GoneInv' /\ CallInv' /\ phase = "map"
      /\ \A w \in Workers : \A p \in Phases : Settled(p, w) => Settled(p, w)'
  BY <1>1, <1>2, <1>4, <1>5, TaskFrame
<1>7. FlagInv' BY <1>1, <1>6 DEF FlagInv
<1>8. BarrierInv' BY <1>1, <1>6 DEF BarrierInv
<1>9. MapLoopInv'
  <2> DEFINE n == IF c + 1 < nr_reducer THEN c + 1 ELSE 0
  <2>1. cursor'[v] = n /\ n \in Reducers
    BY <1>1 DEF MapOpen, MapClose, Following, Reducers, TypeOK
  <2>2. CASE MapOpen(v)
    <3>1. task'[v] = IF n = 0 THEN "mapClose" ELSE "mapOpen"
      BY <2>1, <2>2 DEF MapOpen, TypeOK
    <3>2. \A r \in Reducers : ~(r < 0) BY DEF Reducers
    <3> QED BY <1>3, <2>1, <3>1, <3>2 DEF MapLoopInv, Written, Ready, MapOutputReady
  <2>3. CASE MapClose(v)
    <3>1. task'[v] = IF n = 0 THEN "mapReturn" ELSE "mapClose"
      BY <2>1, <2>3 DEF MapClose, TypeOK
    <3>2. \A r \in Reducers : r < c \/ r = c => temp'[v][r] = "full"
      <4>1. temp'[v] = [temp[v] EXCEPT ![c] = "full"] BY <2>3 DEF MapClose, TypeOK
      <4>2. \A r \in Reducers : r < c => temp[v][r] = "full"
        BY <2>3 DEF MapClose, MapLoopInv
      <4> QED BY <1>1, <4>1, <4>2 DEF TypeOK, Index
    <3>3. n = 0 => MapOutputReady(v)'
      BY <1>1, <3>2 DEF MapOutputReady, Reducers
    <3>4. n # 0 => \A r \in Reducers : r < n => temp'[v][r] = "full"
      BY <1>1, <3>2 DEF Reducers
    <3> QED BY <1>3, <2>1, <3>1, <3>3, <3>4 DEF MapLoopInv, Written, Ready, MapOutputReady
  <2> QED BY <2>2, <2>3
<1>10. ReduceLoopInv'
  <2>1. task'[v] \notin ReduceSteps BY <1>2 DEF MapSteps, ReduceSteps, TypeOK
  <2> QED BY <1>1, <1>3, <2>1 DEF ReduceLoopInv, Written, Ready, ReduceOutputReady, ReduceSteps
<1> QED BY <1>6, <1>7, <1>8, <1>9, <1>10 DEF MasterInv

(* The handler raises the flag and is done.                                *)
LEMMA ReturnStep ==
  ASSUME IInv, TypeInv', NEW v \in Workers, MapReturn(v) \/ ReduceReturn(v)
  PROVE  IInv'
<1> USE DEF IInv, TypeInv, masterVars, clientVars, diskVars
<1>1. PICK q \in Phases : /\ task[v] \in Steps(q)
                          /\ completed' = [completed EXCEPT ![v] = @ \cup {q}]
                          /\ Written(q, v)
  BY DEF MapReturn, ReduceReturn, Phases, Steps, MapSteps, ReduceSteps,
         MapLoopInv, ReduceLoopInv
<1>2. /\ Serving(v) /\ task' = [task EXCEPT ![v] = "idle"]
      /\ UNCHANGED <<masterVars, clientVars, proc, cursor, acc, diskVars>>
  BY DEF MapReturn, ReduceReturn
<1>3. \A w \in Workers : \A p \in Phases : Written(p, w)' <=> Written(p, w)
  BY <1>2 DEF Written, Ready, MapOutputReady, ReduceOutputReady
<1>4. /\ MasterInv' /\ GoneInv' /\ CallInv' /\ phase = q
      /\ \A w \in Workers : \A p \in Phases : Settled(p, w) => Settled(p, w)'
  <2>1. \A w \in Workers : w # v => completed'[w] = completed[w] BY <1>1 DEF TypeOK
  <2>2. \A w \in Workers : \A p \in Phases : Settled(p, w) => Written(p, w)'
    BY <1>3 DEF Settled
  <2>3. "idle" \in Steps(q) \cup {"idle"} OBVIOUS
  <2> QED BY <1>1, <1>2, <2>1, <2>2, <2>3, TaskFrame
<1>5. FlagInv'
  <2> SUFFICES ASSUME NEW w \in Workers, NEW p \in Phases, p \in completed'[w]
               PROVE  Settled(p, w)' /\ (p = "reduce" => phase = "reduce")
    BY <1>2 DEF FlagInv
  <2>1. CASE p \in completed[w] BY <1>4, <2>1 DEF FlagInv
  <2>2. CASE p \notin completed[w]
    <3>1. w = v /\ p = q BY <1>1, <2>2 DEF TypeOK
    <3>2. p \notin req[v] BY <1>1, <3>1 DEF CallInv, Steps, MapSteps, ReduceSteps
    <3>3. task'[v] \notin Steps(p) BY <1>2 DEF TypeOK, Steps, MapSteps, ReduceSteps
    <3> QED BY <1>1, <1>2, <1>3, <1>4, <3>1, <3>2, <3>3 DEF Settled
  <2> QED BY <2>1, <2>2
<1>6. BarrierInv' BY <1>2 DEF BarrierInv, MapOutputReady
<1>7. MapLoopInv' BY <1>2 DEF MapLoopInv, Written, Ready, MapOutputReady, TypeOK
<1>8. ReduceLoopInv' BY <1>2 DEF ReduceLoopInv, Written, Ready, ReduceOutputReady, TypeOK
<1> QED BY <1>4, <1>5, <1>6, <1>7, <1>8 DEF MasterInv

(* A temporary file is read: the barrier has made it a complete one.       *)
LEMMA ReduceReadStep ==
  ASSUME IInv, TypeInv', NEW v \in Workers, ReduceRead(v)
  PROVE  IInv'
<1> USE DEF IInv, TypeInv, ReduceRead, masterVars, clientVars, diskVars
<1>1. PICK s \in {"reduceRead", "reduceApply"} : task' = [task EXCEPT ![v] = s]
  OBVIOUS
<1>2. "reduce" \in Phases /\ {"reduceRead", "reduceApply"} \subseteq Steps("reduce")
  BY DEF Phases, Steps, ReduceSteps
<1>3. \A w \in Workers : \A p \in Phases : Settled(p, w) => Written(p, w)'
  BY DEF Settled, Written, Ready, MapOutputReady, ReduceOutputReady
<1>4. /\ MasterInv' /\ GoneInv' /\ CallInv' /\ phase = "reduce"
      /\ \A w \in Workers : \A p \in Phases : Settled(p, w) => Settled(p, w)'
  BY <1>1, <1>2, <1>3, TaskFrame
<1>5. FlagInv' BY <1>4 DEF FlagInv
<1>6. BarrierInv' BY DEF BarrierInv, MapOutputReady
<1>7. MapLoopInv' BY <1>1 DEF MapLoopInv, Written, Ready, MapOutputReady, TypeOK
<1>8. ReduceLoopInv'
  <2>1. cursor[v] \in Workers BY DEF ReduceLoopInv
  <2>2. cursor'[v] \in Workers
    BY <2>1 DEF Following, Workers, TypeOK
  <2>3. v \in Reducers /\ NoErrorCodes => acc'[v] = TRUE
    <3>1. v \in Reducers /\ NoErrorCodes => temp[cursor[v]][v] = "full"
      BY <1>4, <2>1 DEF BarrierInv, MapOutputReady
    <3> QED BY <3>1 DEF ReduceLoopInv, TypeOK
  <2> QED BY <1>1, <2>2, <2>3 DEF ReduceLoopInv, Written, Ready, ReduceOutputReady, TypeOK
<1> QED BY <1>4, <1>5, <1>6, <1>7, <1>8 DEF MasterInv

(* reduce_fn is applied.                                                   *)
LEMMA ReduceApplyStep ==
  ASSUME IInv, TypeInv', NEW v \in Workers, ReduceApply(v)
  PROVE  IInv'
<1> USE DEF IInv, TypeInv, masterVars, clientVars, diskVars
<1>1. CASE Die(v) BY <1>1, DieStep DEF ReduceApply, Serving, Alive, diskVars
<1>2. CASE ~Die(v)
  <2> USE <1>2 DEF ReduceApply
  <2>1. PICK s \in {"reduceOpen", "reduceReturn"} :
          task' = [task EXCEPT ![v] = s] /\ (s = "reduceReturn" => ~NoErrorCodes)
    BY DEF NoErrorCodes
  <2>2. /\ Serving(v) /\ task[v] = "reduceApply"
        /\ UNCHANGED <<masterVars, clientVars, proc, cursor, acc, completed, diskVars>>
    OBVIOUS
  <2>3. \A w \in Workers : \A p \in Phases : Settled(p, w) => Written(p, w)'
    BY <2>2 DEF Settled, Written, Ready, MapOutputReady, ReduceOutputReady
  <2>4. /\ MasterInv' /\ GoneInv' /\ CallInv'
        /\ \A w \in Workers : \A p \in Phases : Settled(p, w) => Settled(p, w)'
    <3>1. "reduce" \in Phases /\ {"reduceApply", "reduceOpen", "reduceReturn"} \subseteq Steps("reduce")
      BY DEF Phases, Steps, ReduceSteps
    <3> QED BY <2>1, <2>2, <2>3, <3>1, TaskFrame
  <2>5. FlagInv' BY <2>2, <2>4 DEF FlagInv
  <2>6. BarrierInv' BY <2>2 DEF BarrierInv, MapOutputReady
  <2>7. MapLoopInv' BY <2>1, <2>2 DEF MapLoopInv, Written, Ready, MapOutputReady, TypeOK
  <2>8. ReduceLoopInv' BY <2>1, <2>2 DEF ReduceLoopInv, Written, Ready, ReduceOutputReady, TypeOK
  <2> QED BY <2>4, <2>5, <2>6, <2>7, <2>8 DEF MasterInv
<1> QED BY <1>1, <1>2

(* The output file is truncated, or filled and closed.                     *)
LEMMA ReduceFileStep ==
  ASSUME IInv, TypeInv', NEW v \in Workers, ReduceOpen(v) \/ ReduceClose(v)
  PROVE  IInv'
<1> USE DEF IInv, TypeInv, masterVars, clientVars
<1>1. /\ Serving(v) /\ task[v] \in {"reduceOpen", "reduceClose"} /\ v \in Index
      /\ UNCHANGED <<masterVars, clientVars, proc, cursor, acc, completed, temp>>
  BY DEF ReduceOpen, ReduceClose, Index
<1>2. PICK s \in {"reduceClose", "reduceReturn"} : task' = [task EXCEPT ![v] = s]
  BY DEF ReduceOpen, ReduceClose
<1>3. \A w \in Index : w # v => output'[w] = output[w]
  BY DEF ReduceOpen, ReduceClose, TypeOK
<1>4. /\ "reduce" \in Phases
      /\ {"reduceOpen", "reduceClose", "reduceReturn"} \subseteq Steps("reduce")
  BY DEF Phases, Steps, ReduceSteps
<1>5. \A w \in Workers : \A p \in Phases : Settled(p, w) => Written(p, w)'
  BY <1>1, <1>3, <1>4 DEF Settled, Written, Ready, MapOutputReady, ReduceOutputReady, Phases, Index
<1>6. /\ MasterInv' /\ GoneInv' /\ CallInv'
      /\ \A w \in Workers : \A p \in Phases : Settled(p, w) => Settled(p, w)'
  BY <1>1, <1>2, <1>4, <1>5, TaskFrame
<1>7. FlagInv' BY <1>1, <1>6 DEF FlagInv
<1>8. BarrierInv' BY <1>1 DEF BarrierInv, MapOutputReady
<1>9. MapLoopInv' BY <1>1, <1>2 DEF MapLoopInv, Written, Ready, MapOutputReady, TypeOK
<1>10. ReduceLoopInv'
  <2>1. s = "reduceReturn" /\ v \in Reducers /\ NoErrorCodes => output'[v] = "full"
    BY <1>1, <1>2 DEF ReduceOpen, ReduceClose, ReduceLoopInv, TypeOK
  <2> QED BY <1>1, <1>2, <1>3, <2>1 DEF ReduceLoopInv, Written, Ready, ReduceOutputReady, TypeOK, Index
<1> QED BY <1>6, <1>7, <1>8, <1>9, <1>10 DEF MasterInv

-----------------------------------------------------------------------------
(* The theorems.                                                           *)

(* Every step of a client's io thread, a server or the environment does.   *)
LEMMA ServerSteps ==
  ASSUME IInv, TypeInv', NEW w \in Workers, ClientIO(w) \/ Worker(w) \/ Environment(w)
  PROVE  IInv'
<1>1. ASSUME ClientIO(w) PROVE IInv' BY <1>1, ConnectionSteps
<1>2. ASSUME Listen(w) \/ StdinReturns(w) PROVE IInv' BY <1>2, ProcessSteps
<1>3. ASSUME HandleStop(w) \/ LeaveExit(w) \/ Kill(w) PROVE IInv'
  BY <1>3, DieStep DEF HandleStop, LeaveExit, Kill, Alive
<1>4. ASSUME NEW p \in Phases, StartTask(w, p) \/ AnswerPoll(w, p) PROVE IInv'
  BY <1>4, StartTaskStep, AnswerPollStep
<1>5. ASSUME TaskStep(w) PROVE IInv'
  BY <1>5, MapReadStep, MapFileStep, ReturnStep, ReduceReadStep, ReduceApplyStep, ReduceFileStep
  DEF TaskStep
<1> QED BY <1>1, <1>2, <1>3, <1>4, <1>5 DEF Worker, Environment, Handle

(* IInv is inductive.                                                      *)
LEMMA InvStep == IInv /\ [Next]_vars => IInv'
<1> SUFFICES ASSUME IInv, [Next]_vars PROVE IInv' OBVIOUS
<1>1. TypeInv' BY TypeStep DEF TypeInv, IInv
<1>2. CASE Master BY <1>1, <1>2, MasterSteps
<1>3. ASSUME NEW w \in Workers, ClientIO(w) \/ Worker(w) \/ Environment(w) PROVE IInv'
  BY <1>1, <1>3, ServerSteps
<1>4. CASE UNCHANGED vars
  <2> USE <1>4 DEF vars, masterVars, clientVars, IInv
  <2>1. ServerInv' BY ServerInvFrame DEF ServerInv
  <2>2. MasterInv'
    <3>1. UNCHANGED <<proc, req, task, completed, diskVars>> BY DEF procVars
    <3>2. \A w \in Workers : \A p \in Phases : Settled(p, w) => Settled(p, w)'
      BY <3>1 DEF Settled, Written, Ready, MapOutputReady, ReduceOutputReady, diskVars
    <3>3. \A w \in Workers : Untold(phase, w) => Untold(phase, w)' BY <3>1 DEF Untold
    <3> QED BY <3>1, <3>2, <3>3, MasterInvFrame DEF MasterInv
  <2> QED BY <1>1, <2>1, <2>2 DEF ServerInv, MasterInv, TypeInv
<1> QED BY <1>2, <1>3, <1>4 DEF Next

(* IInv holds throughout every behaviour, whatever is killed and whenever. *)
THEOREM Invariance == SafeSpec => []IInv
BY InvInit, InvStep, PTL DEF SafeSpec

(* No reduce task ever runs on an incomplete temporary file.               *)
THEOREM BarrierHolds ==
  ASSUME NoErrorCodes PROVE SafeSpec => []ReduceInputsComplete
<1>1. IInv => ReduceInputsComplete
  <2> SUFFICES ASSUME IInv, NEW r \in Workers \cap Reducers, task[r] \in ReduceSteps,
                      NEW m \in Workers
               PROVE  temp[m][r] = "full"
    BY DEF ReduceInputsComplete
  <2>1. phase = "reduce" BY DEF IInv, CallInv, Steps, Phases
  <2> QED BY <2>1 DEF IInv, BarrierInv, MapOutputReady
<1> QED BY <1>1, Invariance, PTL

(* What the master has recorded as done is complete on disk.               *)
THEOREM RecordHolds ==
  ASSUME NoErrorCodes PROVE SafeSpec => []RecordedTaskIsOnDisk
<1>1. IInv => RecordedTaskIsOnDisk
  <2> SUFFICES ASSUME IInv, StatusHeld, NEW w \in Workers, task_status[w] = 1
               PROVE  Ready(phase, w)
    BY DEF RecordedTaskIsOnDisk
  <2>1. CASE w < TaskCount BY <2>1 DEF IInv, RecordInv, Settled, Written
  <2>2. CASE ~(w < TaskCount)
    BY <2>2 DEF TaskCount, Ready, Reducers, Workers, IInv, TypeOK, Phases
  <2> QED BY <2>1, <2>2
<1> QED BY <1>1, Invariance, PTL

(* process() returns only with every output file complete, if there are as *)
(* many reducers as mappers, which the three-argument constructor ensures. *)
THEOREM ReturnHolds ==
  ASSUME NoErrorCodes, nr_mapper = nr_reducer PROVE SafeSpec => []ReturnedComplete
<1>1. IInv => ReturnedComplete
  <2> SUFFICES ASSUME IInv, pc = "returned", NEW r \in Reducers PROVE ReduceOutputReady(r)
    BY DEF ReturnedComplete
  <2>1. phase = "reduce" /\ DoneWorkers = Workers BY DEF IInv, ControlInv
  <2>2. r \in Workers /\ task_status[r] = 1
    BY <2>1 DEF DoneWorkers, Workers, Reducers
  <2>3. Settled("reduce", r)
    BY <2>1, <2>2 DEF IInv, RecordInv, StatusHeld, TaskCount, Reducers
  <2> QED BY <2>3 DEF Settled, Written, Ready
<1> QED BY <1>1, Invariance, PTL

-----------------------------------------------------------------------------
(* What no step may do, with or without error codes.                       *)

(* Only a step of the master's calls adds the call of a task.              *)
LEMMA CallsAdded ==
  ASSUME IInv, Next, NEW w \in Workers, NEW p \in Phases, p \in req'[w] \ req[w]
  PROVE  (CallTask \/ Recall) /\ w = worker_idx /\ p = phase
<1> USE DEF IInv
<1>1. CASE Master
  <2>1. req' # req OBVIOUS
  <2>2. CallTask \/ Recall \/ Poll \/ StopServer
    BY <1>1, <2>1
    DEF Master, clientVars, StartServer, AllForked, StartupSleepEnds, NewClient, AllCalled,
        SleepEnds, SkipDone, Restart, Reconnect, Answer, PassAgain, MapPhaseEnds,
        ReducePhaseEnds, Return
  <2>3. CASE CallTask \/ Recall
    <3>1. worker_idx \in Workers /\ Post(worker_idx, phase)
      BY <2>3 DEF CallTask, Recall, TypeOK, IndexInv, Workers
    <3> QED BY <2>3, <3>1, PostFrame, PhaseFacts DEF TypeOK
  <2>4. CASE Poll \/ StopServer
    <3>1. PICK m \in Requests \ Phases : Post(worker_idx, m)
      BY <2>4, PhaseFacts DEF Poll, StopServer, TypeOK, Requests, Phases
    <3>2. worker_idx \in Workers BY <2>4 DEF Poll, StopServer, TypeOK, Workers
    <3> QED BY <3>1, <3>2, PostFrame
  <2> QED BY <2>2, <2>3, <2>4
<1>2. ASSUME NEW v \in Workers, ClientIO(v) \/ Worker(v) \/ Environment(v)
      PROVE  req'[w] \subseteq req[w]
  <2>1. req' = req \/ req' = [req EXCEPT ![v] = {}]
          \/ \E m \in Requests : req' = [req EXCEPT ![v] = @ \ {m}]
    BY <1>2, PhaseFacts
    DEF ClientIO, ConnectOk, ConnectRefused, NoticeEof, ReadFails, Worker, Environment, Listen, Handle,
        StartTask, AnswerPoll, HandleStop, LeaveExit, StdinReturns, Kill, Die, TaskStep,
        MapRead, MapOpen, MapClose, MapReturn, ReduceRead, ReduceApply, ReduceOpen,
        ReduceClose, ReduceReturn, clientVars
  <2> QED BY <2>1 DEF TypeOK
<1> QED BY <1>1, <1>2 DEF Next

(* A task is only called in a process that has not had it, and for which   *)
(* no call of it waits.                                                    *)
THEOREM FreshCalls == SafeSpec => FreshTaskCall
<1>1. ASSUME IInv, CallTask \/ Recall
      PROVE  worker_idx \in Workers /\ phase \in Phases /\ Untold(phase, worker_idx)
  <2>1. worker_idx \in Workers /\ phase \in Phases
    BY <1>1 DEF IInv, IndexInv, CallTask, Recall, TypeOK, Workers
  <2> QED BY <1>1, <2>1 DEF IInv, UntoldInv, NotCalledYet, CallTask, Recall, TypeOK
<1>2. ASSUME IInv, Next, NEW w \in Workers, NEW p \in Phases, p \in req'[w] \ req[w]
      PROVE  task[w] = "idle" /\ p \notin completed[w]
  <2>1. (CallTask \/ Recall) /\ w = worker_idx /\ p = phase BY <1>2, CallsAdded
  <2>2. Untold(p, w) BY <1>1, <1>2, <2>1
  <2>3. task[w] \notin MapSteps /\ task[w] \notin ReduceSteps
    BY <1>2, <2>1, <2>2 DEF IInv, CallInv, Untold, Steps, Phases
  <2> QED BY <1>2, <2>2, <2>3 DEF Untold, IInv, TypeOK
<1>3. IInv /\ [Next]_vars =>
        [/\ \A w \in Workers : \A p \in Phases :
              p \in req'[w] \ req[w] => task[w] = "idle" /\ p \notin completed[w]
         /\ CallTask \/ Recall => phase \notin req[worker_idx]]_vars
  BY <1>1, <1>2 DEF Untold
<1> QED BY <1>3, Invariance, PTL DEF SafeSpec, FreshTaskCall

(* In the reduce phase no temporary file changes.                          *)
THEOREM TempFrozen == SafeSpec => TempFrozenInReduce
<1>1. IInv /\ [Next]_vars => [phase = "reduce" => temp' = temp]_vars
  <2> SUFFICES ASSUME IInv, Next, temp' # temp PROVE phase = "map" OBVIOUS
  <2>1. PICK w \in Workers : MapOpen(w) \/ MapClose(w)
    BY DEF Next, Master, diskVars, StartServer, AllForked, StartupSleepEnds, NewClient,
        CallTask, AllCalled, SleepEnds, SkipDone, Restart, Reconnect, Recall, Poll, Answer,
        PassAgain, MapPhaseEnds, ReducePhaseEnds, StopServer, Return,
        ClientIO, ConnectOk, ConnectRefused, NoticeEof, ReadFails, Worker, Environment, Listen, Handle,
        StartTask, AnswerPoll, HandleStop, LeaveExit, StdinReturns, Kill, Die, TaskStep,
        MapRead, MapReturn, ReduceRead, ReduceApply, ReduceOpen, ReduceClose, ReduceReturn
  <2>2. task[w] \in Steps("map") BY <2>1 DEF MapOpen, MapClose, Steps, MapSteps
  <2> QED BY <2>2 DEF IInv, CallInv, Phases
<1> QED BY <1>1, Invariance, PTL DEF SafeSpec, TempFrozenInReduce

(* A server is only forked on a port that is free.                         *)
THEOREM PortsFree == SafeSpec => OneServerPerPort
<1>1. IInv /\ [Next]_vars =>
        [\A w \in Workers :
           proc[w] # "starting" /\ proc'[w] = "starting" => ~Alive(w)]_vars
  <2> SUFFICES ASSUME IInv, Next, NEW w \in Workers,
                      proc[w] # "starting", proc'[w] = "starting"
               PROVE  ~Alive(w)
    OBVIOUS
  <2>1. CASE Master
    <3>1. (StartServer \/ Restart) /\ proc' = [proc EXCEPT ![worker_idx] = "starting"]
      BY <2>1
      DEF Master, procVars, StartServer, AllForked, StartupSleepEnds, NewClient, CallTask,
          AllCalled, SleepEnds, SkipDone, Restart, ForkServer, ForkFails, Reconnect, Recall,
          Poll, Answer, PassAgain, MapPhaseEnds, ReducePhaseEnds, StopServer, Return
    <3>2. w = worker_idx BY <3>1 DEF IInv, TypeOK
    <3>3. CASE StartServer
      BY <3>2, <3>3 DEF StartServer, IInv, SpawnInv, Alive, Workers
    <3>4. CASE Restart
      BY <3>2, <3>4 DEF Restart, IsServerDown, IInv, DownInv, Alive
    <3> QED BY <3>1, <3>3, <3>4
  <2>2. ASSUME NEW v \in Workers, ClientIO(v) \/ Worker(v) \/ Environment(v)
        PROVE  proc' = proc \/ \E s \in {"up", "leaving", "dead"} : proc' = [proc EXCEPT ![v] = s]
    BY <2>2
    DEF ClientIO, ConnectOk, ConnectRefused, NoticeEof, ReadFails, Worker, Environment, Listen, Handle,
        StartTask, AnswerPoll, HandleStop, LeaveExit, StdinReturns, Kill, Die, TaskStep,
        MapRead, MapOpen, MapClose, MapReturn, ReduceRead, ReduceApply, ReduceOpen,
        ReduceClose, ReduceReturn, procVars
  <2> QED BY <2>1, <2>2 DEF Next, IInv, TypeOK
<1> QED BY <1>1, Invariance, PTL DEF SafeSpec, OneServerPerPort
=============================================================================
