------------------------ MODULE MapReduceCalls_proofs ------------------------
(***************************************************************************)
(* No task is forgotten: for any number of servers, kills, failed forks    *)
(* and servers that leave, and however the controller modules end.         *)
(***************************************************************************)
EXTENDS MapReduceMaster_proofs

USE WorkersAssumption

(* No server is connected or called yet.                                   *)
LEMMA CallsInit == Init => CallsInv
BY DEF Init, CallsInv, ConnInv, ToldInv, Called, InLoop, LoopControl

(* Sending m to v's server adds m, if it gets there, and nothing else.     *)
LEMMA PostAdds ==
  ASSUME TypeOK, NEW v \in Workers, NEW m, Post(v, m)
  PROVE  /\ \A w \in Workers : req[w] \subseteq req'[w]
         /\ conn[v] = "connected" /\ Serving(v) => m \in req'[v]
BY DEF TypeOK, Post

-----------------------------------------------------------------------------
(* The master's steps before it has called anyone, and after the loops.    *)
LEMMA OutsideCalls ==
  ASSUME IInv, CallsInv,
         StartServer \/ AllForked \/ StartupSleepEnds \/ NewClient \/ MapPhaseEnds
           \/ ReducePhaseEnds \/ StopServer \/ Return
  PROVE  CallsInv'
<1> USE DEF CallsInv
<1>1. ToldInv'
  <2> SUFFICES \A w \in Workers : ~Called(w)' BY DEF ToldInv
  <2> QED
    BY DEF Called, InLoop, LoopControl, StartServer, AllForked, StartupSleepEnds, NewClient,
           MapPhaseEnds, ReducePhaseEnds, StopServer, Return, IInv, TypeOK, Workers
<1>2. CASE StartServer
  BY <1>1, <1>2 DEF StartServer, ConnInv, clientVars
<1>3. CASE NewClient
  <2>1. UNCHANGED procVars /\ pc' \notin {"spawn", "startupSleep", "restartSleep"}
    BY <1>3 DEF NewClient
  <2>2. \A w \in Workers : conn'[w] \in {conn[w], "initial"}
    BY <1>3 DEF NewClient, IInv, TypeOK
  <2> QED BY <1>1, <2>1, <2>2 DEF ConnInv, procVars
<1>4. CASE AllForked \/ StartupSleepEnds \/ MapPhaseEnds \/ ReducePhaseEnds
             \/ StopServer \/ Return
  BY <1>1, <1>4
  DEF AllForked, StartupSleepEnds, MapPhaseEnds, ReducePhaseEnds, StopServer, Return,
      ConnInv, clientVars, procVars
<1> QED BY <1>1, <1>2, <1>3, <1>4

(* The steps of the loop that send nothing.                                *)
LEMMA LoopCalls ==
  ASSUME IInv, CallsInv,
         AllCalled \/ SleepEnds \/ SkipDone \/ PassAgain \/ Answer \/ Restart \/ Reconnect
  PROVE  CallsInv'
<1> USE DEF CallsInv, IInv
<1>1. CASE AllCalled \/ SleepEnds \/ SkipDone \/ PassAgain \/ Answer
  <2> USE <1>1 DEF AllCalled, SleepEnds, SkipDone, PassAgain, Answer, clientVars, procVars
  <2>1. UNCHANGED <<phase, conn, req, procVars>> OBVIOUS
  <2>2. pc \notin {"spawn", "startupSleep", "restartSleep", "recall"}
    /\ pc' \notin {"spawn", "startupSleep", "restartSleep", "recall"}
    OBVIOUS
  <2>3. \A w \in Workers : Called(w)' => Called(w)
    BY DEF Called, InLoop, LoopControl, Workers
  <2>4. ConnInv' BY <2>1, <2>2 DEF ConnInv
  <2>5. ToldInv' BY <2>1, <2>3 DEF ToldInv, IsConnected, HasTask, Serving
  <2> QED BY <2>4, <2>5
<1>2. CASE Restart
  <2> USE <1>2 DEF Restart, IsServerDown, clientVars
  <2>1. worker_idx \in Workers BY DEF TypeOK, Workers
  <2>2. \A w \in Workers \ {worker_idx} :
          proc'[w] = proc[w] /\ task'[w] = task[w] /\ completed'[w] = completed[w]
    BY DEF ForkServer, ForkFails, procVars, TypeOK
  <2>3. \A w \in Workers : Called(w)' => Called(w) /\ w # worker_idx
    BY DEF Called, InLoop, LoopControl
  <2>4. ConnInv' BY <2>1, <2>2 DEF ConnInv
  <2>5. ToldInv'
    BY <2>1, <2>2, <2>3 DEF ToldInv, IsConnected, HasTask, Serving
  <2> QED BY <2>4, <2>5
<1>3. CASE Reconnect
  <2> USE <1>3 DEF Reconnect, procVars
  <2>1. worker_idx \in Workers BY DEF TypeOK, IndexInv, Workers
  <2>2. \A w \in Workers : conn'[w] = IF w = worker_idx THEN "initial" ELSE conn[w]
    BY <2>1 DEF TypeOK
  <2>3. \A w \in Workers : Called(w)' => Called(w) /\ w # worker_idx
    BY DEF Called, InLoop, LoopControl
  <2>4. ConnInv' BY <2>1, <2>2 DEF ConnInv
  <2>5. ToldInv'
    BY <2>1, <2>2, <2>3 DEF ToldInv, IsConnected, HasTask, Serving
  <2> QED BY <2>4, <2>5
<1> QED BY <1>1, <1>2, <1>3

(* The steps that send: a call makes the server one that was called.       *)
LEMMA SendingCalls ==
  ASSUME IInv, CallsInv, CallTask \/ Recall \/ Poll
  PROVE  CallsInv'
<1> USE DEF CallsInv, IInv
<1> USE DEF CallTask, Recall, Poll, procVars
<1>1. worker_idx \in Workers BY DEF TypeOK, IndexInv, Workers
<1>2. UNCHANGED <<phase, conn, proc, task, completed>> OBVIOUS
<1>3. \A w \in Workers : req[w] \subseteq req'[w] BY <1>1, PostAdds
<1>4. ConnInv' BY <1>2 DEF ConnInv
<1>5. ASSUME NEW w \in Workers, Called(w)', Called(w)
      PROVE  /\ IsConnected(w)'
             /\ (conn[w] = "connected" /\ Serving(w) => HasTask(w))'
  BY <1>2, <1>3, <1>5 DEF ToldInv, IsConnected, HasTask, Serving
<1>6. ASSUME NEW w \in Workers, Called(w)', ~Called(w)
      PROVE  /\ IsConnected(w)'
             /\ (conn[w] = "connected" /\ Serving(w) => HasTask(w))'
  <2>1. (CallTask \/ Recall) /\ w = worker_idx
    BY <1>1, <1>6 DEF Called, InLoop, LoopControl, Workers
  <2>2. IsConnected(w) /\ Post(w, phase) BY <2>1
  <2>3. conn[w] = "connected" /\ Serving(w) => phase \in req'[w]
    BY <2>2, PostAdds
  <2> QED BY <1>2, <2>2, <2>3 DEF IsConnected, HasTask, Serving
<1>7. ToldInv' BY <1>5, <1>6 DEF ToldInv
<1> QED BY <1>4, <1>7

-----------------------------------------------------------------------------
(* The clients' io threads: a server that was called is connected already. *)
LEMMA ClientCalls ==
  ASSUME IInv, CallsInv, NEW v \in Workers, ClientIO(v)
  PROVE  CallsInv'
<1> USE DEF CallsInv, IInv
<1> USE DEF ClientIO, ConnectOk, ConnectRefused, NoticeEof, ReadFails, masterVars, procVars
<1>1. \A w \in Workers : w # v => conn'[w] = conn[w] BY DEF TypeOK
<1>2. \A w \in Workers : Called(w)' = Called(w) BY DEF Called, InLoop
<1>3. \A w \in Workers : Serving(w)' = Serving(w) /\ HasTask(w)' = HasTask(w)
  BY DEF Serving, HasTask
<1>4. CASE ConnectOk(v) \/ ConnectRefused(v)
  <2>1. conn[v] = "initial" /\ conn'[v] \in {"connected", "refused"}
    BY <1>4 DEF TypeOK
  <2>2. ~Called(v) BY <2>1 DEF ToldInv, IsConnected
  <2>3. ToldInv' BY <1>1, <1>2, <1>3, <2>2 DEF ToldInv, IsConnected
  <2>4. pc \notin {"spawn", "startupSleep"} BY <2>1 DEF ConnInv
  <2>5. pc = "restartSleep" => worker_idx # v BY <2>1 DEF ConnInv
  <2>6. conn'[v] = "connected" => Serving(v) BY <1>4 DEF TypeOK
  <2>7. \A w \in Workers : (conn[w] = "connected" => proc[w] \in {"up", "leaving", "dead"})'
    BY <1>1, <2>6 DEF ConnInv, Serving
  <2>8. pc = "restartSleep" => conn'[worker_idx] = "disconnected"
    BY <1>1, <2>5 DEF ConnInv, IndexInv, TypeOK, Workers
  <2> QED BY <2>3, <2>4, <2>7, <2>8 DEF ConnInv
<1>5. CASE NoticeEof(v) \/ ReadFails(v)
  <2>1. conn[v] = "connected" /\ conn'[v] \in {"disconnected", "deaf"} BY <1>5 DEF TypeOK
  <2>2. ToldInv' BY <1>1, <1>2, <1>3, <2>1 DEF ToldInv, IsConnected
  <2>3. pc \notin {"spawn", "startupSleep"} BY <2>1 DEF ConnInv
  <2>4. pc = "restartSleep" => conn'[worker_idx] = "disconnected"
    BY <1>1, <2>1 DEF ConnInv, IndexInv, TypeOK, Workers
  <2>5. \A w \in Workers : (conn[w] = "connected" => proc[w] \in {"up", "leaving", "dead"})'
    BY <1>1, <2>1 DEF ConnInv
  <2> QED BY <2>2, <2>3, <2>4, <2>5 DEF ConnInv
<1> QED BY <1>4, <1>5

(* What a step of v's process must keep: that v lives on with its task, if *)
(* it lives on.                                                            *)
LEMMA ServerCallsFrame ==
  ASSUME CallsInv, NEW v \in Workers, UNCHANGED <<masterVars, conn>>,
         \A w \in Workers : w # v =>
           /\ proc'[w] = proc[w] /\ req'[w] = req[w] /\ task'[w] = task[w]
           /\ completed'[w] = completed[w],
         \/ proc'[v] = "dead"
         \/ /\ proc'[v] \in {"up", "leaving"}
            /\ conn[v] = "connected" => Serving(v) /\ (HasTask(v) => HasTask(v)')
  PROVE  CallsInv'
<1> USE DEF CallsInv, masterVars
<1>1. ConnInv' BY DEF ConnInv
<1>2. \A w \in Workers : Called(w)' = Called(w) BY DEF Called, InLoop
<1>3. ASSUME NEW w \in Workers, Called(w), conn[w] = "connected", Serving(w)'
      PROVE  HasTask(w)'
  <2>1. CASE w = v BY <1>3, <2>1 DEF ToldInv, Serving
  <2>2. CASE w # v BY <1>3, <2>2 DEF ToldInv, Serving, HasTask
  <2> QED BY <2>1, <2>2
<1>4. ToldInv' BY <1>2, <1>3 DEF ToldInv, IsConnected
<1> QED BY <1>1, <1>4

(* Servers start, take requests, run their tasks, leave and die.           *)
LEMMA ServerCalls ==
  ASSUME IInv, CallsInv, NEW v \in Workers, Worker(v) \/ Environment(v)
  PROVE  CallsInv'
<1> USE DEF IInv, TypeOK, masterVars, clientVars
<1>1. CASE Listen(v)
  <2>1. conn[v] # "connected" BY <1>1 DEF Listen, CallsInv, ConnInv
  <2> QED BY <1>1, <2>1, ServerCallsFrame DEF Listen
<1>2. ASSUME Die(v), UNCHANGED <<masterVars, conn>> PROVE CallsInv'
  BY <1>2, ServerCallsFrame DEF Die
<1>3. CASE HandleStop(v) \/ LeaveExit(v) \/ Kill(v)
  BY <1>2, <1>3 DEF HandleStop, LeaveExit, Kill
<1>4. CASE StdinReturns(v)
  <2>1. Serving(v) /\ HasTask(v)' = HasTask(v) /\ proc'[v] = "leaving"
    BY <1>4 DEF StdinReturns, Serving, HasTask
  <2> QED BY <1>4, <2>1, ServerCallsFrame DEF StdinReturns
<1>5. ASSUME NEW p \in Phases, StartTask(v, p) PROVE CallsInv'
  <2>1. p = phase BY <1>5 DEF StartTask, CallInv
  <2>2. task'[v] \in Steps(phase)
    BY <1>5, <2>1 DEF StartTask, Steps, MapSteps, ReduceSteps
  <2>3. Serving(v) /\ HasTask(v)' /\ proc'[v] = "up"
    BY <1>5, <2>2 DEF StartTask, Serving, HasTask
  <2> QED BY <1>5, <2>3, ServerCallsFrame DEF StartTask
<1>6. ASSUME NEW p \in Phases, AnswerPoll(v, p) PROVE CallsInv'
  <2>1. IsDone(p) # phase BY PhaseFacts
  <2>2. Serving(v) /\ (HasTask(v) => HasTask(v)') /\ proc'[v] = "up"
    BY <1>6, <2>1 DEF AnswerPoll, Serving, HasTask, procVars
  <2> QED BY <1>6, <2>2, ServerCallsFrame DEF AnswerPoll, procVars
<1>7. CASE TaskStep(v)
  <2>1. CASE Die(v) /\ (MapRead(v) \/ ReduceApply(v))
    BY <1>2, <2>1 DEF MapRead, ReduceApply
  <2>2. CASE MapReturn(v) \/ ReduceReturn(v)
    <3>1. PICK p \in Phases : /\ task[v] \in Steps(p)
                              /\ completed' = [completed EXCEPT ![v] = @ \cup {p}]
      BY <2>2 DEF MapReturn, ReduceReturn, Steps, MapSteps, ReduceSteps, Phases
    <3>2. p = phase BY <3>1 DEF CallInv
    <3>3. HasTask(v)' BY <3>1, <3>2, <2>2 DEF HasTask, MapReturn, ReduceReturn
    <3>4. Serving(v) /\ proc' = proc BY <2>2 DEF MapReturn, ReduceReturn
    <3> QED BY <2>2, <3>3, <3>4, ServerCallsFrame DEF MapReturn, ReduceReturn, Serving
  <2>3. CASE TaskStep(v) /\ ~Die(v) /\ ~(MapReturn(v) \/ ReduceReturn(v))
    <3>1. PICK p \in Phases : task[v] \in Steps(p) /\ task'[v] \in Steps(p)
      BY <2>3
      DEF TaskStep, MapRead, MapOpen, MapClose, ReduceRead, ReduceApply, ReduceOpen,
          ReduceClose, Steps, MapSteps, ReduceSteps, Phases
    <3>2. p = phase BY <3>1 DEF CallInv
    <3>3. /\ Serving(v) /\ UNCHANGED <<masterVars, conn, proc, req, completed>>
          /\ \A w \in Workers : w # v => task'[w] = task[w]
      BY <2>3
      DEF TaskStep, MapRead, MapOpen, MapClose, ReduceRead, ReduceApply, ReduceOpen,
          ReduceClose
    <3>4. HasTask(v)' BY <3>1, <3>2, <3>3 DEF HasTask
    <3> QED BY <3>3, <3>4, ServerCallsFrame DEF Serving
  <2> QED BY <1>7, <2>1, <2>2, <2>3 DEF TaskStep, MapOpen, MapClose, ReduceRead, ReduceOpen,
                                        ReduceClose, Die
<1> QED
  BY <1>1, <1>3, <1>4, <1>5, <1>6, <1>7 DEF Worker, Environment, Handle

(* Every step keeps the invariant.                                         *)
LEMMA CallsStep == IInv /\ CallsInv /\ [Next]_vars => CallsInv'
<1> SUFFICES ASSUME IInv, CallsInv, [Next]_vars PROVE CallsInv' OBVIOUS
<1>1. CASE Master BY <1>1, OutsideCalls, LoopCalls, SendingCalls DEF Master
<1>2. ASSUME NEW w \in Workers, ClientIO(w) \/ Worker(w) \/ Environment(w) PROVE CallsInv'
  BY <1>2, ClientCalls, ServerCalls
<1>3. CASE UNCHANGED vars
  BY <1>3 DEF vars, masterVars, clientVars, procVars, CallsInv, ConnInv, ToldInv, Called,
              InLoop, IsConnected, Serving, HasTask
<1> QED BY <1>1, <1>2, <1>3 DEF Next

(* The master never waits for a task nobody was given: a living server it  *)
(* is connected to has been told, runs the task or has done it (lines      *)
(* 311-315, 397-401, 422-426, 507-511).                                    *)
THEOREM NoneForgotten == SafeSpec => []NoForgottenTask
<1>1. SafeSpec => []CallsInv BY CallsInit, CallsStep, Invariance, PTL DEF SafeSpec
<1>2. CallsInv => NoForgottenTask
  <2> SUFFICES ASSUME CallsInv, InLoop, NEW w \in Workers, conn[w] = "connected",
                      proc[w] = "up", ~(pc = "recall" /\ w = worker_idx)
               PROVE  HasTask(w)
    BY DEF NoForgottenTask, HasTask
  <2>1. Called(w) BY DEF Called, CallsInv, ConnInv
  <2> QED BY <2>1 DEF CallsInv, ToldInv, Serving
<1> QED BY <1>1, <1>2, PTL

-----------------------------------------------------------------------------
(* What a server's step can do to a heart-beat: keep it, answer it, or end *)
(* the server; and to the call of stop_server: keep it, or obey.           *)
LEMMA ServerKeepsPolls ==
  ASSUME TypeOK, NEW v \in Workers, Worker(v) \/ Environment(v)
  PROVE  /\ UNCHANGED <<masterVars, conn>>
         /\ \A w \in Workers :
              Alive(w)' => /\ Alive(w)
                           /\ proc'[w] = "starting" => proc[w] = "starting"
                           /\ "stop_server" \in req[w] => "stop_server" \in req'[w]
         /\ \/ reply' # "none"
            \/ /\ reply' = reply
               /\ \A w \in Workers : \A p \in Phases :
                    Alive(w)' /\ IsDone(p) \in req[w] => IsDone(p) \in req'[w]
<1> USE DEF TypeOK, clientVars
<1>1. CASE Listen(v) \/ StdinReturns(v)
  BY <1>1 DEF Listen, StdinReturns, Alive
<1>2. CASE HandleStop(v) \/ LeaveExit(v) \/ Kill(v)
  <2>1. Die(v) /\ UNCHANGED <<masterVars, conn, reply>>
    BY <1>2 DEF HandleStop, LeaveExit, Kill
  <2> QED BY <2>1 DEF Die, Alive
<1>3. ASSUME NEW q \in Phases, StartTask(v, q)
      PROVE  /\ UNCHANGED <<masterVars, conn, reply, proc>>
             /\ \A w \in Workers : \A m \in Requests \ Phases : m \in req[w] => m \in req'[w]
  BY <1>3 DEF StartTask
<1>4. ASSUME NEW q \in Phases, AnswerPoll(v, q)
      PROVE  /\ UNCHANGED <<masterVars, conn, proc>> /\ reply' # "none"
             /\ \A w \in Workers : "stop_server" \in req[w] => "stop_server" \in req'[w]
  BY <1>4 DEF AnswerPoll, procVars, IsDone
<1>5. CASE MapRead(v) \/ ReduceApply(v)
  BY <1>5 DEF MapRead, ReduceApply, Die, Alive
<1>6. CASE MapOpen(v) \/ MapClose(v) \/ MapReturn(v) \/ ReduceRead(v) \/ ReduceOpen(v)
             \/ ReduceClose(v) \/ ReduceReturn(v)
  <2>1. UNCHANGED <<masterVars, clientVars, proc>>
    BY <1>6 DEF MapOpen, MapClose, MapReturn, ReduceRead, ReduceOpen, ReduceClose, ReduceReturn
  <2> QED BY <2>1 DEF Alive
<1>7. "stop_server" \in Requests \ Phases /\ \A p \in Phases : IsDone(p) \in Requests \ Phases
  BY PhaseFacts DEF Requests, Phases
<1> QED
  BY <1>1, <1>2, <1>3, <1>4, <1>5, <1>6, <1>7 DEF Worker, Environment, Handle, TaskStep, Alive

(* The pool's slots are filled one by one, and never emptied.              *)
LEMMA PoolStep == IInv /\ PoolInv /\ [Next]_vars => PoolInv'
<1> SUFFICES ASSUME IInv, PoolInv, [Next]_vars PROVE PoolInv' OBVIOUS
<1> USE DEF IInv, TypeOK, PoolInv, HasClient, clientVars
<1>1. CASE NewClient
  <2>1. worker_idx \in Workers BY <1>1 DEF NewClient, IndexInv, Workers
  <2>2. \A w \in Workers : conn'[w] = IF w = worker_idx THEN "initial" ELSE conn[w]
    BY <1>1, <2>1 DEF NewClient
  <2>3. \A w \in Workers : HasClient(w)' => HasClient(w) \/ w = worker_idx
    BY <1>1 DEF NewClient, Workers
  <2> QED BY <2>2, <2>3
<1>2. CASE Reconnect
  <2>1. worker_idx \in Workers BY <1>2 DEF Reconnect, IndexInv, Workers
  <2> QED BY <1>2, <2>1 DEF Reconnect
<1>3. CASE StartServer \/ AllForked \/ StartupSleepEnds
  <2>1. \A w \in Workers : ~HasClient(w)'
    BY <1>3 DEF StartServer, AllForked, StartupSleepEnds, IndexInv, Workers
  <2> QED BY <2>1
<1>4. CASE CallTask \/ AllCalled \/ SleepEnds \/ SkipDone \/ Restart \/ Recall \/ Poll \/ Answer
  <2>1. conn' = conn /\ pc \notin {"spawn", "startupSleep", "connect"}
    BY <1>4 DEF CallTask, AllCalled, SleepEnds, SkipDone, Restart, Recall, Poll, Answer
  <2> QED BY <2>1
<1>5. CASE PassAgain \/ MapPhaseEnds \/ ReducePhaseEnds \/ StopServer \/ Return
  <2>1. conn' = conn /\ pc \notin {"spawn", "startupSleep", "connect"}
    BY <1>5 DEF PassAgain, MapPhaseEnds, ReducePhaseEnds, StopServer, Return
  <2> QED BY <2>1
<1>6. ASSUME NEW v \in Workers, ClientIO(v) PROVE PoolInv'
  <2>1. \A w \in Workers : conn'[w] = conn[w] \/ conn'[w] # "none"
    BY <1>6 DEF ClientIO, ConnectOk, ConnectRefused, NoticeEof, ReadFails
  <2> QED BY <1>6, <2>1 DEF ClientIO, ConnectOk, ConnectRefused, NoticeEof, ReadFails, masterVars
<1>7. ASSUME NEW v \in Workers, Worker(v) \/ Environment(v) PROVE PoolInv'
  <2>1. UNCHANGED <<masterVars, conn>> BY <1>7, ServerKeepsPolls
  <2> QED BY <2>1 DEF masterVars
<1>8. CASE UNCHANGED vars BY <1>8 DEF vars, masterVars
<1> QED BY <1>1, <1>2, <1>3, <1>4, <1>5, <1>6, <1>7, <1>8 DEF Next, Master

(* A heart-beat is sent to a server that takes it, or that is dead already.*)
LEMMA PollIsSent ==
  ASSUME IInv, CallsInv, Poll
  PROVE  HeartbeatIsServed'
<1> USE DEF IInv, TypeOK, Poll, procVars
<1>1. worker_idx \in Workers BY DEF Workers
<1>2. conn[worker_idx] \in {"connected", "deaf"} BY <1>1 DEF IsServerDown, IsConnected
<1>3. ASSUME Alive(worker_idx)' PROVE IsDone(phase) \in req'[worker_idx]
  <2>1. Alive(worker_idx) BY <1>3 DEF Alive
  <2>2. conn[worker_idx] = "connected" BY <1>1, <1>2, <2>1 DEF Alive, DownInv
  <2>3. Serving(worker_idx) BY <1>1, <2>1, <2>2 DEF Alive, Serving, CallsInv, ConnInv
  <2> QED BY <1>1, <2>2, <2>3, PostAdds
<1> QED BY <1>3 DEF HeartbeatIsServed, Alive

(* Every step keeps the heart-beat the master waits for where it can be    *)
(* answered.                                                               *)
LEMMA HeartbeatStep ==
  IInv /\ CallsInv /\ HeartbeatIsServed /\ [Next]_vars => HeartbeatIsServed'
<1> SUFFICES ASSUME IInv, CallsInv, HeartbeatIsServed, [Next]_vars PROVE HeartbeatIsServed'
  OBVIOUS
<1> USE DEF IInv, TypeOK
<1>1. CASE Poll BY <1>1, PollIsSent
<1>2. CASE Master /\ ~Poll
  <2>1. pc' # "await"
    BY <1>2 DEF Master, StartServer, AllForked, StartupSleepEnds, NewClient, CallTask, AllCalled,
                SleepEnds, SkipDone, Restart, Reconnect, Recall, Answer, PassAgain,
                MapPhaseEnds, ReducePhaseEnds, StopServer, Return
  <2> QED BY <2>1 DEF HeartbeatIsServed
<1>3. ASSUME NEW v \in Workers, ClientIO(v) PROVE HeartbeatIsServed'
  <2>1. UNCHANGED <<masterVars, req, reply, proc>>
    BY <1>3 DEF ClientIO, ConnectOk, ConnectRefused, NoticeEof, ReadFails, procVars
  <2> QED BY <2>1 DEF HeartbeatIsServed, Alive, masterVars
<1>4. ASSUME NEW v \in Workers, Worker(v) \/ Environment(v) PROVE HeartbeatIsServed'
  <2>1. UNCHANGED masterVars BY <1>4, ServerKeepsPolls
  <2>2. SUFFICES ASSUME pc = "await", reply' = "none", Alive(worker_idx)'
                 PROVE  IsDone(phase) \in req'[worker_idx]
    BY <2>1 DEF HeartbeatIsServed, masterVars
  <2>3. worker_idx \in Workers /\ phase \in Phases BY <2>2 DEF IndexInv, Workers
  <2>4. Alive(worker_idx) /\ reply = "none" BY <1>4, <2>1, <2>2, <2>3, ServerKeepsPolls
       DEF Alive, masterVars
  <2>5. IsDone(phase) \in req[worker_idx] BY <2>2, <2>4 DEF HeartbeatIsServed
  <2> QED BY <1>4, <2>1, <2>2, <2>3, <2>5, ServerKeepsPolls DEF Alive, masterVars
<1>5. CASE UNCHANGED vars
  BY <1>5 DEF vars, masterVars, clientVars, procVars, HeartbeatIsServed, Alive
<1> QED BY <1>1, <1>2, <1>3, <1>4, <1>5 DEF Next

(* The heart-beat the master blocks on without a timeout is with its       *)
(* server as long as that lives, whoever else is killed or restarted, and  *)
(* however short the sleeps are (lines 262-278, 404-406, 514-516).         *)
THEOREM HeartbeatServed == SafeSpec => []HeartbeatIsServed
<1>1. Init => HeartbeatIsServed BY DEF Init, HeartbeatIsServed
<1>2. SafeSpec => []CallsInv BY CallsInit, CallsStep, Invariance, PTL DEF SafeSpec
<1> QED BY <1>1, <1>2, HeartbeatStep, Invariance, PTL DEF SafeSpec

-----------------------------------------------------------------------------
(* When sleep(1) outlasts a start, nobody is asked to connect too early.   *)
LEMMA StartStep == IInv /\ ConnInv /\ StartInv /\ [Next]_vars => StartInv'
<1> SUFFICES ASSUME IInv, ConnInv, StartInv, [Next]_vars, LongSleep PROVE StartInv'
  BY DEF StartInv
<1> USE DEF IInv, TypeOK, StartInv, clientVars, procVars
<1>1. CASE StartServer BY <1>1 DEF StartServer, ConnInv
<1>2. CASE AllForked \/ StartupSleepEnds
  BY <1>2 DEF AllForked, StartupSleepEnds, Alive
<1>3. CASE NewClient \/ Reconnect
  <2>1. worker_idx \in Workers BY <1>3 DEF NewClient, Reconnect, IndexInv, Workers
  <2>2. \A w \in Workers : conn'[w] = IF w = worker_idx THEN "initial" ELSE conn[w]
    BY <1>3, <2>1 DEF NewClient, Reconnect
  <2>3. pc \notin {"spawn", "startupSleep"} /\ proc' = proc
    BY <1>3 DEF NewClient, Reconnect
  <2>4. \A w \in Workers : proc[w] # "starting" BY <1>3, <2>3 DEF NewClient, Reconnect
  <2> QED BY <2>2, <2>3, <2>4 DEF Alive
<1>4. CASE Restart
  <2>1. worker_idx \in Workers BY <1>4 DEF Restart, Workers
  <2>2. \A w \in Workers : w # worker_idx => proc'[w] = proc[w]
    BY <1>4 DEF Restart, ForkServer, ForkFails
  <2>3. pc = "check" /\ pc' = "restartSleep" /\ worker_idx' = worker_idx /\ conn' = conn
        /\ conn[worker_idx] # "refused"
    BY <1>4 DEF Restart, IsServerDown
  <2> QED BY <2>1, <2>2, <2>3 DEF Alive
<1>5. CASE CallTask \/ AllCalled \/ SleepEnds \/ SkipDone \/ Recall \/ Poll \/ Answer
  <2>1. UNCHANGED <<conn, proc>> /\ pc \notin {"spawn", "startupSleep", "restartSleep"}
    BY <1>5 DEF CallTask, AllCalled, SleepEnds, SkipDone, Recall, Poll, Answer
  <2> QED BY <2>1 DEF Alive
<1>6. CASE PassAgain \/ MapPhaseEnds \/ ReducePhaseEnds \/ StopServer \/ Return
  <2>1. UNCHANGED <<conn, proc>> /\ pc \notin {"spawn", "startupSleep", "restartSleep"}
    BY <1>6 DEF PassAgain, MapPhaseEnds, ReducePhaseEnds, StopServer, Return
  <2> QED BY <2>1 DEF Alive
<1>7. ASSUME NEW v \in Workers, ConnectRefused(v) PROVE StartInv'
  <2>1. conn[v] = "initial" /\ ~Serving(v) /\ UNCHANGED <<masterVars, proc>>
        /\ conn' = [conn EXCEPT ![v] = "refused"]
    BY <1>7 DEF ConnectRefused
  <2>2. proc[v] # "starting" BY <2>1 DEF ConnInv
  <2> QED BY <2>1, <2>2 DEF Alive, Serving, masterVars
<1>8. ASSUME NEW v \in Workers, ConnectOk(v) \/ NoticeEof(v) \/ ReadFails(v) PROVE StartInv'
  <2>1. /\ UNCHANGED <<masterVars, proc>>
        /\ \A w \in Workers : conn'[w] = "refused" => conn[w] = "refused"
    BY <1>8 DEF ConnectOk, NoticeEof, ReadFails
  <2> QED BY <2>1 DEF Alive, masterVars
<1>9. ASSUME NEW v \in Workers, Worker(v) \/ Environment(v) PROVE StartInv'
  <2>1. /\ UNCHANGED <<masterVars, conn>>
        /\ \A w \in Workers :
             Alive(w)' => Alive(w) /\ (proc'[w] = "starting" => proc[w] = "starting")
    BY <1>9, ServerKeepsPolls
  <2> QED BY <2>1 DEF Alive, masterVars
<1>10. CASE UNCHANGED vars BY <1>10 DEF vars, masterVars, Alive
<1> QED
  BY <1>1, <1>2, <1>3, <1>4, <1>5, <1>6, <1>7, <1>8, <1>9, <1>10 DEF Next, Master, ClientIO

(* If sleep(1) outlasts the start of a server, the master never waits in   *)
(* wait_conn() for a connection to a living server that cannot come (lines *)
(* 303-315, 390-401, 500-511).                                             *)
THEOREM ConnectionMade == SafeSpec => []ConnectionIsMade
<1>1. Init => PoolInv /\ StartInv
  BY DEF Init, PoolInv, HasClient, StartInv
<1>2. IInv /\ CallsInv /\ PoolInv /\ StartInv => ConnectionIsMade
  <2> SUFFICES ASSUME IInv, PoolInv, StartInv, LongSleep, pc \in {"call", "recall"},
                      worker_idx < nr_mapper, Alive(worker_idx)
               PROVE  \/ conn[worker_idx] = "connected"
                      \/ conn[worker_idx] = "initial" /\ Serving(worker_idx)
    BY DEF ConnectionIsMade
  <2>1. worker_idx \in Workers BY DEF IInv, TypeOK, Workers
  <2>2. conn[worker_idx] \in ConnState \ {"none", "refused", "deaf", "disconnected"}
    BY <2>1 DEF IInv, TypeOK, PoolInv, HasClient, StartInv, DownInv, Alive
  <2>3. Serving(worker_idx) BY <2>1 DEF StartInv, Alive, Serving
  <2> QED BY <2>2, <2>3 DEF ConnState
<1>3. IInv /\ CallsInv /\ StartInv /\ [Next]_vars => StartInv'
  BY StartStep DEF CallsInv
<1>4. SafeSpec => []CallsInv BY CallsInit, CallsStep, Invariance, PTL DEF SafeSpec
<1> QED BY <1>1, <1>2, <1>3, <1>4, PoolStep, Invariance, PTL DEF SafeSpec

-----------------------------------------------------------------------------
(* Only living servers that have been told are passed over.                *)
LEMMA StopStep == IInv /\ CallsInv /\ StopInv /\ [Next]_vars => StopInv'
<1> SUFFICES ASSUME IInv, CallsInv, StopInv, [Next]_vars PROVE StopInv' OBVIOUS
<1> USE DEF IInv, TypeOK, StopInv, StopIsDelivered
<1>1. CASE ReducePhaseEnds
  <2>1. \A w \in Workers : IsConnected(w)
    BY <1>1 DEF ReducePhaseEnds, CallsInv, ToldInv, Called, InLoop, LoopControl
  <2> QED BY <1>1, <2>1 DEF ReducePhaseEnds, IsConnected, clientVars, Workers
<1>2. CASE StopServer
  <2>1. worker_idx \in Workers /\ Post(worker_idx, "stop_server")
    BY <1>2 DEF StopServer, Workers
  <2>2. UNCHANGED <<conn, proc>> /\ pc' = pc BY <1>2 DEF StopServer, procVars
  <2>3. ASSUME Alive(worker_idx) PROVE "stop_server" \in req'[worker_idx]
    <3>1. conn[worker_idx] = "connected" /\ Serving(worker_idx)
      BY <1>2, <2>1, <2>3
      DEF StopServer, IsConnected, Alive, Serving, DownInv, CallsInv, ConnInv
    <3> QED BY <2>1, <3>1, PostAdds
  <2>4. \A w \in Workers : req[w] \subseteq req'[w] BY <2>1, PostAdds
  <2>5. \A w \in Workers : w < worker_idx' => w < worker_idx \/ w = worker_idx
    BY <1>2 DEF StopServer, Workers
  <2> QED BY <1>2, <2>2, <2>3, <2>4, <2>5 DEF StopServer, IsConnected, Alive
<1>3. CASE Return
  BY <1>3 DEF Return, Alive, IsConnected, clientVars, procVars
<1>4. CASE Master /\ ~(ReducePhaseEnds \/ StopServer \/ Return)
  <2>1. pc' \notin {"stop", "returned"}
    BY <1>4 DEF Master, StartServer, AllForked, StartupSleepEnds, NewClient, CallTask, AllCalled,
                SleepEnds, SkipDone, Restart, Reconnect, Recall, Poll, Answer, PassAgain,
                MapPhaseEnds
  <2> QED BY <2>1
<1>5. ASSUME NEW v \in Workers, ClientIO(v) PROVE StopInv'
  <2>1. UNCHANGED <<masterVars, req, proc>>
    BY <1>5 DEF ClientIO, ConnectOk, ConnectRefused, NoticeEof, ReadFails, procVars
  <2>2. \A w \in Workers : IsConnected(w) => IsConnected(w)'
    BY <1>5 DEF ClientIO, ConnectOk, ConnectRefused, NoticeEof, ReadFails, IsConnected
  <2> QED BY <2>1, <2>2 DEF Alive, masterVars
<1>6. ASSUME NEW v \in Workers, Worker(v) \/ Environment(v) PROVE StopInv'
  BY <1>6, ServerKeepsPolls DEF IsConnected, masterVars
<1>7. CASE UNCHANGED vars
  BY <1>7 DEF vars, masterVars, clientVars, procVars, Alive, IsConnected
<1> QED BY <1>1, <1>2, <1>3, <1>4, <1>5, <1>6, <1>7 DEF Next

(* No living server misses stop_server, whoever was restarted before       *)
(* (lines 530-537).                                                        *)
THEOREM StopDelivered == SafeSpec => []StopIsDelivered
<1>1. Init => StopInv BY DEF Init, StopInv, StopIsDelivered
<1>2. SafeSpec => []CallsInv BY CallsInit, CallsStep, Invariance, PTL DEF SafeSpec
<1> QED BY <1>1, <1>2, StopStep, Invariance, PTL DEF SafeSpec, StopInv
=============================================================================
