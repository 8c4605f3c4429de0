-------------------------- MODULE MapReduceMaster --------------------------
(***************************************************************************)
(* MapReduceMaster::process() of include/MapReduceMaster.h and the worker  *)
(* processes it forks: nr_mapper rpc servers that run                      *)
(* map_controller_module and reduce_controller_module, the master's        *)
(* heart-beat loop over rpc clients, and the crashes of workers it is      *)
(* meant to survive.  The map phase and the reduce phase run the same      *)
(* master code twice, so one set of actions, indexed by phase, stands for  *)
(* both.                                                                   *)
(*                                                                         *)
(* Contents of files are abstracted to what the barrier between the two    *)
(* phases depends on; see FileState.                                       *)
(***************************************************************************)
EXTENDS Integers, FiniteSets

CONSTANTS
  nr_mapper,       \* number of servers, and of map tasks
  nr_reducer,      \* number of reduce tasks
  MapResults,      \* how a run of map_controller_module may end
  ReduceResults,   \* how a run of reduce_controller_module may end
  MaxKills,        \* bound: how many servers are killed or cannot be forked
  MaxLeaves,       \* bound: how many servers get a line (or EOF) on stdin
  KillPoints,      \* environment: where in process() the master is then
  LongSleep,       \* environment: sleep(1) outlasts start-up and EOF delivery
  ReadErrors       \* environment: the end of a server may show as another error

(* "ok": returns 0.  "error": returns -1, -2 or -3.  "throw": an exception *)
(* that is not an int leaves the module.                                   *)
Outcomes == {"ok", "error", "throw"}

ASSUME WorkersAssumption == nr_mapper \in Nat \ {0} /\ nr_reducer \in Nat \ {0}
ASSUME ResultsAssumption ==
  MapResults \subseteq Outcomes /\ ReduceResults \subseteq Outcomes
ASSUME BoundsAssumption ==
  MaxKills \in Nat /\ MaxLeaves \in Nat /\ LongSleep \in BOOLEAN /\ ReadErrors \in BOOLEAN

Workers  == 0 .. nr_mapper - 1
Reducers == 0 .. nr_reducer - 1
Index    == Workers \cup Reducers

Phases    == {"map", "reduce"}
(* Requests on the wire.  The call of a task carries the phase's name.     *)
IsDone(p) == IF p = "map" THEN "is_map_done" ELSE "is_reduce_done"
Requests  == Phases \cup {"is_map_done", "is_reduce_done", "stop_server"}

(* "absent": no such file.  "stale": left by an earlier job.  "partial":   *)
(* truncated, not closed.  "full": everything this job's task puts in it.  *)
(* "wrong": closed, but computed from inputs that were not all "full".     *)
FileState == {"absent", "stale", "partial", "full", "wrong"}

ProcState == {"none", "starting", "up", "leaving", "dead"}
(* "deaf": state_ says connected, but nothing is read any more.            *)
ConnState == {"none", "initial", "refused", "connected", "deaf", "disconnected"}
MapSteps    == {"mapRead", "mapOpen", "mapClose", "mapReturn"}
ReduceSteps == {"reduceRead", "reduceApply", "reduceOpen", "reduceClose", "reduceReturn"}
LoopControl == {"sleep", "check", "await", "restartSleep", "recall"}
Control == {"spawn", "startupSleep", "connect", "call", "stop", "returned"}
             \cup LoopControl

VARIABLES
  \* locals of process()
  pc, phase, worker_idx,
  task_status,   \* map_task_status, then reduce_task_status
  nr_done,       \* nr_map_done, then nr_reduce_done
  \* the master's rpc clients and what is under way on their connections
  conn,          \* client_pool[w]: state_ and is_connected_
  req,           \* requests that reached w's connection, not taken by a thread
  reply,         \* answer to the one blocking call() of the master
  \* the server process listening on basePort + w
  proc,
  task, cursor,  \* the controller module it runs, and its loop counter
  acc,           \* reduce: every temp file read so far was full
  completed,     \* map_completed, reduce_completed: the flags that are true
  \* dataDirectory
  temp,          \* temp[m][r]: temp_[m]_[r].txt
  output,        \* output[r]: output_[r].txt
  \* environment
  kills, leaves

masterVars == <<pc, phase, worker_idx, task_status, nr_done>>
clientVars == <<conn, req, reply>>
procVars   == <<proc, task, cursor, acc, completed>>
diskVars   == <<temp, output>>
envVars    == <<kills, leaves>>
vars == <<masterVars, clientVars, procVars, diskVars, envVars>>

TypeOK ==
  /\ pc \in Control
  /\ phase \in Phases
  /\ worker_idx \in 0 .. nr_mapper
  /\ task_status \in [Index -> {0, 1}]
  /\ nr_done \in Nat
  /\ conn \in [Workers -> ConnState]
  /\ req \in [Workers -> SUBSET Requests]
  /\ reply \in {"none", "no", "yes"}
  /\ proc \in [Workers -> ProcState]
  /\ task \in [Workers -> {"idle"} \cup MapSteps \cup ReduceSteps]
  /\ cursor \in [Workers -> Index]
  /\ acc \in [Workers -> BOOLEAN]
  /\ completed \in [Workers -> SUBSET Phases]
  /\ temp \in [Workers -> [Index -> FileState]]
  /\ output \in [Index -> FileState]
  /\ kills \in 0 .. MaxKills
  /\ leaves \in 0 .. MaxLeaves

-----------------------------------------------------------------------------
(* Operators of the master.                                                *)

(* Two wrong versions first: no check, and the comparison turned round.    *)
IsServerDownNever(w) == FALSE
IsServerUp(w) == conn[w] = "connected"
IsServerDown(w) == conn[w] = "disconnected"

(* is_connected_ is set by the connect handler and never cleared.  The     *)
(* spurious wake-ups of wait_conn() are in RpcChannel and not here.        *)
IsConnected(w) == conn[w] \in {"connected", "deaf", "disconnected"}

Alive(w)   == proc[w] \in {"starting", "up", "leaving"}
Serving(w) == proc[w] \in {"up", "leaving"}

(* async_call(): once connected it never blocks; a request on a connection *)
(* whose server is gone is lost, and nobody is told.  The io thread's      *)
(* write is taken together with the call: until a thread of the server     *)
(* takes the request, the death of the server loses it all the same.  No   *)
(* request is sent while the same one waits (FreshTaskCall, PollInv).      *)
Post(w, m) ==
  req' = IF conn[w] = "connected" /\ Serving(w)
         THEN [req EXCEPT ![w] = @ \cup {m}]
         ELSE req

(* fork(): the child has the master's flags, which are both false.         *)
ForkServer(w) ==
  /\ proc' = [proc EXCEPT ![w] = "starting"]
  /\ task' = [task EXCEPT ![w] = "idle"]
  /\ cursor' = [cursor EXCEPT ![w] = 0]
  /\ acc' = [acc EXCEPT ![w] = TRUE]
  /\ completed' = [completed EXCEPT ![w] = {}]

(* fork() returns -1, which the master takes for a child like any other.   *)
ForkFails ==
  /\ kills < MaxKills /\ pc \in KillPoints
  /\ kills' = kills + 1
  /\ UNCHANGED <<procVars, leaves>>

(* The process on w's port is gone, and with it what it had in memory and  *)
(* what waited on its connections.                                         *)
Die(w) ==
  /\ proc' = [proc EXCEPT ![w] = "dead"]
  /\ task' = [task EXCEPT ![w] = "idle"]
  /\ cursor' = [cursor EXCEPT ![w] = 0]
  /\ acc' = [acc EXCEPT ![w] = TRUE]
  /\ completed' = [completed EXCEPT ![w] = {}]
  /\ req' = [req EXCEPT ![w] = {}]

-----------------------------------------------------------------------------
(* Initial state: process() entered, dataDirectory empty or with the files *)
(* of an earlier job.                                                      *)
Init ==
  /\ pc = "spawn" /\ phase = "map" /\ worker_idx = 0
  /\ task_status = [i \in Index |-> 0] /\ nr_done = 0
  /\ conn = [w \in Workers |-> "none"]
  /\ req = [w \in Workers |-> {}]
  /\ reply = "none"
  /\ proc = [w \in Workers |-> "none"]
  /\ task = [w \in Workers |-> "idle"]
  /\ cursor = [w \in Workers |-> 0]
  /\ acc = [w \in Workers |-> TRUE]
  /\ completed = [w \in Workers |-> {}]
  /\ \E f \in {"absent", "stale"} :
       /\ temp = [w \in Workers |-> [i \in Index |-> f]]
       /\ output = [i \in Index |-> f]
  /\ kills = 0 /\ leaves = 0

-----------------------------------------------------------------------------
(* process(): start-up.  The master's actions below are those of its one   *)
(* thread; in both phases worker_idx is the index of the loop it is in.    *)

StartServer ==
  /\ pc = "spawn" /\ worker_idx < nr_mapper
  /\ \/ ForkServer(worker_idx) /\ UNCHANGED envVars
     \/ ForkFails
  /\ worker_idx' = worker_idx + 1
  /\ UNCHANGED <<pc, phase, task_status, nr_done, clientVars, diskVars>>

AllForked ==
  /\ pc = "spawn" /\ worker_idx = nr_mapper
  /\ pc' = "startupSleep" /\ worker_idx' = 0
  /\ UNCHANGED <<phase, task_status, nr_done, clientVars, procVars, diskVars, envVars>>

(* sleep(1), "so that all servers are completely started".                 *)
StartupSleepEnds ==
  /\ pc = "startupSleep"
  /\ LongSleep => \A w \in Workers : proc[w] # "starting"
  /\ pc' = "connect"
  /\ UNCHANGED <<phase, worker_idx, task_status, nr_done, clientVars, procVars,
                 diskVars, envVars>>

(* new rpc::client(...) starts to connect and does not wait.               *)
NewClient ==
  /\ pc = "connect"
  /\ conn' = [conn EXCEPT ![worker_idx] = "initial"]
  /\ IF worker_idx + 1 < nr_mapper
     THEN pc' = pc /\ worker_idx' = worker_idx + 1
     ELSE pc' = "call" /\ worker_idx' = 0
  /\ UNCHANGED <<phase, task_status, nr_done, req, reply, procVars, diskVars, envVars>>

-----------------------------------------------------------------------------
(* process(): a phase.  async_call() first waits in wait_conn() until the  *)
(* client has been connected once.                                         *)

CallTask ==
  /\ pc = "call" /\ worker_idx < nr_mapper
  /\ IsConnected(worker_idx)
  /\ Post(worker_idx, phase)
  /\ worker_idx' = worker_idx + 1
  /\ UNCHANGED <<pc, phase, task_status, nr_done, conn, reply, procVars, diskVars, envVars>>

TaskCount == IF phase = "map" THEN nr_mapper ELSE nr_reducer

(* The status vector has TaskCount cells, and the loop uses the first      *)
(* nr_mapper: what lies behind the vector is read as it happens to be.     *)
AllCalled ==
  /\ pc = "call" /\ worker_idx = nr_mapper
  /\ \E junk \in [Workers \ (0 .. TaskCount - 1) -> {0, 1}] :
       task_status' = [i \in Index |-> IF i \in DOMAIN junk THEN junk[i] ELSE 0]
  /\ nr_done' = 0 /\ worker_idx' = 0 /\ pc' = "sleep"
  /\ UNCHANGED <<phase, clientVars, procVars, diskVars, envVars>>

(* A wrong version: the pass over the servers starts at the second one.    *)
SleepEndsAtSecond ==
  /\ pc = "sleep"
  /\ LongSleep => \A w \in Workers : ~(proc[w] = "dead" /\ conn[w] = "connected")
  /\ pc' = "check" /\ worker_idx' = 1
  /\ UNCHANGED <<phase, task_status, nr_done, clientVars, procVars, diskVars, envVars>>

(* while (true) { sleep(1); for (worker_idx = 0; ... }                     *)
SleepEnds ==
  /\ pc = "sleep"
  /\ LongSleep => \A w \in Workers : ~(proc[w] = "dead" /\ conn[w] = "connected")
  /\ pc' = "check" /\ worker_idx' = 0
  /\ UNCHANGED <<phase, task_status, nr_done, clientVars, procVars, diskVars, envVars>>

SkipDone ==
  /\ pc = "check" /\ worker_idx < nr_mapper
  /\ task_status[worker_idx] = 1
  /\ worker_idx' = worker_idx + 1
  /\ UNCHANGED <<pc, phase, task_status, nr_done, clientVars, procVars, diskVars, envVars>>

Restart ==
  /\ pc = "check" /\ worker_idx < nr_mapper
  /\ task_status[worker_idx] # 1
  /\ IsServerDown(worker_idx)
  /\ \/ ForkServer(worker_idx) /\ UNCHANGED envVars
     \/ ForkFails
  /\ pc' = "restartSleep"
  /\ UNCHANGED <<phase, worker_idx, task_status, nr_done, clientVars, diskVars>>

(* A wrong version: the new client does not wait for the new server.       *)
ReconnectAtOnce ==
  /\ pc = "restartSleep"
  /\ conn' = [conn EXCEPT ![worker_idx] = "initial"]
  /\ pc' = "recall"
  /\ UNCHANGED <<phase, worker_idx, task_status, nr_done, req, reply, procVars,
                 diskVars, envVars>>

(* sleep(1), then a new client in the pool's slot.                         *)
Reconnect ==
  /\ pc = "restartSleep"
  /\ LongSleep => proc[worker_idx] # "starting"
  /\ conn' = [conn EXCEPT ![worker_idx] = "initial"]
  /\ pc' = "recall"
  /\ UNCHANGED <<phase, worker_idx, task_status, nr_done, req, reply, procVars,
                 diskVars, envVars>>

(* Wrong versions of Recall: the map loop's line in the reduce loop, and   *)
(* no call at all.                                                         *)
RecallMapTask ==
  /\ pc = "recall" /\ IsConnected(worker_idx)
  /\ Post(worker_idx, "map")
  /\ worker_idx' = worker_idx + 1 /\ pc' = "check"
  /\ UNCHANGED <<phase, task_status, nr_done, conn, reply, procVars, diskVars, envVars>>

RecallNothing ==
  /\ pc = "recall" /\ IsConnected(worker_idx)
  /\ worker_idx' = worker_idx + 1 /\ pc' = "check"
  /\ UNCHANGED <<phase, task_status, nr_done, clientVars, procVars, diskVars, envVars>>

Recall ==
  /\ pc = "recall" /\ IsConnected(worker_idx)
  /\ Post(worker_idx, phase)
  /\ worker_idx' = worker_idx + 1 /\ pc' = "check"
  /\ UNCHANGED <<phase, task_status, nr_done, conn, reply, procVars, diskVars, envVars>>

(* client::call(): sends the request and blocks, with no timeout, for the  *)
(* answer.                                                                 *)
Poll ==
  /\ pc = "check" /\ worker_idx < nr_mapper
  /\ task_status[worker_idx] # 1
  /\ ~IsServerDown(worker_idx) /\ IsConnected(worker_idx)
  /\ Post(worker_idx, IsDone(phase))
  /\ reply' = "none" /\ pc' = "await"
  /\ UNCHANGED <<phase, worker_idx, task_status, nr_done, conn, procVars, diskVars, envVars>>

(* Wrong versions of Answer: any answer counts; "no" makes the master call *)
(* the task again; the answer is counted and the status not set.           *)
AnswerCountsAny ==
  /\ pc = "await" /\ reply # "none"
  /\ task_status' = [task_status EXCEPT ![worker_idx] = 1]
  /\ nr_done' = nr_done + 1
  /\ worker_idx' = worker_idx + 1 /\ pc' = "check" /\ reply' = "none"
  /\ UNCHANGED <<phase, conn, req, procVars, diskVars, envVars>>

AnswerCallsAgain ==
  /\ pc = "await" /\ reply # "none"
  /\ IF reply = "yes"
     THEN /\ task_status' = [task_status EXCEPT ![worker_idx] = 1]
          /\ nr_done' = nr_done + 1
          /\ UNCHANGED req
     ELSE /\ Post(worker_idx, phase)
          /\ UNCHANGED <<task_status, nr_done>>
  /\ worker_idx' = worker_idx + 1 /\ pc' = "check" /\ reply' = "none"
  /\ UNCHANGED <<phase, conn, procVars, diskVars, envVars>>

AnswerOnlyCounts ==
  /\ pc = "await" /\ reply # "none"
  /\ nr_done' = IF reply = "yes" THEN nr_done + 1 ELSE nr_done
  /\ worker_idx' = worker_idx + 1 /\ pc' = "check" /\ reply' = "none"
  /\ UNCHANGED <<phase, task_status, conn, req, procVars, diskVars, envVars>>

Answer ==
  /\ pc = "await" /\ reply # "none"
  /\ IF reply = "yes"
     THEN /\ task_status' = [task_status EXCEPT ![worker_idx] = 1]
          /\ nr_done' = nr_done + 1
     ELSE UNCHANGED <<task_status, nr_done>>
  /\ worker_idx' = worker_idx + 1 /\ pc' = "check" /\ reply' = "none"
  /\ UNCHANGED <<phase, conn, req, procVars, diskVars, envVars>>

(* The loop over the servers ended: is the phase over?  First with an      *)
(* off-by-one in the comparison.                                           *)
AllButOneDone == nr_done = TaskCount - 1
AllDone == nr_done = TaskCount

PassAgain ==
  /\ pc = "check" /\ worker_idx = nr_mapper
  /\ ~AllDone
  /\ pc' = "sleep"
  /\ UNCHANGED <<phase, worker_idx, task_status, nr_done, clientVars, procVars,
                 diskVars, envVars>>

MapPhaseEnds ==
  /\ pc = "check" /\ worker_idx = nr_mapper
  /\ AllDone /\ phase = "map"
  /\ phase' = "reduce" /\ pc' = "call" /\ worker_idx' = 0
  /\ UNCHANGED <<task_status, nr_done, clientVars, procVars, diskVars, envVars>>

ReducePhaseEnds ==
  /\ pc = "check" /\ worker_idx = nr_mapper
  /\ AllDone /\ phase = "reduce"
  /\ pc' = "stop" /\ worker_idx' = 0
  /\ UNCHANGED <<phase, task_status, nr_done, clientVars, procVars, diskVars, envVars>>

(* A wrong version: the loop skips the first server.                       *)
StopServerButFirst ==
  /\ pc = "stop" /\ worker_idx < nr_mapper
  /\ IF worker_idx = 0 THEN UNCHANGED req ELSE Post(worker_idx, "stop_server")
  /\ worker_idx' = worker_idx + 1
  /\ UNCHANGED <<pc, phase, task_status, nr_done, conn, reply, procVars, diskVars, envVars>>

StopServer ==
  /\ pc = "stop" /\ worker_idx < nr_mapper
  /\ Post(worker_idx, "stop_server")
  /\ worker_idx' = worker_idx + 1
  /\ UNCHANGED <<pc, phase, task_status, nr_done, conn, reply, procVars, diskVars, envVars>>

Return ==
  /\ pc = "stop" /\ worker_idx = nr_mapper
  /\ pc' = "returned"
  /\ UNCHANGED <<phase, worker_idx, task_status, nr_done, clientVars, procVars,
                 diskVars, envVars>>

Master ==
  \/ StartServer \/ AllForked \/ StartupSleepEnds \/ NewClient
  \/ CallTask \/ AllCalled \/ SleepEnds
  \/ SkipDone \/ Restart \/ Reconnect \/ Recall \/ Poll \/ Answer
  \/ PassAgain \/ MapPhaseEnds \/ ReducePhaseEnds
  \/ StopServer \/ Return

-----------------------------------------------------------------------------
(* The io thread of w's client.                                            *)

ConnectOk(w) ==
  /\ conn[w] = "initial" /\ Serving(w)
  /\ conn' = [conn EXCEPT ![w] = "connected"]
  /\ UNCHANGED <<masterVars, req, reply, procVars, diskVars, envVars>>

(* The error is printed; state_ stays initial and wait_conn() is not woken.*)
ConnectRefused(w) ==
  /\ conn[w] = "initial" /\ ~Serving(w)
  /\ conn' = [conn EXCEPT ![w] = "refused"]
  /\ UNCHANGED <<masterVars, req, reply, procVars, diskVars, envVars>>

(* do_read() fails with eof or connection_reset.  Only state_ changes:     *)
(* calls under way stay unanswered.                                        *)
NoticeEof(w) ==
  /\ conn[w] = "connected" /\ proc[w] = "dead"
  /\ conn' = [conn EXCEPT ![w] = "disconnected"]
  /\ UNCHANGED <<masterVars, req, reply, procVars, diskVars, envVars>>

(* do_read() fails with any other error, which is only logged: the master  *)
(* never learns that this server is down.  A read is taken to fail only    *)
(* when its server is gone: both ends are on one host.  RpcChannel has     *)
(* read errors at any time.                                                *)
ReadFails(w) ==
  /\ ReadErrors
  /\ conn[w] = "connected" /\ proc[w] = "dead"
  /\ conn' = [conn EXCEPT ![w] = "deaf"]
  /\ UNCHANGED <<masterVars, req, reply, procVars, diskVars, envVars>>

ClientIO(w) == ConnectOk(w) \/ ConnectRefused(w) \/ NoticeEof(w) \/ ReadFails(w)

-----------------------------------------------------------------------------
(* The server on w's port: its main thread, and the two threads of         *)
(* async_run(2), on each of which one handler runs at a time.              *)

Listen(w) ==
  /\ proc[w] = "starting"
  /\ proc' = [proc EXCEPT ![w] = "up"]
  /\ UNCHANGED <<masterVars, clientVars, task, cursor, acc, completed, diskVars, envVars>>

(* async_run(2)                                                            *)
ServerThreads == 2
FreeThread(w) == (IF task[w] = "idle" THEN 0 ELSE 1) < ServerThreads

(* A wrong version: the flag is set before the module has run.             *)
StartTaskFlagFirst(w, p) ==
  /\ proc[w] = "up" /\ p \in req[w] /\ task[w] = "idle"
  /\ req' = [req EXCEPT ![w] = @ \ {p}]
  /\ task' = [task EXCEPT ![w] = IF p = "map" THEN "mapRead" ELSE "reduceRead"]
  /\ cursor' = [cursor EXCEPT ![w] = 0]
  /\ acc' = [acc EXCEPT ![w] = TRUE]
  /\ completed' = [completed EXCEPT ![w] = @ \cup {p}]
  /\ UNCHANGED <<masterVars, conn, reply, proc, diskVars, envVars>>

(* A free thread takes the call of a task.  FreshTaskCall is why the case  *)
(* of a second task in one process does not arise.                         *)
StartTask(w, p) ==
  /\ proc[w] = "up" /\ p \in req[w] /\ task[w] = "idle"
  /\ req' = [req EXCEPT ![w] = @ \ {p}]
  /\ task' = [task EXCEPT ![w] = IF p = "map" THEN "mapRead" ELSE "reduceRead"]
  /\ cursor' = [cursor EXCEPT ![w] = 0]
  /\ acc' = [acc EXCEPT ![w] = TRUE]
  /\ UNCHANGED <<masterVars, conn, reply, proc, completed, diskVars, envVars>>

(* A wrong version: the heart-beat is only answered when the flag is up.   *)
AnswerPollOnlyYes(w, p) ==
  /\ proc[w] = "up" /\ IsDone(p) \in req[w] /\ FreeThread(w)
  /\ req' = [req EXCEPT ![w] = @ \ {IsDone(p)}]
  /\ reply' = IF p \in completed[w] THEN "yes" ELSE reply
  /\ UNCHANGED <<masterVars, conn, procVars, diskVars, envVars>>

AnswerPoll(w, p) ==
  /\ proc[w] = "up" /\ IsDone(p) \in req[w] /\ FreeThread(w)
  /\ req' = [req EXCEPT ![w] = @ \ {IsDone(p)}]
  /\ reply' = IF p \in completed[w] THEN "yes" ELSE "no"
  /\ UNCHANGED <<masterVars, conn, procVars, diskVars, envVars>>

(* stop_server: stop() and exit(0), whatever the other thread does.        *)
HandleStop(w) ==
  /\ proc[w] = "up" /\ "stop_server" \in req[w] /\ FreeThread(w)
  /\ Die(w)
  /\ UNCHANGED <<masterVars, conn, reply, diskVars, envVars>>

Handle(w) ==
  \/ \E p \in Phases : StartTask(w, p) \/ AnswerPoll(w, p)
  \/ HandleStop(w)

(* cin >> b returns (a line, or EOF at once): main leaves process(), and   *)
(* ~server stops the threads; a handler that runs is waited for.           *)
StdinReturns(w) ==
  /\ proc[w] = "up" /\ leaves < MaxLeaves
  /\ proc' = [proc EXCEPT ![w] = "leaving"]
  /\ leaves' = leaves + 1
  /\ UNCHANGED <<masterVars, clientVars, task, cursor, acc, completed, diskVars, kills>>

LeaveExit(w) ==
  /\ proc[w] = "leaving" /\ task[w] = "idle"
  /\ Die(w)
  /\ UNCHANGED <<masterVars, conn, reply, diskVars, envVars>>

-----------------------------------------------------------------------------
(* map_controller_module on mapper w.                                      *)

(* Reads the input and applies map_fn.  Every early return and every       *)
(* exception leaves the temporary files of an earlier run as they are.     *)
MapRead(w) ==
  /\ task[w] = "mapRead" /\ Serving(w)
  /\ \/ /\ "ok" \in MapResults
        /\ task' = [task EXCEPT ![w] = "mapOpen"]
        /\ UNCHANGED <<masterVars, clientVars, proc, cursor, acc, completed,
                       diskVars, envVars>>
     \/ /\ "error" \in MapResults
        /\ task' = [task EXCEPT ![w] = "mapReturn"]
        /\ UNCHANGED <<masterVars, clientVars, proc, cursor, acc, completed,
                       diskVars, envVars>>
     \/ /\ "throw" \in MapResults
        /\ Die(w)
        /\ UNCHANGED <<masterVars, conn, reply, diskVars, envVars>>

(* The loop counter after one more of bound files (0: the loop has ended); *)
(* first with <= for < in the loop's condition.                            *)
FollowingTooFar(c, bound) == IF c + 1 =< bound THEN c + 1 ELSE 0
Following(c, bound) == IF c + 1 < bound THEN c + 1 ELSE 0

MapOpen(w) ==
  /\ task[w] = "mapOpen" /\ Serving(w)
  /\ temp' = [temp EXCEPT ![w][cursor[w]] = "partial"]
  /\ cursor' = [cursor EXCEPT ![w] = Following(@, nr_reducer)]
  /\ task' = [task EXCEPT ![w] = IF cursor'[w] = 0 THEN "mapClose" ELSE @]
  /\ UNCHANGED <<masterVars, clientVars, proc, acc, completed, output, envVars>>

(* The pairs are written to buffered streams: a file is complete when it   *)
(* is closed.                                                              *)
MapClose(w) ==
  /\ task[w] = "mapClose" /\ Serving(w)
  /\ temp' = [temp EXCEPT ![w][cursor[w]] = "full"]
  /\ cursor' = [cursor EXCEPT ![w] = Following(@, nr_reducer)]
  /\ task' = [task EXCEPT ![w] = IF cursor'[w] = 0 THEN "mapReturn" ELSE @]
  /\ UNCHANGED <<masterVars, clientVars, proc, acc, completed, output, envVars>>

(* The handler drops the module's return value.                            *)
MapReturn(w) ==
  /\ task[w] = "mapReturn" /\ Serving(w)
  /\ completed' = [completed EXCEPT ![w] = @ \cup {"map"}]
  /\ task' = [task EXCEPT ![w] = "idle"]
  /\ UNCHANGED <<masterVars, clientVars, proc, cursor, acc, diskVars, envVars>>

-----------------------------------------------------------------------------
(* reduce_controller_module on reducer w.                                  *)

(* read_text() of one temp file; a missing one reads as empty.             *)
ReduceRead(w) ==
  /\ task[w] = "reduceRead" /\ Serving(w)
  /\ acc' = [acc EXCEPT ![w] = @ /\ temp[cursor[w]][w] = "full"]
  /\ cursor' = [cursor EXCEPT ![w] = Following(@, nr_mapper)]
  /\ task' = [task EXCEPT ![w] = IF cursor'[w] = 0 THEN "reduceApply" ELSE @]
  /\ UNCHANGED <<masterVars, clientVars, proc, completed, diskVars, envVars>>

ReduceApply(w) ==
  /\ task[w] = "reduceApply" /\ Serving(w)
  /\ \/ /\ "ok" \in ReduceResults
        /\ task' = [task EXCEPT ![w] = "reduceOpen"]
        /\ UNCHANGED <<masterVars, clientVars, proc, cursor, acc, completed,
                       diskVars, envVars>>
     \/ /\ "error" \in ReduceResults
        /\ task' = [task EXCEPT ![w] = "reduceReturn"]
        /\ UNCHANGED <<masterVars, clientVars, proc, cursor, acc, completed,
                       diskVars, envVars>>
     \/ /\ "throw" \in ReduceResults
        /\ Die(w)
        /\ UNCHANGED <<masterVars, conn, reply, diskVars, envVars>>

(* write_key_val_vector() truncates output_[w].txt, fills and closes it.   *)
ReduceOpen(w) ==
  /\ task[w] = "reduceOpen" /\ Serving(w)
  /\ output' = [output EXCEPT ![w] = "partial"]
  /\ task' = [task EXCEPT ![w] = "reduceClose"]
  /\ UNCHANGED <<masterVars, clientVars, proc, cursor, acc, completed, temp, envVars>>

ReduceClose(w) ==
  /\ task[w] = "reduceClose" /\ Serving(w)
  /\ output' = [output EXCEPT ![w] = IF acc[w] THEN "full" ELSE "wrong"]
  /\ task' = [task EXCEPT ![w] = "reduceReturn"]
  /\ UNCHANGED <<masterVars, clientVars, proc, cursor, acc, completed, temp, envVars>>

ReduceReturn(w) ==
  /\ task[w] = "reduceReturn" /\ Serving(w)
  /\ completed' = [completed EXCEPT ![w] = @ \cup {"reduce"}]
  /\ task' = [task EXCEPT ![w] = "idle"]
  /\ UNCHANGED <<masterVars, clientVars, proc, cursor, acc, diskVars, envVars>>

TaskStep(w) ==
  \/ MapRead(w) \/ MapOpen(w) \/ MapClose(w) \/ MapReturn(w)
  \/ ReduceRead(w) \/ ReduceApply(w) \/ ReduceOpen(w) \/ ReduceClose(w)
  \/ ReduceReturn(w)

-----------------------------------------------------------------------------
(* A server process is killed from outside.                                *)
Kill(w) ==
  /\ Alive(w) /\ kills < MaxKills
  /\ pc \in KillPoints
  /\ kills' = kills + 1
  /\ Die(w)
  /\ UNCHANGED <<masterVars, conn, reply, diskVars, leaves>>

Worker(w) == Listen(w) \/ Handle(w) \/ TaskStep(w) \/ LeaveExit(w)
Environment(w) == StdinReturns(w) \/ Kill(w)

Next ==
  \/ Master
  \/ \E w \in Workers : ClientIO(w) \/ Worker(w) \/ Environment(w)

(* The scheduler runs the master's thread, the io threads and each thread  *)
(* of a server, and io_service runs what was posted to it in order, so no  *)
(* kind of request starves another; nothing obliges the environment to     *)
(* kill a server or to type.                                               *)
ServerFairness ==
  \A w \in Workers :
    /\ WF_vars(ClientIO(w))
    /\ WF_vars(Listen(w) \/ LeaveExit(w))
    /\ WF_vars(\E p \in Phases : StartTask(w, p))
    /\ WF_vars(\E p \in Phases : AnswerPoll(w, p))
    /\ WF_vars(HandleStop(w))
SafeSpec == Init /\ [][Next]_vars
Spec == SafeSpec /\ WF_vars(Master) /\ ServerFairness
             /\ \A w \in Workers : WF_vars(TaskStep(w))

-----------------------------------------------------------------------------
(* Correctness.  The type invariant is TypeOK above.                       *)

InLoop == pc \in LoopControl
StatusHeld == InLoop \/ pc \in {"stop", "returned"}
Steps(p) == IF p = "map" THEN MapSteps ELSE ReduceSteps
MapOutputReady(m)    == \A r \in Reducers : temp[m][r] = "full"
ReduceOutputReady(r) == output[r] = "full"
Ready(p, w) ==
  IF p = "map" THEN MapOutputReady(w) ELSE w \in Reducers => ReduceOutputReady(w)

(* The barrier: reduce_controller_module(r) only runs when every mapper    *)
(* has closed the temporary file it wrote for r, whoever was killed and    *)
(* restarted in between (lines 415-426, 687-712).                          *)
ReduceInputsComplete ==
  \A r \in Workers \cap Reducers :
    task[r] \in ReduceSteps => \A m \in Workers : temp[m][r] = "full"

(* What the master has recorded as done is on disk, although the flag that *)
(* said so was polled earlier from a process that may have died since      *)
(* (lines 405-409, 515-519).                                               *)
RecordedTaskIsOnDisk ==
  StatusHeld => \A w \in Workers :
    task_status[w] = 1 => Ready(phase, w)

(* process() returns only with the complete output of every reducer.       *)
ReturnedComplete == pc = "returned" => \A r \in Reducers : ReduceOutputReady(r)

(* A server the master is connected to and waits for has been told to do   *)
(* the task, or has done it: the master never waits for a task nobody was  *)
(* given (lines 311-315, 397-401, 422-426, 507-511).                       *)
NoForgottenTask ==
  InLoop => \A w \in Workers :
    /\ task_status[w] = 0 /\ conn[w] = "connected" /\ proc[w] = "up"
    /\ ~(pc = "recall" /\ w = worker_idx)
    => phase \in req[w] \/ task[w] \in Steps(phase) \/ phase \in completed[w]

(* The heart-beat the master blocks on without a timeout is with the       *)
(* server it was sent to, as long as that server lives, starting or        *)
(* leaving ones included: no kill, restart or task takes it away           *)
(* unanswered (lines 262-267, 273-278, 404-406, 514-516).                  *)
HeartbeatIsServed ==
  pc = "await" /\ reply = "none" /\ Alive(worker_idx) => IsDone(phase) \in req[worker_idx]

(* If sleep(1) outlasts the start of a server, as the comment "so that all *)
(* servers are completely started" has it, the master never waits in       *)
(* wait_conn() beside a living server for a connection that cannot come:   *)
(* it is made, or the server listens and it will be (lines 303-315,        *)
(* 390-401, 500-511; client.cc 47-58, 177-192).  With a shorter sleep it   *)
(* may: AwaitsRefusedConnection below.                                     *)
ConnectionIsMade ==
  LongSleep /\ pc \in {"call", "recall"} /\ worker_idx < nr_mapper /\ Alive(worker_idx) =>
    \/ conn[worker_idx] = "connected"
    \/ conn[worker_idx] = "initial" /\ Serving(worker_idx)

(* The master never sends a task to a process that runs a task or has run  *)
(* this one, or where its call still waits: two runs of a controller       *)
(* module in one process would truncate and write the same files, and the  *)
(* flag of the first would be taken for both (lines 262, 273, 311-315,     *)
(* 397-401, 422-426, 507-511).                                             *)
FreshTaskCall ==
  [][/\ \A w \in Workers : \A p \in Phases :
          p \in req'[w] \ req[w] => task[w] = "idle" /\ p \notin completed[w]
     /\ CallTask \/ Recall => phase \notin req[worker_idx]]_vars

(* Once the map phase is over no server touches a temporary file, also     *)
(* when map workers are found dead only in the reduce loop (419-528).      *)
TempFrozenInReduce == [][phase = "reduce" => temp' = temp]_vars

(* A server is forked on a port only when no process has that port, or the *)
(* new one could not bind it (lines 339-346, 451-458).                     *)
OneServerPerPort ==
  [][\A w \in Workers :
       proc[w] # "starting" /\ proc'[w] = "starting" => ~Alive(w)]_vars

(* process() returns.                                                      *)
Termination == <>(pc = "returned")

(* Every server is gone some time after process() returned (530-537).      *)
ServersStop == pc = "returned" ~> \A w \in Workers : ~Alive(w)

(* A server is told to stop before process() returns, unless it is dead:   *)
(* no living server misses the call, which nobody waits for, although      *)
(* servers were restarted and clients replaced before (lines 530-537).     *)
(* The second that process() sleeps at 537 is taken for enough to write it.*)
StopIsDelivered ==
  pc \in {"stop", "returned"} =>
    \A w \in Workers : w < worker_idx /\ Alive(w) => "stop_server" \in req[w]

(* The only ways process() can hang when user code returns, wait_conn() is *)
(* not woken spuriously and a read fails only when its server is gone: it  *)
(* waits for the answer of a server that died, or for a connection that    *)
(* was refused.  PollAnswered of RpcChannel has the ways left out here.    *)
AwaitsDeadServer == pc = "await" /\ reply = "none" /\ ~Alive(worker_idx)
AwaitsRefusedConnection ==
  pc \in {"call", "recall"} /\ worker_idx < nr_mapper /\ conn[worker_idx] = "refused"
StuckOnlyOnLostServer ==
  <>[](pc = "returned" \/ AwaitsDeadServer \/ AwaitsRefusedConnection)

=============================================================================
