------------------------- MODULE MapReduceInvariant -------------------------
(***************************************************************************)
(* The inductive invariant behind the safety properties of                 *)
(* MapReduceMaster.  Its parts speak of both phases p at once; Steps(p),   *)
(* IsDone(p) and Ready(p, w) choose between map and reduce.                *)
(***************************************************************************)
EXTENDS MapReduceMaster

(* The controller modules never end in an error code.  With one the        *)
(* handler raises the flag of a task that wrote nothing: what the          *)
(* invariant says of files is said for runs without.                       *)
NoErrorCodes == "error" \notin MapResults /\ "error" \notin ReduceResults

(* The loop index is a server's wherever it is used as one.                *)
IndexInv ==
  /\ pc = "startupSleep" => worker_idx = 0
  /\ pc \in {"connect", "await", "restartSleep", "recall"} => worker_idx < nr_mapper

(* What can be said of w once its task of phase p is finished for good.    *)
Written(p, w) == NoErrorCodes => Ready(p, w)
Settled(p, w) == Written(p, w) /\ p \notin req[w] /\ task[w] \notin Steps(p)

(* What can be said of w before it is told to do its task of phase p.      *)
Untold(p, w) == p \notin req[w] /\ task[w] \notin Steps(p) /\ p \notin completed[w]

(* No process, or one that does not listen yet, holds nothing.             *)
GoneInv ==
  \A w \in Workers :
    ~Serving(w) => req[w] = {} /\ task[w] = "idle" /\ completed[w] = {}

(* No process has a port that was not forked for.                          *)
SpawnInv ==
  pc = "spawn" => \A w \in Workers : w >= worker_idx => proc[w] = "none"

(* The master only takes a server for dead that is; one whose end it did   *)
(* not understand is dead and is not replaced.                             *)
DownInv ==
  \A w \in Workers :
    /\ conn[w] = "disconnected" =>
         proc[w] = "dead" \/ (pc = "restartSleep" /\ w = worker_idx)
    /\ conn[w] = "deaf" => proc[w] = "dead"

(* A task is called and run in its own phase only, and called once.        *)
CallInv ==
  \A w \in Workers : \A p \in Phases :
    /\ p \in req[w] => phase = p /\ task[w] = "idle"
    /\ task[w] \in Steps(p) => phase = p

(* A raised flag tells the truth.                                          *)
FlagInv ==
  \A w \in Workers : \A p \in Phases :
    p \in completed[w] => Settled(p, w) /\ (p = "reduce" => phase = "reduce")

(* One heart-beat is under way at most, and it is the one awaited.         *)
PollInv ==
  \A w \in Workers : \A p \in Phases :
    IsDone(p) \in req[w] =>
      pc = "await" /\ w = worker_idx /\ phase = p /\ reply = "none"

(* A positive answer stays true until it is read.                          *)
ReplyInv == reply = "yes" => pc = "await" /\ Settled(phase, worker_idx)

(* Servers that are about to be called have not been.                      *)
NotCalledYet(w) ==
  \/ pc \in {"spawn", "startupSleep", "connect"}
  \/ pc = "call" /\ w >= worker_idx
  \/ pc \in {"restartSleep", "recall"} /\ w = worker_idx
UntoldInv == \A w \in Workers : NotCalledYet(w) => Untold(phase, w)

(* The tasks the master has recorded are settled.                          *)
RecordInv ==
  StatusHeld => \A w \in Workers :
    w < TaskCount /\ task_status[w] = 1 => Settled(phase, w)

(* The counter counts them.                                                *)
DoneWorkers == {w \in Workers : task_status[w] = 1}
CountInv == InLoop /\ TaskCount = nr_mapper => nr_done = Cardinality(DoneWorkers)

(* Where the master is in its program.                                     *)
ControlInv ==
  /\ pc \in {"spawn", "startupSleep", "connect"} => phase = "map"
  /\ pc \in {"await", "restartSleep", "recall"} => task_status[worker_idx] # 1
  /\ pc \in {"stop", "returned"} =>
       phase = "reduce" /\ (nr_mapper = nr_reducer => DoneWorkers = Workers)

(* The barrier between the phases.                                         *)
BarrierInv ==
  phase = "reduce" => \A m \in Workers : NoErrorCodes => MapOutputReady(m)

(* Progress of the controller modules through their loops.                 *)
MapLoopInv ==
  \A w \in Workers :
    /\ task[w] = "mapRead" => cursor[w] = 0
    /\ task[w] \in {"mapOpen", "mapClose"} => cursor[w] \in Reducers
    /\ task[w] = "mapClose" => \A r \in Reducers : r < cursor[w] => temp[w][r] = "full"
    /\ task[w] = "mapReturn" => Written("map", w)
ReduceLoopInv ==
  \A w \in Workers :
    /\ task[w] = "reduceRead" => cursor[w] \in Workers
    /\ w \in Reducers /\ NoErrorCodes => acc[w] = TRUE
    /\ task[w] = "reduceReturn" => Written("reduce", w)

IInv ==
  /\ TypeOK /\ IndexInv
  /\ GoneInv /\ SpawnInv /\ DownInv /\ CallInv /\ FlagInv
  /\ PollInv /\ ReplyInv /\ UntoldInv
  /\ RecordInv /\ CountInv /\ ControlInv
  /\ BarrierInv /\ MapLoopInv /\ ReduceLoopInv

-----------------------------------------------------------------------------
(* The second invariant, behind NoForgottenTask.                           *)

(* A connection only exists to the process that holds the port now, and a  *)
(* client is only replaced when its connection is seen broken.             *)
ConnInv ==
  /\ \A w \in Workers : conn[w] = "connected" => proc[w] \in {"up", "leaving", "dead"}
  /\ pc \in {"spawn", "startupSleep"} => \A w \in Workers : conn[w] = "none"
  /\ pc = "restartSleep" => conn[worker_idx] = "disconnected"

(* The servers the master has called in this phase, and what such a server *)
(* then holds as long as it lives.                                         *)
Called(w) ==
  \/ pc = "call" /\ w < worker_idx
  \/ InLoop /\ ~(pc \in {"restartSleep", "recall"} /\ w = worker_idx)
HasTask(w) == phase \in req[w] \/ task[w] \in Steps(phase) \/ phase \in completed[w]

ToldInv ==
  \A w \in Workers :
    Called(w) => IsConnected(w) /\ (conn[w] = "connected" /\ Serving(w) => HasTask(w))

CallsInv == ConnInv /\ ToldInv

-----------------------------------------------------------------------------
(* The servers that have a client in the pool; a slot is never emptied.    *)
HasClient(w) ==
  \/ pc \notin {"spawn", "startupSleep", "connect"}
  \/ pc = "connect" /\ w < worker_idx
PoolInv == \A w \in Workers : HasClient(w) => conn[w] # "none"

(* Behind ConnectionIsMade: once the servers have been waited for, none is *)
(* starting but the one that was just restarted, and whoever refused a     *)
(* connection is dead and stays dead.                                      *)
StartInv ==
  LongSleep => \A w \in Workers :
    /\ pc \notin {"spawn", "startupSleep"} /\ proc[w] = "starting" =>
         pc = "restartSleep" /\ w = worker_idx
    /\ conn[w] = "refused" => ~Alive(w)

(* Behind StopIsDelivered: after the loops every client has been connected *)
(* once, so a server it is not connected to now is dead.                   *)
StopInv ==
  /\ pc = "stop" => \A w \in Workers : IsConnected(w)
  /\ StopIsDelivered
=============================================================================
