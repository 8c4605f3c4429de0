----------------------------- MODULE RpcChannel -----------------------------
(***************************************************************************)
(* One rpclib client and the session of the server it talks to:            *)
(* lib/rpc/client.cc, include/rpc/client.inl, lib/rpc/server.cc and        *)
(* lib/rpc/detail/server_session.cc.  The client has the thread that makes *)
(* calls (the master's) and an io thread; the server has a pool of threads *)
(* any of which runs any handler.  MapReduceMaster abstracts all this to   *)
(* Post, StartTask, AnswerPoll, NoticeEof and ReadFails.                   *)
(*                                                                         *)
(* A call is known by its number, in the order of calls.  What travels is  *)
(* its id and, for the properties, the number of the call it belongs to.   *)
(***************************************************************************)
EXTENDS Naturals, Sequences, FiniteSets

CONSTANTS
  MaxCalls,      \* bound: how many calls are made
  MaxSpurious,   \* bound: spurious wake-ups of the condition variable
  MayDie         \* environment: the server may be killed

ASSUME ChannelAssumption ==
  MaxCalls \in Nat /\ MaxSpurious \in Nat /\ MayDie \in BOOLEAN

Calls == 1 .. MaxCalls

(* "task": async_call() of map or reduce, whose handler takes long.        *)
(* "poll": call() of is_map_done or is_reduce_done.                        *)
Functions == {"task", "poll"}

Ids      == 0 .. MaxCalls
Message  == [id : Ids, call : Calls]
Posts    == [type : {"post"}, id : Ids, call : Calls]
Erases   == [type : {"erase"}, id : Ids]

VARIABLES
  \* the client's calling thread
  asked,         \* asked[c]: the function of the c-th call
  caller,        \* "ready", "await" (in future.get() of the last call), or
                 \* the function of a call that waits in wait_conn()
  call_idx,
  promise,       \* promise[c]: the call whose answer it was given, 0: none
  \* the client's io thread
  conn,          \* "deaf": state_ is connected, and nothing reads any more
  ongoing_calls, \* ongoing_calls[id]: the call whose promise is there
  strand,        \* handlers posted through strand_, not run yet
  out_queue, out_ops,   \* its async_writer
  \* the two directions of the connection
  requests, answers,
  \* the server
  srv, session,  \* the accepted session exists
  io_queue,      \* calls posted to io_, not taken by a thread
  executing,     \* calls whose handler a thread runs
  write_strand,  \* answers posted through the session's write_strand_
  in_queue, in_ops,     \* the session's async_writer
  spurious

callerVars == <<asked, caller, call_idx>>
ioVars     == <<conn, ongoing_calls, strand>>
outVars    == <<out_queue, out_ops>>
wireVars   == <<requests, answers>>
serverVars == <<srv, session, io_queue, executing, write_strand>>
inVars     == <<in_queue, in_ops>>
vars == <<callerVars, promise, ioVars, outVars, wireVars, serverVars, inVars, spurious>>

Out == INSTANCE AsyncWriter WITH
         Items <- Message, exit_ <- FALSE, write_queue <- out_queue, ops <- out_ops
In  == INSTANCE AsyncWriter WITH
         Items <- Message, exit_ <- FALSE, write_queue <- in_queue, ops <- in_ops

(* async_run(2); OneThread is a server that only had srv.run().            *)
OneThread == 1
ServerThreads == 2

TypeOK ==
  /\ asked \in Seq(Functions) /\ Len(asked) =< MaxCalls
  /\ caller \in {"ready", "await"} \cup Functions
  /\ call_idx \in Ids
  /\ promise \in [Calls -> Calls \cup {0}]
  /\ conn \in {"initial", "refused", "connected", "deaf", "disconnected"}
  /\ ongoing_calls \in [Ids -> Calls \cup {0}]
  /\ strand \in Seq(Posts \cup Erases)
  /\ Out!TypeOK
  /\ requests \in Seq(Message) /\ answers \in Seq(Message)
  /\ srv \in {"down", "listening", "running", "dead"} /\ session \in BOOLEAN
  /\ io_queue \in Seq(Message)
  /\ executing \subseteq Message /\ Cardinality(executing) =< ServerThreads
  /\ write_strand \in Seq(Message)
  /\ In!TypeOK
  /\ spurious \in 0 .. MaxSpurious

Init ==
  /\ asked = <<>> /\ caller = "ready" /\ call_idx = 0
  /\ promise = [c \in Calls |-> 0]
  /\ conn = "initial" /\ ongoing_calls = [i \in Ids |-> 0] /\ strand = <<>>
  /\ Out!Init
  /\ requests = <<>> /\ answers = <<>>
  /\ srv = "down" /\ session = FALSE
  /\ io_queue = <<>> /\ executing = {} /\ write_strand = <<>>
  /\ In!Init
  /\ spurious = 0

-----------------------------------------------------------------------------
(* Where a call is.  Its own number is looked for, whatever id it has.     *)
Holds(q, c)    == \E i \in DOMAIN q : q[i].call = c
Posted(c)      == \E i \in DOMAIN strand : strand[i].type = "post" /\ strand[i].call = c
OnItsWay(c)    == Posted(c) \/ Holds(Out!Unsent, c) \/ Holds(requests, c) \/ Holds(io_queue, c)
Executes(c)    == \E m \in executing : m.call = c
ComingBack(c)  == Holds(write_strand, c) \/ Holds(In!Unsent, c) \/ Holds(answers, c)

stage(c) ==
  IF c > Len(asked) THEN "none"
  ELSE IF Executes(c) THEN "executing"
  ELSE IF OnItsWay(c) THEN "called"
  ELSE IF ComingBack(c) THEN "executed"
  ELSE IF promise[c] # 0 THEN "answered" ELSE "lost"

-----------------------------------------------------------------------------
(* The calling thread.                                                     *)

(* is_connected_ is never cleared.                                         *)
IsConnected == conn \in {"connected", "deaf", "disconnected"}

(* The master sends no task to a server that still has one (theorem        *)
(* FreshCalls of MapReduceMaster_proofs).                                  *)
MayCall(f) ==
  f = "task" => \A c \in DOMAIN asked :
                  asked[c] = "task" => stage(c) \notin {"called", "executing"}

(* Wrong versions: the index is not advanced, or twice.                    *)
SameCallIdx == call_idx
CallIdxTwice == call_idx + 2
NextCallIdx == call_idx + 1

(* async_call() once wait_conn() is over; call() goes on to future.get().  *)
Issue(f) ==
  /\ asked' = Append(asked, f)
  /\ call_idx' = NextCallIdx
  /\ strand' = Append(strand, [type |-> "post", id |-> call_idx', call |-> Len(asked')])
  /\ caller' = IF f = "poll" THEN "await" ELSE "ready"

Call(f) ==
  /\ caller = "ready" /\ Len(asked) < MaxCalls /\ MayCall(f)
  /\ IsConnected
  /\ Issue(f)
  /\ UNCHANGED <<promise, conn, ongoing_calls, outVars, wireVars, serverVars, inVars,
                 spurious>>

WaitConn(f) ==
  /\ caller = "ready" /\ Len(asked) < MaxCalls /\ MayCall(f)
  /\ ~IsConnected
  /\ caller' = f
  /\ UNCHANGED <<asked, call_idx, promise, ioVars, outVars, wireVars, serverVars, inVars,
                 spurious>>

(* conn_finished_.wait(lock) returns, and the condition is not looked at   *)
(* again: after notify_all(), or for no reason.                            *)
WakeUp ==
  /\ caller \in Functions /\ IsConnected
  /\ Issue(caller)
  /\ UNCHANGED <<promise, conn, ongoing_calls, outVars, wireVars, serverVars, inVars,
                 spurious>>

SpuriousWakeUp ==
  /\ caller \in Functions /\ ~IsConnected
  /\ spurious < MaxSpurious /\ spurious' = spurious + 1
  /\ Issue(caller)
  /\ UNCHANGED <<promise, conn, ongoing_calls, outVars, wireVars, serverVars, inVars>>

(* future.get()                                                            *)
Get ==
  /\ caller = "await" /\ promise[Len(asked)] # 0
  /\ caller' = "ready"
  /\ UNCHANGED <<asked, call_idx, promise, ioVars, outVars, wireVars, serverVars, inVars,
                 spurious>>

Caller ==
  \/ \E f \in Functions : Call(f) \/ WaitConn(f)
  \/ WakeUp \/ SpuriousWakeUp \/ Get

-----------------------------------------------------------------------------
(* The client's io thread, and the kernel for its socket.                  *)

Listens == srv \in {"listening", "running"}

ConnectOk ==
  /\ conn = "initial" /\ Listens
  /\ conn' = "connected"
  /\ UNCHANGED <<callerVars, promise, ongoing_calls, strand, outVars, wireVars,
                 serverVars, inVars, spurious>>

ConnectRefused ==
  /\ conn = "initial" /\ ~Listens
  /\ conn' = "refused"
  /\ UNCHANGED <<callerVars, promise, ongoing_calls, strand, outVars, wireVars,
                 serverVars, inVars, spurious>>

(* The handler of post(): insert() leaves an entry that is there as it is. *)
RunPost ==
  /\ strand # <<>> /\ Head(strand).type = "post"
  /\ LET h == Head(strand) IN
       /\ ongoing_calls' =
            [ongoing_calls EXCEPT ![h.id] = IF @ = 0 THEN h.call ELSE @]
       /\ Out!write([id |-> h.id, call |-> h.call])
  /\ strand' = Tail(strand)
  /\ UNCHANGED <<callerVars, promise, conn, wireVars, serverVars, inVars, spurious>>

RunErase ==
  /\ strand # <<>> /\ Head(strand).type = "erase"
  /\ ongoing_calls' = [ongoing_calls EXCEPT ![Head(strand).id] = 0]
  /\ strand' = Tail(strand)
  /\ UNCHANGED <<callerVars, promise, conn, outVars, wireVars, serverVars, inVars,
                 spurious>>

(* The socket takes the bytes once it is connected.  Bytes for a server    *)
(* that is gone are lost.                                                  *)
SendRequest ==
  /\ IsConnected
  /\ Out!Transfer
  /\ requests' = IF srv = "dead" THEN requests ELSE Append(requests, Head(out_queue))
  /\ UNCHANGED <<callerVars, promise, ioVars, answers, serverVars, inVars, spurious>>

(* A write fails on a connection that broke or was refused; one that was   *)
(* started too early, also when the connect goes on to the next address of *)
(* the host and closes the socket of the one before.                       *)
RequestFails ==
  /\ srv = "dead" \/ ~IsConnected
  /\ Out!Fail
  /\ UNCHANGED <<callerVars, promise, ioVars, wireVars, serverVars, inVars, spurious>>

RequestSent ==
  /\ Out!HandleSent
  /\ UNCHANGED <<callerVars, promise, ioVars, wireVars, serverVars, inVars, spurious>>

RequestNotSent ==
  /\ Out!HandleFailed
  /\ UNCHANGED <<callerVars, promise, ioVars, wireVars, serverVars, inVars, spurious>>

(* do_read(): an answer sets the promise that is filed under its id.       *)
ReadAnswer ==
  /\ conn = "connected" /\ answers # <<>>
  /\ LET r == Head(answers)
         c == ongoing_calls[r.id]
     IN  /\ promise' = IF c = 0 THEN promise ELSE [promise EXCEPT ![c] = r.call]
         /\ strand' = Append(strand, [type |-> "erase", id |-> r.id])
  /\ answers' = Tail(answers)
  /\ UNCHANGED <<callerVars, conn, ongoing_calls, outVars, requests, serverVars, inVars,
                 spurious>>

(* End of file, after what the server had sent.                            *)
NoticeEof ==
  /\ conn = "connected" /\ srv = "dead" /\ answers = <<>>
  /\ conn' = "disconnected"
  /\ UNCHANGED <<callerVars, promise, ongoing_calls, strand, outVars, wireVars,
                 serverVars, inVars, spurious>>

(* do_read() fails with any other error, which is only logged: no read is  *)
(* started again, and state_ stays connected.  Writes still reach a server *)
(* that lives.                                                             *)
ReadFails ==
  /\ conn = "connected"
  /\ conn' = "deaf"
  /\ UNCHANGED <<callerVars, promise, ongoing_calls, strand, outVars, wireVars,
                 serverVars, inVars, spurious>>

ClientIO ==
  \/ ConnectOk \/ ConnectRefused \/ RunPost \/ RunErase
  \/ SendRequest \/ RequestFails \/ RequestSent \/ RequestNotSent
  \/ ReadAnswer \/ NoticeEof \/ ReadFails

-----------------------------------------------------------------------------
(* The server.  Whatever it does, connections and sockets included, one of *)
(* its threads does that is not inside a handler of a call.                *)

FreeThread == srv = "running" /\ Cardinality(executing) < ServerThreads

clientVars == <<callerVars, promise, ioVars, outVars>>

(* The acceptor listens from the constructor on; the handlers are bound,   *)
(* then the threads are started.                                           *)
Listen ==
  /\ srv = "down" /\ srv' = "listening"
  /\ UNCHANGED <<clientVars, wireVars, session, io_queue, executing, write_strand, inVars,
                 spurious>>

AsyncRun ==
  /\ srv = "listening" /\ srv' = "running"
  /\ UNCHANGED <<clientVars, wireVars, session, io_queue, executing, write_strand, inVars,
                 spurious>>

Accept ==
  /\ FreeThread /\ conn \in {"connected", "deaf"} /\ ~session
  /\ session' = TRUE
  /\ UNCHANGED <<clientVars, wireVars, srv, io_queue, executing, write_strand, inVars,
                 spurious>>

(* do_read(): "any worker thread can take this call".                      *)
ReadRequest ==
  /\ FreeThread /\ session /\ requests # <<>>
  /\ io_queue' = Append(io_queue, Head(requests))
  /\ requests' = Tail(requests)
  /\ UNCHANGED <<clientVars, answers, srv, session, executing, write_strand, inVars,
                 spurious>>

Dispatch ==
  /\ FreeThread /\ io_queue # <<>>
  /\ executing' = executing \cup {Head(io_queue)}
  /\ io_queue' = Tail(io_queue)
  /\ UNCHANGED <<clientVars, wireVars, srv, session, write_strand, inVars, spurious>>

HandlerReturns(m) ==
  /\ m \in executing
  /\ executing' = executing \ {m}
  /\ write_strand' = Append(write_strand, m)
  /\ UNCHANGED <<clientVars, wireVars, srv, session, io_queue, inVars, spurious>>

WriteAnswer ==
  /\ FreeThread /\ write_strand # <<>>
  /\ In!write(Head(write_strand))
  /\ write_strand' = Tail(write_strand)
  /\ UNCHANGED <<clientVars, wireVars, srv, session, io_queue, executing, spurious>>

SendAnswer ==
  /\ FreeThread
  /\ In!Transfer
  /\ answers' = Append(answers, Head(in_queue))
  /\ UNCHANGED <<clientVars, requests, serverVars, spurious>>

AnswerSent ==
  /\ FreeThread
  /\ In!HandleSent
  /\ UNCHANGED <<clientVars, wireVars, serverVars, spurious>>

Server ==
  \/ Listen \/ AsyncRun \/ Accept \/ ReadRequest \/ Dispatch
  \/ \E m \in executing : HandlerReturns(m)
  \/ WriteAnswer \/ SendAnswer \/ AnswerSent

(* The server is killed, ends in stop_server, or a handler throws.  What   *)
(* it had sent can still be read.                                          *)
Die ==
  /\ MayDie /\ srv # "dead"
  /\ srv' = "dead" /\ session' = FALSE
  /\ io_queue' = <<>> /\ executing' = {} /\ write_strand' = <<>>
  /\ in_queue' = <<>> /\ in_ops' = In!Idle
  /\ requests' = <<>>
  /\ UNCHANGED <<clientVars, answers, spurious>>

Next == Caller \/ ClientIO \/ Server \/ Die

(* Threads and kernels go on; a task may run for ever, and nothing obliges *)
(* the caller to call, the environment to kill, wait_conn() to wake up for *)
(* no reason, or a read to fail.                                           *)
Polls == {m \in executing : asked[m.call] = "poll"}
SafeSpec == Init /\ [][Next]_vars
Spec ==
  /\ SafeSpec
  /\ WF_vars(WakeUp) /\ WF_vars(Get)
  /\ WF_vars(ConnectOk \/ ConnectRefused)
  /\ WF_vars(RunPost \/ RunErase)
  /\ WF_vars(SendRequest \/ RequestFails) /\ WF_vars(RequestSent \/ RequestNotSent)
  /\ WF_vars(ReadAnswer \/ NoticeEof)
  /\ WF_vars(Listen \/ AsyncRun) /\ WF_vars(Accept)
  /\ WF_vars(ReadRequest) /\ WF_vars(Dispatch)
  /\ WF_vars(\E m \in Polls : HandlerReturns(m))
  /\ WF_vars(WriteAnswer) /\ WF_vars(SendAnswer) /\ WF_vars(AnswerSent)

-----------------------------------------------------------------------------
(* Correctness.  The type invariant is TypeOK above.                       *)

(* Each socket has at most one async_write under way, whichever threads    *)
(* queue requests, answers and completions: two would mix their bytes      *)
(* (async_writer.h 34-73).                                                 *)
OneWriteAtATime == Out!UnderWay =< 1 /\ In!UnderWay =< 1

(* A promise is only given the answer of its own call: call() of the       *)
(* heart-beat never takes the answer of another call for its own           *)
(* (client.cc 75-86, 194-207, client.inl 27-40).                           *)
AnswerIsOwn == \A c \in Calls : promise[c] \in {0, c}

(* An answer that arrives finds the entry of its call, with a promise that *)
(* was not set: a promise set twice ends the master with a future_error    *)
(* that nobody catches (client.cc 78-92).                                  *)
AnswerFindsItsCall ==
  \A i \in DOMAIN answers :
    LET c == ongoing_calls[answers[i].id] IN
      /\ c = answers[i].call /\ promise[c] = 0
      /\ \A j \in DOMAIN answers : answers[j].id = answers[i].id => j = i

(* The channel implements the service: at most one execution and one       *)
(* answer of each call, and only the death of the server loses one.        *)
Service == INSTANCE RpcService WITH
             status <- [c \in Calls |-> stage(c)], up <- srv # "dead"
ImplementsService == Service!SafeSpec

(* A heart-beat is answered, although a task may occupy a thread of the    *)
(* server for ever.  What can leave it unanswered is: the server dies, the *)
(* connection is refused, the client reads no more after a read error that *)
(* it only logged (client.cc 115-118), or async_call() went on after a     *)
(* spurious wake-up and its write failed, which stops the queue for good.  *)
PollAnswered ==
  caller = "await" ~>
    \/ caller # "await" \/ srv = "dead" \/ conn \in {"refused", "deaf"}
    \/ spurious > 0 /\ Out!Stuck
=============================================================================
