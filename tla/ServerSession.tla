---------------------------- MODULE ServerSession ----------------------------
(***************************************************************************)
(* How long a session of an rpc server lives: server_session.cc, with      *)
(* close_session() of server.cc, when the client at the other end leaves   *)
(* (its process ends, or it gave up after a timeout) or the connection     *)
(* breaks without its end being seen.  A session lives as                  *)
(* long as something owns it: the server's list, the handler of a read, or *)
(* the handler of a write.  The calls it posts to the threads of the       *)
(* server and what they post to its strand have a bare pointer to it.      *)
(*                                                                         *)
(* RpcChannel has what happens while the client is there.                  *)
(***************************************************************************)
EXTENDS Naturals, Sequences

CONSTANTS
  Threads,   \* async_run(Threads)
  MaxCalls   \* bound: how many calls the client makes

ASSUME SessionAssumption == Threads \in Nat \ {0} /\ MaxCalls \in Nat

VARIABLES
  client,        \* "there"; "gone": a read will say eof or connection_reset;
                 \* "unreachable": a read will fail with another error
  asked,         \* calls it made
  requests,      \* those that wait in the socket
  reading,       \* an async_read_some is under way; its handler owns the session
  exit_,
  listed,        \* sessions_ has the session, and owns it
  io_queue,      \* handlers that wait for a thread, in the order of io_: calls
                 \* that were posted, the read handler that is told of the
                 \* end ("eof") or of another error ("error")
  executing,     \* threads that are inside the handler of a call
  write_strand,  \* handlers posted through write_strand_: writes, the close
  write_queue, ops

clientVars  == <<client, asked>>
readerVars  == <<requests, reading, io_queue>>
sessionVars == <<exit_, listed, executing, write_strand>>
writerVars  == <<write_queue, ops>>
vars == <<clientVars, readerVars, sessionVars, writerVars>>

Writer == INSTANCE AsyncWriter WITH Items <- {"answer"}

TypeOK ==
  /\ client \in {"there", "gone", "unreachable"}
  /\ asked \in 0 .. MaxCalls /\ requests \in 0 .. MaxCalls
  /\ reading \in BOOLEAN /\ exit_ \in BOOLEAN /\ listed \in BOOLEAN
  /\ io_queue \in Seq({"call", "eof", "error"})
  /\ executing \in 0 .. Threads
  /\ write_strand \in Seq({"write", "close"})
  /\ Writer!TypeOK

(* start_accept() has made the session, start() its first read.            *)
Init ==
  /\ client = "there" /\ asked = 0
  /\ requests = 0 /\ reading = TRUE /\ io_queue = <<>>
  /\ exit_ = FALSE /\ listed = TRUE /\ executing = 0 /\ write_strand = <<>>
  /\ Writer!Init

Waits(q, h) == \E i \in DOMAIN q : q[i] = h

(* The last read handler, which owns the session, waits for a thread.      *)
EndWaits == Waits(io_queue, "eof") \/ Waits(io_queue, "error")

(* Something owns the session.                                             *)
Alive == listed \/ reading \/ EndWaits \/ Writer!UnderWay > 0

-----------------------------------------------------------------------------
(* The client.                                                             *)

Ask ==
  /\ client = "there" /\ asked < MaxCalls
  /\ asked' = asked + 1 /\ requests' = requests + 1
  /\ UNCHANGED <<client, reading, io_queue, sessionVars, writerVars>>

(* A client that left answers unread resets the connection, and what it    *)
(* had asked can no longer be read.                                        *)
ClientLeaves ==
  /\ client = "there" /\ client' = "gone"
  /\ requests' \in {requests, 0}
  /\ UNCHANGED <<asked, reading, io_queue, sessionVars, writerVars>>

(* The connection is lost and neither its end nor a reset comes through.   *)
ConnectionBreaks ==
  /\ client = "there" /\ client' = "unreachable"
  /\ requests' \in {requests, 0}
  /\ UNCHANGED <<asked, reading, io_queue, sessionVars, writerVars>>

-----------------------------------------------------------------------------
(* The server's threads: all but HandlerReturns needs a free one.          *)
(* A wrong version: handlers are run by as many threads as it takes.       *)
AnyThread == TRUE
FreeThread == executing < Threads

(* do_read(): a call is posted, and the next read is started.              *)
ReadRequest ==
  /\ FreeThread
  /\ reading /\ requests > 0
  /\ requests' = requests - 1
  /\ io_queue' = Append(io_queue, "call")
  /\ UNCHANGED <<clientVars, reading, sessionVars, writerVars>>

(* do_read() when there is nothing left to read: what its handler will be  *)
(* told, and no read follows.                                              *)
ReadEnds ==
  /\ FreeThread
  /\ reading /\ client # "there" /\ requests = 0
  /\ reading' = FALSE
  /\ io_queue' = Append(io_queue, IF client = "gone" THEN "eof" ELSE "error")
  /\ UNCHANGED <<clientVars, requests, sessionVars, writerVars>>

Dispatch ==
  /\ FreeThread
  /\ io_queue # <<>> /\ Head(io_queue) = "call"
  /\ io_queue' = Tail(io_queue)
  /\ executing' = executing + 1
  /\ UNCHANGED <<clientVars, requests, reading, exit_, listed, write_strand, writerVars>>

HandlerReturns ==
  /\ executing > 0
  /\ executing' = executing - 1
  /\ write_strand' = Append(write_strand, "write")
  /\ UNCHANGED <<clientVars, readerVars, exit_, listed, writerVars>>

(* The read handler is told of the end: close().  A wrong version leaves   *)
(* the list at once.                                                       *)
CloseAtOnce ==
  /\ FreeThread
  /\ io_queue # <<>> /\ Head(io_queue) = "eof"
  /\ io_queue' = Tail(io_queue)
  /\ exit_' = TRUE
  /\ listed' = FALSE
  /\ UNCHANGED <<clientVars, requests, reading, executing, write_strand, writerVars>>

Close ==
  /\ FreeThread
  /\ io_queue # <<>> /\ Head(io_queue) = "eof"
  /\ io_queue' = Tail(io_queue)
  /\ exit_' = TRUE
  /\ write_strand' = Append(write_strand, "close")
  /\ UNCHANGED <<clientVars, requests, reading, listed, executing, writerVars>>

(* The read handler is told of another error: it is logged.  A session     *)
(* that the list owns is neither closed nor read from any more.            *)
ReadError ==
  /\ FreeThread
  /\ io_queue # <<>> /\ Head(io_queue) = "error"
  /\ io_queue' = Tail(io_queue)
  /\ UNCHANGED <<clientVars, requests, reading, sessionVars, writerVars>>

(* What close() posted: the socket is closed and close_session() called.   *)
(* A wrong version only closes the socket.                                 *)
RunCloseKeeps ==
  /\ FreeThread
  /\ write_strand # <<>> /\ Head(write_strand) = "close"
  /\ write_strand' = Tail(write_strand)
  /\ UNCHANGED <<clientVars, readerVars, exit_, listed, executing, writerVars>>

RunClose ==
  /\ FreeThread
  /\ write_strand # <<>> /\ Head(write_strand) = "close"
  /\ write_strand' = Tail(write_strand)
  /\ listed' = FALSE
  /\ UNCHANGED <<clientVars, readerVars, exit_, executing, writerVars>>

RunWrite ==
  /\ FreeThread
  /\ write_strand # <<>> /\ Head(write_strand) = "write"
  /\ write_strand' = Tail(write_strand)
  /\ Writer!write("answer")
  /\ UNCHANGED <<clientVars, readerVars, exit_, listed, executing>>

AnswerGoesOut ==
  /\ FreeThread
  /\ Writer!Transfer \/ (client # "there" /\ Writer!Fail)
  /\ UNCHANGED <<clientVars, readerVars, sessionVars>>

AnswerWritten ==
  /\ FreeThread
  /\ Writer!HandleSent \/ Writer!HandleFailed
  /\ UNCHANGED <<clientVars, readerVars, sessionVars>>

Next ==
  \/ Ask \/ ClientLeaves \/ ConnectionBreaks
  \/ ReadRequest \/ ReadEnds \/ Dispatch \/ HandlerReturns \/ Close \/ ReadError
  \/ RunWrite \/ RunClose \/ AnswerGoesOut \/ AnswerWritten

(* The threads go on and handlers return; nothing obliges a client to ask  *)
(* or to leave, or a connection to break.                                  *)
SafeSpec == Init /\ [][Next]_vars
Spec ==
  /\ SafeSpec
  /\ WF_vars(ReadRequest \/ ReadEnds)
  /\ WF_vars(Dispatch \/ Close \/ ReadError) /\ WF_vars(HandlerReturns)
  /\ WF_vars(RunWrite \/ RunClose)
  /\ WF_vars(AnswerGoesOut) /\ WF_vars(AnswerWritten)

-----------------------------------------------------------------------------
(* Correctness.  The type invariant is TypeOK above.                       *)

(* Whoever has a bare pointer to the session will use it: a call that      *)
(* waits, one whose handler runs, and the answers and the close that wait  *)
(* for the strand (server_session.cc 37, 63, 99).  Until then the session  *)
(* has an owner, whenever the client leaves.                               *)
UsersHaveSession ==
  Waits(io_queue, "call") \/ executing > 0 \/ write_strand # <<>> => Alive

(* The list owns a session that does not read, of whose end no handler is  *)
(* told and for which no close waits: it stays in sessions_, with its      *)
(* socket, for as long as the server lives.                                *)
Forgotten == listed /\ ~reading /\ ~EndWaits /\ ~Waits(write_strand, "close")

(* The code does forget sessions: those whose read fails with an error     *)
(* that is neither eof nor connection_reset, which is only logged          *)
(* (server_session.cc 136-138).  It forgets no other, with any number of   *)
(* threads: whatever waits in the queues when the client leaves, the       *)
(* session reads, is about to be told of the end, or its close is on the   *)
(* way (34-41, 132-135, server.cc 131-136).                                *)
OnlyErrorsForget == Forgotten => client = "unreachable"

(* Why UsersHaveSession holds with one thread, as an inductive invariant.  *)
(* The end of the connection is the last thing in the queue of the one     *)
(* thread, which has run every call by then; the close is the last thing in the strand,  *)
(* which has run every write by then; and only that close takes the        *)
(* session from the list.                                                  *)
EofIsLast ==
  \A i \in DOMAIN io_queue :
    io_queue[i] = "eof" => i = Len(io_queue) /\ ~reading /\ ~exit_
CloseIsLast ==
  \A i \in DOMAIN write_strand :
    write_strand[i] = "close" => i = Len(write_strand) /\ exit_
OpenIsListed == ~exit_ => listed
ClosedIsQuiet == exit_ => io_queue = <<>> /\ executing = 0 /\ ~reading
UnlistedIsDone == ~listed => write_strand = <<>>

OneThreadInv ==
  /\ EofIsLast /\ CloseIsLast /\ OpenIsListed /\ ClosedIsQuiet /\ UnlistedIsDone

(* What the types rest on, with any number of threads.                     *)
TypeInv ==
  /\ TypeOK
  /\ requests <= asked
  /\ Writer!UnderWay <= 1
  /\ Writer!UnderWay > 0 => write_queue # <<>>

(* The server gives up the session of a client that left (close(),         *)
(* server_session.cc 34-41, 132-135, server.cc 131-136): all its owners    *)
(* let go of it.  The session of a client that became unreachable is never *)
(* given up (see OnlyErrorsForget).                                        *)
SessionReleased == client = "gone" ~> ~Alive
=============================================================================
