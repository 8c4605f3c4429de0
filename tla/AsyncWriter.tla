---------------------------- MODULE AsyncWriter ----------------------------
(***************************************************************************)
(* async_writer of include/rpc/detail/async_writer.h: the write queue of   *)
(* one socket.  An rpc client has one for its requests, a session of a     *)
(* server one for its answers.  RpcChannel instantiates both for two       *)
(* processes that hold their connection, ServerSession the second for a    *)
(* client that leaves, after which the session sets exit_.                 *)
(***************************************************************************)
EXTENDS Naturals, Sequences

CONSTANT Items

VARIABLES
  exit_,
  write_queue,
  ops  \* asio's async_writes that were started: how many have their bytes
       \* still to go, and how many have a completion handler to be run

Writes(started, sent, failed) ==
  [started |-> started, sent |-> sent, failed |-> failed]
Idle == Writes(0, 0, 0)

TypeOK ==
  /\ write_queue \in Seq(Items)
  /\ ops \in [started : Nat, sent : Nat, failed : Nat]

Init == write_queue = <<>> /\ ops = Idle

do_write ==
  ops' = IF exit_ THEN ops ELSE Writes(ops.started + 1, ops.sent, ops.failed)

(* A wrong version: a write is started whatever is under way.              *)
writeAtOnce(item) ==
  /\ write_queue' = Append(write_queue, item)
  /\ do_write

write(item) ==
  /\ write_queue' = Append(write_queue, item)
  /\ IF Len(write_queue') > 1 THEN UNCHANGED ops ELSE do_write

(* async_write ends: the bytes of the front item are out, or an error.     *)
Transfer ==
  /\ ops.started > 0
  /\ ops' = Writes(ops.started - 1, ops.sent + 1, ops.failed)
  /\ UNCHANGED write_queue

Fail ==
  /\ ops.started > 0
  /\ ops' = Writes(ops.started - 1, ops.sent, ops.failed + 1)
  /\ UNCHANGED write_queue

(* The completion handler of do_write().  A wrong version first: the item  *)
(* is not popped.                                                          *)
HandleSentKeeps ==
  /\ ops.sent > 0
  /\ ops' = Writes(ops.started + 1, ops.sent - 1, ops.failed)
  /\ UNCHANGED write_queue

HandleSent ==
  /\ ops.sent > 0
  /\ write_queue' = Tail(write_queue)
  /\ LET goesOn == Len(write_queue) > 1 /\ ~exit_
     IN  ops' = Writes(ops.started + (IF goesOn THEN 1 ELSE 0), ops.sent - 1, ops.failed)

(* The error is logged; the item stays at the front.                       *)
HandleFailed ==
  /\ ops.failed > 0
  /\ ops' = Writes(ops.started, ops.sent, ops.failed - 1)
  /\ UNCHANGED write_queue

-----------------------------------------------------------------------------
(* Items whose bytes are not out.                                          *)
Unsent == IF ops.sent > 0 THEN Tail(write_queue) ELSE write_queue

UnderWay == ops.started + ops.sent + ops.failed

(* Nothing is under way and nothing will be: write() only starts a write   *)
(* when the queue was empty.                                               *)
Stuck == write_queue # <<>> /\ UnderWay = 0
=============================================================================
