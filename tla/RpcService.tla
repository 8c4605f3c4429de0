----------------------------- MODULE RpcService -----------------------------
(***************************************************************************)
(* What an rpc client and the server at the other end of its connection    *)
(* promise, without threads, queues or sockets: a call is executed at most *)
(* once, it is answered only when it was executed, and it gets one answer. *)
(* A call that waits when the server dies may be lost, in silence.         *)
(***************************************************************************)
EXTENDS Naturals

CONSTANT Calls

VARIABLES status, up
vars == <<status, up>>

Status == {"none", "called", "executing", "executed", "answered", "lost"}

Init == status = [c \in Calls |-> "none"] /\ up = TRUE

Become(c, from, to) == status[c] = from /\ status' = [status EXCEPT ![c] = to]

Call(c)    == Become(c, "none", "called") /\ UNCHANGED up
Execute(c) == up /\ Become(c, "called", "executing") /\ UNCHANGED up
Finish(c)  == up /\ Become(c, "executing", "executed") /\ UNCHANGED up
Answer(c)  == Become(c, "executed", "answered") /\ UNCHANGED up
Lose(c)    == ~up /\ Become(c, "called", "lost") /\ UNCHANGED up

Crash ==
  /\ up /\ up' = FALSE
  /\ \E L \in SUBSET {c \in Calls : status[c] \in {"called", "executing", "executed"}} :
       status' = [c \in Calls |-> IF c \in L THEN "lost" ELSE status[c]]

Next ==
  \/ \E c \in Calls :
       Call(c) \/ Execute(c) \/ Finish(c) \/ Answer(c) \/ Lose(c)
  \/ Crash

SafeSpec == Init /\ [][Next]_vars
=============================================================================
