------------------------ MODULE RpcChannelInvariant ------------------------
(***************************************************************************)
(* The inductive invariant behind the safety properties of RpcChannel.     *)
(***************************************************************************)
EXTENDS RpcChannel

(* What travels carries the index of its own call.                         *)
OwnMessages == {m \in Message : m.id = m.call}
OwnPosts    == {h \in Posts : h.id = h.call}

(* Types, with that in them.                                               *)
OwnInv ==
  /\ asked \in Seq(Functions) /\ Len(asked) =< MaxCalls /\ call_idx = Len(asked)
  /\ caller \in {"ready", "await"} \cup Functions
  /\ caller \in Functions => Len(asked) < MaxCalls
  /\ promise \in [Calls -> Calls \cup {0}] /\ \A c \in Calls : promise[c] \in {0, c}
  /\ conn \in {"initial", "refused", "connected", "deaf", "disconnected"}
  /\ ongoing_calls \in [Ids -> Calls \cup {0}]
  /\ \A i \in Ids : ongoing_calls[i] \in {0, i}
  /\ strand \in Seq(OwnPosts \cup Erases)
  /\ out_queue \in Seq(OwnMessages) /\ requests \in Seq(OwnMessages)
  /\ io_queue \in Seq(OwnMessages) /\ write_strand \in Seq(OwnMessages)
  /\ in_queue \in Seq(OwnMessages) /\ answers \in Seq(OwnMessages)
  /\ executing \subseteq OwnMessages
  /\ IsFiniteSet(executing) /\ Cardinality(executing) =< ServerThreads
  /\ srv \in {"down", "listening", "running", "dead"} /\ session \in BOOLEAN
  /\ spurious \in 0 .. MaxSpurious

(* The two write queues: a write is under way only for an item in front.   *)
OutInv == Out!TypeOK /\ Out!UnderWay =< 1 /\ (Out!UnderWay = 1 => out_queue # <<>>)
InInv  == In!TypeOK /\ In!UnderWay =< 1 /\ (In!UnderWay = 1 => in_queue # <<>>)
WriterInv == OutInv /\ InInv

(* Handlers run in a living server only.                                   *)
DeadInv == srv = "dead" => executing = {}

BaseInv == OwnInv /\ WriterInv /\ DeadInv

-----------------------------------------------------------------------------
(* Where a call can be, from its post to its promise.                      *)
Places == {"posted", "unsent", "requested", "queued", "executing",
           "returned", "unanswered", "onItsWay", "answered"}

CallsOf(q)  == {q[i].call : i \in DOMAIN q}
PostsOf(q)  == {q[i].call : i \in {j \in DOMAIN q : q[j].type = "post"}}
ErasesOf(q) == {q[i].id : i \in {j \in DOMAIN q : q[j].type = "erase"}}

place ==
  [p \in Places |->
     CASE p = "posted"     -> PostsOf(strand)
       [] p = "unsent"     -> CallsOf(Out!Unsent)
       [] p = "requested"  -> CallsOf(requests)
       [] p = "queued"     -> CallsOf(io_queue)
       [] p = "executing"  -> {m.call : m \in executing}
       [] p = "returned"   -> CallsOf(write_strand)
       [] p = "unanswered" -> CallsOf(In!Unsent)
       [] p = "onItsWay"   -> CallsOf(answers)
       [] p = "answered"   -> {c \in Calls : promise[c] # 0}]

(* A call that was made is in one place at most, and one that was not in   *)
(* none.                                                                   *)
PlaceInv ==
  /\ \A p, q \in Places : \A c \in Calls : c \in place[p] /\ c \in place[q] => p = q
  /\ \A p \in Places : place[p] \subseteq 1 .. Len(asked)

(* It is there once.                                                       *)
Once(q)  == \A i, j \in DOMAIN q : q[i].call = q[j].call => i = j
OncePosts(q) ==
  \A i, j \in DOMAIN q :
    q[i].type = "post" /\ q[j].type = "post" /\ q[i].call = q[j].call => i = j
OnceInv ==
  /\ OncePosts(strand)
  /\ Once(Out!Unsent) /\ Once(requests) /\ Once(io_queue)
  /\ Once(write_strand) /\ Once(In!Unsent) /\ Once(answers)

(* Its promise stays in ongoing_calls until the answer has been read, and  *)
(* only then is the entry erased.                                          *)
InFlight == Places \ {"posted", "answered"}
FiledInv ==
  /\ \A p \in InFlight : \A c \in place[p] : ongoing_calls[c] = c
  /\ ErasesOf(strand) \subseteq place["answered"]

IInv == BaseInv /\ PlaceInv /\ OnceInv /\ FiledInv
=============================================================================
