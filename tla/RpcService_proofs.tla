-------------------------- MODULE RpcService_proofs --------------------------
(***************************************************************************)
(* The channel implements RpcService, and every answer finds its call: for *)
(* any number of calls, spurious wake-ups and interleavings.               *)
(***************************************************************************)
EXTENDS RpcChannel_proofs

USE ChannelAssumption

-----------------------------------------------------------------------------
(* Calls in a queue.                                                       *)

(* Taking the head takes its call.                                         *)
LEMMA TailCalls ==
  ASSUME NEW q \in Seq(OwnMessages), q # <<>>, Once(q)
  PROVE  /\ CallsOf(Tail(q)) = CallsOf(q) \ {Head(q).call}
         /\ Head(q).call \in CallsOf(q) /\ Head(q).call \in Calls
         /\ Once(Tail(q)) /\ Tail(q) \in Seq(OwnMessages)
<1>1. /\ Head(q) \in OwnMessages /\ Tail(q) \in Seq(OwnMessages) /\ Head(q) = q[1]
      /\ DOMAIN q = 1 .. Len(q) /\ Len(q) \in Nat \ {0}
      /\ DOMAIN Tail(q) = 1 .. Len(q) - 1
      /\ \A i \in 1 .. Len(q) - 1 : Tail(q)[i] = q[i + 1]
  BY HeadTailProperties, LenProperties, EmptySeq
<1>2. Head(q).call \in CallsOf(q) BY <1>1 DEF CallsOf
<1>3. CallsOf(Tail(q)) \subseteq CallsOf(q) \ {Head(q).call}
  <2> SUFFICES ASSUME NEW i \in DOMAIN Tail(q)
               PROVE  Tail(q)[i].call \in CallsOf(q) \ {Head(q).call}
    BY DEF CallsOf
  <2>1. i + 1 \in DOMAIN q /\ 1 \in DOMAIN q /\ i + 1 # 1 /\ Tail(q)[i] = q[i + 1]
    BY <1>1
  <2>2. q[i + 1].call # q[1].call BY <2>1 DEF Once
  <2> QED BY <1>1, <2>1, <2>2 DEF CallsOf
<1>4. CallsOf(q) \ {Head(q).call} \subseteq CallsOf(Tail(q))
  <2> SUFFICES ASSUME NEW i \in DOMAIN q, q[i].call # Head(q).call
               PROVE  q[i].call \in CallsOf(Tail(q))
    BY DEF CallsOf
  <2>1. i # 1 BY <1>1
  <2>2. i - 1 \in DOMAIN Tail(q) /\ Tail(q)[i - 1] = q[i] BY <1>1, <2>1
  <2> QED BY <2>2 DEF CallsOf
<1>5. Once(Tail(q)) BY <1>1 DEF Once
<1> QED BY <1>1, <1>2, <1>3, <1>4, <1>5, OwnFacts

(* Appending a message adds its call.                                      *)
LEMMA AppendCalls ==
  ASSUME NEW q \in Seq(OwnMessages), NEW m \in OwnMessages
  PROVE  /\ CallsOf(Append(q, m)) = CallsOf(q) \cup {m.call}
         /\ Once(q) /\ m.call \notin CallsOf(q) => Once(Append(q, m))
<1>1. /\ Append(q, m) \in Seq(OwnMessages) /\ Len(Append(q, m)) = Len(q) + 1
      /\ \A i \in 1 .. Len(q) : Append(q, m)[i] = q[i]
      /\ Append(q, m)[Len(q) + 1] = m
  BY AppendProperties
<1>2. DOMAIN q = 1 .. Len(q) /\ DOMAIN Append(q, m) = 1 .. Len(q) + 1 /\ Len(q) \in Nat
  BY <1>1, LenProperties
<1>3. CallsOf(Append(q, m)) = CallsOf(q) \cup {m.call}
  <2>1. CallsOf(Append(q, m)) \subseteq CallsOf(q) \cup {m.call}
    BY <1>1, <1>2 DEF CallsOf
  <2>2. ASSUME NEW i \in DOMAIN q PROVE q[i].call \in CallsOf(Append(q, m))
    BY <1>1, <1>2 DEF CallsOf
  <2>3. m.call \in CallsOf(Append(q, m))
    <3>1. Len(q) + 1 \in DOMAIN Append(q, m) BY <1>2
    <3> QED BY <1>1, <3>1 DEF CallsOf
  <2> QED BY <2>1, <2>2, <2>3 DEF CallsOf
<1>4. Once(q) /\ m.call \notin CallsOf(q) => Once(Append(q, m))
  BY <1>1, <1>2 DEF Once, CallsOf
<1> QED BY <1>3, <1>4

(* The strand holds posts and erases.                                      *)
Handlers == OwnPosts \cup Erases
LEMMA TailHandlers ==
  ASSUME NEW q \in Seq(Handlers), q # <<>>, OncePosts(q)
  PROVE  /\ Tail(q) \in Seq(Handlers) /\ OncePosts(Tail(q))
         /\ Head(q) \in Handlers
         /\ ErasesOf(Tail(q)) \subseteq ErasesOf(q)
         /\ Head(q).type = "post" =>
              /\ Head(q).call \in PostsOf(q)
              /\ PostsOf(Tail(q)) = PostsOf(q) \ {Head(q).call}
         /\ Head(q).type = "erase" =>
              Head(q).id \in ErasesOf(q) /\ PostsOf(Tail(q)) = PostsOf(q)
<1>1. /\ Head(q) \in Handlers /\ Tail(q) \in Seq(Handlers) /\ Head(q) = q[1]
      /\ DOMAIN q = 1 .. Len(q) /\ Len(q) \in Nat \ {0}
      /\ DOMAIN Tail(q) = 1 .. Len(q) - 1
      /\ \A i \in 1 .. Len(q) - 1 : Tail(q)[i] = q[i + 1]
  BY HeadTailProperties, LenProperties, EmptySeq
<1>2. OncePosts(Tail(q)) BY <1>1 DEF OncePosts
<1>3. ErasesOf(Tail(q)) \subseteq ErasesOf(q) BY <1>1 DEF ErasesOf
<1>4. PostsOf(Tail(q)) \subseteq PostsOf(q) BY <1>1 DEF PostsOf
<1>5. ASSUME NEW i \in DOMAIN q, q[i].type = "post", i # 1
      PROVE  q[i].call \in PostsOf(Tail(q))
  <2>1. i - 1 \in DOMAIN Tail(q) /\ Tail(q)[i - 1] = q[i] BY <1>1, <1>5
  <2> QED BY <1>5, <2>1 DEF PostsOf
<1>6. 1 \in DOMAIN q BY <1>1
<1>7. ASSUME Head(q).type = "post"
      PROVE  /\ Head(q).call \in PostsOf(q)
             /\ PostsOf(Tail(q)) = PostsOf(q) \ {Head(q).call}
  <2>1. Head(q).call \in PostsOf(q) BY <1>1, <1>6, <1>7 DEF PostsOf
  <2>2. PostsOf(q) \ {Head(q).call} \subseteq PostsOf(Tail(q))
    BY <1>1, <1>5 DEF PostsOf
  <2>3. Head(q).call \notin PostsOf(Tail(q))
    <3> SUFFICES ASSUME NEW i \in DOMAIN Tail(q), Tail(q)[i].type = "post",
                        Tail(q)[i].call = Head(q).call
                 PROVE  FALSE
      BY DEF PostsOf
    <3>1. i + 1 \in DOMAIN q /\ i + 1 # 1 /\ Tail(q)[i] = q[i + 1] BY <1>1
    <3> QED BY <1>1, <1>6, <1>7, <3>1 DEF OncePosts
  <2> QED BY <1>4, <2>1, <2>2, <2>3
<1>8. ASSUME Head(q).type = "erase"
      PROVE  Head(q).id \in ErasesOf(q) /\ PostsOf(Tail(q)) = PostsOf(q)
  <2>1. Head(q).id \in ErasesOf(q) BY <1>1, <1>6, <1>8 DEF ErasesOf
  <2>2. PostsOf(q) \subseteq PostsOf(Tail(q))
    BY <1>1, <1>5, <1>8 DEF PostsOf
  <2> QED BY <1>4, <2>1, <2>2
<1> QED BY <1>1, <1>2, <1>3, <1>7, <1>8

(* A handler is posted at the end.                                         *)
LEMMA AppendHandlers ==
  ASSUME NEW q \in Seq(Handlers), NEW h \in Handlers
  PROVE  /\ h \in OwnPosts => /\ PostsOf(Append(q, h)) = PostsOf(q) \cup {h.call}
                              /\ ErasesOf(Append(q, h)) = ErasesOf(q)
                              /\ OncePosts(q) /\ h.call \notin PostsOf(q)
                                   => OncePosts(Append(q, h))
         /\ h \in Erases => /\ PostsOf(Append(q, h)) = PostsOf(q)
                            /\ ErasesOf(Append(q, h)) = ErasesOf(q) \cup {h.id}
                            /\ OncePosts(q) => OncePosts(Append(q, h))
<1> DEFINE a == Append(q, h)
<1>1. /\ a \in Seq(Handlers) /\ Len(a) = Len(q) + 1
      /\ \A i \in 1 .. Len(q) : a[i] = q[i]
      /\ a[Len(q) + 1] = h
  BY AppendProperties
<1>2. DOMAIN q = 1 .. Len(q) /\ DOMAIN a = 1 .. Len(q) + 1 /\ Len(q) \in Nat
  BY <1>1, LenProperties
<1>3. Len(q) + 1 \in DOMAIN a /\ \A i \in DOMAIN a : i \in DOMAIN q \/ i = Len(q) + 1
  BY <1>2
<1>4. \A i \in DOMAIN q : i \in DOMAIN a /\ a[i] = q[i] /\ i # Len(q) + 1 BY <1>1, <1>2
<1> HIDE DEF a
<1>5. ASSUME h \in OwnPosts
      PROVE  /\ PostsOf(a) = PostsOf(q) \cup {h.call}
             /\ ErasesOf(a) = ErasesOf(q)
             /\ OncePosts(q) /\ h.call \notin PostsOf(q) => OncePosts(a)
  <2>1. h.type = "post" BY <1>5, OwnFacts
  <2>2. PostsOf(a) = PostsOf(q) \cup {h.call}
    BY <1>1, <1>3, <1>4, <2>1 DEF PostsOf
  <2>3. ErasesOf(a) = ErasesOf(q) BY <1>1, <1>3, <1>4, <2>1 DEF ErasesOf
  <2>4. OncePosts(q) /\ h.call \notin PostsOf(q) => OncePosts(a)
    BY <1>1, <1>3, <1>4, <2>1 DEF OncePosts, PostsOf
  <2> QED BY <2>2, <2>3, <2>4
<1>6. ASSUME h \in Erases
      PROVE  /\ PostsOf(a) = PostsOf(q)
             /\ ErasesOf(a) = ErasesOf(q) \cup {h.id}
             /\ OncePosts(q) => OncePosts(a)
  <2>1. h.type = "erase" BY <1>6, OwnFacts
  <2>2. PostsOf(a) = PostsOf(q) BY <1>1, <1>3, <1>4, <2>1 DEF PostsOf
  <2>3. ErasesOf(a) = ErasesOf(q) \cup {h.id}
    BY <1>1, <1>3, <1>4, <2>1 DEF ErasesOf
  <2>4. OncePosts(q) => OncePosts(a)
    BY <1>1, <1>3, <1>4, <2>1 DEF OncePosts
  <2> QED BY <2>2, <2>3, <2>4
<1> QED BY <1>5, <1>6 DEF a

-----------------------------------------------------------------------------
(* What is still unsent in a write queue: write() appends, the transfer    *)
(* takes the head, and everything else leaves it.                          *)
LEMMA OutUnsent ==
  ASSUME BaseInv
  PROVE  /\ Out!Unsent \in Seq(OwnMessages)
         /\ \A m \in OwnMessages : Out!write(m) => (Out!Unsent)' = Append(Out!Unsent, m)
         /\ Out!Transfer => /\ Out!Unsent # <<>> /\ Head(out_queue) = Head(Out!Unsent)
                            /\ (Out!Unsent)' = Tail(Out!Unsent)
         /\ Out!Fail \/ Out!HandleSent \/ Out!HandleFailed => (Out!Unsent)' = Out!Unsent
<1> USE DEF BaseInv, OwnInv, WriterInv, OutInv, Out!TypeOK, Out!UnderWay, Out!Unsent, Out!Writes
<1>1. out_ops.sent > 0 => out_queue # <<>> /\ out_ops.sent = 1 /\ out_ops.started = 0
                            /\ out_ops.failed = 0
  OBVIOUS
<1>2. out_queue \in Seq(OwnMessages)
        /\ (out_queue # <<>> => Tail(out_queue) \in Seq(OwnMessages))
  BY HeadTailProperties
<1>3. ASSUME NEW m \in OwnMessages, Out!write(m)
      PROVE  (Out!Unsent)' = Append(Out!Unsent, m)
  <2>1. out_queue' = Append(out_queue, m) /\ out_ops'.sent = out_ops.sent
    BY <1>3 DEF Out!write, Out!do_write
  <2>2. out_queue # <<>> => Tail(out_queue') = Append(Tail(out_queue), m)
    BY <1>2, <2>1, HeadTailAppend
  <2> QED BY <1>1, <2>1, <2>2
<1>4. ASSUME Out!Transfer
      PROVE  /\ Out!Unsent # <<>> /\ Head(out_queue) = Head(Out!Unsent)
             /\ (Out!Unsent)' = Tail(Out!Unsent)
  BY <1>1, <1>4 DEF Out!Transfer
<1>5. ASSUME Out!Fail \/ Out!HandleSent \/ Out!HandleFailed
      PROVE  (Out!Unsent)' = Out!Unsent
  <2>1. CASE Out!HandleSent BY <1>1, <2>1 DEF Out!HandleSent
  <2>2. CASE Out!Fail BY <1>1, <2>2 DEF Out!Fail
  <2>3. CASE Out!HandleFailed BY <1>1, <2>3 DEF Out!HandleFailed
  <2> QED BY <1>5, <2>1, <2>2, <2>3
<1> QED BY <1>1, <1>2, <1>3, <1>4, <1>5

(* The same of the session's.                                              *)
LEMMA InUnsent ==
  ASSUME BaseInv
  PROVE  /\ In!Unsent \in Seq(OwnMessages)
         /\ \A m \in OwnMessages : In!write(m) => (In!Unsent)' = Append(In!Unsent, m)
         /\ In!Transfer => /\ In!Unsent # <<>> /\ Head(in_queue) = Head(In!Unsent)
                           /\ (In!Unsent)' = Tail(In!Unsent)
         /\ In!HandleSent => (In!Unsent)' = In!Unsent
<1> USE DEF BaseInv, OwnInv, WriterInv, InInv, In!TypeOK, In!UnderWay, In!Unsent, In!Writes
<1>1. in_ops.sent > 0 => in_queue # <<>> /\ in_ops.sent = 1 /\ in_ops.started = 0
                            /\ in_ops.failed = 0
  OBVIOUS
<1>2. in_queue \in Seq(OwnMessages)
        /\ (in_queue # <<>> => Tail(in_queue) \in Seq(OwnMessages))
  BY HeadTailProperties
<1>3. ASSUME NEW m \in OwnMessages, In!write(m)
      PROVE  (In!Unsent)' = Append(In!Unsent, m)
  <2>1. in_queue' = Append(in_queue, m) /\ in_ops'.sent = in_ops.sent
    BY <1>3 DEF In!write, In!do_write
  <2>2. in_queue # <<>> => Tail(in_queue') = Append(Tail(in_queue), m)
    BY <1>2, <2>1, HeadTailAppend
  <2> QED BY <1>1, <2>1, <2>2
<1>4. ASSUME In!Transfer
      PROVE  /\ In!Unsent # <<>> /\ Head(in_queue) = Head(In!Unsent)
             /\ (In!Unsent)' = Tail(In!Unsent)
  BY <1>1, <1>4 DEF In!Transfer
<1>5. ASSUME In!HandleSent PROVE (In!Unsent)' = In!Unsent
  BY <1>1, <1>5 DEF In!HandleSent
<1> QED BY <1>1, <1>2, <1>3, <1>4, <1>5

-----------------------------------------------------------------------------
(* Places and stages.                                                      *)

(* The sets that the places stand for.                                     *)
LEMMA PlaceIs ==
  /\ place["posted"] = PostsOf(strand)
  /\ place["unsent"] = CallsOf(Out!Unsent)
  /\ place["requested"] = CallsOf(requests)
  /\ place["queued"] = CallsOf(io_queue)
  /\ place["executing"] = {m.call : m \in executing}
  /\ place["returned"] = CallsOf(write_strand)
  /\ place["unanswered"] = CallsOf(In!Unsent)
  /\ place["onItsWay"] = CallsOf(answers)
  /\ place["answered"] = {c \in Calls : promise[c] # 0}
BY DEF place, Places

(* The same after a step.                                                  *)
LEMMA PlaceIsNext ==
  /\ place'["posted"] = PostsOf(strand')
  /\ place'["unsent"] = CallsOf((Out!Unsent)')
  /\ place'["requested"] = CallsOf(requests')
  /\ place'["queued"] = CallsOf(io_queue')
  /\ place'["executing"] = {m.call : m \in executing'}
  /\ place'["returned"] = CallsOf(write_strand')
  /\ place'["unanswered"] = CallsOf((In!Unsent)')
  /\ place'["onItsWay"] = CallsOf(answers')
  /\ place'["answered"] = {c \in Calls : promise'[c] # 0}
BY DEF place, Places, CallsOf, PostsOf

(* The stage of a call is that of its place.                               *)
stages == [c \in Calls |-> stage(c)]
stageAt ==
  [p \in Places |->
     CASE p \in {"posted", "unsent", "requested", "queued"} -> "called"
       [] p = "executing" -> "executing"
       [] p \in {"returned", "unanswered", "onItsWay"} -> "executed"
       [] p = "answered" -> "answered"]

StageInv ==
  \A c \in Calls :
    /\ c > Len(asked) => stages[c] = "none"
    /\ \A p \in Places : c \in place[p] => stages[c] = stageAt[p]
    /\ c =< Len(asked) /\ (\A p \in Places : c \notin place[p]) => stages[c] = "lost"
LEMMA StageIs == PlaceInv => StageInv
<1> SUFFICES ASSUME PlaceInv, NEW c \in Calls
             PROVE  /\ c > Len(asked) => stage(c) = "none"
                    /\ \A p \in Places : c \in place[p] => stage(c) = stageAt[p]
                    /\ c =< Len(asked) /\ (\A p \in Places : c \notin place[p])
                         => stage(c) = "lost"
  BY DEF StageInv, stages
<1>1. c > Len(asked) => stage(c) = "none" BY DEF stage
<1>2. /\ Executes(c) <=> c \in place["executing"]
      /\ OnItsWay(c) <=> \/ c \in place["posted"] \/ c \in place["unsent"]
                         \/ c \in place["requested"] \/ c \in place["queued"]
      /\ ComingBack(c) <=> \/ c \in place["returned"] \/ c \in place["unanswered"]
                           \/ c \in place["onItsWay"]
      /\ promise[c] # 0 <=> c \in place["answered"]
  BY PlaceIs DEF Executes, OnItsWay, ComingBack, Posted, Holds, CallsOf, PostsOf
<1>3. ASSUME NEW p \in Places, c \in place[p] PROVE stage(c) = stageAt[p]
  <2>1. ~(c > Len(asked)) BY <1>3 DEF PlaceInv
  <2>2. \A q \in Places : c \in place[q] => q = p BY <1>3 DEF PlaceInv
  <2> QED BY <1>2, <1>3, <2>1, <2>2 DEF stage, stageAt, Places
<1>4. ASSUME c =< Len(asked), \A p \in Places : c \notin place[p] PROVE stage(c) = "lost"
  <2>1. ~(c > Len(asked)) BY <1>4 DEF Calls
  <2> QED BY <1>2, <1>4, <2>1 DEF stage, Places
<1> QED BY <1>1, <1>3, <1>4

(* The same after a step.                                                  *)
LEMMA StageIsNext == PlaceInv' => StageInv'
BY StageIs, PTL

-----------------------------------------------------------------------------
(* Steps between places.                                                   *)

(* The number of calls.                                                    *)
LEMMA AskedNat == BaseInv => Len(asked) \in Nat
BY DEF BaseInv, OwnInv

(* What is in the places are calls.                                        *)
LEMMA PlaceCalls == BaseInv /\ PlaceInv => \A p \in Places : place[p] \subseteq Calls
<1> SUFFICES ASSUME BaseInv, PlaceInv PROVE \A p \in Places : place[p] \subseteq Calls
  OBVIOUS
<1>1. 1 .. Len(asked) \subseteq Calls BY DEF BaseInv, OwnInv, Calls
<1> QED BY <1>1 DEF PlaceInv

(* One call goes from a place to the next.                                 *)
LEMMA Move ==
  ASSUME BaseInv, PlaceInv, asked' = asked,
         NEW a \in Places, NEW b \in Places, a # b, NEW c \in Calls, c \in place[a],
         place'[a] = place[a] \ {c}, place'[b] = place[b] \cup {c},
         \A p \in Places \ {a, b} : place'[p] = place[p]
  PROVE  /\ PlaceInv'
         /\ stages[c] = stageAt[a]
         /\ stages' = [stages EXCEPT ![c] = stageAt[b]]
<1>1. PlaceInv'
  <2>1. \A p \in Places : \A d \in Calls :
          d \in place'[p] <=> IF d = c THEN p = b ELSE d \in place[p]
    BY DEF PlaceInv
  <2>2. \A p \in Places : place'[p] \subseteq 1 .. Len(asked') BY DEF PlaceInv
  <2> QED BY <2>1, <2>2 DEF PlaceInv
<1>2. StageInv /\ StageInv' BY <1>1, StageIs, StageIsNext
<1>3. stages'[c] = stageAt[b] BY <1>2 DEF StageInv
<1>4. ASSUME NEW d \in Calls, d # c PROVE stages'[d] = stages[d]
  <2>1. \A p \in Places : d \in place'[p] <=> d \in place[p] BY <1>4
  <2>2. CASE \E p \in Places : d \in place[p] BY <1>2, <2>1, <2>2 DEF StageInv
  <2>3. CASE \A p \in Places : d \notin place[p]
    <3>1. d > Len(asked) \/ d =< Len(asked) BY AskedNat DEF Calls
    <3> QED BY <1>2, <2>1, <2>3, <3>1 DEF StageInv
  <2> QED BY <2>2, <2>3
<1>5. stages' = [d \in Calls |-> stages'[d]] /\ stages = [d \in Calls |-> stages[d]]
  BY DEF stages
<1> QED BY <1>1, <1>2, <1>3, <1>4, <1>5 DEF StageInv

(* Calls disappear, none of them answered.                                 *)
LEMMA Vanish ==
  ASSUME BaseInv, PlaceInv, asked' = asked,
         \A p \in Places : place'[p] \subseteq place[p],
         place'["answered"] = place["answered"]
  PROVE  /\ PlaceInv'
         /\ \A c \in Calls :
              \/ /\ stages'[c] = stages[c]
                 /\ \A p \in Places : c \in place[p] => c \in place'[p]
              \/ /\ stages'[c] = "lost" /\ stages[c] \in {"called", "executing", "executed"}
                 /\ \E p \in Places : c \in place[p] /\ c \notin place'[p]
<1>1. PlaceInv' BY DEF PlaceInv
<1>2. StageInv /\ StageInv' BY <1>1, StageIs, StageIsNext
<1> SUFFICES ASSUME NEW c \in Calls
             PROVE  \/ /\ stages'[c] = stages[c]
                       /\ \A p \in Places : c \in place[p] => c \in place'[p]
                    \/ /\ stages'[c] = "lost"
                       /\ stages[c] \in {"called", "executing", "executed"}
                       /\ \E p \in Places : c \in place[p] /\ c \notin place'[p]
  BY <1>1
<1>3. CASE \A p \in Places : c \notin place[p]
  <2>1. \A p \in Places : c \notin place'[p] BY <1>3
  <2>2. c > Len(asked) \/ c =< Len(asked) BY AskedNat DEF Calls
  <2> QED BY <1>2, <1>3, <2>1, <2>2 DEF StageInv
<1>4. ASSUME NEW p \in Places, c \in place[p], c \in place'[p] PROVE stages'[c] = stages[c]
  BY <1>2, <1>4 DEF StageInv
<1>5. ASSUME NEW p \in Places, c \in place[p], c \notin place'[p]
      PROVE  stages'[c] = "lost" /\ stages[c] \in {"called", "executing", "executed"}
  <2>1. \A q \in Places : c \notin place'[q] BY <1>5 DEF PlaceInv
  <2>2. c =< Len(asked') BY <1>5 DEF PlaceInv
  <2>3. p # "answered" BY <1>5
  <2>4. stageAt[p] \in {"called", "executing", "executed"} BY <2>3 DEF stageAt, Places
  <2> QED BY <1>2, <1>5, <2>1, <2>2, <2>4 DEF StageInv
<1>6. ASSUME NEW p \in Places, c \in place[p]
      PROVE  \A q \in Places : c \in place[q] => q = p
  BY <1>6 DEF PlaceInv
<1> QED BY <1>3, <1>4, <1>5, <1>6

(* Calls stay in the client, in the network or in the server.              *)
LEMMA Flight ==
  ASSUME FiledInv, ongoing_calls' = ongoing_calls,
         \A p \in InFlight : \A c \in place'[p] : \E q \in InFlight : c \in place[q],
         ErasesOf(strand') \subseteq ErasesOf(strand),
         place["answered"] \subseteq place'["answered"]
  PROVE  FiledInv'
<1>1. \A p \in InFlight : \A c \in place'[p] : ongoing_calls'[c] = c BY DEF FiledInv
<1>2. ErasesOf(strand') \subseteq place'["answered"] BY DEF FiledInv
<1> QED BY <1>1, <1>2 DEF FiledInv

(* A step of one call, as the service sees it.                             *)
LEMMA Becomes ==
  ASSUME NEW c \in Calls, NEW from, NEW to, stages[c] = from,
         stages' = [stages EXCEPT ![c] = to]
  PROVE  Service!Become(c, from, to)
BY DEF Service!Become, stages

(* What the service does not see.                                          *)
LEMMA Stutters ==
  ASSUME stages' = stages, (srv # "dead")' = (srv # "dead")
  PROVE  UNCHANGED Service!vars
BY DEF Service!vars, stages

(* Nothing moves.                                                          *)
LEMMA Stay ==
  ASSUME IInv,
         UNCHANGED <<asked, promise, ongoing_calls, strand, Out!Unsent, requests, io_queue,
                     executing, write_strand, In!Unsent, answers>>
  PROVE  /\ PlaceInv' /\ OnceInv' /\ FiledInv'
         /\ stages' = stages
<1>1. \A p \in Places : place'[p] = place[p] BY PlaceIs, PlaceIsNext DEF Places
<1>2. PlaceInv' /\ stages' = stages
  <2>1. PlaceInv' /\ \A c \in Calls : stages'[c] = stages[c]
    BY <1>1, Vanish DEF IInv, Places
  <2> QED BY <2>1 DEF stages
<1>3. OnceInv' BY DEF IInv, OnceInv, Once, OncePosts
<1>4. FiledInv' BY <1>1, Flight DEF IInv, InFlight, Places
<1> QED BY <1>2, <1>3, <1>4

-----------------------------------------------------------------------------
(* Every step keeps the invariant and is a step of the service or none.    *)
Good ==
  /\ PlaceInv' /\ OnceInv' /\ FiledInv'
  /\ [Service!Next]_(Service!vars)

(* Connections, completions and threads: no call moves.                    *)
LEMMA QuietGood ==
  ASSUME IInv,
         \/ \E f \in Functions : WaitConn(f)
         \/ Get \/ ConnectOk \/ ConnectRefused \/ NoticeEof \/ ReadFails
         \/ RequestFails \/ RequestSent \/ RequestNotSent
         \/ Listen \/ AsyncRun \/ Accept \/ AnswerSent \/ UNCHANGED vars
  PROVE  Good
<1> USE DEF callerVars, ioVars, outVars, wireVars, serverVars, inVars, clientVars
<1>1. /\ UNCHANGED <<asked, promise, ongoing_calls, strand, requests, io_queue, executing,
                     write_strand, answers>>
      /\ (srv # "dead")' = (srv # "dead")
      /\ ~(RequestFails \/ RequestSent \/ RequestNotSent) => UNCHANGED outVars
      /\ ~AnswerSent => UNCHANGED inVars
  <2>1. CASE (\E f \in Functions : WaitConn(f)) \/ Get \/ UNCHANGED vars
    BY <2>1 DEF WaitConn, Get, vars
  <2>2. CASE ConnectOk \/ ConnectRefused \/ NoticeEof \/ ReadFails
    BY <2>2 DEF ConnectOk, ConnectRefused, NoticeEof, ReadFails
  <2>3. CASE RequestFails \/ RequestSent \/ RequestNotSent
    BY <2>3 DEF RequestFails, RequestSent, RequestNotSent
  <2>4. CASE Listen \/ AsyncRun \/ Accept BY <2>4 DEF Listen, AsyncRun, Accept, FreeThread
  <2>5. CASE AnswerSent BY <2>5 DEF AnswerSent
  <2> QED BY <2>1, <2>2, <2>3, <2>4, <2>5
<1>2. UNCHANGED Out!Unsent
  <2>1. CASE RequestFails \/ RequestSent \/ RequestNotSent
    BY <2>1, OutUnsent DEF RequestFails, RequestSent, RequestNotSent, IInv
  <2>2. CASE UNCHANGED outVars BY <2>2 DEF Out!Unsent
  <2> QED BY <1>1, <2>1, <2>2
<1>3. UNCHANGED In!Unsent
  <2>1. CASE AnswerSent BY <2>1, InUnsent DEF AnswerSent, IInv
  <2>2. CASE UNCHANGED inVars BY <2>2 DEF In!Unsent
  <2> QED BY <1>1, <2>1, <2>2
<1> QED BY <1>1, <1>2, <1>3, Stay, Stutters DEF Good

(* A call is made: it is posted.                                           *)
LEMMA IssueGood ==
  ASSUME IInv, (\E f \in Functions : Call(f)) \/ WakeUp \/ SpuriousWakeUp
  PROVE  Good
<1> DEFINE n == Len(asked')
           h == [type |-> "post", id |-> n, call |-> n]
<1>1. /\ n = Len(asked) + 1 /\ n \in Calls /\ strand' = Append(strand, h)
      /\ UNCHANGED <<promise, ongoing_calls, outVars, wireVars, serverVars, inVars>>
  <2>1. PICK f \in Functions :
          /\ Issue(f) /\ Len(asked) < MaxCalls /\ spurious' \in 0 .. MaxSpurious
          /\ UNCHANGED <<promise, conn, ongoing_calls, outVars, wireVars, serverVars, inVars>>
    <3> USE DEF IInv, BaseInv, OwnInv
    <3>1. ASSUME NEW f \in Functions, Call(f)
          PROVE  /\ Issue(f) /\ Len(asked) < MaxCalls /\ spurious' \in 0 .. MaxSpurious
                 /\ UNCHANGED <<promise, conn, ongoing_calls, outVars, wireVars, serverVars,
                                inVars>>
      BY <3>1 DEF Call
    <3>2. ASSUME WakeUp \/ SpuriousWakeUp
          PROVE  /\ caller \in Functions
                 /\ Issue(caller) /\ Len(asked) < MaxCalls /\ spurious' \in 0 .. MaxSpurious
                 /\ UNCHANGED <<promise, conn, ongoing_calls, outVars, wireVars, serverVars,
                                inVars>>
      BY <3>2 DEF WakeUp, SpuriousWakeUp
    <3> HIDE DEF IInv, BaseInv, OwnInv
    <3> QED BY <3>1, <3>2
  <2> QED BY <2>1, IssueBase DEF IInv
<1> HIDE DEF n
<1>2. h \in OwnPosts /\ strand \in Seq(Handlers) /\ h \in Handlers
  BY <1>1, OwnFacts DEF IInv, BaseInv, OwnInv, Handlers
<1>3. \A p \in Places : n \notin place[p]
  <2>1. n \notin 1 .. Len(asked) BY <1>1, AskedNat DEF IInv
  <2> QED BY <2>1 DEF IInv, PlaceInv
<1>4. /\ PostsOf(strand') = PostsOf(strand) \cup {n} /\ ErasesOf(strand') = ErasesOf(strand)
      /\ OncePosts(strand')
  <2>1. n \notin PostsOf(strand) BY <1>3, PlaceIs DEF Places
  <2> QED BY <1>1, <1>2, <2>1, AppendHandlers DEF IInv, OnceInv
<1>5. UNCHANGED <<Out!Unsent, In!Unsent>> BY <1>1 DEF outVars, inVars, Out!Unsent, In!Unsent
<1>6. /\ place'["posted"] = place["posted"] \cup {n}
      /\ \A p \in Places \ {"posted"} : place'[p] = place[p]
  BY <1>1, <1>4, <1>5, PlaceIs, PlaceIsNext DEF Places, wireVars, serverVars
<1>7. PlaceInv'
  <2>1. \A p \in Places : place'[p] \subseteq 1 .. Len(asked')
    <3>1. 1 .. Len(asked) \subseteq 1 .. Len(asked') /\ n \in 1 .. Len(asked')
      BY <1>1, AskedNat DEF IInv, n
    <3> QED BY <1>6, <3>1 DEF IInv, PlaceInv
  <2> QED BY <1>3, <1>6, <2>1 DEF IInv, PlaceInv
<1>8. FiledInv' BY <1>1, <1>4, <1>6, Flight DEF IInv, InFlight, Places
<1>9. OnceInv' BY <1>1, <1>4, <1>5 DEF IInv, OnceInv, Once, wireVars, serverVars
<1>10. Service!Call(n)
  <2>1. StageInv /\ StageInv' BY <1>7, StageIs, StageIsNext DEF IInv
  <2>2. stages[n] = "none"
    <3>1. n > Len(asked) BY <1>1, AskedNat DEF IInv
    <3> QED BY <1>1, <2>1, <3>1 DEF StageInv
  <2>3. stages'[n] = "called"
    BY <1>1, <1>6, <2>1 DEF StageInv, stageAt, Places
  <2>4. ASSUME NEW d \in Calls, d # n PROVE stages'[d] = stages[d]
    <3>1. CASE \E p \in Places : d \in place[p] BY <1>6, <2>1, <2>4, <3>1 DEF StageInv
    <3>2. CASE \A p \in Places : d \notin place[p]
      <4>1. \A p \in Places : d \notin place'[p] BY <1>6, <2>4, <3>2
      <4>2. (d > Len(asked) /\ d > Len(asked')) \/ (d =< Len(asked) /\ d =< Len(asked'))
        <5>1. Len(asked) \in Nat /\ Len(asked') = Len(asked) + 1
          BY <1>1, AskedNat DEF IInv, n
        <5>2. d # Len(asked') /\ d \in Nat BY <2>4 DEF n, Calls
        <5> QED BY <5>1, <5>2
      <4> QED BY <2>1, <3>2, <4>1, <4>2 DEF StageInv
    <3> QED BY <3>1, <3>2
  <2>5. stages' = [stages EXCEPT ![n] = "called"] BY <2>3, <2>4 DEF stages
  <2> QED BY <1>1, <2>2, <2>5, Becomes DEF Service!Call, serverVars
<1> QED BY <1>1, <1>7, <1>8, <1>9, <1>10 DEF Good, Service!Next

(* A step within a stage.                                                  *)
LEMMA SameStage ==
  ASSUME NEW c \in Calls, NEW a \in Places, NEW b \in Places,
         stages[c] = stageAt[a], stages' = [stages EXCEPT ![c] = stageAt[b]],
         stageAt[a] = stageAt[b], (srv # "dead")' = (srv # "dead")
  PROVE  UNCHANGED Service!vars
<1>1. stages' = stages BY DEF stages
<1> QED BY <1>1, Stutters

(* The strand files the promise and queues the request.                    *)
LEMMA RunPostGood == ASSUME IInv, RunPost PROVE Good
<1> DEFINE h == Head(strand)
           c == h.call
           m == [id |-> h.id, call |-> h.call]
<1>1. strand # <<>> /\ h.type = "post" /\ strand' = Tail(strand) /\ strand \in Seq(Handlers)
        /\ OncePosts(strand)
  BY DEF RunPost, IInv, BaseInv, OwnInv, Handlers, OnceInv
<1>2. /\ c \in PostsOf(strand) /\ PostsOf(strand') = PostsOf(strand) \ {c}
      /\ ErasesOf(strand') \subseteq ErasesOf(strand) /\ OncePosts(strand')
      /\ h \in Handlers
  BY <1>1, TailHandlers
<1>3. c \in Calls /\ h.id = c /\ m \in OwnMessages /\ m.call = c
  BY <1>1, <1>2, OwnFacts DEF Handlers
<1>4. UNCHANGED <<asked, promise, requests, answers, srv, io_queue, executing, write_strand,
                  in_queue, in_ops>>
  BY DEF RunPost, callerVars, wireVars, serverVars, inVars
<1>5. UNCHANGED In!Unsent BY <1>4 DEF In!Unsent
<1>6. \A p \in Places \ {"posted"} : c \notin place[p]
  BY <1>2, <1>3, PlaceIs DEF IInv, PlaceInv, Places
<1>7. /\ CallsOf((Out!Unsent)') = CallsOf(Out!Unsent) \cup {c}
      /\ Once((Out!Unsent)')
  <2>1. (Out!Unsent)' = Append(Out!Unsent, m) /\ Out!Unsent \in Seq(OwnMessages)
    BY <1>3, OutUnsent DEF RunPost, IInv
  <2>2. Once(Out!Unsent) /\ c \notin CallsOf(Out!Unsent)
    BY <1>6, PlaceIs DEF IInv, OnceInv, Places
  <2> QED BY <1>3, <2>1, <2>2, AppendCalls
<1> HIDE DEF c
<1>8. /\ c \in place["posted"] /\ place'["posted"] = place["posted"] \ {c}
      /\ place'["unsent"] = place["unsent"] \cup {c}
      /\ \A p \in Places \ {"posted", "unsent"} : place'[p] = place[p]
  BY <1>2, <1>4, <1>5, <1>7, PlaceIs, PlaceIsNext DEF Places
<1>9. /\ PlaceInv' /\ stages[c] = stageAt["posted"]
      /\ stages' = [stages EXCEPT ![c] = stageAt["unsent"]]
  <2>1. "posted" \in Places /\ "unsent" \in Places BY DEF Places
  <2> QED BY <1>3, <1>4, <1>8, <2>1, Move DEF IInv
<1>10. FiledInv'
  <2>1. ongoing_calls'[c] = c /\ \A d \in Calls : d # c => ongoing_calls'[d] = ongoing_calls[d]
    <3>1. /\ ongoing_calls' = [ongoing_calls EXCEPT ![c] = IF @ = 0 THEN c ELSE @]
          /\ ongoing_calls \in [Ids -> Calls \cup {0}] /\ c \in Ids
          /\ ongoing_calls[c] \in {0, c}
      BY <1>3, OwnFacts DEF RunPost, c, IInv, BaseInv, OwnInv
    <3> QED BY <3>1, OwnFacts
  <2>2. \A p \in InFlight : place[p] \subseteq Calls /\ place'[p] \subseteq place[p] \cup {c}
    <3>1. \A p \in Places : place[p] \subseteq Calls BY PlaceCalls DEF IInv
    <3> QED BY <1>8, <3>1 DEF InFlight
  <2>3. ErasesOf(strand') \subseteq place'["answered"]
    BY <1>2, <1>8 DEF IInv, FiledInv, Places
  <2>4. \A p \in InFlight : \A d \in place'[p] : ongoing_calls'[d] = d
    BY <2>1, <2>2 DEF IInv, FiledInv
  <2> QED BY <2>3, <2>4 DEF FiledInv
<1>11. OnceInv' BY <1>2, <1>4, <1>5, <1>7 DEF IInv, OnceInv, Once
<1>12. stageAt["posted"] = stageAt["unsent"] BY DEF stageAt, Places
<1>13. UNCHANGED Service!vars
  <2>1. "posted" \in Places /\ "unsent" \in Places BY DEF Places
  <2> QED BY <1>3, <1>4, <1>9, <1>12, <2>1, SameStage
<1> QED BY <1>9, <1>10, <1>11, <1>13 DEF Good

(* It erases the entry of a call that was answered.                        *)
LEMMA RunEraseGood == ASSUME IInv, RunErase PROVE Good
<1> DEFINE i == Head(strand).id
<1>1. strand # <<>> /\ Head(strand).type = "erase" /\ strand' = Tail(strand)
        /\ strand \in Seq(Handlers) /\ OncePosts(strand)
  BY DEF RunErase, IInv, BaseInv, OwnInv, Handlers, OnceInv
<1>2. /\ i \in ErasesOf(strand) /\ PostsOf(strand') = PostsOf(strand)
      /\ ErasesOf(strand') \subseteq ErasesOf(strand) /\ OncePosts(strand')
  BY <1>1, TailHandlers
<1>3. UNCHANGED <<asked, promise, requests, answers, srv, io_queue, executing, write_strand,
                  in_queue, in_ops, out_queue, out_ops>>
  BY DEF RunErase, callerVars, outVars, wireVars, serverVars, inVars
<1>4. UNCHANGED <<Out!Unsent, In!Unsent>> BY <1>3 DEF In!Unsent, Out!Unsent
<1>5. \A p \in Places : place'[p] = place[p]
  BY <1>2, <1>3, <1>4, PlaceIs, PlaceIsNext DEF Places
<1>6. PlaceInv' /\ stages' = stages
  <2>1. PlaceInv' /\ \A c \in Calls : stages'[c] = stages[c]
    BY <1>3, <1>5, Vanish DEF IInv, Places
  <2> QED BY <2>1 DEF stages
<1>7. OnceInv' BY <1>2, <1>3, <1>4 DEF IInv, OnceInv, Once
<1>8. FiledInv'
  <2>1. i \in place["answered"] /\ i \in Calls
    BY <1>2, PlaceIs DEF IInv, FiledInv
  <2>2. \A p \in InFlight : i \notin place[p] /\ place[p] \subseteq Calls
    BY <2>1, PlaceCalls DEF InFlight, IInv, PlaceInv, Places
  <2>3. \A d \in Calls : d # i => ongoing_calls'[d] = ongoing_calls[d]
    BY <2>1, OwnFacts DEF RunErase, IInv, BaseInv, OwnInv
  <2>4. \A p \in InFlight : \A d \in place'[p] : ongoing_calls'[d] = d
    BY <1>5, <2>2, <2>3 DEF IInv, FiledInv, InFlight
  <2>5. ErasesOf(strand') \subseteq place'["answered"]
    BY <1>2, <1>5 DEF IInv, FiledInv, Places
  <2> QED BY <2>4, <2>5 DEF FiledInv
<1>9. UNCHANGED Service!vars BY <1>3, <1>6, Stutters
<1> QED BY <1>6, <1>7, <1>8, <1>9 DEF Good

(* A call goes from one queue to another.                                  *)
LEMMA Handover ==
  ASSUME NEW q \in Seq(OwnMessages), NEW r \in Seq(OwnMessages), q # <<>>,
         Once(q), Once(r), CallsOf(q) \cap CallsOf(r) = {}
  PROVE  LET c == Head(q).call IN
           /\ c \in Calls /\ c \in CallsOf(q)
           /\ CallsOf(Tail(q)) = CallsOf(q) \ {c} /\ Once(Tail(q))
           /\ CallsOf(Append(r, Head(q))) = CallsOf(r) \cup {c} /\ Once(Append(r, Head(q)))
<1> DEFINE c == Head(q).call
<1>1. c \in Calls /\ c \in CallsOf(q) /\ CallsOf(Tail(q)) = CallsOf(q) \ {c} /\ Once(Tail(q))
  BY TailCalls
<1>2. Head(q) \in OwnMessages BY HeadTailProperties
<1>3. CallsOf(Append(r, Head(q))) = CallsOf(r) \cup {c} /\ Once(Append(r, Head(q)))
  BY <1>1, <1>2, AppendCalls
<1> QED BY <1>1, <1>3

(* Two places have no call in common.                                      *)
LEMMA Apart ==
  ASSUME BaseInv, PlaceInv, NEW a \in Places, NEW b \in Places, a # b
  PROVE  place[a] \cap place[b] = {}
BY PlaceCalls DEF PlaceInv

(* A call that was filed goes on, its answer not read yet.                 *)
LEMMA FlightMove ==
  ASSUME IInv, UNCHANGED <<asked, ongoing_calls, strand>>, (srv # "dead")' = (srv # "dead"),
         OnceInv', NEW a \in InFlight, NEW b \in InFlight, a # b, NEW c \in Calls, c \in place[a],
         place'[a] = place[a] \ {c}, place'[b] = place[b] \cup {c},
         \A p \in Places \ {a, b} : place'[p] = place[p],
         \/ stageAt[a] = stageAt[b]
         \/ Service!Become(c, stageAt[a], stageAt[b]) => Service!Next
  PROVE  Good
<1>1. a \in Places /\ b \in Places BY DEF InFlight
<1>2. /\ PlaceInv' /\ stages[c] = stageAt[a]
      /\ stages' = [stages EXCEPT ![c] = stageAt[b]]
  BY <1>1, Move DEF IInv
<1>3. FiledInv' BY Flight DEF IInv, InFlight, Places
<1>4. Service!Become(c, stageAt[a], stageAt[b]) BY <1>2, Becomes
<1>5. stageAt[a] = stageAt[b] => UNCHANGED Service!vars BY <1>1, <1>2, SameStage
<1> QED BY <1>2, <1>3, <1>4, <1>5 DEF Good

(* A request goes out, or is lost as the server is dead.                   *)
LEMMA SendRequestGood == ASSUME IInv, SendRequest PROVE Good
<1> DEFINE c == Head(Out!Unsent).call
<1>1. /\ UNCHANGED <<asked, promise, ongoing_calls, strand, answers, srv, io_queue, executing,
                     write_strand, in_queue, in_ops>>
      /\ Out!Transfer
      /\ requests' = IF srv = "dead" THEN requests ELSE Append(requests, Head(out_queue))
  BY DEF SendRequest, callerVars, ioVars, serverVars, inVars
<1>2. UNCHANGED In!Unsent BY <1>1 DEF In!Unsent
<1>3. /\ Out!Unsent \in Seq(OwnMessages) /\ Out!Unsent # <<>>
      /\ Head(out_queue) = Head(Out!Unsent) /\ (Out!Unsent)' = Tail(Out!Unsent)
  BY <1>1, OutUnsent DEF IInv
<1>4. requests \in Seq(OwnMessages) /\ Once(requests) /\ Once(Out!Unsent)
  BY DEF IInv, BaseInv, OwnInv, OnceInv
<1>5. CallsOf(Out!Unsent) \cap CallsOf(requests) = {}
  <2>1. "unsent" \in Places /\ "requested" \in Places BY DEF Places
  <2> QED BY <2>1, Apart, PlaceIs DEF IInv
<1>6. /\ c \in Calls /\ c \in CallsOf(Out!Unsent)
      /\ CallsOf((Out!Unsent)') = CallsOf(Out!Unsent) \ {c} /\ Once((Out!Unsent)')
      /\ srv # "dead" => CallsOf(requests') = CallsOf(requests) \cup {c}
      /\ Once(requests')
  BY <1>1, <1>3, <1>4, <1>5, Handover
<1>7. OnceInv' BY <1>1, <1>2, <1>6 DEF IInv, OnceInv, Once, OncePosts
<1> HIDE DEF c
<1>8. CASE srv # "dead"
  <2>1. /\ c \in place["unsent"] /\ place'["unsent"] = place["unsent"] \ {c}
        /\ place'["requested"] = place["requested"] \cup {c}
        /\ \A p \in Places \ {"unsent", "requested"} : place'[p] = place[p]
    BY <1>1, <1>2, <1>6, <1>8, PlaceIs, PlaceIsNext DEF Places
  <2>2. stageAt["unsent"] = stageAt["requested"] BY DEF stageAt, Places
  <2>3. "unsent" \in InFlight /\ "requested" \in InFlight BY DEF InFlight, Places
  <2> QED BY <1>1, <1>6, <1>7, <2>1, <2>2, <2>3, FlightMove
<1>9. CASE srv = "dead"
  <2>1. /\ c \in place["unsent"] /\ place'["unsent"] = place["unsent"] \ {c}
        /\ \A p \in Places \ {"unsent"} : place'[p] = place[p]
    BY <1>1, <1>2, <1>6, <1>9, PlaceIs, PlaceIsNext DEF Places
  <2>2. "unsent" \in Places /\ "answered" \in Places BY DEF Places
  <2>3. \A p \in Places : place'[p] \subseteq place[p] BY <2>1
  <2>4. /\ PlaceInv'
        /\ \A d \in Calls :
             \/ /\ stages'[d] = stages[d]
                /\ \A p \in Places : d \in place[p] => d \in place'[p]
             \/ /\ stages'[d] = "lost"
                /\ \E p \in Places : d \in place[p] /\ d \notin place'[p]
    BY <1>1, <2>1, <2>2, <2>3, Vanish DEF IInv
  <2>5. FiledInv' BY <1>1, <2>1, <2>3, Flight DEF IInv, InFlight, Places
  <2>6. stages[c] = "called"
    <3>1. StageInv BY StageIs DEF IInv
    <3> QED BY <1>6, <2>1, <2>2, <3>1 DEF StageInv, stageAt
  <2>7. stages'[c] = "lost" BY <1>6, <2>1, <2>2, <2>4
  <2>8. \A d \in Calls : d # c => stages'[d] = stages[d] BY <2>1, <2>4
  <2>9. stages' = [stages EXCEPT ![c] = "lost"] BY <2>7, <2>8 DEF stages
  <2>10. Service!Lose(c) BY <1>1, <1>6, <1>9, <2>6, <2>9, Becomes DEF Service!Lose
  <2> QED BY <1>6, <1>7, <2>4, <2>5, <2>10 DEF Good, Service!Next
<1> QED BY <1>8, <1>9

(* The answer finds its promise and sets it.                               *)
LEMMA ReadAnswerGood == ASSUME IInv, ReadAnswer PROVE Good
<1> DEFINE r == Head(answers)
           c == r.call
           h == [type |-> "erase", id |-> r.id]
<1>1. answers # <<>> /\ answers' = Tail(answers) /\ strand' = Append(strand, h)
        /\ answers \in Seq(OwnMessages) /\ Once(answers) /\ strand \in Seq(Handlers)
        /\ OncePosts(strand)
  BY DEF ReadAnswer, IInv, BaseInv, OwnInv, OnceInv, Handlers
<1>2. UNCHANGED <<asked, ongoing_calls, requests, srv, io_queue, executing, write_strand,
                  in_queue, in_ops, out_queue, out_ops>>
  BY DEF ReadAnswer, callerVars, outVars, serverVars, inVars
<1>3. UNCHANGED <<Out!Unsent, In!Unsent>> BY <1>2 DEF In!Unsent, Out!Unsent
<1>4. /\ c \in Calls /\ c \in CallsOf(answers) /\ CallsOf(answers') = CallsOf(answers) \ {c}
      /\ Once(answers') /\ r.id = c
  <2>1. r \in OwnMessages BY <1>1, HeadTailProperties
  <2> QED BY <1>1, <2>1, TailCalls, OwnFacts
<1>5. h \in Erases /\ h \in Handlers BY <1>4, OwnFacts DEF Handlers
<1>6. PostsOf(strand') = PostsOf(strand) /\ ErasesOf(strand') = ErasesOf(strand) \cup {c}
        /\ OncePosts(strand')
  BY <1>1, <1>4, <1>5, AppendHandlers
<1>7. ongoing_calls[c] = c
  BY <1>4, PlaceIs DEF IInv, FiledInv, InFlight, Places
<1> DEFINE k == ongoing_calls[r.id]
<1>8. k = c BY <1>4, <1>7
<1>9. promise' = [promise EXCEPT ![c] = c]
  <2>1. promise' = IF k = 0 THEN promise ELSE [promise EXCEPT ![k] = c] BY DEF ReadAnswer
  <2> HIDE DEF k
  <2> QED BY <1>4, <1>8, <2>1, OwnFacts
<1> HIDE DEF c
<1>10. {d \in Calls : promise'[d] # 0} = {d \in Calls : promise[d] # 0} \cup {c}
  BY <1>4, <1>9, OwnFacts DEF IInv, BaseInv, OwnInv
<1>11. /\ c \in place["onItsWay"] /\ place'["onItsWay"] = place["onItsWay"] \ {c}
       /\ place'["answered"] = place["answered"] \cup {c}
       /\ \A p \in Places \ {"onItsWay", "answered"} : place'[p] = place[p]
  BY <1>2, <1>3, <1>4, <1>6, <1>10, PlaceIs, PlaceIsNext DEF Places
<1>12. /\ PlaceInv' /\ stages[c] = stageAt["onItsWay"]
       /\ stages' = [stages EXCEPT ![c] = stageAt["answered"]]
  <2>1. "onItsWay" \in Places /\ "answered" \in Places BY DEF Places
  <2> QED BY <1>2, <1>4, <1>11, <2>1, Move DEF IInv
<1>13. OnceInv' BY <1>2, <1>3, <1>4, <1>6 DEF IInv, OnceInv, Once
<1>14. FiledInv'
  <2>1. \A p \in InFlight : place'[p] \subseteq place[p] BY <1>11 DEF InFlight
  <2>2. ErasesOf(strand') \subseteq place'["answered"]
    BY <1>6, <1>11 DEF IInv, FiledInv
  <2>3. \A p \in InFlight : \A d \in place'[p] : ongoing_calls'[d] = d
    BY <1>2, <2>1 DEF IInv, FiledInv
  <2> QED BY <2>2, <2>3 DEF FiledInv
<1>15. Service!Answer(c)
  <2>1. stageAt["onItsWay"] = "executed" /\ stageAt["answered"] = "answered"
    BY DEF stageAt, Places
  <2> QED BY <1>2, <1>4, <1>12, <2>1, Becomes DEF Service!Answer
<1> QED BY <1>4, <1>12, <1>13, <1>14, <1>15 DEF Good, Service!Next

(* The session posts a request to the threads.                             *)
LEMMA ReadRequestGood == ASSUME IInv, ReadRequest PROVE Good
<1> DEFINE c == Head(requests).call
<1>1. /\ UNCHANGED <<asked, promise, ongoing_calls, strand, answers, srv, executing,
                     write_strand, out_queue, out_ops, in_queue, in_ops>>
      /\ requests # <<>> /\ requests' = Tail(requests)
      /\ io_queue' = Append(io_queue, Head(requests))
  BY DEF ReadRequest, clientVars, callerVars, ioVars, outVars, inVars
<1>2. UNCHANGED <<Out!Unsent, In!Unsent>> BY <1>1 DEF In!Unsent, Out!Unsent
<1>3. /\ requests \in Seq(OwnMessages) /\ Once(requests)
      /\ io_queue \in Seq(OwnMessages) /\ Once(io_queue)
  BY DEF IInv, BaseInv, OwnInv, OnceInv
<1>4. "requested" \in InFlight /\ "queued" \in InFlight BY DEF InFlight, Places
<1>5. CallsOf(requests) \cap CallsOf(io_queue) = {}
  BY <1>4, Apart, PlaceIs DEF IInv, InFlight
<1>6. /\ c \in Calls /\ c \in CallsOf(requests)
      /\ CallsOf(requests') = CallsOf(requests) \ {c} /\ Once(requests')
      /\ CallsOf(io_queue') = CallsOf(io_queue) \cup {c} /\ Once(io_queue')
  BY <1>1, <1>3, <1>5, Handover
<1>7. OnceInv' BY <1>1, <1>2, <1>6 DEF IInv, OnceInv, Once, OncePosts
<1> HIDE DEF c
<1>8. /\ c \in place["requested"] /\ place'["requested"] = place["requested"] \ {c}
      /\ place'["queued"] = place["queued"] \cup {c}
      /\ \A p \in Places \ {"requested", "queued"} : place'[p] = place[p]
  BY <1>1, <1>2, <1>6, PlaceIs, PlaceIsNext DEF Places
<1>9. stageAt["requested"] = stageAt["queued"] BY DEF stageAt, Places
<1> QED BY <1>1, <1>4, <1>6, <1>7, <1>8, <1>9, FlightMove

(* A thread takes a call: Execute.                                         *)
LEMMA DispatchGood == ASSUME IInv, Dispatch PROVE Good
<1> DEFINE c == Head(io_queue).call
<1>1. /\ UNCHANGED <<asked, promise, ongoing_calls, strand, answers, requests, srv,
                     write_strand, out_queue, out_ops, in_queue, in_ops>>
      /\ io_queue # <<>> /\ io_queue' = Tail(io_queue) /\ srv = "running"
      /\ executing' = executing \cup {Head(io_queue)}
  BY DEF Dispatch, FreeThread, clientVars, wireVars, callerVars, ioVars, outVars, inVars
<1>2. UNCHANGED <<Out!Unsent, In!Unsent>> BY <1>1 DEF In!Unsent, Out!Unsent
<1>3. io_queue \in Seq(OwnMessages) /\ Once(io_queue)
  BY DEF IInv, BaseInv, OwnInv, OnceInv
<1>4. /\ c \in Calls /\ c \in CallsOf(io_queue)
      /\ CallsOf(io_queue') = CallsOf(io_queue) \ {c} /\ Once(io_queue')
  BY <1>1, <1>3, TailCalls
<1>5. {m.call : m \in executing'} = {m.call : m \in executing} \cup {c} BY <1>1
<1>6. OnceInv' BY <1>1, <1>2, <1>4 DEF IInv, OnceInv, Once, OncePosts
<1> HIDE DEF c
<1>7. /\ c \in place["queued"] /\ place'["queued"] = place["queued"] \ {c}
      /\ place'["executing"] = place["executing"] \cup {c}
      /\ \A p \in Places \ {"queued", "executing"} : place'[p] = place[p]
  BY <1>1, <1>2, <1>4, <1>5, PlaceIs, PlaceIsNext DEF Places
<1>8. Service!Become(c, stageAt["queued"], stageAt["executing"]) => Service!Next
  <2>1. stageAt["queued"] = "called" /\ stageAt["executing"] = "executing"
    BY DEF stageAt, Places
  <2>2. srv # "dead" /\ (srv # "dead")' BY <1>1
  <2> QED BY <1>4, <2>1, <2>2 DEF Service!Next, Service!Execute
<1>9. "queued" \in InFlight /\ "executing" \in InFlight BY DEF InFlight, Places
<1> QED BY <1>1, <1>4, <1>6, <1>7, <1>8, <1>9, FlightMove

(* A handler returns: Finish.                                              *)
LEMMA HandlerReturnsGood ==
  ASSUME IInv, NEW m \in executing, HandlerReturns(m)
  PROVE  Good
<1> DEFINE c == m.call
<1>1. /\ UNCHANGED <<asked, promise, ongoing_calls, strand, answers, requests, io_queue, srv,
                     out_queue, out_ops, in_queue, in_ops>>
      /\ executing' = executing \ {m} /\ write_strand' = Append(write_strand, m)
  BY DEF HandlerReturns, clientVars, wireVars, callerVars, ioVars, outVars, inVars
<1>2. UNCHANGED <<Out!Unsent, In!Unsent>> BY <1>1 DEF In!Unsent, Out!Unsent
<1>3. m \in OwnMessages /\ c \in Calls /\ srv # "dead"
  BY OwnFacts DEF IInv, BaseInv, OwnInv, DeadInv
<1>4. {x.call : x \in executing'} = {x.call : x \in executing} \ {c}
  <2>1. \A x \in executing : x.call = c => x = m
    <3>1. \A x, y \in OwnMessages : x.call = y.call => x = y BY DEF OwnMessages, Message
    <3> QED BY <1>3, <3>1 DEF IInv, BaseInv, OwnInv
  <2> QED BY <1>1, <2>1
<1>5. "executing" \in InFlight /\ "returned" \in InFlight BY DEF InFlight, Places
<1>6. /\ CallsOf(write_strand') = CallsOf(write_strand) \cup {c} /\ Once(write_strand')
  <2>1. c \notin CallsOf(write_strand)
    <3>1. place["executing"] \cap place["returned"] = {}
      BY <1>5, Apart DEF IInv, InFlight
    <3> QED BY <3>1, PlaceIs
  <2>2. write_strand \in Seq(OwnMessages) /\ Once(write_strand)
    BY DEF IInv, BaseInv, OwnInv, OnceInv
  <2> QED BY <1>1, <1>3, <2>1, <2>2, AppendCalls
<1>7. OnceInv' BY <1>1, <1>2, <1>6 DEF IInv, OnceInv, Once, OncePosts
<1>8. c \in {x.call : x \in executing} OBVIOUS
<1> HIDE DEF c
<1>9. /\ c \in place["executing"] /\ place'["executing"] = place["executing"] \ {c}
      /\ place'["returned"] = place["returned"] \cup {c}
      /\ \A p \in Places \ {"executing", "returned"} : place'[p] = place[p]
  BY <1>1, <1>2, <1>4, <1>6, <1>8, PlaceIs, PlaceIsNext DEF Places
<1>10. Service!Become(c, stageAt["executing"], stageAt["returned"]) => Service!Next
  <2>1. stageAt["executing"] = "executing" /\ stageAt["returned"] = "executed"
    BY DEF stageAt, Places
  <2>2. srv # "dead" /\ (srv # "dead")' BY <1>1, <1>3
  <2> QED BY <1>3, <2>1, <2>2 DEF Service!Next, Service!Finish
<1> QED BY <1>1, <1>3, <1>5, <1>7, <1>9, <1>10, FlightMove

(* The answer is queued for the socket.                                    *)
LEMMA WriteAnswerGood == ASSUME IInv, WriteAnswer PROVE Good
<1> DEFINE c == Head(write_strand).call
<1>1. /\ UNCHANGED <<asked, promise, ongoing_calls, strand, answers, requests, io_queue, srv,
                     executing, out_queue, out_ops>>
      /\ write_strand # <<>> /\ write_strand' = Tail(write_strand)
      /\ In!write(Head(write_strand))
  BY DEF WriteAnswer, clientVars, wireVars, callerVars, ioVars, outVars
<1>2. UNCHANGED Out!Unsent BY <1>1 DEF Out!Unsent
<1>3. /\ write_strand \in Seq(OwnMessages) /\ Once(write_strand) /\ Once(In!Unsent)
      /\ Head(write_strand) \in OwnMessages
  BY <1>1, HeadTailProperties DEF IInv, BaseInv, OwnInv, OnceInv
<1>4. In!Unsent \in Seq(OwnMessages) /\ (In!Unsent)' = Append(In!Unsent, Head(write_strand))
  BY <1>1, <1>3, InUnsent DEF IInv
<1>5. "returned" \in InFlight /\ "unanswered" \in InFlight BY DEF InFlight, Places
<1>6. CallsOf(write_strand) \cap CallsOf(In!Unsent) = {}
  BY <1>5, Apart, PlaceIs DEF IInv, InFlight
<1>7. /\ c \in Calls /\ c \in CallsOf(write_strand)
      /\ CallsOf(write_strand') = CallsOf(write_strand) \ {c} /\ Once(write_strand')
      /\ CallsOf((In!Unsent)') = CallsOf(In!Unsent) \cup {c} /\ Once((In!Unsent)')
  BY <1>1, <1>3, <1>4, <1>6, Handover
<1>8. OnceInv' BY <1>1, <1>2, <1>7 DEF IInv, OnceInv, Once, OncePosts
<1> HIDE DEF c
<1>9. /\ c \in place["returned"] /\ place'["returned"] = place["returned"] \ {c}
      /\ place'["unanswered"] = place["unanswered"] \cup {c}
      /\ \A p \in Places \ {"returned", "unanswered"} : place'[p] = place[p]
  BY <1>1, <1>2, <1>7, PlaceIs, PlaceIsNext DEF Places
<1>10. stageAt["returned"] = stageAt["unanswered"] BY DEF stageAt, Places
<1> QED BY <1>1, <1>5, <1>7, <1>8, <1>9, <1>10, FlightMove

(* It goes out.                                                            *)
LEMMA SendAnswerGood == ASSUME IInv, SendAnswer PROVE Good
<1> DEFINE c == Head(In!Unsent).call
<1>1. /\ UNCHANGED <<asked, promise, ongoing_calls, strand, requests, io_queue, srv,
                     executing, write_strand, out_queue, out_ops>>
      /\ In!Transfer /\ answers' = Append(answers, Head(in_queue))
  BY DEF SendAnswer, clientVars, serverVars, callerVars, ioVars, outVars
<1>2. UNCHANGED Out!Unsent BY <1>1 DEF Out!Unsent
<1>3. answers \in Seq(OwnMessages) /\ Once(answers) /\ Once(In!Unsent)
  BY DEF IInv, BaseInv, OwnInv, OnceInv
<1>4. /\ In!Unsent \in Seq(OwnMessages) /\ In!Unsent # <<>>
      /\ Head(in_queue) = Head(In!Unsent) /\ (In!Unsent)' = Tail(In!Unsent)
  BY <1>1, InUnsent DEF IInv
<1>5. "unanswered" \in InFlight /\ "onItsWay" \in InFlight BY DEF InFlight, Places
<1>6. CallsOf(In!Unsent) \cap CallsOf(answers) = {}
  BY <1>5, Apart, PlaceIs DEF IInv, InFlight
<1>7. /\ c \in Calls /\ c \in CallsOf(In!Unsent)
      /\ CallsOf((In!Unsent)') = CallsOf(In!Unsent) \ {c} /\ Once((In!Unsent)')
      /\ CallsOf(answers') = CallsOf(answers) \cup {c} /\ Once(answers')
  BY <1>1, <1>3, <1>4, <1>6, Handover
<1>8. OnceInv' BY <1>1, <1>2, <1>7 DEF IInv, OnceInv, Once, OncePosts
<1> HIDE DEF c
<1>9. /\ c \in place["unanswered"] /\ place'["unanswered"] = place["unanswered"] \ {c}
      /\ place'["onItsWay"] = place["onItsWay"] \cup {c}
      /\ \A p \in Places \ {"unanswered", "onItsWay"} : place'[p] = place[p]
  BY <1>1, <1>2, <1>7, PlaceIs, PlaceIsNext DEF Places
<1>10. stageAt["unanswered"] = stageAt["onItsWay"] BY DEF stageAt, Places
<1> QED BY <1>1, <1>5, <1>7, <1>8, <1>9, <1>10, FlightMove

(* The server dies: Crash.                                                 *)
LEMMA DieGood == ASSUME IInv, Die PROVE Good
<1>1. /\ UNCHANGED <<asked, promise, ongoing_calls, strand, answers, out_queue, out_ops>>
      /\ srv # "dead" /\ srv' = "dead"
      /\ requests' = <<>> /\ io_queue' = <<>> /\ write_strand' = <<>> /\ executing' = {}
      /\ in_queue' = <<>> /\ in_ops' = In!Idle
  BY DEF Die, clientVars, callerVars, ioVars, outVars
<1>2. UNCHANGED Out!Unsent /\ (In!Unsent)' = <<>>
  BY <1>1 DEF Out!Unsent, In!Unsent, In!Idle, In!Writes
<1>3. CallsOf(<<>>) = {} /\ Once(<<>>) BY DEF CallsOf, Once
<1>4. /\ \A p \in Places : place'[p] \subseteq place[p]
      /\ place'["answered"] = place["answered"]
  <2>1. \A p \in Places : place'[p] \in {place[p], {}}
    BY <1>1, <1>2, <1>3, PlaceIs, PlaceIsNext DEF Places
  <2> QED BY <1>1, <2>1, PlaceIs, PlaceIsNext
<1>5. /\ PlaceInv'
      /\ \A c \in Calls :
           \/ stages'[c] = stages[c]
           \/ stages'[c] = "lost" /\ stages[c] \in {"called", "executing", "executed"}
  BY <1>1, <1>4, Vanish DEF IInv
<1>6. FiledInv' BY <1>1, <1>4, Flight DEF IInv, InFlight
<1>7. OnceInv' BY <1>1, <1>2, <1>3 DEF IInv, OnceInv, OncePosts, Once
<1>8. Service!Crash
  <2> DEFINE L == {c \in Calls : stages'[c] # stages[c]}
  <2>1. L \in SUBSET {c \in Calls : stages[c] \in {"called", "executing", "executed"}}
    BY <1>5
  <2>2. stages' = [c \in Calls |-> IF c \in L THEN "lost" ELSE stages[c]] BY <1>5 DEF stages
  <2> QED BY <1>1, <2>1, <2>2 DEF Service!Crash, stages
<1> QED BY <1>5, <1>6, <1>7, <1>8 DEF Good, Service!Next

-----------------------------------------------------------------------------
(* The invariant, and what follows.                                        *)

(* Nothing has been called.                                                *)
LEMMA ServiceInit == Init => IInv /\ Service!Init
<1> SUFFICES ASSUME Init PROVE IInv /\ Service!Init OBVIOUS
<1>1. BaseInv BY BaseInit
<1>2. CallsOf(<<>>) = {} /\ Once(<<>>) /\ PostsOf(<<>>) = {} /\ ErasesOf(<<>>) = {}
        /\ OncePosts(<<>>)
  BY DEF CallsOf, Once, PostsOf, ErasesOf, OncePosts
<1>3. Out!Unsent = <<>> /\ In!Unsent = <<>>
  BY DEF Init, Out!Init, In!Init, Out!Unsent, In!Unsent, Out!Idle, In!Idle, Out!Writes,
         In!Writes
<1>4. \A p \in Places : place[p] = {} BY <1>2, <1>3, PlaceIs DEF Init, Places
<1>5. PlaceInv /\ FiledInv BY <1>2, <1>4 DEF Init, PlaceInv, FiledInv, InFlight
<1>6. OnceInv BY <1>2, <1>3 DEF Init, OnceInv
<1>7. \A c \in Calls : stages[c] = "none"
  <2>1. Len(asked) = 0 BY DEF Init
  <2> QED BY <1>5, <2>1, StageIs DEF StageInv, Calls
<1>8. Service!Init BY <1>7 DEF Service!Init, stages, Init
<1> QED BY <1>1, <1>5, <1>6, <1>8 DEF IInv

(* Every step keeps the invariant and is a step of the service or none.    *)
LEMMA ServiceStep == IInv /\ [Next]_vars => IInv' /\ [Service!Next]_(Service!vars)
<1> SUFFICES ASSUME IInv, [Next]_vars PROVE Good
  BY BaseStep DEF IInv, Good
<1>1. CASE Caller BY <1>1, QuietGood, IssueGood DEF Caller
<1>2. CASE ClientIO
  BY <1>2, QuietGood, RunPostGood, RunEraseGood, SendRequestGood, ReadAnswerGood DEF ClientIO
<1>3. CASE Server
  BY <1>3, QuietGood, ReadRequestGood, DispatchGood, HandlerReturnsGood, WriteAnswerGood,
     SendAnswerGood
  DEF Server
<1>4. CASE Die BY <1>4, DieGood
<1>5. CASE UNCHANGED vars BY <1>5, QuietGood
<1> QED BY <1>1, <1>2, <1>3, <1>4, <1>5 DEF Next

(* The invariant holds in every reachable state.                           *)
LEMMA ServiceInvariance == SafeSpec => []IInv
BY ServiceInit, ServiceStep, PTL DEF SafeSpec

(* No answer is dropped and no promise set twice (client.cc 78-92).        *)
THEOREM AnswersFindTheirCalls == SafeSpec => []AnswerFindsItsCall
<1>1. IInv => AnswerFindsItsCall
  <2> SUFFICES ASSUME IInv, NEW i \in DOMAIN answers
               PROVE  LET c == ongoing_calls[answers[i].id] IN
                        /\ c = answers[i].call /\ promise[c] = 0
                        /\ \A j \in DOMAIN answers : answers[j].id = answers[i].id => j = i
    BY DEF AnswerFindsItsCall
  <2> DEFINE m == answers[i]
  <2>1. \A j \in DOMAIN answers : answers[j] \in OwnMessages
    BY ElementOfSeq, LenProperties DEF IInv, BaseInv, OwnInv
  <2>2. m.id = m.call /\ m.call \in Calls BY <2>1, OwnFacts
  <2>3. m.call \in place["onItsWay"] BY PlaceIs DEF CallsOf
  <2>4. ongoing_calls[m.call] = m.call BY <2>3 DEF IInv, FiledInv, InFlight, Places
  <2>5. promise[m.call] = 0
    <3>1. m.call \notin place["answered"] BY <2>2, <2>3 DEF IInv, PlaceInv, Places
    <3> QED BY <2>2, <3>1, PlaceIs
  <2>6. \A j \in DOMAIN answers : answers[j].id = m.id => j = i
    BY <2>1, OwnFacts DEF IInv, OnceInv, Once
  <2> QED BY <2>2, <2>4, <2>5, <2>6
<1> QED BY <1>1, ServiceInvariance, PTL

(* Two queues, two strands, a pool of threads and a socket make an         *)
(* at-most-once service (client.inl 3-43, client.cc 62-120,                *)
(* server_session.cc 43-143).                                              *)
THEOREM ChannelImplementsService == SafeSpec => ImplementsService
<1>1. SafeSpec => Service!Init /\ [][Service!Next]_(Service!vars)
  BY ServiceInit, ServiceStep, ServiceInvariance, PTL DEF SafeSpec
<1> QED BY <1>1 DEF ImplementsService, Service!SafeSpec

-----------------------------------------------------------------------------
(* What holds of the service holds of the channel: its own steps are not   *)
(* looked at again.                                                        *)
LossInv == \A c \in Calls : stages[c] = "lost" => srv = "dead"

LEMMA LossStep == LossInv /\ [Service!Next]_(Service!vars) => LossInv'
<1> SUFFICES ASSUME LossInv, [Service!Next]_(Service!vars) PROVE LossInv' OBVIOUS
<1> USE DEF LossInv
<1>1. ASSUME NEW c \in Calls, NEW from, NEW to, Service!Become(c, from, to),
             (srv # "dead") = (srv # "dead")', to = "lost" => srv = "dead"
      PROVE  LossInv'
  <2>1. stages' = [stages EXCEPT ![c] = to] BY <1>1 DEF Service!Become, stages
  <2>2. \A d \in Calls : stages'[d] = IF d = c THEN to ELSE stages[d] BY <2>1 DEF stages
  <2> QED BY <1>1, <2>2
<1>2. ASSUME NEW c \in Calls,
             \/ Service!Call(c) \/ Service!Execute(c) \/ Service!Finish(c)
             \/ Service!Answer(c) \/ Service!Lose(c)
      PROVE  LossInv'
  <2>1. CASE Service!Call(c) BY <1>1, <2>1 DEF Service!Call
  <2>2. CASE Service!Execute(c) BY <1>1, <2>2 DEF Service!Execute
  <2>3. CASE Service!Finish(c) BY <1>1, <2>3 DEF Service!Finish
  <2>4. CASE Service!Answer(c) BY <1>1, <2>4 DEF Service!Answer
  <2>5. CASE Service!Lose(c) BY <1>1, <2>5 DEF Service!Lose
  <2> QED BY <1>2, <2>1, <2>2, <2>3, <2>4, <2>5
<1>3. CASE Service!Crash BY <1>3 DEF Service!Crash
<1>4. CASE UNCHANGED Service!vars BY <1>4 DEF Service!vars, stages
<1> QED BY <1>2, <1>3, <1>4 DEF Service!Next

(* No queue, strand or thread of client and server loses a call: one that  *)
(* is nowhere to be found had a server that died (client.inl 18-43,        *)
(* server_session.cc 43-101, async_writer.h 26-73).                        *)
THEOREM LostWithServerOnly ==
  SafeSpec => [](\A c \in Calls : stage(c) = "lost" => srv = "dead")
<1>1. Service!Init => LossInv
  BY DEF Service!Init, LossInv, stages
<1>2. Service!SafeSpec => []LossInv BY <1>1, LossStep, PTL DEF Service!SafeSpec
<1>3. LossInv => \A c \in Calls : stage(c) = "lost" => srv = "dead" BY DEF LossInv, stages
<1> QED BY <1>2, <1>3, ChannelImplementsService, PTL DEF ImplementsService
=============================================================================
