-------------------------- MODULE RpcChannel_proofs --------------------------
(***************************************************************************)
(* Proofs about RpcChannel, for any number of calls, spurious wake-ups and *)
(* interleavings of the client's and the server's threads.                 *)
(***************************************************************************)
EXTENDS RpcChannelInvariant, SequenceTheorems, FiniteSetTheorems, TLAPS

USE ChannelAssumption

-----------------------------------------------------------------------------
(* Types, own indices, and the two write queues.                           *)

(* What a message or a posted handler with its own index is.               *)
LEMMA OwnFacts ==
  /\ OwnMessages \subseteq Message
  /\ \A m \in OwnMessages : m.call \in Calls /\ m.id = m.call
  /\ \A c \in Calls : [id |-> c, call |-> c] \in OwnMessages
  /\ \A c \in Calls : [type |-> "post", id |-> c, call |-> c] \in OwnPosts
  /\ \A h \in OwnPosts : h.type = "post" /\ h.call \in Calls /\ h.id = h.call
  /\ \A i \in Ids : [type |-> "erase", id |-> i] \in Erases
  /\ \A h \in Erases : h.type = "erase" /\ h.id \in Ids
  /\ Calls \subseteq Ids /\ 0 \notin Calls
BY DEF OwnMessages, OwnPosts, Message, Posts, Erases, Ids, Calls

(* Nothing has been called.                                                *)
LEMMA BaseInit == Init => BaseInv
<1> SUFFICES ASSUME Init PROVE BaseInv OBVIOUS
<1> USE DEF Init
<1>1. <<>> \in Seq(Functions) /\ Len(<<>>) = 0 /\ <<>> \in Seq(OwnMessages)
        /\ <<>> \in Seq(OwnPosts \cup Erases)
  OBVIOUS
<1>2. OwnInv
  <2>1. executing \subseteq OwnMessages /\ IsFiniteSet(executing)
          /\ Cardinality(executing) =< ServerThreads
    BY FS_EmptySet DEF ServerThreads
  <2>2. /\ asked \in Seq(Functions) /\ Len(asked) =< MaxCalls /\ call_idx = Len(asked)
        /\ caller \in {"ready", "await"} \cup Functions /\ caller \notin Functions
    BY DEF Functions
  <2>3. /\ promise \in [Calls -> Calls \cup {0}] /\ \A c \in Calls : promise[c] \in {0, c}
        /\ ongoing_calls \in [Ids -> Calls \cup {0}]
        /\ \A i \in Ids : ongoing_calls[i] \in {0, i}
    OBVIOUS
  <2>4. out_queue \in Seq(OwnMessages) /\ in_queue \in Seq(OwnMessages)
    BY DEF Out!Init, In!Init
  <2>5. /\ strand \in Seq(OwnPosts \cup Erases)
        /\ requests \in Seq(OwnMessages) /\ io_queue \in Seq(OwnMessages)
        /\ write_strand \in Seq(OwnMessages) /\ answers \in Seq(OwnMessages)
    OBVIOUS
  <2>6. /\ conn \in {"initial", "refused", "connected", "deaf", "disconnected"}
        /\ srv \in {"down", "listening", "running", "dead"} /\ session \in BOOLEAN
    OBVIOUS
  <2>7. spurious \in 0 .. MaxSpurious OBVIOUS
  <2> HIDE DEF Init
  <2> QED BY <2>1, <2>2, <2>3, <2>4, <2>5, <2>6, <2>7 DEF OwnInv
<1>3. WriterInv
  BY <1>1 DEF WriterInv, OutInv, InInv, Out!Init, In!Init, Out!TypeOK, In!TypeOK, Out!UnderWay, In!UnderWay,
           Out!Idle, In!Idle, Out!Writes, In!Writes
<1> QED BY <1>2, <1>3 DEF BaseInv, DeadInv

(* A call is posted with the next index, which is its number.              *)
LEMMA IssueBase ==
  ASSUME BaseInv, NEW f \in Functions, Len(asked) < MaxCalls, Issue(f),
         UNCHANGED <<promise, conn, ongoing_calls, outVars, wireVars, serverVars, inVars>>,
         spurious' \in 0 .. MaxSpurious
  PROVE  /\ BaseInv'
         /\ Len(asked') = Len(asked) + 1 /\ Len(asked') \in Calls
         /\ strand' = Append(strand, [type |-> "post", id |-> Len(asked'), call |-> Len(asked')])
<1> USE DEF BaseInv
<1>1. /\ asked' \in Seq(Functions) /\ Len(asked') = Len(asked) + 1
      /\ Len(asked') \in Calls /\ call_idx' = Len(asked')
  BY DEF OwnInv, Issue, NextCallIdx, Calls
<1>2. strand' = Append(strand, [type |-> "post", id |-> Len(asked'), call |-> Len(asked')])
  BY <1>1 DEF Issue
<1>3. strand' \in Seq(OwnPosts \cup Erases)
  BY <1>1, <1>2, OwnFacts, AppendProperties DEF OwnInv
<1>4. caller' \in {"ready", "await"} /\ caller' \notin Functions
  BY DEF Issue, Functions
<1>5. OwnInv'
  BY <1>1, <1>3, <1>4 DEF OwnInv, outVars, wireVars, serverVars, inVars, Calls
<1>6. WriterInv' /\ DeadInv'
  BY DEF WriterInv, OutInv, InInv, DeadInv, outVars, inVars, serverVars, Out!TypeOK, In!TypeOK, Out!UnderWay,
         In!UnderWay
<1> QED BY <1>1, <1>2, <1>5, <1>6

(* An action of the client's write queue keeps at most one write under way.*)
LEMMA OutQueueStep ==
  ASSUME OutInv, out_queue \in Seq(OwnMessages),
         \/ \E m \in OwnMessages : Out!write(m)
         \/ Out!Transfer \/ Out!HandleSent \/ Out!Fail \/ Out!HandleFailed
  PROVE  OutInv' /\ out_queue' \in Seq(OwnMessages)
<1> USE DEF OutInv, Out!TypeOK, Out!UnderWay, Out!Writes
<1>1. OwnMessages \subseteq Message BY OwnFacts
<1>2. ASSUME NEW m \in OwnMessages, Out!write(m)
      PROVE  OutInv' /\ out_queue' \in Seq(OwnMessages)
  <2>1. out_queue' \in Seq(OwnMessages) /\ out_queue' # <<>>
          /\ Len(out_queue') = Len(out_queue) + 1
    BY <1>2, AppendProperties DEF Out!write
  <2>2. out_queue' \in Seq(Message) BY <1>1, <2>1, SeqMonotonic
  <2>3. CASE UNCHANGED out_ops BY <2>1, <2>2, <2>3
  <2>4. CASE Len(out_queue') = 1 /\ Out!do_write
    <3>1. Out!UnderWay = 0 BY <2>1, <2>4
    <3> QED BY <2>1, <2>2, <2>4, <3>1 DEF Out!do_write
  <2> QED BY <1>2, <2>1, <2>3, <2>4 DEF Out!write
<1>3. CASE Out!Transfer \/ Out!Fail \/ Out!HandleFailed
  BY <1>3 DEF Out!Transfer, Out!Fail, Out!HandleFailed
<1>4. CASE Out!HandleSent
  <2>1. out_queue # <<>> /\ out_ops.sent = 1 /\ out_ops.started = 0 /\ out_ops.failed = 0
    BY <1>4 DEF Out!HandleSent
  <2>2. out_queue' \in Seq(OwnMessages) /\ Len(out_queue') = Len(out_queue) - 1
    BY <1>4, <2>1, HeadTailProperties DEF Out!HandleSent
  <2>3. out_queue' \in Seq(Message) BY <1>1, <2>2, SeqMonotonic
  <2>4. Len(out_queue) > 1 => out_queue' # <<>> BY <2>2
  <2> QED BY <1>4, <2>1, <2>2, <2>3, <2>4 DEF Out!HandleSent
<1> QED BY <1>2, <1>3, <1>4

(* The same of the session's.                                              *)
LEMMA InQueueStep ==
  ASSUME InInv, in_queue \in Seq(OwnMessages),
         \/ \E m \in OwnMessages : In!write(m)
         \/ In!Transfer \/ In!HandleSent
  PROVE  InInv' /\ in_queue' \in Seq(OwnMessages)
<1> USE DEF InInv, In!TypeOK, In!UnderWay, In!Writes
<1>1. OwnMessages \subseteq Message BY OwnFacts
<1>2. ASSUME NEW m \in OwnMessages, In!write(m)
      PROVE  InInv' /\ in_queue' \in Seq(OwnMessages)
  <2>1. in_queue' \in Seq(OwnMessages) /\ in_queue' # <<>>
          /\ Len(in_queue') = Len(in_queue) + 1
    BY <1>2, AppendProperties DEF In!write
  <2>2. in_queue' \in Seq(Message) BY <1>1, <2>1, SeqMonotonic
  <2>3. CASE UNCHANGED in_ops BY <2>1, <2>2, <2>3
  <2>4. CASE Len(in_queue') = 1 /\ In!do_write
    <3>1. In!UnderWay = 0 BY <2>1, <2>4
    <3> QED BY <2>1, <2>2, <2>4, <3>1 DEF In!do_write
  <2> QED BY <1>2, <2>1, <2>3, <2>4 DEF In!write
<1>3. CASE In!Transfer
  BY <1>3 DEF In!Transfer
<1>4. CASE In!HandleSent
  <2>1. in_queue # <<>> /\ in_ops.sent = 1 /\ in_ops.started = 0 /\ in_ops.failed = 0
    BY <1>4 DEF In!HandleSent
  <2>2. in_queue' \in Seq(OwnMessages) /\ Len(in_queue') = Len(in_queue) - 1
    BY <1>4, <2>1, HeadTailProperties DEF In!HandleSent
  <2>3. in_queue' \in Seq(Message) BY <1>1, <2>2, SeqMonotonic
  <2>4. Len(in_queue) > 1 => in_queue' # <<>> BY <2>2
  <2> QED BY <1>4, <2>1, <2>2, <2>3, <2>4 DEF In!HandleSent
<1> QED BY <1>2, <1>3, <1>4

-----------------------------------------------------------------------------
(* Every action keeps types, own indices and the write queues.             *)

(* The calling thread.                                                     *)
LEMMA CallerBase == ASSUME BaseInv, Caller PROVE BaseInv'
<1>1. ASSUME NEW f \in Functions, Call(f) PROVE BaseInv'
  BY <1>1, IssueBase DEF Call, BaseInv, OwnInv
<1>2. CASE WakeUp \/ SpuriousWakeUp
  <2>1. caller \in Functions /\ Issue(caller) /\ Len(asked) < MaxCalls
          /\ spurious' \in 0 .. MaxSpurious
    BY <1>2 DEF WakeUp, SpuriousWakeUp, BaseInv, OwnInv
  <2>2. UNCHANGED <<promise, conn, ongoing_calls, outVars, wireVars, serverVars, inVars>>
    BY <1>2 DEF WakeUp, SpuriousWakeUp
  <2> QED BY <2>1, <2>2, IssueBase
<1>3. ASSUME UNCHANGED <<asked, call_idx, promise, ioVars, outVars, wireVars, serverVars,
                         inVars, spurious>>,
             caller' \in {"ready"} \cup Functions, caller' \in Functions => Len(asked) < MaxCalls
      PROVE  BaseInv'
  <2> USE <1>3 DEF ioVars, outVars, wireVars, serverVars, inVars
  <2>1. OwnInv' BY DEF BaseInv, OwnInv
  <2>2. WriterInv' /\ DeadInv'
    BY DEF BaseInv, WriterInv, OutInv, InInv, DeadInv, Out!TypeOK, In!TypeOK, Out!UnderWay,
           In!UnderWay
  <2> QED BY <2>1, <2>2 DEF BaseInv
<1>4. ASSUME NEW f \in Functions, WaitConn(f) PROVE BaseInv'
  BY <1>3, <1>4 DEF WaitConn
<1>5. CASE Get BY <1>3, <1>5 DEF Get, Functions
<1> QED BY <1>1, <1>2, <1>4, <1>5 DEF Caller

(* Its strand: an entry is filed and its request queued; one is erased.    *)
LEMMA StrandBase == ASSUME BaseInv, RunPost \/ RunErase PROVE BaseInv'
<1> USE DEF BaseInv
<1> DEFINE h == Head(strand)
<1>1. strand # <<>> /\ h \in OwnPosts \cup Erases /\ strand' \in Seq(OwnPosts \cup Erases)
  <2>1. strand \in Seq(OwnPosts \cup Erases) BY DEF OwnInv
  <2>2. strand # <<>> /\ strand' = Tail(strand) BY DEF RunPost, RunErase
  <2> QED BY <2>1, <2>2, HeadTailProperties
<1>2. CASE RunPost
  <2>1. h \in OwnPosts /\ h.call \in Calls /\ h.id = h.call
    BY <1>1, <1>2, OwnFacts DEF RunPost
  <2>2. [id |-> h.id, call |-> h.call] \in OwnMessages BY <2>1, OwnFacts
  <2>3. OutInv' /\ out_queue' \in Seq(OwnMessages)
    BY <1>2, <2>2, OutQueueStep DEF RunPost, OwnInv, WriterInv
  <2>4. /\ ongoing_calls' \in [Ids -> Calls \cup {0}]
        /\ \A i \in Ids : ongoing_calls'[i] \in {0, i}
    BY <1>2, <2>1, OwnFacts DEF RunPost, OwnInv
  <2>5. UNCHANGED <<callerVars, promise, conn, wireVars, serverVars, inVars, spurious>>
    BY <1>2 DEF RunPost
  <2>6. OwnInv'
    BY <1>1, <2>3, <2>4, <2>5 DEF OwnInv, callerVars, wireVars, serverVars, inVars
  <2>7. InInv' /\ DeadInv'
    BY <2>5 DEF WriterInv, InInv, DeadInv, In!TypeOK, In!UnderWay, inVars, serverVars
  <2> QED BY <2>3, <2>6, <2>7 DEF WriterInv
<1>3. CASE RunErase
  <2>1. /\ ongoing_calls' \in [Ids -> Calls \cup {0}]
        /\ \A i \in Ids : ongoing_calls'[i] \in {0, i}
    BY <1>3, OwnFacts DEF RunErase, OwnInv
  <2>2. UNCHANGED <<callerVars, promise, conn, outVars, wireVars, serverVars, inVars, spurious>>
    BY <1>3 DEF RunErase
  <2>3. OwnInv'
    BY <1>1, <2>1, <2>2 DEF OwnInv, callerVars, outVars, wireVars, serverVars, inVars
  <2>4. WriterInv' /\ DeadInv'
    BY <2>2 DEF WriterInv, OutInv, InInv, DeadInv, Out!TypeOK, In!TypeOK, Out!UnderWay,
                In!UnderWay, outVars, inVars, serverVars
  <2> QED BY <2>3, <2>4
<1> QED BY <1>2, <1>3

(* Its socket and its write queue.                                         *)
LEMMA WriterBase ==
  ASSUME BaseInv, SendRequest \/ RequestFails \/ RequestSent \/ RequestNotSent
  PROVE  BaseInv'
<1> USE DEF BaseInv
<1>1. OutInv' /\ out_queue' \in Seq(OwnMessages)
  BY OutQueueStep
  DEF OwnInv, WriterInv, SendRequest, RequestFails, RequestSent, RequestNotSent
<1>2. UNCHANGED <<callerVars, promise, ioVars, answers, serverVars, inVars, spurious>>
  BY DEF SendRequest, RequestFails, RequestSent, RequestNotSent, wireVars
<1>3. requests' \in Seq(OwnMessages)
  <2>1. CASE SendRequest
    <3>1. out_queue # <<>>
      BY <2>1 DEF SendRequest, Out!Transfer, WriterInv, OutInv, Out!UnderWay, Out!TypeOK
    <3>2. Head(out_queue) \in OwnMessages BY <3>1, HeadTailProperties DEF OwnInv
    <3> QED BY <2>1, <3>2, AppendProperties DEF SendRequest, OwnInv
  <2>2. CASE ~SendRequest
    BY <2>2 DEF RequestFails, RequestSent, RequestNotSent, wireVars, OwnInv
  <2> QED BY <2>1, <2>2
<1>4. OwnInv' BY <1>1, <1>2, <1>3 DEF OwnInv, callerVars, ioVars, serverVars, inVars
<1>5. InInv' /\ DeadInv'
  BY <1>2 DEF WriterInv, InInv, DeadInv, In!TypeOK, In!UnderWay, inVars, serverVars
<1> QED BY <1>1, <1>4, <1>5 DEF WriterInv

(* Connections and answers.                                                *)
LEMMA ReaderBase ==
  ASSUME BaseInv, ConnectOk \/ ConnectRefused \/ ReadAnswer \/ NoticeEof \/ ReadFails
  PROVE  BaseInv'
<1> USE DEF BaseInv
<1>1. UNCHANGED <<callerVars, ongoing_calls, outVars, requests, serverVars, inVars, spurious>>
  BY DEF ConnectOk, ConnectRefused, ReadAnswer, NoticeEof, ReadFails, wireVars
<1>2. conn' \in {"initial", "refused", "connected", "deaf", "disconnected"}
  BY DEF ConnectOk, ConnectRefused, ReadAnswer, NoticeEof, ReadFails, OwnInv
<1>3. /\ promise' \in [Calls -> Calls \cup {0}] /\ \A c \in Calls : promise'[c] \in {0, c}
      /\ strand' \in Seq(OwnPosts \cup Erases) /\ answers' \in Seq(OwnMessages)
  <2>1. CASE ReadAnswer
    <3> DEFINE r == Head(answers)
               c == ongoing_calls[r.id]
    <3>1. r \in OwnMessages /\ answers' \in Seq(OwnMessages)
      BY <2>1, HeadTailProperties DEF ReadAnswer, OwnInv
    <3>2. r.call \in Calls /\ r.id = r.call /\ r.id \in Ids BY <3>1, OwnFacts
    <3>3. c \in {0, r.call} BY <3>2 DEF OwnInv
    <3>4. strand' \in Seq(OwnPosts \cup Erases)
      BY <2>1, <3>2, OwnFacts, AppendProperties DEF ReadAnswer, OwnInv
    <3>5. promise' = promise \/ promise' = [promise EXCEPT ![r.call] = r.call]
      BY <2>1, <3>3 DEF ReadAnswer
    <3> QED BY <3>1, <3>2, <3>4, <3>5 DEF OwnInv
  <2>2. CASE ~ReadAnswer
    BY <2>2 DEF ConnectOk, ConnectRefused, NoticeEof, ReadFails, wireVars, OwnInv
  <2> QED BY <2>1, <2>2
<1>4. OwnInv' BY <1>1, <1>2, <1>3 DEF OwnInv, callerVars, outVars, serverVars, inVars
<1>5. WriterInv' /\ DeadInv'
  BY <1>1 DEF WriterInv, OutInv, InInv, DeadInv, Out!TypeOK, In!TypeOK, Out!UnderWay,
              In!UnderWay, outVars, inVars, serverVars
<1> QED BY <1>4, <1>5

(* The server's threads and its queues.                                    *)
LEMMA ServerBase == ASSUME BaseInv, Server PROVE BaseInv'
<1> USE DEF BaseInv
<1>1. ASSUME UNCHANGED <<clientVars, spurious>>, InInv',
             \A q \in {requests', answers', io_queue', write_strand', in_queue'} :
               q \in Seq(OwnMessages),
             executing' \subseteq OwnMessages, IsFiniteSet(executing'),
             Cardinality(executing') =< ServerThreads,
             srv' \in {"down", "listening", "running", "dead"}, session' \in BOOLEAN,
             srv' = "dead" => executing' = {}
      PROVE  BaseInv'
  <2>1. OwnInv' BY <1>1 DEF OwnInv, clientVars, callerVars, ioVars, outVars
  <2>2. OutInv'
    BY <1>1 DEF WriterInv, OutInv, Out!TypeOK, Out!UnderWay, clientVars, outVars
  <2> QED BY <1>1, <2>1, <2>2 DEF WriterInv, DeadInv
<1>2. ASSUME UNCHANGED inVars PROVE InInv'
  BY <1>2 DEF WriterInv, InInv, In!TypeOK, In!UnderWay, inVars
<1>3. CASE Listen \/ AsyncRun \/ Accept
  <2>1. UNCHANGED <<clientVars, wireVars, io_queue, executing, write_strand, inVars, spurious>>
          /\ srv' \in {"listening", "running"} /\ session' \in BOOLEAN
    BY <1>3 DEF Listen, AsyncRun, Accept, FreeThread, OwnInv
  <2> QED BY <1>1, <1>2, <2>1 DEF OwnInv, wireVars, inVars
<1>4. CASE ReadRequest
  <2>1. Head(requests) \in OwnMessages /\ requests' \in Seq(OwnMessages)
    BY <1>4, HeadTailProperties DEF ReadRequest, OwnInv
  <2>2. io_queue' \in Seq(OwnMessages)
    BY <1>4, <2>1, AppendProperties DEF ReadRequest, OwnInv
  <2>3. UNCHANGED <<clientVars, answers, srv, session, executing, write_strand, inVars, spurious>>
    BY <1>4 DEF ReadRequest
  <2> QED BY <1>1, <1>2, <2>1, <2>2, <2>3 DEF OwnInv, inVars, DeadInv
<1>5. CASE Dispatch
  <2>1. Head(io_queue) \in OwnMessages /\ io_queue' \in Seq(OwnMessages)
    BY <1>5, HeadTailProperties DEF Dispatch, OwnInv
  <2>2. executing' \subseteq OwnMessages BY <1>5, <2>1 DEF Dispatch, OwnInv
  <2>3. IsFiniteSet(executing') /\ Cardinality(executing') =< ServerThreads
    <3>1. /\ IsFiniteSet(executing) /\ Cardinality(executing) \in Nat
          /\ Cardinality(executing) < ServerThreads
      BY <1>5, FS_CardinalityType DEF Dispatch, FreeThread, OwnInv
    <3>2. PICK m : executing' = executing \cup {m} BY <1>5 DEF Dispatch
    <3>3. /\ IsFiniteSet(executing \cup {m})
          /\ Cardinality(executing \cup {m})
               = IF m \in executing THEN Cardinality(executing) ELSE Cardinality(executing) + 1
      BY <3>1, FS_AddElement
    <3> QED BY <3>1, <3>2, <3>3 DEF ServerThreads
  <2>4. srv = "running" /\ UNCHANGED <<clientVars, wireVars, srv, session, write_strand,
                                      inVars, spurious>>
    BY <1>5 DEF Dispatch, FreeThread
  <2> QED BY <1>1, <1>2, <2>1, <2>2, <2>3, <2>4 DEF OwnInv, inVars, wireVars
<1>6. ASSUME NEW m \in executing, HandlerReturns(m) PROVE BaseInv'
  <2>1. executing' \subseteq OwnMessages /\ executing' \subseteq executing
    BY <1>6 DEF HandlerReturns, OwnInv
  <2>2. IsFiniteSet(executing') /\ Cardinality(executing') =< ServerThreads
    <3>1. IsFiniteSet(executing) /\ Cardinality(executing) \in Nat
      BY FS_CardinalityType DEF OwnInv
    <3>2. IsFiniteSet(executing') /\ Cardinality(executing') =< Cardinality(executing)
      BY <2>1, <3>1, FS_Subset
    <3>3. Cardinality(executing') \in Nat BY <3>2, FS_CardinalityType
    <3> QED BY <3>1, <3>2, <3>3 DEF OwnInv, ServerThreads
  <2>3. write_strand' \in Seq(OwnMessages)
    BY <1>6, AppendProperties DEF HandlerReturns, OwnInv
  <2>4. UNCHANGED <<clientVars, wireVars, srv, session, io_queue, inVars, spurious>>
    BY <1>6 DEF HandlerReturns
  <2> QED BY <1>1, <1>2, <2>1, <2>2, <2>3, <2>4 DEF OwnInv, inVars, wireVars, DeadInv
<1>7. CASE WriteAnswer
  <2>1. Head(write_strand) \in OwnMessages /\ write_strand' \in Seq(OwnMessages)
    BY <1>7, HeadTailProperties DEF WriteAnswer, OwnInv
  <2>2. InInv' /\ in_queue' \in Seq(OwnMessages)
    BY <1>7, <2>1, InQueueStep DEF WriteAnswer, OwnInv, WriterInv
  <2>3. UNCHANGED <<clientVars, wireVars, srv, session, io_queue, executing, spurious>>
    BY <1>7 DEF WriteAnswer
  <2> QED BY <1>1, <2>1, <2>2, <2>3 DEF OwnInv, wireVars, DeadInv
<1>8. CASE SendAnswer \/ AnswerSent
  <2>1. InInv' /\ in_queue' \in Seq(OwnMessages)
    BY <1>8, InQueueStep DEF SendAnswer, AnswerSent, OwnInv, WriterInv
  <2>2. answers' \in Seq(OwnMessages)
    <3>1. CASE SendAnswer
      <4>1. in_queue # <<>>
        BY <3>1 DEF SendAnswer, In!Transfer, WriterInv, InInv, In!UnderWay, In!TypeOK
      <4>2. Head(in_queue) \in OwnMessages BY <4>1, HeadTailProperties DEF OwnInv
      <4> QED BY <3>1, <4>2, AppendProperties DEF SendAnswer, OwnInv
    <3>2. CASE AnswerSent BY <3>2 DEF AnswerSent, wireVars, OwnInv
    <3> QED BY <1>8, <3>1, <3>2
  <2>3. UNCHANGED <<clientVars, requests, serverVars, spurious>>
    BY <1>8 DEF SendAnswer, AnswerSent, wireVars
  <2> QED BY <1>1, <2>1, <2>2, <2>3 DEF OwnInv, serverVars, DeadInv
<1> QED BY <1>3, <1>4, <1>5, <1>6, <1>7, <1>8 DEF Server

(* The death of the server.                                                *)
LEMMA DieBase == ASSUME BaseInv, Die PROVE BaseInv'
<1> USE DEF BaseInv, Die
<1>1. <<>> \in Seq(OwnMessages) /\ <<>> \in Seq(Message) OBVIOUS
<1>2. IsFiniteSet({}) /\ Cardinality({}) =< ServerThreads
  BY FS_EmptySet DEF ServerThreads
<1>3. OwnInv' BY <1>1, <1>2 DEF OwnInv, clientVars, callerVars, ioVars, outVars
<1>4. OutInv' BY DEF WriterInv, OutInv, Out!TypeOK, Out!UnderWay, clientVars, outVars
<1>5. InInv' BY <1>1 DEF InInv, In!TypeOK, In!UnderWay, In!Idle, In!Writes
<1> QED BY <1>3, <1>4, <1>5 DEF WriterInv, DeadInv

(* Every step keeps all that.                                              *)
LEMMA BaseStep == BaseInv /\ [Next]_vars => BaseInv'
<1> SUFFICES ASSUME BaseInv, [Next]_vars PROVE BaseInv' OBVIOUS
<1>1. CASE ClientIO BY <1>1, StrandBase, WriterBase, ReaderBase DEF ClientIO
<1>2. CASE UNCHANGED vars
  <2> USE <1>2 DEF vars, callerVars, ioVars, outVars, wireVars, serverVars, inVars
  <2>1. OwnInv'  BY DEF BaseInv, OwnInv
  <2>2. OutInv'  BY DEF BaseInv, WriterInv, OutInv, Out!TypeOK, Out!UnderWay
  <2>3. InInv'   BY DEF BaseInv, WriterInv, InInv, In!TypeOK, In!UnderWay
  <2>4. DeadInv' BY DEF BaseInv, DeadInv
  <2> QED BY <2>1, <2>2, <2>3, <2>4 DEF BaseInv, WriterInv
<1> QED BY <1>1, <1>2, CallerBase, ServerBase, DieBase DEF Next

(* It holds in every reachable state.                                      *)
LEMMA BaseInvariance == SafeSpec => []BaseInv
BY BaseInit, BaseStep, PTL DEF SafeSpec

(* Every variable keeps its type; among them no more handlers run than the *)
(* server has threads.                                                     *)
THEOREM ChannelTypeCorrect == SafeSpec => []TypeOK
<1>1. BaseInv => TypeOK
  <2> SUFFICES ASSUME BaseInv PROVE TypeOK OBVIOUS
  <2>1. OwnMessages \subseteq Message /\ OwnPosts \cup Erases \subseteq Posts \cup Erases
    BY DEF OwnMessages, OwnPosts
  <2>2. /\ strand \in Seq(Posts \cup Erases)
        /\ requests \in Seq(Message) /\ answers \in Seq(Message)
        /\ io_queue \in Seq(Message) /\ write_strand \in Seq(Message)
    BY <2>1, SeqMonotonic DEF BaseInv, OwnInv
  <2>3. call_idx \in Ids BY DEF BaseInv, OwnInv, Ids
  <2> QED
    BY <2>1, <2>2, <2>3 DEF TypeOK, BaseInv, OwnInv, WriterInv, OutInv, InInv
<1> QED BY <1>1, BaseInvariance, PTL

(* One async_write per socket at a time, for every interleaving of         *)
(* requests, answers and completions (async_writer.h 34-73).               *)
THEOREM WritesDoNotMix == SafeSpec => []OneWriteAtATime
<1>1. BaseInv => OneWriteAtATime
  BY DEF BaseInv, WriterInv, OutInv, InInv, OneWriteAtATime
<1> QED BY <1>1, BaseInvariance, PTL

(* A call is never given the answer of another (client.cc 75-86, 194-207). *)
THEOREM AnswersAreOwn == SafeSpec => []AnswerIsOwn
<1>1. BaseInv => AnswerIsOwn BY DEF BaseInv, OwnInv, AnswerIsOwn
<1> QED BY <1>1, BaseInvariance, PTL
=============================================================================
