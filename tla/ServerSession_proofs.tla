------------------------ MODULE ServerSession_proofs ------------------------
(***************************************************************************)
(* With one thread in the server no handler outlives its session, and with *)
(* any number of threads none is forgotten but for a read error.           *)
(***************************************************************************)
EXTENDS ServerSession, SequenceTheorems, TLAPS

USE SessionAssumption

(***************************************************************************)
(* What the actions do to a queue: the first element is taken, one is      *)
(* added at the end.                                                       *)
(***************************************************************************)
LEMMA Taken ==
  ASSUME NEW S, NEW q \in Seq(S), q # <<>>
  PROVE  /\ Tail(q) \in Seq(S)
         /\ Len(Tail(q)) = Len(q) - 1
         /\ Len(q) \in Nat \ {0}
         /\ 1 \in DOMAIN q /\ q[1] = Head(q)
         /\ \A i \in DOMAIN Tail(q) : i + 1 \in DOMAIN q /\ Tail(q)[i] = q[i + 1]
  BY HeadTailProperties

LEMMA Added ==
  ASSUME NEW S, NEW q \in Seq(S), NEW e \in S
  PROVE  /\ Append(q, e) \in Seq(S)
         /\ Len(Append(q, e)) = Len(q) + 1
         /\ Append(q, e) # <<>>
         /\ \A i \in DOMAIN Append(q, e) :
              \/ i \in DOMAIN q /\ Append(q, e)[i] = q[i]
              \/ i = Len(q) + 1 /\ Append(q, e)[i] = e
  BY AppendProperties

(***************************************************************************)
(* If the first element is one that can only be the last, nothing is left. *)
(***************************************************************************)
LEMMA TakenLast ==
  ASSUME NEW S, NEW q \in Seq(S), q # <<>>, Len(q) = 1
  PROVE  Tail(q) = <<>>
  <1>1. Tail(q) \in Seq(S) /\ Len(Tail(q)) = 0
    BY Taken
  <1> QED
    BY <1>1, EmptySeq

LEMMA WriterStep ==
  ASSUME TypeInv,
         \/ Writer!write("answer")
         \/ Writer!Transfer
         \/ Writer!Fail
         \/ Writer!HandleSent
         \/ Writer!HandleFailed
  PROVE  /\ Writer!TypeOK'
         /\ Writer!UnderWay' <= 1
         /\ Writer!UnderWay' > 0 => (write_queue # <<>>)'
<1>0. /\ write_queue \in Seq({"answer"})
      /\ ops \in [started : Nat, sent : Nat, failed : Nat]
      /\ ops.started + ops.sent + ops.failed <= 1
      /\ ops.started + ops.sent + ops.failed > 0 => write_queue # <<>>
  BY DEF TypeInv, TypeOK, Writer!TypeOK, Writer!UnderWay
<1>1. CASE Writer!write("answer")
  <2>1. write_queue' = Append(write_queue, "answer")
    BY <1>1 DEF Writer!write
  <2>2. write_queue' \in Seq({"answer"}) /\ write_queue' # <<>>
        /\ Len(write_queue') = Len(write_queue) + 1
    BY <1>0, <2>1, Added
  <2>3. CASE Len(write_queue') > 1
    BY <1>0, <1>1, <2>2, <2>3 DEF Writer!write, Writer!TypeOK, Writer!UnderWay
  <2>4. CASE ~(Len(write_queue') > 1)
    <3>1. Len(write_queue) = 0
      BY <1>0, <2>2, <2>4, LenProperties
    <3>2. ops.started = 0 /\ ops.sent = 0 /\ ops.failed = 0
      BY <1>0, <3>1, EmptySeq
    <3>3. ops' = ops \/ ops' = Writer!Writes(1, 0, 0)
      BY <1>1, <2>4, <3>2 DEF Writer!write, Writer!do_write
    <3> QED
      BY <1>0, <2>2, <3>3 DEF Writer!Writes, Writer!TypeOK, Writer!UnderWay
  <2> QED
    BY <2>3, <2>4
<1>2. CASE Writer!Transfer
  BY <1>0, <1>2 DEF Writer!Transfer, Writer!Writes, Writer!TypeOK, Writer!UnderWay
<1>3. CASE Writer!Fail
  BY <1>0, <1>3 DEF Writer!Fail, Writer!Writes, Writer!TypeOK, Writer!UnderWay
<1>4. CASE Writer!HandleSent
  <2>1. write_queue # <<>> /\ ops.started = 0 /\ ops.sent = 1 /\ ops.failed = 0
    BY <1>0, <1>4 DEF Writer!HandleSent
  <2>2. write_queue' = Tail(write_queue)
    BY <1>4 DEF Writer!HandleSent
  <2>3. /\ write_queue' \in Seq({"answer"})
        /\ Len(write_queue') = Len(write_queue) - 1
        /\ Len(write_queue) \in Nat
    BY <1>0, <2>1, <2>2, Taken
  <2>4. ops' = Writer!Writes(0, 0, 0) \/ (Len(write_queue) > 1 /\ ops' = Writer!Writes(1, 0, 0))
    BY <1>4, <2>1 DEF Writer!HandleSent
  <2>5. Len(write_queue) > 1 => write_queue' # <<>>
    BY <2>3, EmptySeq
  <2> QED
    BY <2>3, <2>4, <2>5 DEF Writer!Writes, Writer!TypeOK, Writer!UnderWay
<1>5. CASE Writer!HandleFailed
  BY <1>0, <1>5 DEF Writer!HandleFailed, Writer!Writes, Writer!TypeOK, Writer!UnderWay
<1> QED
  BY <1>1, <1>2, <1>3, <1>4, <1>5

(***************************************************************************)
(* The types, for any number of threads.                                   *)
(***************************************************************************)
LEMMA TypesHold == SafeSpec => []TypeInv
<1>1. Init => TypeInv
  <2> SUFFICES ASSUME Init PROVE TypeInv
    OBVIOUS
  <2>1. write_queue = <<>> /\ ops = [started |-> 0, sent |-> 0, failed |-> 0]
    BY DEF Init, Writer!Init, Writer!Idle, Writer!Writes
  <2>2. Writer!TypeOK /\ Writer!UnderWay = 0
    BY <2>1, EmptySeq DEF Writer!TypeOK, Writer!UnderWay
  <2>3. io_queue \in Seq({"call", "eof", "error"}) /\ write_strand \in Seq({"write", "close"})
    BY EmptySeq DEF Init
  <2>4. TypeOK
    <3>1. asked \in 0 .. MaxCalls /\ requests \in 0 .. MaxCalls /\ executing \in 0 .. Threads
      BY DEF Init
    <3>2. reading \in BOOLEAN /\ exit_ \in BOOLEAN /\ listed \in BOOLEAN
      BY DEF Init
    <3> QED
      BY <2>2, <2>3, <3>1, <3>2 DEF Init, TypeOK
  <2>5. Writer!UnderWay <= 1 /\ ~(Writer!UnderWay > 0) /\ requests <= asked
    BY <2>2 DEF Init
  <2> QED
    BY <2>4, <2>5 DEF TypeInv
<1>2. TypeInv /\ [Next]_vars => TypeInv'
  <2> SUFFICES ASSUME TypeInv, [Next]_vars PROVE TypeInv'
    OBVIOUS
  <2> USE DEF TypeInv
  <2>w. ASSUME UNCHANGED writerVars
        PROVE  /\ Writer!TypeOK'
               /\ Writer!UnderWay' <= 1
               /\ Writer!UnderWay' > 0 => (write_queue # <<>>)'
    BY <2>w DEF writerVars, TypeOK, Writer!TypeOK, Writer!UnderWay
  <2>1. CASE Ask
    BY <2>1, <2>w DEF Ask, TypeOK, sessionVars
  <2>2. CASE ClientLeaves
    BY <2>2, <2>w DEF ClientLeaves, TypeOK, sessionVars
  <2>3. CASE ReadRequest
    <3>1. io_queue' \in Seq({"call", "eof", "error"})
      BY <2>3, Added DEF ReadRequest, TypeOK
    <3> QED
      BY <2>3, <2>w, <3>1 DEF ReadRequest, TypeOK, sessionVars, clientVars
  <2>4. CASE ReadEnds
    <3>1. io_queue' \in Seq({"call", "eof", "error"})
      BY <2>4, Added DEF ReadEnds, TypeOK
    <3> QED
      BY <2>4, <2>w, <3>1 DEF ReadEnds, TypeOK, sessionVars, clientVars
  <2>5. CASE Dispatch
    <3>1. io_queue' \in Seq({"call", "eof", "error"})
      BY <2>5, Taken DEF Dispatch, TypeOK
    <3> QED
      BY <2>5, <2>w, <3>1 DEF Dispatch, FreeThread, TypeOK, clientVars
  <2>6. CASE HandlerReturns
    <3>1. write_strand' \in Seq({"write", "close"})
      BY <2>6, Added DEF HandlerReturns, TypeOK
    <3> QED
      BY <2>6, <2>w, <3>1 DEF HandlerReturns, TypeOK, clientVars, readerVars
  <2>7. CASE Close
    <3>1. io_queue' \in Seq({"call", "eof", "error"}) /\ write_strand' \in Seq({"write", "close"})
      BY <2>7, Taken, Added DEF Close, TypeOK
    <3> QED
      BY <2>7, <2>w, <3>1 DEF Close, TypeOK, clientVars
  <2>8. CASE RunWrite
    <3>1. write_strand' \in Seq({"write", "close"})
      BY <2>8, Taken DEF RunWrite, TypeOK
    <3> QED
      BY <2>8, <3>1, WriterStep DEF RunWrite, TypeOK, clientVars, readerVars
  <2>9. CASE RunClose
    <3>1. write_strand' \in Seq({"write", "close"})
      BY <2>9, Taken DEF RunClose, TypeOK
    <3> QED
      BY <2>9, <2>w, <3>1 DEF RunClose, TypeOK, clientVars, readerVars
  <2>10. CASE AnswerGoesOut
    BY <2>10, WriterStep DEF AnswerGoesOut, TypeOK, clientVars, readerVars, sessionVars
  <2>11. CASE AnswerWritten
    BY <2>11, WriterStep DEF AnswerWritten, TypeOK, clientVars, readerVars, sessionVars
  <2>12. CASE ConnectionBreaks
    BY <2>12, <2>w DEF ConnectionBreaks, TypeOK, sessionVars
  <2>13. CASE ReadError
    <3>1. io_queue' \in Seq({"call", "eof", "error"})
      BY <2>13, Taken DEF ReadError, TypeOK
    <3> QED
      BY <2>13, <2>w, <3>1 DEF ReadError, TypeOK, sessionVars, clientVars
  <2>14. CASE UNCHANGED vars
    BY <2>14, <2>w DEF vars, TypeOK, clientVars, readerVars, sessionVars
  <2> QED
    BY <2>1, <2>2, <2>3, <2>4, <2>5, <2>6, <2>7, <2>8, <2>9, <2>10, <2>11, <2>12,
       <2>13, <2>14 DEF Next
<1> QED
  BY <1>1, <1>2, PTL DEF SafeSpec

(***************************************************************************)
(* The types of a session's queues and counters, whatever the number of    *)
(* threads of async_run().                                                 *)
(***************************************************************************)
THEOREM SessionTypeCorrect == SafeSpec => []TypeOK
<1>1. TypeInv => TypeOK
  BY DEF TypeInv
<1> QED
  BY <1>1, TypesHold, PTL

(***************************************************************************)
(* One thread runs what it is given in the order it was given.             *)
(***************************************************************************)
LEMMA QueueStep ==
  ASSUME TypeInv, OneThreadInv, Threads = 1,
         \/ ReadRequest \/ ReadEnds \/ Dispatch \/ ReadError \/ HandlerReturns
  PROVE  OneThreadInv'
<1>0. /\ io_queue \in Seq({"call", "eof", "error"})
      /\ write_strand \in Seq({"write", "close"})
      /\ executing \in Nat
  BY DEF TypeInv, TypeOK
<1>1. CASE ReadRequest
  <2>1. EofIsLast'
    <3>1. reading /\ io_queue' = Append(io_queue, "call") /\ UNCHANGED <<reading, exit_>>
      BY <1>1 DEF ReadRequest, sessionVars
    <3>2. \A i \in DOMAIN io_queue : io_queue[i] # "eof"
      BY <3>1 DEF OneThreadInv, EofIsLast
    <3>3. \A i \in DOMAIN io_queue' : io_queue'[i] # "eof"
      BY <1>0, <3>1, <3>2, Added
    <3> QED
      BY <3>3 DEF EofIsLast
  <2>2. ~exit_
    BY <1>1 DEF ReadRequest, OneThreadInv, ClosedIsQuiet
  <2> QED
    BY <1>1, <2>1, <2>2 DEF ReadRequest, sessionVars, OneThreadInv, CloseIsLast, OpenIsListed,
         ClosedIsQuiet, UnlistedIsDone
<1>2. CASE ReadEnds
  <2>0. ~exit_
    BY <1>2 DEF ReadEnds, OneThreadInv, ClosedIsQuiet
  <2>1. EofIsLast'
    <3>1. /\ reading /\ ~reading' /\ UNCHANGED exit_
          /\ \E e \in {"eof", "error"} : io_queue' = Append(io_queue, e)
      BY <1>2 DEF ReadEnds, sessionVars
    <3>2. \A i \in DOMAIN io_queue : io_queue[i] # "eof"
      BY <3>1 DEF OneThreadInv, EofIsLast
    <3>3. Len(io_queue') = Len(io_queue) + 1
          /\ \A i \in DOMAIN io_queue' : io_queue'[i] = "eof" => i = Len(io_queue) + 1
      BY <1>0, <3>1, <3>2, Added
    <3> QED
      BY <2>0, <3>1, <3>3 DEF EofIsLast
  <2> QED
    BY <1>2, <2>0, <2>1 DEF ReadEnds, sessionVars, OneThreadInv, CloseIsLast, OpenIsListed,
         ClosedIsQuiet, UnlistedIsDone
<1>3. CASE Dispatch \/ ReadError
  <2>0. io_queue # <<>> /\ io_queue' = Tail(io_queue) /\ UNCHANGED <<reading, exit_>>
    BY <1>3 DEF Dispatch, ReadError, sessionVars
  <2>1. ~exit_
    BY <2>0 DEF OneThreadInv, ClosedIsQuiet
  <2>2. EofIsLast'
    <3>1. ASSUME NEW i \in DOMAIN io_queue', io_queue'[i] = "eof"
          PROVE  i = Len(io_queue') /\ ~reading /\ ~exit_
      <4>1. i + 1 \in DOMAIN io_queue /\ io_queue[i + 1] = "eof"
        BY <1>0, <2>0, <3>1, Taken
      <4>2. i + 1 = Len(io_queue) /\ ~reading /\ ~exit_
        BY <4>1 DEF OneThreadInv, EofIsLast
      <4>3. Len(io_queue') = Len(io_queue) - 1 /\ io_queue' \in Seq({"call", "eof", "error"})
        BY <1>0, <2>0, Taken
      <4>4. i \in Nat
        BY <4>3, LenProperties
      <4> QED
        BY <4>2, <4>3, <4>4
    <3> QED
      BY <2>0, <3>1 DEF EofIsLast
  <2>3. UNCHANGED <<listed, write_strand>>
    BY <1>3 DEF Dispatch, ReadError, sessionVars
  <2> QED
    BY <2>0, <2>1, <2>2, <2>3 DEF OneThreadInv, CloseIsLast,
         OpenIsListed, ClosedIsQuiet, UnlistedIsDone
<1>4. CASE HandlerReturns
  <2>0. write_strand' = Append(write_strand, "write") /\ UNCHANGED <<exit_, listed, readerVars>>
    BY <1>4 DEF HandlerReturns
  <2>1. ~exit_
    BY <1>4 DEF HandlerReturns, OneThreadInv, ClosedIsQuiet
  <2>2. CloseIsLast'
    <3>1. \A i \in DOMAIN write_strand : write_strand[i] # "close"
      BY <2>1 DEF OneThreadInv, CloseIsLast
    <3>2. \A i \in DOMAIN write_strand' : write_strand'[i] # "close"
      BY <1>0, <2>0, <3>1, Added
    <3> QED
      BY <3>2 DEF CloseIsLast
  <2> QED
    BY <2>0, <2>1, <2>2 DEF readerVars, OneThreadInv, EofIsLast, OpenIsListed, ClosedIsQuiet,
         UnlistedIsDone
<1> QED
  BY <1>1, <1>2, <1>3, <1>4

(***************************************************************************)
(* close() comes when every call has been run, what it posts when every    *)
(* write has.                                                              *)
(***************************************************************************)
LEMMA CloseStep ==
  ASSUME TypeInv, OneThreadInv, Threads = 1,
         \/ Close \/ RunWrite \/ RunClose
  PROVE  OneThreadInv'
<1>0. /\ io_queue \in Seq({"call", "eof", "error"})
      /\ write_strand \in Seq({"write", "close"})
      /\ executing \in Nat
  BY DEF TypeInv, TypeOK
<1>1. CASE Close
  <2>0. /\ io_queue # <<>> /\ Head(io_queue) = "eof" /\ io_queue' = Tail(io_queue)
        /\ executing = 0 /\ exit_' /\ write_strand' = Append(write_strand, "close")
        /\ UNCHANGED <<reading, listed, executing>>
    BY <1>0, <1>1 DEF Close, FreeThread
  <2>1. 1 = Len(io_queue) /\ ~reading /\ ~exit_
    BY <1>0, <2>0, Taken DEF OneThreadInv, EofIsLast
  <2>2. io_queue' = <<>>
    BY <1>0, <2>0, <2>1, TakenLast
  <2>3. listed
    BY <2>1 DEF OneThreadInv, OpenIsListed
  <2>4. CloseIsLast'
    <3>1. \A i \in DOMAIN write_strand : write_strand[i] # "close"
      BY <2>1 DEF OneThreadInv, CloseIsLast
    <3>2. Len(write_strand') = Len(write_strand) + 1
          /\ \A i \in DOMAIN write_strand' : write_strand'[i] = "close" => i = Len(write_strand) + 1
      BY <1>0, <2>0, <3>1, Added
    <3> QED
      BY <2>0, <3>2 DEF CloseIsLast
  <2>5. EofIsLast'
    BY <2>2 DEF EofIsLast
  <2> QED
    BY <2>0, <2>1, <2>2, <2>3, <2>4, <2>5 DEF OneThreadInv, OpenIsListed, ClosedIsQuiet,
         UnlistedIsDone
<1>2. ASSUME write_strand # <<>>, write_strand' = Tail(write_strand), UNCHANGED exit_
      PROVE  CloseIsLast'
  <2>1. ASSUME NEW i \in DOMAIN write_strand', write_strand'[i] = "close"
        PROVE  i = Len(write_strand') /\ exit_
    <3>1. i + 1 \in DOMAIN write_strand /\ write_strand[i + 1] = "close"
      BY <1>0, <1>2, <2>1, Taken
    <3>2. i + 1 = Len(write_strand) /\ exit_
      BY <3>1 DEF OneThreadInv, CloseIsLast
    <3>3. Len(write_strand') = Len(write_strand) - 1 /\ write_strand' \in Seq({"write", "close"})
      BY <1>0, <1>2, Taken
    <3>4. i \in Nat
      BY <3>3, LenProperties
    <3> QED
      BY <3>2, <3>3, <3>4
  <2> QED
    BY <1>2, <2>1 DEF CloseIsLast
<1>3. CASE RunWrite
  <2>1. listed /\ UNCHANGED listed
    BY <1>3 DEF RunWrite, OneThreadInv, UnlistedIsDone
  <2> QED
    BY <1>2, <1>3, <2>1 DEF RunWrite, readerVars, OneThreadInv, EofIsLast, OpenIsListed,
         ClosedIsQuiet, UnlistedIsDone
<1>4. CASE RunClose
  <2>1. 1 = Len(write_strand) /\ exit_
    BY <1>0, <1>4, Taken DEF RunClose, OneThreadInv, CloseIsLast
  <2>2. write_strand' = <<>>
    BY <1>0, <1>4, <2>1, TakenLast DEF RunClose
  <2> QED
    BY <1>2, <1>4, <2>1, <2>2 DEF RunClose, readerVars, OneThreadInv, EofIsLast, OpenIsListed,
         ClosedIsQuiet, UnlistedIsDone
<1> QED
  BY <1>1, <1>3, <1>4

LEMMA OneThreadStep ==
  ASSUME TypeInv, OneThreadInv, Threads = 1, [Next]_vars
  PROVE  OneThreadInv'
<1> DEFINE queues == <<reading, io_queue, exit_, listed, executing, write_strand>>
<1>1. UNCHANGED queues => OneThreadInv'
  BY DEF OneThreadInv, EofIsLast, CloseIsLast, OpenIsListed, ClosedIsQuiet, UnlistedIsDone
<1>2. Ask \/ ClientLeaves \/ ConnectionBreaks \/ AnswerGoesOut \/ AnswerWritten \/ UNCHANGED vars
        => UNCHANGED queues
  BY DEF Ask, ClientLeaves, ConnectionBreaks, AnswerGoesOut, AnswerWritten, vars, readerVars, sessionVars
<1> QED
  BY <1>1, <1>2, QueueStep, CloseStep DEF Next

(***************************************************************************)
(* With one thread nothing uses a session that is gone, however many calls *)
(* its client made and whenever it left.                                   *)
(***************************************************************************)
THEOREM OneThreadKeepsSession ==
  ASSUME Threads = 1
  PROVE  SafeSpec => []UsersHaveSession
<1>1. Init => OneThreadInv
  BY DEF Init, OneThreadInv, EofIsLast, CloseIsLast, OpenIsListed, ClosedIsQuiet, UnlistedIsDone
<1>2. TypeInv /\ OneThreadInv /\ [Next]_vars => OneThreadInv'
  BY OneThreadStep
<1>3. TypeInv /\ OneThreadInv => UsersHaveSession
  <2> SUFFICES ASSUME TypeInv, OneThreadInv, ~listed PROVE UsersHaveSession
    BY DEF UsersHaveSession, Alive
  <2>1. exit_ /\ write_strand = <<>> /\ io_queue = <<>> /\ executing = 0
    BY DEF TypeInv, TypeOK, OneThreadInv, OpenIsListed, ClosedIsQuiet, UnlistedIsDone
  <2> QED
    BY <2>1 DEF UsersHaveSession, Waits
<1> QED
  BY <1>1, <1>2, <1>3, TypesHold, PTL DEF SafeSpec

(***************************************************************************)
(* What waits in a queue still waits when another element was taken from   *)
(* the front, or any was added at the end.                                 *)
(***************************************************************************)
LEMMA StillWaits ==
  ASSUME NEW S, NEW q \in Seq(S), NEW h, Waits(q, h)
  PROVE  /\ q # <<>> /\ (Head(q) # h => Waits(Tail(q), h))
         /\ \A e \in S : Waits(Append(q, e), h)
<1>1. PICK i \in DOMAIN q : q[i] = h BY DEF Waits
<1>2. q # <<>> BY <1>1
<1>3. ASSUME Head(q) # h PROVE Waits(Tail(q), h)
  <2>1. i # 1 /\ i \in 1 .. Len(q) /\ Len(q) \in Nat BY <1>1, <1>3, <1>2, Taken, LenProperties
  <2>2. DOMAIN Tail(q) = 1 .. Len(q) - 1 /\ \A j \in 1 .. Len(q) - 1 : Tail(q)[j] = q[j + 1]
    BY <1>2, HeadTailProperties, LenProperties
  <2>3. i - 1 \in DOMAIN Tail(q) /\ Tail(q)[i - 1] = h BY <1>1, <2>1, <2>2
  <2> QED BY <2>3 DEF Waits
<1>4. ASSUME NEW e \in S PROVE Waits(Append(q, e), h)
  <2>1. i \in DOMAIN Append(q, e) /\ Append(q, e)[i] = h
    BY <1>1, AppendProperties, LenProperties
  <2> QED BY <2>1 DEF Waits
<1> QED BY <1>2, <1>3, <1>4

LEMMA LastWaits ==
  ASSUME NEW S, NEW q \in Seq(S), NEW h \in S
  PROVE  Waits(Append(q, h), h)
<1>1. /\ Len(q) + 1 \in DOMAIN Append(q, h)
      /\ Append(q, h)[Len(q) + 1] = h
  BY AppendProperties, LenProperties
<1> QED BY <1>1 DEF Waits

(***************************************************************************)
(* The server forgets a session only after a read error: with              *)
(* OnlyErrorsForget, the read handler that will be told of one.            *)
(***************************************************************************)
ReleaseInv ==
  /\ OnlyErrorsForget
  /\ Waits(io_queue, "error") => client = "unreachable"

LEMMA ReleaseStep ==
  ASSUME TypeInv, ReleaseInv, [Next]_vars
  PROVE  ReleaseInv'
<1>0. /\ io_queue \in Seq({"call", "eof", "error"})
      /\ write_strand \in Seq({"write", "close"})
      /\ client \in {"there", "gone", "unreachable"}
  BY DEF TypeInv, TypeOK
<1> USE DEF ReleaseInv, OnlyErrorsForget, Forgotten, EndWaits
<1>1. CASE \/ Ask \/ ClientLeaves \/ ConnectionBreaks \/ AnswerGoesOut \/ AnswerWritten
           \/ UNCHANGED vars
  BY <1>1 DEF Ask, ClientLeaves, ConnectionBreaks, AnswerGoesOut, AnswerWritten, vars,
              clientVars, readerVars, sessionVars, Waits
<1>2. CASE ReadRequest
  <2>1. /\ io_queue' = Append(io_queue, "call") /\ reading'
        /\ UNCHANGED client
    BY <1>2 DEF ReadRequest, clientVars
  <2>2. Waits(io_queue', "error") => Waits(io_queue, "error")
    BY <1>0, <2>1, Added DEF Waits
  <2> QED BY <2>1, <2>2 DEF Waits
<1>3. CASE ReadEnds
  <2>1. /\ client \in {"gone", "unreachable"} /\ UNCHANGED client
        /\ io_queue' = Append(io_queue, IF client = "gone" THEN "eof" ELSE "error")
    BY <1>0, <1>3 DEF ReadEnds, clientVars
  <2>2. CASE client = "gone"
    <3>1. Waits(io_queue', "eof") BY <1>0, <2>1, <2>2, LastWaits
    <3>2. Waits(io_queue', "error") => Waits(io_queue, "error")
      BY <1>0, <2>1, <2>2, Added DEF Waits
    <3> QED BY <2>1, <3>1, <3>2 DEF Waits
  <2>3. CASE client = "unreachable"
    BY <2>1, <2>3 DEF Waits
  <2> QED BY <2>1, <2>2, <2>3
<1>4. ASSUME io_queue # <<>>, io_queue' = Tail(io_queue)
      PROVE  Waits(io_queue', "error") => Waits(io_queue, "error")
  BY <1>0, <1>4, Taken DEF Waits
<1>5. CASE Dispatch
  <2>1. /\ io_queue # <<>> /\ Head(io_queue) = "call" /\ io_queue' = Tail(io_queue)
        /\ UNCHANGED <<client, reading, listed, write_strand>>
    BY <1>5 DEF Dispatch, clientVars
  <2>2. \A h \in {"eof", "error"} : Waits(io_queue, h) => Waits(io_queue', h)
    BY <1>0, <2>1, StillWaits
  <2> QED BY <1>4, <2>1, <2>2 DEF Waits
<1>6. CASE ReadError
  <2>1. /\ io_queue # <<>> /\ Head(io_queue) = "error" /\ io_queue' = Tail(io_queue)
        /\ UNCHANGED client
    BY <1>6 DEF ReadError, clientVars
  <2>2. Waits(io_queue, "error") BY <1>0, <2>1, Taken DEF Waits
  <2> QED BY <2>1, <2>2
<1>7. CASE HandlerReturns
  <2>1. /\ write_strand' = Append(write_strand, "write")
        /\ UNCHANGED <<client, reading, io_queue, listed>>
    BY <1>7 DEF HandlerReturns, readerVars, clientVars
  <2>2. Waits(write_strand, "close") => Waits(write_strand', "close")
    BY <1>0, <2>1, StillWaits
  <2> QED BY <2>1, <2>2 DEF Waits
<1>8. CASE Close
  <2>1. Waits(write_strand', "close") BY <1>0, <1>8, LastWaits DEF Close
  <2>2. io_queue # <<>> /\ io_queue' = Tail(io_queue) /\ UNCHANGED client
    BY <1>8 DEF Close, clientVars
  <2> QED BY <1>4, <2>1, <2>2 DEF Waits
<1>9. CASE RunWrite
  <2>1. /\ write_strand # <<>> /\ Head(write_strand) = "write" /\ write_strand' = Tail(write_strand)
        /\ UNCHANGED <<client, reading, io_queue, listed>>
    BY <1>9 DEF RunWrite, readerVars, clientVars
  <2>2. Waits(write_strand, "close") => Waits(write_strand', "close")
    BY <1>0, <2>1, StillWaits
  <2> QED BY <2>1, <2>2 DEF Waits
<1>10. CASE RunClose
  BY <1>10 DEF RunClose, clientVars, readerVars, Waits
<1> QED
  BY <1>1, <1>2, <1>3, <1>5, <1>6, <1>7, <1>8, <1>9, <1>10 DEF Next

(***************************************************************************)
(* With any number of threads, a session that the list owns and of whose   *)
(* end nobody will be told is one whose connection broke: the server loses *)
(* sessions by the read errors that it only logs (server_session.cc        *)
(* 136-138) and by nothing else (34-41, 132-135, server.cc 131-136).       *)
(***************************************************************************)
THEOREM OnlyReadErrorsForget == SafeSpec => []OnlyErrorsForget
<1>1. Init => ReleaseInv
  BY DEF Init, ReleaseInv, OnlyErrorsForget, Forgotten, Waits
<1>2. ReleaseInv => OnlyErrorsForget
  BY DEF ReleaseInv
<1> QED
  BY <1>1, <1>2, ReleaseStep, TypesHold, PTL DEF SafeSpec

=============================================================================
