# A TLA+ development of MapReduceCpp

MapReduceCpp is a header-only map-reduce library: a master process forks
worker servers, tells them over rpc to map and then to reduce, watches them
with a heart-beat, and starts a dead one again. This directory holds TLA+
models of it, TLC configurations that check them on small instances, and
proofs that TLAPS checks for every size. Line numbers without a file are those
of `include/MapReduceMaster.h`.

## 1. The system

| Component | State it keeps | Operations | Interacts by |
|---|---|---|---|
| `MapReduceMaster::process()` (238-539) | loop index, status vector and counter of the phase, pool of rpc clients | fork the servers, connect, call the tasks, one pass of the heart-beat per second, restart a dead server, leave the phase, stop all servers | `fork()`, rpc calls, sockets that break |
| Worker server (250-299, and its two copies 344-391, 456-500) | `map_completed`, `reduce_completed`, the task it runs | handlers `map`, `reduce`, `is_map_done`, `is_reduce_done`, `stop_server`; main thread reads stdin | rpc, shared directory |
| `map_controller_module` (588-647) | emitted pairs, `record_number` | read the records that hash to it, apply `map_fn`, write one temporary file per reducer | files |
| `reduce_controller_module` (672-727) | accumulated keys and values | read one temporary file per mapper, apply `reduce_fn`, write one output file | files |
| `MapReduceInterface`, factory (55-141) | the emitted pairs of one task | `emitIntermediate`, `emit` | called by the controllers and the applications |
| `include/Utility.h` | none | `read_text`, `write_key_val_vector` | files |
| Applications (`src/*.cpp`) | none | `map_fn`, `reduce_fn`; `main` reads a configuration | link to the library |
| rpclib client (`lib/rpclib/lib/rpc/client.cc`) | `state_`, `is_connected_`, ongoing calls, write queue; an io thread of its own | connect, `async_call`, `call`, notice that the connection broke | TCP |
| rpclib server (`server.cc`, `server_session.cc`, `dispatcher.cc`) | sessions, worker threads | accept, take a request on any free thread, answer, stop | TCP |

What makes it hard, and what each component has to get right:

* **Threads and processes.** The master's one thread, an io thread per client,
  and in each server a main thread and two threads that take requests. The
  order of requests, answers, deaths and restarts is free. The barrier between
  the phases must hold in all of them.
* **Crashes.** A server may be killed at any point of its task and at any point
  of the master's program. It loses its flags, its task and the requests that
  wait on its connections; the files stay as they are.
* **Results polled from memory that can be lost.** The master records an answer
  about a process that may have died since. What it records must be true of the
  disk, now and later.
* **Timeouts by assumption.** `sleep(1)` stands for "the servers listen now";
  `call()` has no timeout at all.
* **Partial failure.** Error codes of tasks are dropped, exceptions other than
  `int` end the process, a refused connection and most read errors are only
  logged.
* **Files as the channel.** Partial and old files must not leak into results;
  keys and values are written with blanks and read word by word.

`PROJECT.json` lists the components and, under "hazards", each of these at its
line with the properties that cover it.

## 2. Modules

| Module | What it is |
|---|---|
| `MapReduceMaster` | `process()`, the clients, the servers and the controller modules' control: state machine, properties, fairness |
| `MapReduceJob` | what `process()` promises, without servers: tasks are committed, the barrier, return |
| `MapReduceRefinement` | the refinement mapping from the first to the second |
| `MapReduceInvariant` | the inductive invariant `IInv` |
| `MapReduceMaster_proofs` | `IInv` is inductive; the theorems on the state machine |
| `MapReduceCalls_proofs` | a second invariant; no called task is forgotten |
| `MapReduceRefinement_proofs` | `process()` implements `MapReduceJob` |
| `RpcService` | what an rpc connection promises, without threads, queues or sockets |
| `RpcChannel` | a client of rpclib and the session it talks to, with all their threads and queues |
| `AsyncWriter` | the write queue of one socket; `RpcChannel` has two, `ServerSession` one |
| `RpcChannelInvariant` | the inductive invariant of `RpcChannel` |
| `RpcChannel_proofs`, `RpcService_proofs` | the theorems on the channel, and that it implements `RpcService` |
| `ServerSession`, `ServerSession_proofs` | how long a session lives when its client leaves |
| `MapReduceData` | what the tasks compute: records, hashes, files, the three applications |
| `MCMapReduceData` | inputs for model checking it |
| `MapReduceData_proofs` | its inductive invariant; the theorems on types and on the output |
| `SequenceLemmas` | what `FlattenSeq`, `ToBag` and `SetToSeq` do, by induction, and what it means that a sequence lists a set |

### MapReduceMaster

The variables follow the code: `worker_idx`, `task_status`, `nr_done` are the
locals of `process()` (the map loop's names and the reduce loop's are one
variable each, `phase` says which loop it is: 329-412 and 441-528 are the same
code but for the names); `conn[w]` is the connection state of
`client_pool[w]`; `req[w]` are requests that reached w's connection and were not
taken by a thread yet; `reply` is the answer of the one blocking call that can
be under way; `proc[w]`, `task[w]`, `cursor[w]`, `acc[w]`, `completed[w]` belong
to the process on port 8420 + w; `temp` and `output` are the files.

`pc` names the points of `process()` between which other threads can act: one
action per statement that touches shared state or blocks, so every pass of the
heart-beat is a chain `SleepEnds`, then per server `SkipDone`, or `Restart`,
`Reconnect`, `Recall`, or `Poll`, `Answer`, then `PassAgain` or the end of the
phase. A restart is three actions because the `sleep(1)` and the connection lie
between them; checking a connection and polling the server are separate from
the answer because the server can die in between. `fork()` may fail
(`ForkFails`, counted with the kills): the master does not test for it and goes
on as if there were a server, which then never listens.

A request that is sent on a connection whose server is gone is lost without a
sign (`Post`); a broken connection becomes visible only by `NoticeEof`, at any
later time; a refused one is never noticed (`ConnectRefused`), nor is one whose
read fails with an error other than eof and connection_reset (`ReadFails`, in the
runs with `ReadErrors`). These are what `client.cc` does: `do_read` sets `state_`
and leaves the calls alone (105-114) or logs (115-118), `do_connect` (56-58)
logs. `call()` is `client.inl` 4-16 and waits on the future
with no timeout, because nobody sets one.

A server takes requests in any order, on two threads (`FreeThread`); a task
occupies one of them. `completed[w]` is raised by the handler when the
controller module has returned, whatever it returned (254-263).

Files have five states: absent, left by an earlier job ("stale"), truncated and
not closed ("partial"), all that this job's task puts in ("full"), and "wrong":
an output computed from temporary files that were not all full. The contents
themselves are `MapReduceData`'s.

The environment kills servers (`Kill`, at most `MaxKills` times, while `pc` is
in `KillPoints`) and makes the read of stdin return (`StdinReturns`, at most
`MaxLeaves` times). `LongSleep` says whether `sleep(1)` is long enough for a
server to listen and for the end of a connection to arrive; the safety runs set
it to FALSE, so that nothing rests on it.

Abstracted: the wording of messages, process ids, the unused handler `exit`,
the leaked client objects, data races on the two flags (each read or write is
one step). `wait_conn()` wakes up only when there is a connection, and a read
fails only when its server is gone; what a spurious wake-up does, and a read
error while the server lives, is `RpcChannel`'s. `Post` puts the request at the
server at once, where `async_call()` leaves the write to the io thread: until a
thread of the server takes it, it is lost with the server in either place. `req`
is a set, since no request is sent while the same one waits: of tasks that is
part of `FreshTaskCall`, of heart-beats `PollInv`, and `stop_server` is sent once.

### RpcChannel, AsyncWriter and RpcService

`RpcChannel` is what `Post`, `StartTask`, `AnswerPoll`, `NoticeEof` and `ReadFails`
abstract: one client and one server, no restart (a restart makes a new client). Four kinds
of actors work at the same time:

* the calling thread (`Call`, `WaitConn`, `WakeUp`, `SpuriousWakeUp`, `Get`):
  `async_call()` and `call()`, with `wait_conn()`, which waits for the condition
  variable once and does not look at the condition again;
* the client's io thread (`ConnectOk`, `ConnectRefused`, `RunPost`, `RunErase`,
  `SendRequest`, `RequestFails`, `RequestSent`, `RequestNotSent`, `ReadAnswer`,
  `NoticeEof`, `ReadFails`): `post()` files the promise under the id of the call and queues
  the request; an answer sets the promise that is filed under its id and posts
  the erasure of the entry, which may run much later;
* the threads of the server (`Accept`, `ReadRequest`, `Dispatch`,
  `HandlerReturns`, `WriteAnswer`, `SendAnswer`, `AnswerSent`): all but a handler
  that returns needs a thread that is not inside one (`FreeThread`);
* the environment: `Die`, at any moment.

A message is the id that travels and, for the properties only, the number of
the call it belongs to; `AnswerIsOwn` says the two never part. `AsyncWriter` has
the queue and what asio has under way: a write that was started, or one that
ended well or badly and whose handler has not run. After an error the item stays
in front and nothing starts a write again (`Stuck`).

`RpcService` gives each call a status: none, called, executing, executed,
answered or lost. It becomes lost only because the server dies. `stage` reads the
status off the place the call is in, which is the refinement mapping.

### ServerSession

One session and its client, which makes up to `MaxCalls` calls and leaves at any
moment (`ClientLeaves`: the session will read eof or connection_reset), or whose
connection breaks (`ConnectionBreaks`: it will read another error). `Alive` says that something owns the session: the server's list, the
read that is under way, its handler in the queue of `io_`, or a write that is
under way (`self` in `server_session.cc` 44 and `async_writer.h` 30). The calls
posted at 63 and what is posted to the strand at 37 and 98 are not owners. The
queue of `io_` is first in, first out, and so is the strand.
`ReadEnds` and `Close` are two steps: the end of the connection is found, and
the handler that is told of it waits for a thread (132-135). A handler that is
told of another error logs it (`ReadError`, 136-138): the session is then neither
read from nor closed, and the list keeps it as long as the server lives
(`Forgotten`). That this is the only way to forget a session is
`OnlyErrorsForget`.

### MapReduceData

A text is a sequence of words; the file a mapper writes is the sequence of the
words of its pairs, so that what `operator >>` does to blanks and empty texts is
visible (`Written`, `ReadText`). `hash` is chosen at the start, so every
behaviour of `std::hash<string>` on the keys of the job is covered. A task is
one step, or dies (`MapCrash`, `ReduceCrash`) with any prefix of its files on
disk and is run again; the directory may hold old files. That reduce tasks start
only when all map tasks are recorded is the guard here and a theorem
(`BarrierHolds`) there. The order of the lines in an output file (that of
`std::map`) and the order of the values within a line are left out, so `sort()`
and `unique()` of `InvertedIndex` are: each value once. `MaxRecords` bounds the
lines of the input and `MaxLength` the words of a line; together they bound the
numbers a task writes (`MaxNumber`). The reference (`ReferenceKeys`,
`ReferenceValues`) is said of the input as a whole, without mappers, reducers,
hashes or files: the occurrences of a word and the links to a target.

## 3. Runs

Kill points are all points of `process()` unless stated. Two servers are enough
for what the runs ask: a server, and another one whose progress differs; the
theorems do not depend on the number.

| Run | Instance | Shows |
|---|---|---|
| `ft_safety` | 2 x 2, 2 kills or failed forks, 1 return of stdin, short sleep | types, the barrier (`ReduceInputsComplete`), recorded results are on disk (`RecordedTaskIsOnDisk`), the job returns only when complete (`ReturnedComplete`), and `process()` implements `MapReduceJob` (`ImplementsJob`) |
| `udf_failures` | as above with 1 kill or failed fork, tasks end in success, error code or exception | no task is forgotten (`NoForgottenTask`), the heart-beat the master blocks on is with its server as long as that lives (`HeartbeatIsServed`), no living server misses `stop_server` (`StopIsDelivered`), no task is called twice in a process, nor while a call of it waits there (`FreshTaskCall`), the reduce phase leaves the temporary files alone (`TempFrozenInReduce`), servers are forked on free ports (`OneServerPerPort`), whatever user code does |
| `ft_liveness` | 2 x 2, 2 kills while the master sleeps, long sleep | `Termination`, `ServersStop`; the master never waits in `wait_conn()` beside a living server for a connection that cannot come (`ConnectionIsMade`) |
| `hang_modes` | 2 x 2, 1 kill or failed fork, 1 return of stdin, short sleep | `process()` returns unless it waits for a server that died or for a connection that was refused (`StuckOnlyOnLostServer`), which also happens beside a living server: with a short sleep `ConnectionIsMade` does not hold |
| `applications` | 2 x 2, every input of up to 2 lines of up to 2 words or one link, 1 task that dies | types, `OutputIsReference` for all three applications, and `NoReducerThrows`: what `stoi()` is given is a number |
| `rpc_channel` | 5 calls of either kind, 2 spurious wake-ups, a failing read and the death of the server at any moment | types, one write at a time per socket (`OneWriteAtATime`), answers go to their own calls (`AnswerIsOwn`) and find a promise that is not set (`AnswerFindsItsCall`), at most one execution and one answer (`ImplementsService`); a heart-beat is answered unless the server dies, the connection is refused, a read failed with an error that is only logged, or a spurious wake-up made the queue stop (`PollAnswered`) |
| `session_one_thread` | 1 thread, 4 calls, a client that leaves or becomes unreachable | nobody uses a session that was destroyed (`UsersHaveSession`), every session of a client that left is given up (`SessionReleased`), and the sessions the server forgets are those with a read error it only logs (`OnlyErrorsForget`) |

`ReadErrors` is TRUE in `ft_safety`, `udf_failures` and `hang_modes`. In the other
runs of the master it is FALSE, the case that is best for the code: after such an
error a dead server is never restarted, and the master polls it for ever.
`StuckOnlyOnLostServer` is about user code that returns, a `wait_conn()` that is
not woken spuriously, and reads that fail only when their server is gone; what
else can leave a heart-beat unanswered is in `PollAnswered`.

Two kills let a restarted server die again and let two servers be dead at once,
which are the cases a single failure does not have; the second kill can also
hit in the other phase. In `applications` two records reach both mappers, two
words both reducers, and equal words occur within a line and across lines.
In `rpc_channel` five calls put two requests and two answers in every queue
while a task holds one thread of the server, and let ids follow each other while
an erasure still waits; two spurious wake-ups make one request too early on an
empty queue and one behind it.

`KillPoints` of `ft_liveness` is the loop's `sleep`: the only
kills `process()` is sure to survive are those it notices before it polls
(`one_kill_hangs` is about the others). The master spends nearly all its time
there, so this is the fault tolerance a user sees.

Runs that end in a violation check what the code's own documents or comments
say; each has an entry under "findings".

| Run | What is said | What the run shows |
|---|---|---|
| `one_kill_hangs` | README.md:62, "Fault tolerance upto one server failure" | a server that dies between line 337 and its answer to line 406 blocks the master for ever |
| `fewer_mappers` | 222, "accepts nr_mapper and nr_reducer" | with more reducers than mappers the loops over `nr_mapper` never call the rest |
| `map_error` | 201, "the function returns with a success(0) signal"; `WordCounter.cpp:66` tests for -1 | the error code is dropped and the job reports success without its output |
| `spaced_links` | `ReverseWeblinkGraph.cpp:4-5`, the format of the input and of the output | a source with a blank in it is torn apart by the temporary file |
| `session_two_threads` | rpclib's `CHANGELOG.md:20`, "Fixed a bug where the server could crash if the client timed out (#153)", and its test `bug_153_crash_on_client_timeout` | with the second thread that line 295 starts, a call runs while the other thread destroys its session; the test starts one thread, for which the opposite is proved |

## 4. Fairness

`Spec` assumes weak fairness of

* the master's steps: its thread is scheduled;
* each client's io thread;
* each server's start-up and exit, and each kind of request it can take: an
  `io_service` runs handlers in the order they were posted, so none is passed
  over for ever;
* each task's steps: the loops of the controller modules are finite and user
  code returns (`RpcChannel` does not assume this one).

Nothing is assumed of `Kill`, `ForkFails` and `StdinReturns`, nor which error a
client reads when its server ends (`NoticeEof` or `ReadFails`). No strong fairness
is needed.

`RpcChannel` assumes weak fairness of the calling thread once it waits, of the
io thread's handlers and of each kind of handler of the server's threads, by the
same argument, and of the handlers of polls, which return a flag. It assumes
none of the handlers of tasks (`Polls`): `PollAnswered` holds although a task
occupies one thread for ever. `ServerSession` assumes that its threads go on and
that handlers return. Neither assumes anything of calls, deaths, departures,
connections that break, reads that fail or spurious wake-ups.

## 5. Proofs

The theorems on `MapReduceMaster` hold for all `nr_mapper` and `nr_reducer` above
zero, any numbers of kills, failed forks and returns of stdin, any kill points, and either
value of `LongSleep` and of `ReadErrors` (`WorkersAssumption`, `ResultsAssumption`,
`BoundsAssumption`):

| Theorem | Property | Needs |
|---|---|---|
| `TypeCorrect` | `TypeOK` | |
| `Invariance` | `IInv` | |
| `BarrierHolds` | `ReduceInputsComplete` | no error codes |
| `RecordHolds` | `RecordedTaskIsOnDisk` | no error codes |
| `ReturnHolds` | `ReturnedComplete` | no error codes, `nr_mapper = nr_reducer` |
| `FreshCalls` | `FreshTaskCall` | |
| `TempFrozen` | `TempFrozenInReduce` | |
| `PortsFree` | `OneServerPerPort` | |
| `NoneForgotten` | `NoForgottenTask` | |
| `HeartbeatServed` | `HeartbeatIsServed` | |
| `ConnectionMade` | `ConnectionIsMade` | |
| `StopDelivered` | `StopIsDelivered` | |
| `ProcessImplementsJob` | `ImplementsJob` | no error codes, `nr_mapper = nr_reducer` |

those on `RpcChannel` for any number of calls and of spurious wake-ups, and
whether or not the server may die (`ChannelAssumption`):

| Theorem | Property |
|---|---|
| `ChannelTypeCorrect` | `TypeOK` |
| `WritesDoNotMix` | `OneWriteAtATime` |
| `AnswersAreOwn` | `AnswerIsOwn` |
| `AnswersFindTheirCalls` | `AnswerFindsItsCall` |
| `ChannelImplementsService` | `ImplementsService` |
| `LostWithServerOnly` | a call is lost only with its server |

and those on `ServerSession` for any numbers of calls and of threads
(`SessionAssumption`):

| Theorem | Property | Needs |
|---|---|---|
| `SessionTypeCorrect` | `TypeOK` | |
| `OneThreadKeepsSession` | `UsersHaveSession` | one thread |
| `OnlyReadErrorsForget` | `OnlyErrorsForget` | |

Those on `MapReduceData` hold for any numbers of mappers and reducers above zero,
of lines, of words in a line and of tasks that die, every input of such lines
and every hash of its keys (`AppsAssumption`, `SizeAssumption`,
`LinesAssumption`):

| Theorem | Property | Needs |
|---|---|---|
| `DataTypeCorrect` | `TypeOK` | |
| `OutputCorrect` | `OutputIsReference` | `ReverseWeblinkGraph`'s lines are empty or link one word to one word |
| `ReducersDoNotThrow` | `NoReducerThrows` | |

"No error codes" (`NoErrorCodes`) is that the controller modules do not return
-1, -2 or -3; exceptions are allowed. Without it the properties are false
(`map_error`). `nr_mapper = nr_reducer` is what the constructor of 214-220, the
one the applications use, makes true; without it `ReturnedComplete` is false as
well, because the loops of the reduce phase use the wrong bound.

None of the properties is inductive. The argument in `IInv` follows a task of
phase p on server w through its life, and each part is what one actor relies on:

1. before the call (`UntoldInv`): the process has neither request, task nor
   flag, because it was just forked (`ForkServer` clears all), or because it only
   served the other phase;
2. called (`CallInv`): the request is on the wire or the task runs, never both,
   and only in the phase the master is in;
3. running (`MapLoopInv`, `ReduceLoopInv`): the files up to the cursor are full;
4. flag raised (`FlagInv`): the files are full, and no request or task of the
   phase is left that could open them again (`Settled`);
5. polled (`PollInv`, `ReplyInv`): one heart-beat is under way at most, and a
   positive answer means `Settled`, also after the process has died: the files
   survive it;
6. recorded (`RecordInv`, `CountInv`): recorded tasks are settled, and the
   counter counts them, so it reaches `nr_mapper` only when all are;
7. the phase is over (`BarrierInv`): all temporary files are full, and by 2 and
   4 nobody opens them again.

`GoneInv`, `SpawnInv` and `DownInv` say what is known of processes that do not
exist: that they hold nothing, that the master only takes a process for dead
that is, and that one whose end it did not understand is dead. The proof that `IInv` is inductive groups the actions by what they
disturb: master steps that move `pc` only, calls, polls, forks, answers, and
server steps that touch one file, for which `TaskFrame` carries over what is
settled elsewhere.

`NoForgottenTask` needs a second invariant, `CallsInv`: the connection of a
client only exists to the process that has the port now (`ConnInv`), so a server
that was called, is connected and lives is the one that was told, and it has the
request, the task or the flag (`ToldInv`). A failed fork, a kill and a restart
break the connection or clear "called" before they clear the rest.

With it, what liveness rests on is proved as far as it is safety.
`HeartbeatServed`: a heart-beat is only sent to a process that takes it or is
dead (`ConnInv`, `DownInv`), and only an answer or the end of the process takes it
away. `ConnectionMade` is about `sleep(1)` at 305, 393 and 503. It needs that it
outlasts the start of a server, which the property says (`LongSleep`): then no
server is starting when a client tries to connect, so whoever refuses is dead and,
since `is_server_down()` never sees it, stays dead (`StartInv`); and the slots of
the pool are filled before they are used and never emptied (`PoolInv`). Without
that assumption a client can be refused while its server is starting, and the
master waits for ever beside a living server; this is one of the ways to hang of
`StuckOnlyOnLostServer`, which TLC checks with a short sleep. `StopInv`: at
`stop` every client has been connected once, so a server it is not connected to
now is dead, and the others get the call; that they then stop is `ServersStop`.

For `ImplementsJob` the mapping is what counts: `MappingInv` says which tasks
the master has recorded at each `pc` in each phase, and that they are ready on
disk, which is `IInv`'s `RecordInv` and `CountInv`. Each step of `Next` is then
a step of `MapReduceJob` (`Answer`, the ends of the phases, `Return`) or leaves
the mapped variables alone.

The invariant of the channel (`IInv` of `RpcChannelInvariant`) is about places:
a call is posted, in the client's queue, in the socket, queued for a thread,
executing, in the strand, in the server's queue, on its way back, or answered.
`PlaceInv` and `OnceInv`: it is in one place at most and there once; `FiledInv`:
from the post until the answer is read its promise is filed under its id, and
erasures that wait are of answered calls only; `WriterInv`: a write under way is
for an item in front of its queue. Each step takes one call from one place to
the next (`Move`), or takes calls away because the server is dead (`Vanish`);
both give the step of `RpcService` at once. What is an invariant of `RpcService`
is then one of the channel: `LostWithServerOnly` is shown by the service's own
steps and carried over by the refinement.

The session's invariant (`OneThreadInv`) is an order: with one thread the end
of the connection is the last thing in the queue, so every call has run when
`close()` does; what `close()` posts is the last thing in the strand, so every
write has run when the list lets go of the session. `OnlyErrorsForget` needs no
order and holds for any number of threads: the pending read, the end in the queue
and the close in the strand hand the release on to each other, and the only chain
that breaks off is that of a read error (`ReleaseInv`).

What the output files of `MapReduceData` hold is proved in two parts. The
invariant (`IInv` of `MapReduceData_proofs`) says which files are good: those of
a finished mapper are what it writes from the input, whatever was in them and
however often it died before (`MappedIsWritten`); nothing is reduced before all
mappers are done (`ReducedIsComplete`); the output of a finished reducer is what
it makes of these files (`OutputIsReduced`). An unfinished task says nothing of
its files but their type. What good files hold follows without any step of the
system. `Positions` are the places in the input at which `map_fn` emits a pair,
and `Lists(s, D, lab)` says that the sequence s has one element for each d in D,
which is `lab[d]`. Then, as lemmas, each by the one before:

1. mapper m emits the positions whose record hashes to it (`EmittedLists`);
2. what reducer r reads back of m's file are the positions of m whose key hashes
   to r (`ReadLists`), because every pair is two words or none: here the blanks
   between key and value matter, and the theorem its hypothesis;
3. so r accumulates the positions whose key hashes to it, of all mappers
   (`AccumulatedLists`), and with a key all its positions or none
   (`ValuesLists`, `KeyIsSentToOne`);
4. the positions of a key are the reference's: the occurrences of a word
   (`EmissionsAreOccurrences`) or the links to a target (`SourcesList`). Two
   sequences that list the same set are one bag (`ListsSameBag`), as long as the
   set is large (`ListsCount`), and have the same elements (`ListsElements`),
   which are what the three `reduce_fn` need.

By 3 the values a reducer of `WordCounter` accumulates are all "1", so it does
not throw either (`ReducersDoNotThrow`).

The hypothesis of `OutputCorrect` (`OneWordLinks`) is about the lines of one
application; without it the property is false (`spaced_links`). It is the format
of `data/ReverseWeblinkGraphInput.txt`. The inductions over sequences are over a
set of numbers (`InductionSet`), from the fact that the order of the naturals is
well-founded, since the library's induction rules take a formula as a parameter.
Of `std::to_string` the proof uses that it writes "1" for 1 only
(`ToStringAssumption`), of `std::hash` nothing.

Only model-checked: liveness and fairness (`Termination`, `ServersStop`,
`StuckOnlyOnLostServer`, `PollAnswered`, `SessionReleased`), which TLAPS does not
reach. Every invariant and every safety property of the passing runs is a
theorem.

## 6. Not modelled

* `main()` of the applications and their configuration files, and the factory's
  registration at static initialisation: sequential, and done before the first
  process is forked.
* Scripts, the Spark programs, the placeholder unit test, `Temp.cpp`.
* The vendored libraries: googletest, asio, msgpack, fmt and `format`, which are
  most of the lines of the repository. They are taken for what their callers
  expect of them, and appear as external definitions where they matter.
* Of rpclib what the library does not use: notifications, timeouts (there is a
  default in a comment and none in the code; see `one_kill_hangs`),
  `wait_all_responses()`, `~client()`, the exits a handler can ask for,
  special responses, `suppress_exceptions`.
* Servers that outlive a killed master and keep their ports and their raised
  flags (252): the job that meets them would be a second one.
* A lock of a client's io thread that is held at the moment of a `fork()`
  (343), and the overflow of `record_number` (619).
* In `MapReduceMaster`, spurious wake-ups of `wait_conn()` and read errors on a
  connection whose server lives; in both, a connection that loses what was
  written while both processes live: they are on one host.
* `MapReduceMaster` and `RpcChannel` are not composed: the first has one client
  per server and answers of the kind `RpcService` promises, and its comments
  say which action stands for what.

## 7. Plan

In this order; 1 to 8 are done.

1. `MapReduceMaster`: the heart of the system, with its safety and liveness.
2. `MapReduceJob` and the mapping: what the job promises.
3. `IInv` and the theorems on safety.
4. `MapReduceData`: what the tasks compute.
5. Theorems that `process()` implements `MapReduceJob`, and for
   `NoForgottenTask`.
6. `RpcChannel` against `RpcService`, by runs and by proof.
7. `ServerSession`: how long a session lives.
8. Theorems on `MapReduceData`: the output is what the input asks for.
9. Composition of the channel with the master's polls, so that `Post` and
   `AnswerPoll` are justified by 6.
10. A second job that finds servers of a master that was killed.
