# RocketRPC in TLA+

A verification development of RocketRPC, a C++ RPC framework built on one
reactor (epoll event loop) per thread.  It models the framework's own code in
`src/rocket/`, checks small instances with TLC and proves what matters most,
for every value of the constants, with TLAPS.

## 1. The system

A **server** has a main reactor, which accepts connections and sweeps closed
ones every few seconds, and a pool of IO threads, each with an event loop that
reads, decodes, dispatches and answers requests.  A **client** is a thread with
an event loop of its own: a call connects, sends, waits for the answer and ends
under a timer.  Every thread pushes its log lines to a logger that two writer
threads put in files.

| component | state | operations | interacts with |
|---|---|---|---|
| `ScopeMutex`, `Mutex` (common/mutex.h) | the pthread mutex, `m_is_lock` | lock, unlock, destructor | everything shared by threads |
| `EventLoop` (net/eventloop.cc) with `FdEvent`, `WakeUpFdEvent` | `m_pending_tasks`, `m_listen_fds`, `m_stop_flag`, the epoll set, the eventfd | loop, addTask, addEpollEvent, deleteEpollEvent, wakeup, stop | calls the handlers of every fd, called from every thread |
| `Timer`, `TimerEvent` (net/timer.cc) | `m_pending_events`, the timerfd | addTimerEvent, deleteTimerEvent, onTimer, resetArriveTime | its fd is one of the loop's |
| `FdEventGroup` (net/fd_event_group.cc) | one `FdEvent` for each fd number | getFdEvent | connections, clients |
| `IOThread`, `IOThreadGroup` | two semaphores, the loop of the thread, the round-robin index | constructor, start, join, destructor, getIOThread | `TcpServer` |
| `TcpBuffer` (net/tcp/tcp_buffer.cc) | `m_buffer`, `m_read_index`, `m_write_index`, `m_size` | write, read, resize, adjust, move indexes | connections, coder |
| `TcpConnection` | two buffers, `m_state`, `m_write_dones`, `m_read_dones` | onRead, excute, onWrite, reply, clear, shutdown | loop, coder, dispatcher |
| `TcpServer`, `TcpAcceptor` | `m_client`, the clear-up timer | onAccept, start, ClearClientTimerFunc | loops of two threads |
| `TcpClient` | socket, connection, error | connect, stop, readMessage, writeMessage | the client's loop |
| `RpcChannel`, `RpcController`, `RpcClosure` | controller flags, timer, closure | CallMethod, callBack, StartCancel | `TcpClient`, `Timer` |
| `RpcDispatcher`, `RpcInterface`, `RpcClosure` | the services, who holds an interface | dispatch, reply, newRpcClosure, Run, the destructors | server connections, closures in any thread |
| `TinyPBCoder` (net/coder/tinypb_coder.cc) | none | encode, decode | buffers |
| `MsgIDUtil` | thread-local counter | GenMsgID | channel |
| `Logger`, `AsyncLogger` (common/log.cc) | two staging buffers, a queue of batches, stop flags | pushLog, syncLoop, pushLogBuffer, Loop, stop, flush | every thread |

The behaviours that are hard, and what correctness means for each component:

| component | hard | correct when |
|---|---|---|
| `EventLoop` | threads submit tasks while the loop swaps, runs and waits; the mutex is unlocked twice; a wakeup may be drained too early; an owner closes an fd that is listed | tasks form one FIFO queue; no handler is queued twice; epoll never watches what the loop does not list; `stop`, calls and input take effect |
| `TcpBuffer` | bytes move between reads and writes, vectors grow, indexes meet the end | a byte stream: nothing lost, repeated or reordered; indexes in bounds; bounded memory |
| `TinyPBCoder` | TCP cuts and joins packets; data look like packets | messages are decoded once, in order, and decode returns |
| `RpcChannel`, `TcpClient` | a response, an error, a close and the timer race; callbacks hold a raw `this`; a caller may or may not have a loop | a call ends once, in one way, for good; its closure is told the truth; every call ends |
| `TcpServer`, `TcpConnection`, `IOThreadGroup` | a connection is read by one thread before another has finished accepting it, and destroyed by the main thread while handlers hold it; resets | closed is final; the connections of clients that left are dropped, and no earlier; requests are answered; threads share the load |
| `Timer` | threads add events while the timerfd is set outside of the lock, from old copies of the map; callbacks run from a copy | an event runs once, not before its time, and not at all when it is taken back before it is due; while events wait the timerfd is armed |
| `RpcDispatcher`, `RpcInterface` | the last reference replies, from any thread; services reply by hand, throw, or make closures that run later or never | the last reply is the final response; nobody touches an interface after its end; who serves at once never meets a connection that is gone; what is served is answered |
| `Logger` | threads push while a timer stages and a thread writes; a signal handler stops and joins | no line is lost, repeated or reordered, also at a crash; the handler ends |
| `IOThread`, `IOThreadGroup` | creation and start are handed over by two semaphores, and clients may be waiting before | a connection is given only to a thread that has its loop, and evenly |

## 2. The modules

```
FifoExecutor <--implements-- EventLoop     <-- MCEventLoop, EventLoopProofs
FifoExecutor <--implements-- AsyncLogger   <-- AsyncLoggerProofs
AlarmClock   <--implements-- Timer         <-- TimerProofs
ByteStream   <--implements-- BufferTraffic <-- TcpBufferProofs
                               | extends             | extends
                             TcpBuffer               |
                               ^ extends             v
                             TinyPBCoder <-- PacketStream <-- MCPacketStream
RpcPromise   <--implements-- RpcCall       <-- RpcCallProofs
                             RpcServer     <-- RpcServerProofs
                             RpcService    <-- RpcServiceProofs
SequenceLemmas <-- AsyncLoggerProofs, TimerProofs, TcpBufferProofs
```

Four modules are abstract specifications: `FifoExecutor` (a queue of tasks),
`AlarmClock` (an alarm rings once, not early), `ByteStream` (a stream of bytes,
with or without whole writes dropped) and `RpcPromise` (a call ends once, in one
way).  The others stand on them: in `RpcCall` and `RpcServer` the queue of a loop
is one sequence, a timer is something that expires, and messages are whole.
`RpcServer` has the connections and their handlers, `RpcService` what becomes of the
requests that one of its handlers dispatches.

### EventLoop (net/eventloop.cc)

`pc[t]` says where thread t is, in `loop()` or in a call from another thread; an
action is the code between two points where threads can interleave: taking the
mutex, pushing, the second unlock by the destructor of `ScopeMutex`, `wakeup`,
the swap, one task, `epoll_wait`, one reported event.  `m_mutex` is the thread
that locked it last.  Since `unlock` is called twice, two threads may be in the
critical section; that is undefined behaviour, the model has no step after it
(`Raced`), and every property speaks of the time before.  epoll is level-triggered:
`watched` and `mask` are what it knows, `m_listen_fds` is what the loop believes.
An owner may close an fd that is listed (`CloseFd`), which makes epoll forget it.
A write callback may leave everything as it is (EAGAIN, or a connection that is not
Connected).  That a read callback does so, too, while the connection is not Connected
yet (tcp_connection.cc:48), is left out: `setState` is the accepting thread's next
statement, and epoll reports the input again until then.  `RpcServer` has it
(`NotConnected`).

### TcpBuffer, ByteStream, BufferTraffic (net/tcp/tcp_buffer.cc)

The methods are operators on a record of the vector and the two indexes.
`CoderSpec` is a coder that writes and reads; `SocketSpec` is the body of the
loop of `TcpConnection::onRead` (expand, read, `moveWriteIndex`) and the decoder
that moves the read index.  Bytes are the numbers of a stream, so that one that
is missing, repeated or out of order shows.

### TinyPBCoder, PacketStream (net/coder/tinypb_coder.cc)

`EncodeTinyPB` gives the bytes of a message; `FirstPacket`, `EndOf` and `Split` are
one turn of the loop of `decode`, with its scan for the start byte, the length, the
end byte, and the fields.  `PacketStream` encodes messages, cuts the stream where
TCP may, and runs `onRead`, `excute` and `decode`.  Where the scan looks one byte
behind what it has, the byte is either of the two that matter (`oob`).

Two assumptions say which streams these are, and TLC evaluates both.
`MessagesAssumption`: strings without zeros, numbers and lengths that fit into an
integer, and a vector longer than an integer.
`CutsAssumption`: of the messages that TCP may cut, no piece that has come looks like
a packet.  `decode` searches an incomplete packet for another one, so a message whose
data hold one is not among them, and it reads a length of which a part has not come;
`PacketsLength.cfg` lets TCP cut there.  The assumption asks nothing of the
first byte of a piece whose length has come: that it does not mislead is proved.

The stream may be longer than the vector: `decode` gives cells back as it takes packets off
(`adjust`).  But a read that fills the vector is dropped (that is what
`socket_traffic_loss` shows), and so `Receive` takes only reads that leave more than
`IntSize` cells behind the write index; a vector that grows is in `BufferTraffic`.

### RpcPromise, RpcCall (net/rpc/rpc_channel.cc, net/tcp/tcp_client.cc)

Calls share the loop of their thread.  `channel[c]` has the flags and the error of
`RpcController`, `client[c]` its `TcpClient` and `TcpConnection`, `wire[c]` what the
peer has sent.  `CallMethod` is one action with the outcomes of `connect`: at once,
in progress, or an error.  Afterwards tasks run from the loop's queue: `OnConnect`,
`OnWrite`, `OnRead`, `OnTimer`, each the whole handler with every callback it calls.
Every call has a closure, as in the clients of the repository: `if (m_closure)` in
`callBack` is left out.
`ioThread` tells the two kinds of callers apart: a task of a running loop, for
which `CallMethod` returns at once, or a thread of its own, for which `connect` runs
the loop until the closure stops it.  A handler that runs on a channel that is gone
(`UseAfterFree`), and SIGPIPE, end the behaviour (`crashed`).

### RpcServer (net/tcp/tcp_server.cc, tcp_connection.cc, io_thread_group.cc)

Before there are clients the main thread creates the IO threads, each after
`m_init_semaphore` of the one before, and starts them; thread t makes its
`EventLoop` (`MakeLoop`) and enters it (`EnterLoop`) on its own, in between or long
afterwards.  The socket listens all that time.  `onAccept` is three steps, since the
IO thread reads what they write: the constructor of the connection, which listens
at once (`Accept`), `setState` (`SetState`), and `m_client.insert` (`Insert`).  `Sweep` is
`ClearClientTimerFunc`.
Each IO thread has a queue.  `Poll` is `epoll_wait`, which reports what is ready, in
any order of descriptors.  Then the loop looks at the events one by one (`Dispatch`): for IN
and OUT it queues a handler, each with an `addTask` of its own, between which
other threads may add tasks of theirs, and on EPOLLERR it takes the descriptor out
of epoll.  `onRead` is `ReadRequests`, `ReadEnd` or `NotConnected`.  `onWrite` is
`WriteAll` (the last `write()`) and `CancelWrite` (the end of listening), between which other
threads may `listen`; or `WriteSome` or `WriteToNobody`.  Either handler on a destroyed
connection is `UseAfterFree`.  A client may connect, ask, leave and reset at any time,
without bound.

A service may keep a closure (`Keep`) and have another thread reply: `ReplyElsewhere` puts
the response into the buffer and listens for OUT in that thread, `AddElsewhere` adds the
task for the IO thread.  The connection may have been closed or destroyed
meanwhile; this ends the behaviour (`LateReply`): it is what becomes of services that
keep closures beyond their connection, and `RpcService` is about them.

`listen`, `cancle`, `addEpollEvent`, `clear` and `reply` are what the functions of
these names do to one connection, `dispatch` what requests can do to it.

### RpcService (net/rpc/rpc_dispatcher.cc, rpc_interface.cc, rpc_closure.h)

`request[r]` is a request between `dispatch` and the end of its `RpcInterface`:
`stage` is where the method that the generator writes (`CALL_RPC_INTERFACE`) is,
`holders` says who has a `shared_ptr` of the interface, the block of the method or a
closure, and `replies` what has been passed to `TcpConnection::reply`.  `Drop` is
one holder less; with the last one goes `~RpcInterface`, which replies.  A service
may reply, throw, and make a closure (`NewClosure`), which any thread runs, drops, or
sees throw, while the method runs or afterwards.  The connection is closed by its IO
thread between two handlers (`ReadEnd`) and destroyed by the main thread (`Sweep`); a
reply to what is destroyed, or a handler of it, ends the behaviour (`crashed`).
`async` says whether the services make closures at all.

### AlarmClock, Timer (net/timer.cc, net/timer_event.cc)

Time is relative: events and the timerfd have so much left, and `Tick` takes one
from each.  `pc[t]` is where thread t is in `addTimerEvent`, `deleteTimerEvent` or
`onTimer`; a step ends where the mutex is taken or given back, or before
`timerfd_settime`, which comes after the unlock and from a copy of the map
(`ResetCopy`, `ResetSettime`).  The multimap is a sequence in the order of its keys.
`OnTimer` reads the clock, `TakeDue` takes what is due, and then each repeated event
is added again (`Readd`, through `addTimerEvent`), the timerfd is set, and the
callbacks run (`Ring`), which may call the timer themselves.  A repeated event of
interval 0 that is made after the clock was read, in the same millisecond, counts as not
due; the code would take it at once, the model takes it the next time.  In this repository
only a loop's own thread calls its timer; `callers` says whether others do, too,
since the mutex is there for them.  As in EventLoop, a behaviour ends when the double
unlock has let two threads into the map (`Raced`).

### AsyncLogger (common/log.cc)

Lines pass from `staged` (`Logger::m_buffer`) over `tmp_vec`, `m_buffer` (the queue of
batches) and `tmp` to `files`.  As in EventLoop, `pc[t]` is where a thread is, each
mutex is unlocked twice, and a behaviour ends when two threads are at one container
(`Raced`); the writer's `return` and the end of each of its iterations are such second
unlocks.  `Signal` moves any thread, from wherever it is and with the mutexes it
holds, to `CoredumpHandler`: it logs a line, syncs, sets the flag (`Stop`) and joins this
log's writer (`Join`) and then that of the other log (`JoinApp`); only then does it raise the
signal again, which ends the process (`Ended`).  Of the other log there is what the
handler can wait for: whether the interrupted thread had locked a mutex of it
(`app_locked`), and whether its writer sleeps, has work, or has ended (`app_writer`).
A signal in that writer's own thread is left out.  `NextFile` is the choice of the file for a
batch; there are no files of an earlier process, to which fopen would append.

## 3. The runs

| run | instance | what it shows |
|---|---|---|
| `eventloop` | two callers, one fd, one event per wait, two calls | the queue is a `FifoExecutor`; handlers are queued once; epoll watches only what is listed; `stop` ends the loop, calls take effect, input is handled |
| `eventloop_wakeup` (violated) | two callers, two calls | the loop may sleep, up to ten seconds, with a task in its queue |
| `coder_traffic` | a vector of 3, messages up to 5, at most 7 bytes unread | coders have a lossless stream, indexes in order, bounded memory |
| `socket_traffic_loss` (violated) | a vector of 6, 15 bytes | the read that fills the buffer exactly is lost |
| `packets` | three messages of three kinds, a vector of 60, cut outside of lengths | all are decoded, in order, also when they are longer than the vector together |
| `packets_length` (violated) | two messages, cut anywhere | decode does not return when a length has arrived in part |
| `rpc_call` | one call, from either kind of caller, two responses | one outcome, final; the closure is told the truth, and nothing changes behind it; the call ends; no handler outlives a blocking call |
| `rpc_call_timeout` (violated) | one call from a loop | the closure of a call that times out does not run |
| `rpc_server` | two clients, one of which asks, one or two IO threads, one closure that another thread runs | connections are dealt evenly to threads with loops, closed for good, dropped when the client has left, with at most one handler to go; requests are read, and what `onRead` replies is offered to the socket |
| `rpc_service` | two requests of one connection, one reply by hand | what is served is answered, with the final response last, and nothing after it; synchronous services never meet a connection that is gone |
| `timer` | the loop and one other thread; a repeated event and another, of interval 0 or 2, three calls | the timer is an `AlarmClock`; while events wait the timerfd is armed, for a single caller in time; events that are set ring |
| `logger` | two threads that log, two lines and the handler's, files of one line, one midnight | the log is a `FifoExecutor` until a signal; lines are in order, files consecutive, everything is written; the handler gets to its first join, and through each join whose writer has work |

The four violated runs each check one statement of the repository, which
PROJECT.json quotes under "findings".

A reset has an outcome that no statement of the repository excludes, and which
`LeaversAreSwept` therefore names: EPOLLERR takes the descriptor out of epoll
without telling the connection, so that one that is reset while it is accepted, or
while it dispatches a last request, may stay Connected, watched by nobody, for
good (`Stranded`).  Every other connection whose client left is destroyed.

**Bounds.**  `MaxCalls`, `MaxQueued`, `MaxBytes`, `NumMessages`, `MaxReplies`,
`MaxThreads`, `MaxKept`, `MaxEvents`, `MaxLate`, `Retry`, `MaxLines` and `MaxDays` are the only
ones.  They are enough for the cases that matter.
- Two calls by two threads make every pair of calls overlap with each other and
  with each phase of the loop.
- The coder's vector is small enough to grow, and to be moved to the front, several
  times in a stream of 24 bytes.
- Three messages of each kind in each order are cut in each way inside and between
  the ones that may be cut; the longest streams are longer than the vector.
- Two responses are one more than a call can use.  With one call the state is small
  enough for liveness; what the theorems of RpcCallProofs say holds for any number
  of calls.
- One thread is where the round robin comes round at once, two are where it must
  alternate; two connections share a thread or do not, and one may be accepted while
  the other is closed and destroyed.  One of the two clients asks (`Asking`), the other
  comes and goes.  One closure that is kept is enough for a reply from another thread to fall
  into each gap of the IO thread and of the main thread.
- Two requests of a connection are served one after the other, while closures of the
  first run during the second; a reply by hand comes from the
  method or from a closure, before the destructor's.
- Two events in the timer are the least for which the first and the earliest differ;
  three calls let both be added and one be cancelled, deleted or added again, by two
  threads.  An interval of 0 is due at once, one of 2 is longer than `Retry`.  An event
  that is late by more than `MaxLate` does what one that is late does.
- Two lines can be in one batch or in two, and with the handler's there is a third
  behind them; a file of two is over the limit of one.

The theorems below do not depend on the bounds.

**Fairness.**  Only what the program and the kernel's scheduler guarantee:
- `EventLoop`: weak fairness of each thread's steps; strong fairness of taking the
  mutex, since a thread that unlocks it again and again does not starve the other
  for ever; `epoll_wait` returns after ten seconds (`EpollTimesOut`).
- `PacketStream`: the bytes arrive and decode goes on.
- `RpcCall`: the loop polls, runs its tasks, and ends when told; the timer expires.
  Neither the peer nor the network need do anything.
- `RpcServer`: every thread goes on with what it has to do, and nothing else is fair.  No
  socket need take the whole buffer, and no service run the closure that it keeps.
  So `RequestsAreAnswered` says that requests are read and that what `onRead` replies
  comes to `onWrite` again and again until a `write()` takes it; that some `write()` takes it
  is not a fact of the code (section 5).  One assumption is not fairness, but in
  `Triggered`: epoll reports OUT of every socket that is watched for it, that is, clients
  read what they are sent.
- `RpcService`: methods return or throw, and who has a closure runs it or drops it in
  the end.  Connections need not be written to, nor closed.
- `Timer`: time passes, the loop goes on, and so does another thread that has begun a
  call; it gets a mutex that is free again and again (strong fairness, the loop may
  take it in between).  Nobody need call.
- `AsyncLogger`: threads go on with what they have begun, the timer of the main loop
  runs `syncLoop` again and again, and a mutex that is free again and again is taken.
  Nobody need log, and no signal need come.

## 4. The theorems

All are about the modules that the runs check, for every value of the constants
that satisfies their assumptions (finite sets, positive sizes, distinct threads),
and hold without fairness.

- **EventLoopProofs.**  `TypeInv` (`TypeOK` and that what is passed to `addTask` is
  a task where it will be pushed) is inductive.  `WatchedIsListed` is inductive by
  itself.  For the refinement, `BatchInRun` is added: `tmp_tasks` is empty outside of
  the loop that runs it, so that a swap moves the whole queue and a mapped state
  stutters.  Then each push is a `Submit`, each task an `Execute`.
  `HandlersQueuedOnce` is not inductive: nothing in it keeps `epoll_wait` from
  reporting an fd whose handler waits.  `HandlersHavePhases` says which handlers
  are queued in each phase of the loop: none while it runs its batch or waits, and,
  while it dispatches, none that is still to be dispatched; other threads never
  push one.
- **TcpBufferProofs.**  `CoderInv` has the indexes in order, the memory bound, and
  that the readable bytes are the last ones written, numbered without a gap; the
  numbering makes refinement of `ByteStream` provable.  `SocketInv` is the same
  without it, and a refused `moveWriteIndex` maps to a dropped write.

  The second half is about packets, for every width of a byte (`Base`) and an integer
  (`IntSize`).  `NtohlHtonl` reads an integer as it was written: both are sums of powers,
  and what `Ntohl` adds up is what `Htonl` has cut off, less the sign.  `DecodesPacket`
  is the round trip: a packet that lies whole at the read index is found there,
  and `Split` gives back the message, whatever lies in front of it, behind it or outside
  of the vector.  For the whole stream, `PacketInv` says that the first j messages have been
  given out, that exactly the rest of what has been read can still be read, and that the vector
  behind the write index holds zeros (`Blank`) in more than `IntSize` cells.  The last part is needed because `decode`
  reads a length that has come in part: with anything else there, a piece could look like a packet.
  A turn of `decode` then finds the next packet whole and takes it off (`DecodeWhole`), or
  has a piece of it, in which nothing but a packet of no bytes can be found
  (`PieceOnly`, from `CutsAssumption`), whose turn changes nothing that can be read (`DecodePiece`: it is the
  step that `PacketsLength.cfg` repeats for ever, and `DecodesInOrder` holds there as well).
- **RpcCallProofs.**  Neither `ClosureIsTold` nor the promise is inductive: a response
  may be followed by a timer, a close or a second response.  `CallInv` says, call by
  call, which callbacks are still registered at each stage: none before the call,
  the connect callback alone while connecting, the read callback only after the
  write callback, and nothing that changes the outcome once the call has finished;
  `QueueInv` says the same of the tasks in the queue.  `Inv`, of which these are the
  parts, is preserved by every action (`Invariance`), and four of the theorems follow.
  `OnlyCallKeepsChannel` has a hypothesis, that the thread makes one call, as the
  generated clients do.  It needs no more than `LoopHeld`, which is true of any number
  of calls: while a thread is in the loop, some call's caller holds its channel.  With
  two calls the theorem's conclusion is false: a first call that connects at once leaves
  handlers for a loop that only a second call enters and holds.
- **RpcServerProofs.**  `Inv` joins the type, the start-up (`BootInv`: no connection is
  dealt before every IO thread has its loop), where a connection is (`PlacedInv`:
  `setState` finds a connection that nothing has touched, and what is no longer kept
  is closed), the round robin (`DealtInv`: the threads before `m_index` have one
  connection more than the others, which needs counting sets), what is watched (`MaskInv`:
  nothing watches a connection that is closed), and the queues (`QueueInv`).  Of a
  connection there may be any number of `add`s, from other threads at any place, but of
  handlers no more than an `onRead` and an `onWrite` behind it, with nothing but `add`s
  between the two (`Orderly`); what is left of a report names no descriptor
  that has handlers in the queue, but for the one that the loop is at (`Apart`); and of a closed
  connection there is the `onWrite` alone, in no report, and before it only `add`s
  (`TaskOK`, `EventOK`).  `ConnectionsOutlive` is this, with what `PlacedInv` says of
  destroyed connections: it does not say that the last `onWrite` is the next task, for other
  threads' `add`s may be in front of it.
- **RpcServiceProofs.**  `Good` says of one request who holds its interface at each
  stage (`Held`), and that the reply of the destructor is on top of those asked for and
  says what the response says (`Replied`).  Every step changes one request from good to
  good.  For `SynchronousIsSafe`: without closures, who serves is the IO thread,
  and while it does the connection is open.
- **AsyncLoggerProofs.**  The type is not inductive by itself: that no empty batch is
  queued needs what `syncLoop` has tested (`Batches`), that the lines have numbers needs
  to count those who are about to push (`Counted`), and the writer's head needs
  `Writing`.  For the files, none is of a day to come (`Dated`).  All of it with a
  signal in any thread, at any place.  That the log is a queue needs `InLine`: only
  the main thread syncs, its vector is empty when it swaps, and the writer has
  finished its batch when it takes the next one; then every step is a `Submit`, an
  `Execute` of the first line or a stutter.  `InLine` says less when a signal is handled,
  since the handler may have interrupted `syncLoop` with lines in its vector.
  `WrittenInOrder` follows from `Ordered`: files and queue, one behind the other, increase
  and hold nothing that is not pushed yet.
- **TimerProofs.**  That the timerfd is armed when nobody is in a call does not hold
  in between: `Watched` says that while events wait it is armed, has expired, or some
  thread is on its way to set it; `Called` that each thread in a call has its event.
  What the copy of the map says does not matter for this, and so the lost updates
  do not either.  The refinement of `AlarmClock` needs where each event is: `Once` (in the
  map, with one thread that adds it, or among those that onTimer adds again, never in
  two of these places nor twice in one; and the flag of an event that is being deleted
  is not taken back), `Held` (what onTimer keeps, and in which of its steps) and
  `Times` (what it holds was due when it asked).  For `ArmedInTime`, `Sorted` says that the map is
  in the order of its keys at any time (time passes for all events alike, and an event's key
  changes only outside of the map) and `Single` that the lone caller sets the
  timerfd for the event that is first, or is still going to.
- **SequenceLemmas.**  Sequences that are made by recursion: `FlattenSeq` of the library, and
  `Keep` of `Timer`.  The provers cannot instantiate the library's induction theorems,
  whose parameter is an operator; a set can take its place.  `SmallestOf` and `UpTo` say
  that a set of numbers has a smallest one, and that a set which has 0 and with i also i + 1
  has all; both come from the well-foundedness of the naturals, and every recursive fact
  here is the statement that the set of indexes for which it holds is everything.
  `RecursionExists` gives the functions that are recursive over numbers: the value of a byte,
  the sum of the bytes, where the packets end.
  `FlattenIs`, `FlattenAppend` and `FlattenHead` say what the library's operator does to a
  queue of batches; `AppendOnce`, `InsertOnce`, `RemoveOnce` and `CutOnce` keep a sequence
  free of repetitions.

**Model-checked only:**
- all liveness: temporal proofs with fairness are out of reach of the backends.  So `DecodesInOrder`
  says that nothing else is given out, and only the run `packets` (`AllDecoded`) that everything is.
  `RequestsAreAnswered`, `LeaversAreSwept`, `LinesAreWritten` and `HandlerEnds` are checked for the
  instances of the runs only.

Every invariant and action property of the runs, and every refinement, is stated by a theorem,
but for those of the four violated runs.

`Timer` has the loops of `onTimer` that copy events as `Keep`, not as the standard
`SelectSeq`: the two are the same, but of a recursive function that is written out the
provers can use the equations.  For the same reason `TinyPBCoder` has `Power`, and not `^`.

## 5. What is known of the code besides

Disagreements that have no run of their own, found while modelling:
- `EventLoop`: when an owner closes a listed fd, the number stays in `m_listen_fds`;
  the next socket with it is modified instead of added, which fails (eventloop.cc:12).
- `TinyPBCoder`: a packet whose data hold a complete packet is decoded as the inner one,
  when it arrives in parts (tinypb_coder.cc:55); `packets` sends it whole.
- `TcpClient`: a thread's second call does not run the loop, since `m_is_looping` and
  `m_stop_flag` stay set (tcp_client.cc:124).
- `RpcChannel`: a late response replaces the error code of a timeout; `callBack` reads
  a null controller before `Init`; a handler queued behind the timer's may run on a
  destroyed channel (in a running loop: `HandlersHaveChannels` is about the other kind
  of caller, which makes one blocking call).
- `TcpServer`: a response that another thread makes while `onWrite` is between its last
  `write()` and `cancle(OUT)` stays in the buffer until the next response
  (tcp_connection.cc:211-232); a closure that is run after the connection was closed has
  the closed descriptor watched again (tcp_connection.cc:162), and one that is run after
  `Sweep` uses a connection that is gone.
- `TcpConnection::onWrite` never moves the read index.  Responses and requests are
  sent again with every later one, and when all of them together exceed the socket's
  buffer, a write never completes: the same bytes are written for ever, which no property
  of these modules would show.  The write callbacks run after EAGAIN, too.
- `RpcDispatcher`: the error paths set an error on the response and send none.
- `RpcInterface`: its destructor replies once more.
- `Logger`: `CoredumpHandler` joins two writers.  Each sleeps when its queue is empty, and
  `stop` does not signal its condition (log.cc:391), so that the handler waits for ever; the
  other log's writer often has nothing to write, and then the process does not end,
  whatever this log's has to do.  The writer leaves the batches behind the one it writes
  when it sees the flag (:379), so that the last lines are lost.  The handler may
  wait for a mutex, of either log, that the interrupted thread holds.  `HandlerEnds` is
  what remains true: the handler comes to its first join, but for the last case, and through
  each join whose writer has something to write; it names what it leaves out.

## 6. What is not modelled, and the plan

Not modelled:
- `Config`: reads an XML file before anything else runs; of what it says, the
  number of IO threads is a choice of `RpcServer`'s `Init`, and sizes and intervals are
  constants.
- `NetAddr`: conversions of addresses, on which no state depends.
- `RunTime`, `util.cc`, `exception.h`: thread-local names for the log, the clock and the byte
  order.  What the byte order does to lengths is in `TinyPBCoder`, what
  exceptions do in `RpcService`.
- `MsgIDUtil`: ids of twenty random digits, counted up in each thread.  A call uses
  the id only to know its own response; each has a connection of its own.
- The generator, but for the code that it writes around each method
  (`RpcService`), and the examples, whose ways of calling are `RpcCall`'s `Callers`.
- Destruction of servers, loops, IO threads (`join`, `~IOThread`) and timers: a server
  does not end, and no program of the repository gets there.
- `TcpConnection::shutdown`, which nobody calls; the half-sent message that `onWrite`
  repeats (`PacketStream` has whole messages repeated); descriptors that run out, since
  none is ever closed.
- The text of log lines, and `m_type = 0`, which prints at once.

What a next step could take, in this order:
1. `TcpConnection` over `BufferTraffic`: the out buffer and partial writes, and which
   stream the peer receives, against `ByteStream`.
2. An end-to-end composition of `RpcCall`, `RpcServer` and `RpcService`: a call, its
   dispatch and its answer.
3. In `PacketStream`, the reads that fill the vector, which are dropped, and those that make
   it grow.
