# duduo: a TLA+ verification project

duduo is a small C++ network library in the manner of muduo: one event loop per
thread, level-triggered `poll`, callbacks for everything, and a TCP server on
top. The source is in `src/`; this directory holds TLA+ modules that model its
core, TLC configurations that model-check them, and proofs that TLAPS checks.

To repeat everything:

    tlc -workers 2 -config MCEventLoop.cfg MCEventLoop      (and so on, see "Runs")
    tlapm EventLoopProofs.tla                               (and so on, see "Proofs")

## 1. Inventory

| Component | Source (`src/duduo/net/`) | Its state | Its operations |
|---|---|---|---|
| EventLoop | `Reactor/EventLoop.*` | `quit_`, `isLoopping_`, `wakeupFd_`, `funcQueue` under `mutex_`, `isExecuteQueueFunc` | `loop`, `queueInLoop`, `runInLoop`, `wakeup`, `handleRead`, `executeQueueFunctions`, `quit` |
| Channel | `Reactor/Channel.*` | `events_`, `revents_`, `index_`, `isHandling_` | `enableRead`, `enableWrite`, `disableWrite`, `disableAll`, `remove`, `handleEvents` |
| Poller | `Reactor/Poller.*` | `pollfds_`, `channels_` | `updateChannel`, `removeChannel`, `poll`, `fillActiveChannels` |
| TimerQueue, Timer | `Reactor/Timer*.{h,cc}` | the set `timers_`, the timerfd, `expiration_` and `interval_` | `addTimer`, `getExpired`, `handleRead`, `reset`, `resetTimerfd` |
| EventLoopThread, EventLoopThreadPool | `Reactor/EventLoopThread*` | `loop_` under a mutex and a condition; `threads_`, `loops_`, `next_` | `startLoop`, `threadFunc`, `start`, `setThreadNums`, `getNextLoop` |
| TcpConnection | `Server/TcpConnection.*` | `state_`, `outputBuffer_`, its channel and socket | `connectionEstablished`, `send`, `shutdown`, `handleRead`, `handleWrite`, `handleClose`, `connectionDestryed` |
| TcpServer | `Server/TcpServer.*` | `connections_`, `nextConnId_` | `start`, `onNewConnection`, `removeConnection`, `removeConnectionInLoop`, the destructor |
| Acceptor | `Server/Acceptor.*` | the listening socket and its channel | `listen`, `handleRead` |
| Socket, SockOptions, Timestamp | `Server/So*`, `Reactor/Timestamp.h` | a descriptor, a number | wrappers |
| Time wheel | `src/testCase/time_wheel/echo_server.cc` | a circular buffer of buckets of entries | `onTime`, `onConnection`, `onMessage`, `~Entry` |
| Chat | `src/testCase/asio/` | the streams' buffers, `connects_`, a client's `conn_` | `LengthHeaderCodec::send` and `onMessage`, `onStringMessage`, `write`, `onConnection` |
| File servers | `src/testCase/download*.cc` | an open `FILE` in the context of the connection | `onConnection`, `onWriteComplete` |
| Synchronisation examples | `src/testCase/*.cpp` | a latch, a queue, a copy-on-write list, an inventory of requests | `wait_`, `countDown`, `enqueue`, `dequeue`, `post`, `traverse`, `process`, `print_all` |
| Other examples | `src/testCase/` | none | echo, daytime, protobuf dispatch, mains |

**How they interact.** A loop thread alternates between `poll`, the handlers of
the active channels and the functors queued in its loop. A handler or functor
calls the Poller through its Channel. Other threads reach a loop only with
`queueInLoop`/`runInLoop`/`quit`, through `funcQueue` (locked), `quit_` (not
locked) and the eventfd. A `TcpConnection` lives in an IO loop; the map that
keeps it alive lives in the base loop of the `TcpServer`; so removing one is a
message from the IO loop to the base loop (`removeConnectionInLoop`) and one back
(`connectionDestryed`), each with a `shared_ptr` bound into a functor.

**What is hard here, and what makes each component correct.**

* *EventLoop.* A functor may be queued at any point of the iteration, by the
  loop thread or by another. Correct means: none is lost, doubled or reordered
  when the queue is swapped out; one that the loop thread queues without a wakeup
  still runs before the next poll; functors that queue functors do not starve
  the poll; `quit` ends the loop; a queued functor ends the sleep in `poll`.
* *Channel and Poller.* Three structures must agree (`pollfds_`, `channels_`,
  each `index_`) while slots are muted (`-fd - 1`), exchanged with the last one
  and popped, and while descriptors are reused. Raw pointers to channels survive
  from `poll` to the handlers. `disableWrite` skips the update.
* *TcpConnection.* Partial writes, a peer that closes or resets at any point,
  `state_` accessed from several threads without a lock, functors queued before
  the close that run after it, and a life time decided by whichever `shared_ptr`
  goes last. Correct means: the byte stream is whole and in order, the FIN follows
  the buffered bytes, buffered bytes are written in the end, the connection closes
  once, leaves the poller before it is destructed, and is destructed.
* *TcpServer and Acceptor.* The destructor of the server meets connections in
  every state, and callbacks that hold `this`. Correct means: every accepted
  connection is in the map until it is removed, once; no callback outlives the
  server.
* *TimerQueue.* Callbacks add timers while expired ones are run; repeated timers
  are inserted again; the timerfd is armed to the earliest. Correct means: no timer
  fires early, each fires, the timerfd is armed while timers are left.
* *EventLoopThread and pool.* The hand-over of a stack-allocated loop to the
  creating thread, and its destruction when `threadFunc` returns.
* *Time wheel.* One entry is in as many buckets as its connection spoke in. Correct
  means: it goes exactly `num_buckets` ticks after the last message.
* *Chat.* Streams are cut anywhere, messages of several clients are interleaved while
  clients come and go. Correct means: messages are decoded whole, nothing stays in a
  buffer, and all clients print the same sequence.
* *File servers.* Chunks wait for write completions, which are functors and may run
  after the connection has closed. Correct means: the file arrives, then the FIN; no
  more than a chunk is buffered; no `FILE` outlives its connection, or is used after it was
  closed.
* *Synchronisation examples.* Lost and spurious wake-ups, a list changed under a
  traversal, two mutexes taken in two orders.

Every such hazard is listed at its line in `PROJECT.json`.

## 2. Modules

| Module | Models | Proofs |
|---|---|---|
| `Executor` | abstract: a FIFO executor, what `queueInLoop` promises | |
| `EventLoop` | the loop, its queue, wakeup and quit | `EventLoopProofs` |
| `PollSet` | abstract: a table of what is watched for each channel | |
| `Poller` | `pollfds_`, `channels_`, `index_`, and the life of channels | `PollerProofs` |
| `TcpConnection` | one connection with its loop, threads, peer and server | `TcpConnectionProofs` |
| `ConnectionLife` | abstract: what the user of a server sees of its connections | |
| `TcpServer` | servers with acceptors, loops and many connections | `TcpServerProofs` |
| `TimerQueue` | the ordered set, the timerfd, two clocks | `TimerQueueProofs` |
| `EventLoopThread` | the pool, its threads and the hand-over of their loops | `EventLoopThreadProofs` |
| `TimeWheel` | the buckets of the echo server with an idle timeout | `ExampleProofs` |
| `Chat` | codec, server and clients of the chat, and the streams between them | `ChatProofs` |
| `FileServer` | the five programs that send a file | `ExampleProofs` |
| `Monitors` | latch, queue, copy-on-write list, inventory | `ExampleProofs` |
| `MC...` | the instances that TLC checks, where a module needs definitions for them | |

The modules describe one system at different grains. `EventLoop` shows that the
queue of a loop is a FIFO executor; `TcpConnection` and `TcpServer` then have
a queue. `Poller` shows that slots and indices are a table of channels;
`TcpConnection` has one entry of it, and `TcpServer` only whether there is one.
`EventLoopThread` shows that loops are dealt out in turn; `TcpServer` takes the next.
What `TcpConnection` knows of its server, the map entry and the queued removal,
is what `TcpServer` does to each connection.

### EventLoop

`pc` is the place of the loop thread in `EventLoop::loop()`: not in it (`idle`),
at `while(!quit_)` (`test`), in `poller_->poll` (`poll`), among the handlers
(`handling`), about to take the queue (`execute`), in the batch (`running`).
Each of the two critical sections of `mutex_` is one statement, so each is one
step: `PushBack` and `SwapQueue`. The local vector of `executeQueueFunctions` is
`tmp`. `queueInLoop` of another thread is two steps (`QueueFromThread`, then
`WakeupFromThread`), because the wakeup is outside the lock; `quit` likewise.
On the loop thread the calls are one step, since only the loop thread itself
reads what they change after the push. Callbacks are arbitrary: at any point
where user code runs on the loop thread (`InUserCode`), it may call the
operations any number of times, including a functor that queues itself.
`wakeupFd_` is the counter of the eventfd. `wakeup()` writes the value 0, and so
does the model. `poll` may always return, since it is given `maxWaitTimeM`.

`origin` is a history variable: where a pending functor was queued from.

`Executor` is the specification: pending functors, one current functor, submit,
start, finish. The refinement maps `pending` to `tmp \o funcQueue`; a swap is a
stutter.

### Poller

`pollfds_` is a sequence of slots, `channels_` a function on the registered
descriptors, `index_` counts from 0 as in the code and stays what it was when a
channel is removed. `UpdateChannel` and `RemoveChannel` are the two functions of
the Poller with their assertions (an assertion that fails sets `failed`, which
ends the behaviour, as `abort` does). The `swap`-and-`pop_back` of a removal is
`RemoveChannel`, with `MoveLast` for the index of the channel that moves.
The callers are the calls of a `TcpConnection`, in the phases of the loop in
which it can make them; `EnableWrite` after the close is a `sendInLoop` that was
queued before. `Shutdown` makes a connection `kDisconnecting` (`shut`) while its
channel still reads. `Remove` is the whole of `connectionDestryed`: it disables the
channel in `kConnected` only, and then calls `Channel::remove`, whose assertion may
fail. It is a functor, or, by `~TcpServer` through `runInLoop`, called in the middle
of a handler; `cut` is a history variable, the channels removed like that since the
last poll. Such a channel may still be handled in this iteration, closed again
(`HandleClose`), or destructed in its own handler (`Destroy`), and every one of these
sets `failed`. Handlers come in any order. The acceptor's, the timer queue's and the
wakeup channel only enable reading, which these calls include.

`PollSet` is the specification: a table from channels to what is watched, in which
setting or removing one entry leaves the others alone. The refinement looks a
channel's entry up through its `index_`, as the code does, so that a wrong index
after a removal shows as a change of somebody else's entry.

### TcpConnection

One connection, from the moment `onNewConnection` has put it into the map and
queued `connectionEstablished`, to the end of its destructor. The IO loop is the
one of `EventLoop`, with the queue as one sequence (which the refinement of
`Executor` justifies) and `batch` for how much of it belongs to the current
iteration; functors keep their `shared_ptr` until the batch vector dies (`ran`).
Of the Poller there is this connection's interest (`events_`), and its slot with
the events in it (`slot`, `mask`), which `disableWrite` does not change.

The socket is `wire` (all bytes written), `inFlight` (how many fill the send
buffer) and `finSent`; `peer` and `inbox` are what arrives. `WriteResult` is
`::write` on a non-blocking socket: what fits, or -1 when nothing fits (EAGAIN)
or the stream is shut down or reset (EPIPE).

`send` and `shutdown` of another thread are split where another thread can come
between: the test of `state_`, its assignment, the push of the functor. On the
loop thread they run within a callback. `closeCallback_` is
`TcpServer::removeConnection`, whose functor in the base loop is `removing`.
`ServerDtor` is the destructor of the server, which has `connectionDestryed` queued, or
calls it at once when the base loop is the IO loop, be it in a handler. A connection
whose last pointer goes while it is handled (`Unreferenced`) is destructed under its own
handler: `failed = "dangling"`. The functor of a write completion is bound to the data
member `writeCompleteCallback_`, so that it reads the member and calls nothing
(`QueueWriteComplete`, `RunWriteComplete`); what is left of it is its place in the queue
and its `shared_ptr`. An assertion that fails sets `failed`, and nothing follows.

### TcpServer

Each loop is a thread with what it is `call`ing and its `funcQueue`; loop 0 of a
server is its base loop. `RunInLoop(l, other, f)` is `runInLoop` at the end of a
call of the thread of `l`: it goes on with `f`, or queues it. With no threads
(`numThreads_ = 0`) the base loop is the IO loop, and every `runInLoop` is a direct
call; the same actions cover both. `connections_` is a map from names to
connections, a name being the index `connectionIndex_` in it. `Accept` reads that
index and `NewConnection` writes it back, one greater: it is a plain `static int`
that the base loops of all servers use.

Of a connection there is `state_`, its loop and descriptor, whether its channel
is in the poller (`registered`) and waits for events (`reading`), and whether the user
keeps a pointer (`held`). `shutdown` is two steps, as in `TcpConnection`:
`ShutdownTests` finds `kConnected` and `ShutdownAssigns` sets `kDisconnecting`, with
whatever the IO loop does to the connection in between; `shutting` is those that
threads are at, and keep alive. A pointer in the map, in a functor or with the user keeps it alive (`InUse`);
`Destruct` is the destructor, which closes the descriptor, so that the next
`Accept` may get it. The destructor of the server takes one step for each
connection, and IO loops run in between.

`ConnectionLife` is the specification: a connection is accepted on a descriptor
that no other has, goes up, goes down and is gone. Down is what its user is told of by
`handleClose`, or by `connectionDestryed`, which both disable the channel; so the
refinement maps a connection whose channel does not wait for events to "down".
`state_` alone will not do, since `ShutdownAssigns` may take it from `kDisconnected` back
to `kDisconnecting`.

### TimerQueue

`timers_` is the set of pairs of expiration and timer; `expiration_` and
`interval_` are the fields of `Timer`. Time is in ticks of the least delay of the
timerfd. `clock` is `Timestamp::now()`, which `SetClock` sets to any time, back or
forward, once (`clockSet`; a suspend is a step forward too); `lead` is a history
variable, how far forward it went. `timerfd_` counts down on its own, as
`CLOCK_MONOTONIC` does, is readable at 0 and stays so until it is armed, because
`handleRead` does not read it. `Poll` finds it readable; before `handleRead`, other
handlers of the iteration may add timers and arm it again. `handleRead` is
`HandleRead` (with `getExpired`), `Run` for each expired timer in the order of their
expirations, and `Reset`; while a callback runs (`ran` is not empty), `AddTimer` may
add timers. `AddTimerFromThread` and `RunFunctor` are `addTimer` on another thread.

### EventLoopThread

`pc` is where the base loop's thread is in `EventLoopThreadPool::start` and
`startLoop`; `thread[i]` is where the IO thread `i` is in `threadFunc`. The wait of
`startLoop` is `WaitForLoop`, which tests and blocks in one step, as the lock makes
it, `Notify` and `WakeSpuriously`. `GetNextLoop` indexes `loops_`; an index
past the end sets `failed`. `Quit` and `Wakeup` are the two halves of a `quit()` by
another thread; `LeaveLoop` is the end of `threadFunc`, which destructs the loop.

### TimeWheel

`buckets_` is the circular buffer, oldest bucket first. A connection has one `Entry`,
so buckets are sets of connections; what keeps an entry alive is being in a bucket
(`Held`). `OnTime` is `push_back`, which drops the first bucket of a full buffer, with
the destructors of the entries that no other bucket holds. `OnMessage` inserts the
entry once more, or a null pointer if it is gone. `idle` is a history variable: the
ticks since the last message. The buffer is constructed empty, so that a connection
before the first tick asks for the last bucket of none: `emptyBack`.

### Chat

muduo's `TcpServer`, `TcpClient` and `TcpConnection` are external: between a client and
the server there is a stream each way that delivers its bytes in order and in pieces
of any length, until it ends or is `cut`; a client whose connection closed connects again,
with a connection of its own. Bytes are told apart by the line they belong to, or are
those of a length. `OnMessage` is the loop of `LengthHeaderCodec::onMessage`, which
takes all whole messages and shuts the connection down over a length that is too long.
`ServerReads` is the handler of the server with the codec, `onStringMessage` and the
sends to all of `connects_`, `ClientReads` that of a client. `Write` and `WriteSend` are
`write` in the thread that reads the input: it holds `mutex_`, which `onConnection` does
not take, so that `conn_` may change between them (`failed`). `log` and `joined` are
history: what the server has sent on, and from where on each connection is told of it.

### FileServer

`program` is one of the five servers. `download` and `download_myself` send the whole
file and shut down; the other three send a chunk, and the next one in `onWriteComplete`.
`file` and `context` are the `FILE` and what the connection's context says of it, which
are not the same: `download2` and `download2_myself` close the file and leave its pointer
there when the connection goes, `download3_myself` has a shared pointer. muduo's
connection is external: `Send` writes what the socket takes and buffers the rest,
`HandleWrite` writes on, and when all is written a functor for `onWriteComplete` is
queued (`writeComplete`), which may run after `HandleClose`: one that a handler queued
(`due` is "now") before it can, one that a functor queued only after the next poll
("next"). `onConnection` of a new connection is called by the acceptor's handler.
`ReadClosed` is `onWriteComplete` on a `FILE` that `HandleClose` has closed: undefined
from its `fread` on, which may end it there (`failed = "closed"`), give bytes, which
nobody sends, or give 0, upon which the code closes the `FILE` again ("reclosed"). A file
is a number of bytes, since which bytes come next follows from how many went before.

### Monitors

The four examples share nothing, so a behaviour is one of them (`example`), with any
thread making any of its calls. What a thread does under one mutex is a step; a wait
gives the mutex up, and `WakeSpuriously` ends it without a notify. `lists` is every
`FooList` that was made, of which the last is `g_ptr`'s; `tmp` of a thread that
traverses keeps the list as it was. `process`, `print_all` and `~request` are split where
they hold one mutex and wait for the other. `~request` declares `MutexLock lock_(mutex)`,
which names no member and does not compile: it is taken as either of what it can mean, the
guard of `mutex_` that every other method has, or a lock of its own that excludes nobody.

## 3. Runs

| Run | Question | Result |
|---|---|---|
| `event_loop` | Is the queue with its batch a FIFO executor, does what a handler queues run in the same iteration, do queued functors run, does the loop keep polling, does `quit` end it? | yes |
| `event_loop_wakeup` | Does queueing a functor end the sleep in `poll`? (EventLoop.h:64) | no: `wakeup()` adds 0 to the eventfd |
| `poller` | Do array, map and indices behave as one table, is all interest polled for, do the assertions hold, are active channels alive? | yes, but for a late `sendInLoop`, a half closed connection that the server destroys, and a server that a handler destructs, see below |
| `connection` | Is the stream in order, the FIN after it, does the connection close once, and leave the poller before it dies? Is the buffer written, the FIN sent, a closed connection destructed? | yes, unless an assertion ends the program; the exceptions of `ClosesOnce` are a shutdown that races with the close and a server that a handler destructs |
| `connection_write` | Does a peer that is slow, or resets, leave the program running? (EventLoop.cc:14) | no: `assert(ret >= 0)` in `sendInLoop` and `retrieve(-1)` in `handleWrite` |
| `server` | Is every connection kept until it is removed, removed once, up before it is down, out of the poller before it dies, and destructed, also when the server is? Is a descriptor that comes back new to its poller? | yes, for one server; the shutdown race ends in the destructor's assertion |
| `timer_queue` | Is the timerfd armed for the earliest timer, each timer in one place, does each run, does the loop not spin before one is due, though the clock is set? | yes; late by as much as the clock was set forward |
| `loop_thread` | Are loops handed over initialised, by whatever order of notify and wait, and given out in turn? | yes |
| `time_wheel` | Is a connection shut down at the `num_buckets`-th tick without a message, and at no other? | yes |
| `chat` | Are messages decoded whole however the stream is cut, printed by all in one order, and never left in a buffer? | yes |
| `file_server` | Does the file arrive, then the FIN, with one chunk at a time in the buffer, and is the file closed when its connection is gone, and not used after that? | yes, with the exceptions that `FileIsReleased` names |
| `monitors` | Does a traversed list stay as it is, does every call return? | yes, but for the two deadlocks that the code points out (invenctory.cpp:43 and :55) |

In each module the type invariant `TypeOK` is a conjunct of one of the invariants;
for `EventLoop` and `EventLoopThread` it is proved instead (section 4).

**Bounds.**

* `event_loop`: three functors and two threads besides the loop's. Three functors
  make a batch of one with two more behind it in both orders, two threads let two
  pushes race with the swap. A functor is queued at most once at a time (`Pending`);
  it may be queued again while it runs or later, without limit, which is what
  could starve the loop.
* `poller`: four channels over three descriptors, one of which is 0. Three slots are
  the least in which a first, a middle and a last one differ; the fourth channel
  reuses the descriptor of another. At a time, one connection is half closed (`shut`) and
  one is removed by a destructor in a handler (`cut`): the constraint `Few`. The proofs
  have no such bound.
* `connection`: a message of one byte and one of two, a send buffer of one (`Room`), one
  thread besides the loop's callbacks. In either order a message fits the send buffer,
  or half of it does, or nothing does, and the second could overtake the buffered rest
  of the first. What the peer sends is one bit (`inbox`), since what the connection
  does with it does not depend on it. Messages are sent at most once, which bounds
  `wire`, and `shutdown` needs `kConnected`, which bounds the queue.
* `server`: three connections over two descriptors, so that one descriptor is used
  again while others are in use, and zero to two IO loops, so that two connections
  share a loop or do not. `Server` may be a set of several, which share `connectionIndex_`;
  the run has one, since two are known to break it (see below).
* `timer_queue`: three timers, each added once, at any time from 0 (the invalid
  `Timestamp`) to `MaxTime` or repeated with interval 1 or 2. At `MaxTime` the clock
  stands still, so that only timers up to it are claimed to run; the clock is set once,
  back or forward. Three timers are one that runs, one that it adds, one that waits.
* `loop_thread`: pools of up to three threads; `GetNextLoop` is counted up to
  twice for each loop (`MaxGiven`), after which a difference of two would show.
  The proofs are for every `MaxThreads` and `MaxGiven`.
* `time_wheel`: three buckets are a first, a middle and a last one; three connections
  are one in each. The proofs are for every number of both.
* `chat`: a client that types a short line and then an empty one, so that two messages of one
  connection may be exchanged, and a client that types a line that is too long for the codec
  and another behind it; two connections of the first client, so that it may come back
  between its lines; headers of two bytes, which can be cut; one connection that is dropped (`MaxCuts`).
* `file_server`: files of up to seven bytes, which is none, one and several chunks of two,
  with and without a rest, and a send buffer of three, which a chunk may fit or not.
* `monitors`: three threads, so that two wait while one acts; a latch of two, three items.

Connections are interchangeable in `TimeWheel`, functors and threads in `EventLoop`, and
in `Poller` the two channels that share a descriptor; symmetry is used only in runs of
safety properties. Deadlock is checked in
the runs of the event loop and of the timers; the others stop where an assertion
ended the program, when all connections are gone, when all calls are counted, or, as
`monitors`, in the deadlocks that it describes.

**Fairness.** Always of one kind: a thread that can run is scheduled (`WF` of the
loop's steps, of the second half of a call that was begun, of the base loop), and
what the code cannot make progress without: callbacks return, a user lets go of
the pointer it holds, the peer reads what it is sent. `poll` returns after
`maxWaitTimeM` at the latest, so that `Poll` needs no more than weak fairness.
In `TimerQueue`, time passes (`WF` of `Tick`), and a queued functor has strong
fairness: the loop runs it in each iteration however often the timerfd is
readable, and the model's `handleRead` disables it meanwhile. `EventLoopThread`
assumes no spurious wake-up. `FileServer` has `WF` of the loop and of a peer that takes
what it is sent. `Monitors` has `SF` of the rest of a call that was begun: a thread may find
the mutex taken whenever it tries, though it is free in between again and again.
No fairness is assumed of anything that users or peers may do or not do: calls of
`send`, `shutdown`, `quit`, `queueInLoop`, the FIN and RST of the peer, and `loop()`
being entered at all.

**Sensitivity.** Next to a definition, modules hold faulty forms of it (the comment
says "Faulty"): what a plausible bug at that place would do, such as taking one functor
of the queue, forgetting the index of a moved channel, or writing a message past
a non-empty buffer. With the faulty form in place of the definition, TLC finds the
property violated that `PROJECT.json` names under "mutants".

### What the code does and its comments do not say

Besides the comments and assertions that the violated runs are about:

* `poller`'s `AssertsHold` has three exceptions. The first is `late`: a `sendInLoop` that was
  queued while the connection was open and runs after its close enables writing on
  a muted channel (Poller.cc:35 never unmutes a slot), and then the assertion
  of `Channel::remove` (Channel.cc:51) fails; after the removal, the one of
  `updateChannel` does (Poller.cc:27). `TcpConnection` shows the same as
  `failed = "update"` and `"remove"`. The second is a connection in `kDisconnecting` that the
  server destroys while it reads (`failed = "remove"`, below). The third is a handler
  that destructs the server (`cut`): `runInLoop` then calls `connectionDestryed` at once
  (TcpServer.cc:40, EventLoop.cc:118), and the channel leaves the poller while it is in
  `activeChannels_`. Its events are still handled: `handleClose` aborts
  (`failed = "close"`; `"handleClose"` of `TcpConnection`), a channel that is destructed in its own
  handler fails the assertion of its destructor (`"handling"`), and one that is destructed
  before its handler is called through a pointer that dangles (`"dangling"` in both).
* The functor of a write completion never calls `writeCompleteCallback_`: it binds a pointer to
  the data member, which it only reads (TcpConnection.cc:92 and 140).
* A functor queued before `loop()` is entered, or between `poll` and the swap, is
  not announced (EventLoop.cc:131): the former waits for the first `poll` to end.
* `shutdown` on the loop thread overtakes a `send` that another thread has queued
  before (TcpConnection.cc:147 runs at once, line 116 is queued). The message
  then finds the stream shut down.
* `loop()` clears `quit_` (EventLoop.cc:59), so that a `quit()` before it is entered is
  undone. `startLoop` returns before its thread enters `loop()`, which makes this a
  race: `EnterLoop` of `EventLoopThread`.
* `quit()` by another thread sets `quit_` and then wakes the loop up
  (EventLoop.cc:157), which may be destructed by then: `failed = "dangling"` of
  `EventLoopThread`.
* `setThreadNums` after a `start` without threads makes `getNextLoop` index an empty
  vector (EventLoopThreadPool.cc:29): `failed = "index"`. `NextLoopExists` has this exception.
* `connectionDestryed` disables the channel in `kConnected` only (TcpConnection.cc:173),
  though TcpConnection.h:107 says that it can be called without `handleClose`. For a
  connection that a user has shut down, the destructor of the server ends in the
  assertion of `Channel::remove`: `failed = "remove"` of `TcpServer` and `TcpConnection`.
* `handleRead` of the `TimerQueue` never reads the timerfd (TimerQueue.cc:68). Arming
  it for another timer makes it unreadable, which is why `TimerfdIsNotLeftReadable`
  holds; it leaves out the case of no timer: after the last timer nothing does, and `poll` returns at once from then on.
* Timers are compared with the system's clock and the timerfd counts `CLOCK_MONOTONIC`
  (TimerQueue.cc): after the clock was set forward, or a suspend, timers are late by that
  much, `lead` of `ArmedForEarliest`.
* An expired one-shot timer is not deleted (TimerQueue.cc:80).
* `accept` that fails ends the program (LOG_FATAL, SockOptions.cc:53), for want of
  descriptors too: `AcceptFails` of `TcpServer`.
* Nothing resets the slot's POLLOUT after `disableWrite` (Channel.h:61), though
  TcpConnection.cc:90 says that it must be off: the poller keeps reporting it, and
  `handleWrite` logs. `InterestIsPolled` allows just this.
* `shutdown` on another thread tests `state_`, and `handleClose` on the loop thread may come
  between the test and the assignment (TcpConnection.cc:145): `kDisconnecting` then stays,
  and the assertion of the destructor fails. `ClosesOnce` names this exception
  (`failed = "dtor"`), and so does `PollersKeepOpenChannels` of `TcpServer`.
* `connectionIndex_` is one for all servers (TcpServer.cc:59). With two servers in two
  threads an index may be set back and a name repeat; a connection then takes the place of
  another in `connections_`, and removing the second finds none (TcpServer.cc:83).
* The wheel has no bucket before its first tick (echo_server.cc:64): `emptyBack`.
* The chat client's `write` says that it must lock the mutex to protect `conn_`;
  `onConnection` does not (chat_client_myself.cc): `failed` of `Chat`.
* A write completion that was queued before the close reads from a file that was closed
  (download2.cc, download2_myself.cc): `failed = "closed"`. If that read gives 0, the file is
  closed a second time (download2.cc:68, download2_myself.cc:45): `failed = "reclosed"`. `download3_myself` goes on with a
  null `FILE` when it cannot be opened: `failed = "null"`. `download_myself` never closes its
  file. An `fread` that fails looks like the end of the file (`readError`).
* `~request` may, as written, lock nothing (invenctory.cpp:54, which does not compile). What keeps
  a request alive while it is printed is `remove_`, which waits for the inventory's mutex. With
  the guard of `mutex_` that the line must mean, `~request` and `print_all` wait for each
  other, as process and `print_all` do: both comments "could cause dead lock!"
  (invenctory.cpp:43 and 55) are right, and `LockCycle` has both.
* A `TcpServer` that is destructed leaves its `this` behind in the close callback of
  its connections (TcpServer.cc:67). A connection that closes before
  `connectionDestryed` reaches it calls it; the models end there with
  `failed = "dangling"`. So does the removal of one that closed before.

## 4. Proofs

The proofs are for every value of the constants, of which they assume only what
the modules state by name: that "no functor" is not a functor (`NoTaskAssumption`), that
descriptors are natural numbers (`FdAssumption`), that "no descriptor" is not one of
`TcpServer`'s (`ServerAssumption`), that sizes, bounds and intervals are
numbers, and positive where the code needs it (`SizeAssumption`, `SizesAssumption`, `BoundAssumption`,
`NumBucketsAssumption`, `TimeAssumption`, `ChatAssumption`), and that no thread is called
"inventory" (`BoundsAssumption`). Each proof goes the same way: `Inv` is the
inductive invariant, a conjunction of named parts; a lemma for each action, or for those
that change the same state, shows that it keeps `Inv`; the properties follow from it.

`EventLoopProofs` proves for every set of functors and of threads, finite or not:

* `TypeCorrect`: `Spec => []TypeOK`.
* `HandlerTasksAreNotDelayed`: `Spec => []HandlerTasksRunInSameIteration`. A functor
  that a channel's callback queues is called before the loop tests `quit_` or polls
  again, which is why `queueInLoop` may leave the wakeup out on the loop thread.
* `LoopIsAnExecutor`: `Spec => AbstractExecutor!Spec`, the refinement.

The inductive invariant is `Inv`, three conjuncts. `TypeOK` and
`HandlerTasksRunInSameIteration` are not enough by themselves: that the swap
leaves `tmp \o funcQueue` unchanged needs that the batch is empty when the swap
is made, and that a functor which queues is not counted among handlers needs
that functors run only in the batch. `BatchOnlyWhileRunning` says both. The proof
has one step for each action. `PushKeepsHandlerTasks` is the part that the three
pushes have in common. The refinement rests on three lemmas about sequences:
`ConcatWithEmpty` (swap), `ConcatAppend` (push) and `HeadTailConcat` (start).

`EventLoopThreadProofs` proves for every size of the pool, and every number of calls:

* `TypeCorrect`: `Spec => []TypeOK`.
* `LoopsAreHandedOverInitialised`: `Spec => []HandedLoopsAreInitialised`.
* `NextLoopAlwaysExists`: `Spec => []NextLoopExists`.
* `LoopsAreGivenInTurn`: `Spec => []GivenInTurn`.

Its `Inv` says of the state what the properties say of the results. `LoopsInOrder`:
`loops_` holds the loops of threads 0, 1, ... in that order, each published, and there are fewer
than `numThreads_` of them while `start` goes on. `PublishedInTime`: published means past
`initCallback_`, and threads to come do not exist yet, without which `CreateThread` could
send a published one back. `IndexInTurn`: loops below `nextIndex_` were given out once
more than those from it on, and equally often among themselves; that none is two ahead
of another is not inductive alone. The waiting step and `getNextLoop` have lemmas of
their own (`WaitForLoopInv`, `GetNextLoopInv`, with `Wraps` for the modulo); `PoolKept` is
the part that all steps of IO threads have in common.

`PollerProofs` proves for every set of channels and every assignment of descriptors:
`StructuresAgree` (`PollfdsMatchChannels`), `AllInterestIsPolled` (`InterestIsPolled`),
`AssertionsHold` (`AssertsHold`), `HandledChannelsAreRegistered`
(`ActiveChannelsAreRegistered`) and `PollerIsAPollSet`, the refinement. `MapIsRight` and
`SlotsAreRight` say of the map and of the array that each leads to the other through
`index_`; both are needed, since a removal finds the slot by the index and the moved
channel by the slot. `FdsDiffer` says that open descriptors differ, without which a
channel would take over the entry of another. `ReadersAreRegistered` and `ClosedIsMuted` carry
the assertions: a channel that was disabled waits for nothing until a late `sendInLoop`, so
that only one that reads in `kDisconnecting` is not `Removable`. `ActiveInHandlers` bounds
the time in which raw pointers are kept; within it, an active channel is alive and
registered, or is one that a destructor of the server in a handler has removed (`cut`),
for which no more is claimed than what the assertions then say. The refinement has one
lemma for each action, that all other channels keep their slots (`OthersStay`,
`SlotsStay`), although the last slot moves into the one that is removed.

`TcpConnectionProofs` proves for all messages, sizes, send buffers and threads:
`OpenBuffersArePolled` (`BufferedMeansWriting`), `FinComesAfterTheBuffer`
(`FinAfterBuffer`), `ConnectionsCloseOnce` (`ClosesOnce`) and `RemovedBeforeDestruction`
(`DestructedAfterRemoval`). The invariant relates `state_` to the slot of the channel
(`StateMatchesSlot`), up to the shutdown race; it says that `connectionEstablished` is the
first functor and the only one of its kind (`EstablishedFirst`), before which no thread
knows the connection (`NoCallBefore`), so that everything else finds a channel in the
poller; that the server drops a connection after its close or in its destructor
(`KeptUntilClosed`), which makes `handleClose` and the removal happen once; and that one
which left the map is removed from the poller or has `connectionDestryed` queued
(`DestroyedIsQueued`), so that an empty queue, which the destructor needs, means removed. The
destructor of the server that calls `connectionDestryed` at once has a lemma of its own
(`DestroyAtOnceOnly`): it can fail in the assertion of the removal only.
`SendInLoopKeeps` is what the two callers of `sendInLoop` have in common.

The fifth theorem there is `StreamIsKept` (`StreamIsInOrder`): for any number of messages of
any size, what was written and what is buffered are their bytes in the order in which
`sendInLoop` took them. `Stream` is a recursive function on the number of messages. The
provers do not have induction as a rule, so it is written out: if some number of messages
had no such function, there would be a least one (`LeastNatural`, from the order of the
natural numbers being well founded), which is not 0 and does not follow its predecessor.
`StreamsExist` and `StreamsAgree` give `StreamAppends`, after which `FirstAndRest` and the
associativity of concatenation do the rest. That a message is written past a non-empty
buffer never, since `WritesAtOnce` tests it, is the one place where the order could go.

`TcpServerProofs` proves, for any connections, descriptors and numbers of threads:
`OpenAreKept` (`OpenConnectionsAreKept`), `PollersAreRight` (`PollersKeepOpenChannels`) and
`Implements`, the refinement of `ConnectionLife`. They have the hypothesis `OneServer`, that
there is at most one server: with two, names repeat (see above), which is what
`connectionIndex_` does in the code and not a limit of the proof. What is left to show for
one server is that its own loops, users and destructor, in any order and with the shutdown
race between them, lose no connection. The invariant `Inv` has
three layers. Queues: every functor is called or queued at most once (`Distinct`), in
the loop that its connection belongs to, `connectionEstablished` before
`connectionDestryed`. Names: those of live connections differ, as do their descriptors,
and the one that is being accepted is new (`AcceptedIsNew`); no removal runs while the
destructor goes through the map (`NoRemovalInDtor`). And for each connection,
`Fits` says which functors may be pending in each `state_`: one that is new has
`connectionEstablished` queued, a queued removal finds its connection down and in the map,
a queued `connectionDestryed` one that left the map; and a connection that is new or in its
poller is in the map or has `connectionDestryed` queued (`WillEnd`). There, `reading` and not
`state_` says whether a connection is down, since a shutdown may assign `state_` after the
close; a channel that waits for events is registered, and its state is one that
`handleClose` accepts. What the loops do to their
queues comes in four ways (a call returns, goes on, is queued or is taken from the queue), each
with its lemma, so that the lemma of an action speaks of connections only.

`TimerQueueProofs` proves for all timers and intervals: `EarliestIsArmed`
(`ArmedForEarliest`) and `TimersHaveOnePlace` (`OnePlacePerTimer`). That `reset` leaves the
timerfd alone when the earliest time is invalid is right only because the insertion of
such a timer has armed it (`InvalidIsArmed`). That a set of entries has an earliest one
(`EarliestExists`) comes from the order of the natural numbers being well founded, for
infinite sets too. Setting the clock changes every delay at once; `LaggingBehind` and `CountedDown`
bound what it and a tick do to one, with `LeadIsOfSetting` for the first setting being the
only one. `Places` says where a timer is without counting; the cardinalities
of the property are computed from it at the end (`PlaceOf`).

`ChatProofs` proves for any clients, connections, lines, sizes and header length:
`LinesComeInOrder` (`SpeakersAreInOrder`), `AllPrintTheLog` (`PrintedIsTheLog`) and
`BuffersAreEmptied` (`NothingStaysBuffered`). None of the three is inductive: they speak of
messages, and a step moves bytes. The invariant says what the bytes are. `Underway(h, b, s)`:
of the messages `s`, those of `h` have been decoded, and the bytes `b`, in the receiver's
buffer and behind it in the stream, begin as the encoding of the others does; `AllThere` is
the same with all of them. `ServerSide` says this of what was sent to the server and
`ClientSide` of what the server sent on, as long as the connection is not cut and the
sender's end is there. `BuffersAreDecoded` says that no buffer holds a whole message, and
`StatesFit` which states of the two ends go together: if the server's is closed and
nothing was cut, the client is not connected any more, so that `NothingStaysBuffered`
never meets a stream that lost its end. The argument has four steps: `Stream` and `From`
exist and grow at their end (`StreamAppends`, `StreamConcat`, `FromConcat`); a buffer that begins
as the stream does has the next message and no other (`HeaderOfNext`, `MessageIsNext`), whose
length is the one in its header; a turn of the loop keeps that (`TurnDecodes`), and as many
turns as there are bytes leave no message behind, as each takes one at least
(`OnMessageDecodes`); `Reading` then says what a read of any piece of the stream does to
`Underway`. Lines that are too long take part: nothing behind one is ever decoded.

`Chat` recurses by recursive functions, and induction is written out as in
`TcpConnectionProofs`; `Iteration` does it once, for any function that is iterated.

`ExampleProofs` has the proofs about three examples that share nothing: it extends `FileServer`,
`TimeWheel` and `Monitors`, whose invariants are `Inv`, `WheelInv` and `SharedInv`.

* For files, chunks and send buffers of any size: `BufferHoldsOneChunk` (`OneChunkAtATime`)
  and `FilesAreReleased` (`FileIsReleased`), which exempts `download_myself`, as the code does.
  That a write completion finds the buffer empty (`CompleteMeansWritten`) bounds the buffer
  by one chunk. That the context of a connection that is up has the pointer of an open file
  or none (`OpenIsInContext`) keeps `handleClose` from closing twice; and a file that was closed
  before the connection went has nothing left to write (`ClosedIsLast`), so that only a
  completion after the close can read from it, and close it again.
* For every number of connections and of buckets: `IdleConnectionsAreShutDown`
  (`IdleIsShutDown`) and `ActiveConnectionsAreKept` (`ActiveIsKept`). Both follow from where
  the entry of a connection is: in the bucket that was the last one when it spoke last, and
  in no later one (`InBucketOfLastMessage`).
* For any threads, and any length of list and queue: `TraversalsAreStable`
  (`TraversedIsStable`). `InventoryOK` adds that whoever has requests to print holds the mutex of
  the inventory, which is what keeps `remove_` of `~request` out, whatever its own lock is.

Only model-checked are the liveness properties, since the proof system handles neither
fairness of this kind nor ENABLED. Every safety property of a passing
run is proved, those of `TcpServer` for programs with one server.

## 5. Not modelled

* `Socket` and `SockOptions`, wrappers of system calls without a state of their own: what
  `::write`, `::shutdown`, `::close` and `::accept` do is part of the modules that call them.
* `Timestamp`, a number; the code includes muduo's.
* The mains of the library and of the examples; the echo and daytime servers, whose
  callbacks keep no state; the protobuf dispatchers, which choose by type, once.
* `post_wrong_version2` of `post_and_traverse.cpp`, which the code calls wrong;
  `singleton.hpp`, one call of `pthread_once`; `wrongExample.cpp`, a class that hands
  `this` out in its constructor.
* muduo, which the examples run on: modelled as far as they use it, and marked external.
* In `EventLoop`: `runAt`, `runAfter` and `runEvery`, which forward to the TimerQueue
  (`RunAt` and `RunEvery` there are what they ask for); `assertInLoopThread`, since each
  action is by the right thread by construction; the destructor.
* In `Poller`: the error of `::poll` (logged), POLLERR and POLLNVAL; the channel of an
  acceptor that is destructed without being removed (see `TcpServer`).
* In `TcpConnection`: socket options, the high-water callback, and what is read.
* In `TcpServer`: that the acceptor's channel stays in the poller after the server's
  end; batches (handlers may come between any two functors, which allows more than
  the code does); the name of the server, which is the same prefix for all its connections.
* In `TimerQueue`: its destructor, and the order of timers with the same expiration,
  which is that of their addresses.

## 6. Plan

All components with a state are modelled, as far as section 5 does not say otherwise. Left:

1. `TcpConnection` as an implementation of `ConnectionLife`, and of what `TcpServer` has of
   a connection.
