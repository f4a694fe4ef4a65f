# TLA+ verification of the Ronald web server

A TLA+ development of the C++ network library in this repository: a reactor with
one `EventLoop` per thread, TCP connections on top of it, an asynchronous
logger, a timer queue, an LFU cache and a memory pool. TLC checks the modules on
small instances; TLAPS proves the safety properties of the event loop,
connection, server, logger, log file, timer queue, buffer, cache and memory pool
for every instance.

`PROJECT.json` holds the machine-readable side: components, runs, the map from
definitions to source lines, the mutants that show each property can fail, the
findings, the hazards and the theorems. Module comments and `.cfg` comments say
what is abstracted and why the bounds are what they are; this file gives the
overview.

## 1. Inventory

| Component | State it keeps | Operations | Interacts through | Hard part |
|---|---|---|---|---|
| `EventLoop` | `pendingFunctors_` (mutex), `quit_`, `looping_`, `callingPendingFunctors_`, the eventfd | `loop`, `quit`, `runInLoop`, `queueInLoop`, `wakeup`, `handleRead`, `doPendingFunctors` | functors from any thread; callbacks of channels | a wakeup may be lost between the swap of the functors and `epoll_wait`; `quit` races the start |
| `EPollPoller::poll` | `events_`, which grows | `poll`, `fillActiveChannels` | called by the loop | a full `events_` starving a channel |
| `Channel` + registration | `events_`, `index_`, `channels_`, the kernel's epoll set | `enable*`, `disable*`, `remove`, `updateChannel`, `removeChannel` | called by owners of channels, dispatches callbacks | user-side and kernel-side registration drifting apart |
| `EventLoopThread`, `Thread` | `loop_`, the thread, a semaphore | `startLoop`, destructor, `threadFunc` | owner thread and child thread | publication of a stack object; unlocked reads in the destructor |
| `EventLoopThreadPool`, `ConsistentHash` | `loops_`, `circle_`, `sortedHashes_` | `start`, `getNextLoop`, `addNode`, `removeNode`, `getNode` | chosen by `TcpServer` for each connection | ring boundaries, hash values as indices |
| `TcpConnection` | `state_`, output buffer, channel | `send`, `sendFile`, `shutdown`, `connectEstablished`, `connectDestroyed`, four handlers | user threads, io loop, base loop, peer | calls that cross a close; order of direct, buffered and file writes; partial writes |
| `TcpServer`, `Acceptor` | `connections_`, `nextConnId_`, the listening channel | `start`, `listen`, `handleRead`, `newConnection`, `removeConnection*`, destructors | base loop, io loops, user threads that hold a connection | lifetimes across loops; descriptors running out; the end of `main` |
| `Buffer` | a vector and two indices | `append`, `retrieve*`, `readFd`, `makeSpace` | used by connections | growth, moving, the spill of `readv` |
| `TimerQueue`, `Timer` | a set of timers, a timerfd | `addTimer`, `handleRead`, `reset`, `resetTimerfd` | loop thread, any thread through `runInLoop` | a timer left without an alarm |
| `AsyncLogging` | two front buffers, the queue, two spare buffers | `append`, `start`, `stop`, `threadFunc` | every thread that logs; one backend | condition variable without predicate, swap and rotation of buffers |
| `LogFile`, `FileUtil` | the current file, sizes, times, a counter | `append`, `flush`, `rollFile` | used by the backend | rolls by size and by day, several clock readings |
| LFU cache | `nodeMap_`, `freqToFreqList_`, `minFreq_`, totals | `put`, `get`, `purge`, ageing, sharding | any thread, one mutex per shard | `minFreq_` and the totals staying right |
| Memory pool | block chain, `curSlot_`, `freeList_` | `allocate`, `deallocate`, `allocateNewBlock` | any thread, two mutexes | one list under two locks |
| `Logger`, `LogStream`, `FixedBuffer` | one line, on the stack | `<<`, `~Logger`, FATAL | `AsyncLogging`, as `main` connects them | a line that does not fit; numbers; `abort` with lines in memory |
| `Timestamp`, `InetAddress`, `CurrentThread` | none that outlives a call | formatting and wrappers of system calls | | not modelled |

What makes each correct is stated in section 3; the hazards with their source
lines are in `PROJECT.json`.

## 2. Modules

| Module | Models | Extends / uses |
|---|---|---|
| `SerialExecutor` | what a loop promises: functors run one at a time, in order, once | |
| `EventLoop` | `EventLoop.cc` and `EPollPoller::poll`; implements `SerialExecutor` | `INSTANCE SerialExecutor` |
| `EventLoopThread` | `EventLoopThread.cc`, `Thread.cc` | extends `EventLoop`: the composition of the two |
| `ChannelPoller` | `Channel` and its registration, as operators on a record | |
| `TcpConnection` | `TcpConnection.cc`, the part of `TcpServer.cc` and of the io loop that one connection sees, the peer; implements `ConnLife` | extends `ChannelPoller`, `INSTANCE ConnLife` |
| `ConnLife` | what the user of a connection may rely on: one UP, at most one DOWN after it | |
| `TcpServer` | `TcpServer.cc`, `Acceptor.cc`, the accept and close of `Socket.cc`, the end of `main.cc`; every connection implements `ConnLife` | extends `LoopPool`, `INSTANCE ConnLife` |
| `LoopPool` | `EventLoopThreadPool.cc`, `ConsistenHash.h`: state and operators for `TcpServer` | |
| `Buffer`, `TimerQueue`, `LfuCache`, `MemoryPool`, `LogFile` | the components of these names | |
| `AsyncLogging` | `AsyncLogging.cc/.h` | |
| `Logger` | `Logger.cc/.h`, `LogStream.cc`, `FixedBuffer.h`, the part of `main.cc` that connects them | extends `AsyncLogging`: the composition of the two |
| `MCSequential` | `Buffer`, `LogFile` and `LfuCache` for TLC, one of them per behaviour | extends the three |
| other `MC...` | constants and symmetry sets for TLC | the module they are named after |
| `SeqFacts` | lemmas on sequences for the proofs | `SequenceTheorems`, `TLAPS` |
| `EventLoopProofs` | theorems about `EventLoop` and `EventLoopThread` | extends `EventLoopThread` |
| `LoggerProofs` | theorems about `AsyncLogging`, `Logger` and `LogFile` | extends `Logger`, `LogFile` |
| `TcpConnectionProofs` | theorems about `ChannelPoller` and `TcpConnection` | extends `TcpConnection` |
| `TcpServerProofs` | theorems about `LoopPool` and `TcpServer` | extends `TcpServer` |
| `MemoryPoolProofs`, `TimerQueueProofs` | theorems about these components | the module they are named after |
| `ContainerProofs` | theorems about `Buffer` and `LfuCache` | extends both |

Definitions whose names begin with `Mut` are not part of a specification: each
is a plausible slip in the code, and `PROJECT.json` says which property catches
it.

### How state and steps correspond to the code

*Steps.* A step is the code between two points at which another thread can
interfere: an atomic access, a critical section, a system call, one call of user
code. Where the code reads shared state without a lock and uses it later
(`~EventLoopThread`, which reads `loop_` once to test it and once to use it,
`TcpConnection::shutdown` and `send` from another thread,
`MemoryPool::allocate`, `LogFile::append`, which reads the clock twice), the
reads are separate steps or separate choices. User code is a state of its own in
which the loop thread may call back into the library.

*EventLoop.* `pc` says where the loop thread is, `tpc` where every other thread
is (about to write to the eventfd, or idle). The eventfd is its counter.
`functors` is the local variable of `doPendingFunctors`. `queued` and `executed`
are histories. A functor is handed over at most once, so that it has an
identity. `EarlyUse` lets the loop's own thread call the library before
`loop()`, as the thread init callback and `main` can.

*TcpConnection.* The io loop is taken to be what the `EventLoop` module was
shown to be: rounds of callbacks, then the batch of functors queued by then, in
order. Bytes have identities, so loss, repetition and reordering show; those of
messages (`wire`, against `sent`) and those of the file (`fileWire`) are counted
apart, since messages may land in the middle of a file. Writes may be partial,
may block, and fail with EPIPE or ECONNRESET after a reset. Any other error,
such as ETIMEDOUT when a peer stops answering, leaves `faultError` unset:
`sendInLoop` and `sendFileInLoop` go on as after a short write, buffer what they
have and ask for EPOLLOUT, after the FIN too. The peer sends, closes, resets or
stops answering at any time. The connection is taken to live in a subloop; if it
lives in the base loop, `removeConnectionInLoop` runs at once, which is one of
the interleavings of the model. `SigpipeIgnored` and `StringsOutlive` say what
the application does; the library requires neither.

*TcpServer.* A loop is the serial executor that `EventLoop` implements, with the
channels registered at it; user threads and destructors interleave with it. What
matters is who holds what: a connection exists as long as the map, a thread or a
functor that binds a `TcpConnectionPtr` holds it (`Alive`), and its descriptor
is open exactly as long. The functor of `shutdown` binds a plain `this`, the
close callback a plain `TcpServer*`, a channel is a plain pointer of its poller.
`Quit` stands for the call that ends the main loop; from there on the order is
that of `main`: the sweep of `~TcpServer`, the threads quit and joined one by
one, the functors that did not run destroyed with their loop, then the server,
then the base loop. The bytes of a connection are left to `TcpConnection`.

*Logger.* A piece of a line is a text, of which the length is kept, or an
integer, which is turned into characters as `formatInteger` does it. A message
becomes a line of `AsyncLogging` whose length is what fitted. Digits and lengths
are there for `LineText`, which is about the two of them. The prefix for a saved
errno is left out: every `Logger` is made with errno 0.

*AsyncLogging.* A buffer is its lines and its size, a vector of buffers is its
lines and its length. Null pointers are Booleans.

*LfuCache.* One record per shard; ageing visits `nodeMap_` in every order an
`unordered_map` may have. When `minFreq_` names an empty list, `kickOut` takes
its dummy tail, whose key is `Key()` or was left uninitialised by `Node()`: any
of `DummyKeys`, cached keys among them. The node of that key then stays in its
list without being in `nodeMap_`; the lists hold such an orphan as `<<k>>`.
*MemoryPool.* Addresses are numbers modulo the width of `size_t`. *TimerQueue.*
Times are kept relative to now, which makes the state space finite; the wall
clock and the clock of the timerfd advance together, except that the wall clock
may be set ahead or back once.
*LogFile.* Seconds; a file is its size and the age of what stdio holds. The wall
clock may go on or be set to anything between any two calls and between the two
readings of one append. Three histories serve the properties: `late` counts the
appends to a file whose day is over, `below` is how far below zero `count_` was
when the process started, `setBack` says that the clock went back since the file
is there.
*LoopPool.* A hash function maps the names into a ring of `RingSize` values
without collisions, as one may take 64 bits to do for a few names; TLC takes
every order of the points. `sortedHashes_`, a sorted vector of different values,
is the set of its values.

## 3. Runs

The passing runs (bounds in the `.cfg`; each finishes within five minutes):

| Run | Shows |
|---|---|
| `EventLoop` | no wakeup is lost (`NoLostWakeup`); functors are neither lost nor repeated nor overtaken (`QueueOrder`); every functor runs (`EveryFunctorRuns`) and `quit` is honoured (`QuitHonoured`) without help from I/O or from the poll timeout; the eventfd is drained though `events_` starts with one place (`WakeupHandled`); the loop implements `SerialExecutor`, its liveness included (`ExecutorSpec`) |
| `EventLoopThread` | until somebody quits, the pointer `startLoop` returned and the destructor reads twice stays good (`StartedLoopIsLive`); a destructor that finds the loop running joins it (`JoinsRunningLoop`) |
| `TcpConnection_threads` | whatever calls cross whatever close: kernel and channel agree on the registration (`EpollAgrees`); write interest exactly while output waits (`WritingIffBuffered`); messages reach the peer in the order of the sends, spoilt only where the caller's string died, and a file in its own order (`StreamOrder`); the FIN of a connection that is neither closed nor broken goes only when all that `sendInLoop` was given is on the wire (`FinAfterOutput`) |
| `TcpConnection_live` | the life of the connection is that of `ConnLife`: one UP, at most one DOWN and that after it, although `shutdown` may overwrite a close (`LifeSpec`); a peer that goes leads to the release of the connection by poller and server (`PeerGoneReleases`); a shutdown with output pending ends in FIN (`ShutdownSendsFin`) |
| `TcpServer` | while loops run, the connections their channels and functors name exist (`ConnectionOutlivesUses`); no close can call a server that is gone, nothing is queued for a loop that has ended (`ServerOutlivesUses`); a connection whose peer has gone gives its descriptor back, though close, `shutdown` and the end of `main` run into each other and functors are dropped (`DescriptorReturned`); a waiting client is accepted, after a time without descriptors too (`BacklogServed`); every connection has the life of `ConnLife` (`LivesSpec`) |
| `Logger` | a line with room for a number to spare holds all that was logged, a longer one some of it, in order and with its numbers right (`LineText`); lines in order, none lost while running (`LogOrder`, `EveryLineFlushed`); spare buffers always there (`SparesReady`); no full buffer slept over (`FullBufferNotified`); `stop` ends the backend though its notify can come too early (`StopEnds`) |
| `MCSequential` | of the buffer: indices stay in order (`IndicesOK`), what is readable is what was put in and not yet taken, in order (`ReadableIsFifo`). Of the log file: a file takes at most `checkEveryN_` lines past its day, more only by what an uninitialised `count_` was below zero (`RollsAfterDay`), and after an append nothing older than `flushInterval_` is in stdio (`FlushLag`), both unless the clock was set back in the time of the file; `writtenBytes_` stays above `rollsize_` only while the clock is not past the second of the file's creation (`OversizeIsYoung`). Of the cache, through ageing, eviction and `purge`: capacity (`WithinCapacity`), an exact `minFreq_` (`MinFreqExact`), a total that never falls below the frequencies (`TotalCoversFreqs`), a victim that is a least used key unless ageing has changed its frequency (`LeastUsedEvicted`) |
| `MemoryPool` | three threads: no memory is handed out twice (`Exclusive`) or outside a block (`InsideBlock`) |
| `TimerQueue` | the alarm is never later than the earliest timer when the loop polls (`TimersArmed`); every timer runs (`EveryTimerRuns`); both unless the wall clock was set back |

Three runs expect a violation, each of something the repository says of itself:

- `EventLoopThread_lost_quit` (`DestructorReturns`). `quit()` comes between the
  publication of `loop_` and `loop()`, which sets `quit_ = false`
  (`EventLoop.cc:79`); the destructor then waits in `join()` for ever.
- `TcpConnection_gives_up` (`GivesUpWriting`). At `kDisconnected` `sendInLoop`
  logs "disconnected, give up writing" and then writes, or buffers and registers
  the channel again (`TcpConnection.cc:86`).
- `LogFile_uninitialised` (`ChecksEveryN`). The day is to be looked at after
  `checkEveryN_` writes (`LogFile.h:19`, `:71`); with a `count_` that starts
  below zero, which no constructor prevents, it takes more.

Deadlock is checked in every run but `EventLoopThread`: a loop whose callback
quits it before `startLoop` has looked leaves `startLoop` waiting for ever
(`EventLoopThread.cc:32`). Where a bound ends the behaviour, a stuttering step
with its own name stands for the end.

### What the properties leave room for

The models contain the following behaviour, and the properties are stated so as
to hold in spite of it. In each case a comment or the README of the repository
says otherwise.

- A functor that the loop's own thread queues before `loop()` writes no wakeup
  and waits for the poll timeout (`EventLoop.cc:149`); the `EventLoop` run and
  `WakeupNeverLost` exclude it with `EarlyUse = FALSE`.
- A send that crosses the close logs "give up writing" and does not
  (`TcpConnection.cc:86`, run `TcpConnection_gives_up`); it may put the closed
  channel back into epoll, and a second DOWN may follow. What it writes or
  buffers then is not claimed to arrive. In `TcpConnection_live` other threads
  only shut down. `sendFileInLoop` on a closed connection queues itself for ever
  (`:286`). What is left of a file is a functor, so a `send` may land in the
  middle of the file (`:312`). A send from another thread binds a pointer into
  the caller's string (`:72`). Nothing ignores SIGPIPE (`:94`).
- `shutdown` waits for `outputBuffer_` only (`TcpConnection.cc:154`). A `send`
  of another thread that has tested `state_` or is queued when the FIN goes is
  lost, and what is left of a file is cut off.
- After an error of `write` other than EWOULDBLOCK, EPIPE and ECONNRESET the
  bytes are buffered for a socket that cannot send any more
  (`TcpConnection.cc:108`), and `sendFileInLoop` repeats itself (`:300`).
- A functor of `shutdown` that is queued when the connection has already left
  the map can outlive the connection (`TcpConnection.cc:148`).
- `connectDestroyed` of a connection in `kDisconnecting` calls nobody: a server
  that goes away during a `shutdown` gives no DOWN (`TcpConnection.cc:173`).
- Without descriptors the base loop spins in `handleRead` (`Acceptor.cc:66`).
- `AsyncLogging::threadFunc` drops what the front end holds at `stop`
  (`AsyncLogging.cc:58`), and `buffers_` has no limit (`:18`). The FATAL line
  itself is lost: `~Logger` flushes stdout and aborts while the line is in a
  buffer of `AsyncLogging` (`Logger.cc:107`; `main.cc` sets no flush function).
- The time of a line is cut after 17 of its 19 characters, so it has no seconds
  (`Logger.cc:88`). A number finds no room where a text of its length would
  (`LogStream.cc:9`), and a piece that fits exactly is dropped though there is
  "enough available space" (`FixedBuffer.h:22`); `LineText` says which lines are
  whole and not what is missing from the others.
- A wall clock that is set back makes the alarm come early: nothing is due, and
  nobody sets the timerfd again until a timer is added ahead of all others
  (`TimerQueue.cc:120`).
- Ageing in the LFU cache forgets the totals (`LFU.h:293`); shards round their
  capacity up (`:329`); frequencies from INT8_MAX on stop eviction (`:307`).
  `kickOut` then takes a dummy, and if its key (`:29`) is a cached one, a node
  that `nodeMap_` has lost stays in its list (`:215`). `WithinCapacity` excepts
  the first, the properties of `minFreq_` and the victim the second.
- Clearing `freeList_` under the wrong mutex loses slots and lets `allocate`
  dereference a null one; the padding wraps for slot sizes that are no power of
  two (`memoryPool.cc:92`, `:99`).
- `removeNode` deletes none of the virtual nodes, so the node is still found
  (`ConsistenHash.h:50`, `:58`); `getNode` takes the first point above the key
  where its comment says "greater than or equal", and returns the hash of the
  node in place of the node (`:70`, `:84`), which `getNextLoop` uses as an index
  (`EventLoopThreadPool.cc:39`); an empty ring throws (`ConsistenHash.h:80`). No
  property is stated of the lookup.
- A file that is full in the second of its creation goes on growing, with a
  clock that is set back until it is past that second again (`LogFile.cc:32`);
  an append then flushes nothing either (`:85`). `count_` is not initialised
  (`:65`, run `LogFile_uninitialised`). The file is rolled when its size exceeds
  `rollsize_` (`LogFile.h:40`), not when it reaches it (`LogFile.h:17`), and
  `writtenBytes_` leaves out what a failing `fwrite` let through.

### Bounds

Threads: two beside the loop is where two foreign calls can overlap; three in
the memory pool, for a pop, a push and a new block at once. Functors: three give
a batch, a functor queued during the batch and one after it; the eventfd
saturates at 2 so that a failing `write` happens. Messages: two, which the loop
may send and another thread the longer one, in parts, beside a file of two
bytes; in `TcpConnection_threads` the caller's string may die before its functor
runs and SIGPIPE is ignored so that behaviour goes on, in `TcpConnection_live`
SIGPIPE ends the process, as in the code. Log lines: eight fill more buffers
than the two that are recycled. A line has 80 bytes, so that the messages of the
run fit, fit exactly, lose a number, lose a text or lose their newline. LFU:
more keys than places, accesses through repeated ageing, and an INT8_MAX that
frequencies reach and pass. Timers: three, on delays around the minimum of one
tick; the clock is set by more than the shortest of them. Log file: days of two
seconds and a clock that shows four, so that it can pass a day, be set ahead
over one and back before it; files of three bytes and lines of one or two, so
that a file is filled exactly, exceeded, and exceeded without being counted; two
lines per look at the day, and a `count_` that starts one below or above.
`MCSequential` holds three components that do not touch one another, so a
behaviour is one of a single component and the others stand still. Server: three
loops, as `main` has, and two clients, so that one connection ends while the
other begins, with descriptors for one or for both. Ring: one point per node
instead of three, in every order with the key. What the bounds cut off is the
length of behaviours, not a branch of the code; for everything proved in section
4 the proofs remove them.

### Fairness

*EventLoop:* the loop thread, threads inside `queueInLoop`/`quit` and returning
user code are scheduled (weak fairness), and `epoll_wait` returns if the eventfd
is readable; not assumed: I/O, the poll timeout, that anybody queues or quits.
*EventLoopThread:* the same and the owner's calls progress. *TcpConnection:*
threads that can run do; a peer that neither closes nor resets reads in the end,
hence strong fairness of a poll that reports the socket writable: TCP flow
control makes it writable again and again, not continuously. *Logger:* the
backend is scheduled, `wait_for` ends by its timeout, a thread in `~Logger` goes
on. *TcpServer:* loops, the acceptor and the destructors are scheduled, and a
thread that holds a connection lets go of it; not assumed: that anybody
connects, closes or quits. *TimerQueue:* time passes and each round of the loop
runs the pending functors.

## 4. Proofs

Checked by TLAPS, for every value of the constants that satisfies the named
assumptions of the modules.

`SeqFacts` holds the lemmas on concatenation, `Append`, `Tail` and least
elements that the others rest on.

*EventLoopProofs.* `TypeCorrect`. `WakeupNeverLost` assumes `~EarlyUse`: without
it the property is false (section 3). `NoLostWakeup` speaks of the moment in
which the loop is in `epoll_wait` and is not inductive: a functor can arrive
anywhere in the round. The inductive invariant `IInv` adds that
`callingPendingFunctors_` is set exactly while a batch is run (`CallingMatches`:
only then `queueInLoop` from a functor writes to the eventfd) and that a pending
functor or a `quit_` is *covered* at every point from which the loop reaches
`epoll_wait` without a swap (`PendingCovered`, `QuitCovered`). `FunctorsInOrder`
proves `QueueOrder`, and `LoopIsExecutor` from it the safety part of the
refinement: `pendingFunctors_` and the batch together are the executor's queue.
`ThreadRunsLoop` shows that every step of `EventLoopThread` is one of its loop
or leaves the loop alone, so these theorems hold in the thread; on top of it
`StartedLoopStaysLive` needs `ThreadInv`: `loop_` is set exactly while the child
is in `loop()`, nobody comes out of `startLoop()` before that, and the child
leaves `loop()` only with `quit_`, which nobody takes back once the round has
begun.

*TcpConnectionProofs.* `ChannelCalls` and `RemoveAgrees` show of every call of
`Channel` that agreement of `index_`, `channels_` and the epoll set is kept and
no `epoll_ctl` aborts. `Invariant` puts this together with types,
`WritingIffBuffered`; `PollerAlwaysAgrees` and `WritesWhileBuffered` follow, for
any number of threads that send and shut down at any moment. `FinIsLast` proves
`FinAfterOutput`: the FIN is sent where the buffer is empty, and `StreamInv`
then says that all of `sent` is on the wire. It says nothing of sends that run
later. `StreamInOrder` proves `StreamOrder` from two invariants. `StreamInv`:
what is on the wire and in the buffer stands byte by byte for what was sent, and
bytes are missing at the end only once the socket cannot send any more, which
stays so: every later write fails and leaves no gap. `PlaceInv`: a message, and
the file, is in one place at a time, with nobody yet, with one thread or in one
functor; the functor of the file knows how much of it is out; and if callers
keep their strings, the string of a message that has not been written is there,
so no byte is garbage. `LifeImplemented` proves `LifeSpec` under `NoForeignSend`
(threads other than the loop's may shut down and send files, but no messages);
without that assumption it is false, since the functor of a send that crosses
the close puts the channel back into epoll and a second DOWN follows (section
3). `LifeInv` says what keeps the DOWN single: a connection that is up wants to
read, so switching writing off never takes it out of epoll; after the DOWN the
channel is out and nobody puts it back; of the callbacks of one poll at most one
can close.

*TcpServerProofs.* `IInv` describes who keeps a connection alive. Whatever a
running loop still has to call is in the map, or a `connectDestroyed` behind
that call holds it (`QueuesKeep`, `ChannelsKept`); that is inductive only with
the place and order of the functors (`FunctorsPlaced`, `EstablishedFirst`) and
the order of the end of `main` (`EndOrder`: no thread of the pool is quit before
the map is empty, the server goes after the last of them).
`NoDanglingConnection` and `NoDanglingServer` follow. `LivesAreConnLife` proves
`LivesSpec` from `ConnsConsistent`: a registered channel means that no DOWN has
been. Connections here are shut down by threads, not written to, so no
assumption is needed.


*LoggerProofs.* `SparesAlwaysReady` and `FullBufferAlwaysNotified` need each
other and two more facts: the front's spare is missing only if a buffer is
queued (`SpareUsed`), so a swap that consumes both spares has at least two
buffers to recycle; outside a round nothing is left to write. `LinesInOrder`
proves `LogOrder`. All three are shown for `AsyncLogging` and carried to the
`Logger` by `LoggerImplementsAsync`. Of the file: as long as the clock was not
set back in its time, the last roll and the last flush are not in the future and
stdio holds nothing older than that flush (`InOrder`), which `FlushLagHolds`
needs, and `count_` has counted at least the lines since the end of the day
(`LateCounted`) and, once there was one, is below `checkEveryN_` between two
calls, which `RollsAfterDayHolds` needs; whatever the clock does, `count_` is
never further below zero than at first. These are `FileInv`, which
`FileInvariance` proves. `OversizeIsYoungHolds` needs no more than the types.

*MemoryPoolProofs.* `NoSlotTwice` and `ObjectsInBlocks` for any threads, any
pool of the `HashBucket` and any blocks of `operator new`. `freeList_` is
guarded by two mutexes that do not exclude each other; `LockInv` says what
remains true: one thread at a time is between its read and its write of the
list, and the list is then what that thread has read, or empty. So a chain that
was cleared can be lost, or come back as a whole, but never is shared
(`OwnersInv`). `PlaceInv` says that slots do not overlap and that none lies in
the rest of the current block.

*TimerQueueProofs.* `AlwaysArmed`. The invariant `Alarm` has to say that the
alarm is not *early* either: `handleRead()` would find nothing expired and
nobody would set the timerfd again. That is also why a wall clock that was set
back is excepted; one set ahead leaves the alarm in place and may make it late,
so the bound on the alarm is claimed while the clock is steady.

*ContainerProofs.* Of the `Buffer`, `IndicesStayOK` and `ReadableStaysFifo` for
any sizes and calls. The bytes between the indices are numbered by what was put
in and taken; `makeSpace` is shown to move them as a block. Of the LFU cache,
`CapacityKept`, `MinFreqIsLeast` and `EvictsLeastUsed` from `LfuInv`: until the
eviction of a dummy has taken a cached key (`orphaned`), every node is in the
list of its frequency, once, and in no other; `minFreq_` is the least frequency,
or every frequency is at INT8_MAX or above and it was lost; that is kept by
every order in which ageing may visit the nodes. A dummy is evicted only when
`minFreq_` was lost, so `CapacityKept` needs no other exception.
`TotalStaysCovering` proves `TotalCoversFreqs` until then too, under
`maxAverageNum_ > 1` (the default is 10): with 1 ageing lowers no frequency, but
may still lose `minFreq_`, and the eviction of a dummy node that follows takes 1
from the total for nothing; TLC shows the violation.

Assumptions on the constants are those of the modules (sizes are positive, a
block holds two slots, hash values of a few names differ); TLC evaluates them in
the runs.

Only model-checked: liveness under fairness (TLAPS has no rule for it here), in
particular the liveness part of `ExecutorSpec`; and, of the safety properties,
`LineText`, which speaks of what folds over the pieces of a line and recursion
over the digits of a number compute and would need induction over them. The type
invariants are proved and not listed in a run.

## 5. Not modelled

`Timestamp`, `InetAddress`, `CurrentThread`, `noncopyable`, `Callbacks`:
wrappers and type names, no state across calls. Socket options. `EventLoop`
never constructs its `timerQueue_`; `TimerQueue` is modelled as if it did.
`fopen`, `socket` and `bind` failing (the last two end the process at once). Two
threads inside `purge()` and `put()` of the cache: a data race on an
`unordered_map` has no outcome to enumerate. The end of the `AsyncLogging`
object while its detached backend runs, and a `quit()` that writes to a loop
that is gone: the code does nothing to prevent either, and both are listed as
hazards.

## 6. Plan

Done: the event loop and its thread, connection, server with acceptor and pool,
logger from `<<` to the file, the independent components; the abstract executor
and the abstract life of a connection; the proofs of section 4.

Left: an abstract byte stream that `TcpConnection` implements, in place of
`StreamOrder`; `AsyncLogging` over `LogFile` as one module; the text of a line
(`LineText`) for every message.

## 7. Running

    tlc -workers 2 -config TcpConnection_live.cfg MCTcpConnection
    tlapm EventLoopProofs.tla

The module of each run is in `PROJECT.json`.
