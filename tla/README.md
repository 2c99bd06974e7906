# Verification of newbee: heart beats, connections, server, log, signals

newbee is a small C++ server library on boost::asio. This directory holds TLA+
models of its stateful parts, TLC configurations that check them on small instances,
and TLAPS proofs that the safety properties so checked hold for every size. Paths below
are relative to `src/mylib`.

To repeat a check: `tlc -config X.cfg M` for a line of the table of runs, and
`tlapm M.tla` for a proof module.

## 1. Inventory

| Part | State | Operations | Works with |
|---|---|---|---|
| `heart_beat/heart_beat_list.h` | end pointers, links inside the nodes | push/pop at both ends, `erase`, `front`, `back`, `empty` | owned by the element manager |
| `heart_beat/heart_beat_element_mgr.h` | map element to node, busy list, node pool, counter, time-out and limit settings | add, update, delete, `handle_timeout`, three ways to clear | owned by the heart-beat service; calls the time-out callback |
| `heart_beat/heart_beat_service.h` | asio queue, thread, deadline timer, `m_started`, a spin flag | `start`, `stop`, settings, `async_*` requests, `get_all_element_and_clear`, `trigger_all_timeout` | used by the connection monitor |
| `rpc/rpc_common_conn_protocol.cpp` | the frame being put together, `m_is_broken` | `on_remote_open`, `on_read`, `on_closed` | strategy of a connecter; posts messages to the logic io_service, tells the monitor |
| `rpc/rpc_connecter.cpp` | socket, status, write queue, byte counter | open, read, write and close, each by a post to its io_service | protocol, monitor, asio |
| `rpc/rpc_conn_monitor.cpp` | `m_started`, a heart-beat service of connections | add, update, delete, time-out callback, `start`, `stop` | closes connections that stay silent |
| `rpc/rpc.cpp` | table of registered calls | `handle_msg` | gets the messages of the protocol |
| `log/log_impl.cpp` | level mask, file stream, line and byte counters, day and sequence number, io_service and thread | `open`, `close`, `_log`, the file handler with rotation | every other part logs |
| `rpc/rpc_acceptor.cpp`, `rpc/rpc_server.h` | listening socket, `m_started`, the server's io_service | `start`, `stop`, the accept chain; `listen`, `close`, `async_do`, `async_call` | creates connecters on the pool's io_services |
| `utility/io_service_pool.cpp` | io_services, work objects, threads, round-robin index | `start`, `stop`, `get_io_service` | gives the server, the acceptor and each connection an io_service |
| `rpc/rpc_utility.cpp`, `utility/zlib_util.cpp` | a switch, a filter table | building, compressing and expanding messages | used by callers of `async_write` |
| `utility/signal_handler.cpp`, `utility/signal_service.h` | wait mask, table of signals, process id, a flag | registration, `event_loop`, `start`, `terminate` | the application's main thread |
| `utility/singleton.h`, `gateway/` | static initialisation; stubs | | |

What is hard to test here:

- **Threads and posted handlers.** Each object has a thread of its own behind an asio
  queue. A test of a flag (`m_started`, `m_opened`) in the caller's thread and the post
  that follows are two steps; a stop may come between them.
- **Stop and restart.** `stop()` waits for a thread which must first reach a posted
  request; a stopped io_service stays stopped.
- **Two representations of one thing.** The manager's map, list, pool and counter; the
  write queue, its byte counter and `m_is_writing`; the counters of the log and its file.
- **The stream is cut anywhere.** TCP may split heads and bodies at every byte.
- **Failures half way.** A node allocation after an eviction, a write that ends early,
  a file that cannot be created, a process that dies between two lines.
- **Something must keep going.** The timer, the read chain, the write chain, the accept
  chain, the threads of the pool.
- **The kernel decides who gets a signal**: the thread that waits for it, or one that
  forgot to block it.

`PROJECT.json` lists these hazards at their lines with the properties that cover them.

## 2. Modules and the code

| Module | Models | Notes |
|---|---|---|
| `ListSeqs` | | operators on sequences shared by the list, the deque and the manager |
| `HeartBeatDeque` | abstract | what a deque with erasure promises, call by call: what each method does and answers, given its argument |
| `HeartBeatList` | `heart_beat_list_t` | `m_header`, `m_tail`, `front`, `next` as pointers; one action per method; `ret` is what the method returned; `call` (its name and argument) and `order` (the sequence the list is meant to represent) are history variables |
| `HeartBeatRegistry` | abstract | the manager as a client sees it: when each element was last refreshed, who is handed to the callback |
| `HeartBeatElementMgr` | `heart_beat_element_mgr_t` | the list is a sequence of nodes, which `HeartBeatList` justifies; the pool may fail; `crashed` records that the NULL victim of an eviction was dereferenced; `handed` is the last operation's output; `drained` is a history variable |
| `HeartBeatService` | `heart_beat_service_t` | EXTENDS the manager; asio's queue, `stopped`, the timer (`waits`, `expires`), the owner's program counter in `stop()` and in the spin loop |
| `RpcCommonConnProtocol` | `on_read` and its helpers | bytes are pairs (frame, position), so that a byte in the wrong place shows |
| `RpcMessage` | `rpc_msg_util_t`, `zlib_util_t`, the dispatch of `rpc_t` | EXTENDS the framing: messages are built here, carried there and handled here; the loops around zlib are recursive functions on sizes |
| `RpcChannel` | abstract | a connection as the application sees it: a channel each way that ends once, and when the news of the end comes |
| `RpcConnecter` | `rpc_connecter_t`, the open/close half of the protocol, the monitor for this connection, `handle_msg` | one connection, the threads that work on it: its io_service, the opening thread, the logic thread, the monitor's thread, application threads; `refused` is a history variable: `add_element` had no memory for the connection |
| `RpcConnMonitor` | `rpc_conn_monitor_t` | EXTENDS `HeartBeatService`: several connections as elements of the real service, whose call-back closes them |
| `IoServicePool` | `io_service_pool_t` | work objects, threads and asio's `stopped` flag per io_service, round robin with its unsynchronised increment |
| `RpcServer` | `rpc_server_t`, `rpc_acceptor_t` | EXTENDS the pool; the owner, threads that close or post, the pool's threads; connections are coarse; what keeps an io_service from running out of work is computed from all of them |
| `LogJournal` | abstract | an append-only journal: lines are queued and get a place behind all others |
| `LogFile` | `log_t` | owner, callers, file thread, the disk, midnight, restart |
| `SignalService` | `signal_service_t`, `signal_handler_t` | main, the masks of all threads, pending signals |
| `ListSeqsProofs` | | lemmas about `ListSeqs`, used by all other proofs |
| `HeartBeatListProofs`, `RpcMessageProofs`, `RpcConnecterProofs`, `RpcServerProofs`, `LogFileProofs`, `SignalServiceProofs` | | theorems about the module of that name; `RpcMessageProofs` also about the framing under it |
| `HeartBeatProofs` | | theorems about the manager, its registry, the service and the monitor, in this order, each resting on the one before |

Three compositions matter: `HeartBeatService` runs the manager's own operations from its
handlers, `RpcConnMonitor` puts connections on top of that service, and `RpcMessage`
closes the circle from the sender's `compress_msg` over the byte stream to the receiver's
handler. `RpcConnecter` keeps the opposite view of the monitor: one connection in detail,
with the heart-beat service abstracted to what `HeartBeatRegistry` promises, for an add that
may find no memory.

Each `MC*` module extends its model and defines the instance's sets, where a .cfg cannot.
The interleaving is at the granularity of asio handlers and of the steps of a calling
thread between two accesses to shared state.

External code is modelled from its use: asio (a FIFO of handlers per io_service; after
`stop()` the remaining handlers stay and `run()` returns at once; `run()` also returns
when there is neither a handler nor an operation nor a work object, and the io_service
then counts as stopped), the boost pool (construct
may fail), the stream (opening an open stream fails), TCP, zlib (any of
a set of output sizes, or failure), the kernel's signals. `sync_close_i` and
`set_write_state` are declared and called, but not defined anywhere in the repository:
`RpcConnecter` takes them as closing the socket and reporting `on_closed`, and marks them
external.

Operators whose comment begins with "Mutant" are plausible slips of the definition that
follows them. No action uses them. Replacing the definition by its mutant makes TLC
refute the property it is listed with in `PROJECT.json`, which shows that the property
depends on that code.

## 3. Runs

| Run | Configuration | Checks | Shows |
|---|---|---|---|
| list | `MCHeartBeatList.cfg` | `PointersRepresentOrder`, `ImplementsDeque` | the links read forward and backward are one sequence, detached nodes have no links; every method, on its argument, does and answers what the deque's does, `erase` of a node that is not linked and `front()` against `back()` included |
| element_mgr | `MCHeartBeatElementMgr.cfg` | `MgrTypeOK`, `StoreAgrees`, `CountIsSafe`, `LimitRespected`, `SortedByAge`, `ImplementsRegistry` | map, list and pool agree through evictions and failed allocations; the unsigned counter never wraps; a sweep expels exactly the expired elements and an eviction takes one of the oldest |
| element_count | `MCHeartBeatElementMgrCount.cfg` | `CountIsListSize` | **violated**: see findings |
| service | `MCHeartBeatService.cfg` | `TimerChain`, `StoppedIsEmpty`, `NoDanglingVector`, `WaitersAreAnswered`, `UsesManager`, `StopReturns`, `GetAllReturns`, `SilentIsExpelled` | exactly one wait or timer handler exists while the service runs; a stop leaves no element behind although requests may still be queued; no handler outlives the call whose vector it fills; the owner in `stop()` or in the spin loop never waits for a request that is not queued; the service only uses the manager legally; `stop()` and the spin loop end; a silent element is expelled |
| service_restart | `MCHeartBeatServiceRestart.cfg` | `StartedMeansRunning` | **violated**: see findings |
| monitor | `MCRpcConnMonitor.cfg` | `WatchesTheLiving`, `LimitIsEnforced`, `CloseAllCloses` | whatever sweep, eviction, `close_all` and the connections' own closes do in which order, a monitor that was not stopped watches exactly the living connections, keeps no more of them than its limit, and closes them on request |
| message | `MCRpcMessage.cfg` | `DeliveredIntact`, `NothingWithheld`, `PlainIsServed`, `HeadDescribesBody`, `OnReadReturns` | for every way to cut the stream the posted messages are the frames sent; only a frame without a body may wait for the next byte; the head of a message never lies about its body; of the messages that come to `handle_msg` a plain one with a registered command reaches its handler, whatever messages surround it (one that shuts the connection keeps later ones from coming) |
| connecter | `MCRpcConnecter.cfg` | `WriteQueueSound`, `ReadChain`, `MonitorAgrees`, `PeerLossIsReported`, `ImplementsChannel` | the write queue, the read chain, the report of the end and the monitor stay consistent when reads, writes, closes, expulsions and opening interleave; a live connection is unwatched only when there was no memory to add it; a peer that leaves is noticed and reported; all of it together is a channel each way that ends once |
| server | `MCRpcServer.cfg` | `AcceptChain`, `ServedByOneThread`, `PoolStopReturns`, `PostedIsRun` | the number of accepts in flight is one, less those lost to errors and exceptions (of `listen()` too), plus the completed accepts a close and a listen overtook; every io_service with a work object is run, by one thread unless `start()` was called twice; what is posted is run; `stop()` returns once nothing listens and no connection stays open |
| pool_restart | `MCRpcServerRestart.cfg` | `RunsUntilStopped` | **violated**: see findings |
| log | `MCLogFile.cfg` | `WrittenOnceInOrder`, `FilesBounded`, `ClosedIsFlushed`, `CloseReturns`, `ImplementsJournal` | rotation, a new day and a restart never empty a file that has lines; files stay bounded; `close()` leaves behind only lines of callers that were already inside, and returns; the files are an append-only journal |
| signal | `MCSignalService.cfg` | `WaiterSurvives`, `TerminateEndsLoop` | the error return of `event_loop` is dead; the waiting thread is never killed by what it waits for; `terminate()` ends the wait |

The type invariants of the other modules (`TypeOK`, `MonTypeOK`) are not part of a run:
they are conjuncts of the inductive invariants of section 4 and proved there. Nor are three
consequences of `ImplementsChannel` that the proofs state on their own: `SentInOrder`,
`BrokenOnce` and `OneLateRead`.

### Bounds

- *list*: four nodes give lists with two ends and two inner nodes, so that every branch of
  `erase` and `pop` meets every neighbourhood; the proofs remove the bound.
- *element_mgr*: three elements and three nodes with limits 0, 1, 2 give evictions at the
  limit, an exhausted pool (allocation may also fail earlier) and sweeps that stop in the
  middle of the list. `MaxTime` 4 is twice the time-out. `MaxCount` bounds the stale
  counter. Limits of zero are included because `set_max_limit` accepts them. The proofs
  remove all of these bounds.
- *service*: one element, without a limit or with a limit of zero, under which the first
  add dereferences the NULL victim and the process is dead, a queue of two handlers (a stop
  or the timer may come on top), two starts, and a clock long enough for an element to be
  refreshed after the first sweep, so that its expulsion needs the timer
  to be armed again. Two elements over the same service are in the next run.
- *monitor*: two connections on two nodes, either under a time-out that expels both at once
  or under a limit of one, two calls of `close_all` or `stop`, a queue of two besides the
  dels. The allocation may fail.
- *message*: a head of two bytes can be split, bodies of 0 to 2 bytes are missing, unsplit
  or split, a read of four bytes holds one to two frames, three frames give a frame with
  a neighbour on both sides. Data of two bytes is at `ZLIB_SIZE_LIMIT` and fills a chunk;
  zlib makes one byte of it, or two, which just fill the buffer and force it to be doubled.
  One command is filtered, one is not registered, and one is the command 65535, for which
  the filter is read out of bounds and shows anything. The code only compares sizes, never
  uses their values.
- *connecter*: the n-th call writes a string of n bytes (a failed write can end after none
  or after some), two calls (writes or closes), two successful reads, so that a second late
  one could happen, one stop and restart of the monitor.
- *server*: a pool of one, which a second start, with or without a stop in between, makes
  two, so that the server, the acceptor and the connections share an io_service or have
  different ones, live or stopped; three connections, two calls of `listen`, one job. Two
  listens with a close between them are what a forked accept chain needs, and the third
  connection carries it on. The proofs remove the bounds from the two invariants.
- *log*: two callers, lines of two lengths around a size limit of three, files of two
  lines, three lines, two days, one restart, one reopening; files may fail to be created.
- *signal*: two default quit signals, one of which the vector form can name without
  SIGQUIT, and one for the application; two starts; two signals from outside besides the
  SIGQUITs of `terminate()`, whose number is not bounded. Threads are the set of their masks.

Deadlock is not checked except for the list: a connection, a stopped service, a clock at
`MaxTime`, a log that is closed and a process that was killed really stop.

Symmetry is used where only safety is checked: permutations of elements and of nodes in
*element_mgr*, *element_count* and *service_restart*.

### Fairness

Weak fairness is assumed of steps that a thread is ready to take and nobody can refuse:
the next handler of an asio queue, the end of a thread whose `run()` returns, the owner
that may leave `join()` or the spin loop, the opening thread on its way through
`on_remote_open`, the turns of `on_read`'s loop, the queued `close()` of a connection, main
on its way into `sigwait` and through the signals that are pending, a thread inside
`terminate()`. It is also assumed of the clock and of asio's completion of a wait that is
due or a read on a dead socket. None is assumed of clients, of peers, of a successful read,
write or accept, of time-outs, of signals from outside, of failures. A blocked callback
would stop the service thread: callbacks are taken to return. No strong fairness is used.

## 4. Proofs

Every invariant and every refinement that a passing run checks is also a theorem, for all
values of the constants. The bounds (`MaxTime`, `MaxQueue`, `MaxStarts`, ...) stay in the
theorems as arbitrary natural numbers.

**Assumptions.** Each model names what its proofs assume of the constants, and TLC
evaluates it in the runs:

| Assumption | Says |
|---|---|
| `NullAssumption`, `ElementMgrAssumption` | NULL is neither a node nor an element; time-outs and limits are natural numbers; the sets need not be finite |
| `ServiceAssumption` | the timer's period is not zero |
| `MonitorAssumption` | a setting is a `heart_beat_setting_t`: two flags and two natural numbers |
| `FramingAssumption` | the head and the read buffer are not empty |
| `MessageAssumption` | registered and filtered commands are commands, and the filter's table does not reach the last one; zlib makes at least one byte of an input and of a flush; a chunk is not empty |
| `ConnecterAssumption`, `ServerAssumption` | bounds are natural numbers |
| `PoolAssumption` | a pool has at least one io_service |
| `LogAssumption` | finitely many callers; a line has its line end at least, and there is a longest one (`MAX_LOG_LINE`); days count from 1 |
| `SignalAssumption` | SIGQUIT is one of the default quit signals |

**The list.** `ListCorrect` proves `TypeOK` and `PointersRepresentOrder` of
`HeartBeatList`. The two together are inductive: `PointersRepresentOrder` gives the ends
of the list and both links of every node by its position, and says that the links of
detached nodes are NULL, without which `erase` could take a detached node for a linked
one. All removals are one lemma, `UnlinkInv`, about removing the node at position i;
`PopUnlinks` and `EraseUnlinks` show that the branches of the code do just that.
`ListImplementsDeque` uses the invariant to show that each method is the deque's method on
the same argument, with the same answer (`StepIsDequeStep`). That `erase` answers 0 for
a linked node and -1 for any other rests on the detached nodes having no links. This is what permits the manager to have a sequence for its list.

**The manager.** `MgrInvariant` proves `MgrInv`, the conjunction of `MgrTypeOK`,
`StoreAgrees`, `CountIsSafe` (in its two parts), `LimitRespected` and
`SortedByAge`. None of the parts is inductive alone. `LimitRespected` needs the counter to
cover the list, for the test is made on the counter. The counter needs `StoreAgrees`, for
`del_element` decrements when the map has a key and the list must have lost a node.
`StoreAgrees` needs the list without repetitions, or destroying one node would leave a
second occurrence. `SortedByAge` needs the pool's time stamps to be untouched for the
nodes that stay. The proof separates the store (`Consistent`: map, set of linked nodes,
pool) from the order of the list: `RemoveConsistent` and `InsertConsistent` are about sets,
and `CutStore`, `WithoutStore`, `AgedCons` about sequences; then there is one lemma per
action. `MgrTypeCorrect`, `MgrStoreCorrect`, `MgrCountCorrect`, `MgrLimitCorrect`,
`MgrOrderCorrect` are its consequences. `SortedByAge` is conditional on `MonotoneClock`;
the others hold also when `time(NULL)` is stepped back.

**The registry.** `MgrImplementsRegistry` proves, for a clock that is not stepped back,
that every step of the manager is a step of `HeartBeatRegistry` or a stutter, with one
`...Mapped` lemma per action. It rests on `MgrInv`: the refresh times a client knows are
those of the linked nodes (`WatchedFacts`), and since the list is sorted, the sweep that
stops at the first young node has met all expired ones. It needs one more invariant,
`TimeoutIsSet`: the time-out in force is zero or one that was set.

**The service.** `SvcInvariant` proves `TypeOK`, `MgrInv`, `ThreadInv` and `VectorInv`.
`ThreadInv` adds to `TimerChain` where the thread is: without a thread there is no wait
and nothing in the list, a thread ends only on a stopped io_service, and the list of a
stopped one is empty. That last part is what makes `StoppedIsEmpty` inductive, for
requests may still be queued behind the stop. `VectorInv` says that one `get_all` is
queued at most, and only while the owner spins on a flag that is down.
`WaitersAreAnsweredCorrect`, the part of `StopReturns` and `GetAllReturns` that is safety,
needs besides only that a started service has a thread (`WaitInv`). `UsesManagerCorrect`
shows every step of the service to be a step of the manager or a stutter, so that the
theorems about the manager, `ImplementsRegistry` included (`SvcImplementsRegistry`), hold
of the one inside the service, with all its threads.

**The monitor.** `MonInvariant` proves `LiveInv`: the invariant of the service below,
`ControlInv` (the service runs from the first start on, with the settings and the
callback of that start) and for each connection `WatchInv`: a del is on its way only for a
closed connection; each add of a closed connection has a del behind it; a living
announced one is watched, or about to be, or has its close queued. The order of add and
del in the queue is the heart of it: a del in front of its add would leave a dead
connection watched. `WatchesTheLivingCorrect` and `LimitIsEnforcedCorrect` follow, the second
from the manager's `LimitRespected`.

**Framing and messages.** `FrameInv` is `TypeOK`, `Layout` (the frames lie one behind the
other on the wire and their heads are true) and `Cursor`: the bytes consumed end inside
the frame number `Len(posted) + 1`, and `m_head` and `m_body` are exactly what the bytes
of that frame read so far make of them, for every way to cut the stream. `MessagesInv`
adds that every message built has a truthful head and that the first ones posted were
served. That `compress_msg` keeps heads truthful needs the loops of `zlib_util_t` to lose
nothing, for any size and chunk: this is induction over data, done with the
least natural number for which a claim fails (`LeastNatural`), stated anew for each loop
(`DrainingAll`, `FeedingAll`, `DeflatingWhole`).

**The connecter.** `ConnInv` has one part per property (`WriteQueueSound` with `SentInOrder`,
`ReadChain`, `BrokenOnce`, `OneLateRead`, `MonitorAgrees`), each stronger than the property.
`WriteInv` says where the unsent strings are: what was requested and not sent is the
queue, less its front when a handler of a complete write is still queued. `LateInv` says
which read may still be handled after the end; `BrokenInv` counts the reports of the end
by the state of the opening thread; `MonInv` has the order of add and del, as for the
monitor, and `refused` for an add without memory; `OpenInv` says that nobody else knows the connection before it is opened.

`ConnImplementsChannel` proves that every step of the connection is one of `RpcChannel` or
a stutter. How far the channel is (`Phase`) is read off the opening thread and `m_status`;
a read is late when it is handled in a connection that has ended and raises `reads` above
`cut`. The refinement needs `EndInv` on top of `ConnInv`: the broken message and the end of
the connection come together; after a close that overtook `reset()` nothing is or will be
read, so that the second report finds no late read; and while a connection that lives is
being opened its inbox and write queue are empty, so that nothing is sent before it is
open. `TaskCases` first reduces the handlers to what they do to a channel (end it, bring
messages, take a string, nothing), and `WriteDelivers` takes from `WriteInv` that a
finished write is the next string of the requests.

**The server.** `ServerInv` is `TypeOK`, `PoolInv` and `ChainInv`. An io_service with work
is not stopped and has a thread, and unless a start met the threads of another one no two
threads share an io_service. The acceptor listens only while it is started, and accepts
are outstanding only while it listens, so that a new chain begins with none and the
equation of `AcceptChain` starts again from one, in flight or, when an exception leaves
`listen()` after the socket listens, lost.

**The log.** `LogInv` has `RunInv` (threads, io_service and flags of the owner),
`StreamInv` (the open stream is the file of the current day and number, whose lines and
bytes the counters cover, so that it has room for one more line), `FilesInv` (the files of
a day are numbered without a gap unless a creation failed, and the one that is written is the
last), `FlushInv` (behind the end of the file thread there are only lines of callers that
were inside `_log`) and `WrittenOnceInOrder`.

`LogImplementsJournal` proves that the log is a `LogJournal`: the lines on disk with their
places (`Entries`: file, number in the file, line) grow at the end and never else, unless a
file could not be created before. `HandlerEntries` is its core: by `FilesInv` the file a
line goes to, rotated or not, is the last one and, if it is opened now, new, so that
opening it empties nothing. A restart loses the queue and no line on disk.

**Signals.** `SignalInv` says that the wait mask is the set of registered signals, that main
has blocked them while it waits, and that a signal kills only through a thread that lets
it in. `WaiterSurvivesCorrect` follows.

**Only model-checked.** Liveness needs fairness and ENABLED, which are out of the prover's
reach: `StopReturns`, `GetAllReturns`, `SilentIsExpelled`, `CloseAllCloses`,
`OnReadReturns`, `PeerLossIsReported`, `PoolStopReturns`, `PostedIsRun`, `CloseReturns` and
`TerminateEndsLoop` are checked by TLC on the instances of section 3. So are the
counterexamples behind the findings, which need one instance only.

## 5. Findings

- **The counter is stale after clearing** (run *element_count*). `m_element_count` is "the
  current element count of list" (`heart_beat_element_mgr.h:130`), but `clear_element`,
  `get_all_element_and_clear` and `trigger_all_timeout` empty the list without setting it
  to 0. `LimitRespected` still holds, but elements are evicted too early, and at the stale
  limit on an empty list the NULL node of `pop_back` is dereferenced. `CountIsSafe`
  says that this and a limit of zero are the only ways to that crash.
- **A service that is started again does not run** (run *service_restart*). `m_started`
  is to "identify whether service is running" (`heart_beat_service.h:124`), but after
  `stop()` nothing calls `reset()` on the io_service, and the new thread ends at once.

- **A pool that is started again runs its old io_services no more** (run *pool_restart*).
  The comment at `io_service_pool.cpp:22` promises "work" to "all the io_services", so that
  their `run()` "will not exit until they are explicitly stopped"; `start()` gives it to the
  new ones only, starts threads on the old, stopped ones too, which end at once, and
  `get_io_service()` goes on handing those out. What is posted there is never run:
  `PostedIsRun` excludes it by name.

Smaller observations, stated in the models but not as runs:

- `heart_beat_element_mgr.h:249` says that adding an existing element resets it to the
  header of the list; `add_element` returns -1 and leaves it alone. The model does too.
- A frame without a body that ends a read is posted only when another byte arrives.
- A close that overtakes the `reset()` in `on_remote_open` makes the application hear of
  the end twice; `BrokenOnce` says that there is no other way.
- A read that completed before the close may post messages behind the broken message;
  `OneLateRead` says that there is one such read at most.
- `io_service_pool_t::stop()` is documented to stop all io_services (`io_service_pool.h:34`)
  but only drops their work objects: while the acceptor listens or a connection is open it
  does not return, which `PoolStopReturns` excludes by name.
- A failed accept ends the accept chain. An exception of the strategy's creator behind
  `m_acceptor.listen()` (`rpc_acceptor.cpp:58`) is swallowed: the socket listens, nothing is
  accepted, and `listen()` returns 0, as it does when listening failed. A close and a listen
  that overtake a completed accept leave two chains. All of them are terms of the equation
  in `AcceptChain`.
- An add for which the pool has no memory answers -1 to the service thread, which drops it:
  the connection lives on unwatched, as `MonitorAgrees` and `WatchesTheLiving` say.
- `rpc_conn_monitor.cpp` calls `asyn_add_element`, `asyn_update_element` and
  `asyn_del_element`; `heart_beat_service.h` only has `async_add_element` and so on. The
  models take the one for the other.
- `cmd_filter` has 65535 entries, so that the command 65535 is looked up behind its end
  (`rpc_utility.cpp:20`). The model lets that read show anything; the properties of the
  messages hold all the same, and none of them flags the read.
- Nothing calls `uncompress_msg`: a compressed body goes to the handler's unpacking as it
  is. And it would not help, since both `compress` functions make raw deflate streams and
  `uncompress` expects a zlib header. Hence `PlainIsServed` speaks of plain messages.
- `block_all_signal` is documented for "all thread" (`signal_handler.h:38`) and blocks for
  the calling thread and those it creates later. With `start(vector)` that does not name
  SIGQUIT, `terminate()` kills the process or, when SIGQUIT is blocked, does nothing; it
  also leaves `m_pid` 0, so that the whole process group is signalled. A SIGQUIT that came
  too late for one `start()` ends the next one at once.
- `stop()` of the monitor posts `trigger_all_timeout` and then clears `m_started`, which
  the callback tests: connections whose callback runs later are forgotten but stay open.
  `MonitorAgrees` and the properties of *monitor* are stated for a monitor that was not stopped.
  The heart-beat service behind it goes on; a restart ignores new settings.
- In the log a level whose bit is set is suppressed. The first file of a run may hold one
  line more than `m_maxline`. A rotation that fails leaves a gap in the sequence numbers;
  after a restart the gap is filled and the next rotation empties the file behind it, hence
  the condition `~failed` of `WrittenOnceInOrder`. A log that was closed cannot be reopened.

## 6. Not modelled

- Text, formatting and screen output of the log; `m_enable_write_file` is taken as true;
  days only grow (a clock stepped back over midnight is left out).
- A second `sync_connect` on one connecter (nothing in the repository calls it at all), the
  destructors of connecter and acceptor (the accept handler keeps a raw `this`, and nothing
  says when a server may be destroyed), the user data of a connection.
- `reg_call` as a step: the table of calls is filled by constructors and is a constant.
- A signal call-back that registers further signals while main waits, and `start()` in a
  thread other than main.
- Writes that fail: a line put to an open stream is taken to be in the file
  (`LogFile.Written`), so that a full disk is left out.
- Threads that cannot be created: `start()` of the service, of the pool and of the log are
  taken to get them.
- Running out of memory, but for the failing node pool and, in `RpcServer`, whatever
  `listen()` and the accept handler catch, where a connection whose `remote_open()` throws
  is dropped. `RpcConnecter` takes its `remote_open()` to succeed.
- The contents of compressed data: zlib is external, sizes and forms are kept.
- `singleton.h` is language-level initialisation and `gateway/` consists of stubs.

## 7. Plan

All parts that keep state are modelled, and all safety properties and refinements that
the runs check are proved. What is left belongs to code that does not exist yet: when
`sync_close_i` and `set_write_state` are written, their models are to be taken from them,
and when something calls `sync_connect`, the model has to open a connection again.
