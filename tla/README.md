# A verification project for libgscale

libgscale ("group scale", namespace `GScale`) lets processes join a named
group, connect *nodes* to it and exchange packets between nodes; *backends*
carry nodes and packets within a process (loopback), between the processes of a
host (shared memory) and between hosts (TCP).  This directory holds TLA+ models
of it, the TLC runs that check them on small instances, and TLAPS proofs about
them for every instance.

Paths are relative to the repository: its own code is `src/` (about 4 300
lines with `example/`), `external/boost` is vendored.  In `PROJECT.json` every
path has a leading `src/` more.

## 1. The system

One process has a `Group` (a forwarder) with a `GroupCore`; `GroupCore` has
three tables and one `boost::asio::io_service`.  The application calls the API
and, whenever it likes, `runWorker`, which runs the handlers queued so far.
Nothing is locked and there is one thread; concurrency is that of queued
handlers, of the timers and sockets of asio, and of several processes.

| component | state | operations | talks to |
|---|---|---|---|
| `GroupCore` (`groupcore.cpp`) | `localnodes`, `backends`, `sendqueue`, `connectcount`, `io_service` | `attachBackend`, `detachBackend`, `connect`, `disconnect`, `write`, `runWorker` | posts the backends' handlers on its `io_service` |
| `GroupNodesDAO` | none: a view of `localnodes` | `begin`/`end`, `rangeByCreated`, `findByUUID`, the reference counts | called by backends |
| tables (`util/groupcore.hpp`) | rows with unique and ordered keys | insert (refused when a key is taken), replace, range, erase | |
| `LocalNode`, `INodeCallback` | identity, user callbacks | posts the user's callback | the core's `io_service` |
| `Loopback` backend | none | announces and delivers to the nodes of the same process | DAO, `LocalNode` |
| `TCP` backend | own `io_service`, set of sessions, acceptors, `local_v4`, multicast sockets, heartbeat timer | `Worker` (polls), `OnLocalNodeAvailable`, accept/connect/uuid exchange, heartbeat | other processes by TCP and multicast, DAO |
| `TCP_Session` | socket, `is_syncnode_enqueued`, time of the last node synchronised | `start`, `enqueueSyncNodeList`, `syncNodeList`, `close` | DAO, `TCP_Protocol` |
| `TCP_Protocol` | in- and out-state, offsets, counts | `send`/`onSend`, `onRead`/`processReadBuffer` | asio's asynchronous reads and writes |
| `SharedMemory` backend | a segment, a named mutex | `initialize`; empty handlers | other processes |
| `INode`, `Packet` | uuids, alias, payload | serialisation | |
| `Core` | the host uuid (nil in every process) | | |
| `NetInterface`, `Exception` | | enumerate interfaces; format a message | no caller; everywhere |

What is hard about it, and what therefore has properties (`PROJECT.json` lists
each hazard at its line):

* **Order.**  API calls only enqueue; handlers run later, against tables that
  changed meanwhile, and may enqueue more.
* **Stop, timeout, exception.**  `runWorker` ends by its timer, for lack of work
  or by an exception from a backend or a callback.  What is queued then stays
  queued, and the purge of the tables at its end may or may not take place.
* **Two event loops.**  The TCP backend's `io_service` is polled from a handler
  of the core's.  `dispatch` runs a handler at once inside that poll, and later
  outside; an exception leaves both loops, and a setup that failed half way is done
  again.
* **Counters and boundaries.**  A `uint16_t` reference count, `uint32_t` byte
  counts, a buffer a header just fits in, time stamps that are equal.
* **Several processes** on one host and on several: acceptors, sessions, the
  shared memory segment; crashes between any two steps.

### How the source is read

The commit is in the middle of a refactoring and does not compile as it stands.
Each model takes the reading that the surrounding code leaves no doubt about:

* `LocalNode` takes an `io_service` by value, which can not be copied: it is the
  reference to the core's `io_service` that `connect` passes.
* `GroupCore::LocalNodeSetIdx_uuid` and similar old names in the backends are the
  indices of `util/groupcore.hpp` of the same meaning.
* `nodesyncctime` in `session.cpp` is the session's time of synchronisation,
  which `session.hpp` declares as part of `ncs`; it starts as not-a-date-time.
* `range.first->node.time_disconnect` is the row's `time_disconnect`.
* `OnLocalNodeWritesToGroup` returns `unsigned` or nothing: nobody uses it.
* `p` is declared twice in `write`; the second is an assignment.

`write` takes `pidx.end()--`, whose value is `end()`: the packet that the
backends are given is read from the list's header.  That is undefined
behaviour; the model lets the process end at each place where the value is
used, and otherwise treats the packet as any packet.

## 2. Modules

| module | models | state and actions |
|---|---|---|
| `GroupCore` | `GroupCore`, `GroupNodesDAO`, the tables, and asio's `io_service` as used from one thread | `backends`, `localnodes`, `connectcount`, `sendqueue` are the members of that name; `ioq`, `stopped`, `timer` are asio's queue, `stopped()` and the `deadline_timer` of `runWorker`; `phase` and `current` say where the one thread is; `held` is a history of the references that backends took and gave back, which the code only has as a counter that wraps. One action per API call (`Attach`, `Detach`, `Connect`, `Disconnect`, `Write`); `RunWorker`, `TimerFires`, `StopHandler`, `BeginHandler`, `HandlerReturns`, `HandlerThrows`, `RunReturns` are `runWorker` cut where something else may happen; `PostCallback` and `ChangeRef` are what a backend's handler may do. |
| `Loopback` | `backend/loopback.cpp` attached to a `GroupCore` | adds `it`, the iterator of a handler; the handlers' steps replace the open ones of `GroupCore` |
| `NodeSync` | *abstract*: what the synchronisation of nodes promises to each peer | `live`, `count`, `told` |
| `SessionSync` | `TCP_Session::enqueueSyncNodeList`/`syncNodeList`, `TCP::OnLocalNodeAvailable`, `uuid_read_finished`, the table as they read it | `rows`, `now` are the node table and the clock; `avail` is the core's queue, `tcpq` the backend's; `sock`, `enqueued`, `synctime`, `out` are a session's socket (and whether it is in the set), `is_syncnode_enqueued`, `nodesyncctime` and `outstate` |
| `GroupTcp` | *composition*: a `GroupCore` whose backend is TCP, with the sessions of `SessionSync`; `TCP::Worker` with its setup and its `poll()`, `handle_receive_from` | extends `GroupCore` and instantiates `SessionSync` for its own node table, queue and clock. `tcpq`, `sock`, ... are `SessionSync`'s; `initialized` is the member of that name; `receives` and `received` count what the multicast readers have pending, and the handlers of it that are queued. `SetupSucceeds`, `SetupFails` are a `Worker` that is not initialized; `Arrives`, `HandleSession`, `EndpointThrows`, `Datagram`, `HandleReceiveFrom`, `ArchiveThrows`, `PollCrashes`, `WorkerReturns` are `poll()` cut between handlers |
| `TcpSend` | `TCP_Protocol::send`, `onSend`, `writeHeader` | `outstate`, `alreadysent` of that name; `inflight` is the size of the `async_write` under way |
| `TcpLocal` | `TCP::Worker`, `bind_or_connect`, `on_local_close`, `multicastHeartbeat`, accept and the exchange of uuids, in the processes of one host | `acceptor`, `local` are `acceptor_v4`/`acceptor_v6` and `local_v4`; `at` and `frames` are where the one thread of a process is, and how often `bind_or_connect` is on its stack; `srvend`, `kept`, `full` are the accepting end of a connection, and the sets of sessions. `bind_or_connect` is `Bind`, `Connect`, `BindMapped` and their failures, cut where another process can bind or die |
| `ShmInit` | `SharedMemory::initialize`, run by several processes | `name` is what the named mutex's name stands for, `mutex` what each process has opened, `owner` who has locked it; one action per call on the mutex |
| `GroupCoreProofs`, `LoopbackProofs`, `SessionSyncProofs`, `GroupTcpProofs`, `GroupTcpSyncProofs`, `TcpSendProofs`, `TcpLocalProofs`, `ShmInitProofs` | theorems and proofs | |
| `MC...` | instances for TLC | symmetry and value sets only |

What the abstractions leave out.  A packet is the lengths of its header and
payload (`TcpSend`) or the node it announces (`SessionSync`); a uuid is an alias
or a fresh number; user callbacks are one kind of handler that may call the API
or throw.  A handler of a backend in `GroupCore` may do all that the interface
lets it: post callbacks, change reference counts, return, throw, and, in `Write` and
`Worker`, end the process.  `Loopback` and `GroupTcp` are made of `GroupCore`'s own actions
with the handlers filled in, so that what is proved of `GroupCore` holds
of a group with either (`LoopbackGroupSafe`, `TcpGroupSafe`).  An application that calls
`runWorker` again from a callback is not modelled (no example does).

In `SessionSync` the end of a send is free (`SendFinishes`, `SendFails`, or
neither), so that its safety properties do not depend on how `TCP_Protocol`
counts; `TcpSend` shows that the counting is wrong and that a packet without
payload, such as a node's announcement, is never found to be sent
(`EmptyNeverFinishes`).  Which of the two
ends of a connection keeps it is free as well (`Joins` takes any outcome of the
comparison of endpoints): it depends on the ports the system hands out.  `TcpLocal`
takes an ephemeral port to be greater than 8000, as it is on Linux unless somebody
configures it otherwise.

Time is a wall clock (`microsec_clock::universal_time`, `groupcore.cpp:113`).  In
`SessionSync` and `GroupTcp` it may stand still between two nodes (`ClockAdvances` is FALSE)
or not, but it is never set back; if it were, a later node could sort before those
a session has synchronised.

`GroupTcp` closes the environment of `SessionSync`.  There, nodes connect, leave and
are purged at any time and an `OnLocalNodeAvailable` may come at any time that one was
announced; here they do so when the group's code lets them, and `ImplementsSessionSync`
says that this is nothing `SessionSync` does not allow for.  `ImplementsNodeSync` is
the whole way, from the group's `connect` to what a peer is told.  What is left open here is
what arrives (uuids, datagrams, the ends of sends), and when.  From `TcpLocal` it keeps only
that a poll may end the process.  `detachBackend` is left out: no user of TCP calls it.
`handle_receive_from` takes the reader to start again from the type bound to it, and asio's
`type()` is `SOCK_DGRAM` for both versions (`Type`).

`TcpLocal` lets a process die at any step, which includes a `remote_endpoint()` that
throws out of `poll()` because the peer has reset the connection.  `conflicts`, which is
chosen in `Init` and never changes, is the system's answer to binding `::ffff:127.0.0.1` beside `127.0.0.1`: Linux refuses,
as it is the same address.  (Windows' `SO_REUSEADDR` would let every process bind
both, and no process would ever connect; that is not modelled.)

`ShmInit` takes boost's named mutex to be the named semaphore it is on POSIX.  The
segment itself does not appear: its size of 5 bytes makes both constructors
throw before they look at it, so that no process ever gets past the lock and
on (`SegmentFails`), and every process that attaches the backend dies of the NULL
pointer in its destructor.

## 3. Runs

All bounds are constants that guard actions.  "States" are distinct states.

| run | shows | bounds, and why they are enough | states |
|---|---|---|---|
| `group_safety` | `NoStaleStop`, `StopsAccounted`, `CleanRunWaits`: which `runWorker` an `io_service::stop` belongs to. `AvailBeforeUnavail`: a node is announced before its departure. `NothingLost`: no call, stop, exception or purge drops a queued handler or moves it behind another. `DetachedDrains`: a detached backend receives nothing new | two backends (one attached, one detached, in every order), one node, one write, calls as long as the queue is shorter than 2, one exception: a stale stop needs one exception and two runs, runs are not bounded | 269 617 |
| `group_tables` | `RowsUnique`: lookups by id or uuid are unambiguous. `PurgeFollowsReferences`: whatever backends took and gave back, in any order and over any number of runs, a row on which 1 to 2^16 - 1 references are held stays, and one on which none is goes at the end of a run; it goes as well at 2^16, where the counter has come round. `Delivered`, `DetachCompletes`: once the application only calls `runWorker`, announcements arrive and detached backends go | one backend, one exception; an alias and no alias, two connects (a second connect of an alias before and after the purge), a reference count that wraps at 3, up to 3 references on a row, and one given back too many: it wraps both ways, 2^16 is not needed | 599 335 |
| `loopback_safety` | `ReturnsOnlyWhenEmpty`; `WritesAreHandled`: each write gets its turn although the receivers of earlier ones are gone, and `findByUUID`'s exception unwinds one run after the other | two nodes, one alias: a handler meets its own node first, or another one; two writes, and as many exceptions as there are writes, which is all there can be: a write's handler, or the callback it posts, throws once | 386 279 |
| `loopback_callback` | *violation* of `ConnectTriggersCallback` | no exception, no write | |
| `sync_distinct` | `NoneSkipped`, `NoBusySend`, `OneAnnouncement`, `AvailableIsIdle` (`OnLocalNodeAvailable` changes nothing), and `ImplementsNodeSync` (refinement of `NodeSync`) | two sessions (one that joins the set, one that is refused), three nodes: one told, one passed over because it is gone, one behind it (that is all there can be: `OneAnnouncement` says that no second node is ever told of, to anyone) | 4 023 |
| `sync_ties` | *violation* of `NoneSkipped` when two nodes share a time stamp | the same | |
| `sync_available` | *violation* of `NodeAvailableSyncs` | the same | |
| `send_safety` | `NoOverlap`, `FinishesOnlyByChance`, and (`TypeOK`) that a write never exceeds the buffer | a buffer of 64 bytes and counts modulo 1024; lengths around each boundary (header just fits, payload ends with a buffer, sums that are a multiple of two buffers); two sends | 7 886 |
| `group_tcp` | `ImplementsSessionSync`, `ImplementsNodeSync` (two refinements; the last one end to end, from the application's `connect` to the peer), `OneReaderListens`, `OnlyFreshNodesTold`, and `QueuedSyncsRun`: what is queued in the backend gets its turn although other handlers throw before it | one backend, two sessions, an alias and no alias, two connects, one write, a queue shorter than 1 for calls (handlers that are queued together come from one call, or from a timer), one exception: one setup that fails, or one handler inside `poll()` that throws with another one behind it; runs, datagrams and uuids are not bounded | 638 783 |
| `local` | `OneSurvivor`, `RoleOrRetry`; `LeavesOnlyTheDead`: no process gives up its connection to one that lives; `EveryWorkerDies` where the second bind conflicts, as on Linux | three processes: one that listens, one that connects to it, one that takes over or competes; each may be killed. Stack of 3 calls: one that retries, one that retries again, one that is cut | 9 990 |
| `shm_init` | `NotHeldUpByTheDead`, `LeftLockedByKilled`, `InitEnds` | three processes, two of them killed: one that locks, one that removes the name under it, one that waits for either; two mutexes left locked | 8 939 |
| `shm_exclusion` | *violation* of `NoOtherProcess` | two processes, none killed | |

Deadlock is checked in all runs but `SessionSync`'s (a crashed process, a closed
session or a host whose processes are dead stutters in a named action).  In those of
`SessionSync` it is not: an application need not connect another node, and the queues may
be empty for good.

### Fairness

`GroupCore!Fairness` is weak fairness of `RunWorker` (an application that keeps
calling it, as the loop of `example/tcp/main.cpp` does), of the timer (time
passes), and of each step of the event loop: asio takes the head of its queue
as long as it is not stopped, and a handler returns.  The last is an assumption
about backends and callbacks; the loopback breaks it, which is what
`ReturnsOnlyWhenEmpty` says.  `Loopback!LFairness` is the same with the steps of its
handlers in place of the handler's return, and no assumption that they come to
an end; `findByUUID` has an answer or throws.  Nothing is assumed of API calls: `Delivered`,
`DetachCompletes` and `WritesAreHandled` speak of behaviours in which they end (`CallsEnd`).

`GroupTcp!TFairness` has the same assumptions about the application and the group's
loop, and that `poll()` goes on with a handler that is queued: asio's loop takes the
next one until none is left (`task_io_service::poll`).  The readers and the sessions
have conditions of their own, since their handlers are counted apart.  Nothing need
ever arrive, and whether a handler throws is not fair.

`TcpLocal!Fairness` and `ShmInit!Fairness` are weak fairness of what a process does
next by itself: a process that is not killed runs on.  In `ShmInit` that includes
the timeout of the lock, since time passes; being killed, arrivals and calls of
`Worker` are not fair.

### What was found

Four places where a comment or an example says one thing and the code does
another, each with a run that TLC finds violated:

1. *Loopback never calls back.*  The loops of `OnLocalNodeAvailable` and
   `OnLocalNodeUnavailable` (`loopback.cpp:31-34, 40-43`) do not advance their
   iterator: with a node in the table they never return.
   `example/loopback/main.cpp:103` relies on the callback.
2. *Nodes of one tick.*  `syncNodeList` remembers a time, and the range behind it
   is strict: a second node of the same microsecond is never told of, although
   `session.cpp:93-94` means to get at it.
3. *The flag that stays set.*  At a session's start `dispatch` runs `syncNodeList`
   inline, which clears the flag that is set right afterwards
   (`session.cpp:75-80`).  From then on `OnLocalNodeAvailable` does nothing for the
   session, against `tcp.cpp:37`.  The same mistake is what keeps `send` from
   throwing (`NoBusySend`): nothing else looks whether the last packet is out.
4. *The removed mutex.*  `initialize` removes the mutex's name before it opens it
   (`shm.cpp:50`): a process that comes later has a mutex of its own, against
   `shm.cpp:60-61`.  What the removal is good for is `NotHeldUpByTheDead`.

More are consequences of properties that hold.  `FinishesOnlyByChance`: `onSend`
adds the header and counts the payload twice (`protocol.hpp:73, 111`; the comment in
line 73 says "excludes header size"), so that the end of a packet is found by accident of
its lengths.  `PurgeFollowsReferences`: with 2^16 references a row is dropped like one with
none.  `LeavesOnlyTheDead` rests on the condition `remote_endpoint() < local_endpoint()`
(`tcp.cpp:94`), which holds at one end of each connection, the one that connected; the other
end closes the same connection (the part `Links` of the proofs' invariant), where
`tcp.cpp:90-92` wants one of two connections to be used.
`OneReaderListens`: no multicast over IPv6 is ever received, because
`udp::v4().type()` is what `udp::v6().type()` is (`tcp.cpp:168`, asio's `ip/udp.hpp:62`); the
IPv4 reader has two receives into one buffer instead.
`EmptyNeverFinishes` (a theorem) says what becomes of the packets that are sent at all: one without
payload is shorter than two buffers, so that its end is never found and its session never
leaves the transmission state.  `AvailableIsIdle` is the third divergence seen from the
other side: not only is one session left unsynced, no call of `OnLocalNodeAvailable` ever does
anything.
`EveryWorkerDies` says in one line what the TCP backend does on Linux
at this commit: the process that listens runs out of stack in `bind_or_connect`,
whose second bind can not succeed, and each other one follows a NULL acceptor in
its first heartbeat.

## 4. Proofs

`tlapm` checks every leaf.  The proofs assume the named `ASSUME`s of the modules:
names are distinct, the set of backends is finite, bounds are numbers, the
buffer is smaller than half the range of the counters.

`GroupCoreProofs` proves nine theorems of `Spec`:

* `TypeCorrect` is inductive by itself; `ForEachEnabledIsQueue` and `PostPositions` give
  the type and the positions of what a loop of posts puts on the queue.
* `NoStaleStopHolds` and `CleanRunWaitsHolds`.  `NoStaleStop` is not inductive: that a run
  ends with its timer armed, and leaves a stop behind, is excluded only because
  `stopped` without a fired timer means that there is no outstanding work.
  `StopInv` adds this link between `stopped`, `timer` and `phase`.
* `AvailBeforeUnavailHolds` needs `NonceInv`: the number of every node that was issued
  or is queued is at most `connectcount`, so that a new node's arrival can not be
  queued behind a departure of its own.
* `StopsAccountedHolds` counts: `CountInv` has one stop fewer for a run whose timer did not
  fire.  Lemmas say what `Append` and `Tail` do to the number of stops in a queue.
* `NothingLostHolds` and `DetachedDrainsHolds` are read off one lemma, `QueueStep`: a step
  leaves the queue, adds to its end, or takes its head in a run that is not stopped; and
  what it adds is for enabled backends, or no backend's.  `PostGrows` is the induction-free
  form of it for a loop of posts, by positions (`ForEachEnabledIsQueue`, `PostPositions`).
* `RowsUniqueHolds`: from `Insert`, the purge and the reference count's step.
* `PurgeFollowsReferencesHolds` needs `HeldInv`: a row's counter and the references that are
  held on it differ by whole turns of the counter, and an id that is not given out has none.
  `CountIsHeld` then says when the counter is zero.  The width of the counter is arbitrary.

`LoopbackProofs` proves `LoopbackGroupSafe`, what `GroupCore` promises an application,
restated for a group with a loopback; `ReturnsOnlyWhenEmptyHolds`, from `EmptyInv`: an iterator
that is at `end()` looks at an empty table; and `CaughtForEver`: an announcement whose iterator
found a node runs for ever, which is why `ConnectTriggersCallback` fails.

`SessionSyncProofs` proves the four invariants of `SessionSync` and its refinement of
`NodeSync`, for any number of sessions and nodes.  Its invariant has three parts.
`TypeOK` has what the table, the clock and the times of the sessions have to do with
each other; `QueueInv` says that only uuids are ever queued, one for each session: no `syncNodeList`
is, since each one that is started runs inside the poll; `SetInv` that one session at most
is in the set, with its flag set for good, and that the others told nobody anything.
`NoneSkippedHolds` assumes `ClockAdvances`, without which `sync_ties` violates it.
`AvailableIsIdleHolds` follows from `SetInv`: the sessions that are not enqueued are those
outside the set.

`GroupTcpProofs` proves that `GroupCore`'s theorems hold of a group
with the TCP backend (`TcpGroupSafe`); `OneReaderListensHolds`, from `ReadersInv`, which counts the receives
before and after the setup that succeeds; and `OnlyFreshNodesToldHolds`: `FreshInv` says that
no row has a reference and that every row is younger than the last purge, so that the
purge empties the table.

`GroupTcpSyncProofs` proves the first refinement, `ImplementsSessionSyncHolds`, and the
type invariant `TTypeCorrect`.  Each step of the group is mapped to one of `SessionSync`:
a connect to its `Connect`, whether the row is refused or not (`ConnectStep`, with
`ConnectAddsOne` for the announcement it queues); a disconnect to its `Disconnect` or to
nothing, as ids and uuids are unique; the end of a run to its `Purge`, as `FreshInv` says
that no row is left; an exception out of a poll to nothing, since it queues no more than a
stop.  `TailTakesOne` counts the announcements of a queue that loses its head, with a
bijection of positions.  `SessionSync`'s own invariant, `SessInv`, is instantiated for the
group's table and carried along (`SSP`, with its lemma `SessInvNext`), so that every
theorem of `SessionSyncProofs` holds of the sessions of a group.  Three theorems say what that
comes to: `GroupSessionsSafe` (no send throws, one announcement at most), `GroupSkipsNone` (if the
clock advances), and `GroupImplementsNodeSync`, the refinement of `NodeSync` by a whole group:
between the application's `connect` and the peer lie the group's queue, the backend's
queue, timers, exceptions and purges, and yet the peer is told of connected nodes, in order,
each once.  `SameLive` shows that the connected nodes are the same seen from either module.

`TcpSendProofs` proves `SendTypeCorrect`, with the bound on what is handed to
`async_write`, and `NoOverlapHolds`, whose invariant is that nothing is in flight
while `outstate` is `FREE`.  `FinishesOnlyByChanceHolds` assumes that twice the buffer
divides the range of the counters (2^32 and 16384).  Its invariant, `LeftInv`: when the write
under way is counted, what is left is, up to multiples of two buffers, the packet's
length or its negation; a write of a full buffer keeps that, a write of all the rest
changes the sign.  `EmptyNeverFinishes` adds `FitsInv`, that what is on its way was not refused: a
header alone is longer than none and shorter than two buffers, and so no multiple of them.

`TcpLocalProofs` proves the type invariant, `OneSurvivorHolds` and `RoleOrRetryHolds`
from one inductive invariant, for any number of processes and
any stack: `Roles` says what a process has at each place of `bind_or_connect`, which
makes `RoleOrRetry` inductive; `OneOwner` is the port's exclusion, which with "who is
up has both acceptors" gives `OneSurvivor`; `Links` is what `kept` may contain.
`DeathKeepsInv` and `RedispatchKeepsInv` are the two steps that several actions share.
`LeavesOnlyTheDeadHolds` adds `Ends`: a lost end is a dead process's, and a process that lives
and has a session in its set has it for the connection it made.

Two more are the part of `EveryWorkerDies` that is not liveness.  `NoneComesThrough`: where the mapped
address conflicts nobody ever has the second acceptor or passes a heartbeat.
`EveryWorkerRunsDown` has a variant, `Rank`: the steps a process has left, three for each call of
`bind_or_connect` that still fits the stack and a few outside `poll()`.  Each step of its own
lowers it, and no other process, arrival or death raises it.  That a live process can step,
and that fairness then makes it, is left to TLC.

`ShmInitProofs` proves the type invariant, `LeftLockedByKilledHolds` and
`NotHeldUpByTheDeadHolds`.  The last needs `NewNames`: as long as a process that has
removed the name has not opened it again, nobody who was dead when it did has
opened what the name stands for now.

Only model-checked: liveness (`Delivered`, `DetachCompletes`, `WritesAreHandled`,
`EveryWorkerDies`, `InitEnds`, `QueuedSyncsRun`), which is out of the prover's reach, as
fairness and `ENABLED` are.
For three of them the safety they rest on is proved: `NothingLost` for `Delivered`,
`DetachedDrains` for `DetachCompletes`, `RunsDown` for `EveryWorkerDies`.  Every invariant and every
action property or refinement that a passing run checks is proved.

## 5. Not modelled

* `TCP_Protocol`'s receiving half, and with it `loadUUID`.  It is never run: `onRead`
  starts a read only if the socket is open (`protocol.hpp:60`), the one call that is not
  a completion of a read is the constructor's (`protocol.hpp:45`), and
  `TCP_Session` constructs the protocol before its socket is opened
  (`session.cpp:21`).  Nor is there anything it could be a model of: `inbuffer` and
  `readoffset` are not initialized, the `FREE` case drops the chunk that has just been
  read (line 202), line 215 overwrites the header's length instead of reading the
  payload's, and `loadUUID` copies in the wrong direction (`inode.cpp:93`).
* The TCP backend's connections to other hosts.  `handle_receive_from` connects to
  a host whose uuid is not its own; all of them are nil (`core.cpp:19`), so that it
  never does.
* A connection that fails after the process that made it has kept it.  `TcpLocal` hands a kept
  session on to `SessionSync`; `on_local_close` would run once more when it fails.  But the
  heartbeat that ends such a process is the next handler but for what has arrived by then, and
  the completions of what the session sends are queued behind it.
* What is behind the constructor of the shared memory segment
  (`shm.cpp:98-154`), which is never reached.
* `NetInterface` (operating system queries, no caller), `Exception` (formatting),
  the examples (only the API calls they make), the rest of boost.
* Threads: the library has no locks and its examples one thread.
* Lifetimes.  The pointers that `LocalNode` posts to callbacks are never followed, as the
  handler that posts them does not return (`ReturnsOnlyWhenEmpty`).  An acceptor has two owners
  (`tcp.cpp:229`), and neither goes before the process does.

## 6. Plan

Done, in this order: `GroupCore` with its proofs, since every component meets
there; `Loopback` as its implementation; `SessionSync` against `NodeSync`; `TcpSend`;
`ShmInit` and `TcpLocal`, with their proofs; `GroupTcp`, the composition of `GroupCore`
and `SessionSync`; the proofs of `SessionSync`, of `GroupTcp` with its two refinements,
of what had been left of `GroupCore`, `Loopback` and `TcpSend`; then the action properties of
the group's queue, the end-to-end refinement of `NodeSync` by a group, and the variant of
`TcpLocal`.

1. Composition of `SessionSync` with `TcpSend`: `SendFinishes` lets a packet be found to be
   sent, `EmptyNeverFinishes` says that it never is.
2. `ShmInit` as a backend of a `GroupCore`: an `attachBackend` that throws or dies.
