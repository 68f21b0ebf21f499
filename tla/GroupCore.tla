------------------------------ MODULE GroupCore ------------------------------
(***************************************************************************)
(* GScale::GroupCore: one process's member of a group.                     *)
(*                                                                         *)
(* The core keeps the table of nodes this process connected to the group,  *)
(* the table of attached backends and one asio io_service.  Nothing is     *)
(* locked: the application thread calls the API and runs the queue inside  *)
(* runWorker.  What makes the component hard is the ORDER of things: API   *)
(* calls only enqueue, handlers run later against tables that may have     *)
(* changed, runWorker may be stopped by its timer or left by an exception, *)
(* and it purges both tables only on the way out.                          *)
(*                                                                         *)
(* Backends are abstract here (any IBackend): a handler may post user      *)
(* callbacks, change the reference counts, return or throw.  The shipped   *)
(* backends are modelled by modules that implement this one.               *)
(***************************************************************************)
EXTENDS Integers, FiniteSets, Sequences, SequencesExt

CONSTANTS
  BackendTypes,  \* the typeid names of the backends the application uses
  Aliases,       \* the aliases it may connect nodes with
  NoAlias,       \* connect(cbs): the empty alias
  NoBackend,     \* the backend field of a handler that is not a backend's
  NoNode,        \* the node field of a handler that carries none
  RefModulus,    \* 2^16: LocalNodeRow::backendrefcount is a uint16_t
  MaxConnects,   \* bound: calls of connect
  MaxWrites,     \* bound: calls of write
  MaxRefs,       \* bound: references that backends hold on one row
  MaxQueue,      \* bound: the application stops calling beyond this length
  MaxThrows      \* bound: exceptions that leave a handler

ASSUME NamesAssumption ==
  /\ NoAlias \notin Aliases
  /\ NoBackend \notin BackendTypes
  /\ IsFiniteSet(BackendTypes)
ASSUME NoNodeAssumption ==
  NoNode \notin [alias : Aliases \cup {NoAlias}, nonce : Nat]
ASSUME BoundsAssumption ==
  /\ RefModulus \in Nat \ {0}
  /\ MaxConnects \in Nat /\ MaxWrites \in Nat /\ MaxRefs \in Nat
  /\ MaxQueue \in Nat /\ MaxThrows \in Nat

VARIABLES
  backends,      \* BackendSet: absent, or a row that is enabled or disabled
  localnodes,    \* LocalNodeSet: a set of rows
  connectcount,  \* the last row id given out
  sendqueue,     \* PacketSet: for each packet row, its backendref
  issued,        \* the LocalNode values the application holds (history)
  held,          \* for each row id, references taken less those given back (history)
  ioq,           \* the io_service's queue of handlers, head first
  stopped,       \* io_service::stopped()
  timer,         \* the deadline_timer of the current runWorker
  phase,         \* where the application thread is
  current,       \* the handler it is executing in phase "handler", else Stop
  throws         \* exceptions that left runWorker so far (history)

core == <<backends, localnodes, connectcount, sendqueue, issued, held>>
io   == <<ioq, stopped, timer, phase, current, throws>>
vars == <<core, io>>

Nodes    == [alias : Aliases \cup {NoAlias}, nonce : Nat]
Rows     == [id : Nat, uuid : Nodes, connected : BOOLEAN,
             backendrefcount : 0 .. (RefModulus - 1)]
Handlers == [op : {"Worker", "Avail", "Unavail", "Write", "Callback", "Stop"},
             backend : BackendTypes \cup {NoBackend},
             node : Nodes \cup {NoNode}]

Handler(op, b, n) == [op |-> op, backend |-> b, node |-> n]
Stop              == Handler("Stop", NoBackend, NoNode)
Callback          == Handler("Callback", NoBackend, NoNode)

-----------------------------------------------------------------------------
(* The tables.                                                             *)

EnabledIgnoringFlag == {b \in BackendTypes : backends[b] # "absent"}

\* The rows the range (false, true] of the backend_enabled index selects.
Enabled == {b \in BackendTypes : backends[b] = "enabled"}

\* INode's uuid: a function of the alias, or random when there is none.
NewNode(alias) ==
  [alias |-> alias, nonce |-> IF alias = NoAlias THEN connectcount + 1 ELSE 0]

InsertUnchecked(rows, row) == rows \cup {row}

\* multi_index insert: refused, silently, when a unique key is taken.
Insert(rows, row) ==
  IF \E r \in rows : r.id = row.id \/ r.uuid = row.uuid
  THEN rows
  ELSE rows \cup {row}

PurgeUpToOne(rows) == {r \in rows : r.backendrefcount > 1}

KeepNodes(rows) == rows

\* The range [0, 1) of the node_brefcnt index is erased.
PurgeNodes(rows) == {r \in rows : r.backendrefcount # 0}

PurgeNoBackend(bs) == bs

PurgeBackends(bs) ==
  [b \in BackendTypes |-> IF bs[b] = "disabled" THEN "absent" ELSE bs[b]]

AddRefUnbounded(count, by) == count + by

\* backendrefcount++ and its inverse: uint16_t arithmetic.
AddRef(count, by) == (count + by) % RefModulus

-----------------------------------------------------------------------------
(* The io_service: boost::asio, as runWorker uses it from one thread.      *)

PushFront(q, s) == s \o q

\* post, and dispatch from outside run(): the queue is first in, first out.
Post(q, s) == q \o s

\* One handler of each enabled backend, in the order of the backend index.
ForEachEnabled(op, n) ==
  {[i \in DOMAIN o |-> Handler(op, o[i], n)] : o \in SetToSeqs(Enabled)}

NoWorkIgnoringTimer(q, t) == q = <<>>

\* outstanding_work_: queued handlers and a timer that is waited for.
NoWork(q, t) == q = <<>> /\ t # "armed"

KeepStopped(q, t) == stopped

\* if(stopped()) reset(); then run() stops at once when there is no work.
StoppedAtRun(q, t) == NoWork(q, t)

\* ~deadline_timer: a pending wait completes (operation_aborted) on the
\* queue, and its handler, io_service::stop, does not look at the error.
ReleaseTimer(q, t) == IF t = "armed" THEN Append(q, Stop) ELSE q

-----------------------------------------------------------------------------
(* The API, called by the application between runs or from a callback.     *)

UserCode == \/ phase = "idle"
            \/ phase = "handler" /\ current.op = "Callback"

Attach(b) ==
  /\ UserCode
  /\ backends[b] = "absent"
  /\ backends' = [backends EXCEPT ![b] = "enabled"]
  /\ UNCHANGED <<localnodes, connectcount, sendqueue, issued, held, io>>

Detach(b) ==
  /\ UserCode
  /\ backends[b] # "absent"
  /\ backends' = [backends EXCEPT ![b] = "disabled"]
  /\ UNCHANGED <<localnodes, connectcount, sendqueue, issued, held, io>>

Connect(alias) ==
  LET node == NewNode(alias) IN
  /\ UserCode
  /\ connectcount < MaxConnects /\ Len(ioq) < MaxQueue
  /\ connectcount' = connectcount + 1
  /\ localnodes' = Insert(localnodes, [id |-> connectcount + 1, uuid |-> node,
                                       connected |-> TRUE, backendrefcount |-> 0])
  /\ issued' = issued \cup {node}
  /\ \E hs \in ForEachEnabled("Avail", node) : ioq' = Post(ioq, hs)
  /\ UNCHANGED <<backends, sendqueue, held, stopped, timer, phase, current, throws>>

Disconnect(node) ==
  /\ UserCode
  /\ Len(ioq) < MaxQueue
  /\ localnodes' = {IF r.uuid = node THEN [r EXCEPT !.connected = FALSE] ELSE r :
                      r \in localnodes}
  /\ \E hs \in ForEachEnabled("Unavail", node) : ioq' = Post(ioq, hs)
  /\ UNCHANGED <<backends, connectcount, sendqueue, issued, held,
                 stopped, timer, phase, current, throws>>

\* (pidx.end()--) is end(): the packet handed to the backends is whatever the
\* header node of the index holds, so copying it may also end the process.
Write ==
  /\ UserCode
  /\ Len(sendqueue) < MaxWrites /\ Len(ioq) < MaxQueue
  /\ sendqueue' = Append(sendqueue, Enabled)
  /\ \/ /\ \E hs \in ForEachEnabled("Write", NoNode) : ioq' = Post(ioq, hs)
        /\ UNCHANGED phase
     \/ /\ Enabled # {}
        /\ phase' = "crashed"
        /\ UNCHANGED ioq
  /\ UNCHANGED <<backends, localnodes, connectcount, issued, held,
                 stopped, timer, current, throws>>

-----------------------------------------------------------------------------
(* runWorker.                                                              *)

RunWorker(timeout) ==
  /\ phase = "idle"
  /\ \E hs \in ForEachEnabled("Worker", NoNode) :
       /\ ioq' = Post(ioq, hs)
       /\ timer' = IF timeout THEN "armed" ELSE "none"
       /\ stopped' = StoppedAtRun(ioq', timer')
  /\ phase' = "running"
  /\ UNCHANGED <<core, current, throws>>

\* The reactor sees the timer expire, between two handlers.
TimerFires ==
  /\ phase = "running" /\ timer = "armed"
  /\ timer' = "fired"
  /\ ioq' = Append(ioq, Stop)
  /\ UNCHANGED <<core, stopped, phase, current, throws>>

\* do_run_one takes the head; the timer's handler is io_service::stop.
StopHandler ==
  /\ phase = "running" /\ ~stopped
  /\ ioq # <<>> /\ Head(ioq) = Stop
  /\ ioq' = Tail(ioq)
  /\ stopped' = TRUE
  /\ UNCHANGED <<core, timer, phase, current, throws>>

BeginHandler ==
  /\ phase = "running" /\ ~stopped
  /\ ioq # <<>> /\ Head(ioq) # Stop
  /\ ioq' = Tail(ioq)
  /\ current' = Head(ioq)
  /\ phase' = "handler"
  /\ UNCHANGED <<core, stopped, timer, throws>>

InBackend == phase = "handler" /\ current.op # "Callback"

\* A backend calls a method of a LocalNode: it posts the user's callback.
PostCallback ==
  /\ InBackend
  /\ Len(ioq) < MaxQueue
  /\ ioq' = Append(ioq, Callback)
  /\ UNCHANGED <<core, stopped, timer, phase, current, throws>>

\* increaseLocalNodeBackendRefCount and decreaseLocalNodeBackendRefCount: whether
\* a backend gives back what it took is up to the backend.
ChangeRef(id, by) ==
  /\ InBackend
  /\ held[id] + by \in -1 .. MaxRefs
  /\ held' = [held EXCEPT ![id] = @ + by]
  /\ localnodes' =
       {IF r.id = id
        THEN [r EXCEPT !.backendrefcount = AddRef(@, by)]
        ELSE r : r \in localnodes}
  /\ UNCHANGED <<backends, connectcount, sendqueue, issued, io>>

HandlerReturns ==
  /\ phase = "handler"
  /\ phase' = "running"
  /\ stopped' = NoWork(ioq, timer)
  /\ current' = Stop
  /\ UNCHANGED <<core, ioq, timer, throws>>

\* An exception leaves run() and runWorker: no purge, the timer is destroyed.
HandlerThrows ==
  /\ phase = "handler"
  /\ throws < MaxThrows
  /\ throws' = throws + 1
  /\ phase' = "idle"
  /\ stopped' = NoWork(ioq, timer)
  /\ ioq' = ReleaseTimer(ioq, timer)
  /\ timer' = "none"
  /\ current' = Stop
  /\ UNCHANGED core

\* A backend that uses the packet of a Write uses an indeterminate value, and the
\* TCP backend's Worker may exhaust the stack or follow a NULL acceptor.
HandlerCrashes ==
  /\ phase = "handler" /\ current.op \in {"Write", "Worker"}
  /\ phase' = "crashed"
  /\ UNCHANGED <<core, ioq, stopped, timer, current, throws>>

RunReturns ==
  /\ phase = "running" /\ stopped
  /\ phase' = "idle"
  /\ ioq' = ReleaseTimer(ioq, timer)
  /\ timer' = "none"
  /\ localnodes' = PurgeNodes(localnodes)
  /\ backends' = PurgeBackends(backends)
  /\ UNCHANGED <<connectcount, sendqueue, issued, held, stopped, current, throws>>

\* The process is gone: the one state in which nothing more happens.
Gone == phase = "crashed" /\ UNCHANGED vars

-----------------------------------------------------------------------------

Init ==
  /\ backends = [b \in BackendTypes |-> "absent"]
  /\ localnodes = {}
  /\ connectcount = 0
  /\ sendqueue = <<>>
  /\ issued = {}
  /\ held = [id \in 1 .. MaxConnects |-> 0]
  /\ ioq = <<>>
  /\ stopped = FALSE
  /\ timer = "none"
  /\ phase = "idle"
  /\ current = Stop
  /\ throws = 0

API ==
  \/ \E b \in BackendTypes : Attach(b) \/ Detach(b)
  \/ \E alias \in Aliases \cup {NoAlias} : Connect(alias)
  \/ \E node \in issued : Disconnect(node)
  \/ Write

Running ==
  \/ \E timeout \in BOOLEAN : RunWorker(timeout)
  \/ TimerFires
  \/ StopHandler
  \/ BeginHandler
  \/ PostCallback
  \/ \E r \in localnodes : ChangeRef(r.id, 1) \/ ChangeRef(r.id, -1)
  \/ HandlerReturns
  \/ HandlerThrows
  \/ HandlerCrashes
  \/ RunReturns

Next == API \/ Running \/ Gone

Spec == Init /\ [][Next]_vars

\* An application that keeps calling runWorker, as the loop of example/tcp
\* does, backends and callbacks that return, and a clock that advances.
Fairness ==
  /\ WF_vars(\E timeout \in BOOLEAN : RunWorker(timeout))
  /\ WF_vars(TimerFires)
  /\ WF_vars(StopHandler)
  /\ WF_vars(BeginHandler)
  /\ WF_vars(HandlerReturns)
  /\ WF_vars(RunReturns)

FairSpec == Spec /\ Fairness

-----------------------------------------------------------------------------
(* Properties.                                                             *)

TypeOK ==
  /\ backends \in [BackendTypes -> {"absent", "enabled", "disabled"}]
  /\ localnodes \subseteq Rows
  /\ connectcount \in Nat
  /\ sendqueue \in Seq(SUBSET BackendTypes)
  /\ issued \subseteq Nodes
  /\ held \in [1 .. MaxConnects -> Int]
  /\ ioq \in Seq(Handlers)
  /\ stopped \in BOOLEAN
  /\ timer \in {"none", "armed", "fired"}
  /\ phase \in {"idle", "running", "handler", "crashed"}
  /\ current \in Handlers
  /\ throws \in Nat

\* The node table never holds two rows with one id or one uuid, whatever the
\* order of connect, disconnect and purge: DAO lookups are unambiguous.
RowsUnique ==
  \A r, s \in localnodes : r.id = s.id \/ r.uuid = s.uuid => r = s

AnnouncedInOrder(q) ==
  \A i, j \in DOMAIN q :
    /\ i < j
    /\ q[i].op = "Unavail" /\ q[i].node.alias = NoAlias
    => ~ (q[j].op = "Avail" /\ q[j].node = q[i].node)

\* A node without alias is announced before its departure is: no backend has
\* an OnLocalNodeAvailable queued behind an OnLocalNodeUnavailable of the
\* node (groupcore.cpp posts both on one queue).
AvailBeforeUnavail == AnnouncedInOrder(ioq)

\* As long as no handler threw, every queued io_service::stop belongs to the
\* runWorker in progress: a run can not be cut short by an earlier run's timer.
NoStaleStop ==
  throws = 0 =>
    \A i \in DOMAIN ioq : ioq[i] = Stop => timer = "fired" /\ phase # "idle"

\* Every stop is accounted for: at most one per exception that unwound a timed
\* run, plus the one of the run in progress.
StopsAccounted ==
  Cardinality({i \in DOMAIN ioq : ioq[i] = Stop}) <= throws + 1

\* The handlers of b, after a step, are those of before in the same order; only the
\* head of the queue may be gone.
OnlyDrains(b, before, after) ==
  \E gone \in {0, 1} :
    /\ \A i \in DOMAIN after :
         after[i].backend = b => i + gone \in DOMAIN before /\ before[i + gone] = after[i]
    /\ \A i \in DOMAIN before :
         before[i].backend = b /\ i > gone
         => i - gone \in DOMAIN after /\ after[i - gone] = before[i]

\* A detached backend only drains: whatever is called or run, its handlers
\* leave the queue from the head and none joins them, until it is attached
\* again (connect, disconnect, write and runWorker select the enabled rows).
DetachedDrains ==
  [][\A b \in BackendTypes : backends[b] # "enabled" => OnlyDrains(b, ioq, ioq')]_vars

\* No call, timeout, exception or purge loses a handler or lets another overtake it:
\* what is queued stays where it is, or moves up as a run that is not stopped takes the
\* head (groupcore.cpp:83-88 leaves the queue to the next runWorker).
NothingLost ==
  [][\A i \in DOMAIN ioq :
       \/ i \in DOMAIN ioq' /\ ioq'[i] = ioq[i]
       \/ /\ phase = "running" /\ ~ stopped
          /\ i > 1 => i - 1 \in DOMAIN ioq' /\ ioq'[i - 1] = ioq[i]]_vars

\* Whatever backends took and gave back, in any order and over any number of runs: a row
\* on which 1 to 2^16 - 1 references are held is never dropped, and a run that returns
\* drops one on which none is.  At 2^16 the counter has come round: such a row goes too,
\* although it is referenced (util/groupcore.hpp:76, groupcore.cpp:93).
PurgeFollowsReferences ==
  [][\A r \in localnodes :
       LET kept == \E s \in localnodes' : s.id = r.id IN
       /\ held[r.id] \in 1 .. (RefModulus - 1) => kept
       /\ held[r.id] \in {0, RefModulus} /\ RunReturns => ~ kept]_vars

\* While nothing threw, a timed runWorker that returns has waited for its own
\* timer ("Wait for the timer to expire", groupcore.cpp:80).
CleanRunWaits ==
  [][throws = 0 /\ RunReturns => timer # "armed"]_vars

\* An application that makes no more calls than runWorker.
CallsEnd == <>[][~ API]_vars

\* Whatever a connect or disconnect announced is delivered once the application
\* only calls runWorker, however often that is stopped or unwound before:
\* runWorker resets the io_service and keeps what an earlier run left queued.
Delivered ==
  CallsEnd =>
    \A b \in BackendTypes : \A op \in {"Avail", "Unavail"} :
      (\E i \in DOMAIN ioq : ioq[i].backend = b /\ ioq[i].op = op)
        ~> \/ phase = "crashed"
           \/ \A i \in DOMAIN ioq : ~ (ioq[i].backend = b /\ ioq[i].op = op)

\* A detached backend's row goes away, so that attachBackend of that type stops
\* answering EALREADY (the purge at the end of runWorker).
DetachCompletes ==
  CallsEnd =>
    \A b \in BackendTypes :
      backends[b] = "disabled" ~> backends[b] # "disabled" \/ phase = "crashed"

=============================================================================
