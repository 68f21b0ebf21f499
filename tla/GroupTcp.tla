------------------------------ MODULE GroupTcp ------------------------------
(***************************************************************************)
(* A group whose one backend is TCP: GroupCore, with TCP's handlers in the *)
(* place of the ones it leaves open, and SessionSync, with the node table, *)
(* the queue and the runs of a group for its environment.                  *)
(*                                                                         *)
(* The two event loops are nested.  The group's calls Worker once for each *)
(* runWorker, Worker polls the backend's own io_service until that has no  *)
(* handler that is ready, and only then does the group's go on; an         *)
(* exception of a handler inside leaves both.  What arrives between two    *)
(* polls is found by the next one.                                         *)
(*                                                                         *)
(* Worker sets the backend up when it is called first, or again as long as *)
(* that fails: the multicast sockets may not be had, and `initialized' is  *)
(* set at the end.                                                         *)
(*                                                                         *)
(* From TcpLocal only this is left: a poll may end the process.  Whether   *)
(* the remote endpoint is the lower one is open, as in SessionSync, since  *)
(* that depends on the ports that the system hands out.                    *)
(*                                                                         *)
(* Not in the model: detachBackend, which no user of TCP calls (what it    *)
(* does to a group is in GroupCore).                                       *)
(***************************************************************************)
EXTENDS GroupCore

CONSTANTS
  Tcp,           \* typeid(TCP).name()
  Sessions,      \* the TCP_Sessions, as in SessionSync
  ClockAdvances  \* as in SessionSync

ASSUME TcpAssumption == BackendTypes = {Tcp} /\ ClockAdvances \in BOOLEAN

VARIABLES
  times,       \* time_connect of the node that was given each id
  initialized, \* TCP::initialized
  receives,    \* per reader: the async_receive_froms its socket has pending
  received,    \* per reader: handle_receive_froms in the backend's queue
  tcpq, sock, enqueued, synctime, out, told, thrown,  \* as in SessionSync
  purged       \* connectcount when the last runWorker returned (history)

readers == <<initialized, receives, received>>
session == <<sock, enqueued, synctime, out, told>>
backend == <<readers, tcpq, session, thrown>>
tvars   == <<vars, times, backend, purged>>

Readers == {"v4", "v6"}

TypeByVersion(v) == v

\* udp::v4().type() and udp::v6().type(): of either version.
Type(v) == "SOCK_DGRAM"

\* The socket that handle_receive_from starts a receive on, for a given type.
ReaderFor(type) == IF type = Type("v4") THEN "v4" ELSE "v6"

-----------------------------------------------------------------------------
(* What SessionSync sees of the group.                                     *)

TableRows ==
  {[id |-> r.id, time |-> times[r.id], connected |-> r.connected] : r \in localnodes}

Clock == IF times = <<>> THEN 1 ELSE Last(times)

Avails(q) == {i \in DOMAIN q : q[i].op = "Avail"}

\* OnLocalNodeAvailables that are queued, and the one that is running.
Announcements == Cardinality(Avails(ioq)) + (IF current.op = "Avail" THEN 1 ELSE 0)

SS == INSTANCE SessionSync WITH
  rows <- TableRows, count <- connectcount, now <- Clock,
  avail <- Announcements, MaxNodes <- MaxConnects

-----------------------------------------------------------------------------
(* The group: the application, and runWorker outside Worker.               *)

TConnect(alias) ==
  /\ Connect(alias)
  /\ \E now \in IF ClockAdvances THEN {Clock + 1} ELSE {Clock, Clock + 1} :
       times' = Append(times, now)
  /\ UNCHANGED <<backend, purged>>

\* OnLocalNodeUnavailable and OnLocalNodeWritesToGroup are empty: they return, unless
\* the packet that is copied for the latter is not one.
EmptyHandler ==
  /\ current.op \in {"Unavail", "Write"}
  /\ HandlerReturns \/ HandlerCrashes

Outside ==
  /\ \/ Attach(Tcp)
     \/ \E node \in issued : Disconnect(node)
     \/ Write
     \/ \E timeout \in BOOLEAN : RunWorker(timeout)
     \/ TimerFires
     \/ StopHandler
     \/ BeginHandler
     \/ EmptyHandler
     \/ Gone
  /\ UNCHANGED <<times, backend, purged>>

TRunReturns ==
  /\ RunReturns
  /\ purged' = connectcount
  /\ UNCHANGED <<times, backend>>

-----------------------------------------------------------------------------
(* OnLocalNodeAvailable, called by the group's loop.                       *)

Avail ==
  /\ current.op = "Avail" /\ HandlerReturns
  /\ UNCHANGED <<times, readers, purged>>
  /\ SS!OnLocalNodeAvailable

-----------------------------------------------------------------------------
(* Worker, as long as the backend is not initialized.                      *)

Setup == phase = "handler" /\ current.op = "Worker" /\ ~ initialized

\* reset(new socket) destroys the old one, and what that had pending is queued, with
\* operation_aborted; each call of handle_receive_from starts one receive.
Replace(sockets, calls) ==
  /\ received' = [v \in Readers |->
       IF v \in sockets THEN received[v] + receives[v] ELSE received[v]]
  /\ receives' = [v \in Readers |->
       (IF v \in sockets THEN 0 ELSE receives[v])
         + Cardinality({c \in calls : ReaderFor(Type(c)) = v})]

SetupSucceeds ==
  /\ Setup
  /\ Replace(Readers, Readers)
  /\ initialized' = TRUE
  /\ UNCHANGED <<vars, times, tcpq, session, thrown, purged>>

\* A socket can not be had, bound, or made a member of its multicast group: for sending;
\* the first reader; the second reader, when the first one is receiving already.
SetupFails ==
  /\ Setup /\ HandlerThrows
  /\ \/ UNCHANGED <<receives, received>>
     \/ Replace({"v4"}, {})
     \/ Replace(Readers, {"v4"})
  /\ UNCHANGED <<times, initialized, tcpq, session, thrown, purged>>

-----------------------------------------------------------------------------
(* Worker's poll().                                                        *)

PollingFirst == phase = "handler" /\ current.op = "Worker"

Polling == phase = "handler" /\ current.op = "Worker" /\ initialized

Arrives ==
  /\ Polling
  /\ UNCHANGED <<vars, times, readers, purged>>
  /\ \E s \in Sessions : SS!UuidArrives(s) \/ SS!SendFinishes(s) \/ SS!SendFails(s)

\* A syncNodeList that was queued, or a uuid_read_finished that keeps or closes its
\* session; send's exception would leave the group's loop as well.
HandleSession ==
  /\ Polling
  /\ \E s \in Sessions :
       /\ IF SS!SendThrows(s) THEN HandlerThrows ELSE UNCHANGED vars
       /\ UNCHANGED <<times, readers, purged>>
       /\ SS!PollSync(s) \/ SS!PollRefused(s)

DropQueue(q) == <<>>

\* The handler is gone, those behind it stay queued.
KeepQueue(q) == Tail(q)

\* uuid_read_finished asks for the endpoints of a socket that has lost its peer, or that
\* uuid_write_finished closed: remote_endpoint throws, and the session is not kept.
EndpointThrows ==
  /\ Polling /\ HandlerThrows
  /\ SS!InSet = {}
  /\ tcpq # <<>> /\ Head(tcpq).kind = "uuidread"
  /\ tcpq' = KeepQueue(tcpq)
  /\ sock' = [sock EXCEPT ![Head(tcpq).of] = "refused"]
  /\ UNCHANGED <<times, readers, enqueued, synctime, out, told, thrown, purged>>

Datagram(v) ==
  /\ Polling /\ receives[v] > 0
  /\ receives' = [receives EXCEPT ![v] = @ - 1]
  /\ received' = [received EXCEPT ![v] = @ + 1]
  /\ UNCHANGED <<vars, times, initialized, tcpq, session, thrown, purged>>

NotRestarted(v) == receives

\* The type that is bound to the handler says which socket receives next.
Restarted(v) == [receives EXCEPT ![ReaderFor(Type(v))] = @ + 1]

\* The datagram is a heartbeat, which is taken for one of this process' own, or it is
\* an error: a receive is started again, on the socket there is by now.
HandleReceiveFrom(v) ==
  /\ Polling /\ received[v] > 0
  /\ received' = [received EXCEPT ![v] = @ - 1]
  /\ receives' = Restarted(v)
  /\ UNCHANGED <<vars, times, initialized, tcpq, session, thrown, purged>>

\* The datagram is something else: text_iarchive throws.
ArchiveThrows(v) ==
  /\ Polling /\ received[v] > 0 /\ HandlerThrows
  /\ received' = [received EXCEPT ![v] = @ - 1]
  /\ UNCHANGED <<times, initialized, receives, tcpq, session, thrown, purged>>

\* The stack, or an acceptor of the heartbeat: see TcpLocal.
PollCrashes ==
  /\ Polling /\ HandlerCrashes
  /\ UNCHANGED <<times, backend, purged>>

\* Without the reset: an io_service that has stopped polls nothing.
ReturnsUnpolled ==
  /\ Polling /\ HandlerReturns
  /\ UNCHANGED <<times, backend, purged>>

WorkerReturns ==
  /\ Polling /\ HandlerReturns
  /\ tcpq = <<>> /\ \A v \in Readers : received[v] = 0
  /\ UNCHANGED <<times, backend, purged>>

-----------------------------------------------------------------------------

TInit ==
  /\ Init
  /\ times = <<>>
  /\ initialized = FALSE
  /\ receives = [v \in Readers |-> 0] /\ received = [v \in Readers |-> 0]
  /\ tcpq = <<>>
  /\ sock = [s \in Sessions |-> "none"]
  /\ enqueued = [s \in Sessions |-> FALSE]
  /\ synctime = [s \in Sessions |-> SS!NoTime]
  /\ out = [s \in Sessions |-> "free"]
  /\ told = [s \in Sessions |-> <<>>]
  /\ thrown = FALSE
  /\ purged = 0

Poll ==
  \/ Arrives
  \/ HandleSession
  \/ EndpointThrows
  \/ \E v \in Readers : Datagram(v) \/ HandleReceiveFrom(v) \/ ArchiveThrows(v)
  \/ PollCrashes
  \/ WorkerReturns

TNext ==
  \/ Outside
  \/ \E alias \in Aliases \cup {NoAlias} : TConnect(alias)
  \/ TRunReturns
  \/ Avail
  \/ SetupSucceeds \/ SetupFails
  \/ Poll

TSpec == TInit /\ [][TNext]_tvars

\* An application that keeps calling runWorker, as example/tcp/main.cpp does, and event
\* loops that take their next handler.  Nothing need ever arrive.
TFairness ==
  /\ WF_tvars(Outside /\ (\/ \E timeout \in BOOLEAN : RunWorker(timeout)
                          \/ StopHandler \/ BeginHandler \/ EmptyHandler))
  /\ WF_tvars(Outside /\ TimerFires)
  /\ WF_tvars(TRunReturns)
  /\ WF_tvars(Avail)
  /\ WF_tvars(SetupSucceeds \/ SetupFails)
  /\ WF_tvars(HandleSession \/ EndpointThrows)
  /\ \A v \in Readers : WF_tvars(HandleReceiveFrom(v) \/ ArchiveThrows(v))
  /\ WF_tvars(WorkerReturns)

TFairSpec == TSpec /\ TFairness

-----------------------------------------------------------------------------
(* Properties.                                                             *)

\* Besides the types: every id given out has a time, and only a backend that is
\* attached and initialized has sessions.
TTypeOK ==
  /\ times \in Seq(Nat) /\ Len(times) = connectcount
  /\ initialized \in BOOLEAN
  /\ receives \in [Readers -> Nat] /\ received \in [Readers -> Nat]
  /\ SS!TypeOK
  /\ purged \in 0 .. connectcount
  /\ ~ initialized => tcpq = <<>> /\ \A s \in Sessions : sock[s] = "none"

\* The group is an environment of the sessions that SessionSync takes into account:
\* its runs, purges, exceptions and refused aliases show them nothing else.
ImplementsSessionSync == SS!Spec

NS == INSTANCE NodeSync WITH
  live <- {r.id : r \in {x \in localnodes : x.connected}}, count <- connectcount

\* End to end: what applications connect and disconnect is what peers are told of, in
\* order and once each, across runs, refused aliases, purges and exceptions.
ImplementsNodeSync == NS!SyncSpec

\* What a peer is told of was connected since the last runWorker that returned, or
\* while it ran: the purge at its end (groupcore.cpp:95) takes every row of a group whose
\* backend is TCP.  A node that was not told of by then never will be.
OnlyFreshNodesTold ==
  [][\A s \in Sessions : told'[s] # told[s] => Last(told'[s]) > purged]_tvars

\* The v6 reader never receives, as the two type()s are equal (tcp.cpp:168, 298): the v4
\* one has both receives, waiting or queued, as long as no exception has left a Worker;
\* setups that failed and exceptions while polling add or lose one each.
OneReaderListens ==
  LET all == receives["v4"] + received["v4"] IN
  /\ receives["v6"] + received["v6"] = 0
  /\ initialized /\ throws = 0 => all = 2
  /\ all <= throws + 2

\* A uuid that has arrived or a syncNodeList that is queued gets its turn, whatever else
\* throws before it and leaves poll(), Worker and runWorker.
QueuedSyncsRun ==
  \A s \in Sessions :
    (\E i \in DOMAIN tcpq : tcpq[i].of = s)
      ~> (phase = "crashed" \/ \A i \in DOMAIN tcpq : tcpq[i].of # s)

=============================================================================
