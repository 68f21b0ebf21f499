------------------------------ MODULE Loopback ------------------------------
(***************************************************************************)
(* GScale::Backend::Loopback attached to a GroupCore: the handlers that    *)
(* GroupCore leaves open are the ones of loopback.cpp.                     *)
(*                                                                         *)
(* OnLocalNodeAvailable and OnLocalNodeUnavailable walk the uuid index     *)
(* with an iterator that the loop's body never advances; a handler that    *)
(* finds a row either skips its own node for ever or posts one callback    *)
(* after the other.  The position of the iterator is the state added here. *)
(***************************************************************************)
EXTENDS GroupCore

VARIABLE
  it    \* the node the handler's iterator is at; NoNode: end(), or not looking

lvars == <<vars, it>>

Announcement == current.op \in {"Avail", "Unavail"}
Uuids        == {r.uuid : r \in localnodes}

\* begin() of the uuid index: whichever row has the least uuid (uuids are hashes
\* or random, so it may be any row), end() when the table is empty.
Begin == IF localnodes = {} THEN {NoNode} ELSE Uuids

AtEndAfterOneRow(i) == TRUE

\* it == end(): the iterator never moves, so it is there at begin() or never.
AtEnd(i) == i = NoNode

-----------------------------------------------------------------------------

LInit == Init /\ it = NoNode

\* The application, runWorker and the io_service: as in GroupCore.
Outside ==
  /\ \/ API
     \/ \E timeout \in BOOLEAN : RunWorker(timeout)
     \/ TimerFires
     \/ StopHandler
     \/ RunReturns
  /\ UNCHANGED it

\* The io_service calls a handler; an announcement starts at begin().
LBegin ==
  /\ BeginHandler
  /\ IF Head(ioq).op \in {"Avail", "Unavail"} THEN it' \in Begin ELSE it' = NoNode

\* if(it->uuid == node.uuid) continue: the same row again, for ever.  A loop
\* that posts for ever is cut at MaxQueue, from where it goes on like this too.
Spin ==
  /\ phase = "handler" /\ Announcement
  /\ it # NoNode
  /\ it = current.node \/ Len(ioq) >= MaxQueue
  /\ UNCHANGED lvars

\* it->node.OnNodeAvailable or OnNodeUnavailable, with no it++ behind it.
Notify ==
  /\ phase = "handler" /\ Announcement
  /\ it # NoNode /\ it # current.node
  /\ PostCallback
  /\ UNCHANGED it

\* OnLocalNodeWritesToGroup: the receiver is in the table, and hears of it.
Read ==
  /\ phase = "handler" /\ current.op = "Write"
  /\ it = NoNode
  /\ it' \in Uuids
  /\ PostCallback

\* findByUUID throws ENOENT: the receiver may be a node of any host, or nil.
ReadThrows ==
  /\ phase = "handler" /\ current.op = "Write"
  /\ it = NoNode
  /\ HandlerThrows
  /\ UNCHANGED it

\* The packet of a Write is whatever write() read behind the list's end.
ReadCrashes == current.op = "Write" /\ HandlerCrashes /\ UNCHANGED it

\* while(it != end) is over; Worker and the user's callbacks return as well.
Returns ==
  /\ phase = "handler"
  /\ Announcement => AtEnd(it)
  /\ current.op = "Write" => it # NoNode
  /\ HandlerReturns
  /\ it' = NoNode

\* A user callback throws.
CallbackThrows ==
  /\ phase = "handler" /\ current.op = "Callback"
  /\ HandlerThrows
  /\ UNCHANGED it

LNext ==
  \/ Outside
  \/ LBegin
  \/ Spin
  \/ Notify
  \/ Read
  \/ ReadThrows
  \/ ReadCrashes
  \/ Returns
  \/ CallbackThrows
  \/ Gone /\ UNCHANGED it

LSpec == LInit /\ [][LNext]_lvars

\* As GroupCore's fairness, with the handler's own steps for its return; findByUUID has
\* an answer or throws.
LFairness ==
  /\ WF_lvars((\E timeout \in BOOLEAN : RunWorker(timeout)) /\ UNCHANGED it)
  /\ WF_lvars(TimerFires /\ UNCHANGED it)
  /\ WF_lvars(StopHandler /\ UNCHANGED it)
  /\ WF_lvars(RunReturns /\ UNCHANGED it)
  /\ WF_lvars(LBegin)
  /\ WF_lvars(Notify)
  /\ WF_lvars(Read \/ ReadThrows)
  /\ WF_lvars(Returns)

LFairSpec == LSpec /\ LFairness

-----------------------------------------------------------------------------
(* Properties.                                                             *)

\* An announcement handler that returns found an empty table: with one node or
\* more connected, it never returns (no it++ in loopback.cpp:31-34, 40-43), and
\* neither does the runWorker that called it, whatever its timeout.
ReturnsOnlyWhenEmpty ==
  [][phase = "handler" /\ Announcement /\ phase' # "handler" => localnodes = {}]_lvars

\* An announcement whose iterator found a node.
Caught == phase = "handler" /\ Announcement /\ it # NoNode

Writing ==
  \/ phase = "handler" /\ current.op = "Write"
  \/ \E i \in DOMAIN ioq : ioq[i].op = "Write"

\* Each packet written to the group gets its turn, and its handler ends, although the
\* receivers of those before it are gone and findByUUID's exception unwinds one runWorker
\* after the other (loopback.cpp:48); only an announcement that found a node is in the way.
WritesAreHandled ==
  CallsEnd => (Writing ~> (~ Writing \/ phase = "crashed" \/ Caught))

\* example/loopback/main.cpp:103: "since connect triggers the available callback
\* via the localloopback one can create some kind of conversation just by
\* adding nodes": with two nodes in the table and an announcement that is about
\* to be handled, a callback gets executed.
ConnectTriggersCallback ==
  (/\ phase = "handler" /\ current.op = "Avail"
   /\ Cardinality({r \in localnodes : r.connected}) >= 2)
    ~> (phase = "handler" /\ current.op = "Callback")

=============================================================================
