---------------------------- MODULE SessionSync -----------------------------
(***************************************************************************)
(* How the TCP backend's sessions tell their peers of this host's nodes:   *)
(* TCP_Session::enqueueSyncNodeList and syncNodeList, the handlers that    *)
(* call them, and the node table they read through GroupNodesDAO.          *)
(*                                                                         *)
(* Two queues meet here.  GroupCore's io_service calls                     *)
(* TCP::OnLocalNodeAvailable; the backend's own io_service, polled by      *)
(* TCP::Worker, calls uuid_read_finished and the enqueued syncNodeList.    *)
(* dispatch runs a handler at once inside that poll and queues it outside. *)
(*                                                                         *)
(* The set of sessions is unique on the peer's host uuid.  Core gives every *)
(* host the nil uuid, so that the first session keeps the others out, and  *)
(* since nothing is ever erased from the set it does so when it is closed. *)
(*                                                                         *)
(* The packet's way to the peer is abstract (TcpSend models it): a send is *)
(* accepted when the last one is over, and ends well, or badly, or never.  *)
(* That is more than the code does: a node's packet has no payload, and    *)
(* TcpSend shows that such a packet is never found to be sent.             *)
(***************************************************************************)
EXTENDS Naturals, FiniteSets, Sequences, SequencesExt

CONSTANTS
  Sessions,      \* the TCP_Sessions: connections that were made or accepted
  ClockAdvances, \* TRUE: no two nodes connect within one tick of the clock.  It is a
                 \* wall clock, of which either value assumes that it is not set back
  MaxNodes       \* bound: calls of connect

ASSUME SyncAssumption == ClockAdvances \in BOOLEAN /\ MaxNodes \in Nat

NoTime == 0      \* not_a_date_time; the clock starts at 1

VARIABLES
  rows,      \* LocalNodeSet: id, time_connect, is time_disconnect unset?
  count,     \* GroupCore::connectcount
  now,       \* the last reading of microsec_clock::universal_time
  avail,     \* OnLocalNodeAvailable handlers queued on the group's io_service
  tcpq,      \* the backend's io_service: handlers, head first
  sock,      \* per session: "none" until its uuid was read; in the set, "open"
             \* or "closed"; or "refused", kept out of the set
  enqueued,  \* per session: is_syncnode_enqueued
  synctime,  \* per session: nodesyncctime
  out,       \* per session: "free" when TCP_Protocol::outstate is FREE
  told,      \* per session: the nodes the peer was sent, in order (history)
  thrown     \* a send threw EFAULT (history)

table   == <<rows, count, now>>
session == <<sock, enqueued, synctime, out, told>>
vars    == <<table, avail, tcpq, session, thrown>>

Rows     == [id : Nat, time : Nat, connected : BOOLEAN]
Handlers == [kind : {"uuidread", "sync"}, of : Sessions]

UuidRead(s) == [kind |-> "uuidread", of |-> s]
Sync(s)     == [kind |-> "sync", of |-> s]

-----------------------------------------------------------------------------
(* The table, as syncNodeList reads it.                                    *)

\* rangeByCreated(), or rangeByCreated(min): the open range behind min.  (Its
\* first row never has the time min, as session.cpp:95 expects it to.)
RangeByCreated(min) == {r \in rows : min = NoTime \/ min < r.time}

\* The loop looks at one row for each time of connection, the first to connect
\* (an ordered_non_unique index keeps equal keys in order of insertion), and
\* takes the range behind that time for the next round.
Visited(min) ==
  {r \in RangeByCreated(min) :
     \A q \in RangeByCreated(min) : q.time = r.time => r.id <= q.id}

CandidatesEvenGone(min) == Visited(min)

\* Rows with a time_disconnect are passed over.
Candidates(min) == {r \in Visited(min) : r.connected}

LastOf(cands) == {r \in cands : \A c \in cands : r.time >= c.time}

\* The loop ends at the first candidate.
FirstOf(cands) == {r \in cands : \A c \in cands : r.time <= c.time}

\* The rows passed over on the way there, or to the end of the table.
PassedOver(min) ==
  {r \in Visited(min) : \A c \in Candidates(min) : r.time < c.time}

LatestAndOne(min, passed) ==
  IF passed = {} THEN min
  ELSE 1 + CHOOSE t \in {r.time : r \in passed} : \A r \in passed : r.time <= t

\* nodesyncctime after them: the time of the last one, if there is one.
Latest(min, passed) ==
  IF passed = {} THEN min
  ELSE CHOOSE t \in {r.time : r \in passed} : \A r \in passed : r.time <= t

SetSyncTime(s, t) == synctime' = [synctime EXCEPT ![s] = t]

\* syncNodeList sends at most one node: the peer is told when the socket is open
\* (is_open says so), send throws unless the last packet is out.
SyncNodeList(s, is_open) ==
  LET min  == synctime[s]
      past == Latest(min, PassedOver(min))
  IN \/ /\ Candidates(min) = {}
        /\ SetSyncTime(s, past)
        /\ UNCHANGED <<out, told, thrown>>
     \/ \E r \in FirstOf(Candidates(min)) :
          IF out[s] = "free"
          THEN /\ out' = [out EXCEPT ![s] = "busy"]
               /\ told' = IF is_open THEN [told EXCEPT ![s] = Append(@, r.id)]
                                     ELSE told
               /\ SetSyncTime(s, r.time)
               /\ UNCHANGED thrown
          ELSE /\ thrown' = TRUE
               /\ SetSyncTime(s, past)
               /\ UNCHANGED <<out, told>>

\* The next syncNodeList of s would throw.
SendThrows(s) == out[s] # "free" /\ Candidates(synctime[s]) # {}

FlagSetFirst == FALSE

\* enqueueSyncNodeList, called inside the poll: dispatch has already run
\* syncNodeList, which clears the flag, when the flag is set.
FlagAfterInline == TRUE

\* TCP::sessions.
InSet == {s \in Sessions : sock[s] \in {"open", "closed"}}

AnyJoins(lower) == lower

\* uuid_read_finished: no session of this uuid, the nil one, is in the set, and
\* the remote endpoint is the lower one of the two.
Joins(lower) == InSet = {} /\ lower

\* The sessions for which enqueueSyncNodeList does anything.
NotEnqueued == {s \in InSet : ~ enqueued[s]}

-----------------------------------------------------------------------------
(* The node table.                                                         *)

\* GroupCore::connect: the row, refused if a row has its alias, and the backend's
\* OnLocalNodeAvailable posted in any case, if the backend is attached by now.
Connect ==
  /\ count < MaxNodes
  /\ now' \in IF ClockAdvances THEN {now + 1} ELSE {now, now + 1}
  /\ count' = count + 1
  /\ \/ rows' = rows \cup {[id |-> count + 1, time |-> now', connected |-> TRUE]}
     \/ rows # {} /\ UNCHANGED rows
  /\ avail' \in {avail, avail + 1}
  /\ UNCHANGED <<tcpq, session, thrown>>

Disconnect(r) ==
  /\ r.connected
  /\ rows' = (rows \ {r}) \cup {[r EXCEPT !.connected = FALSE]}
  /\ UNCHANGED <<count, now, avail, tcpq, session, thrown>>

\* The end of runWorker: no backend holds a reference, so every row goes.
Purge ==
  /\ rows # {}
  /\ rows' = {}
  /\ UNCHANGED <<count, now, avail, tcpq, session, thrown>>

-----------------------------------------------------------------------------
(* The handlers.                                                           *)

\* TCP::OnLocalNodeAvailable, called by the group's io_service and so outside
\* the poll: dispatch queues syncNodeList for each session, once.
OnLocalNodeAvailable ==
  /\ avail > 0
  /\ avail' = avail - 1
  /\ \E order \in SetToSeqs(NotEnqueued) :
       tcpq' = tcpq \o [i \in DOMAIN order |-> Sync(order[i])]
  /\ enqueued' = [s \in Sessions |-> enqueued[s] \/ s \in NotEnqueued]
  /\ UNCHANGED <<table, sock, synctime, out, told, thrown>>

\* The peer's uuid is there: asio queues uuid_read_finished.
UuidArrives(s) ==
  /\ sock[s] = "none"
  /\ UuidRead(s) \notin ToSet(tcpq)
  /\ tcpq' = Append(tcpq, UuidRead(s))
  /\ UNCHANGED <<table, avail, session, thrown>>

\* A handler of poll(): a syncNodeList that was queued, or a uuid_read_finished that
\* starts the session, for which dispatch runs syncNodeList on the spot ...
PollSync(s) ==
  LET start == Head(tcpq).kind = "uuidread" IN
  /\ tcpq # <<>> /\ Head(tcpq).of = s
  /\ start => \E lower \in BOOLEAN : Joins(lower)
  /\ tcpq' = Tail(tcpq)
  /\ sock' = IF start THEN [sock EXCEPT ![s] = "open"] ELSE sock
  /\ SyncNodeList(s, start \/ sock[s] = "open")
  /\ enqueued' = [enqueued EXCEPT ![s] = start /\ FlagAfterInline]
  /\ UNCHANGED <<table, avail>>

\* ... or a uuid_read_finished that closes it.
PollRefused(s) ==
  /\ tcpq # <<>> /\ Head(tcpq) = UuidRead(s)
  /\ \E lower \in BOOLEAN : ~ Joins(lower)
  /\ tcpq' = Tail(tcpq)
  /\ sock' = [sock EXCEPT ![s] = "refused"]
  /\ UNCHANGED <<table, avail, enqueued, synctime, out, told, thrown>>

\* The packet is out: sendFinished does nothing (its call is commented out).
SendFinishes(s) ==
  /\ sock[s] = "open" /\ out[s] = "busy"
  /\ out' = [out EXCEPT ![s] = "free"]
  /\ UNCHANGED <<table, avail, tcpq, sock, enqueued, synctime, told, thrown>>

\* onSendError closes the socket; the session stays in the set.
SendFails(s) ==
  /\ sock[s] = "open" /\ out[s] = "busy"
  /\ sock' = [sock EXCEPT ![s] = "closed"]
  /\ UNCHANGED <<table, avail, tcpq, enqueued, synctime, out, told, thrown>>

-----------------------------------------------------------------------------

Init ==
  /\ rows = {} /\ count = 0 /\ now = 1
  /\ avail = 0 /\ tcpq = <<>>
  /\ sock = [s \in Sessions |-> "none"]
  /\ enqueued = [s \in Sessions |-> FALSE]
  /\ synctime = [s \in Sessions |-> NoTime]
  /\ out = [s \in Sessions |-> "free"]
  /\ told = [s \in Sessions |-> <<>>]
  /\ thrown = FALSE

Next ==
  \/ Connect
  \/ \E r \in rows : Disconnect(r)
  \/ Purge
  \/ OnLocalNodeAvailable
  \/ \E s \in Sessions :
       \/ UuidArrives(s) \/ PollSync(s) \/ PollRefused(s)
       \/ SendFinishes(s) \/ SendFails(s)

Spec == Init /\ [][Next]_vars

-----------------------------------------------------------------------------
(* Properties.                                                             *)

\* Besides the types: no session is ahead of the clock, ids and times of the
\* table are ones that were given out.
TypeOK ==
  /\ rows \subseteq Rows
  /\ \A r \in rows : r.id \in 1 .. count /\ r.time \in 1 .. now
  /\ count \in Nat /\ now \in Nat \ {0} /\ avail \in Nat
  /\ tcpq \in Seq(Handlers)
  /\ sock \in [Sessions -> {"none", "open", "closed", "refused"}]
  /\ enqueued \in [Sessions -> BOOLEAN]
  /\ synctime \in [Sessions -> Nat]
  /\ \A s \in Sessions : synctime[s] <= now
  /\ out \in [Sessions -> {"free", "busy"}]
  /\ told \in [Sessions -> Seq(Nat)]
  /\ thrown \in BOOLEAN

\* syncNodeList never meets a packet that is still out: send's EFAULT, which would
\* unwind Worker and the runWorker that called it, is never thrown.  No line of
\* syncNodeList looks at outstate: the flag that stays set keeps it from running.
NoBusySend == ~ thrown

\* "increase the range, so the next node will get synced" (session.cpp:93-94): a
\* connected node the peer was not told of lies in the range of the next sync.
NoneSkipped ==
  \A s \in Sessions : \A r \in rows :
    sock[s] = "open" /\ r.connected /\ (\A i \in DOMAIN told[s] : told[s][i] # r.id)
    => r \in RangeByCreated(synctime[s])

\* "a new node is available, so we need to sync pending nodes for every open
\* session" (tcp.cpp:37): OnLocalNodeAvailable leaves a syncNodeList queued for
\* every open session that has nodes to sync.
NodeAvailableSyncs ==
  [][OnLocalNodeAvailable =>
       \A s \in Sessions :
         sock[s] = "open" /\ Candidates(synctime[s]) # {}
         => Sync(s) \in ToSet(tcpq')]_vars

\* And what it does do: nothing, for any node. The one session it finds in the set has had
\* its flag set since its start (session.cpp:75-80).
AvailableIsIdle == [][OnLocalNodeAvailable => UNCHANGED <<tcpq, session>>]_vars

\* What is left of the comments above: the set's unique uuid is the nil one of
\* every host (core.cpp:19), a closed session is not erased, and the flag of the
\* one in the set stays set.  In its life a process announces one node, to one peer.
OneAnnouncement ==
  Cardinality({si \in Sessions \X (1 .. count) : si[2] \in DOMAIN told[si[1]]}) <= 1

NS == INSTANCE NodeSync WITH live <- {r.id : r \in {x \in rows : x.connected}}

\* A session's peer is told of connected nodes only, in the order they connected
\* and of each at most once.
ImplementsNodeSync == NS!SyncSpec

=============================================================================
