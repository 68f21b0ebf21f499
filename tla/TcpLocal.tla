------------------------------ MODULE TcpLocal ------------------------------
(***************************************************************************)
(* The TCP backends of processes of one host: which of them listens on the *)
(* port, who connects to whom, and what becomes of the connections until   *)
(* both ends have read the other's uuid (from there on SessionSync).       *)
(*                                                                         *)
(* bind_or_connect is cut where another process may do something: between  *)
(* a bind that fails and the connect, and before the second bind.  When it *)
(* fails it dispatches itself, which queues it when Worker calls it, and   *)
(* calls it on the spot inside poll().                                     *)
(*                                                                         *)
(* The first poll() of a process runs, in this order, a bind_or_connect    *)
(* that Worker queued, what has arrived, and the heartbeat, whose timer    *)
(* has expired when it is set.  Later heartbeats are 60 s apart.           *)
(*                                                                         *)
(* Not in the model: a connection that fails after its client has kept it. *)
(* The heartbeat that ends a client is the next handler but for what has   *)
(* arrived already, and what the session sends completes behind it.        *)
(*                                                                         *)
(* Not in the model: other hosts.  A process connects to another host when *)
(* it hears of an unknown host uuid, but the uuid is nil everywhere and    *)
(* handle_receive_from takes every heartbeat for one of its own.           *)
(***************************************************************************)
EXTENDS Naturals, FiniteSets

CONSTANTS
  Procs,
  None,
  StackDepth  \* bound: calls of bind_or_connect on one stack

ASSUME LocalAssumption ==
  /\ None \notin Procs
  /\ StackDepth \in Nat \ {0}

VARIABLES
  at,       \* per process: where it is, see Places
  frames,   \* per process: bind_or_connects on the stack below poll(), 0 outside it
  acceptor, \* per process: "none", "v4", or "both" acceptors
  local,    \* per process: local_v4, as the process it is connected to
  srvend,   \* per process: the other end of that connection
  kept,     \* the ends of connections that are in a set of sessions: <<process
            \* that connected, "client" or "server">>
  full,     \* the processes whose set of sessions is not empty
  conflicts \* the v4-mapped address can not be bound beside the v4 one (the
            \* system's answer, always the same: Linux's is yes, POSIX leaves it open)

procs == <<at, frames, acceptor, local, srvend, kept, full>>
vars  == <<procs, conflicts>>
role == <<acceptor, local>>
link == <<srvend, kept, full>>

Places == {"off",                       \* Worker was not called yet
           "bind", "connect", "mapped", \* in bind_or_connect
           "retry",  \* bind_or_connect is queued, and the heartbeat behind it
           "beat",   \* the heartbeat is the next handler
           "poll",   \* arrivals may be handled before the heartbeat
           "up",     \* no heartbeat is due; what arrives may be handled
           "dead"}

AtRest  == {"beat", "poll", "up"}
Alive   == {p \in Procs : at[p] \notin {"off", "dead"}}

Goto(p, place) == at' = [at EXCEPT ![p] = place]

\* The port is bound by a process as long as that process lives.
Owners == {p \in Alive : acceptor[p] # "none"}

-----------------------------------------------------------------------------
(* The death of a process closes its ends of connections.                  *)

(* A server that has accepted has sent its uuid; one that has not, has not. *)

SrvEndAfter(p) ==
  [c \in Procs |->
     IF local[c] # p THEN srvend[c]
     ELSE CASE srvend[c] = "backlog"  -> "gone"
            [] srvend[c] = "exchange" -> "lost"
            [] OTHER                  -> srvend[c]]

EndsOf(p) == {e \in kept : IF e[2] = "client" THEN e[1] = p ELSE local[e[1]] = p}

Dies(p) ==
  /\ Goto(p, "dead")
  /\ srvend' = SrvEndAfter(p)
  /\ kept' = kept \ EndsOf(p)
  /\ UNCHANGED <<frames, role, full>>

\* Any process may be killed at any time.
Killed(p) == p \in Alive /\ Dies(p)

-----------------------------------------------------------------------------
(* bind_or_connect.                                                        *)

\* Back to Worker, which sets the heartbeat's timer and polls, or to poll().
Returns(p) ==
  /\ Goto(p, IF frames[p] = 0 THEN "poll" ELSE "beat")
  /\ frames' = [frames EXCEPT ![p] = 0]

\* reenqueue: outside poll() the call is queued; inside, it is the next frame.
Redispatch(p) ==
  \/ /\ frames[p] = 0
     /\ Goto(p, "retry")
     /\ UNCHANGED <<frames, role, link>>
  \/ /\ frames[p] \in 1 .. StackDepth - 1
     /\ frames' = [frames EXCEPT ![p] = @ + 1]
     /\ Goto(p, "bind")
     /\ UNCHANGED <<role, link>>
  \/ /\ frames[p] = StackDepth
     /\ Dies(p)

Worker(p) ==
  /\ at[p] = "off"
  /\ Goto(p, "bind")
  /\ UNCHANGED <<frames, role, link>>

\* The acceptor's constructor binds and listens, or throws.
Bind(p) ==
  /\ at[p] = "bind" /\ acceptor[p] = "none" /\ local[p] = None
  /\ IF Owners = {}
     THEN acceptor' = [acceptor EXCEPT ![p] = "v4"] /\ Goto(p, "mapped")
     ELSE Goto(p, "connect") /\ UNCHANGED acceptor
  /\ UNCHANGED <<frames, local, link>>

\* The other branch of tcp.cpp:223: with an acceptor the second one is next.
HasRole(p) ==
  /\ at[p] = "bind" /\ (acceptor[p] # "none" \/ local[p] # None)
  /\ IF acceptor[p] # "none" THEN Goto(p, "mapped") /\ UNCHANGED frames
                             ELSE Returns(p)
  /\ UNCHANGED <<role, link>>

\* The owner, if it still lives, need not accept for connect to succeed.
Connect(p) ==
  /\ at[p] = "connect"
  /\ \E s \in Owners : local' = [local EXCEPT ![p] = s]
  /\ srvend' = [srvend EXCEPT ![p] = "backlog"]
  /\ Returns(p)
  /\ UNCHANGED <<acceptor, kept, full>>

ConnectFails(p) ==
  /\ at[p] = "connect" /\ Owners = {}
  /\ Redispatch(p)

BindMapped(p) ==
  /\ at[p] = "mapped" /\ ~ conflicts
  /\ acceptor' = [acceptor EXCEPT ![p] = "both"]
  /\ Returns(p)
  /\ UNCHANGED <<local, link>>

MappedFails(p) ==
  /\ at[p] = "mapped" /\ conflicts
  /\ Redispatch(p)

Retry(p) ==
  /\ at[p] = "retry"
  /\ Goto(p, "bind")
  /\ frames' = [frames EXCEPT ![p] = 1]
  /\ UNCHANGED <<role, link>>

-----------------------------------------------------------------------------
(* The heartbeat: it asks both acceptors for their endpoints.              *)

HeartbeatChecks(p) == TRUE

HeartbeatWorks(p) == acceptor[p] = "both"

Heartbeat(p) ==
  /\ at[p] \in {"beat", "poll"}
  /\ \/ HeartbeatWorks(p) /\ Goto(p, "up") /\ UNCHANGED <<frames, role, link>>
     \/ ~ HeartbeatWorks(p) /\ Dies(p)

HeartbeatDue(p) ==
  /\ at[p] = "up"
  /\ Goto(p, "poll")
  /\ UNCHANGED <<frames, role, link>>

-----------------------------------------------------------------------------
(* The exchange of uuids.  Each end writes its own as soon as it is there, *)
(* connect on one side and accept on the other; the write is never late.   *)

Handles(p) == at[p] \in {"poll", "up"}

\* handle_socket_init of the acceptor.
Accept(s, c) ==
  /\ Handles(s) /\ local[c] = s /\ srvend[c] = "backlog"
  /\ srvend' = [srvend EXCEPT ![c] = "exchange"]
  /\ UNCHANGED <<at, frames, role, kept, full>>

HigherRemote(end) == end = "server"

\* remote_endpoint() < local_endpoint(): both have one address, and the port of the
\* acceptor is lower than the ephemeral one of who connects.
LowerRemote(end) == end = "client"

\* uuid_read_finished keeps the session: there is none in the set of the same, nil,
\* uuid yet, and the remote endpoint is the lower one.
Keeps(p, end) == p \notin full /\ LowerRemote(end)

Keep(p, c, end) ==
  /\ kept' = kept \cup {<<c, end>>}
  /\ full' = full \cup {p}
  /\ UNCHANGED <<at, frames, role, srvend>>

\* uuid_read_finished of the accepting end: the client's uuid is there, or the read
\* fails as the client has died, or remote_endpoint throws as it has just died:
\* the session goes with the handler, or (Killed) the process with the exception.
ServerReads(s, c) ==
  /\ Handles(s) /\ local[c] = s
  /\ srvend[c] = "exchange" /\ <<c, "server">> \notin kept
  /\ IF Keeps(s, "server")
     THEN Keep(s, c, "server")
     ELSE /\ srvend' = [srvend EXCEPT ![c] = "closed"]
          /\ UNCHANGED <<at, frames, role, kept, full>>

KeepLocal(c) == local

\* on_local_close: local_v4.reset().
ResetLocal(c) == [local EXCEPT ![c] = None]

\* close() dispatches on_local_close, inside poll() and so on the spot, which calls
\* bind_or_connect.
OnLocalClose(c) ==
  /\ local' = ResetLocal(c)
  /\ srvend' = [srvend EXCEPT ![c] = "none"]
  /\ frames' = [frames EXCEPT ![c] = 1]
  /\ Goto(c, "bind")
  /\ UNCHANGED <<acceptor, kept, full>>

AnyRead(c) == {"exchange", "closed", "lost", "gone"}

\* The acceptor's uuid was sent, and all of it is read ...
GoodReads(c) == {"exchange", "closed", "lost"}

\* ... unless the acceptor has died.
BadReads(c) == {"lost", "gone"}

\* uuid_read_finished of the connecting end.
ClientReads(c) ==
  /\ Handles(c) /\ <<c, "client">> \notin kept
  /\ \/ srvend[c] \in GoodReads(c) /\ Keeps(c, "client") /\ Keep(c, c, "client")
     \/ /\ srvend[c] \in BadReads(c) \/ (srvend[c] \in GoodReads(c) /\ ~ Keeps(c, "client"))
        /\ OnLocalClose(c)

-----------------------------------------------------------------------------

Init ==
  /\ at = [p \in Procs |-> "off"]
  /\ frames = [p \in Procs |-> 0]
  /\ acceptor = [p \in Procs |-> "none"]
  /\ local = [p \in Procs |-> None]
  /\ srvend = [p \in Procs |-> "none"]
  /\ kept = {} /\ full = {}
  /\ conflicts \in BOOLEAN

\* What a process does next by itself.
Step(p) ==
  \/ Bind(p) \/ HasRole(p) \/ Connect(p) \/ ConnectFails(p)
  \/ BindMapped(p) \/ MappedFails(p) \/ Retry(p)
  \/ Heartbeat(p)

AllDead == (\A p \in Procs : at[p] = "dead") /\ UNCHANGED procs

Next ==
  /\ \/ \E p \in Procs :
          \/ Worker(p) \/ Step(p) \/ HeartbeatDue(p)
          \/ ClientReads(p) \/ \E c \in Procs : Accept(p, c) \/ ServerReads(p, c)
          \/ Killed(p)
     \/ AllDead
  /\ UNCHANGED conflicts

Spec == Init /\ [][Next]_vars

\* poll() runs each handler that is ready; Worker's and the handlers' code runs on.
Fairness == \A p \in Procs : WF_vars(Step(p) /\ UNCHANGED conflicts)

FairSpec == Spec /\ Fairness

-----------------------------------------------------------------------------
(* Properties.                                                             *)

\* Besides the types: nobody both listens and is connected, and a session is in the
\* client's set only if the acceptor has sent its uuid.
TypeOK ==
  /\ at \in [Procs -> Places]
  /\ frames \in [Procs -> 0 .. StackDepth]
  /\ acceptor \in [Procs -> {"none", "v4", "both"}]
  /\ local \in [Procs -> Procs \cup {None}]
  /\ srvend \in [Procs -> {"none", "backlog", "exchange", "closed", "gone", "lost"}]
  /\ kept \subseteq Procs \X {"client", "server"}
  /\ full \subseteq Procs
  /\ conflicts \in BOOLEAN
  /\ \A p \in Procs : acceptor[p] = "none" \/ local[p] = None
  /\ \A c \in Procs : <<c, "client">> \in kept => srvend[c] \in {"exchange", "closed", "lost"}

\* Of the processes of a host at most one is ever past its first poll(): the others
\* have no acceptor of their own, which the heartbeat uses (tcp.cpp:188), and one
\* that takes the port over does so only when the last one is dead.
OneSurvivor ==
  \A p, q \in Procs : at[p] = "up" /\ at[q] = "up" => p = q

\* Whatever other processes did between its steps, a process whose bind_or_connect
\* is over, and not queued to run again, listens on the port or is connected.
RoleOrRetry ==
  \A p \in Procs :
    at[p] \in AtRest => acceptor[p] # "none" \/ (local[p] # None /\ srvend[p] # "none")

\* A process gives up its connection to the one that listens only when that one is dead.
\* Each end decides by itself whether to keep the session, from its own set and its own
\* view of the two endpoints (tcp.cpp:90-96): if the connecting end refused while the other
\* one lives, on_local_close would connect to it again, for ever.
LeavesOnlyTheDead ==
  [][\A c \in Procs :
       local[c] # None /\ local'[c] = None => at[local[c]] = "dead"]_vars

\* Where the mapped address conflicts, no process outlives its first poll(): the one
\* that listens runs out of stack, the others meet the heartbeat.
EveryWorkerDies ==
  \A p \in Procs : conflicts /\ at[p] = "bind" ~> at[p] = "dead"

=============================================================================
