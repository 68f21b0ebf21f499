--------------------------- MODULE TcpLocalProofs ---------------------------
(***************************************************************************)
(* What TLAPS proves of TcpLocal, for any number of processes, any depth   *)
(* of the stack, and whether or not the mapped address conflicts.          *)
(***************************************************************************)
EXTENDS TcpLocal, TLAPS

Types ==
  /\ at \in [Procs -> Places]
  /\ frames \in [Procs -> 0 .. StackDepth]
  /\ acceptor \in [Procs -> {"none", "v4", "both"}]
  /\ local \in [Procs -> Procs \cup {None}]
  /\ srvend \in [Procs -> {"none", "backlog", "exchange", "closed", "gone", "lost"}]
  /\ kept \subseteq Procs \X {"client", "server"}
  /\ full \subseteq Procs

\* What a process is, at each place: bind_or_connect comes to connect only without
\* a role, to the second bind only with the first acceptor.
Roles ==
  \A p \in Procs :
    /\ acceptor[p] = "none" \/ local[p] = None
    /\ at[p] = "off" => acceptor[p] = "none"
    /\ at[p] = "connect" => acceptor[p] = "none" /\ local[p] = None
    /\ at[p] = "mapped" => acceptor[p] # "none"
    /\ at[p] = "up" => acceptor[p] = "both"

\* A connection has two ends, and a client keeps one only when it was answered.
Links ==
  \A c \in Procs :
    /\ local[c] = None <=> srvend[c] = "none"
    /\ <<c, "client">> \in kept => srvend[c] \in {"exchange", "closed", "lost"}
    /\ <<c, "server">> \notin kept

\* The port has one owner.
OneOwner ==
  \A p, q \in Owners : p = q

Inv == Types /\ Roles /\ Links /\ OneOwner /\ RoleOrRetry

-----------------------------------------------------------------------------

LEMMA InvInit == Init => Inv
  BY LocalAssumption
  DEF Init, Inv, Types, Roles, Links, OneOwner, RoleOrRetry, Places, Owners, Alive, AtRest

\* The death of a process takes a role away from nobody else.
LEMMA DeathKeepsInv ==
  ASSUME Inv, NEW p \in Procs, Dies(p)
  PROVE  Inv'
<1> USE LocalAssumption DEF Inv, Dies, role, Goto
<1>1. Types'
  BY DEF Types, Places, SrvEndAfter, EndsOf
<1>2. Roles'
  BY DEF Types, Roles, Places
<1>3. Links'
  BY DEF Types, Links, SrvEndAfter, EndsOf
<1>4. OneOwner'
  BY DEF Types, OneOwner, Owners, Alive, Places
<1>5. RoleOrRetry'
  BY DEF Types, RoleOrRetry, AtRest, Places, SrvEndAfter
<1> QED
  BY <1>1, <1>2, <1>3, <1>4, <1>5

\* A bind_or_connect that failed leaves the roles as they are, and does not come
\* to rest.
LEMMA RedispatchKeepsInv ==
  ASSUME Inv, NEW p \in Procs, at[p] \in {"connect", "mapped"}, Redispatch(p)
  PROVE  Inv'
<1>1. CASE Dies(p)
  BY <1>1, DeathKeepsInv
<1>2. CASE ~ Dies(p)
  <2> USE <1>2, LocalAssumption DEF Inv, Redispatch, role, link, Goto
  <2>1. Types'
    BY DEF Types, Places
  <2>2. Roles' /\ Links'
    BY DEF Types, Roles, Links, Places
  <2>3. OneOwner'
    BY DEF Types, OneOwner, Owners, Alive, Places
  <2>4. RoleOrRetry'
    BY DEF Types, RoleOrRetry, AtRest, Places
  <2> QED
    BY <2>1, <2>2, <2>3, <2>4
<1> QED
  BY <1>1, <1>2

LEMMA InvStep == ASSUME Inv, [Next]_vars PROVE Inv'
<1> USE LocalAssumption
<1>1. ASSUME NEW p \in Procs, Worker(p) \/ HeartbeatDue(p) \/ Retry(p) PROVE Inv'
  <2> USE <1>1 DEF Worker, HeartbeatDue, Retry, Inv, Goto, role, link
  <2>1. Types'
    BY DEF Types, Places
  <2>2. Roles' /\ Links'
    BY DEF Types, Roles, Links, Places
  <2>3. OneOwner'
    BY DEF Types, Roles, OneOwner, Owners, Alive, Places
  <2>4. RoleOrRetry'
    BY DEF Types, Roles, RoleOrRetry, AtRest, Places
  <2> QED
    BY <2>1, <2>2, <2>3, <2>4
<1>2. ASSUME NEW p \in Procs, Bind(p) PROVE Inv'
  BY <1>2 DEF Bind, Inv, Types, Roles, Links, OneOwner, RoleOrRetry,
     Owners, Alive, AtRest, Places, Goto, link
<1>3. ASSUME NEW p \in Procs, HasRole(p) PROVE Inv'
  <2>1. at' \in [Procs -> Places] /\ frames' \in [Procs -> 0 .. StackDepth]
    <3>1. CASE acceptor[p] # "none"
      BY <1>3, <3>1 DEF HasRole, Goto, Inv, Types, Places
    <3>2. CASE acceptor[p] = "none"
      BY <1>3, <3>2 DEF HasRole, Returns, Goto, Inv, Types, Places
    <3> QED
      BY <3>1, <3>2
  <2>2. \/ acceptor[p] # "none" /\ at' = [at EXCEPT ![p] = "mapped"]
        \/ local[p] # None /\ at' = [at EXCEPT ![p] = IF frames[p] = 0 THEN "poll" ELSE "beat"]
    BY <1>3 DEF HasRole, Returns, Goto
  <2> USE <1>3, <2>1, <2>2 DEF HasRole, Inv, role, link
  <2>3. Types'
    BY DEF Types
  <2>4. Roles' /\ Links'
    BY DEF Types, Roles, Links, Places
  <2>5. OneOwner'
    BY DEF Types, OneOwner, Owners, Alive, Places
  <2>6. RoleOrRetry'
    BY DEF Types, Links, RoleOrRetry, AtRest, Places
  <2> QED
    BY <2>3, <2>4, <2>5, <2>6
<1>4. ASSUME NEW p \in Procs, Connect(p) PROVE Inv'
  <2>1. PICK s \in Owners : local' = [local EXCEPT ![p] = s]
    BY <1>4 DEF Connect
  <2>2. s \in Procs
    BY <2>1 DEF Owners, Alive
  <2> USE <1>4, <2>1, <2>2 DEF Connect, Returns, Inv, Goto
  <2>3. Types'
    BY DEF Types, Places
  <2>4. Roles' /\ Links'
    BY DEF Types, Roles, Links, Places
  <2>5. OneOwner'
    BY DEF Types, OneOwner, Owners, Alive, Places
  <2>6. RoleOrRetry'
    BY DEF Types, RoleOrRetry, AtRest, Places
  <2> QED
    BY <2>3, <2>4, <2>5, <2>6
<1>5. ASSUME NEW p \in Procs, ConnectFails(p) \/ MappedFails(p) PROVE Inv'
  BY <1>5, RedispatchKeepsInv DEF ConnectFails, MappedFails
<1>6. ASSUME NEW p \in Procs, BindMapped(p) PROVE Inv'
  BY <1>6 DEF BindMapped, Returns, Inv, Types, Roles, Links, OneOwner, RoleOrRetry,
     Owners, Alive, AtRest, Places, Goto, link
<1>7. ASSUME NEW p \in Procs, Heartbeat(p) PROVE Inv'
  <2>1. CASE Dies(p)
    BY <2>1, DeathKeepsInv
  <2>2. CASE ~ Dies(p)
    BY <1>7, <2>2 DEF Heartbeat, HeartbeatWorks, Inv, Types, Roles, Links, OneOwner,
       RoleOrRetry, Owners, Alive, AtRest, Places, Goto, role, link
  <2> QED
    BY <2>1, <2>2
<1>8. ASSUME NEW s \in Procs, NEW c \in Procs, Accept(s, c) \/ ServerReads(s, c) PROVE Inv'
  BY <1>8 DEF Accept, ServerReads, Keeps, LowerRemote, Inv, Types, Roles, Links, OneOwner,
     RoleOrRetry, Owners, Alive, AtRest, Places, role
<1>9. ASSUME NEW c \in Procs, ClientReads(c) PROVE Inv'
  <2>1. CASE OnLocalClose(c)
    BY <1>9, <2>1 DEF ClientReads, OnLocalClose, ResetLocal, Handles, GoodReads, BadReads,
       Inv, Types, Roles, Links, OneOwner, RoleOrRetry, Owners, Alive, AtRest, Places, Goto
  <2>2. CASE srvend[c] \in GoodReads(c) /\ Keep(c, c, "client")
    BY <2>2 DEF Keep, GoodReads, Inv, Types, Roles, Links, OneOwner, RoleOrRetry,
       Owners, Alive, AtRest, Places, role
  <2> QED
    BY <1>9, <2>1, <2>2 DEF ClientReads
<1>10. ASSUME NEW p \in Procs, Killed(p) PROVE Inv'
  BY <1>10, DeathKeepsInv DEF Killed
<1>11. CASE UNCHANGED procs
  BY <1>11 DEF procs, Inv, Types, Roles, Links, OneOwner, RoleOrRetry, Owners, Alive
<1> QED
  BY <1>1, <1>2, <1>3, <1>4, <1>5, <1>6, <1>7, <1>8, <1>9, <1>10, <1>11
  DEF Next, Step, AllDead, vars

LEMMA InvHolds == Spec => []Inv
  BY InvInit, InvStep, PTL DEF Spec

\* The types of TcpLocal, that nobody both listens and is connected, and that a client
\* keeps a session only with a uuid its peer has sent.
THEOREM TypeCorrect == Spec => []TypeOK
<1>1. Inv /\ conflicts \in BOOLEAN => TypeOK
  BY DEF Inv, Types, Roles, Links, TypeOK
<1>2. Init => conflicts \in BOOLEAN
  BY DEF Init
<1>3. conflicts \in BOOLEAN /\ [Next]_vars => (conflicts \in BOOLEAN)'
  BY DEF Next, vars
<1> QED
  BY <1>1, <1>2, <1>3, InvHolds, PTL DEF Spec

\* At most one process of a host gets past its first heartbeat alive.
THEOREM OneSurvivorHolds == Spec => []OneSurvivor
<1>1. Inv => OneSurvivor
  BY DEF Inv, Roles, OneOwner, Owners, Alive, OneSurvivor
<1> QED
  BY <1>1, InvHolds, PTL

\* A process at rest has a role, whatever died between its bind and its connect.
THEOREM RoleOrRetryHolds == Spec => []RoleOrRetry
<1>1. Inv => RoleOrRetry
  BY DEF Inv
<1> QED
  BY <1>1, InvHolds, PTL

-----------------------------------------------------------------------------
(* Who refuses a connection.                                               *)

\* An end that is gone or lost is a dead process's, and a process that lives has the
\* session it joined its set for.
Ends ==
  \A c \in Procs :
    /\ srvend[c] \in {"gone", "lost"} => at[local[c]] = "dead"
    /\ c \in full => <<c, "client">> \in kept \/ at[c] = "dead"

\* A death loses the ends of the process that died.
LEMMA DeathKeepsEnds ==
  ASSUME Inv, Ends, NEW p \in Procs, Dies(p)
  PROVE  Ends'
<1>1. /\ \A q \in Procs : at'[q] = IF q = p THEN "dead" ELSE at[q]
      /\ srvend' = SrvEndAfter(p) /\ kept' = kept \ EndsOf(p) /\ UNCHANGED <<local, full>>
  BY DEF Dies, Goto, role, Inv, Types
<1>2. ASSUME NEW c \in Procs, srvend'[c] \in {"gone", "lost"} PROVE at'[local'[c]] = "dead"
  <2>1. CASE local[c] = p
    BY <1>1, <2>1
  <2>2. CASE local[c] # p
    <3>1. srvend'[c] = srvend[c]
      BY <1>1, <2>2 DEF SrvEndAfter
    <3>2. at[local[c]] = "dead" /\ local[c] \in Procs
      BY <1>2, <3>1 DEF Ends, Inv, Types, Links
    <3> QED
      BY <1>1, <3>2
  <2> QED
    BY <2>1, <2>2
<1>3. ASSUME NEW c \in Procs, c \in full' PROVE <<c, "client">> \in kept' \/ at'[c] = "dead"
  BY <1>1, <1>3 DEF Ends, EndsOf
<1> QED
  BY <1>2, <1>3 DEF Ends

\* A step in which nobody dies or comes to life again, and no connection changes.
LEMMA StillKeepsEnds ==
  ASSUME Inv, Ends, UNCHANGED <<local, link>>,
         \A q \in Procs : at[q] = "dead" => at'[q] = "dead"
  PROVE  Ends'
  BY LocalAssumption DEF Ends, link, Inv, Types, Links

\* A step in which one process gets a connection or gives its own up.
LEMMA OthersKeepEnds ==
  ASSUME Inv, Ends, NEW p \in Procs, NEW to, NEW end \in {"none", "backlog"},
         local' = [local EXCEPT ![p] = to], srvend' = [srvend EXCEPT ![p] = end],
         UNCHANGED <<kept, full>>,
         \A q \in Procs : at[q] = "dead" => at'[q] = "dead"
  PROVE  Ends'
<1>1. ASSUME NEW c \in Procs, srvend'[c] \in {"gone", "lost"} PROVE at'[local'[c]] = "dead"
  <2>1. c # p /\ srvend'[c] = srvend[c] /\ local'[c] = local[c]
    BY <1>1 DEF Inv, Types
  <2>2. at[local[c]] = "dead" /\ local[c] \in Procs
    BY <1>1, <2>1 DEF Ends, Inv, Types, Links
  <2> QED
    BY <2>1, <2>2
<1>2. ASSUME NEW c \in Procs, c \in full' PROVE <<c, "client">> \in kept' \/ at'[c] = "dead"
  BY <1>2 DEF Ends
<1> QED
  BY <1>1, <1>2 DEF Ends

LEMMA EndsStep == ASSUME Inv, Ends, [Next]_vars PROVE Ends'
<1> USE LocalAssumption
<1>1. ASSUME NEW p \in Procs, Worker(p) \/ HeartbeatDue(p) \/ Retry(p) \/ Bind(p)
      PROVE  Ends'
  <2>1. UNCHANGED <<local, link>> /\ \A q \in Procs : at[q] = "dead" => at'[q] = "dead"
    BY <1>1 DEF Worker, HeartbeatDue, Retry, Bind, Goto, role, Inv, Types
  <2> QED
    BY <2>1, StillKeepsEnds
<1>2. ASSUME NEW p \in Procs, HasRole(p) \/ BindMapped(p) PROVE Ends'
  <2>1. UNCHANGED <<local, link>> /\ \A q \in Procs : at[q] = "dead" => at'[q] = "dead"
    BY <1>2 DEF HasRole, BindMapped, Returns, Goto, role, Inv, Types
  <2> QED
    BY <2>1, StillKeepsEnds
<1>3. ASSUME NEW p \in Procs, Connect(p) PROVE Ends'
  <2>1. PICK s \in Owners : local' = [local EXCEPT ![p] = s]
    BY <1>3 DEF Connect
  <2>2. /\ srvend' = [srvend EXCEPT ![p] = "backlog"] /\ UNCHANGED <<kept, full>>
        /\ \A q \in Procs : at[q] = "dead" => at'[q] = "dead"
    BY <1>3 DEF Connect, Returns, Goto, Inv, Types
  <2> QED
    BY <2>1, <2>2, OthersKeepEnds
<1>4. ASSUME NEW p \in Procs, ConnectFails(p) \/ MappedFails(p) PROVE Ends'
  <2>1. CASE Dies(p)
    BY <2>1, DeathKeepsEnds
  <2>2. CASE ~ Dies(p)
    <3>1. UNCHANGED <<local, link>> /\ \A q \in Procs : at[q] = "dead" => at'[q] = "dead"
      BY <1>4, <2>2 DEF ConnectFails, MappedFails, Redispatch, Goto, role, Inv, Types
    <3> QED
      BY <3>1, StillKeepsEnds
  <2> QED
    BY <2>1, <2>2
<1>5. ASSUME NEW p \in Procs, Heartbeat(p) PROVE Ends'
  <2>1. CASE Dies(p)
    BY <2>1, DeathKeepsEnds
  <2>2. CASE ~ Dies(p)
    <3>1. UNCHANGED <<local, link>> /\ \A q \in Procs : at[q] = "dead" => at'[q] = "dead"
      BY <1>5, <2>2 DEF Heartbeat, Goto, role, Inv, Types
    <3> QED
      BY <3>1, StillKeepsEnds
  <2> QED
    BY <2>1, <2>2
<1>6. ASSUME NEW s \in Procs, NEW c \in Procs, Accept(s, c) \/ ServerReads(s, c) PROVE Ends'
  <2>1. UNCHANGED <<at, local, kept, full>>
        /\ srvend' \in {[srvend EXCEPT ![c] = "exchange"], [srvend EXCEPT ![c] = "closed"]}
    BY <1>6 DEF Accept, ServerReads, Keeps, LowerRemote, role
  <2> QED
    BY <2>1 DEF Ends, Inv, Types
<1>7. ASSUME NEW c \in Procs, ClientReads(c) PROVE Ends'
  <2>1. CASE OnLocalClose(c)
    <3>1. /\ local' = [local EXCEPT ![c] = None] /\ srvend' = [srvend EXCEPT ![c] = "none"]
          /\ UNCHANGED <<kept, full>>
          /\ \A q \in Procs : at[q] = "dead" => at'[q] = "dead"
      BY <1>7, <2>1 DEF ClientReads, OnLocalClose, ResetLocal, Handles, Goto, Inv, Types
    <3> QED
      BY <3>1, OthersKeepEnds
  <2>2. CASE Keep(c, c, "client")
    BY <2>2 DEF Keep, role, Ends
  <2> QED
    BY <1>7, <2>1, <2>2 DEF ClientReads
<1>8. ASSUME NEW p \in Procs, Killed(p) PROVE Ends'
  BY <1>8, DeathKeepsEnds DEF Killed
<1>9. CASE UNCHANGED procs
  BY <1>9 DEF procs, Ends
<1> QED
  BY <1>1, <1>2, <1>3, <1>4, <1>5, <1>6, <1>7, <1>8, <1>9 DEF Next, Step, AllDead, vars

\* Only a connecting end's own reading of the uuid gives its connection up.
LEMMA OnlyReadsLeave ==
  ASSUME Inv, [Next]_vars, NEW c \in Procs, local[c] # None, local'[c] = None
  PROVE  ClientReads(c)
<1> USE LocalAssumption
<1>1. ASSUME NEW p \in Procs, Connect(p) PROVE FALSE
  <2>1. PICK s \in Owners : local' = [local EXCEPT ![p] = s]
    BY <1>1 DEF Connect
  <2> QED
    BY <2>1 DEF Owners, Alive, Inv, Types
<1>2. ASSUME NEW p \in Procs, ClientReads(p), p # c PROVE FALSE
  BY <1>2 DEF ClientReads, Keep, OnLocalClose, ResetLocal, role, Inv, Types
<1>3. CASE UNCHANGED local
  BY <1>3
<1> QED
  BY <1>1, <1>2, <1>3
  DEF Next, Step, AllDead, vars, procs, Worker, Bind, HasRole, Returns, ConnectFails,
      BindMapped, MappedFails, Redispatch, Retry, Heartbeat, HeartbeatDue, Dies, Killed,
      Accept, ServerReads, Keep, role

\* Of the two ends of a connection between processes that live, the connecting one keeps
\* its session: the accepting one, whose comparison of the endpoints comes out the other
\* way, is the one that refuses (tcp.cpp:93-102).
THEOREM LeavesOnlyTheDeadHolds == Spec => LeavesOnlyTheDead
<1>1. Init => Ends
  BY DEF Init, Ends
<1>2. ASSUME Inv, Ends, [Next]_vars, NEW c \in Procs, local[c] # None, local'[c] = None
      PROVE  at[local[c]] = "dead"
  <2>1. ClientReads(c)
    BY <1>2, OnlyReadsLeave
  <2>2. at[c] # "dead" /\ <<c, "client">> \notin kept
    BY <2>1 DEF ClientReads, Handles
  <2>3. c \notin full
    BY <1>2, <2>2 DEF Ends
  <2>4. Keeps(c, "client")
    BY <2>3 DEF Keeps, LowerRemote
  <2>5. CASE srvend[c] \in BadReads(c)
    BY <1>2, <2>5 DEF BadReads, Ends
  <2>6. CASE Keep(c, c, "client")
    BY <1>2, <2>6 DEF Keep, role
  <2> QED
    BY <2>1, <2>4, <2>5, <2>6 DEF ClientReads
<1>3. Inv /\ Ends /\ [Next]_vars =>
        [\A c \in Procs : local[c] # None /\ local'[c] = None => at[local[c]] = "dead"]_vars
  BY <1>2
<1>4. Inv /\ Ends /\ [Next]_vars => Ends'
  BY EndsStep
<1> QED
  BY <1>1, <1>3, <1>4, InvHolds, PTL DEF Spec, LeavesOnlyTheDead

-----------------------------------------------------------------------------
(* Where the mapped address conflicts: what EveryWorkerDies rests on.      *)

\* bind_or_connect comes back without a second acceptor, and leaves poll()'s frames only
\* for the heartbeat.
Doomed ==
  conflicts =>
    \A p \in Procs :
      /\ acceptor[p] # "both"
      /\ at[p] \in {"off", "retry", "poll"} => frames[p] = 0

\* How many steps of its own a process has left at most: three for each
\* bind_or_connect that still fits the stack, counted down through the places.
Rank(p) ==
  CASE at[p] = "off"   -> 3 * StackDepth + 9
    [] at[p] = "poll"  -> 3 * StackDepth + 5
    [] at[p] = "retry" -> 3 * StackDepth + 5
    [] at[p] = "beat"  -> 1
    [] at[p] = "bind"  -> IF frames[p] = 0 THEN 3 * StackDepth + 8
                                           ELSE 3 * (StackDepth - frames[p]) + 4
    [] at[p] \in {"connect", "mapped"}
                       -> IF frames[p] = 0 THEN 3 * StackDepth + 7
                                           ELSE 3 * (StackDepth - frames[p]) + 3
    [] at[p] = "dead"  -> 0

\* Nothing anybody does, or that arrives, gives a process steps back, and each of its own
\* takes one.
RunsDown ==
  conflicts => \A p \in Procs : /\ Rank(p)' <= Rank(p)
                                /\ Step(p) => Rank(p)' < Rank(p)

\* A step of a's that brings a closer to its end, and concerns nobody else.
Advances(a) ==
  /\ \A q \in Procs \ {a} :
       at'[q] = at[q] /\ frames'[q] = frames[q] /\ acceptor'[q] = acceptor[q]
  /\ acceptor'[a] # "both"
  /\ at'[a] \in {"off", "retry", "poll"} => frames'[a] = 0
  /\ Rank(a)' \in Nat /\ Rank(a)' < Rank(a)

LEMMA RankIsNat ==
  ASSUME Inv, Doomed, conflicts, NEW p \in Procs
  PROVE  Rank(p) \in Nat
<1>1. at[p] \in Places \ {"up"}
  BY DEF Inv, Types, Roles, Doomed
<1> QED
  BY <1>1, LocalAssumption DEF Inv, Types, Doomed, Rank, Places

LEMMA DeathAdvances ==
  ASSUME Inv, Doomed, conflicts, NEW p \in Procs, p \in Alive, Dies(p)
  PROVE  Advances(p)
<1>1. /\ at' = [at EXCEPT ![p] = "dead"] /\ UNCHANGED <<frames, acceptor>>
  BY DEF Dies, Goto, role
<1>2. at[p] \notin {"off", "dead", "up"} /\ at[p] \in Places
  BY DEF Alive, Doomed, Inv, Roles, Types
<1> QED
  BY <1>1, <1>2, LocalAssumption DEF Advances, Inv, Types, Doomed, Rank, Places

LEMMA RedispatchAdvances ==
  ASSUME Inv, Doomed, conflicts, NEW p \in Procs, at[p] \in {"connect", "mapped"}, Redispatch(p)
  PROVE  Advances(p)
<1>1. CASE Dies(p)
  BY <1>1, DeathAdvances DEF Alive
<1>2. CASE frames[p] = 0 /\ Goto(p, "retry") /\ UNCHANGED <<frames, role, link>>
  BY <1>2, LocalAssumption DEF Goto, role, Advances, Inv, Types, Doomed, Rank
<1>3. CASE /\ frames[p] \in 1 .. StackDepth - 1 /\ frames' = [frames EXCEPT ![p] = @ + 1]
           /\ Goto(p, "bind") /\ UNCHANGED <<role, link>>
  BY <1>3, LocalAssumption DEF Goto, role, Advances, Inv, Types, Doomed, Rank
<1> QED
  BY <1>1, <1>2, <1>3 DEF Redispatch

LEMMA StepAdvances ==
  ASSUME Inv, Doomed, conflicts, NEW p \in Procs, Step(p)
  PROVE  Advances(p)
<1> USE LocalAssumption
<1>1. CASE Bind(p)
  BY <1>1 DEF Bind, Goto, Advances, Inv, Types, Doomed, Rank
<1>2. CASE HasRole(p)
  <2>1. CASE acceptor[p] # "none"
    BY <1>2, <2>1 DEF HasRole, Goto, role, Advances, Inv, Types, Doomed, Rank
  <2>2. CASE acceptor[p] = "none"
    BY <1>2, <2>2 DEF HasRole, Returns, Goto, role, Advances, Inv, Types, Doomed, Rank
  <2> QED
    BY <2>1, <2>2
<1>3. CASE Connect(p)
  BY <1>3 DEF Connect, Returns, Goto, Advances, Inv, Types, Doomed, Rank
<1>4. CASE ConnectFails(p) \/ MappedFails(p)
  BY <1>4, RedispatchAdvances DEF ConnectFails, MappedFails
<1>5. CASE BindMapped(p)
  BY <1>5 DEF BindMapped
<1>6. CASE Retry(p)
  BY <1>6 DEF Retry, Goto, role, Advances, Inv, Types, Doomed, Rank
<1>7. CASE Heartbeat(p)
  <2>1. Dies(p) /\ p \in Alive
    BY <1>7 DEF Heartbeat, HeartbeatWorks, Doomed, Alive
  <2> QED
    BY <2>1, DeathAdvances
<1> QED
  BY <1>1, <1>2, <1>3, <1>4, <1>5, <1>6, <1>7 DEF Step

\* The other steps, and what arrives, bring a process closer to its end or leave all
\* where they are.
LEMMA NextAdvances ==
  ASSUME Inv, Doomed, conflicts, [Next]_vars
  PROVE  (\E a \in Procs : Advances(a)) \/ UNCHANGED <<at, frames, acceptor>>
<1> USE LocalAssumption
<1>1. ASSUME NEW p \in Procs, Worker(p) PROVE Advances(p)
  BY <1>1 DEF Worker, Goto, role, Advances, Inv, Types, Doomed, Rank
<1>2. ASSUME NEW p \in Procs, Step(p) PROVE Advances(p)
  BY <1>2, StepAdvances
<1>3. ASSUME NEW p \in Procs, HeartbeatDue(p) PROVE FALSE
  BY <1>3 DEF HeartbeatDue, Inv, Roles, Doomed
<1>4. ASSUME NEW p \in Procs, ClientReads(p)
      PROVE  Advances(p) \/ UNCHANGED <<at, frames, acceptor>>
  <2>1. CASE OnLocalClose(p)
    <3>1. at[p] = "poll"
      BY <1>4 DEF ClientReads, Handles, Inv, Roles, Doomed
    <3> QED
      BY <2>1, <3>1 DEF OnLocalClose, Goto, Advances, Inv, Types, Doomed, Rank
  <2>2. CASE Keep(p, p, "client")
    BY <2>2 DEF Keep, role
  <2> QED
    BY <1>4, <2>1, <2>2 DEF ClientReads
<1>5. ASSUME NEW s \in Procs, NEW c \in Procs, Accept(s, c) \/ ServerReads(s, c)
      PROVE  UNCHANGED <<at, frames, acceptor>>
  BY <1>5 DEF Accept, ServerReads, Keep, role
<1>6. ASSUME NEW p \in Procs, Killed(p) PROVE Advances(p)
  BY <1>6, DeathAdvances DEF Killed
<1>7. CASE UNCHANGED procs
  BY <1>7 DEF procs
<1> QED
  BY <1>1, <1>2, <1>3, <1>4, <1>5, <1>6, <1>7 DEF Next, AllDead, vars

LEMMA DoomedStep ==
  ASSUME Inv, Doomed, [Next]_vars
  PROVE  Doomed' /\ RunsDown
<1>1. conflicts' = conflicts
  BY DEF Next, vars
<1>2. CASE ~ conflicts
  BY <1>1, <1>2 DEF Doomed, RunsDown
<1>3. CASE conflicts
  <2>1. ASSUME NEW a \in Procs, Advances(a), NEW p \in Procs
        PROVE  /\ acceptor'[p] # "both"
               /\ at'[p] \in {"off", "retry", "poll"} => frames'[p] = 0
               /\ Rank(p)' <= Rank(p)
    <3>1. CASE p = a
      BY <1>3, <2>1, <3>1, RankIsNat DEF Advances
    <3>2. CASE p # a
      <4>1. at'[p] = at[p] /\ frames'[p] = frames[p] /\ acceptor'[p] = acceptor[p]
        BY <2>1, <3>2 DEF Advances
      <4>2. Rank(p)' = Rank(p) /\ Rank(p) \in Nat
        BY <1>3, <4>1, RankIsNat DEF Rank
      <4> QED
        BY <1>3, <4>1, <4>2 DEF Doomed
    <3> QED
      BY <3>1, <3>2
  <2>2. ASSUME UNCHANGED <<at, frames, acceptor>>, NEW p \in Procs
        PROVE  /\ acceptor'[p] # "both"
               /\ at'[p] \in {"off", "retry", "poll"} => frames'[p] = 0
               /\ Rank(p)' <= Rank(p)
    <3>1. Rank(p)' = Rank(p) /\ Rank(p) \in Nat
      BY <1>3, <2>2, RankIsNat DEF Rank
    <3> QED
      BY <1>3, <2>2, <3>1 DEF Doomed
  <2>3. \A p \in Procs : /\ acceptor'[p] # "both"
                         /\ at'[p] \in {"off", "retry", "poll"} => frames'[p] = 0
                         /\ Rank(p)' <= Rank(p)
    BY <1>3, <2>1, <2>2, NextAdvances
  <2>4. \A p \in Procs : Step(p) => Rank(p)' < Rank(p)
    BY <1>3, StepAdvances DEF Advances
  <2> QED
    BY <2>3, <2>4 DEF Doomed, RunsDown
<1> QED
  BY <1>2, <1>3

\* Where the mapped address conflicts nobody ever has the acceptor a heartbeat asks
\* for (tcp.cpp:188), whoever owned the port before, and nobody is past a heartbeat.
THEOREM NoneComesThrough ==
  Spec => [](conflicts => \A p \in Procs : acceptor[p] # "both" /\ at[p] # "up")
<1>1. Init => Doomed
  BY DEF Init, Doomed
<1>2. Inv /\ Doomed /\ [Next]_vars => Doomed'
  BY DoomedStep
<1>3. Inv /\ Doomed => (conflicts => \A p \in Procs : acceptor[p] # "both" /\ at[p] # "up")
  BY DEF Inv, Roles, Doomed
<1> QED
  BY <1>1, <1>2, <1>3, InvHolds, PTL DEF Spec

\* The safety of EveryWorkerDies: each step of a process uses up one of the finitely
\* many it has left before it is dead, and no step of another one, no connection and
\* no close gives it one back.
THEOREM EveryWorkerRunsDown == Spec => [][RunsDown]_vars
<1>1. Init => Doomed
  BY DEF Init, Doomed
<1>2. Inv /\ Doomed /\ [Next]_vars => Doomed' /\ RunsDown
  BY DoomedStep
<1> QED
  BY <1>1, <1>2, InvHolds, PTL DEF Spec

=============================================================================
