------------------------- MODULE GroupTcpSyncProofs -------------------------
(***************************************************************************)
(* A group with the TCP backend shows its sessions what SessionSync takes  *)
(* into account, for every value of the constants: GroupTcp implements     *)
(* SessionSync, so that all that is proved of SessionSync holds of it.     *)
(***************************************************************************)
EXTENDS GroupTcpProofs

\* SessionSync's theorems, about the sessions of a group.
SSP == INSTANCE SessionSyncProofs WITH
  rows <- TableRows, count <- connectcount, now <- Clock,
  avail <- Announcements, MaxNodes <- MaxConnects

-----------------------------------------------------------------------------
(* How many announcements are queued.                                      *)

AvailCount(q) == Cardinality(Avails(q))

LEMMA AvailsFinite ==
  ASSUME NEW q \in Seq(Handlers)
  PROVE  IsFiniteSet(Avails(q)) /\ AvailCount(q) \in Nat
<1>1. Len(q) \in Nat /\ DOMAIN q = 1 .. Len(q)
  OBVIOUS
<1>2. Avails(q) \in SUBSET (1 .. Len(q))
  BY <1>1 DEF Avails
<1>3. IsFiniteSet(Avails(q))
  <2>1. IsFiniteSet(1 .. Len(q))
    BY <1>1, FS_Interval
  <2>2. QED
    BY <1>2, <2>1, FS_Subset
<1>4. QED
  BY <1>3, FS_CardinalityType DEF AvailCount

\* A stop at the end is no announcement (the timer, or its destructor).
LEMMA StopAddsNone ==
  ASSUME NEW q \in Seq(Handlers)
  PROVE  Avails(Append(q, Stop)) = Avails(q)
<1>1. Stop.op = "Stop"
  BY DEF Stop, Handler
<1>2. /\ Len(q) \in Nat /\ DOMAIN q = 1 .. Len(q)
      /\ DOMAIN Append(q, Stop) = 1 .. Len(q) + 1
      /\ \A i \in 1 .. Len(q) : Append(q, Stop)[i] = q[i]
      /\ Append(q, Stop)[Len(q) + 1] = Stop
  BY StopIsHandler, AppendProperties
<1>3. QED
  BY <1>1, <1>2 DEF Avails

\* The loops that post nothing but other handlers add none.
LEMMA OthersAddNone ==
  ASSUME TypeOK, NEW q \in Seq(Handlers), NEW op \in {"Worker", "Unavail", "Write"},
         NEW n \in Nodes \cup {NoNode}, NEW hs \in ForEachEnabled(op, n)
  PROVE  Avails(Post(q, hs)) = Avails(q)
<1>1. hs \in Seq(Handlers) /\ \A i \in DOMAIN hs : hs[i].op = op
  BY ForEachEnabledIsQueue
<1>2. /\ Len(q) \in Nat /\ Len(hs) \in Nat /\ DOMAIN q = 1 .. Len(q)
      /\ DOMAIN hs = 1 .. Len(hs)
      /\ DOMAIN Post(q, hs) = 1 .. Len(q) + Len(hs)
      /\ \A i \in 1 .. Len(q) + Len(hs) :
           Post(q, hs)[i] = IF i <= Len(q) THEN q[i] ELSE hs[i - Len(q)]
  BY <1>1, ConcatProperties DEF Post
<1>3. \A i \in DOMAIN Post(q, hs) :
        Post(q, hs)[i].op = "Avail" => i \in DOMAIN q /\ Post(q, hs)[i] = q[i]
  <2> SUFFICES ASSUME NEW i \in DOMAIN Post(q, hs)
               PROVE  Post(q, hs)[i].op = "Avail" => i \in DOMAIN q /\ Post(q, hs)[i] = q[i]
    OBVIOUS
  <2>1. CASE i <= Len(q)
    BY <1>2, <2>1
  <2>2. CASE ~ (i <= Len(q))
    <3>1. i - Len(q) \in DOMAIN hs /\ Post(q, hs)[i] = hs[i - Len(q)]
      BY <1>2, <2>2
    <3>2. QED
      BY <1>1, <3>1
  <2>3. QED
    BY <2>1, <2>2
<1>4. \A i \in DOMAIN q : i \in DOMAIN Post(q, hs) /\ Post(q, hs)[i] = q[i]
  BY <1>2
<1>5. QED
  BY <1>3, <1>4 DEF Avails

\* A connect posts one for the one backend, if it is enabled.
LEMMA ConnectAddsOne ==
  ASSUME TypeOK, NEW q \in Seq(Handlers), NEW n \in Nodes \cup {NoNode},
         NEW hs \in ForEachEnabled("Avail", n)
  PROVE  AvailCount(Post(q, hs)) \in {AvailCount(q), AvailCount(q) + 1}
<1>1. hs \in Seq(Handlers) /\ \A i \in DOMAIN hs : hs[i].op = "Avail"
  BY ForEachEnabledIsQueue
<1>2. /\ Len(q) \in Nat /\ Len(hs) \in Nat /\ DOMAIN q = 1 .. Len(q)
      /\ DOMAIN hs = 1 .. Len(hs)
      /\ DOMAIN Post(q, hs) = 1 .. Len(q) + Len(hs)
      /\ \A i \in 1 .. Len(q) + Len(hs) :
           Post(q, hs)[i] = IF i <= Len(q) THEN q[i] ELSE hs[i - Len(q)]
  BY <1>1, ConcatProperties DEF Post
<1>3. Len(hs) \in {0, 1}
  <2>1. PICK o \in SetToSeqs(Enabled) : hs = [i \in DOMAIN o |-> Handler("Avail", o[i], n)]
    BY DEF ForEachEnabled
  <2>2. DOMAIN o = 1 .. Cardinality(Enabled)
    BY <2>1 DEF SetToSeqs
  <2>3. Enabled = {} \/ Enabled = {Tcp}
    BY TcpAssumption DEF Enabled
  <2>4. Cardinality(Enabled) \in {0, 1}
    BY <2>3, FS_EmptySet, FS_Singleton
  <2>5. DOMAIN hs = 1 .. Cardinality(Enabled)
    BY <2>1, <2>2
  <2>6. 1 .. Len(hs) = 1 .. Cardinality(Enabled)
    BY <1>2, <2>5
  <2>7. QED
    BY <1>2, <2>4, <2>6
<1>4. CASE Len(hs) = 0
  <2>1. Avails(Post(q, hs)) = Avails(q)
    BY <1>2, <1>4 DEF Avails
  <2>2. QED
    BY <2>1 DEF AvailCount
<1>5. CASE Len(hs) = 1
  <2>1. Avails(Post(q, hs)) = Avails(q) \cup {Len(q) + 1}
    BY <1>1, <1>2, <1>5 DEF Avails
  <2>2. Len(q) + 1 \notin Avails(q)
    BY <1>2 DEF Avails
  <2>3. QED
    BY <2>1, <2>2, AvailsFinite, FS_AddElement DEF AvailCount
<1>6. QED
  BY <1>3, <1>4, <1>5

\* do_run_one takes the head: one less, if it is one.
LEMMA TailTakesOne ==
  ASSUME NEW q \in Seq(Handlers), q # <<>>
  PROVE  AvailCount(q) = AvailCount(Tail(q)) + (IF Head(q).op = "Avail" THEN 1 ELSE 0)
<1> DEFINE shift == [i \in Avails(Tail(q)) |-> i + 1]
           Rest  == Avails(q) \ {1}
<1>1. /\ Tail(q) \in Seq(Handlers) /\ Head(q) = q[1] /\ 1 \in DOMAIN q
      /\ \A i \in DOMAIN Tail(q) :
           i \in Nat \ {0} /\ i + 1 \in DOMAIN q /\ Tail(q)[i] = q[i + 1]
  BY TailPositions
<1>2. \A j \in DOMAIN q \ {1} : j \in Nat /\ j - 1 \in DOMAIN Tail(q) /\ (j - 1) + 1 = j
  <2>1. /\ Len(q) \in Nat \ {0} /\ DOMAIN q = 1 .. Len(q)
        /\ Len(Tail(q)) = Len(q) - 1 /\ DOMAIN Tail(q) = 1 .. Len(Tail(q))
    BY <1>1, EmptySeq, HeadTailProperties, LenProperties
  <2>2. QED
    BY <2>1
<1>3. shift \in Bijection(Avails(Tail(q)), Rest)
  <2>1. \A i \in Avails(Tail(q)) : i \in Nat \ {0} /\ i + 1 \in Rest
    BY <1>1 DEF Avails
  <2>2. shift \in [Avails(Tail(q)) -> Rest]
    BY <2>1
  <2>3. \A i, j \in Avails(Tail(q)) : shift[i] = shift[j] => i = j
    BY <2>1
  <2>4. \A j \in Rest : \E i \in Avails(Tail(q)) : shift[i] = j
    <3> SUFFICES ASSUME NEW j \in Rest PROVE \E i \in Avails(Tail(q)) : shift[i] = j
      OBVIOUS
    <3>1. j \in DOMAIN q \ {1} /\ q[j].op = "Avail"
      BY DEF Avails
    <3>2. j - 1 \in DOMAIN Tail(q) /\ (j - 1) + 1 = j
      BY <1>2, <3>1
    <3>3. Tail(q)[j - 1] = q[j]
      BY <1>1, <3>2
    <3>4. j - 1 \in Avails(Tail(q))
      BY <3>1, <3>2, <3>3 DEF Avails
    <3>5. shift[j - 1] = j
      BY <3>2, <3>4
    <3>6. QED
      BY <3>4, <3>5
  <2>5. QED
    BY <2>2, <2>3, <2>4 DEF Bijection, Injection, IsInjective, Surjection
<1>4. Cardinality(Rest) = AvailCount(Tail(q))
  <2>1. ExistsBijection(Avails(Tail(q)), Rest)
    BY <1>3 DEF ExistsBijection
  <2>2. QED
    BY <1>1, <2>1, AvailsFinite, FS_Bijection DEF AvailCount
<1>5. Cardinality(Rest) = IF 1 \in Avails(q) THEN AvailCount(q) - 1 ELSE AvailCount(q)
  BY AvailsFinite, FS_RemoveElement DEF AvailCount
<1>6. 1 \in Avails(q) <=> Head(q).op = "Avail"
  BY <1>1 DEF Avails
<1>7. AvailCount(q) \in Nat /\ AvailCount(Tail(q)) \in Nat
  BY <1>1, AvailsFinite
<1>8. QED
  <2> HIDE DEF Rest
  <2>1. QED
    BY <1>4, <1>5, <1>6, <1>7

-----------------------------------------------------------------------------
(* The group as the environment of its sessions.                           *)

\* Every id has a time, and the thread that is not in a handler has none.
EnvInv ==
  /\ times \in Seq(Nat) /\ Len(times) = connectcount
  /\ phase \in {"idle", "running"} => current = Stop

LEMMA EnvInvNext == TypeOK /\ EnvInv /\ [TNext]_tvars => EnvInv'
<1> SUFFICES ASSUME TypeOK, EnvInv, [TNext]_tvars PROVE EnvInv'
  OBVIOUS
<1>1. (phase \in {"idle", "running"} => current = Stop)'
  <2>1. [Next]_vars
    BY TcpStep DEF tvars
  <2>2. QED
    BY <2>1 DEF EnvInv, Next, API, Running, Gone, vars, core, io, Attach, Detach, Connect,
         Disconnect, Write, RunWorker, TimerFires, StopHandler, BeginHandler,
         PostCallback, ChangeRef, HandlerReturns, HandlerThrows, HandlerCrashes,
         RunReturns, UserCode
<1>2. ASSUME NEW alias \in Aliases \cup {NoAlias}, TConnect(alias)
      PROVE  times' \in Seq(Nat) /\ Len(times') = connectcount'
  <2>1. Clock \in Nat
    <3>1. CASE times = <<>>
      BY <3>1 DEF Clock
    <3>2. CASE times # <<>>
      BY <3>2 DEF Clock, Last, EnvInv
    <3>3. QED
      BY <3>1, <3>2
  <2>2. PICK now \in {Clock, Clock + 1} : times' = Append(times, now)
    BY <1>2 DEF TConnect
  <2>3. connectcount' = connectcount + 1
    BY <1>2 DEF TConnect, Connect
  <2>4. QED
    BY <2>1, <2>2, <2>3, AppendProperties DEF EnvInv
<1>3. ASSUME \A alias \in Aliases \cup {NoAlias} : ~ TConnect(alias)
      PROVE  UNCHANGED <<times, connectcount>>
  <2> USE DEF vars, core, io
  <2>1. CASE Outside
    BY <2>1 DEF Outside, EmptyHandler, Attach, Disconnect, Write, RunWorker, TimerFires,
                StopHandler, BeginHandler, HandlerReturns, HandlerCrashes, Gone
  <2>2. CASE TRunReturns \/ Avail \/ SetupSucceeds \/ SetupFails \/ UNCHANGED tvars
    BY <2>2 DEF TRunReturns, RunReturns, Avail, SetupSucceeds, SetupFails,
                HandlerReturns, HandlerThrows, tvars
  <2>3. CASE Poll
    BY <2>3 DEF Poll, Arrives, HandleSession, EndpointThrows, Datagram,
                HandleReceiveFrom, ArchiveThrows, PollCrashes, WorkerReturns,
                HandlerReturns, HandlerThrows, HandlerCrashes
  <2>4. QED
    BY <1>3, <2>1, <2>2, <2>3 DEF TNext
<1>4. QED
  BY <1>1, <1>2, <1>3 DEF EnvInv

\* What the sessions see of the group is in the table, the ids and times given out and
\* the announcements.
LEMMA SeenKept ==
  ASSUME UNCHANGED <<localnodes, connectcount, times>>
  PROVE  UNCHANGED <<TableRows, connectcount, Clock>>
  BY DEF TableRows, Clock

LEMMA NoAnnouncement ==
  ASSUME Avails(ioq') = Avails(ioq), (current.op = "Avail") = (current'.op = "Avail")
  PROVE  Announcements' = Announcements
  BY DEF Announcements, Avails

\* The timer's destructor queues a stop or nothing.
LEMMA ReleaseAddsNone ==
  ASSUME TypeOK
  PROVE  Avails(ReleaseTimer(ioq, timer)) = Avails(ioq)
  BY StopAddsNone DEF ReleaseTimer, TypeOK

\* Outside the backend's handlers only a connect announces a node.
LEMMA AnnouncementsKept ==
  ASSUME TypeOK, EnvInv,
         \/ Outside
         \/ TRunReturns
         \/ current.op = "Worker" /\ (HandlerReturns \/ HandlerThrows \/ HandlerCrashes)
         \/ UNCHANGED vars
  PROVE  Announcements' = Announcements
<1> USE DEF core, io
<1>1. ASSUME NEW node \in issued, Disconnect(node) PROVE Announcements' = Announcements
  <2>1. PICK hs \in ForEachEnabled("Unavail", node) : ioq' = Post(ioq, hs)
    BY <1>1 DEF Disconnect
  <2>2. node \in Nodes \cup {NoNode} /\ ioq \in Seq(Handlers) /\ current' = current
    BY <1>1 DEF TypeOK, Disconnect
  <2>3. Avails(ioq') = Avails(ioq)
    BY <2>1, <2>2, OthersAddNone
  <2>4. QED
    BY <2>2, <2>3, NoAnnouncement
<1>2. CASE Write
  <2>1. ioq \in Seq(Handlers) /\ current' = current
    BY <1>2 DEF TypeOK, Write
  <2>2. ioq' = ioq \/ \E hs \in ForEachEnabled("Write", NoNode) : ioq' = Post(ioq, hs)
    BY <1>2 DEF Write
  <2>3. Avails(ioq') = Avails(ioq)
    BY <2>1, <2>2, OthersAddNone
  <2>4. QED
    BY <2>1, <2>3, NoAnnouncement
<1>3. ASSUME NEW timeout \in BOOLEAN, RunWorker(timeout)
      PROVE  Announcements' = Announcements
  <2>1. ioq \in Seq(Handlers) /\ current' = current
    BY <1>3 DEF TypeOK, RunWorker
  <2>2. \E hs \in ForEachEnabled("Worker", NoNode) : ioq' = Post(ioq, hs)
    BY <1>3 DEF RunWorker
  <2>3. Avails(ioq') = Avails(ioq)
    BY <2>1, <2>2, OthersAddNone
  <2>4. QED
    BY <2>1, <2>3, NoAnnouncement
<1>4. CASE TimerFires
  <2>1. ioq \in Seq(Handlers) /\ current' = current /\ ioq' = Append(ioq, Stop)
    BY <1>4 DEF TypeOK, TimerFires
  <2>2. QED
    BY <2>1, StopAddsNone, NoAnnouncement
<1>5. ASSUME StopHandler \/ BeginHandler PROVE Announcements' = Announcements
  <2>1. /\ ioq \in Seq(Handlers) /\ ioq # <<>> /\ ioq' = Tail(ioq)
        /\ Tail(ioq) \in Seq(Handlers)
        /\ current = Stop /\ current' \in {Stop, Head(ioq)}
        /\ current' = Stop => Head(ioq) = Stop
    BY <1>5, TailPositions DEF TypeOK, EnvInv, StopHandler, BeginHandler
  <2>2. Stop.op # "Avail"
    BY DEF Stop, Handler
  <2>3. AvailCount(ioq) =
          AvailCount(ioq') + (IF Head(ioq).op = "Avail" THEN 1 ELSE 0)
    BY <2>1, TailTakesOne
  <2>4. (IF current.op = "Avail" THEN 1 ELSE 0) = 0
    BY <2>1, <2>2
  <2>5. (IF current'.op = "Avail" THEN 1 ELSE 0) = IF Head(ioq).op = "Avail" THEN 1 ELSE 0
    BY <2>1, <2>2
  <2>6. AvailCount(ioq) \in Nat /\ AvailCount(ioq') \in Nat
    BY <2>1, AvailsFinite
  <2>7. QED
    BY <2>3, <2>4, <2>5, <2>6 DEF Announcements, AvailCount, Avails
<1>6. CASE TRunReturns \/ (current.op = "Worker" /\ HandlerThrows)
  <2>1. Stop.op # "Avail"
    BY DEF Stop, Handler
  <2>2. /\ ioq' = ReleaseTimer(ioq, timer)
        /\ (current.op = "Avail") = (current'.op = "Avail")
    BY <1>6, <2>1 DEF TRunReturns, RunReturns, HandlerThrows
  <2>3. QED
    BY <2>2, ReleaseAddsNone, NoAnnouncement
<1>7. CASE EmptyHandler \/ (current.op = "Worker" /\ (HandlerReturns \/ HandlerCrashes))
  <2>1. Stop.op # "Avail"
    BY DEF Stop, Handler
  <2>2. ioq' = ioq /\ (current.op = "Avail") = (current'.op = "Avail")
    BY <1>7, <2>1 DEF EmptyHandler, HandlerReturns, HandlerCrashes
  <2>3. QED
    BY <2>2, NoAnnouncement
<1>8. CASE UNCHANGED io
  BY <1>8, NoAnnouncement
<1>9. QED
  BY <1>1, <1>2, <1>3, <1>4, <1>5, <1>6, <1>7, <1>8 DEF Outside, Attach, Gone, vars

\* Everything that is proved of the sessions rests on this, for the group's table.
SessInv == SSP!SessInv

\* A row's id is one that was given out, and has a time.
LEMMA IdsGiven ==
  ASSUME SessInv
  PROVE  \A r \in localnodes : r.id \in 1 .. connectcount
<1> SUFFICES ASSUME NEW r \in localnodes PROVE r.id \in 1 .. connectcount
  OBVIOUS
<1>1. [id |-> r.id, time |-> times[r.id], connected |-> r.connected] \in TableRows
  BY DEF TableRows
<1>2. QED
  BY <1>1 DEF SessInv, SSP!SessInv, SSP!TypeOK

\* GroupCore's connect (groupcore.cpp:106) is SessionSync's.
LEMMA ConnectStep ==
  ASSUME TypeOK, EnvInv, SessInv, NEW alias \in Aliases \cup {NoAlias}, TConnect(alias)
  PROVE  SS!Connect
<1> DEFINE row == [id |-> connectcount + 1, uuid |-> NewNode(alias), connected |-> TRUE,
                   backendrefcount |-> 0]
           seen == [id |-> connectcount + 1, time |-> Clock', connected |-> TRUE]
<1>1. /\ connectcount < MaxConnects /\ connectcount \in Nat
      /\ connectcount' = connectcount + 1
      /\ localnodes' = Insert(localnodes, row)
      /\ \E hs \in ForEachEnabled("Avail", NewNode(alias)) : ioq' = Post(ioq, hs)
      /\ UNCHANGED <<backend, current>>
  BY DEF TConnect, Connect, TypeOK
<1>2. PICK now \in IF ClockAdvances THEN {Clock + 1} ELSE {Clock, Clock + 1} :
        times' = Append(times, now)
  BY DEF TConnect
<1>3. /\ Clock' = now /\ times' # <<>> /\ times'[connectcount + 1] = now
      /\ \A i \in 1 .. connectcount : times'[i] = times[i]
  <2>1. Clock \in Nat
    <3>1. CASE times = <<>>
      BY <3>1 DEF Clock
    <3>2. CASE times # <<>>
      BY <3>2 DEF Clock, Last, EnvInv
    <3>3. QED
      BY <3>1, <3>2
  <2>2. now \in Nat
    BY <1>2, <2>1
  <2>3. /\ Len(times') = connectcount + 1
        /\ times'[connectcount + 1] = now
        /\ \A i \in 1 .. connectcount : times'[i] = times[i]
    BY <1>1, <1>2, <2>2, AppendProperties DEF EnvInv
  <2>4. times' # <<>>
    BY <1>1, <2>3
  <2>5. QED
    BY <2>3, <2>4 DEF Clock, Last
<1>4. TableRows' = TableRows \cup {seen} \/ (TableRows # {} /\ TableRows' = TableRows)
  <2>1. \A r \in localnodes : times'[r.id] = times[r.id]
    BY <1>3, IdsGiven
  <2>2. CASE localnodes' = localnodes \cup {row}
    <3>1. /\ row.id = connectcount + 1 /\ row.connected = TRUE
          /\ times'[row.id] = Clock'
      BY <1>3
    <3>2. QED
      <4> HIDE DEF row
      <4>1. QED
        BY <2>1, <2>2, <3>1 DEF TableRows
  <2>3. CASE localnodes' = localnodes /\ localnodes # {}
    BY <2>1, <2>3 DEF TableRows
  <2>4. QED
    BY <1>1, <2>2, <2>3 DEF Insert
<1>5. Announcements' \in {Announcements, Announcements + 1}
  <2>1. NewNode(alias) \in Nodes \cup {NoNode} /\ ioq \in Seq(Handlers)
    BY <1>1 DEF NewNode, Nodes, TypeOK
  <2>2. AvailCount(ioq') \in {AvailCount(ioq), AvailCount(ioq) + 1}
    BY <1>1, <2>1, ConnectAddsOne
  <2>3. AvailCount(ioq) \in Nat
    BY <2>1, AvailsFinite
  <2>4. QED
    BY <1>1, <2>2, <2>3 DEF Announcements, AvailCount, Avails
<1>6. UNCHANGED <<tcpq, SS!session, thrown>>
  BY <1>1 DEF backend, session, SS!session
<1>7. QED
  BY <1>1, <1>2, <1>3, <1>4, <1>5, <1>6 DEF SS!Connect

\* Setting the one field of a row that a disconnect changes.
LEMMA GoneIsView ==
  ASSUME NEW id, NEW time, NEW connected
  PROVE  [[id |-> id, time |-> time, connected |-> connected] EXCEPT !.connected = FALSE]
           = [id |-> id, time |-> time, connected |-> FALSE]
<1> DEFINE r == [id |-> id, time |-> time, connected |-> connected]
           q == [r EXCEPT !.connected = FALSE]
           S == [id : {id}, time : {time}, connected : {connected, FALSE}]
<1>1. r \in S
  OBVIOUS
<1>2. q \in S /\ q.connected = FALSE
  <2> HIDE DEF r
  <2>1. QED
    BY <1>1
<1>3. q = [id |-> id, time |-> time, connected |-> FALSE]
  <2> HIDE DEF q
  <2>1. q = [id |-> q.id, time |-> q.time, connected |-> q.connected]
    BY <1>2
  <2>2. q.id = id /\ q.time = time
    BY <1>2
  <2>3. QED
    BY <1>2, <2>1, <2>2
<1>4. QED
  BY <1>3

\* So is its disconnect (groupcore.cpp:131), if a node is there and connected.
LEMMA DisconnectStep ==
  ASSUME TypeOK, EnvInv, SessInv, RowsUnique, NEW node \in issued, Disconnect(node),
         UNCHANGED <<times, backend, purged>>
  PROVE  (\E r \in TableRows : SS!Disconnect(r)) \/ UNCHANGED SS!vars
<1> DEFINE View(r) == [id |-> r.id, time |-> times[r.id], connected |-> r.connected]
<1>1. /\ localnodes' = {IF r.uuid = node THEN [r EXCEPT !.connected = FALSE] ELSE r :
                          r \in localnodes}
      /\ UNCHANGED connectcount
  BY DEF Disconnect
<1>2. /\ UNCHANGED <<connectcount, Clock, Announcements>>
      /\ UNCHANGED <<tcpq, SS!session, thrown>>
  BY <1>1, AnnouncementsKept DEF Outside, Clock, backend, session, SS!session
<1>3. TableRows' = {[id |-> r.id, time |-> times[r.id], connected |-> r.connected] :
                      r \in localnodes'}
  BY DEF TableRows
<1>4. \A r \in localnodes : r \in Rows
  BY DEF TypeOK
<1>5. CASE \A r \in localnodes : r.uuid = node => ~ r.connected
  <2>1. \A r \in localnodes :
          (IF r.uuid = node THEN [r EXCEPT !.connected = FALSE] ELSE r) = r
    BY <1>4, <1>5 DEF Rows
  <2>2. localnodes' = localnodes
    BY <1>1, <2>1
  <2>3. TableRows' = TableRows
    BY <1>3, <2>2 DEF TableRows
  <2>4. QED
    BY <1>2, <2>3 DEF SS!vars, SS!table
<1>6. ASSUME NEW r \in localnodes, r.uuid = node, r.connected
      PROVE  SS!Disconnect(View(r)) /\ View(r) \in TableRows
  <2> DEFINE gone == [r EXCEPT !.connected = FALSE]
  <2>1. /\ gone.id = r.id /\ gone.connected = FALSE
        /\ View(gone) = [View(r) EXCEPT !.connected = FALSE]
    <3>1. gone.id = r.id /\ gone.connected = FALSE
      BY <1>4 DEF Rows
    <3>2. View(gone) = [id |-> r.id, time |-> times[r.id], connected |-> FALSE]
      <4> HIDE DEF gone
      <4>1. QED
        BY <3>1
    <3>3. [View(r) EXCEPT !.connected = FALSE]
            = [id |-> r.id, time |-> times[r.id], connected |-> FALSE]
      BY GoneIsView
    <3>4. QED
      <4> HIDE DEF gone, View
      <4>1. QED
        BY <3>1, <3>2, <3>3
  <2>2. localnodes' = (localnodes \ {r}) \cup {gone}
    BY <1>1, <1>6 DEF RowsUnique
  <2>3. \A q \in localnodes \ {r} : q.id # r.id
    BY DEF RowsUnique
  <2>4. View(r).connected /\ View(r) \in TableRows
    BY <1>6 DEF TableRows
  <2>5. TableRows = {View(q) : q \in localnodes}
    BY DEF TableRows
  <2>6. TableRows' = {View(q) : q \in localnodes'}
    BY <1>3
  <2>7. \A q \in localnodes \ {r} : View(q) # View(r)
    BY <2>3
  <2>8. TableRows' = (TableRows \ {View(r)}) \cup {View(gone)}
    <3> HIDE DEF View, gone
    <3>1. QED
      BY <2>2, <2>5, <2>6, <2>7
  <2>9. QED
    <3> HIDE DEF View, gone
    <3>1. QED
      BY <1>2, <2>1, <2>4, <2>8 DEF SS!Disconnect
<1>7. QED
  BY <1>5, <1>6

\* And the purge at the end of runWorker (groupcore.cpp:95), which takes every row.
LEMMA PurgeStep ==
  ASSUME TypeOK, EnvInv, FreshInv, TRunReturns
  PROVE  SS!Purge \/ UNCHANGED SS!vars
<1>1. localnodes' = {} /\ UNCHANGED <<connectcount, times, backend>>
  BY DEF TRunReturns, RunReturns, PurgeNodes, FreshInv
<1>2. TableRows' = {}
  BY <1>1 DEF TableRows
<1>3. UNCHANGED <<connectcount, Clock, Announcements, tcpq, SS!session, thrown>>
  BY <1>1, AnnouncementsKept DEF Clock, backend, session, SS!session
<1>4. QED
  BY <1>2, <1>3 DEF SS!Purge, SS!vars, SS!table

\* What happens in the backend is SessionSync's, or nothing to it.
LEMMA BackendStep ==
  ASSUME TypeOK, EnvInv, SessInv,
         Avail \/ SetupSucceeds \/ SetupFails \/ Poll \/ UNCHANGED tvars
  PROVE  SS!Next \/ UNCHANGED SS!vars
<1> USE DEF SS!Next
<1>1. CASE Avail
  BY <1>1 DEF Avail
<1>2. ASSUME UNCHANGED vars, HandleSession \/ Arrives PROVE SS!Next
  BY <1>2 DEF HandleSession, Arrives
<1>3. ASSUME HandlerThrows, current.op = "Worker", UNCHANGED times
      PROVE  UNCHANGED <<TableRows, connectcount, Clock, Announcements>>
  BY <1>3, SeenKept, AnnouncementsKept DEF HandlerThrows, core
<1>4. CASE HandleSession \/ Arrives
  BY <1>4 DEF HandleSession, Arrives
<1>5. CASE EndpointThrows
  <2> DEFINE s == Head(tcpq).of
  <2>1. /\ tcpq # <<>> /\ Head(tcpq).kind = "uuidread"
        /\ tcpq' = Tail(tcpq) /\ sock' = [sock EXCEPT ![s] = "refused"]
        /\ UNCHANGED <<enqueued, synctime, out, told, thrown>>
    BY <1>5 DEF EndpointThrows, KeepQueue
  <2>2. UNCHANGED <<TableRows, connectcount, Clock, Announcements>>
    BY <1>3, <1>5 DEF EndpointThrows, Polling
  <2>3. s \in Sessions /\ Head(tcpq) = SS!UuidRead(s)
    <3>1. tcpq \in Seq([kind : {"uuidread", "sync"}, of : Sessions])
      BY DEF SessInv, SSP!SessInv, SSP!TypeOK, SSP!Handlers
    <3>2. Head(tcpq) \in [kind : {"uuidread", "sync"}, of : Sessions]
      BY <2>1, <3>1, HeadTailProperties
    <3>3. QED
      BY <2>1, <3>2 DEF SS!UuidRead
  <2>4. SS!PollRefused(s)
    <3>1. ~ SS!Joins(FALSE)
      BY DEF SS!Joins
    <3>2. QED
      <4> HIDE DEF s
      <4>1. QED
        BY <2>1, <2>2, <2>3, <3>1 DEF SS!PollRefused, SS!table
  <2>5. QED
    BY <2>3, <2>4
<1>6. CASE SetupFails \/ \E v \in Readers : ArchiveThrows(v)
  <2>1. /\ HandlerThrows /\ current.op = "Worker" /\ UNCHANGED times
        /\ UNCHANGED <<tcpq, session, thrown>>
    BY <1>6 DEF SetupFails, Setup, ArchiveThrows, Polling
  <2>2. QED
    BY <1>3, <2>1 DEF SS!vars, SS!table, SS!session, session
<1>7. CASE PollCrashes \/ WorkerReturns
  <2>1. /\ UNCHANGED <<localnodes, connectcount, times, tcpq, session, thrown>>
        /\ current.op = "Worker" /\ (HandlerReturns \/ HandlerCrashes)
    BY <1>7 DEF PollCrashes, WorkerReturns, Polling, HandlerReturns, HandlerCrashes, core,
                backend
  <2>2. UNCHANGED <<TableRows, connectcount, Clock, Announcements>>
    BY <2>1, SeenKept, AnnouncementsKept
  <2>3. QED
    BY <2>1, <2>2 DEF SS!vars, SS!table, SS!session, session
<1>8. CASE SetupSucceeds \/ (\E v \in Readers : Datagram(v) \/ HandleReceiveFrom(v))
           \/ UNCHANGED tvars
  <2>1. UNCHANGED <<vars, times, tcpq, session, thrown>>
    BY <1>8 DEF SetupSucceeds, Datagram, HandleReceiveFrom, tvars, backend
  <2>2. UNCHANGED <<TableRows, connectcount, Clock, Announcements>>
    BY <2>1, SeenKept, AnnouncementsKept DEF vars, core
  <2>3. QED
    BY <2>1, <2>2 DEF SS!vars, SS!table, SS!session, session
<1>9. QED
  BY <1>1, <1>4, <1>5, <1>6, <1>7, <1>8 DEF Poll

LEMMA SessionStep ==
  ASSUME TypeOK, RowsUnique, FreshInv, EnvInv, SessInv, [TNext]_tvars
  PROVE  SS!Next \/ UNCHANGED SS!vars
<1> USE DEF SS!Next
<1>1. ASSUME Outside, \A node \in issued : ~ Disconnect(node) PROVE UNCHANGED SS!vars
  <2>1. UNCHANGED <<localnodes, connectcount, times, backend>>
    BY <1>1 DEF Outside, EmptyHandler, Attach, Write, RunWorker, TimerFires, StopHandler,
                BeginHandler, HandlerReturns, HandlerCrashes, Gone, vars, core
  <2>2. UNCHANGED <<TableRows, connectcount, Clock, Announcements>>
    BY <1>1, <2>1, SeenKept, AnnouncementsKept
  <2>3. QED
    BY <2>1, <2>2 DEF SS!vars, SS!table, SS!session, session, backend
<1>2. ASSUME Outside, NEW node \in issued, Disconnect(node)
      PROVE  SS!Next \/ UNCHANGED SS!vars
  BY <1>2, DisconnectStep DEF Outside
<1>3. QED
  BY <1>1, <1>2, ConnectStep, PurgeStep, BackendStep DEF TNext

-----------------------------------------------------------------------------
(* The theorems.                                                           *)

\* Before Worker has set the backend up nothing listens for connections.
NoneBefore == ~ initialized => tcpq = <<>> /\ \A s \in Sessions : sock[s] = "none"

TInv ==
  TypeOK /\ RowsUnique /\ ReadersInv /\ FreshInv /\ EnvInv /\ SessInv /\ NoneBefore

LEMMA TInvInit == TInit => TInv /\ SS!Init
<1> SUFFICES ASSUME TInit PROVE TInv /\ SS!Init
  OBVIOUS
<1>1. Init
  BY DEF TInit
<1>2. TypeOK /\ RowsUnique
  BY <1>1, TypeInit DEF Init, RowsUnique
<1>3. ReadersInv /\ FreshInv
  BY ReadersInvInit, FreshInvInit
<1>4. EnvInv
  BY <1>1, EmptySeq DEF TInit, Init, EnvInv
<1>5. SS!Init
  <2>1. ioq = <<>> /\ current = Stop /\ Stop.op # "Avail"
    BY <1>1 DEF Init, Stop, Handler
  <2>2. Avails(ioq) = {}
    BY <2>1 DEF Avails
  <2>3. Announcements = 0
    BY <2>1, <2>2, FS_EmptySet DEF Announcements
  <2>4. TableRows = {} /\ connectcount = 0 /\ Clock = 1
    BY <1>1 DEF TInit, Init, TableRows, Clock
  <2>5. QED
    BY <2>3, <2>4 DEF TInit, SS!Init, SS!NoTime
<1>6. SessInv
  <2>1. SSP!Init
    BY <1>5 DEF SS!Init, SSP!Init, SS!NoTime, SSP!NoTime
  <2>2. QED
    BY <2>1, SSP!SessInvInit, TcpAssumption, BoundsAssumption DEF SessInv
<1>7. NoneBefore
  BY DEF TInit, NoneBefore
<1>8. QED
  BY <1>2, <1>3, <1>4, <1>5, <1>6, <1>7 DEF TInv

\* SS and SSP are one module under two names.
LEMMA SameAvailable == SS!OnLocalNodeAvailable => SSP!OnLocalNodeAvailable
<1>1. \A S : SS!SetToSeqs(S) = SSP!SetToSeqs(S)
  BY Zenon DEF SS!SetToSeqs, SSP!SetToSeqs, SS!Cardinality, SSP!Cardinality
<1>2. SS!NotEnqueued = SSP!NotEnqueued
  BY DEF SS!NotEnqueued, SSP!NotEnqueued, SS!InSet, SSP!InSet
<1>3. \A s : SS!Sync(s) = SSP!Sync(s)
  BY DEF SS!Sync, SSP!Sync
<1>4. QED
  BY <1>1, <1>2, <1>3
     DEF SS!OnLocalNodeAvailable, SSP!OnLocalNodeAvailable, SS!table, SSP!table

LEMMA SameStep == SS!Next \/ UNCHANGED SS!vars => [SSP!Next]_SSP!vars
<1> USE DEF SS!table, SSP!table, SS!session, SSP!session, SSP!Next
<1>1. SS!Connect => SSP!Next
  BY DEF SS!Connect, SSP!Connect
<1>2. ASSUME NEW r \in TableRows, SS!Disconnect(r) PROVE SSP!Next
  BY <1>2 DEF SS!Disconnect, SSP!Disconnect
<1>3. SS!Purge => SSP!Next
  BY DEF SS!Purge, SSP!Purge
<1>4. SS!OnLocalNodeAvailable => SSP!Next
  BY SameAvailable
<1>5. ASSUME NEW s \in Sessions, SS!UuidArrives(s) PROVE SSP!UuidArrives(s)
  <2>1. SS!ToSet(tcpq) = SSP!ToSet(tcpq)
    BY DEF SS!ToSet, SSP!ToSet
  <2>2. SS!UuidRead(s) = SSP!UuidRead(s)
    BY Zenon DEF SS!UuidRead, SSP!UuidRead
  <2>3. QED
    BY <1>5, <2>1, <2>2 DEF SS!UuidArrives, SSP!UuidArrives
<1>6. ASSUME NEW s \in Sessions, SS!PollSync(s) PROVE SSP!PollSync(s)
  BY <1>6 DEF SS!PollSync, SSP!PollSync, SS!Joins, SSP!Joins, SS!InSet, SSP!InSet,
              SS!FlagAfterInline, SSP!FlagAfterInline, SS!SyncNodeList, SSP!SyncNodeList,
              SS!Candidates, SSP!Candidates, SS!Visited, SSP!Visited,
              SS!RangeByCreated, SSP!RangeByCreated, SS!NoTime, SSP!NoTime,
              SS!Latest, SSP!Latest, SS!PassedOver, SSP!PassedOver,
              SS!FirstOf, SSP!FirstOf, SS!SetSyncTime, SSP!SetSyncTime
<1>7. ASSUME NEW s \in Sessions, SS!PollRefused(s) PROVE SSP!Next
  BY <1>7 DEF SS!PollRefused, SSP!PollRefused, SS!UuidRead, SSP!UuidRead,
              SS!Joins, SSP!Joins, SS!InSet, SSP!InSet
<1>8. ASSUME NEW s \in Sessions, SS!SendFinishes(s) \/ SS!SendFails(s) PROVE SSP!Next
  BY <1>8 DEF SS!SendFinishes, SSP!SendFinishes, SS!SendFails, SSP!SendFails
<1>9. UNCHANGED SS!vars => UNCHANGED SSP!vars
  BY DEF SS!vars, SSP!vars
<1>10. QED
  BY <1>1, <1>2, <1>3, <1>4, <1>5, <1>6, <1>7, <1>8, <1>9 DEF SS!Next

\* Nothing is queued, read or closed before Worker has succeeded once (tcp.cpp:146).
LEMMA NoneBeforeNext == SessInv /\ NoneBefore /\ [TNext]_tvars => NoneBefore'
<1> SUFFICES ASSUME SessInv, NoneBefore, [TNext]_tvars, ~ initialized'
             PROVE  UNCHANGED <<tcpq, sock>> /\ ~ initialized
  BY DEF NoneBefore
<1> USE DEF vars, backend, session, readers
<1>1. CASE Avail
  <2>1. SSP!OnLocalNodeAvailable
    BY <1>1, SameAvailable DEF Avail
  <2>2. UNCHANGED tcpq
    BY <2>1, SSP!AvailableDoesNothing, TcpAssumption, BoundsAssumption DEF SessInv
  <2>3. QED
    BY <1>1, <2>2 DEF Avail, SS!OnLocalNodeAvailable
<1>2. CASE Poll
  BY <1>2 DEF Poll, Arrives, HandleSession, EndpointThrows, Datagram, HandleReceiveFrom,
              ArchiveThrows, PollCrashes, WorkerReturns, Polling
<1>3. CASE Outside \/ (\E alias \in Aliases \cup {NoAlias} : TConnect(alias)) \/ TRunReturns
           \/ SetupSucceeds \/ SetupFails \/ UNCHANGED tvars
  BY <1>3 DEF Outside, TConnect, TRunReturns, SetupSucceeds, SetupFails, tvars
<1>4. QED
  BY <1>1, <1>2, <1>3 DEF TNext

LEMMA TInvNext == TInv /\ [TNext]_tvars => TInv' /\ [SS!Next]_SS!vars
<1> SUFFICES ASSUME TInv, [TNext]_tvars PROVE TInv' /\ [SS!Next]_SS!vars
  OBVIOUS
<1>1. [Next]_vars
  BY TcpStep DEF tvars
<1>2. TypeOK' /\ RowsUnique'
  BY <1>1, TypeNext, RowsUniqueNext DEF TInv
<1>3. ReadersInv' /\ FreshInv' /\ EnvInv'
  BY ReadersInvNext, FreshInvNext, EnvInvNext DEF TInv
<1>4. SS!Next \/ UNCHANGED SS!vars
  BY SessionStep DEF TInv
<1>5. SessInv'
  <2>1. [SSP!Next]_SSP!vars
    BY <1>4, SameStep
  <2>2. QED
    BY <2>1, SSP!SessInvNext, TcpAssumption, BoundsAssumption DEF TInv, SessInv
<1>6. NoneBefore'
  BY NoneBeforeNext DEF TInv
<1>7. QED
  BY <1>2, <1>3, <1>4, <1>5, <1>6 DEF TInv

LEMMA TInvHolds == TSpec => []TInv /\ SS!Spec
<1>1. TInit => TInv /\ SS!Init
  BY TInvInit
<1>2. TInv /\ [TNext]_tvars => TInv' /\ [SS!Next]_SS!vars
  BY TInvNext
<1>3. QED
  BY <1>1, <1>2, PTL DEF TSpec, SS!Spec

\* What groupcore.cpp's connect, disconnect, loops, purge and exceptions do to the node
\* table and the queue is what SessionSync takes into account, so that its theorems hold
\* of the sessions of any group the TCP backend is attached to.
THEOREM ImplementsSessionSyncHolds == TSpec => ImplementsSessionSync
<1>1. SS!Spec => ImplementsSessionSync
  BY DEF ImplementsSessionSync
<1>2. QED
  BY <1>1, TInvHolds, PTL

\* The types, those of the sessions included; ids and times go together; and nothing
\* listens before Worker has set the backend up.
THEOREM TTypeCorrect == TSpec => []TTypeOK
<1>1. TInv => TTypeOK
  <2> SUFFICES ASSUME TInv PROVE TTypeOK
    OBVIOUS
  <2>1. SSP!TypeOK => SS!TypeOK
    BY DEF SS!TypeOK, SSP!TypeOK, SS!Rows, SSP!Rows, SS!Handlers, SSP!Handlers
  <2>2. SS!TypeOK
    BY <2>1 DEF TInv, SessInv, SSP!SessInv
  <2>3. purged \in 0 .. connectcount
    BY DEF TInv, FreshInv, TypeOK
  <2>4. QED
    BY <2>2, <2>3 DEF TTypeOK, TInv, ReadersInv, EnvInv, NoneBefore
<1>2. QED
  BY <1>1, TInvHolds, PTL

-----------------------------------------------------------------------------
(* What the two refinements come to, end to end.                           *)

\* Nor does send ever throw out of a runWorker, nor is a second node announced, or to a
\* second peer, in a process' whole life: whatever its application calls and throws.
THEOREM GroupSessionsSafe == TSpec => [](SS!NoBusySend /\ SS!OneAnnouncement)
<1>1. TInv => SS!NoBusySend
  BY DEF TInv, SessInv, SSP!SessInv, SSP!SetInv, SS!NoBusySend
<1>2. TInv => SS!OneAnnouncement
  <2> SUFFICES ASSUME TInv PROVE SS!OneAnnouncement
    OBVIOUS
  <2>1. SSP!OneAnnouncement
    BY SSP!InvHasOneAnnouncement, TcpAssumption, BoundsAssumption DEF TInv, SessInv
  <2>2. QED
    BY <2>1, Zenon DEF SS!OneAnnouncement, SSP!OneAnnouncement, SS!Cardinality, SSP!Cardinality
<1>3. QED
  BY <1>1, <1>2, TInvHolds, PTL

\* With time stamps that differ no node is skipped, in a group as for the sessions alone.
THEOREM GroupSkipsNone ==
  ASSUME ClockAdvances
  PROVE  TSpec => []SS!NoneSkipped
<1>1. TInit => SSP!SkipInv
  BY DEF TInit, Init, SSP!SkipInv, SSP!TimesDiffer, SSP!NoneSkipped, TableRows
<1>2. TInv /\ SSP!SkipInv /\ [SS!Next]_SS!vars => SSP!SkipInv'
  <2> SUFFICES ASSUME TInv, SSP!SkipInv, [SS!Next]_SS!vars PROVE SSP!SkipInv'
    OBVIOUS
  <2>1. [SSP!Next]_SSP!vars
    BY SameStep
  <2>2. QED
    BY <2>1, SSP!SkipInvNext, TcpAssumption, BoundsAssumption DEF TInv, SessInv
<1>3. SSP!SkipInv => SS!NoneSkipped
  BY DEF SSP!SkipInv, SSP!NoneSkipped, SS!NoneSkipped, SSP!RangeByCreated,
         SS!RangeByCreated, SSP!NoTime, SS!NoTime
<1>4. QED
  BY <1>1, <1>2, <1>3, TInvHolds, PTL DEF TSpec, SS!Spec

\* The connected nodes of a group, as SessionSync has them.
LEMMA SameLive ==
  /\ SSP!LiveIds = {r.id : r \in {x \in localnodes : x.connected}}
  /\ SSP!LiveIds' = {r.id : r \in {x \in localnodes : x.connected}}'
<1>1. SSP!LiveIds = {r.id : r \in {x \in localnodes : x.connected}}
  <2>1. \A x \in TableRows : \E r \in localnodes : x.id = r.id /\ x.connected = r.connected
    BY DEF TableRows
  <2>2. \A r \in localnodes :
          LET x == [id |-> r.id, time |-> times[r.id], connected |-> r.connected]
          IN  x \in TableRows /\ x.id = r.id /\ x.connected = r.connected
    BY DEF TableRows
  <2>3. \A r \in localnodes : \E x \in TableRows : x.id = r.id /\ x.connected = r.connected
    BY <2>2
  <2>4. QED
    BY <2>1, <2>3 DEF SSP!LiveIds
<1>2. SSP!LiveIds' = {r.id : r \in {x \in localnodes' : x.connected}}
  <2>1. \A x \in TableRows' : \E r \in localnodes' : x.id = r.id /\ x.connected = r.connected
    BY DEF TableRows
  <2>2. \A r \in localnodes' :
          LET x == [id |-> r.id, time |-> times'[r.id], connected |-> r.connected]
          IN  x \in TableRows' /\ x.id = r.id /\ x.connected = r.connected
    BY DEF TableRows
  <2>3. \A r \in localnodes' : \E x \in TableRows' : x.id = r.id /\ x.connected = r.connected
    BY <2>2
  <2>4. QED
    BY <2>1, <2>3 DEF SSP!LiveIds
<1>3. QED
  BY <1>1, <1>2

\* From connect and disconnect (groupcore.cpp:106, 131) to what a peer is told: of
\* connected nodes, in the order they connected, of each at most once.
THEOREM GroupImplementsNodeSync == TSpec => ImplementsNodeSync
<1> DEFINE Live == {r.id : r \in {x \in localnodes : x.connected}}
<1>1. TInit => NS!SyncInit
  BY DEF TInit, Init, NS!SyncInit
<1>2. TInv /\ [SS!Next]_SS!vars => NS!SyncNext \/ UNCHANGED <<Live, connectcount, told>>
  <2> SUFFICES ASSUME TInv, [SS!Next]_SS!vars
               PROVE  NS!SyncNext \/ UNCHANGED <<Live, connectcount, told>>
    OBVIOUS
  <2>1. [SSP!Next]_SSP!vars
    BY SameStep
  <2>2. SSP!NS!SyncNext \/ UNCHANGED <<SSP!LiveIds, connectcount, told>>
    BY <2>1, SSP!SyncStep, TcpAssumption, BoundsAssumption DEF TInv, SessInv
  <2>3. SSP!LiveIds = Live /\ SSP!LiveIds' = Live'
    BY SameLive
  <2>4. QED
    BY <2>2, <2>3
    DEF SSP!NS!SyncNext, NS!SyncNext, SSP!NS!NodeArrives, NS!NodeArrives,
        SSP!NS!NodesLeave, NS!NodesLeave, SSP!NS!Tell, NS!Tell, SSP!LiveIds
<1>3. TInv /\ [SS!Next]_SS!vars
        => [NS!SyncNext]_<<{r.id : r \in {x \in localnodes : x.connected}}, connectcount, told>>
  BY <1>2
<1>4. QED
  BY <1>1, <1>3, TInvHolds, PTL DEF TSpec, SS!Spec, ImplementsNodeSync, NS!SyncSpec
=============================================================================
