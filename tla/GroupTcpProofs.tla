--------------------------- MODULE GroupTcpProofs ---------------------------
(***************************************************************************)
(* What GroupCore's theorems say of a group with the TCP backend, and what *)
(* a poll() that an exception leaves does to the readers and to the        *)
(* announcements.                                                          *)
(***************************************************************************)
EXTENDS GroupTcp, GroupCoreProofs

\* Every step of a group with the TCP backend is a step of GroupCore or changes
\* nothing GroupCore has.
LEMMA TcpStep == TNext => [Next]_vars
<1>1. Outside => Next
  BY TcpAssumption DEF Outside, EmptyHandler, Next, API, Running
<1>2. ASSUME NEW alias \in Aliases \cup {NoAlias}, TConnect(alias) PROVE Next
  BY <1>2 DEF TConnect, Next, API
<1>3. TRunReturns \/ Avail => Next
  BY DEF TRunReturns, Avail, Next, Running
<1>4. SetupSucceeds \/ SetupFails => [Next]_vars
  BY DEF SetupSucceeds, SetupFails, Next, Running
<1>5. Arrives \/ HandleSession \/ EndpointThrows => [Next]_vars
  BY DEF Arrives, HandleSession, EndpointThrows, Next, Running
<1>6. ASSUME NEW v \in Readers, Datagram(v) \/ HandleReceiveFrom(v) \/ ArchiveThrows(v)
      PROVE  [Next]_vars
  BY <1>6 DEF Datagram, HandleReceiveFrom, ArchiveThrows, Next, Running
<1>7. PollCrashes \/ WorkerReturns => Next
  BY DEF PollCrashes, WorkerReturns, Next, Running
<1>8. QED
  BY <1>1, <1>2, <1>3, <1>4, <1>5, <1>6, <1>7 DEF TNext, Poll

\* So GroupCore's theorems hold of it.
LEMMA TcpIsGroupCore == TSpec => Spec
<1>1. TInit => Init
  BY DEF TInit
<1>2. [TNext]_tvars => [Next]_vars
  BY TcpStep DEF tvars
<1>3. QED
  BY <1>1, <1>2, PTL DEF TSpec, Spec

\* What GroupCore promises its applications it keeps with the TCP backend attached: whatever
\* its handlers do, throw or leave undone, calls and stops stay where they belong.
THEOREM TcpGroupSafe ==
  TSpec => /\ [](RowsUnique /\ AvailBeforeUnavail /\ NoStaleStop /\ StopsAccounted)
           /\ NothingLost /\ DetachedDrains /\ PurgeFollowsReferences /\ CleanRunWaits
<1>1. Spec => []RowsUnique /\ []AvailBeforeUnavail /\ []NoStaleStop /\ []StopsAccounted
  BY RowsUniqueHolds, AvailBeforeUnavailHolds, NoStaleStopHolds, StopsAccountedHolds
<1>2. Spec => NothingLost /\ DetachedDrains /\ PurgeFollowsReferences /\ CleanRunWaits
  BY NothingLostHolds, DetachedDrainsHolds, PurgeFollowsReferencesHolds, CleanRunWaitsHolds
<1>3. QED
  BY TcpIsGroupCore, <1>1, <1>2, PTL

-----------------------------------------------------------------------------
(* The readers.  Until Worker has set the backend up each exception has    *)
(* left at most one receive behind, and all of them are of the v4 reader.  *)

All(v) == receives[v] + received[v]

ReadersInv ==
  /\ receives \in [Readers -> Nat] /\ received \in [Readers -> Nat]
  /\ initialized \in BOOLEAN /\ throws \in Nat
  /\ All("v6") = 0
  /\ ~ initialized => All("v4") <= throws
  /\ initialized => All("v4") <= throws + 2
  /\ initialized /\ throws = 0 => All("v4") = 2

\* Whichever version handle_receive_from is called for, it is the v4 reader's.
LEMMA OneType == \A v \in Readers : ReaderFor(Type(v)) = "v4"
  BY DEF ReaderFor, Type

\* How many calls of handle_receive_from start a receive on a reader.
LEMMA CallsOf ==
  ASSUME NEW v \in Readers
  PROVE  /\ Cardinality({c \in Readers : ReaderFor(Type(c)) = v}) = IF v = "v4" THEN 2 ELSE 0
         /\ Cardinality({c \in {"v4"} : ReaderFor(Type(c)) = v}) = IF v = "v4" THEN 1 ELSE 0
         /\ Cardinality({c \in {} : ReaderFor(Type(c)) = v}) = 0
<1>1. Cardinality({}) = 0
  BY FS_EmptySet
<1>2. Cardinality({"v4"}) = 1
  BY FS_Singleton
<1>3. Cardinality({"v4", "v6"}) = 2
  <2>1. Cardinality({"v4"} \cup {"v6"}) = 2
    <3>1. IsFiniteSet({"v4"}) /\ "v6" \notin {"v4"}
      BY FS_Singleton
    <3>2. Cardinality({"v4"} \cup {"v6"}) = Cardinality({"v4"}) + 1
      BY <3>1, FS_AddElement
    <3>3. QED
      BY <1>2, <3>2
  <2>2. {"v4"} \cup {"v6"} = {"v4", "v6"}
    OBVIOUS
  <2>3. QED
    BY <2>1, <2>2
<1>4. CASE v = "v4"
  <2>1. /\ {c \in Readers : ReaderFor(Type(c)) = v} = {"v4", "v6"}
        /\ {c \in {"v4"} : ReaderFor(Type(c)) = v} = {"v4"}
        /\ {c \in {} : ReaderFor(Type(c)) = v} = {}
    BY <1>4, OneType DEF Readers
  <2>2. QED
    BY <1>1, <1>2, <1>3, <1>4, <2>1
<1>5. CASE v # "v4"
  <2>1. /\ {c \in Readers : ReaderFor(Type(c)) = v} = {}
        /\ {c \in {"v4"} : ReaderFor(Type(c)) = v} = {}
        /\ {c \in {} : ReaderFor(Type(c)) = v} = {}
    BY <1>5, OneType DEF Readers
  <2>2. QED
    BY <1>1, <1>5, <2>1
<1>6. QED
  BY <1>4, <1>5

\* A step that leaves the readers alone, whether it throws or not.
LEMMA ReadersKept ==
  ASSUME ReadersInv, UNCHANGED readers, throws' \in {throws, throws + 1}
  PROVE  ReadersInv'
  BY DEF ReadersInv, readers, All, Readers

\* No step of GroupCore's takes back an exception.
LEMMA ThrowsCounted == [Next]_vars => throws' \in {throws, throws + 1}
  BY DEF Next, API, Running, Gone, vars, core, io, Attach, Detach, Connect, Disconnect,
         Write, RunWorker, TimerFires, StopHandler, BeginHandler, PostCallback, ChangeRef,
         HandlerReturns, HandlerThrows, HandlerCrashes, RunReturns

LEMMA ReadersInvNext == ReadersInv /\ [TNext]_tvars => ReadersInv'
<1> SUFFICES ASSUME ReadersInv, [TNext]_tvars PROVE ReadersInv'
  OBVIOUS
<1> USE DEF Readers
<1>0. throws' \in {throws, throws + 1}
  BY TcpStep, ThrowsCounted DEF tvars, vars
<1>1. CASE SetupSucceeds
  <2>1. initialized' /\ ~ initialized /\ throws' = throws
    BY <1>1 DEF SetupSucceeds, Setup, vars, io
  <2>2. /\ receives' = [v \in Readers |-> IF v = "v4" THEN 2 ELSE 0]
        /\ received' = [v \in Readers |-> received[v] + receives[v]]
    BY <1>1, CallsOf DEF SetupSucceeds, Replace, ReadersInv
  <2>3. QED
    BY <1>1, <2>1, <2>2 DEF SetupSucceeds, ReadersInv, All
<1>2. CASE SetupFails
  <2>1. ~ initialized /\ initialized' = initialized /\ throws' = throws + 1
    BY <1>2 DEF SetupFails, Setup, HandlerThrows
  <2>2. /\ receives' \in [Readers -> Nat] /\ received' \in [Readers -> Nat]
        /\ All("v6")' = 0 /\ All("v4")' <= All("v4") + 1
    <3>1. CASE UNCHANGED <<receives, received>>
      BY <3>1 DEF ReadersInv, All
    <3>2. CASE Replace({"v4"}, {})
      <4>1. \A v \in Readers : Cardinality({c \in {} : ReaderFor(Type(c)) = v}) = 0
        BY CallsOf
      <4>2. /\ received' = [v \in Readers |->
                 IF v \in {"v4"} THEN received[v] + receives[v] ELSE received[v]]
            /\ receives' = [v \in Readers |->
                 (IF v \in {"v4"} THEN 0 ELSE receives[v]) + 0]
        BY <3>2, <4>1 DEF Replace
      <4>3. /\ received'["v4"] = received["v4"] + receives["v4"] /\ receives'["v4"] = 0
            /\ received'["v6"] = received["v6"] /\ receives'["v6"] = receives["v6"] + 0
        BY <4>2
      <4>4. \A v \in Readers : receives[v] \in Nat /\ received[v] \in Nat
        BY DEF ReadersInv
      <4>5. receives' \in [Readers -> Nat] /\ received' \in [Readers -> Nat]
        BY <4>2, <4>4
      <4>6. All("v6") = 0
        BY DEF ReadersInv
      <4>7. /\ receives["v4"] \in Nat /\ received["v4"] \in Nat
            /\ receives["v6"] \in Nat /\ received["v6"] \in Nat
        BY <4>4
      <4>8. /\ All("v4") = receives["v4"] + received["v4"]
            /\ All("v6") = receives["v6"] + received["v6"]
            /\ All("v4")' = receives'["v4"] + received'["v4"]
            /\ All("v6")' = receives'["v6"] + received'["v6"]
        BY DEF All
      <4>9. All("v6")' = 0
        BY <4>3, <4>6, <4>7, <4>8
      <4>10. All("v4")' <= All("v4") + 1
        BY <4>3, <4>7, <4>8
      <4>11. QED
        BY <4>5, <4>9, <4>10
    <3>3. CASE Replace(Readers, {"v4"})
      BY <3>3, CallsOf DEF Replace, ReadersInv, All
    <3>4. QED
      BY <1>2, <3>1, <3>2, <3>3 DEF SetupFails
  <2>3. QED
    BY <2>1, <2>2 DEF ReadersInv, All
<1>3. ASSUME NEW v \in Readers, Datagram(v) \/ HandleReceiveFrom(v) PROVE ReadersInv'
  <2>1. v = "v4"
    BY <1>3 DEF Datagram, HandleReceiveFrom, ReadersInv, All
  <2>2. /\ receives' \in [Readers -> Nat] /\ received' \in [Readers -> Nat]
        /\ \A w \in Readers : All(w)' = All(w)
    BY <1>3, <2>1, OneType DEF Datagram, HandleReceiveFrom, Restarted, ReadersInv, All
  <2>3. UNCHANGED <<initialized, throws>>
    BY <1>3 DEF Datagram, HandleReceiveFrom, vars, io
  <2>4. QED
    BY <2>2, <2>3 DEF ReadersInv
<1>4. ASSUME NEW v \in Readers, ArchiveThrows(v) PROVE ReadersInv'
  <2>1. v = "v4"
    BY <1>4 DEF ArchiveThrows, ReadersInv, All
  <2>2. /\ receives' \in [Readers -> Nat] /\ received' \in [Readers -> Nat]
        /\ All("v6")' = 0 /\ All("v4")' <= All("v4")
    BY <1>4, <2>1 DEF ArchiveThrows, ReadersInv, All
  <2>3. initialized' = initialized /\ throws' = throws + 1
    BY <1>4 DEF ArchiveThrows, HandlerThrows
  <2>4. QED
    BY <2>2, <2>3 DEF ReadersInv, All
<1>5. ASSUME UNCHANGED readers PROVE ReadersInv'
  BY <1>0, <1>5, ReadersKept
<1>6. QED
  BY <1>1, <1>2, <1>3, <1>4, <1>5
     DEF TNext, Poll, Outside, TConnect, TRunReturns, Avail, Arrives, HandleSession,
         EndpointThrows, PollCrashes, WorkerReturns, readers, backend, tvars

LEMMA ReadersInvInit == TInit => ReadersInv
<1> SUFFICES ASSUME TInit PROVE ReadersInv
  OBVIOUS
<1>1. /\ throws = 0 /\ initialized = FALSE
      /\ receives = [v \in Readers |-> 0] /\ received = [v \in Readers |-> 0]
  BY DEF TInit, Init
<1>2. throws \in Nat /\ \A v \in Readers : All(v) = 0
  BY <1>1 DEF All
<1>3. All("v6") = 0 /\ All("v4") <= throws
  BY <1>1, <1>2 DEF Readers
<1>4. receives \in [Readers -> Nat] /\ received \in [Readers -> Nat]
  BY <1>1
<1>5. initialized \in BOOLEAN /\ ~ initialized
  BY <1>1
<1>6. QED
  BY <1>2, <1>3, <1>4, <1>5, Zenon DEF ReadersInv

\* As long as no exception has left a Worker, the v4 reader has two receives, waiting
\* or queued, and the v6 reader never has one; each exception can add one, or lose one.
THEOREM OneReaderListensHolds == TSpec => []OneReaderListens
<1>1. ReadersInv => OneReaderListens
  BY DEF ReadersInv, OneReaderListens, All, Readers
<1>2. QED
  BY <1>1, ReadersInvInit, ReadersInvNext, PTL DEF TSpec

-----------------------------------------------------------------------------
(* What is told.  No handler of TCP takes a reference on a row, so that    *)
(* the purge empties the table.                                            *)

FreshInv ==
  /\ purged \in Nat /\ purged <= connectcount
  /\ \A r \in localnodes : r.backendrefcount = 0 /\ r.id > purged
  /\ told \in [Sessions -> Seq(Nat)]

\* The table changes by a connect, a disconnect or the purge (groupcore.cpp:115, 139, 95).
LEMMA TableSteps ==
  ASSUME [TNext]_tvars
  PROVE  \/ UNCHANGED <<localnodes, connectcount>>
         \/ \E alias \in Aliases \cup {NoAlias} : Connect(alias)
         \/ \E node \in issued : Disconnect(node)
         \/ TRunReturns
<1> USE DEF vars, core, io
<1>1. CASE Outside
  BY <1>1 DEF Outside, EmptyHandler, Attach, Write, RunWorker, TimerFires, StopHandler,
              BeginHandler, HandlerReturns, HandlerCrashes, Gone
<1>2. CASE Avail \/ SetupSucceeds \/ SetupFails \/ UNCHANGED tvars
  BY <1>2 DEF Avail, SetupSucceeds, SetupFails, HandlerReturns, HandlerThrows, tvars
<1>3. CASE Poll
  BY <1>3 DEF Poll, Arrives, HandleSession, EndpointThrows, Datagram, HandleReceiveFrom,
              ArchiveThrows, PollCrashes, WorkerReturns, HandlerReturns, HandlerThrows,
              HandlerCrashes
<1>4. QED
  BY <1>1, <1>2, <1>3 DEF TNext, TConnect

\* syncNodeList tells of a row of the table, or of nothing.
LEMMA SyncTellsOfRows ==
  ASSUME NEW s \in Sessions, NEW open, SS!SyncNodeList(s, open)
  PROVE  \/ told' = told
         \/ \E r \in localnodes : told' = [told EXCEPT ![s] = Append(@, r.id)]
<1>1. \A min : \A r \in SS!FirstOf(SS!Candidates(min)) : \E q \in localnodes : r.id = q.id
  BY DEF SS!FirstOf, SS!Candidates, SS!Visited, SS!RangeByCreated, TableRows
<1>2. \/ told' = told
      \/ \E r \in SS!FirstOf(SS!Candidates(synctime[s])) :
           told' = [told EXCEPT ![s] = Append(@, r.id)]
  BY DEF SS!SyncNodeList
<1>3. QED
  BY <1>1, <1>2

\* Only a session that synchronises tells its peer of anything.
LEMMA ToldSteps ==
  ASSUME [TNext]_tvars
  PROVE  \/ told' = told
         \/ \E s \in Sessions : \E r \in localnodes :
              told' = [told EXCEPT ![s] = Append(@, r.id)]
<1>1. CASE HandleSession
  <2>1. PICK s \in Sessions : SS!PollSync(s) \/ SS!PollRefused(s)
    BY <1>1 DEF HandleSession
  <2>2. CASE SS!PollSync(s)
    BY <2>2, SyncTellsOfRows DEF SS!PollSync
  <2>3. CASE SS!PollRefused(s)
    BY <2>3 DEF SS!PollRefused
  <2>4. QED
    BY <2>1, <2>2, <2>3
<1>2. CASE Avail \/ Arrives \/ EndpointThrows
  BY <1>2 DEF Avail, Arrives, EndpointThrows, SS!OnLocalNodeAvailable, SS!UuidArrives,
              SS!SendFinishes, SS!SendFails, SS!session
<1>3. CASE \E v \in Readers : Datagram(v) \/ HandleReceiveFrom(v) \/ ArchiveThrows(v)
  BY <1>3 DEF Datagram, HandleReceiveFrom, ArchiveThrows, session
<1>4. CASE UNCHANGED session
  BY <1>4 DEF session
<1>5. QED
  BY <1>1, <1>2, <1>3, <1>4
     DEF TNext, Poll, Outside, TConnect, TRunReturns, SetupSucceeds, SetupFails,
         PollCrashes, WorkerReturns, backend, tvars

LEMMA FreshInvNext == TypeOK /\ FreshInv /\ [TNext]_tvars => FreshInv'
<1> SUFFICES ASSUME TypeOK, FreshInv, [TNext]_tvars PROVE FreshInv'
  OBVIOUS
<1>1. told' \in [Sessions -> Seq(Nat)]
  <2>1. \A r \in localnodes : r.id \in Nat
    BY DEF TypeOK, Rows
  <2>2. \A s \in Sessions : \A r \in localnodes : Append(told[s], r.id) \in Seq(Nat)
    BY <2>1, AppendProperties DEF FreshInv
  <2>3. ASSUME NEW s \in Sessions, NEW r \in localnodes,
               told' = [told EXCEPT ![s] = Append(@, r.id)]
        PROVE  told' \in [Sessions -> Seq(Nat)]
    BY <2>2, <2>3 DEF FreshInv
  <2>4. QED
    BY <2>3, ToldSteps DEF FreshInv
<1>2. ASSUME ~ TRunReturns PROVE purged' = purged
  BY <1>2 DEF TNext, Poll, Outside, TConnect, Avail, SetupSucceeds, SetupFails, Arrives,
              HandleSession, EndpointThrows, Datagram, HandleReceiveFrom, ArchiveThrows,
              PollCrashes, WorkerReturns, tvars
<1>3. CASE TRunReturns
  <2>1. purged' = connectcount /\ connectcount' = connectcount /\ localnodes' = {}
    BY <1>3 DEF TRunReturns, RunReturns, PurgeNodes, FreshInv
  <2>2. QED
    BY <1>1, <2>1 DEF FreshInv, TypeOK
<1>4. ASSUME NEW alias \in Aliases \cup {NoAlias}, Connect(alias), purged' = purged
      PROVE  FreshInv'
  <2>1. connectcount' = connectcount + 1 /\ connectcount \in Nat
    BY <1>4 DEF Connect, TypeOK
  <2>2. \A r \in localnodes' :
          \/ r \in localnodes
          \/ r.id = connectcount + 1 /\ r.backendrefcount = 0
    BY <1>4 DEF Connect, Insert
  <2>3. QED
    BY <1>1, <1>4, <2>1, <2>2 DEF FreshInv
<1>5. ASSUME NEW node \in issued, Disconnect(node), purged' = purged PROVE FreshInv'
  <2>1. \A r \in localnodes' : \E q \in localnodes :
          r.id = q.id /\ r.backendrefcount = q.backendrefcount
    BY <1>5 DEF Disconnect, TypeOK, Rows
  <2>2. connectcount' = connectcount
    BY <1>5 DEF Disconnect
  <2>3. QED
    BY <1>1, <1>5, <2>1, <2>2 DEF FreshInv
<1>6. CASE UNCHANGED <<localnodes, connectcount, purged>>
  BY <1>1, <1>6 DEF FreshInv
<1>7. QED
  BY <1>2, <1>3, <1>4, <1>5, <1>6, TableSteps

LEMMA FreshInvInit == TInit => TypeOK /\ FreshInv
<1> SUFFICES ASSUME TInit PROVE TypeOK /\ FreshInv
  OBVIOUS
<1>1. Init /\ purged = 0 /\ told = [s \in Sessions |-> <<>>]
  BY DEF TInit
<1>2. connectcount = 0 /\ localnodes = {}
  BY <1>1 DEF Init
<1>3. QED
  BY <1>1, <1>2, TypeInit, EmptySeq DEF FreshInv

\* A peer is told only of nodes that were connected since the last runWorker that
\* returned: what is older is not in the table any more (groupcore.cpp:95).
THEOREM OnlyFreshNodesToldHolds == TSpec => OnlyFreshNodesTold
<1>1. TypeOK /\ [TNext]_tvars => TypeOK'
  BY TcpStep, TypeNext DEF tvars
<1>2. FreshInv /\ [TNext]_tvars
        => [\A s \in Sessions : told'[s] # told[s] => Last(told'[s]) > purged]_tvars
  <2> SUFFICES ASSUME FreshInv, [TNext]_tvars, NEW s \in Sessions, told'[s] # told[s]
               PROVE  Last(told'[s]) > purged
    BY DEF tvars
  <2>1. PICK r \in localnodes : told'[s] = Append(told[s], r.id)
    BY ToldSteps DEF FreshInv
  <2>2. Last(told'[s]) = r.id
    BY <2>1 DEF FreshInv, Last
  <2>3. QED
    BY <2>2 DEF FreshInv
<1>3. QED
  BY <1>1, <1>2, FreshInvInit, FreshInvNext, PTL DEF TSpec, OnlyFreshNodesTold
=============================================================================
