--------------------------- MODULE LoopbackProofs ---------------------------
(***************************************************************************)
(* What GroupCore's theorems say of a group with a loopback; and that a    *)
(* handler of the loopback that announces a node returns from an empty     *)
(* table only.                                                             *)
(***************************************************************************)
EXTENDS Loopback, GroupCoreProofs

\* Every step of a group with a loopback is a step of GroupCore or changes
\* nothing GroupCore has.
LEMMA LoopbackStep == LNext => [Next]_vars
<1>1. Outside => Next
  BY DEF Outside, Next, Running
<1>2. LBegin => Next
  BY DEF LBegin, Next, Running
<1>3. Spin => UNCHANGED vars
  BY DEF Spin, lvars
<1>4. Notify \/ Read => Next
  BY DEF Notify, Read, Next, Running
<1>5. ReadThrows \/ CallbackThrows \/ ReadCrashes \/ Returns => Next
  BY DEF ReadThrows, CallbackThrows, ReadCrashes, Returns, Next, Running
<1>6. Gone => Next
  BY DEF Next
<1>7. QED
  BY <1>1, <1>2, <1>3, <1>4, <1>5, <1>6 DEF LNext

\* So GroupCore's theorems hold of it.
LEMMA LoopbackIsGroupCore == LSpec => Spec
<1>1. LInit => Init
  BY DEF LInit
<1>2. [LNext]_lvars => [Next]_vars
  BY LoopbackStep DEF lvars
<1>3. QED
  BY <1>1, <1>2, PTL DEF LSpec, Spec

\* What GroupCore promises its applications it keeps with a loopback attached: whatever
\* its handlers do, throw or leave undone, calls and stops stay where they belong.
THEOREM LoopbackGroupSafe ==
  LSpec => /\ [](RowsUnique /\ AvailBeforeUnavail /\ NoStaleStop /\ StopsAccounted)
           /\ NothingLost /\ DetachedDrains /\ PurgeFollowsReferences /\ CleanRunWaits
<1>1. Spec => []RowsUnique /\ []AvailBeforeUnavail /\ []NoStaleStop /\ []StopsAccounted
  BY RowsUniqueHolds, AvailBeforeUnavailHolds, NoStaleStopHolds, StopsAccountedHolds
<1>2. Spec => NothingLost /\ DetachedDrains /\ PurgeFollowsReferences /\ CleanRunWaits
  BY NothingLostHolds, DetachedDrainsHolds, PurgeFollowsReferencesHolds, CleanRunWaitsHolds
<1>3. QED
  BY LoopbackIsGroupCore, <1>1, <1>2, PTL

\* An announcement whose iterator is at end() is looking at an empty table.
EmptyInv ==
  phase = "handler" /\ Announcement /\ it = NoNode => localnodes = {}

\* begin() of a table with a row is a row.
LEMMA BeginIsARow ==
  ASSUME TypeOK, NoNode \in Begin PROVE localnodes = {}
<1>1. \A r \in localnodes : r.uuid \in Nodes
  BY DEF TypeOK, Rows
<1>2. NoNode \notin Uuids
  BY <1>1, NoNodeAssumption DEF Uuids, Nodes
<1>3. QED
  BY <1>2 DEF Begin

LEMMA EmptyNext == TypeOK /\ EmptyInv /\ [LNext]_lvars => EmptyInv'
<1> SUFFICES ASSUME TypeOK, EmptyInv, [LNext]_lvars PROVE EmptyInv'
  OBVIOUS
<1>1. ASSUME Outside PROVE EmptyInv'
  <2>1. ASSUME API PROVE EmptyInv'
    <3>1. UserCode /\ UNCHANGED current /\ (phase' = phase \/ phase' = "crashed")
      BY <2>1 DEF API, Attach, Detach, Connect, Disconnect, Write, io
    <3>2. QED
      BY <3>1 DEF EmptyInv, UserCode, Announcement
  <2>2. ASSUME NEW timeout \in BOOLEAN, RunWorker(timeout) PROVE EmptyInv'
    BY <2>2 DEF RunWorker, EmptyInv
  <2>3. ASSUME TimerFires \/ StopHandler \/ RunReturns PROVE EmptyInv'
    BY <2>3 DEF TimerFires, StopHandler, RunReturns, EmptyInv
  <2>4. QED
    BY <1>1, <2>1, <2>2, <2>3 DEF Outside
<1>2. ASSUME LBegin PROVE EmptyInv'
  <2>1. current' = Head(ioq) /\ localnodes' = localnodes
    BY <1>2 DEF LBegin, BeginHandler, core
  <2>2. CASE Head(ioq).op \in {"Avail", "Unavail"}
    BY <1>2, <2>1, <2>2, BeginIsARow DEF LBegin, EmptyInv
  <2>3. CASE Head(ioq).op \notin {"Avail", "Unavail"}
    BY <2>1, <2>3 DEF EmptyInv, Announcement
  <2>4. QED
    BY <2>2, <2>3
<1>3. ASSUME Spin \/ Notify \/ UNCHANGED lvars PROVE EmptyInv'
  BY <1>3 DEF Spin, Notify, PostCallback, lvars, vars, core, io, EmptyInv, Announcement
<1>4. ASSUME Read PROVE EmptyInv'
  BY <1>4 DEF Read, PostCallback, EmptyInv, Announcement
<1>5. ASSUME ReadThrows \/ CallbackThrows \/ ReadCrashes \/ Returns PROVE EmptyInv'
  BY <1>5 DEF ReadThrows, CallbackThrows, ReadCrashes, Returns,
              HandlerThrows, HandlerCrashes, HandlerReturns, EmptyInv
<1>6. ASSUME Gone, UNCHANGED it PROVE EmptyInv'
  BY <1>6 DEF Gone, vars, core, io, EmptyInv, Announcement
<1>7. QED
  BY <1>1, <1>2, <1>3, <1>4, <1>5, <1>6 DEF LNext

\* A step that ends an announcement's handler finds the table empty.
LEMMA ReturnsStep ==
  ASSUME EmptyInv, [LNext]_lvars,
         phase = "handler", Announcement, phase' # "handler"
  PROVE  localnodes = {}
<1>1. Returns
  BY DEF LNext, Outside, API, UserCode, Attach, Detach, Connect, Disconnect, Write,
         RunWorker, TimerFires, StopHandler, RunReturns, LBegin, BeginHandler, Spin,
         Notify, PostCallback, Read, ReadThrows, ReadCrashes, CallbackThrows, Gone,
         lvars, vars, core, io, Announcement
<1>2. QED
  BY <1>1 DEF Returns, AtEnd, EmptyInv

\* With a row in the table an announcement never returns (loopback.cpp:31-43),
\* so that what it posted with pointers to its own argument is never called.
THEOREM ReturnsOnlyWhenEmptyHolds == LSpec => ReturnsOnlyWhenEmpty
<1>1. LSpec => []TypeOK
  BY LoopbackIsGroupCore, TypeCorrect
<1>2. LInit => EmptyInv
  BY DEF LInit, Init, EmptyInv
<1>3. EmptyInv /\ [LNext]_lvars =>
        [phase = "handler" /\ Announcement /\ phase' # "handler" => localnodes = {}]_lvars
  BY ReturnsStep
<1>4. QED
  BY <1>1, <1>2, <1>3, EmptyNext, PTL DEF LSpec, ReturnsOnlyWhenEmpty

\* Such an announcement is the last handler the group ever runs: no timeout, no call and
\* no exception ends it, and the callbacks it posts are never called (the other half of
\* ConnectTriggersCallback's refutation, and for any number of nodes).
THEOREM CaughtForEver == LSpec => [](Caught => []Caught)
<1>1. Caught /\ [LNext]_lvars => Caught'
  <2> SUFFICES ASSUME Caught, [LNext]_lvars PROVE UNCHANGED <<phase, current, it>>
    BY DEF Caught, Announcement
  <2>1. ~ Outside /\ ~ LBegin
    BY DEF Caught, Announcement, Outside, API, UserCode, Attach, Detach, Connect, Disconnect,
           Write, RunWorker, TimerFires, StopHandler, RunReturns, LBegin, BeginHandler
  <2>2. CASE Spin \/ Notify \/ UNCHANGED lvars
    BY <2>2 DEF Spin, Notify, PostCallback, lvars, vars, core, io
  <2>3. ~ Read /\ ~ ReadThrows /\ ~ ReadCrashes /\ ~ CallbackThrows /\ ~ Returns /\ ~ Gone
    BY DEF Caught, Announcement, Read, ReadThrows, ReadCrashes, CallbackThrows, Returns,
           AtEnd, Gone
  <2>4. QED
    BY <2>1, <2>2, <2>3 DEF LNext
<1>2. QED
  BY <1>1, PTL DEF LSpec
=============================================================================
