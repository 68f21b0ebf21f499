--------------------------- MODULE GroupCoreProofs ---------------------------
(***************************************************************************)
(* Theorems about GroupCore, for every set of backends and aliases, every  *)
(* width of the reference count and every bound.                           *)
(*                                                                         *)
(* The invariant is stated as the conjunction of TypeOK and of facts about *)
(* the queue, who a queued io_service::stop belongs to (StopInv, CountInv) *)
(* and which nodes the queued announcements can name (NonceInv), and one   *)
(* about the table, what a reference count still says of the references    *)
(* (HeldInv).                                                              *)
(***************************************************************************)
EXTENDS GroupCore, FiniteSetTheorems, SequenceTheorems, TLAPS

-----------------------------------------------------------------------------
(* Lemmas about the queue.                                                 *)

\* The handlers of one dispatch or post loop: each is the loop's operation on
\* an enabled backend, for the loop's node (the four loops of groupcore.cpp).
LEMMA ForEachEnabledIsQueue ==
  ASSUME TypeOK, NEW op \in {"Worker", "Avail", "Unavail", "Write"},
         NEW n \in Nodes \cup {NoNode},
         NEW hs \in ForEachEnabled(op, n)
  PROVE  /\ hs \in Seq(Handlers)
         /\ \A i \in DOMAIN hs :
              hs[i].op = op /\ hs[i].node = n /\ hs[i].backend \in Enabled
<1>1. PICK o \in SetToSeqs(Enabled) :
        hs = [i \in DOMAIN o |-> Handler(op, o[i], n)]
  BY DEF ForEachEnabled
<1>2. Enabled \subseteq BackendTypes
  BY DEF Enabled
<1>3. Cardinality(Enabled) \in Nat
  BY <1>2, NamesAssumption, FS_Subset, FS_CardinalityType
<1>4. /\ DOMAIN o = 1 .. Cardinality(Enabled)
      /\ \A i \in DOMAIN o : o[i] \in Enabled /\ o[i] \in BackendTypes
  BY <1>2 DEF SetToSeqs
<1>5. \A i \in DOMAIN o : Handler(op, o[i], n) \in Handlers
  BY <1>4 DEF Handler, Handlers
<1>6. hs \in [1 .. Cardinality(Enabled) -> Handlers]
  BY <1>1, <1>4, <1>5
<1>7. hs \in Seq(Handlers)
  BY <1>3, <1>6
<1>8. \A i \in DOMAIN hs :
        hs[i].op = op /\ hs[i].node = n /\ hs[i].backend \in Enabled
  BY <1>1, <1>4 DEF Handler
<1>9. QED
  BY <1>7, <1>8

\* Post keeps the queue a queue of handlers; a position of the result is one of
\* the old queue or one of the posted handlers, behind every old one.
LEMMA PostPositions ==
  ASSUME NEW q \in Seq(Handlers), NEW s \in Seq(Handlers)
  PROVE  /\ Post(q, s) \in Seq(Handlers)
         /\ \A i \in DOMAIN Post(q, s) :
              \/ i \in DOMAIN q /\ Post(q, s)[i] = q[i]
              \/ i \in Nat /\ i > Len(q) /\ i - Len(q) \in DOMAIN s
                 /\ Post(q, s)[i] = s[i - Len(q)]
<1>1. /\ Post(q, s) \in Seq(Handlers)
      /\ Len(Post(q, s)) = Len(q) + Len(s)
      /\ \A i \in 1 .. Len(q) + Len(s) :
           Post(q, s)[i] = IF i <= Len(q) THEN q[i] ELSE s[i - Len(q)]
  BY ConcatProperties DEF Post
<1>2. /\ DOMAIN Post(q, s) = 1 .. Len(Post(q, s))
      /\ DOMAIN q = 1 .. Len(q) /\ DOMAIN s = 1 .. Len(s)
      /\ Len(q) \in Nat /\ Len(s) \in Nat
  BY <1>1
<1>3. QED
  BY <1>1, <1>2

\* The same for one handler put at the end, as the timer and LocalNode do.
LEMMA AppendPositions ==
  ASSUME NEW q \in Seq(Handlers), NEW h \in Handlers
  PROVE  /\ Append(q, h) \in Seq(Handlers)
         /\ \A i \in DOMAIN Append(q, h) :
              \/ i \in DOMAIN q /\ Append(q, h)[i] = q[i]
              \/ i = Len(q) + 1 /\ Append(q, h)[i] = h
         /\ DOMAIN q = 1 .. Len(q) /\ Len(q) \in Nat
<1>1. /\ Append(q, h) \in Seq(Handlers)
      /\ Len(Append(q, h)) = Len(q) + 1
      /\ \A i \in 1 .. Len(q) : Append(q, h)[i] = q[i]
      /\ Append(q, h)[Len(q) + 1] = h
  BY AppendProperties
<1>2. /\ DOMAIN Append(q, h) = 1 .. Len(q) + 1
      /\ DOMAIN q = 1 .. Len(q) /\ Len(q) \in Nat
  BY <1>1
<1>3. QED
  BY <1>1, <1>2

\* do_run_one takes the head: what is left are the old positions but the first.
LEMMA TailPositions ==
  ASSUME NEW q \in Seq(Handlers), q # <<>>
  PROVE  /\ Tail(q) \in Seq(Handlers) /\ Head(q) \in Handlers
         /\ Head(q) = q[1] /\ 1 \in DOMAIN q
         /\ \A i \in DOMAIN Tail(q) :
              i \in Nat \ {0} /\ i + 1 \in DOMAIN q /\ Tail(q)[i] = q[i + 1]
<1>1. /\ Tail(q) \in Seq(Handlers) /\ Head(q) \in Handlers
      /\ Len(Tail(q)) = Len(q) - 1
      /\ \A i \in 1 .. Len(Tail(q)) : Tail(q)[i] = q[i + 1]
  BY HeadTailProperties
<1>2. /\ DOMAIN q = 1 .. Len(q) /\ Len(q) \in Nat \ {0}
      /\ DOMAIN Tail(q) = 1 .. Len(q) - 1
  BY <1>1, EmptySeq
<1>3. QED
  BY <1>1, <1>2

\* The two handlers that belong to no backend are handlers.
LEMMA StopIsHandler == Stop \in Handlers /\ Callback \in Handlers /\ Callback # Stop
  BY DEF Stop, Callback, Handler, Handlers

\* A reference count stays a uint16_t, and differs from what it should be by whole turns
\* of the counter only.
LEMMA AddRefIsCount ==
  ASSUME NEW c \in 0 .. (RefModulus - 1), NEW by \in {1, -1}
  PROVE  /\ AddRef(c, by) \in 0 .. (RefModulus - 1)
         /\ \E j \in Int : c + by = AddRef(c, by) + j * RefModulus
<1> DEFINE j == (c + by) \div RefModulus
<1>1. RefModulus \in Nat \ {0} /\ c + by \in Int
  BY BoundsAssumption
<1>2. AddRef(c, by) \in 0 .. (RefModulus - 1)
  BY <1>1 DEF AddRef
<1>3. j \in Int /\ c + by = AddRef(c, by) + j * RefModulus
  BY <1>1 DEF AddRef
<1>4. QED
  BY <1>2, <1>3

-----------------------------------------------------------------------------
(* Type correctness.                                                       *)

LEMMA TypeInit == Init => TypeOK
<1> SUFFICES ASSUME Init PROVE TypeOK
  OBVIOUS
<1>1. ioq \in Seq(Handlers) /\ sendqueue \in Seq(SUBSET BackendTypes)
  BY EmptySeq DEF Init
<1>2. current \in Handlers
  BY StopIsHandler DEF Init
<1>3. held \in [1 .. MaxConnects -> Int]
  BY DEF Init
<1>4. QED
  BY <1>1, <1>2, <1>3 DEF Init, TypeOK

LEMMA TypeNext == TypeOK /\ [Next]_vars => TypeOK'
<1> SUFFICES ASSUME TypeOK, [Next]_vars PROVE TypeOK'
  OBVIOUS
<1> USE DEF core, io
<1>1. ASSUME NEW b \in BackendTypes, Attach(b) \/ Detach(b) PROVE TypeOK'
  BY <1>1 DEF Attach, Detach, TypeOK
<1>2. ASSUME NEW alias \in Aliases \cup {NoAlias}, Connect(alias) PROVE TypeOK'
  <2>1. NewNode(alias) \in Nodes
    BY DEF TypeOK, NewNode, Nodes
  <2>2. ioq' \in Seq(Handlers)
    BY <1>2, <2>1, ForEachEnabledIsQueue, PostPositions DEF Connect, TypeOK
  <2>3. localnodes' \subseteq Rows
    <3>1. [id |-> connectcount + 1, uuid |-> NewNode(alias),
           connected |-> TRUE, backendrefcount |-> 0] \in Rows
      BY <2>1, BoundsAssumption DEF TypeOK, Rows
    <3>2. QED
      BY <1>2, <3>1 DEF Connect, TypeOK, Insert
  <2>4. connectcount' \in Nat /\ issued' \subseteq Nodes
    BY <1>2, <2>1 DEF Connect, TypeOK
  <2>5. UNCHANGED <<backends, sendqueue, held, stopped, timer, phase, current, throws>>
    BY <1>2 DEF Connect
  <2>6. QED
    BY <2>2, <2>3, <2>4, <2>5 DEF TypeOK
<1>3. ASSUME NEW node \in issued, Disconnect(node) PROVE TypeOK'
  <2>1. node \in Nodes
    BY DEF TypeOK
  <2>2. ioq' \in Seq(Handlers)
    BY <1>3, <2>1, ForEachEnabledIsQueue, PostPositions DEF Disconnect, TypeOK
  <2>3. localnodes' \subseteq Rows
    BY <1>3 DEF Disconnect, TypeOK, Rows
  <2>4. QED
    BY <1>3, <2>2, <2>3 DEF Disconnect, TypeOK
<1>4. ASSUME Write PROVE TypeOK'
  <2>1. sendqueue' \in Seq(SUBSET BackendTypes)
    <3>1. Enabled \in SUBSET BackendTypes
      BY DEF Enabled
    <3>2. QED
      BY <1>4, <3>1, AppendProperties DEF Write, TypeOK
  <2>2. ioq' \in Seq(Handlers)
    BY <1>4, ForEachEnabledIsQueue, PostPositions DEF Write, TypeOK
  <2>3. QED
    BY <1>4, <2>1, <2>2 DEF Write, TypeOK
<1>5. ASSUME NEW timeout \in BOOLEAN, RunWorker(timeout) PROVE TypeOK'
  <2>1. ioq' \in Seq(Handlers)
    BY <1>5, ForEachEnabledIsQueue, PostPositions DEF RunWorker, TypeOK
  <2>2. stopped' \in BOOLEAN
    BY <1>5 DEF RunWorker, StoppedAtRun, NoWork
  <2>3. QED
    BY <1>5, <2>1, <2>2 DEF RunWorker, TypeOK
<1>6. ASSUME TimerFires PROVE TypeOK'
  BY <1>6, StopIsHandler, AppendPositions DEF TimerFires, TypeOK
<1>7. ASSUME StopHandler \/ BeginHandler PROVE TypeOK'
  BY <1>7, TailPositions DEF StopHandler, BeginHandler, TypeOK
<1>8. ASSUME PostCallback PROVE TypeOK'
  BY <1>8, StopIsHandler, AppendPositions DEF PostCallback, TypeOK
<1>9. ASSUME NEW row \in localnodes,
             ChangeRef(row.id, 1) \/ ChangeRef(row.id, -1)
      PROVE TypeOK'
  <2>1. PICK by \in {1, -1} : ChangeRef(row.id, by)
    BY <1>9
  <2>2. \A r \in localnodes :
          [r EXCEPT !.backendrefcount = AddRef(@, by)] \in Rows
    BY AddRefIsCount DEF TypeOK, Rows
  <2>3. localnodes' \subseteq Rows
    BY <2>1, <2>2 DEF ChangeRef, TypeOK
  <2>4. held' \in [1 .. MaxConnects -> Int]
    <3>1. held' = [held EXCEPT ![row.id] = @ + by] /\ held \in [1 .. MaxConnects -> Int]
      BY <2>1 DEF ChangeRef, TypeOK
    <3>2. by \in Int
      OBVIOUS
    <3>3. \A i \in 1 .. MaxConnects : held'[i] \in {held[i] + by, held[i]}
      BY <3>1
    <3>4. DOMAIN held' = 1 .. MaxConnects /\ \A i \in 1 .. MaxConnects : held'[i] \in Int
      BY <3>1, <3>2, <3>3
    <3>5. held' = [i \in 1 .. MaxConnects |-> held'[i]]
      BY <3>1
    <3>6. QED
      BY <3>4, <3>5
  <2>5. QED
    BY <2>1, <2>3, <2>4 DEF ChangeRef, TypeOK
<1>10. ASSUME HandlerReturns PROVE TypeOK'
  BY <1>10, StopIsHandler DEF HandlerReturns, NoWork, TypeOK
<1>11. ASSUME HandlerThrows PROVE TypeOK'
  BY <1>11, StopIsHandler, AppendPositions
     DEF HandlerThrows, NoWork, ReleaseTimer, TypeOK
<1>12. ASSUME HandlerCrashes PROVE TypeOK'
  BY <1>12 DEF HandlerCrashes, TypeOK
<1>13. ASSUME RunReturns PROVE TypeOK'
  <2>1. ioq' \in Seq(Handlers)
    BY <1>13, StopIsHandler, AppendPositions DEF RunReturns, ReleaseTimer, TypeOK
  <2>2. /\ localnodes' \subseteq Rows
        /\ backends' \in [BackendTypes -> {"absent", "enabled", "disabled"}]
    BY <1>13 DEF RunReturns, PurgeNodes, PurgeBackends, TypeOK
  <2>3. QED
    BY <1>13, <2>1, <2>2 DEF RunReturns, TypeOK
<1>14. ASSUME UNCHANGED vars PROVE TypeOK'
  BY <1>14 DEF vars, TypeOK
<1>15. QED
  BY <1>1, <1>2, <1>3, <1>4, <1>5, <1>6, <1>7, <1>8, <1>9, <1>10, <1>11,
     <1>12, <1>13, <1>14 DEF Next, API, Running, Gone

\* Every reachable state of the core is well typed: in particular the reference
\* count of a row never leaves uint16_t and the queue holds handlers only.
THEOREM TypeCorrect == Spec => []TypeOK
<1>1. QED
  BY TypeInit, TypeNext, PTL DEF Spec

-----------------------------------------------------------------------------
(* The timer of a run.  As long as nothing threw, a queued stop is the only *)
(* one and belongs to the run in progress; a run that is stopped has        *)
(* consumed it, or never armed its timer, or is left without work.          *)

StopInv ==
  throws = 0 =>
    /\ \A i \in DOMAIN ioq : ioq[i] = Stop => timer = "fired" /\ phase # "idle"
    /\ \A i, j \in DOMAIN ioq : ioq[i] = Stop /\ ioq[j] = Stop => i = j
    /\ stopped /\ phase = "running" =>
         timer # "armed" /\ \A i \in DOMAIN ioq : ioq[i] # Stop

LEMMA StopInvInit == Init => StopInv
  BY DEF Init, StopInv

\* Posting handlers other than Stop disturbs nothing StopInv says of the queue.
LEMMA PostKeepsStops ==
  ASSUME NEW q \in Seq(Handlers), NEW s \in Seq(Handlers),
         \A i \in DOMAIN s : s[i] # Stop
  PROVE  \A i \in DOMAIN Post(q, s) :
           Post(q, s)[i] = Stop => i \in DOMAIN q /\ q[i] = Stop
  BY PostPositions

\* None of the four loops posts a Stop.
LEMMA LoopsPostNoStop ==
  ASSUME TypeOK, NEW op \in {"Worker", "Avail", "Unavail", "Write"},
         NEW n \in Nodes \cup {NoNode},
         NEW hs \in ForEachEnabled(op, n)
  PROVE  hs \in Seq(Handlers) /\ \A i \in DOMAIN hs : hs[i] # Stop
  BY ForEachEnabledIsQueue DEF Stop, Handler

\* A step outside running that only adds handlers other than Stop.
LEMMA StopInvKept ==
  ASSUME StopInv, throws' = throws, timer' = timer,
         phase' # "running", phase' = "idle" => phase = "idle",
         \A i \in DOMAIN ioq' : ioq'[i] = Stop => i \in DOMAIN ioq /\ ioq[i] = Stop
  PROVE  StopInv'
  BY DEF StopInv

LEMMA StopInvNext == TypeOK /\ StopInv /\ [Next]_vars => StopInv'
<1> SUFFICES ASSUME TypeOK, StopInv, [Next]_vars PROVE StopInv'
  OBVIOUS
<1> USE DEF core, io
<1>0. ioq \in Seq(Handlers)
  BY DEF TypeOK
<1>1. ASSUME NEW b \in BackendTypes, Attach(b) \/ Detach(b) PROVE StopInv'
  BY <1>1 DEF Attach, Detach, StopInv
<1>2. ASSUME NEW alias \in Aliases \cup {NoAlias}, Connect(alias) PROVE StopInv'
  <2>1. NewNode(alias) \in Nodes
    BY DEF TypeOK, NewNode, Nodes
  <2>2. PICK hs \in ForEachEnabled("Avail", NewNode(alias)) : ioq' = Post(ioq, hs)
    BY <1>2 DEF Connect
  <2>3. \A i \in DOMAIN ioq' : ioq'[i] = Stop => i \in DOMAIN ioq /\ ioq[i] = Stop
    BY <1>0, <2>1, <2>2, LoopsPostNoStop, PostKeepsStops
  <2>4. UNCHANGED <<throws, timer, phase>> /\ phase # "running"
    BY <1>2 DEF Connect, UserCode
  <2>5. QED
    BY <2>3, <2>4, StopInvKept
<1>3. ASSUME NEW node \in issued, Disconnect(node) PROVE StopInv'
  <2>1. node \in Nodes
    BY DEF TypeOK
  <2>2. PICK hs \in ForEachEnabled("Unavail", node) : ioq' = Post(ioq, hs)
    BY <1>3 DEF Disconnect
  <2>3. \A i \in DOMAIN ioq' : ioq'[i] = Stop => i \in DOMAIN ioq /\ ioq[i] = Stop
    BY <1>0, <2>1, <2>2, LoopsPostNoStop, PostKeepsStops
  <2>4. UNCHANGED <<throws, timer, phase>> /\ phase # "running"
    BY <1>3 DEF Disconnect, UserCode
  <2>5. QED
    BY <2>3, <2>4, StopInvKept
<1>4. ASSUME Write PROVE StopInv'
  <2>1. \A i \in DOMAIN ioq' : ioq'[i] = Stop => i \in DOMAIN ioq /\ ioq[i] = Stop
    BY <1>0, <1>4, LoopsPostNoStop, PostKeepsStops DEF Write
  <2>2. UNCHANGED <<throws, timer>> /\ phase # "running" /\ phase' \in {phase, "crashed"}
    BY <1>4 DEF Write, UserCode
  <2>3. QED
    BY <2>1, <2>2, StopInvKept
<1>5. ASSUME NEW timeout \in BOOLEAN, RunWorker(timeout) PROVE StopInv'
  <2>1. PICK hs \in ForEachEnabled("Worker", NoNode) :
          ioq' = Post(ioq, hs) /\ stopped' = NoWork(ioq', timer')
    BY <1>5 DEF RunWorker, StoppedAtRun
  <2>2. \A i \in DOMAIN ioq' : ioq'[i] = Stop => i \in DOMAIN ioq /\ ioq[i] = Stop
    BY <1>0, <2>1, LoopsPostNoStop, PostKeepsStops
  <2>3. throws = 0 => \A i \in DOMAIN ioq : ioq[i] # Stop
    BY <1>5 DEF RunWorker, StopInv
  <2>4. throws' = throws /\ (stopped' => timer' # "armed")
    BY <1>5, <2>1 DEF RunWorker, NoWork
  <2>5. QED
    BY <2>2, <2>3, <2>4 DEF StopInv
<1>6. ASSUME TimerFires PROVE StopInv'
  <2>1. throws = 0 => \A i \in DOMAIN ioq : ioq[i] # Stop
    BY <1>6 DEF TimerFires, StopInv
  <2>2. \A i \in DOMAIN ioq' : \/ i \in DOMAIN ioq /\ ioq'[i] = ioq[i]
                               \/ i = Len(ioq) + 1
    BY <1>0, <1>6, StopIsHandler, AppendPositions DEF TimerFires
  <2>3. throws = 0 => ~ stopped
    BY <1>6 DEF TimerFires, StopInv, TypeOK
  <2>4. QED
    BY <1>6, <2>1, <2>2, <2>3 DEF TimerFires, StopInv
<1>7. ASSUME StopHandler PROVE StopInv'
  <2>1. /\ Tail(ioq) = ioq' /\ ioq[1] = Stop /\ 1 \in DOMAIN ioq
        /\ \A i \in DOMAIN ioq' :
             i \in Nat \ {0} /\ i + 1 \in DOMAIN ioq /\ ioq'[i] = ioq[i + 1]
    BY <1>0, <1>7, TailPositions DEF StopHandler
  <2>2. throws = 0 => \A i \in DOMAIN ioq' : ioq'[i] # Stop
    BY <2>1 DEF StopInv
  <2>3. throws = 0 => timer = "fired"
    BY <2>1 DEF StopInv
  <2>4. QED
    BY <1>7, <2>2, <2>3 DEF StopHandler, StopInv
<1>8. ASSUME BeginHandler PROVE StopInv'
  <2>1. \A i \in DOMAIN ioq' :
          i \in Nat \ {0} /\ i + 1 \in DOMAIN ioq /\ ioq'[i] = ioq[i + 1]
    BY <1>0, <1>8, TailPositions DEF BeginHandler
  <2>2. throws' = throws /\ timer' = timer /\ phase' = "handler"
    BY <1>8 DEF BeginHandler
  <2>3. QED
    BY <2>1, <2>2 DEF StopInv
<1>9. ASSUME PostCallback PROVE StopInv'
  <2>1. \A i \in DOMAIN ioq' : ioq'[i] = Stop => i \in DOMAIN ioq /\ ioq[i] = Stop
    BY <1>0, <1>9, StopIsHandler, AppendPositions DEF PostCallback
  <2>2. UNCHANGED <<throws, timer, phase>> /\ phase # "running"
    BY <1>9 DEF PostCallback, InBackend
  <2>3. QED
    BY <2>1, <2>2, StopInvKept
<1>10. ASSUME NEW id, NEW by, ChangeRef(id, by) PROVE StopInv'
  BY <1>10 DEF ChangeRef, StopInv
<1>11. ASSUME HandlerReturns PROVE StopInv'
  <2>1. stopped' => ioq = <<>> /\ timer # "armed"
    BY <1>11 DEF HandlerReturns, NoWork
  <2>2. ioq' = ioq /\ throws' = throws /\ timer' = timer /\ phase' = "running"
    BY <1>11 DEF HandlerReturns
  <2>3. QED
    BY <2>1, <2>2 DEF StopInv
<1>12. ASSUME HandlerThrows PROVE StopInv'
  BY <1>12 DEF HandlerThrows, StopInv, TypeOK
<1>13. ASSUME HandlerCrashes PROVE StopInv'
  BY <1>13 DEF HandlerCrashes, StopInv
<1>14. ASSUME RunReturns PROVE StopInv'
  <2>1. throws = 0 => timer # "armed" /\ \A i \in DOMAIN ioq : ioq[i] # Stop
    BY <1>14 DEF RunReturns, StopInv
  <2>2. throws' = throws /\ phase' = "idle" /\ (timer # "armed" => ioq' = ioq)
    BY <1>14 DEF RunReturns, ReleaseTimer
  <2>3. QED
    BY <2>1, <2>2 DEF StopInv
<1>15. ASSUME UNCHANGED vars PROVE StopInv'
  BY <1>15 DEF vars, StopInv
<1>16. QED
  BY <1>1, <1>2, <1>3, <1>4, <1>5, <1>6, <1>7, <1>8, <1>9, <1>10, <1>11,
     <1>12, <1>13, <1>14, <1>15 DEF Next, API, Running, Gone

\* While nothing threw, no stop of an earlier run is queued: a run can only be
\* cut short by its own timer (groupcore.cpp:74-87).
THEOREM NoStaleStopHolds == Spec => []NoStaleStop
<1>1. StopInv => NoStaleStop
  BY DEF StopInv, NoStaleStop
<1>2. QED
  BY <1>1, TypeInit, TypeNext, StopInvInit, StopInvNext, PTL DEF Spec

\* While nothing threw, a timed runWorker that returns waited for its timer.
THEOREM CleanRunWaitsHolds == Spec => CleanRunWaits
<1>1. TypeOK /\ StopInv /\ [Next]_vars =>
        [throws = 0 /\ RunReturns => timer # "armed"]_vars
  BY DEF StopInv, RunReturns
<1>2. QED
  BY <1>1, TypeInit, TypeNext, StopInvInit, StopInvNext, PTL DEF Spec, CleanRunWaits

-----------------------------------------------------------------------------
(* What a step may do to the queue: add handlers at its end, of enabled    *)
(* backends or of none, or take the head.                                  *)

Grows(q, r) ==
  /\ \A i \in DOMAIN q : i \in DOMAIN r /\ r[i] = q[i]
  /\ \A i \in DOMAIN r : i \in DOMAIN q \/ r[i].backend \in Enabled \cup {NoBackend}

LosesHead(q, r) ==
  /\ \A i \in DOMAIN q : i > 1 => i - 1 \in DOMAIN r /\ r[i - 1] = q[i]
  /\ \A i \in DOMAIN r : i \in Nat \ {0} /\ i + 1 \in DOMAIN q /\ r[i] = q[i + 1]

LEMMA PostGrows ==
  ASSUME NEW q \in Seq(Handlers), NEW s \in Seq(Handlers),
         \A i \in DOMAIN s : s[i].backend \in Enabled
  PROVE  Grows(q, Post(q, s))
<1>1. /\ Len(Post(q, s)) = Len(q) + Len(s) /\ Post(q, s) \in Seq(Handlers)
      /\ \A i \in 1 .. Len(q) + Len(s) :
           Post(q, s)[i] = IF i <= Len(q) THEN q[i] ELSE s[i - Len(q)]
  BY ConcatProperties DEF Post
<1>2. /\ DOMAIN Post(q, s) = 1 .. Len(q) + Len(s)
      /\ DOMAIN q = 1 .. Len(q) /\ Len(q) \in Nat /\ Len(s) \in Nat
  BY <1>1
<1>3. \A i \in DOMAIN q : i \in DOMAIN Post(q, s) /\ Post(q, s)[i] = q[i]
  BY <1>1, <1>2
<1>4. QED
  BY <1>3, PostPositions DEF Grows

LEMMA AppendGrows ==
  ASSUME NEW q \in Seq(Handlers), NEW h \in Handlers, h.backend = NoBackend
  PROVE  Grows(q, Append(q, h))
<1>1. /\ Append(q, h) \in Seq(Handlers)
      /\ Len(Append(q, h)) = Len(q) + 1
      /\ \A i \in 1 .. Len(q) : Append(q, h)[i] = q[i]
  BY AppendProperties
<1>2. \A i \in DOMAIN q : i \in DOMAIN Append(q, h) /\ Append(q, h)[i] = q[i]
  BY <1>1
<1>3. QED
  BY <1>2, AppendPositions DEF Grows

LEMMA TailLosesHead ==
  ASSUME NEW q \in Seq(Handlers), q # <<>>
  PROVE  LosesHead(q, Tail(q))
<1>1. /\ Tail(q) \in Seq(Handlers)
      /\ Len(Tail(q)) = Len(q) - 1
      /\ \A i \in 1 .. Len(Tail(q)) : Tail(q)[i] = q[i + 1]
  BY HeadTailProperties
<1>2. /\ DOMAIN q = 1 .. Len(q) /\ Len(q) \in Nat \ {0}
      /\ DOMAIN Tail(q) = 1 .. Len(q) - 1
  BY <1>1, EmptySeq
<1>3. \A i \in DOMAIN q : i > 1 => i - 1 \in DOMAIN Tail(q) /\ Tail(q)[i - 1] = q[i]
  BY <1>1, <1>2
<1>4. QED
  BY <1>3, TailPositions DEF LosesHead

\* Only a run that is not stopped takes a handler off the queue; whatever joins it is
\* of a backend that is enabled, or of none.
LEMMA QueueStep ==
  ASSUME TypeOK, [Next]_vars
  PROVE  \/ Grows(ioq, ioq')
         \/ phase = "running" /\ ~ stopped /\ LosesHead(ioq, ioq')
<1> USE DEF core, io
<1>0. ioq \in Seq(Handlers)
  BY DEF TypeOK
<1>1. ASSUME NEW op \in {"Worker", "Avail", "Unavail", "Write"},
             NEW n \in Nodes \cup {NoNode},
             NEW hs \in ForEachEnabled(op, n), ioq' = Post(ioq, hs)
      PROVE  Grows(ioq, ioq')
  BY <1>0, <1>1, ForEachEnabledIsQueue, PostGrows
<1>2. ASSUME NEW h \in {Stop, Callback}, ioq' = Append(ioq, h)
      PROVE  Grows(ioq, ioq')
  <2>1. h \in Handlers /\ h.backend = NoBackend
    BY StopIsHandler DEF Stop, Callback, Handler
  <2>2. QED
    BY <1>0, <1>2, <2>1, AppendGrows
<1>3. ASSUME UNCHANGED ioq PROVE Grows(ioq, ioq')
  BY <1>3 DEF Grows
<1>4. ASSUME NEW alias \in Aliases \cup {NoAlias}, Connect(alias)
      PROVE  Grows(ioq, ioq')
  <2>1. NewNode(alias) \in Nodes
    BY DEF TypeOK, NewNode, Nodes
  <2>2. QED
    BY <1>1, <1>4, <2>1 DEF Connect
<1>5. ASSUME NEW node \in issued, Disconnect(node) PROVE Grows(ioq, ioq')
  <2>1. node \in Nodes
    BY DEF TypeOK
  <2>2. QED
    BY <1>1, <1>5, <2>1 DEF Disconnect
<1>6. ASSUME Write \/ \E timeout \in BOOLEAN : RunWorker(timeout)
      PROVE  Grows(ioq, ioq')
  <2>1. CASE Write
    BY <1>1, <1>3, <2>1 DEF Write
  <2>2. ASSUME NEW timeout \in BOOLEAN, RunWorker(timeout) PROVE Grows(ioq, ioq')
    BY <1>1, <2>2 DEF RunWorker
  <2>3. QED
    BY <1>6, <2>1, <2>2
<1>7. ASSUME TimerFires \/ PostCallback \/ HandlerThrows \/ RunReturns
      PROVE  Grows(ioq, ioq')
  BY <1>2, <1>3, <1>7
     DEF TimerFires, PostCallback, HandlerThrows, RunReturns, ReleaseTimer
<1>8. ASSUME StopHandler \/ BeginHandler
      PROVE  phase = "running" /\ ~ stopped /\ LosesHead(ioq, ioq')
  BY <1>0, <1>8, TailLosesHead DEF StopHandler, BeginHandler
<1>9. QED
  BY <1>3, <1>4, <1>5, <1>6, <1>7, <1>8
     DEF Next, API, Running, Gone, vars, Attach, Detach, ChangeRef,
         HandlerReturns, HandlerCrashes

\* Whatever the calls, the timeouts and the exceptions, a queued handler is not lost and
\* not overtaken (the safety that Delivered rests on, groupcore.cpp:83-88).
THEOREM NothingLostHolds == Spec => NothingLost
<1>1. ASSUME TypeOK, [Next]_vars, NEW i \in DOMAIN ioq
      PROVE  \/ i \in DOMAIN ioq' /\ ioq'[i] = ioq[i]
             \/ /\ phase = "running" /\ ~ stopped
                /\ i > 1 => i - 1 \in DOMAIN ioq' /\ ioq'[i - 1] = ioq[i]
  BY <1>1, QueueStep DEF Grows, LosesHead
<1>2. TypeOK /\ [Next]_vars =>
        [\A i \in DOMAIN ioq :
           \/ i \in DOMAIN ioq' /\ ioq'[i] = ioq[i]
           \/ /\ phase = "running" /\ ~ stopped
              /\ i > 1 => i - 1 \in DOMAIN ioq' /\ ioq'[i - 1] = ioq[i]]_vars
  BY <1>1
<1>3. QED
  BY <1>2, TypeInit, TypeNext, PTL DEF Spec, NothingLost

\* A detached backend is handed nothing new until it is attached again: its handlers
\* leave in order and none joins them (groupcore.cpp:31, 67, 120, 199).
THEOREM DetachedDrainsHolds == Spec => DetachedDrains
<1>1. ASSUME TypeOK, [Next]_vars, NEW b \in BackendTypes, backends[b] # "enabled"
      PROVE  OnlyDrains(b, ioq, ioq')
  <2>0. ioq \in Seq(Handlers) /\ DOMAIN ioq = 1 .. Len(ioq) /\ Len(ioq) \in Nat
    BY <1>1 DEF TypeOK
  <2>1. b \notin Enabled \cup {NoBackend}
    BY <1>1, NamesAssumption DEF Enabled
  <2>2. DOMAIN ioq' \subseteq Nat
    <3>1. ioq' \in Seq(Handlers)
      BY <1>1, TypeNext DEF TypeOK
    <3>2. QED
      BY <3>1
  <2>3. CASE Grows(ioq, ioq')
    <3>1. /\ \A i \in DOMAIN ioq' :
               ioq'[i].backend = b => i + 0 \in DOMAIN ioq /\ ioq[i + 0] = ioq'[i]
          /\ \A i \in DOMAIN ioq :
               ioq[i].backend = b /\ i > 0
               => i - 0 \in DOMAIN ioq' /\ ioq'[i - 0] = ioq[i]
      BY <2>0, <2>1, <2>2, <2>3 DEF Grows
    <3>2. QED
      BY <3>1 DEF OnlyDrains
  <2>4. CASE LosesHead(ioq, ioq')
    <3>1. /\ \A i \in DOMAIN ioq' :
               ioq'[i].backend = b => i + 1 \in DOMAIN ioq /\ ioq[i + 1] = ioq'[i]
          /\ \A i \in DOMAIN ioq :
               ioq[i].backend = b /\ i > 1
               => i - 1 \in DOMAIN ioq' /\ ioq'[i - 1] = ioq[i]
      BY <2>4 DEF LosesHead
    <3>2. QED
      BY <3>1 DEF OnlyDrains
  <2>5. QED
    BY <1>1, <2>3, <2>4, QueueStep
<1>2. TypeOK /\ [Next]_vars =>
        [\A b \in BackendTypes : backends[b] # "enabled" => OnlyDrains(b, ioq, ioq')]_vars
  BY <1>1
<1>3. QED
  BY <1>2, TypeInit, TypeNext, PTL DEF Spec, DetachedDrains

-----------------------------------------------------------------------------
(* The node table.                                                         *)

LEMMA RowsUniqueNext == TypeOK /\ RowsUnique /\ [Next]_vars => RowsUnique'
<1> SUFFICES ASSUME TypeOK, RowsUnique, [Next]_vars PROVE RowsUnique'
  OBVIOUS
<1> USE DEF core, io
<1>1. CASE UNCHANGED localnodes
  BY <1>1 DEF RowsUnique
<1>2. ASSUME NEW alias \in Aliases \cup {NoAlias}, Connect(alias) PROVE RowsUnique'
  BY <1>2 DEF Connect, Insert, RowsUnique
<1>3. ASSUME NEW node \in issued, Disconnect(node) PROVE RowsUnique'
  <2> SUFFICES ASSUME NEW r \in localnodes', NEW t \in localnodes',
                      r.id = t.id \/ r.uuid = t.uuid
               PROVE  r = t
    BY DEF RowsUnique
  <2>1. PICK s \in localnodes : r = IF s.uuid = node
                                 THEN [s EXCEPT !.connected = FALSE] ELSE s
    BY <1>3 DEF Disconnect
  <2>2. PICK u \in localnodes : t = IF u.uuid = node
                                 THEN [u EXCEPT !.connected = FALSE] ELSE u
    BY <1>3 DEF Disconnect
  <2>3. s.id = r.id /\ s.uuid = r.uuid /\ u.id = t.id /\ u.uuid = t.uuid
    BY <2>1, <2>2 DEF TypeOK, Rows
  <2>4. s = u
    BY <2>3 DEF RowsUnique
  <2>5. QED
    BY <2>1, <2>2, <2>4
<1>4. ASSUME NEW id, NEW by, ChangeRef(id, by) PROVE RowsUnique'
  <2> SUFFICES ASSUME NEW r \in localnodes', NEW t \in localnodes',
                      r.id = t.id \/ r.uuid = t.uuid
               PROVE  r = t
    BY DEF RowsUnique
  <2>1. PICK s \in localnodes : r = IF s.id = id
              THEN [s EXCEPT !.backendrefcount = AddRef(@, by)] ELSE s
    BY <1>4 DEF ChangeRef
  <2>2. PICK u \in localnodes : t = IF u.id = id
              THEN [u EXCEPT !.backendrefcount = AddRef(@, by)] ELSE u
    BY <1>4 DEF ChangeRef
  <2>3. s.id = r.id /\ s.uuid = r.uuid /\ u.id = t.id /\ u.uuid = t.uuid
    BY <2>1, <2>2 DEF TypeOK, Rows, AddRef
  <2>4. s = u
    BY <2>3 DEF RowsUnique
  <2>5. QED
    BY <2>1, <2>2, <2>4
<1>5. ASSUME RunReturns PROVE RowsUnique'
  BY <1>5 DEF RunReturns, PurgeNodes, RowsUnique
<1>6. QED
  BY <1>1, <1>2, <1>3, <1>4, <1>5
     DEF Next, API, Running, Gone, vars, Attach, Detach, Write, RunWorker,
         TimerFires, StopHandler, BeginHandler, PostCallback, HandlerReturns,
         HandlerThrows, HandlerCrashes

\* The DAO's lookups by id and by uuid are never ambiguous (groupcore.hpp:99,
\* groupcore.cpp:213): a second connect of an alias adds no second row.
THEOREM RowsUniqueHolds == Spec => []RowsUnique
<1>1. Init => RowsUnique
  BY DEF Init, RowsUnique
<1>2. QED
  BY <1>1, TypeInit, TypeNext, RowsUniqueNext, PTL DEF Spec

-----------------------------------------------------------------------------
(* References.  A row's counter and the references that are held on it      *)
(* differ by whole turns of the counter; an id that is not given out yet    *)
(* has none, so that a new row starts with both at zero.                    *)

Tracks(r) == \E k \in Int : held[r.id] = r.backendrefcount + k * RefModulus

HeldInv ==
  /\ connectcount \in 0 .. MaxConnects
  /\ \A r \in localnodes : r.id \in 1 .. connectcount /\ Tracks(r)
  /\ \A id \in (connectcount + 1) .. MaxConnects : held[id] = 0

LEMMA HeldInit == Init => HeldInv
  BY BoundsAssumption DEF Init, HeldInv

\* A step that gives no id, takes no reference, and at most drops rows or marks them.
LEMMA HeldKept ==
  ASSUME HeldInv, UNCHANGED <<connectcount, held>>,
         \A r \in localnodes' : \E s \in localnodes :
           r.id = s.id /\ r.backendrefcount = s.backendrefcount
  PROVE  HeldInv'
  BY DEF HeldInv, Tracks

LEMMA HeldNext == TypeOK /\ HeldInv /\ [Next]_vars => HeldInv'
<1> SUFFICES ASSUME TypeOK, HeldInv, [Next]_vars PROVE HeldInv'
  OBVIOUS
<1> USE DEF core, io
<1>1. ASSUME UNCHANGED <<localnodes, connectcount, held>> PROVE HeldInv'
  BY <1>1 DEF HeldInv, Tracks
<1>2. ASSUME NEW alias, Connect(alias) PROVE HeldInv'
  <2> DEFINE new == [id |-> connectcount + 1, uuid |-> NewNode(alias),
                     connected |-> TRUE, backendrefcount |-> 0]
  <2>1. /\ connectcount' = connectcount + 1 /\ connectcount < MaxConnects
        /\ held' = held /\ localnodes' \subseteq localnodes \cup {new}
    BY <1>2 DEF Connect, Insert
  <2>2. held[connectcount + 1] = 0
    BY <2>1, BoundsAssumption DEF HeldInv
  <2>3. new.id \in 1 .. connectcount' /\ held'[new.id] = new.backendrefcount + 0 * RefModulus
    BY <2>1, <2>2, BoundsAssumption DEF HeldInv
  <2>4. \A r \in localnodes :
          /\ r.id \in 1 .. connectcount'
          /\ \E k \in Int : held'[r.id] = r.backendrefcount + k * RefModulus
    BY <2>1 DEF HeldInv, Tracks
  <2>5. \A r \in localnodes' :
          /\ r.id \in 1 .. connectcount'
          /\ \E k \in Int : held'[r.id] = r.backendrefcount + k * RefModulus
    <3> HIDE DEF new
    <3>1. QED
      BY <2>1, <2>3, <2>4
  <2>6. QED
    BY <2>1, <2>5, BoundsAssumption DEF HeldInv, Tracks
<1>3. ASSUME NEW node, Disconnect(node) PROVE HeldInv'
  <2>1. \A r \in localnodes' : \E s \in localnodes :
          r = IF s.uuid = node THEN [s EXCEPT !.connected = FALSE] ELSE s
    BY <1>3 DEF Disconnect
  <2>2. \A r \in localnodes' : \E s \in localnodes :
          r.id = s.id /\ r.backendrefcount = s.backendrefcount
    BY <2>1 DEF TypeOK, Rows
  <2>3. QED
    BY <1>3, <2>2, HeldKept DEF Disconnect
<1>4. ASSUME RunReturns PROVE HeldInv'
  BY <1>4, HeldKept DEF RunReturns, PurgeNodes
<1>5. ASSUME NEW row \in localnodes, NEW by \in {1, -1}, ChangeRef(row.id, by) PROVE HeldInv'
  <2>1. /\ held' = [held EXCEPT ![row.id] = @ + by]
        /\ row.id \in 1 .. connectcount /\ row.id \in DOMAIN held
        /\ connectcount' = connectcount /\ connectcount \in 0 .. MaxConnects
    BY <1>5, BoundsAssumption DEF ChangeRef, HeldInv, TypeOK
  <2>2. ASSUME NEW r \in localnodes' PROVE r.id \in 1 .. connectcount /\ Tracks(r)'
    <3>1. PICK s \in localnodes : r = IF s.id = row.id
                THEN [s EXCEPT !.backendrefcount = AddRef(@, by)] ELSE s
      BY <1>5, <2>2 DEF ChangeRef
    <3>2. /\ r.id = s.id /\ s.id \in 1 .. connectcount
          /\ r.backendrefcount = IF s.id = row.id THEN AddRef(s.backendrefcount, by)
                                 ELSE s.backendrefcount
          /\ s.backendrefcount \in 0 .. (RefModulus - 1)
      BY <3>1 DEF HeldInv, TypeOK, Rows
    <3>3. PICK k \in Int : held[s.id] = s.backendrefcount + k * RefModulus
      BY DEF HeldInv, Tracks
    <3>4. CASE s.id = row.id
      <4>1. PICK j \in Int : s.backendrefcount + by = r.backendrefcount + j * RefModulus
        BY <3>2, <3>4, AddRefIsCount
      <4>2. r.backendrefcount \in Int /\ RefModulus \in Int
        BY <3>2, <3>4, AddRefIsCount, BoundsAssumption
      <4>3. held'[r.id] = r.backendrefcount + (k + j) * RefModulus
        BY <2>1, <3>2, <3>3, <3>4, <4>1, <4>2
      <4>4. QED
        BY <3>2, <4>3 DEF Tracks
    <3>5. CASE s.id # row.id
      BY <2>1, <3>2, <3>3, <3>5 DEF Tracks
    <3>6. QED
      BY <3>4, <3>5
  <2>3. \A id \in (connectcount + 1) .. MaxConnects : held'[id] = 0
    BY <2>1 DEF HeldInv, TypeOK
  <2>4. QED
    BY <2>1, <2>2, <2>3 DEF HeldInv
<1>6. QED
  BY <1>1, <1>2, <1>3, <1>4, <1>5
     DEF Next, API, Running, Gone, vars, Attach, Detach, Write, RunWorker,
         TimerFires, StopHandler, BeginHandler, PostCallback, HandlerReturns,
         HandlerThrows, HandlerCrashes

\* Within one turn the counter is the number of references; one turn on it is zero.
LEMMA CountIsHeld ==
  ASSUME NEW c \in 0 .. (RefModulus - 1), NEW h \in Int, NEW k \in Int,
         h = c + k * RefModulus
  PROVE  /\ h \in 0 .. (RefModulus - 1) => c = h
         /\ h = RefModulus => c = 0
<1> DEFINE M == RefModulus
<1>1. M \in Nat \ {0}
  BY BoundsAssumption
<1>2. k <= -1 => k * M <= -M
  BY <1>1
<1>3. k >= 1 => k * M >= M
  BY <1>1
<1>4. k >= 2 => k * M >= 2 * M
  BY <1>1
<1>5. k <= 0 => k * M <= 0
  BY <1>1
<1>6. h \in 0 .. (M - 1) => k = 0
  BY <1>1, <1>2, <1>3
<1>7. h = M => k = 1
  BY <1>1, <1>4, <1>5
<1>8. QED
  BY <1>1, <1>6, <1>7

\* No step but the purge takes a row out of the table, and the purge none whose counter
\* is not zero.
LEMMA CountedRowStays ==
  ASSUME TypeOK, [Next]_vars, NEW r \in localnodes,
         r.backendrefcount # 0 \/ ~ RunReturns
  PROVE  \E s \in localnodes' : s.id = r.id
<1> USE DEF core, io
<1>1. CASE UNCHANGED localnodes
  BY <1>1
<1>2. ASSUME NEW alias, Connect(alias) PROVE \E s \in localnodes' : s.id = r.id
  BY <1>2 DEF Connect, Insert
<1>3. ASSUME NEW node, Disconnect(node) PROVE \E s \in localnodes' : s.id = r.id
  <2> DEFINE s == IF r.uuid = node THEN [r EXCEPT !.connected = FALSE] ELSE r
  <2>1. s \in localnodes'
    BY <1>3 DEF Disconnect
  <2>2. s.id = r.id
    BY DEF TypeOK, Rows
  <2>3. QED
    BY <2>1, <2>2
<1>4. ASSUME NEW id, NEW by, ChangeRef(id, by)
      PROVE  \E s \in localnodes' : s.id = r.id
  <2> DEFINE s == IF r.id = id
                  THEN [r EXCEPT !.backendrefcount = AddRef(@, by)] ELSE r
  <2>1. s \in localnodes'
    BY <1>4 DEF ChangeRef
  <2>2. s.id = r.id
    BY DEF TypeOK, Rows, AddRef
  <2>3. QED
    BY <2>1, <2>2
<1>5. ASSUME RunReturns PROVE \E s \in localnodes' : s.id = r.id
  BY <1>5 DEF RunReturns, PurgeNodes
<1>6. QED
  BY <1>1, <1>2, <1>3, <1>4, <1>5
     DEF Next, API, Running, Gone, vars, Attach, Detach, Write, RunWorker,
         TimerFires, StopHandler, BeginHandler, PostCallback, HandlerReturns,
         HandlerThrows, HandlerCrashes

PurgeFollows ==
  \A r \in localnodes :
    LET kept == \E s \in localnodes' : s.id = r.id IN
    /\ held[r.id] \in 1 .. (RefModulus - 1) => kept
    /\ held[r.id] \in {0, RefModulus} /\ RunReturns => ~ kept

\* A row stays as long as backends hold between 1 and 2^16 - 1 references on it, and goes
\* at the end of a run in which they hold none, or just 2^16 (groupcore.cpp:93).
THEOREM PurgeFollowsReferencesHolds == Spec => PurgeFollowsReferences
<1>1. ASSUME TypeOK, HeldInv, [Next]_vars PROVE PurgeFollows
  <2>1. \A s \in localnodes :
          /\ held[s.id] \in 0 .. (RefModulus - 1) => s.backendrefcount = held[s.id]
          /\ held[s.id] = RefModulus => s.backendrefcount = 0
    <3> TAKE s \in localnodes
    <3>1. PICK k \in Int : held[s.id] = s.backendrefcount + k * RefModulus
      BY <1>1 DEF HeldInv, Tracks
    <3>2. s.backendrefcount \in 0 .. (RefModulus - 1) /\ held[s.id] \in Int
      BY <1>1, BoundsAssumption DEF TypeOK, Rows, HeldInv
    <3>3. QED
      BY <3>1, <3>2, CountIsHeld
  <2>2. RefModulus \in Nat \ {0}
    BY BoundsAssumption
  <2>3. ASSUME NEW r \in localnodes, held[r.id] \in 1 .. (RefModulus - 1)
        PROVE  \E s \in localnodes' : s.id = r.id
    <3>1. r.backendrefcount # 0
      BY <2>1, <2>2, <2>3
    <3>2. QED
      BY <1>1, <3>1, CountedRowStays
  <2>4. ASSUME NEW r \in localnodes, held[r.id] \in {0, RefModulus}, RunReturns,
               NEW s \in localnodes', s.id = r.id
        PROVE  FALSE
    <3>1. s \in localnodes /\ s.backendrefcount # 0
      BY <2>4 DEF RunReturns, PurgeNodes
    <3>2. QED
      BY <2>1, <2>2, <2>4, <3>1
  <2>5. QED
    BY <2>3, <2>4 DEF PurgeFollows
<1>2. TypeOK /\ HeldInv /\ [Next]_vars => [PurgeFollows]_vars
  BY <1>1
<1>3. [][PurgeFollows]_vars <=> PurgeFollowsReferences
  BY DEF PurgeFollows, PurgeFollowsReferences
<1>4. QED
  BY <1>2, <1>3, TypeInit, TypeNext, HeldInit, HeldNext, PTL DEF Spec

-----------------------------------------------------------------------------
(* The order of announcements.  A node without alias is new, so that no     *)
(* queued departure can already name the node a connect announces.          *)

Known(n, count) == n \in Nodes /\ (n.alias = NoAlias => n.nonce <= count)

NonceInv ==
  /\ \A n \in issued : Known(n, connectcount)
  /\ \A i \in DOMAIN ioq : ioq[i].op = "Unavail" => Known(ioq[i].node, connectcount)

LEMMA NonceInvNext == TypeOK /\ NonceInv /\ [Next]_vars => NonceInv'
<1> SUFFICES ASSUME TypeOK, NonceInv, [Next]_vars PROVE NonceInv'
  OBVIOUS
<1> USE DEF core, io
<1>0. ioq \in Seq(Handlers)
  BY DEF TypeOK
<1>1. CASE UNCHANGED <<ioq, issued, connectcount>>
  BY <1>1 DEF NonceInv
<1>2. ASSUME NEW alias \in Aliases \cup {NoAlias}, Connect(alias) PROVE NonceInv'
  <2>1. NewNode(alias) \in Nodes /\ Known(NewNode(alias), connectcount + 1)
    BY DEF TypeOK, NewNode, Nodes, Known
  <2>2. connectcount' = connectcount + 1 /\ issued' = issued \cup {NewNode(alias)}
    BY <1>2 DEF Connect
  <2>3. \A n : Known(n, connectcount) => Known(n, connectcount')
    BY <2>2 DEF Known, TypeOK, Nodes
  <2>4. PICK hs \in ForEachEnabled("Avail", NewNode(alias)) : ioq' = Post(ioq, hs)
    BY <1>2 DEF Connect
  <2>5. \A i \in DOMAIN ioq' : ioq'[i].op = "Unavail" =>
          i \in DOMAIN ioq /\ ioq'[i] = ioq[i]
    BY <1>0, <2>1, <2>4, ForEachEnabledIsQueue, PostPositions
  <2>6. QED
    BY <2>1, <2>2, <2>3, <2>5 DEF NonceInv
<1>3. ASSUME NEW node \in issued, Disconnect(node) PROVE NonceInv'
  <2>1. node \in Nodes /\ Known(node, connectcount)
    BY DEF TypeOK, NonceInv
  <2>2. UNCHANGED <<connectcount, issued>>
    BY <1>3 DEF Disconnect
  <2>3. PICK hs \in ForEachEnabled("Unavail", node) : ioq' = Post(ioq, hs)
    BY <1>3 DEF Disconnect
  <2>4. \A i \in DOMAIN ioq' : \/ i \in DOMAIN ioq /\ ioq'[i] = ioq[i]
                               \/ ioq'[i].node = node
    BY <1>0, <2>1, <2>3, ForEachEnabledIsQueue, PostPositions
  <2>5. QED
    BY <2>1, <2>2, <2>4 DEF NonceInv
<1>4. ASSUME UNCHANGED <<connectcount, issued>>,
             \A i \in DOMAIN ioq' : \/ i \in DOMAIN ioq /\ ioq'[i] = ioq[i]
                                    \/ ioq'[i].op # "Unavail"
      PROVE  NonceInv'
  BY <1>4 DEF NonceInv
<1>5. ASSUME NEW op \in {"Worker", "Write"}, NEW hs \in ForEachEnabled(op, NoNode),
             ioq' = Post(ioq, hs), UNCHANGED <<connectcount, issued>>
      PROVE  NonceInv'
  <2>1. \A i \in DOMAIN ioq' : \/ i \in DOMAIN ioq /\ ioq'[i] = ioq[i]
                               \/ ioq'[i].op # "Unavail"
    BY <1>0, <1>5, ForEachEnabledIsQueue, PostPositions
  <2>2. QED
    BY <1>4, <1>5, <2>1
<1>6. ASSUME ioq' = Append(ioq, Stop) \/ ioq' = Append(ioq, Callback),
             UNCHANGED <<connectcount, issued>>
      PROVE  NonceInv'
  <2>1. Stop.op # "Unavail" /\ Callback.op # "Unavail"
    BY DEF Stop, Callback, Handler
  <2>2. \A i \in DOMAIN ioq' : \/ i \in DOMAIN ioq /\ ioq'[i] = ioq[i]
                               \/ ioq'[i].op # "Unavail"
    BY <1>0, <1>6, <2>1, StopIsHandler, AppendPositions
  <2>3. QED
    BY <1>4, <1>6, <2>2
<1>7. ASSUME ioq # <<>>, ioq' = Tail(ioq), UNCHANGED <<connectcount, issued>>
      PROVE  NonceInv'
  <2>1. \A i \in DOMAIN ioq' : i + 1 \in DOMAIN ioq /\ ioq'[i] = ioq[i + 1]
    BY <1>0, <1>7, TailPositions
  <2>2. QED
    BY <1>7, <2>1 DEF NonceInv
<1>8. ASSUME Write \/ \E timeout \in BOOLEAN : RunWorker(timeout) PROVE NonceInv'
  BY <1>1, <1>5, <1>8 DEF Write, RunWorker
<1>9. ASSUME TimerFires \/ PostCallback \/ HandlerThrows \/ RunReturns PROVE NonceInv'
  BY <1>1, <1>6, <1>9
     DEF TimerFires, PostCallback, HandlerThrows, RunReturns, ReleaseTimer
<1>10. ASSUME StopHandler \/ BeginHandler PROVE NonceInv'
  BY <1>7, <1>10 DEF StopHandler, BeginHandler
<1>11. QED
  BY <1>1, <1>2, <1>3, <1>8, <1>9, <1>10
     DEF Next, API, Running, Gone, vars, Attach, Detach, ChangeRef,
         HandlerReturns, HandlerCrashes

\* A queue stays in order when the handlers posted behind it announce no
\* arrival that follows a queued departure of the same node, nor mix the two.
LEMMA PostKeepsOrder ==
  ASSUME NEW q \in Seq(Handlers), NEW s \in Seq(Handlers), AnnouncedInOrder(q),
         \/ \A i \in DOMAIN s : s[i].op # "Avail"
         \/ /\ \A i \in DOMAIN s : s[i].op # "Unavail"
            /\ \A i \in DOMAIN q, j \in DOMAIN s :
                 q[i].op = "Unavail" /\ q[i].node.alias = NoAlias
                 => s[j].node # q[i].node
  PROVE  AnnouncedInOrder(Post(q, s))
<1>1. DOMAIN q = 1 .. Len(q) /\ Len(q) \in Nat
  OBVIOUS
<1> SUFFICES ASSUME NEW i \in DOMAIN Post(q, s), NEW j \in DOMAIN Post(q, s), i < j,
                    Post(q, s)[i].op = "Unavail",
                    Post(q, s)[i].node.alias = NoAlias,
                    Post(q, s)[j].op = "Avail",
                    Post(q, s)[j].node = Post(q, s)[i].node
             PROVE  FALSE
  BY DEF AnnouncedInOrder
<1>2. CASE j \in DOMAIN q /\ Post(q, s)[j] = q[j]
  <2>1. i \in DOMAIN q /\ Post(q, s)[i] = q[i]
    BY <1>1, <1>2, PostPositions
  <2>2. QED
    BY <1>2, <2>1 DEF AnnouncedInOrder
<1>3. CASE j - Len(q) \in DOMAIN s /\ Post(q, s)[j] = s[j - Len(q)]
  <2>1. i \in DOMAIN q /\ Post(q, s)[i] = q[i]
    BY <1>3, PostPositions
  <2>2. QED
    BY <1>3, <2>1
<1>4. QED
  BY <1>2, <1>3, PostPositions

LEMMA OrderNext ==
  TypeOK /\ NonceInv /\ AvailBeforeUnavail /\ [Next]_vars => AvailBeforeUnavail'
<1> SUFFICES ASSUME TypeOK, NonceInv, AnnouncedInOrder(ioq), [Next]_vars
             PROVE  AnnouncedInOrder(ioq')
  BY DEF AvailBeforeUnavail
<1> USE DEF core, io
<1>0. ioq \in Seq(Handlers)
  BY DEF TypeOK
<1>1. ASSUME NEW alias \in Aliases \cup {NoAlias}, Connect(alias)
      PROVE  AnnouncedInOrder(ioq')
  <2>1. /\ NewNode(alias) \in Nodes
        /\ \/ ~ Known(NewNode(alias), connectcount)
           \/ NewNode(alias).alias # NoAlias
    BY DEF TypeOK, NewNode, Nodes, Known
  <2>2. PICK hs \in ForEachEnabled("Avail", NewNode(alias)) : ioq' = Post(ioq, hs)
    BY <1>1 DEF Connect
  <2>3. hs \in Seq(Handlers)
        /\ \A i \in DOMAIN hs : hs[i].op = "Avail" /\ hs[i].node = NewNode(alias)
    BY <2>1, <2>2, ForEachEnabledIsQueue
  <2>4. \A i \in DOMAIN ioq :
          ioq[i].op = "Unavail" /\ ioq[i].node.alias = NoAlias
          => ioq[i].node # NewNode(alias)
    BY <2>1 DEF NonceInv
  <2>5. QED
    BY <1>0, <2>2, <2>3, <2>4, PostKeepsOrder
<1>2. ASSUME NEW op \in {"Worker", "Unavail", "Write"}, NEW n \in Nodes \cup {NoNode},
             NEW hs \in ForEachEnabled(op, n), ioq' = Post(ioq, hs)
      PROVE  AnnouncedInOrder(ioq')
  <2>1. hs \in Seq(Handlers) /\ \A i \in DOMAIN hs : hs[i].op # "Avail"
    BY ForEachEnabledIsQueue
  <2>2. QED
    BY <1>0, <1>2, <2>1, PostKeepsOrder
<1>3. ASSUME NEW h \in {Stop, Callback}, ioq' = Append(ioq, h)
      PROVE  AnnouncedInOrder(ioq')
  <2>1. h \in Handlers /\ h.op # "Avail" /\ h.op # "Unavail"
    BY StopIsHandler DEF Stop, Callback, Handler
  <2>2. \A i \in DOMAIN ioq' :
          ioq'[i].op \in {"Avail", "Unavail"} => i \in DOMAIN ioq /\ ioq'[i] = ioq[i]
    BY <1>0, <1>3, <2>1, AppendPositions
  <2>3. QED
    BY <2>2 DEF AnnouncedInOrder
<1>4. ASSUME ioq # <<>>, ioq' = Tail(ioq) PROVE AnnouncedInOrder(ioq')
  <2>1. \A i \in DOMAIN ioq' :
          i \in Nat /\ i + 1 \in DOMAIN ioq /\ ioq'[i] = ioq[i + 1]
    BY <1>0, <1>4, TailPositions
  <2>2. QED
    BY <2>1 DEF AnnouncedInOrder
<1>5. ASSUME NEW node \in issued, Disconnect(node) PROVE AnnouncedInOrder(ioq')
  <2>1. node \in Nodes
    BY DEF TypeOK
  <2>2. QED
    BY <1>2, <1>5, <2>1 DEF Disconnect
<1>6. ASSUME Write \/ \E timeout \in BOOLEAN : RunWorker(timeout)
      PROVE  AnnouncedInOrder(ioq')
  BY <1>2, <1>6 DEF Write, RunWorker
<1>7. ASSUME TimerFires \/ PostCallback \/ HandlerThrows \/ RunReturns
      PROVE  AnnouncedInOrder(ioq')
  BY <1>3, <1>7
     DEF TimerFires, PostCallback, HandlerThrows, RunReturns, ReleaseTimer
<1>8. ASSUME StopHandler \/ BeginHandler PROVE AnnouncedInOrder(ioq')
  BY <1>4, <1>8 DEF StopHandler, BeginHandler
<1>9. CASE UNCHANGED ioq
  BY <1>9
<1>10. QED
  BY <1>1, <1>5, <1>6, <1>7, <1>8, <1>9
     DEF Next, API, Running, Gone, vars, Attach, Detach, ChangeRef,
         HandlerReturns, HandlerCrashes

\* No backend is told of a nameless node's departure before its arrival.
THEOREM AvailBeforeUnavailHolds == Spec => []AvailBeforeUnavail
<1>1. Init => NonceInv /\ AvailBeforeUnavail
  BY DEF Init, NonceInv, AvailBeforeUnavail, AnnouncedInOrder
<1>2. QED
  BY <1>1, TypeInit, TypeNext, NonceInvNext, OrderNext, PTL DEF Spec

-----------------------------------------------------------------------------
(* How many stops are queued.  A run that is stopped while its own timer is *)
(* armed was stopped by another one's, which is not queued any more.        *)

Stops(q) == {i \in DOMAIN q : q[i] = Stop}

StopCount(q) == Cardinality(Stops(q))

LEMMA StopCountType ==
  ASSUME NEW q \in Seq(Handlers)
  PROVE  IsFiniteSet(Stops(q)) /\ StopCount(q) \in Nat /\ (q = <<>> => StopCount(q) = 0)
<1>1. Len(q) \in Nat /\ Stops(q) \in SUBSET (1 .. Len(q))
  <2>1. Len(q) \in Nat /\ DOMAIN q = 1 .. Len(q)
    OBVIOUS
  <2>2. QED
    BY <2>1 DEF Stops
<1>2. IsFiniteSet(Stops(q))
  <2>1. IsFiniteSet(1 .. Len(q))
    BY <1>1, FS_Interval
  <2>2. QED
    BY <1>1, <2>1, FS_Subset
<1>3. q = <<>> => Stops(q) = {}
  BY DEF Stops
<1>4. QED
  BY <1>2, <1>3, FS_CardinalityType, FS_EmptySet DEF StopCount

\* Posting handlers other than Stop adds no stop.
LEMMA PostAddsNoStop ==
  ASSUME NEW q \in Seq(Handlers), NEW s \in Seq(Handlers), \A i \in DOMAIN s : s[i] # Stop
  PROVE  StopCount(Post(q, s)) <= StopCount(q)
<1>1. Stops(Post(q, s)) \in SUBSET Stops(q)
  BY PostKeepsStops DEF Stops
<1>2. QED
  BY <1>1, StopCountType, FS_Subset DEF StopCount

LEMMA OneMore ==
  ASSUME NEW S, IsFiniteSet(S), NEW x, NEW T \in SUBSET (S \cup {x})
  PROVE  Cardinality(T) <= Cardinality(S) + 1
<1>1. /\ Cardinality(S) \in Nat /\ IsFiniteSet(S \cup {x})
      /\ Cardinality(S \cup {x}) = IF x \in S THEN Cardinality(S) ELSE Cardinality(S) + 1
  BY FS_AddElement, FS_CardinalityType
<1>2. /\ IsFiniteSet(T) /\ Cardinality(T) <= Cardinality(S \cup {x})
  BY <1>1, FS_Subset
<1>3. Cardinality(T) \in Nat
  BY <1>2, FS_CardinalityType
<1>4. QED
  BY <1>1, <1>2, <1>3

\* A handler at the end adds at most one, and none if it is not a stop.
LEMMA AppendAddsOneStop ==
  ASSUME NEW q \in Seq(Handlers), NEW h \in Handlers
  PROVE  /\ Append(q, h) \in Seq(Handlers)
         /\ StopCount(Append(q, h)) <= StopCount(q) + 1
         /\ h # Stop => StopCount(Append(q, h)) <= StopCount(q)
<1>1. /\ Stops(Append(q, h)) \in SUBSET (Stops(q) \cup {Len(q) + 1})
      /\ h # Stop => Stops(Append(q, h)) \in SUBSET Stops(q)
  BY AppendPositions DEF Stops
<1>2. Append(q, h) \in Seq(Handlers)
  BY AppendPositions
<1>3. StopCount(Append(q, h)) <= StopCount(q) + 1
  BY <1>1, StopCountType, OneMore DEF StopCount
<1>4. h # Stop => StopCount(Append(q, h)) <= StopCount(q)
  BY <1>1, StopCountType, FS_Subset DEF StopCount
<1>5. QED
  BY <1>2, <1>3, <1>4

\* The head that is taken is one stop less, if it is one.
LEMMA TailTakesStop ==
  ASSUME NEW q \in Seq(Handlers), q # <<>>
  PROVE  /\ Tail(q) \in Seq(Handlers)
         /\ StopCount(Tail(q)) <= StopCount(q)
         /\ Head(q) = Stop => StopCount(Tail(q)) <= StopCount(q) - 1
<1> DEFINE shift == [i \in Stops(Tail(q)) |-> i + 1]
           Rest == Stops(q) \ {1}
<1>1. /\ Tail(q) \in Seq(Handlers) /\ Head(q) = q[1] /\ 1 \in DOMAIN q
      /\ \A i \in DOMAIN Tail(q) :
           i \in Nat \ {0} /\ i + 1 \in DOMAIN q /\ Tail(q)[i] = q[i + 1]
  BY TailPositions
<1>2. shift \in Injection(Stops(Tail(q)), Rest)
  <2>1. \A i \in Stops(Tail(q)) : i \in Nat \ {0} /\ i + 1 \in Rest
    BY <1>1 DEF Stops
  <2>2. shift \in [Stops(Tail(q)) -> Rest]
    BY <2>1
  <2>3. \A i, j \in Stops(Tail(q)) : shift[i] = shift[j] => i = j
    BY <2>1
  <2>4. QED
    BY <2>2, <2>3 DEF Injection, IsInjective
<1>3. /\ IsFiniteSet(Rest)
      /\ Cardinality(Rest) = IF 1 \in Stops(q) THEN StopCount(q) - 1 ELSE StopCount(q)
  BY StopCountType, FS_RemoveElement DEF StopCount
<1>4. StopCount(Tail(q)) <= Cardinality(Rest)
  BY <1>2, <1>3, FS_Injection DEF StopCount
<1>5. StopCount(q) \in Nat /\ StopCount(Tail(q)) \in Nat
  BY <1>1, StopCountType
<1>6. Head(q) = Stop => 1 \in Stops(q)
  BY <1>1 DEF Stops
<1>7. QED
  <2> HIDE DEF Rest
  <2>1. QED
    BY <1>1, <1>3, <1>4, <1>5, <1>6

CountInv ==
  /\ phase = "idle" => timer = "none"
  /\ StopCount(ioq) <= throws + 1
  /\ timer # "fired" => StopCount(ioq) <= throws
  /\ stopped /\ phase = "running" =>
       StopCount(ioq) <= throws /\ (timer = "armed" => StopCount(ioq) + 1 <= throws)

\* A call, or a handler, that queues no stop.
LEMMA CountKept ==
  ASSUME TypeOK, TypeOK', CountInv, throws' = throws, timer' = timer,
         phase' # "running", phase' = "idle" => phase = "idle",
         StopCount(ioq') <= StopCount(ioq)
  PROVE  CountInv'
<1>1. throws \in Nat /\ StopCount(ioq) \in Nat /\ StopCount(ioq') \in Nat
  BY StopCountType DEF TypeOK
<1>2. QED
  BY <1>1 DEF CountInv

LEMMA CountInvNext ==
  ASSUME TypeOK, TypeOK', CountInv, [Next]_vars
  PROVE  CountInv'
<1> USE DEF core, io
<1>0. /\ ioq \in Seq(Handlers) /\ throws \in Nat
      /\ StopCount(ioq) \in Nat /\ StopCount(ioq') \in Nat
  BY StopCountType DEF TypeOK
<1>1. ASSUME NEW b \in BackendTypes, Attach(b) \/ Detach(b) PROVE CountInv'
  BY <1>1 DEF Attach, Detach, CountInv
<1>2. ASSUME NEW alias \in Aliases \cup {NoAlias}, Connect(alias) PROVE CountInv'
  <2>1. NewNode(alias) \in Nodes
    BY DEF TypeOK, NewNode, Nodes
  <2>2. PICK hs \in ForEachEnabled("Avail", NewNode(alias)) : ioq' = Post(ioq, hs)
    BY <1>2 DEF Connect
  <2>3. StopCount(ioq') <= StopCount(ioq)
    BY <1>0, <2>1, <2>2, LoopsPostNoStop, PostAddsNoStop
  <2>4. UNCHANGED <<throws, timer, phase>> /\ phase # "running"
    BY <1>2 DEF Connect, UserCode
  <2>5. QED
    BY <2>3, <2>4, CountKept
<1>3. ASSUME NEW node \in issued, Disconnect(node) PROVE CountInv'
  <2>1. node \in Nodes
    BY DEF TypeOK
  <2>2. PICK hs \in ForEachEnabled("Unavail", node) : ioq' = Post(ioq, hs)
    BY <1>3 DEF Disconnect
  <2>3. StopCount(ioq') <= StopCount(ioq)
    BY <1>0, <2>1, <2>2, LoopsPostNoStop, PostAddsNoStop
  <2>4. UNCHANGED <<throws, timer, phase>> /\ phase # "running"
    BY <1>3 DEF Disconnect, UserCode
  <2>5. QED
    BY <2>3, <2>4, CountKept
<1>4. ASSUME Write PROVE CountInv'
  <2>1. StopCount(ioq') <= StopCount(ioq)
    BY <1>0, <1>4, LoopsPostNoStop, PostAddsNoStop DEF Write
  <2>2. UNCHANGED <<throws, timer>> /\ phase # "running" /\ phase' \in {phase, "crashed"}
    BY <1>4 DEF Write, UserCode
  <2>3. QED
    BY <2>1, <2>2, CountKept
<1>5. ASSUME NEW timeout \in BOOLEAN, RunWorker(timeout) PROVE CountInv'
  <2>1. PICK hs \in ForEachEnabled("Worker", NoNode) :
          ioq' = Post(ioq, hs) /\ stopped' = NoWork(ioq', timer')
    BY <1>5 DEF RunWorker, StoppedAtRun
  <2>2. StopCount(ioq') <= StopCount(ioq)
    BY <1>0, <2>1, LoopsPostNoStop, PostAddsNoStop
  <2>3. StopCount(ioq) <= throws /\ throws' = throws /\ (stopped' => timer' # "armed")
    BY <1>5, <2>1 DEF RunWorker, NoWork, CountInv
  <2>4. phase' = "running"
    BY <1>5 DEF RunWorker
  <2>5. QED
    BY <1>0, <2>2, <2>3, <2>4 DEF CountInv
<1>6. ASSUME TimerFires PROVE CountInv'
  <2>1. StopCount(ioq') <= StopCount(ioq) + 1
    BY <1>0, <1>6, StopIsHandler, AppendAddsOneStop DEF TimerFires
  <2>2. QED
    BY <1>0, <1>6, <2>1 DEF TimerFires, CountInv
<1>7. ASSUME StopHandler PROVE CountInv'
  <2>1. StopCount(ioq') <= StopCount(ioq) - 1
    BY <1>0, <1>7, TailTakesStop DEF StopHandler
  <2>2. QED
    BY <1>0, <1>7, <2>1 DEF StopHandler, CountInv
<1>8. ASSUME BeginHandler PROVE CountInv'
  <2>1. StopCount(ioq') <= StopCount(ioq)
    BY <1>0, <1>8, TailTakesStop DEF BeginHandler
  <2>2. UNCHANGED <<throws, timer>> /\ phase' = "handler"
    BY <1>8 DEF BeginHandler
  <2>3. QED
    BY <2>1, <2>2, CountKept
<1>9. ASSUME PostCallback PROVE CountInv'
  <2>1. StopCount(ioq') <= StopCount(ioq)
    BY <1>0, <1>9, StopIsHandler, AppendAddsOneStop DEF PostCallback
  <2>2. UNCHANGED <<throws, timer, phase>> /\ phase = "handler"
    BY <1>9 DEF PostCallback, InBackend
  <2>3. QED
    BY <2>1, <2>2, CountKept
<1>10. ASSUME HandlerReturns PROVE CountInv'
  <2>1. UNCHANGED <<ioq, throws, timer>> /\ phase' = "running"
        /\ stopped' = (ioq = <<>> /\ timer # "armed")
    BY <1>10 DEF HandlerReturns, NoWork
  <2>2. stopped' => StopCount(ioq) = 0 /\ timer # "armed"
    BY <1>0, <2>1, StopCountType
  <2>3. QED
    BY <1>0, <2>1, <2>2 DEF CountInv
<1>11. ASSUME HandlerThrows \/ RunReturns PROVE CountInv'
  <2>1. /\ ioq' = ReleaseTimer(ioq, timer) /\ timer' = "none" /\ phase' = "idle"
        /\ \/ throws' = throws + 1
           \/ throws' = throws /\ stopped /\ phase = "running"
    BY <1>11 DEF HandlerThrows, RunReturns
  <2>2. IF timer = "armed" THEN StopCount(ioq') <= StopCount(ioq) + 1 ELSE ioq' = ioq
    BY <1>0, <2>1, StopIsHandler, AppendAddsOneStop DEF ReleaseTimer
  <2>3. StopCount(ioq') <= throws'
    BY <1>0, <2>1, <2>2 DEF CountInv
  <2>4. throws' \in Nat
    BY DEF TypeOK
  <2>5. QED
    BY <1>0, <2>1, <2>3, <2>4 DEF CountInv
<1>12. ASSUME HandlerCrashes PROVE CountInv'
  BY <1>12 DEF HandlerCrashes, CountInv
<1>13. ASSUME UNCHANGED <<ioq, io>> PROVE CountInv'
  BY <1>13 DEF CountInv
<1>14. QED
  BY <1>1, <1>2, <1>3, <1>4, <1>5, <1>6, <1>7, <1>8, <1>9, <1>10, <1>11, <1>12, <1>13
     DEF Next, API, Running, Gone, vars, ChangeRef

\* At most one stop is queued for each exception that has left a timed run, besides
\* the one of the run in progress, however often the application calls runWorker.
THEOREM StopsAccountedHolds == Spec => []StopsAccounted
<1>1. Init => CountInv
  <2> SUFFICES ASSUME Init PROVE CountInv
    OBVIOUS
  <2>1. ioq = <<>> /\ throws = 0 /\ phase = "idle" /\ timer = "none"
    BY DEF Init
  <2>2. StopCount(ioq) = 0
    BY <2>1, EmptySeq, StopCountType
  <2>3. QED
    BY <2>1, <2>2 DEF CountInv
<1>2. TypeOK /\ TypeOK' /\ CountInv /\ [Next]_vars => CountInv'
  BY CountInvNext
<1>3. CountInv => StopsAccounted
  BY DEF CountInv, StopsAccounted, StopCount, Stops
<1>4. QED
  BY <1>1, <1>2, <1>3, TypeCorrect, PTL DEF Spec
=============================================================================
