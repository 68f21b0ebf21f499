--------------------------- MODULE ShmInitProofs ----------------------------
(***************************************************************************)
(* What TLAPS proves of ShmInit, for any number of processes and of kills. *)
(***************************************************************************)
EXTENDS ShmInit, TLAPS

Types ==
  /\ name \in Procs \cup {None}
  /\ owner \in [Procs -> Procs \cup {None}]
  /\ pc \in [Procs -> Places]
  /\ mutex \in [Procs -> Procs \cup {None}]
  /\ killed \subseteq Dead
  /\ before \in [Procs -> SUBSET Procs]

\* A process has a mutex from when it opened one, and never before that.
HasMutex ==
  \A p \in Procs :
    /\ pc[p] \in {"start", "removed"} => mutex[p] = None
    /\ pc[p] \in {"locking", "locked"} => mutex[p] # None

\* What was opened was created by the process it is named after.
Created ==
  /\ \A p \in Procs : mutex[p] # None => mutex[mutex[p]] = mutex[p]
  /\ name # None => mutex[name] = name

\* The owner of a mutex is the one that is past its lock, or was killed there.
OwnersLock ==
  /\ \A m \in Procs : owner[m] # None =>
       /\ mutex[owner[m]] = m
       /\ pc[owner[m]] = "locked" \/ owner[m] \in killed
  /\ \A p \in Locked : owner[mutex[p]] = p

Inv == Types /\ HasMutex /\ Created /\ OwnersLock

(***************************************************************************)
(* The strengthening for NotHeldUpByTheDead: those who were dead when a    *)
(* process removed the name are dead, and have not opened what the name    *)
(* stands for until the process opens it.                                  *)
(***************************************************************************)
NewNames ==
  \A p \in Procs :
    /\ before[p] \subseteq Dead
    /\ pc[p] = "removed" /\ name # None => \A q \in before[p] : mutex[q] # name

StrongInv == Inv /\ NewNames /\ NotHeldUpByTheDead

-----------------------------------------------------------------------------

LEMMA InvInit == Init => Inv
  BY ShmAssumption DEF Init, Inv, Types, HasMutex, Created, OwnersLock, Places, Dead, Locked

LEMMA InvStep == ASSUME Inv, [Next]_vars PROVE Inv'
<1> USE ShmAssumption DEF Inv, Types, HasMutex, Created, OwnersLock, Places, Goto, Dead, Locked
<1>1. ASSUME NEW p \in Procs, Remove(p) PROVE Inv'
  BY <1>1 DEF Remove, AfterRemove
<1>2. ASSUME NEW p \in Procs, Create(p) PROVE Inv'
  BY <1>2 DEF Create
<1>3. ASSUME NEW p \in Procs, Open(p) PROVE Inv'
  BY <1>3 DEF Open
<1>4. ASSUME NEW p \in Procs, Lock(p) PROVE Inv'
  BY <1>4 DEF Lock
<1>5. ASSUME NEW p \in Procs, LockFails(p) PROVE Inv'
  BY <1>5 DEF LockFails, TimedOut, NotLocked
<1>6. ASSUME NEW p \in Procs, SegmentFails(p) PROVE Inv'
  BY <1>6 DEF SegmentFails, Unlocked
<1>7. ASSUME NEW p \in Procs, Killed(p) PROVE Inv'
  BY <1>7 DEF Killed
<1>8. CASE UNCHANGED vars
  BY <1>8 DEF vars
<1> QED
  BY <1>1, <1>2, <1>3, <1>4, <1>5, <1>6, <1>7, <1>8 DEF Next, Step, Wait, AllDead

\* The types of ShmInit's variables, and that a process past the lock of its mutex is
\* that mutex's one owner.
THEOREM TypeCorrect == Spec => []TypeOK
<1>1. Inv => TypeOK
  BY DEF Inv, Types, HasMutex, OwnersLock, TypeOK, Locked
<1> QED
  BY <1>1, InvInit, InvStep, PTL DEF Spec

\* A mutex stays locked for good only when its owner was killed: the exception
\* that ends initialize unlocks it (shm.cpp:54).
THEOREM LeftLockedByKilledHolds == Spec => []LeftLockedByKilled
<1>1. Inv => LeftLockedByKilled
  BY ShmAssumption DEF Inv, Types, OwnersLock, LeftLockedByKilled, Dead, Places
<1> QED
  BY <1>1, InvInit, InvStep, PTL DEF Spec

-----------------------------------------------------------------------------

LEMMA StrongInit == Init => StrongInv
  BY InvInit, ShmAssumption
  DEF Init, StrongInv, NewNames, NotHeldUpByTheDead, Dead, Places

LEMMA StrongStep == ASSUME StrongInv, [Next]_vars PROVE StrongInv'
<1> DEFINE Names == NewNames /\ NotHeldUpByTheDead
<1>0. Inv'
  BY InvStep DEF StrongInv
<1> SUFFICES Names'
  BY <1>0 DEF StrongInv
<1> USE ShmAssumption DEF StrongInv, Inv, Types, HasMutex, Created, OwnersLock,
      NewNames, NotHeldUpByTheDead, Places, Goto, Dead
<1>1. ASSUME NEW p \in Procs, Remove(p) PROVE Names'
  BY <1>1 DEF Remove, AfterRemove
<1>2. ASSUME NEW p \in Procs, Create(p) PROVE Names'
  BY <1>2 DEF Create
<1>3. ASSUME NEW p \in Procs, Open(p) PROVE Names'
  BY <1>3 DEF Open
<1>4. ASSUME NEW p \in Procs, Lock(p) PROVE Names'
  BY <1>4 DEF Lock
<1>5. ASSUME NEW p \in Procs, LockFails(p) PROVE Names'
  BY <1>5 DEF LockFails, TimedOut, NotLocked
<1>6. ASSUME NEW p \in Procs, SegmentFails(p) PROVE Names'
  BY <1>6 DEF SegmentFails, Unlocked
<1>7. ASSUME NEW p \in Procs, Killed(p) PROVE Names'
  BY <1>7 DEF Killed
<1>8. CASE UNCHANGED vars
  BY <1>8 DEF vars
<1> QED
  BY <1>1, <1>2, <1>3, <1>4, <1>5, <1>6, <1>7, <1>8 DEF Next, Step, Wait, AllDead

\* A process is not held up by a mutex that one who was dead before it came has left
\* locked: that is what named_mutex::remove at shm.cpp:50 is good for.
THEOREM NotHeldUpByTheDeadHolds == Spec => []NotHeldUpByTheDead
<1>1. StrongInv => NotHeldUpByTheDead
  BY DEF StrongInv
<1> QED
  BY <1>1, StrongInit, StrongStep, PTL DEF Spec

=============================================================================
