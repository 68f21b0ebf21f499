------------------------------ MODULE ShmInit -------------------------------
(***************************************************************************)
(* SharedMemory::initialize, run by processes of one host that join a      *)
(* group of the same name at about the same time, each at most once.       *)
(*                                                                         *)
(* A process removes the name of the group's mutex, opens or creates the   *)
(* mutex of that name, and tries for two seconds to lock it.  Removing a   *)
(* name does not touch the mutex: those who opened it keep it.             *)
(*                                                                         *)
(* The mutex is boost's, on POSIX a named semaphore: it is initialised     *)
(* when its name appears, and a process that dies leaves it as it is.      *)
(*                                                                         *)
(* Of the group's own segment there is nothing to model.  Its size of 5    *)
(* bytes is less than the header's, managed_shared_memory throws before    *)
(* it looks at any segment (managed_open_or_create_impl.hpp:318), and once *)
(* more in the catch block.  The exception unlocks the mutex and leaves    *)
(* initialize; attachBackend deletes the backend, and the destructor uses  *)
(* shm, which is NULL: the process is dead.  So it is after a timeout.     *)
(***************************************************************************)
EXTENDS Naturals, FiniteSets

CONSTANTS
  Procs,     \* the processes
  None,      \* no process, no mutex
  MaxKilled  \* bound: processes that die by something else than their own code

ASSUME ShmAssumption == None \notin Procs /\ MaxKilled \in Nat

VARIABLES
  name,   \* what the name stands for; a mutex is named after its creator
  owner,  \* per mutex: the process that has locked it
  pc,     \* per process: where it is in initialize
  mutex,  \* per process: the mutex it created or opened
  killed, \* the processes that were killed (history)
  before  \* per process: who was dead when it removed the name (history)

vars == <<name, owner, pc, mutex, killed, before>>

Places == {"start", "removed", "locking", "locked", "dead"}

Goto(p, place) == pc' = [pc EXCEPT ![p] = place]

Dead == {p \in Procs : pc[p] = "dead"}

Locked == {p \in Procs : pc[p] = "locked"}

RemoveNothing(p) == name

\* What the name stands for after named_mutex::remove.
AfterRemove(p) == None

Remove(p) ==
  /\ pc[p] = "start"
  /\ name' = AfterRemove(p)
  /\ before' = [before EXCEPT ![p] = Dead]
  /\ Goto(p, "removed")
  /\ UNCHANGED <<owner, mutex, killed>>

\* open_or_create: sem_open with O_EXCL, which succeeds when there is no such name,
\* or else without, until one of them does.
Create(p) ==
  /\ pc[p] = "removed" /\ name = None
  /\ name' = p
  /\ mutex' = [mutex EXCEPT ![p] = p]
  /\ Goto(p, "locking")
  /\ UNCHANGED <<owner, killed, before>>

Open(p) ==
  /\ pc[p] = "removed" /\ name # None
  /\ mutex' = [mutex EXCEPT ![p] = name]
  /\ Goto(p, "locking")
  /\ UNCHANGED <<name, owner, killed, before>>

Lock(p) ==
  /\ pc[p] = "locking" /\ owner[mutex[p]] = None
  /\ owner' = [owner EXCEPT ![mutex[p]] = p]
  /\ Goto(p, "locked")
  /\ UNCHANGED <<name, mutex, killed, before>>

Wait(p) ==
  /\ pc[p] = "locking" /\ owner[mutex[p]] # None
  /\ UNCHANGED vars

NeverTimedOut(p) == FALSE

\* timed_lock gives up on a mutex that stays locked.
TimedOut(p) == owner[mutex[p]] # None

KeepsLock(p) == owner

UnlocksAnyway(p) == [owner EXCEPT ![mutex[p]] = None]

\* scoped_lock's destructor, as the exception leaves the block: the mutex is unlocked
\* if it was locked ...
Unlocked(p) == [owner EXCEPT ![mutex[p]] = None]

\* ... and left to its owner if it was not.
NotLocked(p) == owner

LockFails(p) ==
  /\ pc[p] = "locking" /\ TimedOut(p)
  /\ owner' = NotLocked(p)
  /\ Goto(p, "dead")
  /\ UNCHANGED <<name, mutex, killed, before>>

\* Neither constructor of managed_shared_memory succeeds.
SegmentFails(p) ==
  /\ pc[p] = "locked"
  /\ owner' = Unlocked(p)
  /\ Goto(p, "dead")
  /\ UNCHANGED <<name, mutex, killed, before>>

\* A process dies at any place, and what it has locked stays locked.
Killed(p) ==
  /\ pc[p] # "dead" /\ Cardinality(killed) < MaxKilled
  /\ killed' = killed \cup {p}
  /\ Goto(p, "dead")
  /\ UNCHANGED <<name, owner, mutex, before>>

AllDead == Dead = Procs /\ UNCHANGED vars

-----------------------------------------------------------------------------

Init ==
  /\ name = None
  /\ owner = [m \in Procs |-> None]
  /\ pc = [p \in Procs |-> "start"]
  /\ mutex = [p \in Procs |-> None]
  /\ killed = {}
  /\ before = [p \in Procs |-> {}]

Step(p) ==
  \/ Remove(p)
  \/ Create(p) \/ Open(p)
  \/ Lock(p) \/ Wait(p) \/ LockFails(p) \/ SegmentFails(p)

Next ==
  \/ \E p \in Procs : Step(p) \/ Killed(p)
  \/ AllDead

Spec == Init /\ [][Next]_vars

\* A process that is not killed runs on, and time passes for a timed_lock.
Fairness == \A p \in Procs : WF_vars(Step(p))

FairSpec == Spec /\ Fairness

-----------------------------------------------------------------------------
(* Properties.                                                             *)

\* Besides the types: who is past the lock of a mutex is its one owner.
TypeOK ==
  /\ name \in Procs \cup {None}
  /\ owner \in [Procs -> Procs \cup {None}]
  /\ pc \in [Procs -> Places]
  /\ mutex \in [Procs -> Procs \cup {None}]
  /\ killed \subseteq Dead
  /\ before \in [Procs -> SUBSET Procs]
  /\ \A p \in Locked : mutex[p] # None /\ owner[mutex[p]] = p

\* "at this point we can be sure that no other process is accessing the segment for
\* intialization purpose" (shm.cpp:60-61).
NoOtherProcess == Cardinality(Locked) <= 1

\* Why the name is removed first: a process is not held up by a mutex that one
\* who was dead already when it came has left locked.
NotHeldUpByTheDead ==
  \A p \in Procs \ Dead :
    mutex[p] # None => owner[mutex[p]] \notin before[p]

\* A mutex is left locked for good only by a process that was killed.
LeftLockedByKilled ==
  \A m \in Procs : owner[m] \in Dead => owner[m] \in killed

\* initialize comes to an end, within its timeout if it has to be: the timed lock
\* does not depend on a process that may be dead.
InitEnds ==
  \A p \in Procs : pc[p] = "removed" ~> pc[p] = "dead"

=============================================================================
