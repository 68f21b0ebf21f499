------------------------- MODULE SessionSyncProofs -------------------------
(***************************************************************************)
(* Theorems about SessionSync, for every set of sessions and any number of *)
(* nodes.                                                                  *)
(*                                                                         *)
(* Everything follows from what is wrong with the flag: a session that is  *)
(* in the set is marked as enqueued for good, so that nothing is ever      *)
(* queued but uuid_read_finished, and each session synchronises once, at   *)
(* its start (SessInv).                                                    *)
(***************************************************************************)
EXTENDS SessionSync, FiniteSetTheorems, SequenceTheorems, WellFoundedInduction, TLAPS

-----------------------------------------------------------------------------
(* Lemmas about times and the queue.                                       *)

\* A bounded set of numbers has a greatest one.
LEMMA Greatest ==
  ASSUME NEW T \in SUBSET Nat, T # {}, NEW n \in Nat, \A t \in T : t <= n
  PROVE  \E t \in T : \A u \in T : u <= t
<1> DEFINE D == {n - t : t \in T}
           Less == {ss \in Nat \X Nat : ss[1] < ss[2]}
<1>1. D \subseteq Nat /\ D # {}
  <2>1. \A t \in T : t \in Nat /\ n - t \in Nat
    OBVIOUS
  <2>2. PICK t \in T : n - t \in D
    OBVIOUS
  <2>3. QED
    BY <2>1, <2>2
<1>2. IsWellFoundedOn(Less, Nat)
  BY NatLessThanWellFounded DEF OpToRel
<1>3. PICK d \in D : \A e \in D : ~ (e < d)
  <2>1. \E d \in D : \A e \in D : ~ (<<e, d>> \in Less)
    <3> HIDE DEF D, Less
    <3>1. QED
      BY <1>1, <1>2, WFMin
  <2>2. \A d, e \in D : <<e, d>> \in Less <=> e < d
    BY <1>1
  <2>3. QED
    BY <2>1, <2>2
<1>4. PICK t \in T : d = n - t
  OBVIOUS
<1>5. ASSUME NEW u \in T PROVE u <= t
  <2>1. n - u \in D /\ t \in Nat /\ u \in Nat
    OBVIOUS
  <2>2. ~ (n - u < d)
    <3> HIDE DEF D
    <3>1. QED
      BY <1>3, <2>1
  <2>3. QED
    BY <1>4, <2>1, <2>2
<1>6. QED
  BY <1>5

\* nodesyncctime after the rows that are passed over is a reading of the clock.
LEMMA LatestIsTime ==
  ASSUME TypeOK, NEW min \in Nat, min <= now, NEW passed \in SUBSET rows
  PROVE  Latest(min, passed) \in Nat /\ Latest(min, passed) <= now
<1>1. CASE passed = {}
  BY <1>1 DEF Latest, TypeOK
<1>2. CASE passed # {}
  <2> DEFINE T == {r.time : r \in passed}
  <2>1. T \in SUBSET Nat /\ T # {} /\ \A t \in T : t <= now
    BY <1>2 DEF TypeOK, Rows
  <2>2. \E t \in T : \A u \in T : u <= t
    <3> HIDE DEF T
    <3>1. QED
      BY <2>1, Greatest DEF TypeOK
  <2>3. Latest(min, passed) \in T
    BY <1>2, <2>2 DEF Latest
  <2>4. QED
    BY <2>1, <2>3
<1>3. QED
  BY <1>1, <1>2

\* What syncNodeList looks at are rows of the table.
LEMMA CandidatesAreRows ==
  ASSUME NEW min
  PROVE  /\ Candidates(min) \subseteq rows /\ PassedOver(min) \subseteq rows
         /\ FirstOf(Candidates(min)) \subseteq Candidates(min)
  BY DEF Candidates, PassedOver, FirstOf, Visited, RangeByCreated

\* poll() takes the head: what is left are the old positions but the first.
LEMMA TailHandlers ==
  ASSUME NEW q \in Seq(Handlers), q # <<>>
  PROVE  /\ Tail(q) \in Seq(Handlers) /\ Head(q) \in Handlers
         /\ Head(q) = q[1] /\ 1 \in DOMAIN q
         /\ \A i \in DOMAIN Tail(q) :
              i \in Nat \ {0} /\ i + 1 \in DOMAIN q /\ Tail(q)[i] = q[i + 1]
<1>1. /\ Tail(q) \in Seq(Handlers) /\ Head(q) \in Handlers
      /\ Len(Tail(q)) = Len(q) - 1
      /\ \A i \in 1 .. Len(Tail(q)) : Tail(q)[i] = q[i + 1]
  BY HeadTailProperties
<1>2. /\ DOMAIN q = 1 .. Len(q) /\ Len(q) \in Nat \ {0}
      /\ DOMAIN Tail(q) = 1 .. Len(q) - 1
  BY <1>1, EmptySeq
<1>3. QED
  BY <1>1, <1>2

LEMMA QueuedAreHandlers ==
  ASSUME TypeOK
  PROVE  \A i \in DOMAIN tcpq : tcpq[i] \in Handlers /\ tcpq[i].of \in Sessions
<1>1. tcpq \in Seq(Handlers)
  BY DEF TypeOK
<1>2. \A i \in DOMAIN tcpq : tcpq[i] \in Handlers
  BY <1>1
<1>3. QED
  BY <1>2 DEF Handlers

-----------------------------------------------------------------------------
(* The invariant.                                                          *)

\* Only uuid_read_finished is ever queued, once for each connection.
QueueInv ==
  /\ \A i \in DOMAIN tcpq : tcpq[i].kind = "uuidread" /\ sock[tcpq[i].of] = "none"
  /\ \A i, j \in DOMAIN tcpq : tcpq[i].of = tcpq[j].of => i = j

\* One session is in the set, for good, and its flag is set for good; the others have
\* sent nothing.
SetInv ==
  /\ \A s \in InSet : enqueued[s]
  /\ \A s, t \in InSet : s = t
  /\ \A s \in Sessions \ InSet :
       out[s] = "free" /\ told[s] = <<>> /\ synctime[s] = NoTime
  /\ \A s \in Sessions : Len(told[s]) <= 1
  /\ ~ thrown

SessInv == TypeOK /\ QueueInv /\ SetInv

\* tcp.cpp:45-47 finds every session of the set marked as enqueued.
LEMMA AvailableDoesNothing ==
  ASSUME SessInv, OnLocalNodeAvailable
  PROVE  UNCHANGED <<tcpq, enqueued>>
<1>1. NotEnqueued = {}
  BY DEF NotEnqueued, SessInv, SetInv
<1>2. enqueued' = enqueued
  BY <1>1 DEF OnLocalNodeAvailable, SessInv, TypeOK
<1>3. PICK order \in SetToSeqs({}) : tcpq' = tcpq \o [i \in DOMAIN order |-> Sync(order[i])]
  BY <1>1 DEF OnLocalNodeAvailable
<1>4. order = <<>>
  BY FS_EmptySet DEF SetToSeqs
<1>5. [i \in DOMAIN order |-> Sync(order[i])] = <<>>
  BY <1>4
<1>6. tcpq' = tcpq
  BY <1>3, <1>5, ConcatEmptySeq DEF SessInv, TypeOK
<1>7. QED
  BY <1>2, <1>6

\* Every syncNodeList is the one at the start of the first session: what is sent
\* then is the first connected node of the table, if there is one.
LEMMA SyncIsStart ==
  ASSUME SessInv, NEW s \in Sessions, PollSync(s)
  PROVE  /\ tcpq # <<>> /\ Head(tcpq) = UuidRead(s) /\ tcpq' = Tail(tcpq)
         /\ InSet = {} /\ told[s] = <<>> /\ synctime[s] = NoTime
         /\ sock' = [sock EXCEPT ![s] = "open"]
         /\ enqueued' = [enqueued EXCEPT ![s] = TRUE]
         /\ thrown' = thrown /\ UNCHANGED <<table, avail>>
         /\ \/ /\ Candidates(NoTime) = {}
               /\ SetSyncTime(s, Latest(NoTime, PassedOver(NoTime)))
               /\ UNCHANGED <<out, told>>
            \/ \E r \in FirstOf(Candidates(NoTime)) :
                 /\ out' = [out EXCEPT ![s] = "busy"]
                 /\ told' = [told EXCEPT ![s] = Append(@, r.id)]
                 /\ SetSyncTime(s, r.time)
<1>1. tcpq # <<>> /\ Head(tcpq).of = s /\ tcpq' = Tail(tcpq)
  BY DEF PollSync
<1>2. Head(tcpq) = tcpq[1] /\ Head(tcpq) \in Handlers /\ 1 \in DOMAIN tcpq
  BY <1>1, TailHandlers DEF SessInv, TypeOK
<1>3. Head(tcpq).kind = "uuidread" /\ sock[s] = "none"
  BY <1>1, <1>2 DEF SessInv, QueueInv
<1>4. Head(tcpq) = UuidRead(s)
  BY <1>1, <1>2, <1>3 DEF Handlers, UuidRead
<1>5. InSet = {}
  BY <1>3 DEF PollSync, Joins
<1>6. out[s] = "free" /\ told[s] = <<>> /\ synctime[s] = NoTime
  BY <1>5 DEF SessInv, SetInv
<1>7. /\ sock' = [sock EXCEPT ![s] = "open"] /\ enqueued' = [enqueued EXCEPT ![s] = TRUE]
      /\ UNCHANGED <<table, avail>>
  BY <1>3 DEF PollSync, FlagAfterInline
<1>8. SyncNodeList(s, TRUE)
  BY <1>3 DEF PollSync
<1>9. QED
  BY <1>1, <1>4, <1>5, <1>6, <1>7, <1>8 DEF SyncNodeList

LEMMA SessInvInit == Init => SessInv
<1> SUFFICES ASSUME Init PROVE SessInv
  OBVIOUS
<1>1. tcpq \in Seq(Handlers) /\ \A s \in Sessions : told[s] \in Seq(Nat) /\ told[s] = <<>>
  BY EmptySeq DEF Init
<1>2. TypeOK
  <2>1. /\ rows = {} /\ count \in Nat /\ now \in Nat \ {0} /\ avail \in Nat /\ tcpq \in Seq(Handlers)
        /\ sock \in [Sessions -> {"none", "open", "closed", "refused"}]
        /\ out \in [Sessions -> {"free", "busy"}]
    BY <1>1 DEF Init
  <2>2. /\ synctime \in [Sessions -> Nat] /\ \A s \in Sessions : synctime[s] <= now
        /\ told \in [Sessions -> Seq(Nat)]
    BY <1>1 DEF Init, NoTime
  <2>3. enqueued \in [Sessions -> BOOLEAN] /\ thrown \in BOOLEAN
    BY Zenon DEF Init
  <2>4. QED
    BY <2>1, <2>2, <2>3 DEF TypeOK
<1>3. QueueInv /\ InSet = {}
  BY DEF Init, QueueInv, InSet
<1>4. SetInv
  BY <1>1, <1>3, EmptySeq DEF Init, SetInv
<1>5. QED
  BY <1>2, <1>3, <1>4 DEF SessInv

\* The sessions do not see a change of the table.
LEMMA TableStep ==
  ASSUME SessInv, UNCHANGED <<tcpq, session, thrown>>, TypeOK'
  PROVE  SessInv'
  BY DEF SessInv, QueueInv, SetInv, InSet, session

LEMMA TableType ==
  ASSUME TypeOK, Connect \/ (\E r \in rows : Disconnect(r)) \/ Purge
  PROVE  TypeOK' /\ UNCHANGED <<tcpq, session, thrown>>
<1>1. UNCHANGED <<tcpq, session, thrown>>
  BY DEF Connect, Disconnect, Purge
<1>2. ASSUME Connect PROVE TypeOK'
  <2>1. /\ count' = count + 1 /\ now' \in Nat \ {0} /\ now <= now' /\ avail' \in Nat
    <3>1. now' = now \/ now' = now + 1
      BY <1>2 DEF Connect
    <3>2. QED
      BY <1>2, <3>1 DEF Connect, TypeOK
  <2>2. \A r \in rows' : r \in rows \/ r = [id |-> count + 1, time |-> now', connected |-> TRUE]
    BY <1>2 DEF Connect
  <2>3. rows' \subseteq Rows /\ \A r \in rows' : r.id \in 1 .. count' /\ r.time \in 1 .. now'
    <3>1. ASSUME NEW r \in rows
          PROVE  r \in Rows /\ r.id \in 1 .. count' /\ r.time \in 1 .. now'
      BY <2>1 DEF TypeOK
    <3>2. ASSUME NEW r, r = [id |-> count + 1, time |-> now', connected |-> TRUE]
          PROVE  r \in Rows /\ r.id \in 1 .. count' /\ r.time \in 1 .. now'
      BY <2>1, <3>2 DEF TypeOK, Rows
    <3>3. QED
      BY <2>2, <3>1, <3>2
  <2>4. \A s \in Sessions : synctime[s] <= now'
    BY <2>1 DEF TypeOK
  <2>5. QED
    BY <1>1, <2>1, <2>3, <2>4 DEF TypeOK, session
<1>3. ASSUME NEW r \in rows, Disconnect(r) PROVE TypeOK'
  <2>1. \A q \in rows' : q \in rows \/ q = [r EXCEPT !.connected = FALSE]
    BY <1>3 DEF Disconnect
  <2>2. rows' \subseteq Rows /\ \A q \in rows' : q.id \in 1 .. count /\ q.time \in 1 .. now
    BY <2>1 DEF TypeOK, Rows
  <2>3. UNCHANGED <<count, now, avail>>
    BY <1>3 DEF Disconnect
  <2>4. QED
    BY <1>1, <2>2, <2>3 DEF TypeOK, session
<1>4. ASSUME Purge PROVE TypeOK'
  BY <1>1, <1>4 DEF Purge, TypeOK, session
<1>5. QED
  BY <1>1, <1>2, <1>3, <1>4

\* A handler leaves the queue: what is behind it stays as it was.
LEMMA QueueTail ==
  ASSUME TypeOK, QueueInv, NEW s \in Sessions, tcpq # <<>>, Head(tcpq).of = s,
         tcpq' = Tail(tcpq), \A t \in Sessions \ {s} : sock'[t] = sock[t]
  PROVE  QueueInv' /\ tcpq' \in Seq(Handlers)
<1>1. /\ Head(tcpq) = tcpq[1] /\ 1 \in DOMAIN tcpq /\ tcpq' \in Seq(Handlers)
      /\ \A i \in DOMAIN tcpq' :
           i \in Nat \ {0} /\ i + 1 \in DOMAIN tcpq /\ tcpq'[i] = tcpq[i + 1]
  BY TailHandlers DEF TypeOK
<1>2. \A i \in DOMAIN tcpq' : tcpq[i + 1].of # s
  BY <1>1 DEF QueueInv
<1>3. \A i \in DOMAIN tcpq : tcpq[i].of \in Sessions
  BY QueuedAreHandlers
<1>4. \A i \in DOMAIN tcpq' : tcpq'[i].kind = "uuidread" /\ sock'[tcpq'[i].of] = "none"
  BY <1>1, <1>2, <1>3 DEF QueueInv
<1>5. \A i, j \in DOMAIN tcpq' : tcpq'[i].of = tcpq'[j].of => i = j
  BY <1>1 DEF QueueInv
<1>6. QED
  BY <1>1, <1>4, <1>5 DEF QueueInv

LEMMA ArrivalKeepsInv ==
  ASSUME SessInv, NEW s \in Sessions, UuidArrives(s)
  PROVE  SessInv'
<1>1. UuidRead(s) \in Handlers /\ UuidRead(s).kind = "uuidread" /\ UuidRead(s).of = s
  BY DEF UuidRead, Handlers
<1>2. /\ tcpq' \in Seq(Handlers)
      /\ \A i \in DOMAIN tcpq' : \/ i \in DOMAIN tcpq /\ tcpq'[i] = tcpq[i]
                                 \/ i = Len(tcpq) + 1 /\ tcpq'[i] = UuidRead(s)
  <2>1. tcpq' = Append(tcpq, UuidRead(s)) /\ tcpq \in Seq(Handlers)
    BY DEF UuidArrives, SessInv, TypeOK
  <2>2. /\ tcpq' \in Seq(Handlers) /\ Len(tcpq') = Len(tcpq) + 1
        /\ \A i \in 1 .. Len(tcpq) : tcpq'[i] = tcpq[i]
        /\ tcpq'[Len(tcpq) + 1] = UuidRead(s)
    BY <1>1, <2>1, AppendProperties
  <2>3. DOMAIN tcpq' = 1 .. Len(tcpq) + 1 /\ DOMAIN tcpq = 1 .. Len(tcpq)
    BY <2>1, <2>2
  <2>4. QED
    BY <2>2, <2>3
<1>3. \A i \in DOMAIN tcpq : tcpq[i].of # s
  <2>1. \A i \in DOMAIN tcpq : tcpq[i] # UuidRead(s)
    BY DEF UuidArrives, ToSet
  <2>2. \A i \in DOMAIN tcpq : tcpq[i] \in Handlers /\ tcpq[i].kind = "uuidread"
    BY QueuedAreHandlers DEF SessInv, QueueInv
  <2>3. QED
    BY <2>1, <2>2 DEF Handlers, UuidRead
<1>4. UNCHANGED <<table, avail, session, thrown>> /\ sock[s] = "none"
  BY DEF UuidArrives
<1>5. TypeOK'
  BY <1>2, <1>4 DEF SessInv, TypeOK, table, session
<1>6. QueueInv'
  <2>1. \A i \in DOMAIN tcpq' : tcpq'[i].kind = "uuidread" /\ sock'[tcpq'[i].of] = "none"
    BY <1>1, <1>2, <1>4 DEF SessInv, QueueInv, session
  <2>2. \A i, j \in DOMAIN tcpq' : tcpq'[i].of = tcpq'[j].of => i = j
    BY <1>1, <1>2, <1>3 DEF SessInv, QueueInv
  <2>3. QED
    BY <2>1, <2>2 DEF QueueInv
<1>7. SetInv'
  BY <1>4 DEF SessInv, SetInv, InSet, session
<1>8. QED
  BY <1>5, <1>6, <1>7 DEF SessInv

LEMMA StartKeepsInv ==
  ASSUME SessInv, NEW s \in Sessions, PollSync(s)
  PROVE  SessInv'
<1>1. /\ tcpq # <<>> /\ Head(tcpq).of = s /\ tcpq' = Tail(tcpq)
      /\ InSet = {} /\ told[s] = <<>> /\ synctime[s] = NoTime
      /\ sock' = [sock EXCEPT ![s] = "open"]
      /\ enqueued' = [enqueued EXCEPT ![s] = TRUE]
      /\ thrown' = thrown /\ UNCHANGED <<table, avail>>
  BY SyncIsStart DEF UuidRead
<1>2. /\ sock' \in [Sessions -> {"none", "open", "closed", "refused"}]
      /\ enqueued' \in [Sessions -> BOOLEAN] /\ thrown' \in BOOLEAN
      /\ sock'[s] = "open" /\ \A t \in Sessions \ {s} : sock'[t] = sock[t]
  BY <1>1 DEF SessInv, TypeOK
<1>3. QueueInv' /\ tcpq' \in Seq(Handlers)
  BY <1>1, <1>2, QueueTail DEF SessInv
<1>4. /\ out' \in [Sessions -> {"free", "busy"}] /\ told' \in [Sessions -> Seq(Nat)]
      /\ synctime' \in [Sessions -> Nat] /\ \A t \in Sessions : synctime'[t] <= now
      /\ Len(told'[s]) <= 1
      /\ \A t \in Sessions \ {s} :
           out'[t] = out[t] /\ told'[t] = told[t] /\ synctime'[t] = synctime[t]
  <2>1. CASE /\ SetSyncTime(s, Latest(NoTime, PassedOver(NoTime)))
             /\ UNCHANGED <<out, told>>
    <3>1. NoTime \in Nat /\ NoTime <= now /\ PassedOver(NoTime) \in SUBSET rows
      BY CandidatesAreRows DEF NoTime, SessInv, TypeOK
    <3>2. /\ Latest(NoTime, PassedOver(NoTime)) \in Nat
          /\ Latest(NoTime, PassedOver(NoTime)) <= now
      BY <3>1, LatestIsTime DEF SessInv
    <3>3. QED
      BY <2>1, <3>2 DEF SetSyncTime, SessInv, TypeOK, SetInv
  <2>2. ASSUME NEW r \in FirstOf(Candidates(NoTime)),
               out' = [out EXCEPT ![s] = "busy"],
               told' = [told EXCEPT ![s] = Append(@, r.id)],
               SetSyncTime(s, r.time)
        PROVE  <1>4!:
    <3>1. r.id \in Nat /\ r.time \in Nat /\ r.time <= now
      BY CandidatesAreRows DEF SessInv, TypeOK, Rows
    <3>2. Append(told[s], r.id) \in Seq(Nat) /\ Len(Append(told[s], r.id)) = 1
      BY <1>1, <3>1, EmptySeq, AppendProperties DEF SessInv, TypeOK
    <3>3. QED
      BY <2>2, <3>1, <3>2 DEF SetSyncTime, SessInv, TypeOK
  <2>3. QED
    BY <2>1, <2>2, SyncIsStart
<1>5. TypeOK'
  BY <1>1, <1>2, <1>3, <1>4 DEF SessInv, TypeOK, table
<1>6. SetInv'
  <2>1. InSet' = {s}
    BY <1>1, <1>2 DEF InSet
  <2>2. enqueued'[s]
    BY <1>1 DEF SessInv, TypeOK
  <2>3. \A t \in Sessions \ InSet' :
          out'[t] = "free" /\ told'[t] = <<>> /\ synctime'[t] = NoTime
    BY <1>1, <1>4, <2>1 DEF SessInv, SetInv
  <2>4. ~ thrown' /\ \A t \in Sessions : Len(told'[t]) <= 1
    BY <1>1, <1>4 DEF SessInv, SetInv
  <2>5. QED
    BY <2>1, <2>2, <2>3, <2>4 DEF SetInv
<1>7. QED
  BY <1>3, <1>5, <1>6 DEF SessInv

LEMMA SessInvNext == SessInv /\ [Next]_vars => SessInv'
<1> SUFFICES ASSUME SessInv, [Next]_vars PROVE SessInv'
  OBVIOUS
<1>1. CASE Connect \/ (\E r \in rows : Disconnect(r)) \/ Purge
  BY <1>1, TableType, TableStep DEF SessInv
<1>2. CASE OnLocalNodeAvailable
  <2>1. UNCHANGED <<tcpq, session, thrown, table>>
    BY <1>2, AvailableDoesNothing DEF OnLocalNodeAvailable, session
  <2>2. avail' \in Nat
    BY <1>2 DEF OnLocalNodeAvailable, SessInv, TypeOK
  <2>3. TypeOK'
    BY <2>1, <2>2 DEF SessInv, TypeOK, session, table
  <2>4. QED
    BY <2>1, <2>3, TableStep
<1>3. ASSUME NEW s \in Sessions, PollRefused(s) PROVE SessInv'
  <2>1. /\ tcpq # <<>> /\ Head(tcpq).of = s /\ tcpq' = Tail(tcpq)
        /\ sock' = [sock EXCEPT ![s] = "refused"]
        /\ UNCHANGED <<table, avail, enqueued, synctime, out, told, thrown>>
    BY <1>3 DEF PollRefused, UuidRead
  <2>2. QueueInv' /\ tcpq' \in Seq(Handlers)
    BY <2>1, QueueTail DEF SessInv, TypeOK
  <2>3. TypeOK'
    BY <2>1, <2>2 DEF SessInv, TypeOK, table
  <2>4. sock[s] = "none"
    BY <2>1, TailHandlers DEF SessInv, TypeOK, QueueInv
  <2>5. InSet' = InSet
    BY <2>1, <2>4 DEF InSet, SessInv, TypeOK
  <2>6. QED
    BY <2>1, <2>2, <2>3, <2>5 DEF SessInv, SetInv
<1>4. ASSUME NEW s \in Sessions, SendFinishes(s) \/ SendFails(s) PROVE SessInv'
  <2>1. s \in InSet /\ sock[s] = "open"
    BY <1>4 DEF SendFinishes, SendFails, InSet
  <2>2. /\ InSet' = InSet
        /\ \A t \in Sessions : sock[t] = "none" => sock'[t] = "none"
        /\ \A t \in Sessions \ {s} : out'[t] = out[t]
    BY <1>4, <2>1 DEF SendFinishes, SendFails, InSet, SessInv, TypeOK
  <2>3. TypeOK'
    BY <1>4 DEF SendFinishes, SendFails, SessInv, TypeOK, table
  <2>4. UNCHANGED <<tcpq, enqueued, synctime, told, thrown>>
    BY <1>4 DEF SendFinishes, SendFails
  <2>5. QueueInv'
    <3>1. \A i \in DOMAIN tcpq : tcpq[i].of \in Sessions
      BY QueuedAreHandlers DEF SessInv
    <3>2. QED
      BY <2>2, <2>4, <3>1 DEF SessInv, QueueInv
  <2>6. SetInv'
    BY <2>1, <2>2, <2>4 DEF SessInv, SetInv
  <2>7. QED
    BY <2>3, <2>5, <2>6 DEF SessInv
<1>5. CASE UNCHANGED vars
  BY <1>5 DEF vars, table, session, SessInv, TypeOK, QueueInv, SetInv, InSet
<1>6. QED
  BY <1>1, <1>2, <1>3, <1>4, <1>5, ArrivalKeepsInv, StartKeepsInv DEF Next

LEMMA SessInvHolds == Spec => []SessInv
  BY SessInvInit, SessInvNext, PTL DEF Spec

\* The types of SessionSync's variables, that ids and times of the table were given out
\* and that no session is ahead of the clock.
THEOREM TypeCorrect == Spec => []TypeOK
<1>1. SessInv => TypeOK
  BY DEF SessInv
<1>2. QED
  BY <1>1, SessInvHolds, PTL

\* send never throws EFAULT out of Worker: nothing is sent but at a session's start.
THEOREM NoBusySendHolds == Spec => []NoBusySend
<1>1. SessInv => NoBusySend
  BY DEF SessInv, SetInv, NoBusySend
<1>2. QED
  BY <1>1, SessInvHolds, PTL

\* OnLocalNodeAvailable queues nothing and changes no session, whichever node it is
\* called for: tcp.cpp:45-47 finds every session of the set marked as enqueued.
THEOREM AvailableIsIdleHolds == Spec => AvailableIsIdle
<1>1. SessInv /\ [Next]_vars => [OnLocalNodeAvailable => UNCHANGED <<tcpq, session>>]_vars
  <2> SUFFICES ASSUME SessInv, OnLocalNodeAvailable PROVE UNCHANGED <<tcpq, session>>
    OBVIOUS
  <2>1. UNCHANGED <<tcpq, enqueued>>
    BY AvailableDoesNothing
  <2>2. UNCHANGED <<sock, synctime, out, told>>
    BY DEF OnLocalNodeAvailable
  <2>3. QED
    BY <2>1, <2>2 DEF session
<1>2. QED
  BY <1>1, SessInvHolds, PTL DEF Spec, AvailableIsIdle

\* At most one session has told its peer of a node, and of one.
LEMMA InvHasOneAnnouncement == SessInv => OneAnnouncement
<1> SUFFICES ASSUME SessInv PROVE OneAnnouncement
  OBVIOUS
<1> DEFINE Sent == {si \in Sessions \X (1 .. count) : si[2] \in DOMAIN told[si[1]]}
<1>1. \A si \in Sent : si[1] \in InSet /\ si[2] = 1 /\ si = <<si[1], si[2]>>
  <2> SUFFICES ASSUME NEW s \in Sessions, NEW i \in 1 .. count, i \in DOMAIN told[s]
               PROVE  s \in InSet /\ i = 1
    OBVIOUS
  <2>1. told[s] \in Seq(Nat) /\ Len(told[s]) <= 1
    BY DEF SessInv, SetInv, TypeOK
  <2>2. i \in 1 .. Len(told[s])
    BY <2>1
  <2>3. i = 1 /\ told[s] # <<>>
    BY <2>1, <2>2
  <2>4. QED
    BY <2>3 DEF SessInv, SetInv
<1>2. \A si, tj \in Sent : si = tj
  BY <1>1 DEF SessInv, SetInv
<1>3. Cardinality(Sent) <= 1
  <2> HIDE DEF Sent
  <2>1. CASE Sent = {}
    BY <2>1, FS_EmptySet
  <2>2. CASE Sent # {}
    <3>1. PICK si : Sent = {si}
      BY <1>2, <2>2
    <3>2. Cardinality(Sent) = 1
      BY <3>1, FS_Singleton
    <3>3. QED
      BY <3>2
  <2>3. QED
    BY <2>1, <2>2
<1>4. QED
  BY <1>3 DEF OneAnnouncement

\* In its life a process announces at most one node, to one peer.
THEOREM OneAnnouncementHolds == Spec => []OneAnnouncement
<1>1. QED
  BY InvHasOneAnnouncement, SessInvHolds, PTL

-----------------------------------------------------------------------------
(* Which nodes are skipped.  When no two nodes connect within one tick of  *)
(* the clock, what lies behind the node that was told of is every other    *)
(* connected one.                                                          *)

TimesDiffer == \A q, r \in rows : q.id = r.id \/ q.time = r.time => q = r

SkipInv == TimesDiffer /\ NoneSkipped

LEMMA TimesDifferNext ==
  ASSUME ClockAdvances, TypeOK, TimesDiffer, [Next]_vars
  PROVE  TimesDiffer'
<1>1. ASSUME Connect PROVE TimesDiffer'
  <2>1. /\ now' = now + 1 /\ count' = count + 1
        /\ \A r \in rows' :
             r \in rows \/ r = [id |-> count + 1, time |-> now', connected |-> TRUE]
    BY <1>1 DEF Connect
  <2>2. \A r \in rows : r.id # count + 1 /\ r.time # now'
    BY <2>1 DEF TypeOK
  <2>3. ASSUME NEW q \in rows', NEW r \in rows', q.id = r.id \/ q.time = r.time
        PROVE  q = r
    <3> DEFINE new == [id |-> count + 1, time |-> now', connected |-> TRUE]
    <3>1. new.id = count + 1 /\ new.time = now'
      OBVIOUS
    <3>2. (q \in rows \/ q = new) /\ (r \in rows \/ r = new)
      BY <2>1
    <3>3. QED
      <4> HIDE DEF new
      <4>1. QED
        BY <2>2, <2>3, <3>1, <3>2 DEF TimesDiffer
  <2>4. QED
    BY <2>3 DEF TimesDiffer
<1>2. ASSUME NEW r \in rows, Disconnect(r) PROVE TimesDiffer'
  <2> DEFINE gone == [r EXCEPT !.connected = FALSE]
  <2>1. gone.id = r.id /\ gone.time = r.time
    BY DEF TypeOK, Rows
  <2>2. \A q \in rows' : q = gone \/ (q \in rows /\ q # r)
    BY <1>2 DEF Disconnect
  <2>3. QED
    <3> HIDE DEF gone
    <3>1. QED
      BY <2>1, <2>2 DEF TimesDiffer
<1>3. ASSUME Purge PROVE TimesDiffer'
  BY <1>3 DEF Purge, TimesDiffer
<1>4. CASE rows' = rows
  BY <1>4 DEF TimesDiffer
<1>5. QED
  BY <1>1, <1>2, <1>3, <1>4
     DEF Next, OnLocalNodeAvailable, UuidArrives, PollSync, PollRefused, SendFinishes,
         SendFails, table, vars

\* The table changes: a new row is behind every session, and no other gets connected.
LEMMA TableSkipsNone ==
  ASSUME TypeOK, NoneSkipped, ClockAdvances,
         Connect \/ (\E r \in rows : Disconnect(r)) \/ Purge
  PROVE  NoneSkipped'
<1>1. UNCHANGED <<sock, told, synctime>>
  BY DEF Connect, Disconnect, Purge, session
<1>2. ASSUME NEW s \in Sessions, NEW r \in rows', r.connected
      PROVE  r \in rows \/ r.time > synctime[s]
  <2>1. CASE Connect
    <3>1. r \in rows \/ (r.time = now + 1 /\ synctime[s] <= now)
      BY <2>1 DEF Connect, TypeOK
    <3>2. QED
      BY <3>1 DEF TypeOK
  <2>2. CASE \E q \in rows : Disconnect(q)
    <3>1. PICK q \in rows : Disconnect(q)
      BY <2>2
    <3>2. r # [q EXCEPT !.connected = FALSE]
      BY <1>2 DEF TypeOK, Rows
    <3>3. QED
      BY <3>1, <3>2 DEF Disconnect
  <2>3. CASE Purge
    BY <2>3 DEF Purge
  <2>4. QED
    BY <2>1, <2>2, <2>3
<1>3. QED
  BY <1>1, <1>2 DEF NoneSkipped, RangeByCreated

\* The first connected node is told of, and the others lie behind it.
LEMMA StartSkipsNone ==
  ASSUME SessInv, TimesDiffer, NEW s \in Sessions, PollSync(s)
  PROVE  NoneSkipped'
<1>1. /\ rows' = rows /\ InSet = {} /\ told[s] = <<>>
      /\ sock' = [sock EXCEPT ![s] = "open"]
  BY SyncIsStart DEF table
<1>2. \A t \in Sessions : sock'[t] = "open" => t = s
  BY <1>1 DEF InSet, SessInv, TypeOK
<1>3. Candidates(NoTime) = {r \in rows : r.connected}
  BY DEF Candidates, Visited, RangeByCreated, TimesDiffer, SessInv, TypeOK
<1>4. CASE Candidates(NoTime) = {}
  BY <1>1, <1>3, <1>4 DEF NoneSkipped
<1>5. ASSUME NEW r \in FirstOf(Candidates(NoTime)),
             told' = [told EXCEPT ![s] = Append(@, r.id)], SetSyncTime(s, r.time)
      PROVE  NoneSkipped'
  <2>1. r \in rows /\ r.id \in Nat /\ r.time \in Nat
        /\ \A c \in rows : c.connected => r.time <= c.time
    BY <1>3 DEF FirstOf, SessInv, TypeOK, Rows
  <2>2. synctime'[s] = r.time /\ told'[s] = Append(<<>>, r.id)
    BY <1>1, <1>5 DEF SetSyncTime, SessInv, TypeOK
  <2>3. 1 \in DOMAIN told'[s] /\ told'[s][1] = r.id
    BY <2>1, <2>2
  <2>4. ASSUME NEW c \in rows, c.connected, \A i \in DOMAIN told'[s] : told'[s][i] # c.id
        PROVE  r.time < c.time
    <3>1. c # r /\ r.time <= c.time /\ c.time \in Nat
      BY <2>1, <2>3, <2>4 DEF SessInv, TypeOK, Rows
    <3>2. QED
      BY <2>1, <3>1 DEF TimesDiffer
  <2>5. QED
    BY <1>1, <1>2, <2>2, <2>4 DEF NoneSkipped, RangeByCreated
<1>6. QED
  BY <1>4, <1>5, SyncIsStart

LEMMA SkipInvNext ==
  ASSUME ClockAdvances
  PROVE  SessInv /\ SkipInv /\ [Next]_vars => SkipInv'
<1> SUFFICES ASSUME SessInv, SkipInv, [Next]_vars PROVE SkipInv'
  OBVIOUS
<1>1. TimesDiffer'
  BY TimesDifferNext DEF SessInv, SkipInv
<1>2. CASE Connect \/ (\E r \in rows : Disconnect(r)) \/ Purge
  BY <1>1, <1>2, TableSkipsNone DEF SessInv, SkipInv
<1>3. ASSUME NEW s \in Sessions, PollSync(s) PROVE NoneSkipped'
  BY <1>3, StartSkipsNone DEF SkipInv
<1>4. ASSUME \/ OnLocalNodeAvailable
             \/ \E s \in Sessions : \/ UuidArrives(s) \/ PollRefused(s)
                                   \/ SendFinishes(s) \/ SendFails(s)
             \/ UNCHANGED vars
      PROVE  NoneSkipped'
  <2>1. UNCHANGED <<rows, told, synctime>>
    BY <1>4 DEF OnLocalNodeAvailable, UuidArrives, PollRefused, SendFinishes, SendFails,
                table, session, vars
  <2>2. \A s \in Sessions : sock'[s] = "open" => sock[s] = "open"
    BY <1>4 DEF OnLocalNodeAvailable, UuidArrives, PollRefused, SendFinishes, SendFails,
                session, vars, SessInv, TypeOK
  <2>3. QED
    BY <2>1, <2>2 DEF SkipInv, NoneSkipped, RangeByCreated
<1>5. QED
  BY <1>1, <1>2, <1>3, <1>4 DEF SkipInv, Next

\* With time stamps that differ, a connected node that an open session's peer was not
\* told of lies in the range of the session's next synchronisation.
THEOREM NoneSkippedHolds ==
  ASSUME ClockAdvances
  PROVE  Spec => []NoneSkipped
<1>1. Init => SkipInv
  BY DEF Init, SkipInv, TimesDiffer, NoneSkipped
<1>2. SkipInv => NoneSkipped
  BY DEF SkipInv
<1>3. SessInv /\ SkipInv /\ [Next]_vars => SkipInv'
  BY SkipInvNext
<1>4. QED
  BY <1>1, <1>2, <1>3, SessInvHolds, PTL DEF Spec

-----------------------------------------------------------------------------
(* The refinement.                                                         *)

LiveIds == {r.id : r \in {x \in rows : x.connected}}

\* Every step of the sessions is one of NodeSync or changes nothing it has.
LEMMA SyncStep ==
  ASSUME SessInv, [Next]_vars
  PROVE  NS!SyncNext \/ UNCHANGED <<LiveIds, count, told>>
<1> USE DEF NS!SyncNext, LiveIds
<1>1. ASSUME Connect PROVE NS!NodeArrives
  <2>1. UNCHANGED told /\ count' = count + 1
    BY <1>1 DEF Connect, session
  <2>2. \/ rows' = rows
        \/ rows' = rows \cup {[id |-> count + 1, time |-> now', connected |-> TRUE]}
    BY <1>1 DEF Connect
  <2>3. LiveIds' \in {LiveIds, LiveIds \cup {count + 1}}
    BY <2>2
  <2>4. QED
    BY <2>1, <2>3 DEF NS!NodeArrives
<1>2. ASSUME (\E r \in rows : Disconnect(r)) \/ Purge PROVE NS!NodesLeave
  <2>1. UNCHANGED <<told, count>>
    BY <1>2 DEF Disconnect, Purge, session
  <2>2. \A q \in rows' : q.connected => q \in rows
    BY <1>2 DEF Disconnect, Purge, SessInv, TypeOK, Rows
  <2>3. LiveIds' \in SUBSET LiveIds
    BY <2>2
  <2>4. QED
    BY <2>1, <2>3 DEF NS!NodesLeave
<1>3. ASSUME NEW s \in Sessions, PollSync(s)
      PROVE  NS!SyncNext \/ UNCHANGED <<LiveIds, count, told>>
  <2>1. rows' = rows /\ count' = count /\ told[s] = <<>>
    BY <1>3, SyncIsStart DEF table
  <2>2. CASE told' = told
    BY <2>1, <2>2
  <2>3. ASSUME NEW r \in FirstOf(Candidates(NoTime)),
               told' = [told EXCEPT ![s] = Append(@, r.id)]
        PROVE  NS!Tell(s, r.id) /\ r.id \in LiveIds
    <3>1. r \in rows /\ r.connected
      BY CandidatesAreRows DEF Candidates
    <3>2. r.id \in LiveIds
      BY <3>1
    <3>3. \A i \in DOMAIN told[s] : told[s][i] < r.id
      BY <2>1
    <3>4. QED
      BY <2>1, <2>3, <3>2, <3>3 DEF NS!Tell
  <2>4. QED
    BY <1>3, <2>2, <2>3, SyncIsStart
<1>4. CASE \/ OnLocalNodeAvailable
           \/ \E s \in Sessions : \/ UuidArrives(s) \/ PollRefused(s)
                                 \/ SendFinishes(s) \/ SendFails(s)
           \/ UNCHANGED vars
  BY <1>4 DEF OnLocalNodeAvailable, UuidArrives, PollRefused, SendFinishes, SendFails,
              table, session, vars
<1>5. QED
  BY <1>1, <1>2, <1>3, <1>4 DEF Next

\* Peers are told of connected nodes only, in the order they connected and of each at
\* most once, whatever the clock does.
THEOREM ImplementsNodeSyncHolds == Spec => ImplementsNodeSync
<1>1. Init => NS!SyncInit
  BY DEF Init, NS!SyncInit
<1>2. SessInv /\ [Next]_vars => NS!SyncNext \/ UNCHANGED <<LiveIds, count, told>>
  BY SyncStep
<1>3. SessInv /\ [Next]_vars
        => [NS!SyncNext]_<<{r.id : r \in {x \in rows : x.connected}}, count, told>>
  BY <1>2 DEF LiveIds
<1>4. QED
  BY <1>1, <1>3, SessInvHolds, PTL DEF Spec, ImplementsNodeSync, NS!SyncSpec
=============================================================================
