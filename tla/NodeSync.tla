------------------------------ MODULE NodeSync ------------------------------
(***************************************************************************)
(* What the synchronisation of nodes to a remote host promises, seen from  *)
(* the host that owns the nodes: each session tells its peer of nodes that *)
(* are connected at that moment, in the order they connected, each once.   *)
(*                                                                         *)
(* It does not say that every node is told of: SessionSync's properties    *)
(* say which are.                                                          *)
(***************************************************************************)
EXTENDS Naturals, Sequences

CONSTANT Sessions

VARIABLES
  live,   \* the ids of the nodes that are connected and in the table
  count,  \* ids are given out in order: the last one
  told    \* per session: the ids its peer has been told of, in order

\* A connect may be refused, but uses up an id.
NodeArrives ==
  /\ count' = count + 1
  /\ live' \in {live, live \cup {count + 1}}
  /\ UNCHANGED told

NodesLeave ==
  /\ live' \in SUBSET live
  /\ UNCHANGED <<count, told>>

Tell(s, id) ==
  /\ id \in live
  /\ \A i \in DOMAIN told[s] : told[s][i] < id
  /\ told' = [told EXCEPT ![s] = Append(@, id)]
  /\ UNCHANGED <<live, count>>

SyncInit == live = {} /\ count = 0 /\ told = [s \in Sessions |-> <<>>]

SyncNext ==
  \/ NodeArrives
  \/ NodesLeave
  \/ \E s \in Sessions : \E id \in live : Tell(s, id)

SyncSpec == SyncInit /\ [][SyncNext]_<<live, count, told>>

=============================================================================
