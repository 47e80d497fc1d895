------------------------------- MODULE MCRmm -------------------------------
(***************************************************************************)
(* Small instances of the object life cycle.  The host's arguments are the *)
(* bounds: which granules it names as RD, table, REC or auxiliary granule, *)
(* chosen so that the same granule is wanted in several roles and in both  *)
(* address orders.                                                         *)
(***************************************************************************)
EXTENDS Rmm

CONSTANTS v1, v2

NoParams == {}

\* RECs: one starting-level table, RECs with one auxiliary granule.
RecRealmParams ==
  {[rd |-> 1, base |-> 2, num |-> 1, vmid |-> v1], [rd |-> 3, base |-> 2, num |-> 1, vmid |-> v1]}

RecRecParams ==
  {[rd |-> 1, rec |-> r, idx |-> i, aux |-> <<7 - r>>, naux |-> 1] : r \in {3, 4}, i \in 0..1}
  \cup {[rd |-> 3, rec |-> 1, idx |-> 0, aux |-> <<4>>, naux |-> 1],
        [rd |-> 1, rec |-> 4, idx |-> 0, aux |-> <<0>>, naux |-> 0]}

\* Three RECs for one realm of which two fit, with indices that are next or given out.
RecsRealmParams == {[rd |-> 1, base |-> 2, num |-> 1, vmid |-> v1]}

RecsRecParams ==
  {[rd |-> 1, rec |-> x[1], idx |-> x[2], aux |-> <<>>, naux |-> 0] :
     x \in {<<3, 0>>, <<4, 0>>, <<4, 1>>, <<5, 2>>}}

\* Realms: two concatenated starting-level tables, VMIDs in competition, aliased arguments.
RealmRealmParams ==
  {[rd |-> 1, base |-> 2, num |-> 2, vmid |-> v1], [rd |-> 4, base |-> 2, num |-> 2, vmid |-> v1],
   [rd |-> 5, base |-> 4, num |-> 1, vmid |-> v1], [rd |-> 4, base |-> 5, num |-> 1, vmid |-> v2],
   [rd |-> 3, base |-> 2, num |-> 2, vmid |-> v2]}

RealmRttParams ==
  {[rd |-> 1, rtt |-> 4, k |-> 0], [rd |-> 1, rtt |-> 5, k |-> 1], [rd |-> 1, rtt |-> 4, k |-> 1],
   [rd |-> 4, rtt |-> 1, k |-> 1],
   [rd |-> 4, rtt |-> 4, k |-> 0]}

\* An auxiliary list whose second granule is not DELEGATED any more.
TwoAuxRecParams == {[rd |-> 1, rec |-> 3, idx |-> 0, aux |-> <<4, 4>>, naux |-> 2]}
=============================================================================
