----------------------------- MODULE MCCsmModes -----------------------------
(***************************************************************************)
(* Four ways to use one system.  In mode "sharing" two PEs work at the     *)
(* same time and the host creates data at one page; in mode "overlap" two  *)
(* PEs work at the same time on regions that may overlap, the borrower     *)
(* owns regions as well, and APTs stay; in mode "sequential" one PE does   *)
(* one call after the other and the host creates and destroys data at      *)
(* every page of a region; in mode "realms" one PE does one call after the *)
(* other, every realm may own and borrow, and the host destroys realms and *)
(* creates them again.                                                     *)
(***************************************************************************)
EXTENDS MCCsm

VARIABLE mode

Sharing == INSTANCE Csm WITH HostOps <- {"data_create"}
Overlap == INSTANCE Csm WITH HostOps <- {}, Owner <- Realm
Sequential == INSTANCE Csm WITH HostOps <- {"data_create", "data_destroy"}
Realms == INSTANCE Csm WITH HostOps <- {"realm_destroy"}, Owner <- Realm

Mode == {"sharing", "overlap", "sequential", "realms"}

MCInit == mode \in Mode /\ Init

\* Every region starts at page 0, and is asked for there.
AtZero ==
  /\ \A g \in AptGranule :
       (\A i \in RegionId : master[g][i].ipa = 0) /\ (\A i \in Slots : slave[g][i].ipa = 0)
  /\ \A p \in PE : pe[p].op = "reserve" => pe[p].ipa = 0

\* Data only at the first n pages.
DataBelow(n) == \A r \in Realm : \A i \in Ipa : i >= n => s2[r][i] = NoData

OneAtATime == \A p, q \in PE : p # q => IsIdle(p) \/ IsIdle(q)

\* The bound of each mode.
Small ==
  /\ mode = "sharing" => AtZero /\ DataBelow(1) /\ ids \subseteq {1} /\ Cardinality({d \in Data : gs[d] = "DATA"}) < 2
  /\ mode = "overlap" => \A p \in PE : pe[p].op \in {"none", "share", "reserve", "detach"}
  /\ mode = "sequential" => OneAtATime /\ AtZero /\ DataBelow(2) /\ ids \subseteq {1}
  /\ mode = "realms" => OneAtATime /\ AtZero

MCNext ==
  /\ \/ mode = "sharing" /\ Sharing!Next
     \/ mode = "overlap" /\ Overlap!Next
     \/ mode = "sequential" /\ Sequential!Next
     \/ mode = "realms" /\ Realms!Next
  /\ UNCHANGED mode
  /\ Small'

MCSpec == MCInit /\ [][MCNext]_<<mode, vars>>
=============================================================================
