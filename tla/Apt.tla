-------------------------------- MODULE Apt --------------------------------
(***************************************************************************)
(* The access permission table of one realm (runtime/include/apt.h,        *)
(* runtime/core/apt_helpers.c): the regions the realm owns (master) and    *)
(* the regions it borrows (slave).  Each kind has an array of records, a   *)
(* mask of the used ones, a mask of the enabled ones, and a packed list of *)
(* the enabled ones with its inverse.  The table is only touched under the *)
(* lock of its granule, so each operation is one step; the operations are  *)
(* the ways the shared-memory calls use the table.                         *)
(*                                                                         *)
(* Addresses and sizes are in granules and wrap at AddressSpace, as        *)
(* unsigned long does.                                                     *)
(***************************************************************************)
EXTENDS Integers, FiniteSets

CONSTANTS
  MaxRegions,     \* MAX_MEM_REGIONS
  MaxShares,      \* CSM_MAX_MASTER_SHARES
  AddressSpace,   \* number of granule addresses of an unsigned long
  AptRegion,       \* identifiers of regions
  SlaveId,        \* tags of realms a region may be shared with
  NoId,           \* the zero of a cleared record
  Request           \* the [base, size] pairs realms ask for

ASSUME AptAssumption ==
  /\ MaxRegions \in Nat \ {0}
  /\ MaxShares \in Nat
  /\ AddressSpace \in Nat \ {0}
  /\ NoId \notin AptRegion /\ NoId \notin SlaveId
  /\ Request \subseteq [base : 0..(AddressSpace - 1), size : 1..(AddressSpace - 1)]

Kinds == {"master", "slave"}

Slots == 0..(MaxRegions - 1)

ShareSlots == 1..MaxShares

VARIABLES
  used,      \* master_used_mask, slave_used_mask
  enabled,   \* master_enabled_mask, slave_enabled_mask
  len,       \* enabled_mr.len, enabled_sr.len
  index,     \* enabled position -> region slot
  pos,       \* pos_by_index: region slot -> enabled position
  region     \* master_memory, slave_memory

aptVars == <<used, enabled, len, index, pos, region>>

NoShares == [s \in ShareSlots |-> NoId]

Cleared == [id |-> NoId, base |-> 0, size |-> 0, share_count |-> 0, shares |-> NoShares]

Zeroed(values) == [k \in Kinds |-> [i \in Slots |-> values]]

NoSlots == [k \in Kinds |-> {}]

AptInit ==
  /\ used = NoSlots
  /\ enabled = NoSlots
  /\ len = [k \in Kinds |-> 0]
  /\ index = Zeroed(0)
  /\ pos = Zeroed(0)
  /\ region = Zeroed(Cleared)

\* memset of the whole table.
apt_reset ==
  /\ used' = NoSlots
  /\ enabled' = NoSlots
  /\ len' = [k \in Kinds |-> 0]
  /\ index' = Zeroed(0)
  /\ pos' = Zeroed(0)
  /\ region' = Zeroed(Cleared)

\* Mutant of first_free_from_mask: the walk takes a slot that is in use.
first_free_from_maskAny(k, i) == i \in Slots /\ (used[k] # {} => i \in used[k])

first_free_from_mask(k, i) == i \in Slots \ used[k] /\ \A j \in Slots \ used[k] : i <= j

(***************************************************************************)
(* range_overlaps_ul: an empty range meets nothing, a range that wraps     *)
(* meets everything.                                                       *)
(***************************************************************************)
Wrapped(x) == IF x < AddressSpace THEN x ELSE x - AddressSpace

range_overlaps_ul(a, s, b, t) ==
  LET aEnd == Wrapped(a + s)
      bEnd == Wrapped(b + t)
  IN  /\ s # 0 /\ t # 0
      /\ \/ aEnd < a \/ bEnd < b
         \/ ~(aEnd <= b \/ bEnd <= a)

\* Mutant of apt_find_enabled_conflict: reserve skips the master check, as create does.
apt_find_enabled_conflictSkipped(r, skip_master_check) ==
  \E p \in 0..(len["slave"] - 1) :
    LET s == region["slave"][index["slave"][p]] IN range_overlaps_ul(r.base, r.size, s.base, s.size)

(***************************************************************************)
(* apt_find_enabled_conflict walks the packed lists.                       *)
(***************************************************************************)
apt_find_enabled_conflict(r, skip_master_check) ==
  \E k \in Kinds :
    /\ k = "master" => ~skip_master_check
    /\ \E p \in 0..(len[k] - 1) :
         LET e == region[k][index[k][p]] IN range_overlaps_ul(r.base, r.size, e.base, e.size)

(***************************************************************************)
(* enable_push_*: append the slot to the packed list.                      *)
(***************************************************************************)
enable_push(k, i) ==
  /\ index' = [index EXCEPT ![k][len[k]] = i]
  /\ pos' = [pos EXCEPT ![k][i] = len[k]]
  /\ len' = [len EXCEPT ![k] = @ + 1]
  /\ enabled' = [enabled EXCEPT ![k] = @ \cup {i}]

\* Mutant of disable_swap_pop: the moved entry's inverse is not updated.
disable_swap_popStale(k, i) ==
  LET p    == pos[k][i]
      last == len[k] - 1
      j    == index[k][last]
  IN  /\ IF p # last
         THEN index' = [index EXCEPT ![k][p] = j] /\ pos' = pos
         ELSE UNCHANGED <<index, pos>>
      /\ len' = [len EXCEPT ![k] = last]
      /\ enabled' = [enabled EXCEPT ![k] = @ \ {i}]

(***************************************************************************)
(* disable_swap_pop_*: the last entry of the packed list takes the place   *)
(* of the removed one.                                                     *)
(***************************************************************************)
disable_swap_pop(k, i) ==
  LET p    == pos[k][i]
      last == len[k] - 1
      j    == index[k][last]
  IN  /\ IF p # last
         THEN index' = [index EXCEPT ![k][p] = j] /\ pos' = [pos EXCEPT ![k][j] = p]
         ELSE UNCHANGED <<index, pos>>
      /\ len' = [len EXCEPT ![k] = last]
      /\ enabled' = [enabled EXCEPT ![k] = @ \ {i}]

(***************************************************************************)
(* apt_add_master, apt_add_slave with enable_now: the first free slot, and *)
(* its position in the packed list unless the slot is still enabled.       *)
(***************************************************************************)
apt_add(k, id, r) ==
  \E i \in Slots :
    /\ first_free_from_mask(k, i)
    /\ region' = [region EXCEPT ![k][i] =
                    [id |-> id, base |-> r.base, size |-> r.size, share_count |-> 0, shares |-> NoShares]]
    /\ used' = [used EXCEPT ![k] = @ \cup {i}]
    /\ IF i \in enabled[k] THEN UNCHANGED <<enabled, len, index, pos>> ELSE enable_push(k, i)

(***************************************************************************)
(* apt_disable_*_idx followed by clearing the used bit, as every remover   *)
(* does.  Only RSI_CSM_DESTROY and RMI_APT_DESTROY also zero the record.   *)
(***************************************************************************)
RemoveSlot(k, i, zero) ==
  /\ used' = [used EXCEPT ![k] = @ \ {i}]
  /\ region' = IF zero THEN [region EXCEPT ![k][i] = Cleared] ELSE region
  /\ IF i \in enabled[k] THEN disable_swap_pop(k, i) ELSE UNCHANGED <<enabled, len, index, pos>>

FirstWithId(k, id, i) ==
  LET hits == {j \in used[k] : region[k][j].id = id} IN i \in hits /\ \A j \in hits : i <= j

-----------------------------------------------------------------------------
\* RSI_CSM_CREATE.  The identifier comes from the registry, which never hands
\* out one that is registered (module CsmRegionId).
CsmCreate(id, r) ==
  /\ ~\E i \in used["master"] : region["master"][i].id = id
  /\ ~apt_find_enabled_conflict(r, TRUE)
  /\ apt_add("master", id, r)

SetShare(m, s, slave, d) ==
  [id |-> m.id, base |-> m.base, size |-> m.size,
   share_count |-> m.share_count + d, shares |-> [m.shares EXCEPT ![s] = slave]]

\* Mutant of apt_master_add_share: the check for a share of the same slave is dropped.
apt_master_add_shareTwice(i, slave) ==
  \E s \in ShareSlots :
    /\ region["master"][i].shares[s] = NoId
    /\ \A t \in ShareSlots : t < s => region["master"][i].shares[t] # NoId
    /\ region' = [region EXCEPT !["master"][i] = SetShare(@, s, slave, 1)]

apt_master_add_share(i, slave) ==
  \E s \in ShareSlots :
    /\ \A t \in ShareSlots : region["master"][i].shares[t] # slave
    /\ region["master"][i].shares[s] = NoId
    /\ \A t \in ShareSlots : t < s => region["master"][i].shares[t] # NoId
    /\ region' = [region EXCEPT !["master"][i] = SetShare(@, s, slave, 1)]

CsmShare(id, slave) ==
  /\ \E i \in Slots : FirstWithId("master", id, i) /\ apt_master_add_share(i, slave)
  /\ UNCHANGED <<used, enabled, len, index, pos>>

\* The master's side of RSI_CSM_REVOKE, and of RMI_APT_DESTROY of a slave.
DropShare(id, slave) ==
  /\ \E i \in Slots, s \in ShareSlots :
       /\ FirstWithId("master", id, i)
       /\ region["master"][i].shares[s] = slave
       /\ region' = [region EXCEPT !["master"][i] = SetShare(@, s, NoId, -1)]
  /\ UNCHANGED <<used, enabled, len, index, pos>>

\* The slave's side of RSI_CSM_RESERVE; the identifier names a region of a peer.
CsmReserve(id, r) ==
  /\ ~apt_find_enabled_conflict(r, FALSE)
  /\ apt_add("slave", id, r)

\* RSI_CSM_DETACH_AND_FREE and the slave's side of RSI_CSM_REVOKE leave the
\* record behind, RMI_APT_DESTROY of the master zeroes it.
RemoveSlave(id, zero) ==
  \E i \in Slots : FirstWithId("slave", id, i) /\ RemoveSlot("slave", i, zero)

CsmDestroy(id) ==
  \E i \in Slots :
    /\ FirstWithId("master", id, i)
    /\ region["master"][i].share_count = 0
    /\ RemoveSlot("master", i, TRUE)

\* RMI_APT_DESTROY empties the table and zeroes the granule; a table made
\* from it later starts with apt_reset.
AptDestroy == apt_reset

AptNext ==
  \/ \E id \in AptRegion, r \in Request : CsmCreate(id, r)
  \/ \E id \in AptRegion, slave \in SlaveId : CsmShare(id, slave)
  \/ \E id \in AptRegion, slave \in SlaveId : DropShare(id, slave)
  \/ \E id \in AptRegion, r \in Request : CsmReserve(id, r)
  \/ \E id \in AptRegion, zero \in BOOLEAN : RemoveSlave(id, zero)
  \/ \E id \in AptRegion : CsmDestroy(id)
  \/ AptDestroy

AptSpec == AptInit /\ [][AptNext]_aptVars

-----------------------------------------------------------------------------
Regions ==
  [id : AptRegion \cup {NoId}, base : 0..(AddressSpace - 1), size : 0..(AddressSpace - 1),
   share_count : 0..MaxShares, shares : [ShareSlots -> SlaveId \cup {NoId}]]

AptTypeOK ==
  /\ used \in [Kinds -> SUBSET Slots]
  /\ enabled \in [Kinds -> SUBSET Slots]
  /\ len \in [Kinds -> 0..MaxRegions]
  /\ index \in [Kinds -> [Slots -> Slots]]
  /\ pos \in [Kinds -> [Slots -> Slots]]
  /\ region \in [Kinds -> [Slots -> Regions]]

(***************************************************************************)
(* The packed list, its inverse and the masks tell the same story: the     *)
(* conflict check walks the list, the lookups by region identifier walk    *)
(* the used mask, and neither may see a region the other does not.         *)
(***************************************************************************)
Packed(en, n, ix, ps) ==
  /\ \A i \in en : ps[i] < n /\ ix[ps[i]] = i
  /\ \A p \in 0..(n - 1) : ix[p] \in en /\ ps[ix[p]] = p

PackedListExact ==
  \A k \in Kinds : enabled[k] = used[k] /\ Packed(enabled[k], len[k], index[k], pos[k])

Disjoint(a, b) ==
  \/ a.base + a.size <= b.base
  \/ b.base + b.size <= a.base

(***************************************************************************)
(* A borrowed region overlaps no other region of the realm, owned or       *)
(* borrowed, in either order of creation and for ranges that wrap: an      *)
(* address then tells the propagation of RMI_DATA_CREATE which peer it is  *)
(* about.                                                                  *)
(***************************************************************************)
SlaveRegionsDisjoint ==
  \A i \in used["slave"] : \A k \in Kinds : \A j \in used[k] :
    (k = "slave" /\ i = j) \/ Disjoint(region["slave"][i], region[k][j])

(***************************************************************************)
(* share_count counts the share slots in use, and no slave has two of      *)
(* them: RSI_CSM_DESTROY trusts the count, RSI_CSM_REVOKE clears only one. *)
(***************************************************************************)
SharesExact ==
  \A i \in used["master"] :
    LET m == region["master"][i] IN
    /\ m.share_count = Cardinality({s \in ShareSlots : m.shares[s] # NoId})
    /\ \A s, t \in ShareSlots : m.shares[s] # NoId /\ m.shares[s] = m.shares[t] => s = t
=============================================================================
