---------------------------- MODULE CsmRegionId ----------------------------
(***************************************************************************)
(* The registry of confidential-shared-memory region identifiers           *)
(* (runtime/core/csm_id.c): a fixed table of slots, an 8-bit counter from  *)
(* which identifiers are drawn, and one spinlock taken by both operations. *)
(* Each operation runs entirely under that spinlock, so each is one step.  *)
(***************************************************************************)
EXTENDS Naturals, FiniteSets

CONSTANTS
  Rd,               \* realm descriptors that can own a region
  NoRd,             \* the zero owner address of a free slot
  MaxRegionIds,     \* CONFIG_MAX_CSM_REGION_IDS
  Width             \* number of values of the counter: 2^8 in the code

ASSUME NoRdAssumption == NoRd \notin Rd
ASSUME SizeAssumption ==
  /\ MaxRegionIds \in Nat \ {0}
  /\ Width \in Nat
  /\ MaxRegionIds < Width      \* 64 < 256: there are more identifiers than slots

VARIABLES
  ids,      \* g_csm_region_ids
  counter,  \* g_csm_region_id_counter
  result    \* what the last operation returned: its "ok" and its identifier

vars == <<ids, counter, result>>

Slot == 1..MaxRegionIds

RegionId == 1..(Width - 1)

FreeEntry == [owner |-> NoRd, id |-> 0, in_use |-> FALSE]

Entry == [owner : Rd \cup {NoRd}, id : 0..(Width - 1), in_use : BOOLEAN]

InUse == {i \in Slot : ids[i].in_use}

LiveIds == {ids[i].id : i \in InUse}

Init ==
  /\ ids = [i \in Slot |-> FreeEntry]
  /\ counter = 1
  /\ result = [op |-> "init", ok |-> TRUE, id |-> 0]

(***************************************************************************)
(* The first slot in table order that is not in use.                       *)
(***************************************************************************)
FirstFree(i) == i \in Slot \ InUse /\ \A j \in Slot \ InUse : i <= j

(***************************************************************************)
(* The k-th identifier the loop of csm_region_id_assign draws when the     *)
(* counter is c: the counter wraps at Width and the value 0 is skipped.    *)
(* The loop draws at most MaxRegionIds + 1 times, so it wraps once.        *)
(***************************************************************************)
Candidate(c, k) ==
  LET first == IF c = 0 THEN 1 ELSE c
      v     == first + (k - 1)
  IN  IF v < Width THEN v ELSE v - (Width - 1)

\* The counter after the k-th draw (the post-increment of the last value).
CounterAfter(c, k) == (Candidate(c, k) + 1) % Width

\* Mutant of FreshDraws: csm_region_id_collides is not called.
FreshDrawsUnchecked == 1..MaxRegionIds

\* Mutant of FreshDraws: the loop gives up after one collision.
FreshDrawsOneTry == {k \in 1..1 : Candidate(counter, k) \notin LiveIds}

(***************************************************************************)
(* The draws whose identifier no entry in use carries, among the           *)
(* MaxRegionIds draws the loop accepts.                                    *)
(***************************************************************************)
FreshDraws == {k \in 1..MaxRegionIds : Candidate(counter, k) \notin LiveIds}

(***************************************************************************)
(* csm_region_id_assign: no free slot, or no fresh identifier within the   *)
(* allowed draws (the draw that gives up still advances the counter), or   *)
(* the first fresh identifier goes to the first free slot.                 *)
(***************************************************************************)
NoSlot ==
  /\ InUse = Slot
  /\ result' = [op |-> "assign", ok |-> FALSE, id |-> 0]
  /\ UNCHANGED <<ids, counter>>

Draw(rd) ==
  /\ InUse # Slot
  /\ IF FreshDraws = {}
     THEN /\ counter' = CounterAfter(counter, MaxRegionIds + 1)
          /\ result' = [op |-> "assign", ok |-> FALSE, id |-> 0]
          /\ ids' = ids
     ELSE \E i \in Slot, k \in FreshDraws :
            /\ FirstFree(i)
            /\ \A j \in FreshDraws : k <= j
            /\ counter' = CounterAfter(counter, k)
            /\ result' = [op |-> "assign", ok |-> TRUE, id |-> Candidate(counter, k)]
            /\ ids' = [ids EXCEPT ![i] = [owner |-> rd, id |-> Candidate(counter, k),
                                          in_use |-> TRUE]]

csm_region_id_assign(rd) == NoSlot \/ Draw(rd)

\* Mutant of csm_region_id_remove: the entry is released but its identifier stays
\* and every other entry of the same owner is released with it.
csm_region_id_removeByOwner(id) ==
  /\ result' = [op |-> "remove", ok |-> id \in LiveIds, id |-> id]
  /\ ids' = [i \in Slot |-> IF \E j \in InUse : ids[j].id = id /\ ids[i].owner = ids[j].owner
                            THEN FreeEntry ELSE ids[i]]
  /\ UNCHANGED counter

(***************************************************************************)
(* csm_region_id_remove: clears the first entry in use with this           *)
(* identifier, if there is one.                                            *)
(***************************************************************************)
csm_region_id_remove(id) ==
  /\ result' = [op |-> "remove", ok |-> id \in LiveIds, id |-> id]
  /\ ids' = LET hit(i) == i \in InUse /\ ids[i].id = id
            IN  [i \in Slot |-> IF hit(i) /\ \A j \in Slot : hit(j) => i <= j
                                THEN FreeEntry ELSE ids[i]]
  /\ UNCHANGED counter

Next ==
  \/ \E rd \in Rd : csm_region_id_assign(rd)
  \/ \E id \in RegionId : csm_region_id_remove(id)

Spec == Init /\ [][Next]_vars

-----------------------------------------------------------------------------
TypeOK ==
  /\ ids \in [Slot -> Entry]
  /\ counter \in 0..(Width - 1)
  /\ result \in [op : {"init", "assign", "remove"}, ok : BOOLEAN, id : 0..(Width - 1)]

(***************************************************************************)
(* No two entries in use carry the same identifier and none carries 0, the *)
(* value that marks a free entry: a peer realm's APT names a region by its *)
(* identifier alone (the csm_region_id_collides loop, with the 8-bit       *)
(* counter wrapping under long-lived identifiers).                         *)
(***************************************************************************)
UniqueIds ==
  \A i \in InUse :
    /\ ids[i].id # 0
    /\ \A j \in InUse : ids[i].id = ids[j].id => i = j

(***************************************************************************)
(* csm_region_id_assign fails only when the table is full: giving up after *)
(* MaxRegionIds draws never turns down a caller while a slot is free.      *)
(***************************************************************************)
FailsOnlyWhenFull ==
  (result.op = "assign" /\ ~result.ok) => InUse = Slot

(***************************************************************************)
(* A step ends the registration of at most the identifier it was asked to  *)
(* remove, and a registration that goes on keeps its slot and its owner.   *)
(***************************************************************************)
RegistrationStable ==
  [][\A i \in InUse : ids'[i] = ids[i] \/ (result'.op = "remove" /\ result'.id = ids[i].id)]_vars
=============================================================================
