------------------------- MODULE CsmRegionIdProofs -------------------------
(***************************************************************************)
(* Proofs about the region-identifier registry, for every table size and   *)
(* every counter width larger than the table.                              *)
(***************************************************************************)
EXTENDS CsmRegionId, FiniteSetTheorems, TLAPS

(***************************************************************************)
(* A drawn identifier is never 0 and fits the counter, whatever the        *)
(* counter's value (the "candidate == 0" test of csm_region_id_assign).    *)
(***************************************************************************)
LEMMA CandidateRange ==
  ASSUME NEW c \in 0..(Width - 1), NEW k \in 1..(MaxRegionIds + 1)
  PROVE  Candidate(c, k) \in RegionId
BY SizeAssumption DEF Candidate, RegionId

\* The draws of one call are pairwise different: the loop cannot cycle.
LEMMA CandidateInjective ==
  ASSUME NEW c \in 0..(Width - 1),
         NEW j \in 1..MaxRegionIds, NEW k \in 1..MaxRegionIds, j # k
  PROVE  Candidate(c, j) # Candidate(c, k)
BY SizeAssumption DEF Candidate

\* The counter stays an 8-bit value after any draw.
LEMMA CounterRange ==
  ASSUME NEW c \in 0..(Width - 1), NEW k \in 1..(MaxRegionIds + 1)
  PROVE  CounterAfter(c, k) \in 0..(Width - 1)
<1>1. \A a \in Nat, n \in Nat \ {0} : a % n \in 0..(n - 1)
  OBVIOUS
<1>2. Candidate(c, k) + 1 \in Nat /\ Width \in Nat \ {0}
  BY CandidateRange, SizeAssumption DEF RegionId
<1> QED BY <1>1, <1>2 DEF CounterAfter

(***************************************************************************)
(* The inductive invariant: types, and the uniqueness of live identifiers. *)
(* UniqueIds is inductive with the types because Draw takes an identifier  *)
(* outside LiveIds and csm_region_id_remove only frees entries.            *)
(***************************************************************************)
Inv == TypeOK /\ UniqueIds

LEMMA InitInv == Init => Inv
<1> SUFFICES ASSUME Init PROVE Inv
  OBVIOUS
<1>1. TypeOK
  BY SizeAssumption DEF Init, TypeOK, Entry, FreeEntry
<1>2. UniqueIds
  BY DEF Init, UniqueIds, InUse, FreeEntry
<1> QED BY <1>1, <1>2 DEF Inv

LEMMA DrawInv ==
  ASSUME Inv, NEW rd \in Rd, Draw(rd)
  PROVE  Inv'
<1> USE DEF Inv
<1>1. CASE FreshDraws = {}
  <2>1. counter' \in 0..(Width - 1)
    <3>1. counter \in 0..(Width - 1) /\ MaxRegionIds + 1 \in 1..(MaxRegionIds + 1)
      BY SizeAssumption DEF TypeOK
    <3>2. counter' = CounterAfter(counter, MaxRegionIds + 1)
      BY <1>1 DEF Draw
    <3> QED BY <3>1, <3>2, CounterRange
  <2>2. TypeOK'
    <3>1. ids' = ids /\ result' = [op |-> "assign", ok |-> FALSE, id |-> 0]
      BY <1>1 DEF Draw
    <3> QED BY <2>1, <3>1, SizeAssumption DEF TypeOK
  <2>3. UniqueIds'
    BY <1>1 DEF Draw, UniqueIds, InUse
  <2> QED BY <2>2, <2>3
<1>2. CASE FreshDraws # {}
  <2>1. PICK i \in Slot, k \in FreshDraws :
          /\ FirstFree(i)
          /\ counter' = CounterAfter(counter, k)
          /\ result' = [op |-> "assign", ok |-> TRUE, id |-> Candidate(counter, k)]
          /\ ids' = [ids EXCEPT ![i] = [owner |-> rd, id |-> Candidate(counter, k),
                                        in_use |-> TRUE]]
    BY <1>2 DEF Draw
  <2> DEFINE new == Candidate(counter, k)
  <2>2. k \in 1..(MaxRegionIds + 1) /\ new \notin LiveIds /\ counter \in 0..(Width - 1)
    BY SizeAssumption DEF FreshDraws, TypeOK
  <2>3. new \in RegionId /\ counter' \in 0..(Width - 1)
    BY <2>1, <2>2, CandidateRange, CounterRange
  <2> HIDE DEF new
  <2>4. TypeOK'
    BY <2>1, <2>3, SizeAssumption DEF TypeOK, Entry, RegionId, new
  <2>5. InUse' = InUse \cup {i}
    BY <2>1 DEF InUse, TypeOK, Entry
  <2>6. \A j \in InUse : j # i => ids'[j] = ids[j] /\ ids[j].id # new
    BY <2>1, <2>2 DEF InUse, LiveIds, TypeOK
  <2>7. ids'[i].id = new /\ new # 0
    BY <2>1, <2>3, SizeAssumption DEF TypeOK, RegionId, new
  <2>8. i \notin InUse
    BY <2>1 DEF FirstFree
  <2>9. UniqueIds'
    BY <2>5, <2>6, <2>7, <2>8 DEF UniqueIds
  <2> QED BY <2>4, <2>9
<1> QED BY <1>1, <1>2

LEMMA RemoveInv ==
  ASSUME Inv, NEW id \in RegionId, csm_region_id_remove(id)
  PROVE  Inv'
<1> USE DEF Inv
<1>1. \A i \in Slot : ids'[i] = FreeEntry \/ ids'[i] = ids[i]
  BY DEF csm_region_id_remove
<1>2. ids' \in [Slot -> Entry]
  <2>1. FreeEntry \in Entry
    BY SizeAssumption DEF FreeEntry, Entry
  <2> QED BY <2>1 DEF csm_region_id_remove, TypeOK
<1>3. TypeOK'
  BY <1>2, SizeAssumption DEF csm_region_id_remove, TypeOK, RegionId
<1>4. InUse' \subseteq InUse /\ \A i \in InUse' : ids'[i] = ids[i]
  BY <1>1 DEF InUse, FreeEntry
<1>5. UniqueIds'
  BY <1>4 DEF UniqueIds
<1> QED BY <1>3, <1>5

LEMMA NextInv == Inv /\ [Next]_vars => Inv'
<1> SUFFICES ASSUME Inv, [Next]_vars PROVE Inv'
  OBVIOUS
<1>1. ASSUME NEW rd \in Rd, NoSlot PROVE Inv'
  BY <1>1, SizeAssumption DEF Inv, NoSlot, TypeOK, UniqueIds, InUse
<1>2. CASE UNCHANGED vars
  BY <1>2 DEF Inv, TypeOK, UniqueIds, InUse, vars
<1> QED BY <1>1, <1>2, DrawInv, RemoveInv DEF Next, csm_region_id_assign

(***************************************************************************)
(* The registry never holds two live regions under one identifier and      *)
(* never gives out the reserved value 0, however often the counter wraps.  *)
(***************************************************************************)
THEOREM UniqueIdsAlways == Spec => []UniqueIds
<1>1. Inv => UniqueIds
  BY DEF Inv
<1> QED BY <1>1, InitInv, NextInv, PTL DEF Spec

(***************************************************************************)
(* With a free slot, one of the MaxRegionIds draws is fresh: they are that *)
(* many different identifiers and fewer are live (a pigeonhole argument).  *)
(***************************************************************************)
LEMMA FreshDrawExists ==
  ASSUME Inv, InUse # Slot
  PROVE  FreshDraws # {}
<1> SUFFICES ASSUME FreshDraws = {} PROVE FALSE
  OBVIOUS
<1> DEFINE Draws == 1..MaxRegionIds
           holder == [k \in Draws |-> CHOOSE i \in InUse : ids[i].id = Candidate(counter, k)]
<1>1. \A k \in Draws : \E i \in InUse : ids[i].id = Candidate(counter, k)
  BY DEF FreshDraws, LiveIds
<1>2. /\ holder \in [Draws -> InUse]
      /\ \A k \in Draws : ids[holder[k]].id = Candidate(counter, k)
  BY <1>1
<1>3. IsFiniteSet(Draws) /\ Cardinality(Draws) = MaxRegionIds
  BY FS_Interval, SizeAssumption
<1>4. InUse \subseteq Draws /\ InUse # Draws
  BY DEF InUse, Slot
<1>5. IsFiniteSet(InUse) /\ Cardinality(InUse) < Cardinality(Draws)
  <2>1. IsFiniteSet(InUse) /\ Cardinality(InUse) <= Cardinality(Draws)
        /\ Cardinality(InUse) # Cardinality(Draws)
    BY <1>3, <1>4, FS_Subset
  <2>2. Cardinality(InUse) \in Nat /\ Cardinality(Draws) \in Nat
    BY <2>1, <1>3, FS_CardinalityType
  <2> QED BY <2>1, <2>2
<1>6. \E x, y \in Draws : x # y /\ holder[x] = holder[y]
  <2> HIDE DEF Draws, holder
  <2> QED BY <1>2, <1>3, <1>5, FS_PigeonHole
<1>7. counter \in 0..(Width - 1)
  BY DEF Inv, TypeOK
<1> QED BY <1>2, <1>6, <1>7, CandidateInjective

(***************************************************************************)
(* Giving up after MaxRegionIds draws is never observable: a caller is     *)
(* turned down only when every slot of the table is taken.                 *)
(***************************************************************************)
THEOREM FailsOnlyWhenFullAlways == Spec => []FailsOnlyWhenFull
<1>1. Init => FailsOnlyWhenFull
  BY DEF Init, FailsOnlyWhenFull
<1>2. Inv /\ FailsOnlyWhenFull /\ [Next]_vars => FailsOnlyWhenFull'
  <2> SUFFICES ASSUME Inv, FailsOnlyWhenFull, [Next]_vars PROVE FailsOnlyWhenFull'
    OBVIOUS
  <2>1. CASE NoSlot
    BY <2>1 DEF NoSlot, FailsOnlyWhenFull, InUse
  <2>2. ASSUME NEW rd \in Rd, Draw(rd) PROVE FailsOnlyWhenFull'
    <3>1. FreshDraws # {}
      BY <2>2, FreshDrawExists DEF Draw
    <3>2. result'.ok
      BY <2>2, <3>1 DEF Draw
    <3> QED BY <3>2 DEF FailsOnlyWhenFull
  <2>3. ASSUME NEW id \in RegionId, csm_region_id_remove(id) PROVE FailsOnlyWhenFull'
    BY <2>3 DEF csm_region_id_remove, FailsOnlyWhenFull
  <2>4. CASE UNCHANGED vars
    BY <2>4 DEF vars, FailsOnlyWhenFull, InUse
  <2> QED BY <2>1, <2>2, <2>3, <2>4 DEF Next, csm_region_id_assign
<1> QED BY <1>1, <1>2, InitInv, NextInv, PTL DEF Spec

\* The table, the counter and the results stay in their types (the counter in its 8 bits).
THEOREM TypeCorrect == Spec => []TypeOK
<1>1. Inv => TypeOK
  BY DEF Inv
<1> QED BY <1>1, InitInv, NextInv, PTL DEF Spec

(***************************************************************************)
(* A registration ends only when its identifier is removed: an assignment  *)
(* takes a free slot, and csm_region_id_remove clears no entry with        *)
(* another identifier.                                                     *)
(***************************************************************************)
THEOREM RegistrationStableAlways == Spec => RegistrationStable
<1> DEFINE Kept == \A i \in InUse :
                     ids'[i] = ids[i] \/ (result'.op = "remove" /\ result'.id = ids[i].id)
<1>1. ASSUME TypeOK, [Next]_vars PROVE [Kept]_vars
  <2>1. CASE UNCHANGED vars  BY <2>1
  <2>2. ASSUME NEW rd \in Rd, NoSlot \/ Draw(rd) PROVE Kept
    <3>1. ids' = ids \/ \E f \in Slot : FirstFree(f) /\ \A i \in Slot \ {f} : ids'[i] = ids[i]
      BY <2>2, <1>1 DEF NoSlot, Draw, TypeOK
    <3>2. QED  BY <3>1, <1>1 DEF FirstFree, InUse, TypeOK
  <2>3. ASSUME NEW id \in RegionId, csm_region_id_remove(id) PROVE Kept
    BY <2>3 DEF csm_region_id_remove, InUse
  <2>4. QED  BY <2>1, <2>2, <2>3, <1>1 DEF Next, csm_region_id_assign
<1>2. QED  BY <1>1, TypeCorrect, PTL DEF Spec, RegistrationStable
=============================================================================
