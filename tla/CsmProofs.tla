----------------------------- MODULE CsmProofs -----------------------------
(***************************************************************************)
(* Proofs about confidential shared memory, for every set of PEs, realms,  *)
(* APT granules and region identifiers, every number of slots and tags and *)
(* every mix of owners and borrowers (a realm may be both).                *)
(***************************************************************************)
EXTENDS Csm, TLAPS

-----------------------------------------------------------------------------
(* The types of the state.                                                 *)

Share == [tag : Tag, rd : Realm] \cup {NoShare}

MasterRec == [ipa : Base, used : BOOLEAN, shares : [ShareSlots -> Share]]

\* A slot of slave_memory is either empty or names a region and its owner.
NoSlaveRec == [rid : {NoRegion}, master : {NoRealm}, ipa : {0}, used : {FALSE}]

SlaveRec == NoSlaveRec \cup [rid : RegionId, master : Realm, ipa : Base, used : BOOLEAN]

OpName ==
  {"none", "share", "reserve", "attach", "detach", "revoke", "destroy", "apt_destroy", "propagate",
   "rd_null", "apt_null", "llt_unlock", "data_state"}

StepName == {"idle", "enter", "lock", "peer", "remove", "share", "id", "peers", "panic"}

PeRec ==
  [op : OpName, step : StepName, r : Realm \cup {NoRealm}, peer : Realm \cup {NoRealm},
   rid : RegionId \cup {NoRegion}, ipa : Ipa, slot : Slots, tag : 0..MaxTags, data : Data \cup {NoData},
   todo : SUBSET Visits]

\* What the locals of a call name, by the call.
Named(x) ==
  /\ x.op = "none" => x.step = "idle"
  /\ x.op \in {"share", "reserve", "attach", "detach", "revoke", "destroy", "propagate"} => x.r \in Realm
  /\ x.op = "apt_destroy" /\ x.step = "peers" => x.r \in Realm
  /\ x.op \in {"share", "reserve", "detach", "revoke", "destroy"} => x.rid \in RegionId
  /\ x.op \in {"share", "reserve"} => x.peer \in Realm /\ x.tag \in Tag
  /\ x.op = "reserve" => x.ipa \in Base
  /\ x.op = "revoke" /\ x.step = "peer" => x.peer \in Realm
  /\ x.op = "attach" => (x.peer \in Realm => x.rid \in RegionId)

Call == {x \in PeRec : Named(x)}

Lockable == Realm \cup AptGranule

AptTypes ==
  /\ lk \in [Lockable -> PE \cup {NoPE}]
  /\ rd \in [Realm -> {"none", "NEW", "ACTIVE"}]
  /\ aptg \in [AptGranule -> {"DELEGATED", "APT"}]
  /\ apt_pa \in [Realm -> AptGranule \cup {NoApt}]
  /\ tag \in [Realm -> 0..MaxTags]
  /\ ids \subseteq RegionId

MapTypes ==
  /\ master \in [AptGranule -> [RegionId -> MasterRec]]
  /\ slave \in [AptGranule -> [Slots -> SlaveRec]]
  /\ s2 \in [Realm -> [Ipa -> Data \cup {NoData}]]
  /\ gs \in [Data -> {"DELEGATED", "DATA"}]

CsmTypes == AptTypes /\ MapTypes /\ pe \in [PE -> Call]

LEMMA SizeFacts ==
  /\ Base \subseteq Ipa /\ Base \subseteq Nat /\ Ipa \subseteq Nat
  /\ 0 \in Base /\ 0 \in Ipa /\ 1 \in Slots
  /\ Slots \subseteq Nat /\ ShareSlots \subseteq Nat /\ Offsets \subseteq Nat
  /\ 0 \in 0..MaxTags /\ Tag \subseteq 0..MaxTags
  /\ \A b \in Base, o \in Offsets : b + o \in Ipa
BY CsmAssumption DEF Base, Ipa, Slots, ShareSlots, Offsets, Tag

\* The place of a page in its region.
LEMMA PageOffset ==
  ASSUME NEW b \in Nat, NEW i \in PagesFrom(b)
  PROVE  i - b \in Nat
<1>1. PICK o \in Offsets : i = b + o
  BY DEF PagesFrom
<1>2. o \in Nat
  BY SizeFacts
<1> QED BY <1>1, <1>2

LEMMA NoMasterType ==
  /\ NoMaster \in MasterRec /\ ~NoMaster.used
  /\ EmptyMasters \in [RegionId -> MasterRec] /\ NoShares \in [ShareSlots -> Share]
  /\ \A i \in RegionId : EmptyMasters[i] = NoMaster
BY SizeFacts DEF NoMaster, EmptyMasters, MasterRec, NoShares, Share

LEMMA NoSlaveType ==
  /\ NoSlave \in SlaveRec /\ ~NoSlave.used
  /\ EmptySlaves \in [Slots -> SlaveRec]
  /\ \A i \in Slots : EmptySlaves[i] = NoSlave
BY DEF SlaveRec, EmptySlaves, NoSlaveRec, NoSlave

LEMMA IdleType == Idle \in Call /\ Idle.op = "none" /\ Idle.todo = {} /\ Idle.step = "idle"
<1>1. Idle \in PeRec
  BY SizeFacts DEF Idle, PeRec, OpName, StepName
<1>2. Idle.op = "none" /\ Idle.todo = {} /\ Idle.step = "idle"
  BY DEF Idle
<1> QED BY <1>1, <1>2 DEF Call, Named

LEMMA InitTypes == Init => CsmTypes
<1> SUFFICES ASSUME Init PROVE CsmTypes
  OBVIOUS
<1>1. AptTypes
  BY CsmAssumption DEF Init, AptTypes, Lockable
<1>2. master \in [AptGranule -> [RegionId -> MasterRec]] /\ slave \in [AptGranule -> [Slots -> SlaveRec]]
  BY NoMasterType, NoSlaveType DEF Init
<1>3. s2 \in [Realm -> [Ipa -> Data \cup {NoData}]] /\ gs \in [Data -> {"DELEGATED", "DATA"}]
  BY DEF Init
<1>4. pe \in [PE -> Call]
  BY IdleType DEF Init
<1> QED BY <1>1, <1>2, <1>3, <1>4 DEF CsmTypes, MapTypes

\* The state of one PE changes to x, the others stay.
PeBecomes(p, x) == x \in Call /\ pe' \in [PE -> Call] /\ pe'[p] = x /\ \A q \in PE : q # p => pe'[q] = pe[q]

LEMMA PeSet ==
  ASSUME pe \in [PE -> Call], NEW p \in PE, NEW x \in Call, pe' = [pe EXCEPT ![p] = x]
  PROVE  PeBecomes(p, x)
BY DEF PeBecomes

LEMMA ReturnSets ==
  ASSUME pe \in [PE -> Call], NEW p \in PE, Return(p)
  PROVE  PeBecomes(p, Idle)
BY IdleType, PeSet DEF Return

LEMMA PanicSets ==
  ASSUME pe \in [PE -> Call], NEW p \in PE,
         NEW why \in {"rd_null", "apt_null", "llt_unlock", "data_state", "apt_destroy"}, Panic(p, why)
  PROVE  \E x \in Call : PeBecomes(p, x) /\ x.op = why /\ x.step = "panic"
<1> DEFINE x == [pe[p] EXCEPT !.step = "panic", !.op = why]
<1>1. pe[p] \in PeRec
  BY DEF Call
<1>2. x \in PeRec /\ x.op = why /\ x.step = "panic"
  <2>1. why \in OpName /\ "panic" \in StepName
    BY DEF OpName, StepName
  <2> QED BY <1>1, <2>1 DEF PeRec
<1>3. x \in Call
  <2> HIDE DEF x
  <2> QED BY <1>2 DEF Call, Named
<1>4. pe' = [pe EXCEPT ![p] = x]
  BY DEF Panic
<1> HIDE DEF x
<1> QED BY <1>2, <1>3, <1>4, PeSet

LEMMA TypesOf ==
  ASSUME CsmTypes
  PROVE  /\ pe \in [PE -> Call]
         /\ \A p \in PE : pe[p] \in PeRec /\ Named(pe[p])
         /\ \A g \in AptGranule, i \in RegionId : master[g][i] \in MasterRec
         /\ \A g \in AptGranule, i \in Slots : slave[g][i] \in SlaveRec
         /\ \A r \in Realm : tag[r] \in 0..MaxTags
BY DEF CsmTypes, Call, AptTypes, MapTypes

\* The tables of a realm are those of its APT granule, or empty.
LEMMA Views ==
  ASSUME CsmTypes, NEW r \in Realm
  PROVE  /\ AptLive(r) => /\ apt_pa[r] \in AptGranule
                          /\ Masters(r) = master[apt_pa[r]] /\ Slaves(r) = slave[apt_pa[r]]
         /\ \A i \in RegionId : Masters(r)[i] \in MasterRec /\ (Masters(r)[i].used => AptLive(r))
         /\ \A i \in Slots : Slaves(r)[i] \in SlaveRec /\ (Slaves(r)[i].used => AptLive(r))
<1>1. CASE AptLive(r)
  BY <1>1, TypesOf DEF AptLive, Masters, Slaves
<1>2. CASE ~AptLive(r)
  BY <1>2, NoMasterType, NoSlaveType DEF Masters, Slaves
<1> QED BY <1>1, <1>2

-----------------------------------------------------------------------------
(* What each call makes of the PE that runs it.                            *)

LEMMA ShareLookupPe ==
  ASSUME CsmTypes, NEW p \in PE, NEW r \in Realm, NEW rid \in RegionId, NEW s \in Realm, ShareLookup(p, r, rid, s)
  PROVE  \E x \in Call : PeBecomes(p, x) /\ x.op = "share" /\ x.step = "enter" /\ x.r = r /\ x.rid = rid
                         /\ x.peer = s /\ x.tag = tag[s]
<1> DEFINE x == [Idle EXCEPT !.op = "share", !.step = "enter", !.r = r, !.rid = rid, !.peer = s, !.tag = tag[s]]
<1>1. tag[s] \in Tag /\ tag[s] \in 0..MaxTags
  BY TypesOf, CsmAssumption DEF ShareLookup, Tag
<1>2. x \in PeRec /\ x.op = "share" /\ x.step = "enter" /\ x.r = r /\ x.rid = rid /\ x.peer = s /\ x.tag = tag[s]
  BY <1>1, SizeFacts DEF Idle, PeRec, OpName, StepName
<1>3. x \in Call
  <2> HIDE DEF x
  <2> QED BY <1>1, <1>2 DEF Call, Named
<1>4. pe' = [pe EXCEPT ![p] = x]
  BY DEF ShareLookup
<1> HIDE DEF x
<1> QED BY <1>2, <1>3, <1>4, PeSet, TypesOf

LEMMA ReserveLookupPe ==
  ASSUME CsmTypes, NEW p \in PE, NEW r \in Realm, NEW rid \in RegionId, NEW m \in Realm, NEW b \in Base,
         ReserveLookup(p, r, rid, m, b)
  PROVE  \E x \in Call : PeBecomes(p, x) /\ x.op = "reserve" /\ x.step = "lock" /\ x.r = r /\ x.rid = rid
                         /\ x.peer = m /\ x.tag = tag[r] /\ x.ipa = b
<1> DEFINE x == [Idle EXCEPT !.op = "reserve", !.step = "lock", !.r = r, !.rid = rid, !.peer = m, !.ipa = b,
                             !.tag = tag[r]]
<1>1. tag[r] \in Tag /\ tag[r] \in 0..MaxTags
  BY TypesOf, CsmAssumption DEF ReserveLookup, Tag
<1>2. x \in PeRec /\ x.op = "reserve" /\ x.step = "lock" /\ x.r = r /\ x.rid = rid /\ x.peer = m /\ x.tag = tag[r]
      /\ x.ipa = b
  BY <1>1, SizeFacts DEF Idle, PeRec, OpName, StepName
<1>3. x \in Call
  <2> HIDE DEF x
  <2> QED BY <1>1, <1>2 DEF Call, Named
<1>4. pe' = [pe EXCEPT ![p] = x]
  BY DEF ReserveLookup
<1> HIDE DEF x
<1> QED BY <1>2, <1>3, <1>4, PeSet, TypesOf

LEMMA ReserveLockPe ==
  ASSUME CsmTypes, NEW p \in PE, ReserveLock(p)
  PROVE  \E x \in Call : /\ PeBecomes(p, x)
                         /\ \/ AptLive(pe[p].r) /\ x = [pe[p] EXCEPT !.step = "peer"]
                               /\ x.op = "reserve" /\ x.step = "peer" /\ x.r = pe[p].r /\ x.rid = pe[p].rid
                               /\ x.peer = pe[p].peer /\ x.tag = pe[p].tag
                            \/ x.op = "apt_null" /\ x.step = "panic"
<1>1. CASE AptLive(pe[p].r)
  <2> DEFINE x == [pe[p] EXCEPT !.step = "peer"]
  <2>1. pe[p] \in PeRec /\ Named(pe[p]) /\ pe[p].op = "reserve"
    BY TypesOf DEF ReserveLock, At
  <2>2. x \in PeRec /\ x.op = "reserve" /\ x.step = "peer" /\ x.r = pe[p].r /\ x.rid = pe[p].rid
        /\ x.peer = pe[p].peer /\ x.tag = pe[p].tag /\ x.ipa = pe[p].ipa
    BY <2>1 DEF PeRec, StepName
  <2>3. x \in Call
    <3> HIDE DEF x
    <3> QED BY <2>1, <2>2 DEF Call, Named
  <2>4. pe' = [pe EXCEPT ![p] = x]
    BY <1>1 DEF ReserveLock
  <2>5. x = [pe[p] EXCEPT !.step = "peer"]
    OBVIOUS
  <2> HIDE DEF x
  <2> QED BY <1>1, <2>2, <2>3, <2>4, <2>5, PeSet, TypesOf
<1>2. CASE ~AptLive(pe[p].r)
  <2>1. Panic(p, "apt_null")
    BY <1>2 DEF ReserveLock
  <2> QED BY <2>1, PanicSets, TypesOf
<1> QED BY <1>1, <1>2

LEMMA AttachLockPe ==
  ASSUME CsmTypes, NEW p \in PE, NEW r \in Realm, NEW i \in Slots, AttachLock(p, r, i)
  PROVE  \E x \in Call : /\ PeBecomes(p, x)
                         /\ \/ AptLive(r) /\ x.op = "attach" /\ x.step = "peer" /\ x.r = r
                            \/ x.op = "apt_null" /\ x.step = "panic"
<1>1. CASE AptLive(r)
  <2> DEFINE y == Slaves(r)[i]
             x == [Idle EXCEPT !.op = "attach", !.step = "peer", !.r = r, !.slot = i, !.peer = y.master, !.rid = y.rid]
  <2>0. pe' = [pe EXCEPT ![p] = x]
    BY <1>1 DEF AttachLock
  <2>1. /\ y.master \in Realm \cup {NoRealm}
        /\ y.rid \in RegionId \cup {NoRegion}
        /\ y.master \in Realm => y.rid \in RegionId
    <3>0. y \in SlaveRec
      BY Views
    <3> HIDE DEF y
    <3>1. CASE y \in NoSlaveRec
      BY <3>1, CsmAssumption DEF NoSlaveRec
    <3>2. CASE y \notin NoSlaveRec
      BY <3>0, <3>2 DEF SlaveRec
    <3> QED BY <3>1, <3>2
  <2> HIDE DEF y
  <2>2. x \in PeRec /\ x.op = "attach" /\ x.step = "peer" /\ x.r = r /\ x.peer = y.master /\ x.rid = y.rid
    BY <2>1, SizeFacts DEF Idle, PeRec, OpName, StepName
  <2> HIDE DEF x
  <2>3. x \in Call
    BY <2>1, <2>2 DEF Call, Named
  <2> QED BY <1>1, <2>0, <2>2, <2>3, PeSet, TypesOf
<1>2. CASE ~AptLive(r)
  <2>1. Panic(p, "apt_null")
    BY <1>2 DEF AttachLock
  <2> QED BY <2>1, PanicSets, TypesOf
<1> QED BY <1>1, <1>2

LEMMA DetachLookupPe ==
  ASSUME CsmTypes, NEW p \in PE, NEW r \in Realm, NEW rid \in RegionId, DetachLookup(p, r, rid)
  PROVE  \E x \in Call : PeBecomes(p, x) /\ x.op = "detach" /\ x.step = "remove" /\ x.r = r /\ x.rid = rid
<1> DEFINE x == [Idle EXCEPT !.op = "detach", !.step = "remove", !.r = r, !.rid = rid]
<1>2. x \in PeRec /\ x.op = "detach" /\ x.step = "remove" /\ x.r = r /\ x.rid = rid
  BY SizeFacts DEF Idle, PeRec, OpName, StepName
<1>3. x \in Call
  <2> HIDE DEF x
  <2> QED BY <1>2 DEF Call, Named
<1>4. pe' = [pe EXCEPT ![p] = x]
  BY DEF DetachLookup
<1> HIDE DEF x
<1> QED BY <1>2, <1>3, <1>4, PeSet, TypesOf

LEMMA RevokeLookupPe ==
  ASSUME CsmTypes, NEW p \in PE, NEW r \in Realm, NEW rid \in RegionId, NEW t \in Tag, RevokeLookup(p, r, rid, t)
  PROVE  \E x \in Call : PeBecomes(p, x) /\ x.op = "revoke" /\ x.step = "share" /\ x.r = r /\ x.rid = rid /\ x.tag = t
<1> DEFINE x == [Idle EXCEPT !.op = "revoke", !.step = "share", !.r = r, !.rid = rid, !.tag = t]
<1>2. x \in PeRec /\ x.op = "revoke" /\ x.step = "share" /\ x.r = r /\ x.rid = rid /\ x.tag = t
  BY SizeFacts DEF Idle, PeRec, OpName, StepName
<1>3. x \in Call
  <2> HIDE DEF x
  <2> QED BY <1>2 DEF Call, Named
<1>4. pe' = [pe EXCEPT ![p] = x]
  BY DEF RevokeLookup
<1> HIDE DEF x
<1> QED BY <1>2, <1>3, <1>4, PeSet, TypesOf

LEMMA DestroyRegionPe ==
  ASSUME CsmTypes, NEW p \in PE, NEW r \in Realm, NEW rid \in RegionId, DestroyRegion(p, r, rid)
  PROVE  \E x \in Call : PeBecomes(p, x) /\ x.op = "destroy" /\ x.step = "id" /\ x.r = r /\ x.rid = rid
<1> DEFINE x == [Idle EXCEPT !.op = "destroy", !.step = "id", !.r = r, !.rid = rid]
<1>2. x \in PeRec /\ x.op = "destroy" /\ x.step = "id" /\ x.r = r /\ x.rid = rid
  BY SizeFacts DEF Idle, PeRec, OpName, StepName
<1>3. x \in Call
  <2> HIDE DEF x
  <2> QED BY <1>2 DEF Call, Named
<1>4. pe' = [pe EXCEPT ![p] = x]
  BY DEF DestroyRegion
<1> HIDE DEF x
<1> QED BY <1>2, <1>3, <1>4, PeSet, TypesOf


\* A share that is not empty names a realm and its tag.
LEMMA ShareNames ==
  ASSUME NEW m \in MasterRec, NEW k \in ShareSlots
  PROVE  /\ m.shares[k] \in Share
         /\ m.shares[k] # NoShare => m.shares[k].tag \in Tag /\ m.shares[k].rd \in Realm
         /\ m.shares[k].rd # NoRealm => m.shares[k] # NoShare
<1>1. m.shares \in [ShareSlots -> Share]
  BY DEF MasterRec
<1>2. m.shares[k] \in Share
  BY <1>1
<1>3. NoShare.rd = NoRealm
  BY DEF NoShare
<1> QED BY <1>2, <1>3 DEF Share

LEMMA RevokeSharePe ==
  ASSUME CsmTypes, NEW p \in PE, RevokeShare(p)
  PROVE  \/ PeBecomes(p, Idle) /\ UNCHANGED master
         \/ /\ \E x \in Call : PeBecomes(p, x) /\ x.op = "revoke" /\ x.step = "peer"
            /\ AptLive(pe[p].r)
            /\ \E k \in ShareSlots : master' = [master EXCEPT ![apt_pa[pe[p].r]][pe[p].rid].shares[k] = NoShare]
<1> DEFINE m == Masters(pe[p].r)[pe[p].rid]
<1>0. pe[p] \in PeRec /\ Named(pe[p]) /\ pe[p].op = "revoke" /\ pe[p].r \in Realm /\ pe[p].rid \in RegionId
  BY TypesOf DEF RevokeShare, At, Named
<1>1. CASE m.used /\ ShareOf(m, pe[p].tag) # {}
  <2>1. PICK k \in ShareOf(m, pe[p].tag) :
           /\ master' = [master EXCEPT ![apt_pa[pe[p].r]][pe[p].rid].shares[k] = NoShare]
           /\ pe' = [pe EXCEPT ![p].step = "peer", ![p].peer = m.shares[k].rd]
    BY <1>1 DEF RevokeShare
  <2>m. m \in MasterRec /\ AptLive(pe[p].r)
    BY <1>0, <1>1, Views
  <2> HIDE DEF m
  <2>2. k \in ShareSlots /\ m.shares[k].rd \in Realm
    BY <2>m, ShareNames DEF ShareOf
  <2> DEFINE x == [pe[p] EXCEPT !.step = "peer", !.peer = m.shares[k].rd]
  <2>3. x \in PeRec /\ x.op = "revoke" /\ x.step = "peer" /\ x.rid = pe[p].rid /\ x.peer = m.shares[k].rd
        /\ x.r = pe[p].r
    BY <1>0, <2>2 DEF PeRec, StepName
  <2>4. pe' = [pe EXCEPT ![p] = x]
    BY <2>1
  <2> HIDE DEF x
  <2>5. x \in Call
    BY <1>0, <2>2, <2>3 DEF Call, Named
  <2>6. PeBecomes(p, x)
    BY <2>4, <2>5, PeSet, TypesOf
  <2> QED BY <2>1, <2>m, <2>2, <2>3, <2>5, <2>6
<1>2. CASE ~(m.used /\ ShareOf(m, pe[p].tag) # {})
  <2>1. Return(p) /\ UNCHANGED master
    BY <1>2 DEF RevokeShare
  <2> QED BY <2>1, ReturnSets, TypesOf
<1> QED BY <1>1, <1>2

\* A used entry names its region and its owner.
LEMMA UsedNames ==
  ASSUME NEW y \in SlaveRec, y.used
  PROVE  y.master \in Realm /\ y.rid \in RegionId /\ y.ipa \in Base
<1>1. y \notin NoSlaveRec
  BY DEF NoSlaveRec
<1> QED BY <1>1 DEF SlaveRec

LEMMA OwnerVisitsType ==
  ASSUME CsmTypes, NEW r \in Realm
  PROVE  OwnerVisits(r) \subseteq Visits
<1> SUFFICES ASSUME NEW i \in Slots, Slaves(r)[i].used
             PROVE  [kind |-> "owner", peer |-> Slaves(r)[i].master, rid |-> Slaves(r)[i].rid, tag |-> 0, off |-> i] \in Visits
  BY DEF OwnerVisits
<1>1. Slaves(r)[i].master \in Realm /\ Slaves(r)[i].rid \in RegionId
  BY UsedNames, Views
<1> QED BY <1>1, SizeFacts DEF Visits

LEMMA SharesInType ==
  ASSUME NEW m \in MasterRec, NEW h \in SharesIn(m)
  PROVE  h.tag \in Tag /\ h.rd \in Realm
BY ShareNames DEF SharesIn

LEMMA BorrowerVisitsType ==
  ASSUME CsmTypes, NEW r \in Realm
  PROVE  BorrowerVisits(r) \subseteq Visits
<1> SUFFICES ASSUME NEW i \in RegionId, NEW h \in SharesIn(Masters(r)[i])
             PROVE  [kind |-> "borrower", peer |-> h.rd, rid |-> i, tag |-> h.tag, off |-> 0] \in Visits
  BY DEF BorrowerVisits, OwnRegions
<1>1. h.tag \in Tag /\ h.rd \in Realm
  BY SharesInType, Views
<1> QED BY <1>1, SizeFacts DEF Visits

LEMMA AptDestroyLocalPe ==
  ASSUME CsmTypes, NEW p \in PE, NEW r \in Realm, AptDestroyLocal(p, r)
  PROVE  \/ /\ \E x \in Call : PeBecomes(p, x) /\ x.op = "apt_destroy" /\ x.step = "panic"
            /\ UNCHANGED <<aptg, master, slave, ids, s2>> /\ Hold(p, Locks(r))
         \/ /\ \E x \in Call : PeBecomes(p, x) /\ x.op = "apt_destroy" /\ x.step = "peers"
            /\ AptLive(r) /\ aptg' = [aptg EXCEPT ![apt_pa[r]] = "DELEGATED"]
            /\ master' = [master EXCEPT ![apt_pa[r]] = EmptyMasters]
            /\ slave' = [slave EXCEPT ![apt_pa[r]] = EmptySlaves]
            /\ ids' = ids \ OwnRegions(r)
            /\ s2' = [s2 EXCEPT ![r] = Unmapped(s2[r], BorrowedPages(r))]
            /\ UNCHANGED lk
<1>1. CASE ~AptLive(r)
  <2>1. Panic(p, "apt_destroy") /\ UNCHANGED <<aptg, master, slave, ids, s2>> /\ Hold(p, Locks(r))
    BY <1>1 DEF AptDestroyLocal
  <2> QED BY <2>1, PanicSets, TypesOf
<1>2. CASE AptLive(r)
  <2> DEFINE T == OwnerVisits(r) \cup BorrowerVisits(r)
             x == [Idle EXCEPT !.op = "apt_destroy", !.step = "peers", !.r = r, !.todo = T]
  <2>1. T \in SUBSET Visits
    BY OwnerVisitsType, BorrowerVisitsType
  <2>2. pe' = [pe EXCEPT ![p] = x]
    BY <1>2 DEF AptDestroyLocal
  <2> HIDE DEF T
  <2>4. x \in PeRec /\ x.op = "apt_destroy" /\ x.step = "peers" /\ x.r = r
    BY <2>1, SizeFacts DEF Idle, PeRec, OpName, StepName
  <2> HIDE DEF x
  <2>5. x \in Call
    BY <2>4 DEF Call, Named
  <2>6. PeBecomes(p, x)
    BY <2>2, <2>5, PeSet, TypesOf
  <2>7. /\ aptg' = [aptg EXCEPT ![apt_pa[r]] = "DELEGATED"]
        /\ master' = [master EXCEPT ![apt_pa[r]] = EmptyMasters]
        /\ slave' = [slave EXCEPT ![apt_pa[r]] = EmptySlaves]
        /\ ids' = ids \ OwnRegions(r)
        /\ s2' = [s2 EXCEPT ![r] = Unmapped(s2[r], BorrowedPages(r))]
        /\ UNCHANGED lk
    BY <1>2 DEF AptDestroyLocal
  <2> QED BY <1>2, <2>4, <2>5, <2>6, <2>7
<1> QED BY <1>1, <1>2

\* A visit of apt_destroy or of a propagation is made.
LEMMA VisitPe ==
  ASSUME CsmTypes, NEW p \in PE, NEW v, pe' = [pe EXCEPT ![p].todo = pe[p].todo \ {v}]
  PROVE  \E x \in Call : PeBecomes(p, x) /\ x.op = pe[p].op /\ x.step = pe[p].step /\ x.r = pe[p].r
                         /\ x.rid = pe[p].rid /\ x.peer = pe[p].peer /\ x.tag = pe[p].tag
                         /\ x.todo = pe[p].todo \ {v}
<1> DEFINE x == [pe[p] EXCEPT !.todo = pe[p].todo \ {v}]
<1>1. pe[p] \in PeRec /\ Named(pe[p])
  BY TypesOf
<1>2. x \in PeRec /\ x.op = pe[p].op /\ x.step = pe[p].step /\ x.r = pe[p].r /\ x.rid = pe[p].rid
      /\ x.peer = pe[p].peer /\ x.tag = pe[p].tag /\ x.todo = pe[p].todo \ {v} /\ x.ipa = pe[p].ipa
  BY <1>1 DEF PeRec
<1>3. pe' = [pe EXCEPT ![p] = x]
  OBVIOUS
<1> HIDE DEF x
<1>4. x \in Call
  BY <1>1, <1>2 DEF Call, Named
<1> QED BY <1>2, <1>3, <1>4, PeSet, TypesOf

\* A propagation is started.
LEMMA PropagatePe ==
  ASSUME CsmTypes, NEW p \in PE, NEW r \in Realm, NEW i \in Ipa, NEW d \in Data \cup {NoData},
         pe' = [pe EXCEPT ![p] = [Idle EXCEPT !.op = "propagate", !.step = "lock", !.r = r, !.ipa = i, !.data = d]]
  PROVE  \E x \in Call : PeBecomes(p, x) /\ x.op = "propagate" /\ x.step = "lock"
<1> DEFINE x == [Idle EXCEPT !.op = "propagate", !.step = "lock", !.r = r, !.ipa = i, !.data = d]
<1>1. x \in PeRec /\ x.op = "propagate" /\ x.step = "lock" /\ x.r = r
  BY SizeFacts DEF Idle, PeRec, OpName, StepName
<1>2. pe' = [pe EXCEPT ![p] = x]
  OBVIOUS
<1> HIDE DEF x
<1>3. x \in Call
  BY <1>1 DEF Call, Named
<1> QED BY <1>1, <1>2, <1>3, PeSet, TypesOf

LEMMA DataDestroyPe ==
  ASSUME CsmTypes, NEW p \in PE, NEW r \in Realm, NEW i \in Ipa, smc_data_destroy(p, r, i)
  PROVE  \E x \in Call : /\ PeBecomes(p, x)
                         /\ \/ x.op = "propagate" /\ x.step = "lock"
                            \/ x.op = "data_state" /\ x.step = "panic"
<1>1. CASE gs[s2[r][i]] # "DATA"
  <2>1. Panic(p, "data_state")
    BY <1>1 DEF smc_data_destroy
  <2> QED BY <2>1, PanicSets, TypesOf
<1>2. CASE gs[s2[r][i]] = "DATA"
  <2>1. pe' = [pe EXCEPT ![p] = [Idle EXCEPT !.op = "propagate", !.step = "lock", !.r = r, !.ipa = i]]
    BY <1>2 DEF smc_data_destroy
  <2> DEFINE x == [Idle EXCEPT !.op = "propagate", !.step = "lock", !.r = r, !.ipa = i]
  <2>2. x \in PeRec /\ x.op = "propagate" /\ x.step = "lock" /\ x.r = r
    BY SizeFacts DEF Idle, PeRec, OpName, StepName
  <2>3. pe' = [pe EXCEPT ![p] = x]
    BY <2>1
  <2> HIDE DEF x
  <2>4. x \in Call
    BY <2>2 DEF Call, Named
  <2> QED BY <2>2, <2>3, <2>4, PeSet, TypesOf
<1> QED BY <1>1, <1>2

LEMMA PropagateLockPe ==
  ASSUME CsmTypes, NEW p \in PE, PropagateLock(p)
  PROVE  \/ PeBecomes(p, Idle) /\ UNCHANGED lk
         \/ /\ \E x \in Call : PeBecomes(p, x) /\ x.op = "propagate" /\ x.step = "peers" /\ x.r = pe[p].r
            /\ Hold(p, Locks(pe[p].r)) /\ AptLive(pe[p].r)
<1> DEFINE r == pe[p].r
           i == pe[p].ipa
           owned == {g \in OwnRegions(r) : i \in PagesFrom(Masters(r)[g].ipa)}
           lent == {j \in Slots : Slaves(r)[j].used /\ i \in PagesFrom(Slaves(r)[j].ipa)}
<1>0. pe[p] \in PeRec /\ Named(pe[p]) /\ pe[p].op = "propagate" /\ r \in Realm /\ i \in Nat
  BY TypesOf, SizeFacts DEF PropagateLock, At, Named, PeRec
<1>1. PICK G \in AtMostOne(owned), J \in AtMostOne(lent) :
        LET todo == (UNION {BorrowersOf(r, g, i) : g \in G}) \cup {OwnerOf(r, j, i) : j \in J} IN
        IF todo = {} THEN Return(p) /\ UNCHANGED lk
        ELSE Hold(p, Locks(r)) /\ pe' = [pe EXCEPT ![p].step = "peers", ![p].todo = todo]
  BY DEF PropagateLock
<1>2. G \subseteq owned /\ J \subseteq lent
  <2> HIDE DEF owned, lent
  <2> QED BY DEF AtMostOne
<1> DEFINE todo == (UNION {BorrowersOf(r, g, i) : g \in G}) \cup {OwnerOf(r, j, i) : j \in J}
<1>3. \A g \in G : BorrowersOf(r, g, i) \subseteq Visits
  <2> SUFFICES ASSUME NEW g \in G, NEW h \in SharesIn(Masters(r)[g])
               PROVE  [kind |-> "borrower", peer |-> h.rd, rid |-> g, tag |-> h.tag, off |-> i - Masters(r)[g].ipa] \in Visits
    BY DEF BorrowersOf
  <2>1. g \in RegionId /\ i \in PagesFrom(Masters(r)[g].ipa) /\ Masters(r)[g] \in MasterRec
    BY <1>0, <1>2, Views DEF OwnRegions
  <2>2. Masters(r)[g].ipa \in Nat
    BY <2>1, SizeFacts DEF MasterRec
  <2>3. i - Masters(r)[g].ipa \in Nat
    BY <2>1, <2>2, PageOffset
  <2>4. h.tag \in 0..MaxTags /\ h.rd \in Realm
    BY <2>1, SharesInType, SizeFacts
  <2> QED BY <2>1, <2>3, <2>4 DEF Visits
<1>4. \A j \in J : OwnerOf(r, j, i) \in Visits
  <2> SUFFICES ASSUME NEW j \in J PROVE OwnerOf(r, j, i) \in Visits
    OBVIOUS
  <2>1. j \in Slots /\ Slaves(r)[j].used /\ i \in PagesFrom(Slaves(r)[j].ipa) /\ Slaves(r)[j] \in SlaveRec
    BY <1>0, <1>2, Views
  <2>3. Slaves(r)[j].master \in Realm /\ Slaves(r)[j].rid \in RegionId /\ Slaves(r)[j].ipa \in Nat
    BY <2>1, UsedNames, SizeFacts
  <2>4. i - Slaves(r)[j].ipa \in Nat
    BY <2>1, <2>3, PageOffset
  <2> QED BY <2>3, <2>4, SizeFacts DEF Visits, OwnerOf
<1>5. todo \in SUBSET Visits
  BY <1>3, <1>4
<1>6. IF todo = {} THEN Return(p) /\ UNCHANGED lk
      ELSE Hold(p, Locks(r)) /\ pe' = [pe EXCEPT ![p].step = "peers", ![p].todo = todo]
  BY <1>1
<1>9. todo # {} => AptLive(r)
  <2>1. \A g \in OwnRegions(r) : AptLive(r)
    BY <1>0, Views DEF OwnRegions
  <2>2. \A j \in lent : AptLive(r)
    BY <1>0, Views
  <2> QED BY <1>2, <2>1, <2>2
<1> HIDE DEF todo
<1>7. CASE todo = {}
  BY <1>6, <1>7, ReturnSets, TypesOf
<1>8. CASE todo # {}
  <2> DEFINE x == [pe[p] EXCEPT !.step = "peers", !.todo = todo]
  <2>1. pe' = [pe EXCEPT ![p] = x]
    BY <1>6, <1>8
  <2>2. x \in PeRec /\ x.op = "propagate" /\ x.step = "peers" /\ x.r = pe[p].r
    BY <1>0, <1>5 DEF PeRec, StepName
  <2> HIDE DEF x
  <2>3. x \in Call
    BY <1>0, <2>2 DEF Call, Named
  <2> QED BY <1>6, <1>8, <1>9, <2>1, <2>2, <2>3, PeSet, TypesOf
<1> QED BY <1>7, <1>8

-----------------------------------------------------------------------------
(* What a write to an APT or to a page table leaves.                       *)

\* The owned regions stay where they are; only their shares may change.
OwnedKept ==
  /\ master' \in [AptGranule -> [RegionId -> MasterRec]]
  /\ \A g \in AptGranule, i \in RegionId :
       master'[g][i].used = master[g][i].used /\ master'[g][i].ipa = master[g][i].ipa

\* Borrowed regions stay or are given up.
BorrowedShrink ==
  /\ slave' \in [AptGranule -> [Slots -> SlaveRec]]
  /\ \A g \in AptGranule, i \in Slots : slave'[g][i] = slave[g][i] \/ ~slave'[g][i].used

LEMMA OwnedSame == CsmTypes /\ UNCHANGED master => OwnedKept
BY DEF CsmTypes, MapTypes, OwnedKept

LEMMA BorrowedSame == CsmTypes /\ UNCHANGED slave => BorrowedShrink
BY DEF CsmTypes, MapTypes, BorrowedShrink

\* The region with one identifier in one APT becomes x, the others stay.
MasterBecomes(g, i, x) ==
  /\ master' \in [AptGranule -> [RegionId -> MasterRec]]
  /\ master'[g][i] = x
  /\ \A h \in AptGranule, j \in RegionId : h # g \/ j # i => master'[h][j] = master[h][j]

LEMMA MasterSet ==
  ASSUME CsmTypes, NEW g \in AptGranule, NEW i \in RegionId, NEW x \in MasterRec, master' = [master EXCEPT ![g][i] = x]
  PROVE  MasterBecomes(g, i, x)
<1>1. master \in [AptGranule -> [RegionId -> MasterRec]]
  BY DEF CsmTypes, MapTypes
<1> QED BY <1>1 DEF MasterBecomes

LEMMA SharesSet ==
  ASSUME CsmTypes, NEW g \in AptGranule, NEW i \in RegionId, NEW f \in [ShareSlots -> Share],
         master' = [master EXCEPT ![g][i].shares = f]
  PROVE  OwnedKept
<1> DEFINE x == [master[g][i] EXCEPT !.shares = f]
<1>1. x \in MasterRec /\ x.used = master[g][i].used /\ x.ipa = master[g][i].ipa
  BY TypesOf DEF MasterRec
<1>2. master' = [master EXCEPT ![g][i] = x]
  OBVIOUS
<1> HIDE DEF x
<1>3. MasterBecomes(g, i, x)
  BY <1>1, <1>2, MasterSet
<1> QED BY <1>1, <1>3 DEF MasterBecomes, OwnedKept

LEMMA ShareCleared ==
  ASSUME CsmTypes, NEW g \in AptGranule, NEW i \in RegionId, NEW k \in ShareSlots,
         master' = [master EXCEPT ![g][i].shares[k] = NoShare]
  PROVE  OwnedKept
<1> DEFINE f == [master[g][i].shares EXCEPT ![k] = NoShare]
<1>1. master[g][i].shares \in [ShareSlots -> Share]
  BY TypesOf DEF MasterRec
<1>2. f \in [ShareSlots -> Share]
  BY <1>1 DEF Share
<1>3. master' = [master EXCEPT ![g][i].shares = f]
  OBVIOUS
<1> HIDE DEF f
<1> QED BY <1>2, <1>3, SharesSet

LEMMA MastersEmptied ==
  ASSUME CsmTypes, NEW g \in AptGranule, master' = [master EXCEPT ![g] = EmptyMasters]
  PROVE  /\ master' \in [AptGranule -> [RegionId -> MasterRec]]
         /\ \A i \in RegionId : ~master'[g][i].used
         /\ \A h \in AptGranule : h # g => master'[h] = master[h]
<1>1. master \in [AptGranule -> [RegionId -> MasterRec]]
  BY DEF CsmTypes, MapTypes
<1> QED BY <1>1, NoMasterType

LEMMA SlavesEmptied ==
  ASSUME CsmTypes, NEW g \in AptGranule, slave' = [slave EXCEPT ![g] = EmptySlaves]
  PROVE  BorrowedShrink
<1>1. slave \in [AptGranule -> [Slots -> SlaveRec]]
  BY DEF CsmTypes, MapTypes
<1> QED BY <1>1, NoSlaveType DEF BorrowedShrink

LEMMA S2Set ==
  ASSUME CsmTypes, NEW r \in Realm, NEW f \in [Ipa -> Data \cup {NoData}], s2' = [s2 EXCEPT ![r] = f]
  PROVE  s2' \in [Realm -> [Ipa -> Data \cup {NoData}]]
BY DEF CsmTypes, MapTypes

LEMMA UnmappedType ==
  ASSUME CsmTypes, NEW r \in Realm, NEW pages
  PROVE  Unmapped(s2[r], pages) \in [Ipa -> Data \cup {NoData}]
BY DEF CsmTypes, MapTypes, Unmapped

\* A slot that is given up: no longer used, or cleared.
LEMMA GivenUp ==
  ASSUME NEW y \in SlaveRec, NEW clear
  PROVE  LET z == IF clear THEN NoSlave ELSE [y EXCEPT !.used = FALSE]
         IN  z \in SlaveRec /\ ~z.used
<1>1. NoSlave \in SlaveRec /\ ~NoSlave.used
  BY NoSlaveType
<1> DEFINE z == [y EXCEPT !.used = FALSE]
<1>2. CASE y \in NoSlaveRec
  <2>1. z \in NoSlaveRec /\ ~z.used
    BY <1>2 DEF NoSlaveRec
  <2> QED BY <1>1, <2>1 DEF SlaveRec
<1>3. CASE y \notin NoSlaveRec
  <2>1. y \in [rid : RegionId, master : Realm, ipa : Base, used : BOOLEAN]
    BY <1>3 DEF SlaveRec
  <2>2. z \in [rid : RegionId, master : Realm, ipa : Base, used : BOOLEAN] /\ ~z.used
    BY <2>1
  <2> QED BY <1>1, <2>2 DEF SlaveRec
<1> QED BY <1>2, <1>3

\* What DropBorrowed takes away.
LEMMA Dropped ==
  ASSUME CsmTypes, NEW r \in Realm, NEW rid, NEW clear, DropBorrowed(r, rid, clear)
  PROVE  BorrowedShrink /\ s2' \in [Realm -> [Ipa -> Data \cup {NoData}]]
<1> DEFINE up(i) == IF clear THEN NoSlave ELSE [Slaves(r)[i] EXCEPT !.used = FALSE]
           hit(g, i) == g = apt_pa[r] /\ i \in FirstSlave(r, rid)
<1>1. slave' = [g \in AptGranule |-> [i \in Slots |-> IF hit(g, i) THEN up(i) ELSE slave[g][i]]]
  BY DEF DropBorrowed
<1>2. \A i \in Slots : up(i) \in SlaveRec /\ ~up(i).used
  BY GivenUp, Views
<1>3. \A g \in AptGranule, i \in Slots : slave[g][i] \in SlaveRec
  BY TypesOf
<1>4. s2' \in [Realm -> [Ipa -> Data \cup {NoData}]]
  <2>1. PICK pages : s2' = [s2 EXCEPT ![r] = Unmapped(s2[r], pages)]
    BY DEF DropBorrowed
  <2> QED BY <2>1, S2Set, UnmappedType
<1> HIDE DEF hit, up
<1>5. BorrowedShrink
  BY <1>1, <1>2, <1>3 DEF BorrowedShrink
<1> QED BY <1>4, <1>5

\* One more share in a free slot, or nothing.
LEMMA ShareEnterEffect ==
  ASSUME CsmTypes, NEW p \in PE, ShareEnter(p)
  PROVE  \/ /\ \E x \in Call : PeBecomes(p, x) /\ x.op = "apt_null" /\ x.step = "panic"
            /\ UNCHANGED master /\ Hold(p, Locks(pe[p].r))
         \/ PeBecomes(p, Idle) /\ UNCHANGED lk /\ OwnedKept
<1> DEFINE r == pe[p].r
           m == Masters(r)[pe[p].rid]
           new == [tag |-> pe[p].tag, rd |-> pe[p].peer]
<1>0. pe[p].r \in Realm /\ pe[p].rid \in RegionId /\ pe[p].peer \in Realm /\ pe[p].tag \in Tag
  BY TypesOf DEF ShareEnter, At, Named
<1>1. CASE ~AptLive(r)
  <2>1. Panic(p, "apt_null") /\ UNCHANGED master /\ Hold(p, Locks(r))
    BY <1>1 DEF ShareEnter
  <2> QED BY <2>1, PanicSets, TypesOf
<1>2. CASE AptLive(r)
  <2>1. PeBecomes(p, Idle) /\ UNCHANGED lk
    BY <1>2, ReturnSets, TypesOf DEF ShareEnter
  <2>2. CASE ~(m.used /\ ShareOf(m, pe[p].tag) = {})
    <3>1. UNCHANGED master
      BY <1>2, <2>2 DEF ShareEnter
    <3> QED BY <2>1, <3>1, OwnedSame
  <2>3. CASE m.used /\ ShareOf(m, pe[p].tag) = {}
    <3> DEFINE f == [k \in ShareSlots |-> IF k \in FreeShare(m) THEN new ELSE m.shares[k]]
    <3>1. master' = [master EXCEPT ![apt_pa[pe[p].r]][pe[p].rid].shares = f]
      BY <1>2, <2>3 DEF ShareEnter
    <3>2. m \in MasterRec /\ apt_pa[pe[p].r] \in AptGranule
      BY <1>0, <1>2, Views
    <3>3. new \in Share
      BY <1>0 DEF Share
    <3> HIDE DEF m, new
    <3>4. \A k \in ShareSlots : m.shares[k] \in Share
      BY <3>2, ShareNames
    <3>5. f \in [ShareSlots -> Share]
      BY <3>3, <3>4
    <3> HIDE DEF f
    <3> QED BY <1>0, <2>1, <3>1, <3>2, <3>5, SharesSet
  <2> QED BY <2>2, <2>3
<1> QED BY <1>1, <1>2

LEMMA RevokeShareEffect ==
  ASSUME CsmTypes, NEW p \in PE, RevokeShare(p)
  PROVE  OwnedKept /\ \E x \in Call : PeBecomes(p, x) /\ (x = Idle \/ (x.op = "revoke" /\ x.step = "peer"))
<1>1. CASE PeBecomes(p, Idle) /\ UNCHANGED master
  BY <1>1, OwnedSame, IdleType
<1>2. CASE /\ \E x \in Call : PeBecomes(p, x) /\ x.op = "revoke" /\ x.step = "peer"
           /\ AptLive(pe[p].r)
           /\ \E k \in ShareSlots : master' = [master EXCEPT ![apt_pa[pe[p].r]][pe[p].rid].shares[k] = NoShare]
  <2>1. pe[p].r \in Realm /\ pe[p].rid \in RegionId
    BY TypesOf DEF RevokeShare, At, Named
  <2>2. apt_pa[pe[p].r] \in AptGranule
    BY <1>2, <2>1, Views
  <2> QED BY <1>2, <2>1, <2>2, ShareCleared
<1> QED BY <1>1, <1>2, RevokeSharePe

\* One share of the leaving realm is removed, or nothing.
LEMMA AptDestroyOwnerEffect ==
  ASSUME CsmTypes, NEW p \in PE, AptDestroyOwner(p)
  PROVE  OwnedKept /\ \E x \in Call : PeBecomes(p, x) /\ x.op = "apt_destroy" /\ x.step = "peers"
<1> DEFINE m(v) == Masters(v.peer)[v.rid]
           hits(v) == {k \in ShareSlots : m(v).shares[k].rd = pe[p].r}
           f(v) == [k \in ShareSlots |-> IF k \in hits(v) /\ \A l \in hits(v) : k <= l THEN NoShare ELSE m(v).shares[k]]
<1>1. PICK v \in pe[p].todo :
        /\ At(p, "apt_destroy", "peers") /\ v.kind = "owner"
        /\ master' = IF m(v).used THEN [master EXCEPT ![apt_pa[v.peer]][v.rid].shares = f(v)] ELSE master
        /\ pe' = [pe EXCEPT ![p].todo = pe[p].todo \ {v}]
  BY DEF AptDestroyOwner
<1>2. v \in Visits /\ v.peer \in Realm /\ v.rid \in RegionId
  BY TypesOf DEF PeRec, Visits
<1>3. \E x \in Call : PeBecomes(p, x) /\ x.op = "apt_destroy" /\ x.step = "peers"
  <2>1. pe' = [pe EXCEPT ![p].todo = pe[p].todo \ {v}]
    BY <1>1
  <2>2. pe[p].op = "apt_destroy" /\ pe[p].step = "peers"
    BY <1>1 DEF At
  <2>3. \E x \in Call : PeBecomes(p, x) /\ x.op = pe[p].op /\ x.step = pe[p].step
    BY <2>1, VisitPe
  <2> QED BY <2>2, <2>3
<1>4. CASE m(v).used
  <2>1. m(v) \in MasterRec /\ apt_pa[v.peer] \in AptGranule
    BY <1>2, <1>4, Views
  <2>2. master' = [master EXCEPT ![apt_pa[v.peer]][v.rid].shares = f(v)]
    BY <1>1, <1>4
  <2> HIDE DEF m, hits
  <2>3. \A k \in ShareSlots : m(v).shares[k] \in Share
    BY <2>1, ShareNames
  <2>4. f(v) \in [ShareSlots -> Share]
    BY <2>3 DEF Share
  <2> HIDE DEF f
  <2> QED BY <1>2, <1>3, <2>1, <2>2, <2>4, SharesSet
<1>5. CASE ~m(v).used
  <2>1. UNCHANGED master
    BY <1>1, <1>5
  <2> QED BY <1>3, <2>1, OwnedSame
<1> QED BY <1>4, <1>5

\* The new entry of a reservation goes to the first free slot, when it is allowed.
LEMMA ReservePeerEffect ==
  ASSUME CsmTypes, NEW p \in PE, ReservePeer(p)
  PROVE  /\ slave' \in [AptGranule -> [Slots -> SlaveRec]]
         /\ \/ /\ \E x \in Call : PeBecomes(p, x) /\ x.op \in {"rd_null", "apt_null"} /\ x.step = "panic"
               /\ UNCHANGED slave /\ (UNCHANGED lk \/ Hold(p, Locks(pe[p].peer)))
            \/ /\ PeBecomes(p, Idle) /\ Unlock(Locks(pe[p].r))
               /\ \A g \in AptGranule, i \in Slots :
                    \/ slave'[g][i] = slave[g][i]
                    \/ /\ ReserveAllowed(pe[p].r, pe[p].tag, pe[p].rid, pe[p].peer, pe[p].ipa)
                       /\ g = apt_pa[pe[p].r] /\ i \in FreeSlave(pe[p].r)
                       /\ slave'[g][i].ipa = pe[p].ipa
<1> DEFINE r == pe[p].r
           m == pe[p].peer
           new == [rid |-> pe[p].rid, master |-> m, ipa |-> pe[p].ipa, used |-> TRUE]
           ok == ReserveAllowed(r, pe[p].tag, pe[p].rid, m, pe[p].ipa)
           at == IF ok THEN FreeSlave(r) ELSE {}
<1>0. pe[p].r \in Realm /\ pe[p].rid \in RegionId /\ pe[p].peer \in Realm /\ pe[p].ipa \in Base
  BY TypesOf DEF ReservePeer, At, Named
<1>t. slave \in [AptGranule -> [Slots -> SlaveRec]]
  BY DEF CsmTypes, MapTypes
<1>1. CASE rd[m] = "none" /\ Panic(p, "rd_null") /\ UNCHANGED <<lk, slave>>
  BY <1>1, <1>t, PanicSets, TypesOf
<1>2. CASE Panic(p, "apt_null") /\ Hold(p, Locks(m)) /\ UNCHANGED slave
  BY <1>2, <1>t, PanicSets, TypesOf
<1>3. CASE /\ Return(p) /\ Unlock(Locks(r))
           /\ slave' = [slave EXCEPT ![apt_pa[r]] = [i \in Slots |-> IF i \in at THEN new ELSE slave[apt_pa[r]][i]]]
  <2>1. PeBecomes(p, Idle)
    BY <1>3, ReturnSets, TypesOf
  <2>2. new \in SlaveRec /\ new.ipa = pe[p].ipa
    BY <1>0 DEF SlaveRec
  <2>3. at # {} => ok /\ at = FreeSlave(r)
    OBVIOUS
  <2> HIDE DEF at, new
  <2>4. /\ slave' \in [AptGranule -> [Slots -> SlaveRec]]
        /\ \A g \in AptGranule, i \in Slots : slave'[g][i] = slave[g][i] \/ (g = apt_pa[r] /\ i \in at /\ slave'[g][i] = new)
    BY <1>3, <1>t, <2>2
  <2> QED BY <1>3, <2>1, <2>2, <2>3, <2>4
<1> QED BY <1>1, <1>2, <1>3 DEF ReservePeer

\* Attach writes the page tables of the borrower with pages of the owner.
LEMMA AttachPeerEffect ==
  ASSUME CsmTypes, NEW p \in PE, AttachPeer(p)
  PROVE  /\ s2' \in [Realm -> [Ipa -> Data \cup {NoData}]]
         /\ \/ /\ \E x \in Call : PeBecomes(p, x) /\ x.op \in {"apt_null", "llt_unlock"} /\ x.step = "panic"
               /\ Hold(p, Locks(pe[p].peer))
            \/ PeBecomes(p, Idle) /\ Unlock(Locks(pe[p].r))
<1> DEFINE r == pe[p].r
           m == pe[p].peer
           b == Slaves(r)[pe[p].slot].ipa
           src(o) == s2[m][Masters(m)[pe[p].rid].ipa + o]
<1>0. /\ pe[p] \in PeRec /\ Named(pe[p]) /\ pe[p].op = "attach" /\ m \in Realm
  BY TypesOf DEF AttachPeer, At
<1>1. r \in Realm /\ pe[p].rid \in RegionId
  BY <1>0 DEF Named
<1>2. s2 \in [Realm -> [Ipa -> Data \cup {NoData}]]
  BY DEF CsmTypes, MapTypes
<1>3. CASE ~AptLive(m)
  <2>1. Panic(p, "apt_null") /\ UNCHANGED s2 /\ Hold(p, Locks(m))
    BY <1>3 DEF AttachPeer
  <2> QED BY <1>2, <2>1, PanicSets, TypesOf
<1>4. CASE AptLive(m) /\ ~Masters(m)[pe[p].rid].used
  <2>1. Return(p) /\ UNCHANGED s2 /\ Unlock(Locks(r))
    BY <1>4 DEF AttachPeer
  <2> QED BY <1>2, <2>1, ReturnSets, TypesOf
<1>5. CASE AptLive(m) /\ Masters(m)[pe[p].rid].used
  <2> DEFINE good(ram) == {o \in Offsets : \A q \in 0..o : q \in ram /\ src(q) # NoData}
             f(ram) == [i \in Ipa |-> IF i - b \in good(ram) THEN src(i - b) ELSE s2[r][i]]
  <2>1. PICK ram \in SUBSET Offsets :
          /\ s2' = [s2 EXCEPT ![r] = f(ram)]
          /\ IF good(ram) # {} /\ good(ram) # Offsets
             THEN Panic(p, "llt_unlock") /\ Hold(p, Locks(m))
             ELSE Return(p) /\ Unlock(Locks(r))
    BY <1>5 DEF AttachPeer
  <2>2. Masters(m)[pe[p].rid].ipa \in Base
    <3>1. Masters(m)[pe[p].rid] \in MasterRec
      BY <1>0, <1>1, Views
    <3> QED BY <3>1 DEF MasterRec
  <2>3. \A o \in Offsets : src(o) \in Data \cup {NoData}
    BY <1>0, <1>2, <2>2, SizeFacts
  <2>4. good(ram) \subseteq Offsets
    OBVIOUS
  <2>5. \A i \in Ipa : s2[r][i] \in Data \cup {NoData}
    BY <1>1, <1>2
  <2>6. f(ram) \in [Ipa -> Data \cup {NoData}]
    <3> HIDE DEF good, src
    <3> QED BY <2>3, <2>4, <2>5
  <2>7. s2' \in [Realm -> [Ipa -> Data \cup {NoData}]]
    <3> HIDE DEF f
    <3> QED BY <1>1, <2>1, <2>6, S2Set
  <2>8. CASE good(ram) # {} /\ good(ram) # Offsets
    <3>1. Panic(p, "llt_unlock") /\ Hold(p, Locks(m))
      BY <2>1, <2>8
    <3>2. \E x \in Call : PeBecomes(p, x) /\ x.op = "llt_unlock" /\ x.step = "panic"
      BY <3>1, PanicSets, TypesOf
    <3> QED BY <2>7, <3>1, <3>2
  <2>9. CASE ~(good(ram) # {} /\ good(ram) # Offsets)
    <3>1. Return(p) /\ Unlock(Locks(r))
      BY <2>1, <2>9
    <3> QED BY <2>7, <3>1, ReturnSets, TypesOf
  <2> QED BY <2>8, <2>9
<1> QED BY <1>3, <1>4, <1>5

\* The region is entered under an identifier that nobody has, or nothing is.
LEMMA CreateEffect ==
  ASSUME CsmTypes, NEW p \in PE, NEW r \in Realm, NEW b \in Base, handle_rsi_csm_create(p, r, b)
  PROVE  \/ /\ \E x \in Call : PeBecomes(p, x) /\ x.op = "apt_null" /\ x.step = "panic"
            /\ UNCHANGED <<master, ids>> /\ Hold(p, Locks(r))
         \/ /\ AptLive(r) /\ ~Conflict(r, b, TRUE) /\ UNCHANGED <<pe, lk>>
            /\ \E rid \in RegionId \ ids : \E y \in MasterRec :
                 /\ ids' = ids \cup {rid}
                 /\ MasterBecomes(apt_pa[r], rid, y) /\ y.used /\ y.ipa = b
<1>1. CASE ~AptLive(r)
  <2>1. Panic(p, "apt_null") /\ Hold(p, Locks(r)) /\ UNCHANGED <<master, ids>>
    BY <1>1 DEF handle_rsi_csm_create
  <2> QED BY <2>1, PanicSets, TypesOf
<1>2. CASE AptLive(r)
  <2> DEFINE y == [ipa |-> b, shares |-> NoShares, used |-> TRUE]
  <2>1. PICK rid \in RegionId \ ids :
          /\ ~Conflict(r, b, TRUE) /\ ids' = ids \cup {rid}
          /\ master' = [master EXCEPT ![apt_pa[r]][rid] = y] /\ UNCHANGED <<pe, lk>>
    BY <1>2 DEF handle_rsi_csm_create
  <2>2. y \in MasterRec /\ y.used /\ y.ipa = b
    BY NoMasterType DEF MasterRec
  <2> HIDE DEF y
  <2>3. apt_pa[r] \in AptGranule
    BY <1>2, Views
  <2>4. MasterBecomes(apt_pa[r], rid, y)
    BY <2>1, <2>2, <2>3, MasterSet
  <2> QED BY <1>2, <2>1, <2>2, <2>4
<1> QED BY <1>1, <1>2

\* A borrower's entry goes and its pages are unmapped; the PE goes on or returns.
LEMMA DropEffect ==
  ASSUME CsmTypes, NEW p \in PE, DetachRemove(p) \/ RevokePeer(p) \/ AptDestroyBorrower(p)
  PROVE  /\ BorrowedShrink /\ s2' \in [Realm -> [Ipa -> Data \cup {NoData}]]
         /\ \E x \in Call : PeBecomes(p, x) /\ (x = Idle \/ (x.op = "apt_destroy" /\ x.step = "peers"))
         /\ pe[p].op \in {"detach", "revoke", "apt_destroy"} /\ pe[p].step # "panic"
<1>0. pe \in [PE -> Call] /\ pe[p] \in PeRec /\ Named(pe[p])
  BY TypesOf
<1>1. CASE DetachRemove(p)
  <2>1. pe[p].r \in Realm /\ DropBorrowed(pe[p].r, pe[p].rid, FALSE)
    BY <1>0, <1>1 DEF DetachRemove, At, Named
  <2>2. BorrowedShrink /\ s2' \in [Realm -> [Ipa -> Data \cup {NoData}]]
    BY <2>1, Dropped
  <2>3. PeBecomes(p, Idle) /\ pe[p].op = "detach" /\ pe[p].step = "remove"
    BY <1>0, <1>1, ReturnSets DEF DetachRemove, At
  <2> QED BY <2>2, <2>3, IdleType
<1>2. CASE RevokePeer(p)
  <2>1. pe[p].peer \in Realm /\ DropBorrowed(pe[p].peer, pe[p].rid, FALSE)
    BY <1>0, <1>2 DEF RevokePeer, At, Named
  <2>2. BorrowedShrink /\ s2' \in [Realm -> [Ipa -> Data \cup {NoData}]]
    BY <2>1, Dropped
  <2>3. PeBecomes(p, Idle) /\ pe[p].op = "revoke" /\ pe[p].step = "peer"
    BY <1>0, <1>2, ReturnSets DEF RevokePeer, At
  <2> QED BY <2>2, <2>3, IdleType
<1>3. CASE AptDestroyBorrower(p)
  <2>1. PICK v \in pe[p].todo : DropBorrowed(v.peer, v.rid, TRUE) /\ pe' = [pe EXCEPT ![p].todo = pe[p].todo \ {v}]
    BY <1>3 DEF AptDestroyBorrower
  <2>2. v.peer \in Realm
    BY <1>0 DEF PeRec, Visits
  <2>3. BorrowedShrink /\ s2' \in [Realm -> [Ipa -> Data \cup {NoData}]]
    BY <2>1, <2>2, Dropped
  <2>4. pe[p].op = "apt_destroy" /\ pe[p].step = "peers"
    BY <1>3 DEF AptDestroyBorrower, At
  <2>5. \E x \in Call : PeBecomes(p, x) /\ x.op = pe[p].op /\ x.step = pe[p].step
    BY <2>1, VisitPe
  <2> QED BY <2>3, <2>4, <2>5
<1> QED BY <1>1, <1>2, <1>3

LEMMA PropagatePeerEffect ==
  ASSUME CsmTypes, NEW p \in PE, PropagatePeer(p)
  PROVE  /\ s2' \in [Realm -> [Ipa -> Data \cup {NoData}]]
         /\ \E x \in Call : PeBecomes(p, x) /\ x.op = "propagate" /\ x.step = "peers" /\ x.r = pe[p].r
<1>1. PICK v \in pe[p].todo :
        /\ s2' = [s2 EXCEPT ![v.peer] = [i \in Ipa |-> IF i \in PeerPages(v) THEN pe[p].data ELSE s2[v.peer][i]]]
        /\ pe' = [pe EXCEPT ![p].todo = pe[p].todo \ {v}]
  BY DEF PropagatePeer
<1>2. v.peer \in Realm /\ pe[p].data \in Data \cup {NoData}
  BY TypesOf DEF PeRec, Visits
<1>3. [i \in Ipa |-> IF i \in PeerPages(v) THEN pe[p].data ELSE s2[v.peer][i]] \in [Ipa -> Data \cup {NoData}]
  BY <1>2 DEF CsmTypes, MapTypes
<1>4. pe[p].op = "propagate" /\ pe[p].step = "peers"
  BY DEF PropagatePeer, At
<1>5. \E x \in Call : PeBecomes(p, x) /\ x.op = pe[p].op /\ x.step = pe[p].step /\ x.r = pe[p].r
  BY <1>1, VisitPe
<1> QED BY <1>1, <1>2, <1>3, <1>4, <1>5, S2Set

-----------------------------------------------------------------------------
(* Every step keeps the types.                                             *)

LEMMA LkTypes ==
  ASSUME AptTypes, NEW p \in PE, UNCHANGED lk \/ \E X : Hold(p, X) \/ Unlock(X)
  PROVE  lk' \in [Lockable -> PE \cup {NoPE}]
BY DEF AptTypes, Hold, Unlock, Lockable

LEMMA AptTypesKept ==
  ASSUME AptTypes, NEW p \in PE, UNCHANGED lk \/ \E X : Hold(p, X) \/ Unlock(X), UNCHANGED <<realmVars, ids>>, UNCHANGED aptg
  PROVE  AptTypes'
<1>1. lk' \in [Lockable -> PE \cup {NoPE}]
  BY LkTypes
<1> QED BY <1>1 DEF AptTypes, realmVars

LEMMA OwnerCallTypes ==
  ASSUME CsmTypes, NEW p \in PE, OwnerCall(p)
  PROVE  CsmTypes'
<1>0. AptTypes /\ MapTypes /\ pe \in [PE -> Call]
  BY DEF CsmTypes
<1>1. PICK r \in Owner, rid \in RegionId :
        \/ \E b \in Base : handle_rsi_csm_create(p, r, b)
        \/ \E s \in Borrower : ShareLookup(p, r, rid, s)
        \/ \E t \in Tag : RevokeLookup(p, r, rid, t)
        \/ DestroyRegion(p, r, rid)
  BY DEF OwnerCall
<1>r. r \in Realm
  BY CsmAssumption
<1>2. CASE \E b \in Base : handle_rsi_csm_create(p, r, b)
  <2>1. PICK b \in Base : handle_rsi_csm_create(p, r, b)
    BY <1>2
  <2>2. UNCHANGED <<rd, aptg, apt_pa, tag, slave, s2, gs>>
    BY <2>1 DEF handle_rsi_csm_create, realmVars
  <2>3. /\ UNCHANGED lk \/ \E X : Hold(p, X) \/ Unlock(X)
        /\ ids' \subseteq RegionId
        /\ pe' \in [PE -> Call]
        /\ master' \in [AptGranule -> [RegionId -> MasterRec]]
    <3>1. CASE (\E x \in Call : PeBecomes(p, x)) /\ UNCHANGED <<master, ids>> /\ Hold(p, Locks(r))
      BY <1>0, <3>1 DEF PeBecomes, AptTypes, MapTypes
    <3>2. CASE /\ UNCHANGED <<pe, lk>>
               /\ \E g \in RegionId \ ids : \E y \in MasterRec :
                    ids' = ids \cup {g} /\ MasterBecomes(apt_pa[r], g, y)
      BY <1>0, <3>2 DEF MasterBecomes, AptTypes
    <3> QED BY <1>r, <2>1, <3>1, <3>2, CreateEffect
  <2>4. lk' \in [Lockable -> PE \cup {NoPE}]
    BY <1>0, <2>3, LkTypes
  <2>5. AptTypes'
    BY <1>0, <2>2, <2>3, <2>4 DEF AptTypes
  <2> QED BY <1>0, <2>2, <2>3, <2>5 DEF CsmTypes, MapTypes
<1>3. CASE \E s \in Borrower : ShareLookup(p, r, rid, s)
  <2>1. PICK s \in Realm : ShareLookup(p, r, rid, s)
    BY <1>3, CsmAssumption
  <2>2. pe' \in [PE -> Call]
    BY <1>r, <2>1, ShareLookupPe DEF PeBecomes
  <2>3. UNCHANGED <<lk, aptg, realmVars, ids, master, slave, s2, gs>>
    BY <2>1 DEF ShareLookup, aptVars, realmVars
  <2> QED BY <1>0, <2>2, <2>3, AptTypesKept DEF CsmTypes, MapTypes
<1>4. CASE \E t \in Tag : RevokeLookup(p, r, rid, t)
  <2>1. PICK t \in Tag : RevokeLookup(p, r, rid, t)
    BY <1>4
  <2>2. pe' \in [PE -> Call]
    BY <1>r, <2>1, RevokeLookupPe DEF PeBecomes
  <2>3. UNCHANGED <<lk, aptg, realmVars, ids, master, slave, s2, gs>>
    BY <2>1 DEF RevokeLookup, aptVars, realmVars
  <2> QED BY <1>0, <2>2, <2>3, AptTypesKept DEF CsmTypes, MapTypes
<1>5. CASE DestroyRegion(p, r, rid)
  <2>2. pe' \in [PE -> Call]
    BY <1>r, <1>5, DestroyRegionPe DEF PeBecomes
  <2>3. UNCHANGED <<lk, aptg, realmVars, ids, slave, s2, gs>>
    BY <1>5 DEF DestroyRegion, realmVars
  <2>4. master' = [master EXCEPT ![apt_pa[r]][rid] = NoMaster]
    BY <1>5 DEF DestroyRegion
  <2>5. apt_pa[r] \in AptGranule
    BY <1>r, <1>5, Views DEF DestroyRegion, DestroyAllowed
  <2>6. master' \in [AptGranule -> [RegionId -> MasterRec]]
    BY <2>4, <2>5, MasterSet, NoMasterType DEF MasterBecomes
  <2> QED BY <1>0, <2>2, <2>3, <2>6, AptTypesKept DEF CsmTypes, MapTypes
<1> QED BY <1>1, <1>2, <1>3, <1>4, <1>5

LEMMA BorrowerCallTypes ==
  ASSUME CsmTypes, NEW p \in PE, BorrowerCall(p)
  PROVE  CsmTypes'
<1>0. AptTypes /\ MapTypes
  BY DEF CsmTypes
<1>1. PICK r \in Borrower :
        \/ \E rid \in RegionId, m \in Owner, b \in Base : ReserveLookup(p, r, rid, m, b)
        \/ \E i \in Slots : AttachLock(p, r, i)
        \/ \E rid \in RegionId : DetachLookup(p, r, rid)
  BY DEF BorrowerCall
<1>r. r \in Realm
  BY CsmAssumption
<1>2. CASE \E rid \in RegionId, m \in Owner, b \in Base : ReserveLookup(p, r, rid, m, b)
  <2>1. PICK rid \in RegionId, m \in Realm, b \in Base : ReserveLookup(p, r, rid, m, b)
    BY <1>2, CsmAssumption
  <2>2. pe' \in [PE -> Call]
    BY <1>r, <2>1, ReserveLookupPe DEF PeBecomes
  <2>3. UNCHANGED <<lk, aptg, realmVars, ids, master, slave, s2, gs>>
    BY <2>1 DEF ReserveLookup, aptVars, realmVars
  <2> QED BY <1>0, <2>2, <2>3, AptTypesKept DEF CsmTypes, MapTypes
<1>3. CASE \E i \in Slots : AttachLock(p, r, i)
  <2>1. PICK i \in Slots : AttachLock(p, r, i)
    BY <1>3
  <2>2. pe' \in [PE -> Call]
    BY <1>r, <2>1, AttachLockPe DEF PeBecomes
  <2>3. UNCHANGED <<aptg, realmVars, ids, master, slave, s2, gs>> /\ Hold(p, Locks(r))
    BY <2>1 DEF AttachLock, aptVars, realmVars
  <2> QED BY <1>0, <2>2, <2>3, AptTypesKept DEF CsmTypes, MapTypes
<1>4. CASE \E rid \in RegionId : DetachLookup(p, r, rid)
  <2>1. PICK rid \in RegionId : DetachLookup(p, r, rid)
    BY <1>4
  <2>2. pe' \in [PE -> Call]
    BY <1>r, <2>1, DetachLookupPe DEF PeBecomes
  <2>3. UNCHANGED <<lk, aptg, realmVars, ids, master, slave, s2, gs>>
    BY <2>1 DEF DetachLookup, aptVars, realmVars
  <2> QED BY <1>0, <2>2, <2>3, AptTypesKept DEF CsmTypes, MapTypes
<1> QED BY <1>1, <1>2, <1>3, <1>4

LEMMA HostCommandTypes ==
  ASSUME CsmTypes, NEW p \in PE, HostCommand(p)
  PROVE  CsmTypes'
<1>0. AptTypes /\ MapTypes /\ pe \in [PE -> Call]
  BY DEF CsmTypes
<1>1. PICK r \in Realm :
        \/ smc_realm_create(p, r) \/ smc_realm_activate(p, r) \/ smc_realm_destroy(p, r)
        \/ \E g \in AptGranule : smc_apt_create(p, r, g)
        \/ AptDestroyLocal(p, r)
        \/ \E i \in Ipa, d \in Data : data_create(p, r, i, d)
        \/ \E i \in Ipa : smc_data_destroy(p, r, i)
  BY DEF HostCommand
<1>2. CASE smc_realm_create(p, r) \/ smc_realm_activate(p, r)
  BY <1>0, <1>2 DEF CsmTypes, AptTypes, MapTypes, smc_realm_create, smc_realm_activate
<1>3. CASE smc_realm_destroy(p, r)
  BY <1>0, <1>3 DEF CsmTypes, AptTypes, MapTypes, smc_realm_destroy
<1>4. CASE \E g \in AptGranule : smc_apt_create(p, r, g)
  <2>0. PICK g \in AptGranule : smc_apt_create(p, r, g)
    BY <1>4
  <2>1. master' \in [AptGranule -> [RegionId -> MasterRec]] /\ slave' \in [AptGranule -> [Slots -> SlaveRec]]
    BY <2>0, MastersEmptied, SlavesEmptied DEF smc_apt_create, BorrowedShrink
  <2>2. MapTypes' /\ pe' \in [PE -> Call]
    BY <1>0, <2>0, <2>1 DEF MapTypes, smc_apt_create
  <2>3. aptg' \in [AptGranule -> {"DELEGATED", "APT"}] /\ apt_pa' \in [Realm -> AptGranule \cup {NoApt}]
    BY <1>0, <2>0 DEF AptTypes, smc_apt_create
  <2>4. \A t \in TagsFor(r) : t \in 0..MaxTags
    BY <1>0, SizeFacts DEF TagsFor, AptTypes
  <2>5. tag' \in [Realm -> 0..MaxTags]
    BY <1>0, <2>0, <2>4 DEF AptTypes, smc_apt_create
  <2>6. AptTypes'
    BY <1>0, <2>0, <2>3, <2>5 DEF AptTypes, smc_apt_create
  <2> QED BY <2>2, <2>6 DEF CsmTypes
<1>5. CASE AptDestroyLocal(p, r)
  <2>0. UNCHANGED <<rd, apt_pa, gs>> /\ tag' = [tag EXCEPT ![r] = 0]
    BY <1>5 DEF AptDestroyLocal
  <2>t. tag' \in [Realm -> 0..MaxTags]
    BY <1>0, <2>0, SizeFacts DEF AptTypes
  <2>1. CASE /\ \E x \in Call : PeBecomes(p, x)
             /\ UNCHANGED <<aptg, master, slave, ids, s2>> /\ Hold(p, Locks(r))
    <3>1. pe' \in [PE -> Call] /\ lk' \in [Lockable -> PE \cup {NoPE}]
      BY <1>0, <2>1, LkTypes DEF PeBecomes
    <3> QED BY <1>0, <2>0, <2>t, <2>1, <3>1 DEF CsmTypes, AptTypes, MapTypes
  <2>2. CASE /\ \E x \in Call : PeBecomes(p, x)
             /\ AptLive(r) /\ aptg' = [aptg EXCEPT ![apt_pa[r]] = "DELEGATED"]
             /\ master' = [master EXCEPT ![apt_pa[r]] = EmptyMasters]
             /\ slave' = [slave EXCEPT ![apt_pa[r]] = EmptySlaves]
             /\ ids' = ids \ OwnRegions(r)
             /\ s2' = [s2 EXCEPT ![r] = Unmapped(s2[r], BorrowedPages(r))]
             /\ UNCHANGED lk
    <3>1. pe' \in [PE -> Call]
      BY <2>2 DEF PeBecomes
    <3>2. apt_pa[r] \in AptGranule
      BY <2>2, Views
    <3>3. AptTypes'
      BY <1>0, <2>0, <2>t, <2>2 DEF AptTypes
    <3>4. master' \in [AptGranule -> [RegionId -> MasterRec]] /\ slave' \in [AptGranule -> [Slots -> SlaveRec]]
      BY <2>2, <3>2, MastersEmptied, SlavesEmptied DEF BorrowedShrink
    <3>5. s2' \in [Realm -> [Ipa -> Data \cup {NoData}]]
      BY <2>2, S2Set, UnmappedType
    <3> QED BY <1>0, <2>0, <3>1, <3>3, <3>4, <3>5 DEF CsmTypes, MapTypes
  <2> QED BY <1>5, <2>1, <2>2, AptDestroyLocalPe
<1>6. CASE \E i \in Ipa, d \in Data : data_create(p, r, i, d)
  <2>1. PICK i \in Ipa, d \in Data : data_create(p, r, i, d)
    BY <1>6
  <2>2. pe' \in [PE -> Call]
    BY <2>1, PropagatePe DEF data_create, PeBecomes
  <2>3. UNCHANGED <<lk, aptg, realmVars, ids, master, slave>>
    BY <2>1 DEF data_create, aptVars, realmVars
  <2>4. gs' \in [Data -> {"DELEGATED", "DATA"}] /\ s2' \in [Realm -> [Ipa -> Data \cup {NoData}]]
    BY <1>0, <2>1 DEF MapTypes, data_create
  <2> QED BY <1>0, <2>2, <2>3, <2>4, AptTypesKept DEF CsmTypes, MapTypes
<1>7. CASE \E i \in Ipa : smc_data_destroy(p, r, i)
  <2>1. PICK i \in Ipa : smc_data_destroy(p, r, i)
    BY <1>7
  <2>2. pe' \in [PE -> Call]
    BY <2>1, DataDestroyPe DEF PeBecomes
  <2>3. UNCHANGED <<lk, aptg, realmVars, ids, master, slave>>
    BY <2>1 DEF smc_data_destroy, aptVars, realmVars
  <2>4. gs' \in [Data -> {"DELEGATED", "DATA"}] /\ s2' \in [Realm -> [Ipa -> Data \cup {NoData}]]
    BY <1>0, <2>1 DEF MapTypes, smc_data_destroy
  <2> QED BY <1>0, <2>2, <2>3, <2>4, AptTypesKept DEF CsmTypes, MapTypes
<1> QED BY <1>1, <1>2, <1>3, <1>4, <1>5, <1>6, <1>7

\* The steps in the middle of a call.
LEMMA ContinueTypes ==
  ASSUME CsmTypes, NEW p \in PE, Continue(p)
  PROVE  CsmTypes'
<1>0. AptTypes /\ MapTypes /\ pe \in [PE -> Call]
  BY DEF CsmTypes
<1>1. CASE ShareEnter(p)
  <2>1. UNCHANGED <<aptg, realmVars, slave, ids, s2, gs>>
    BY <1>1 DEF ShareEnter, realmVars
  <2>2. /\ pe' \in [PE -> Call] /\ master' \in [AptGranule -> [RegionId -> MasterRec]]
        /\ UNCHANGED lk \/ \E X : Hold(p, X) \/ Unlock(X)
    BY <1>0, <1>1, ShareEnterEffect DEF PeBecomes, OwnedKept, MapTypes
  <2> QED BY <1>0, <2>1, <2>2, AptTypesKept DEF CsmTypes, MapTypes
<1>2. CASE ReserveLock(p)
  <2>1. UNCHANGED <<aptg, realmVars, ids, master, slave, s2, gs>> /\ Hold(p, Locks(pe[p].r))
    BY <1>2 DEF ReserveLock, aptVars, realmVars
  <2>2. pe' \in [PE -> Call]
    BY <1>2, ReserveLockPe DEF PeBecomes
  <2> QED BY <1>0, <2>1, <2>2, AptTypesKept DEF CsmTypes, MapTypes
<1>3. CASE ReservePeer(p)
  <2>1. UNCHANGED <<aptg, realmVars, master, ids, s2, gs>>
    BY <1>3 DEF ReservePeer, realmVars
  <2>2. /\ pe' \in [PE -> Call] /\ slave' \in [AptGranule -> [Slots -> SlaveRec]]
        /\ UNCHANGED lk \/ \E X : Hold(p, X) \/ Unlock(X)
    BY <1>3, ReservePeerEffect DEF PeBecomes
  <2> QED BY <1>0, <2>1, <2>2, AptTypesKept DEF CsmTypes, MapTypes
<1>4. CASE AttachNoOwner(p)
  <2>1. UNCHANGED <<aptg, realmVars, ids, master, slave, s2, gs>> /\ Unlock(Locks(pe[p].r))
    BY <1>4 DEF AttachNoOwner, aptVars, realmVars
  <2>2. pe' \in [PE -> Call]
    BY <1>0, <1>4, ReturnSets DEF AttachNoOwner, PeBecomes
  <2> QED BY <1>0, <2>1, <2>2, AptTypesKept DEF CsmTypes, MapTypes
<1>5. CASE AttachPeer(p)
  <2>1. UNCHANGED <<aptg, realmVars, ids, master, slave, gs>>
    BY <1>5 DEF AttachPeer, aptVars, realmVars
  <2>2. /\ pe' \in [PE -> Call] /\ s2' \in [Realm -> [Ipa -> Data \cup {NoData}]]
        /\ UNCHANGED lk \/ \E X : Hold(p, X) \/ Unlock(X)
    BY <1>5, AttachPeerEffect DEF PeBecomes
  <2> QED BY <1>0, <2>1, <2>2, AptTypesKept DEF CsmTypes, MapTypes
<1>6. CASE DetachRemove(p) \/ RevokePeer(p) \/ AptDestroyBorrower(p)
  <2>1. UNCHANGED <<lk, aptg, realmVars, master, ids, gs>>
    BY <1>6 DEF DetachRemove, RevokePeer, AptDestroyBorrower, realmVars
  <2>2. /\ slave' \in [AptGranule -> [Slots -> SlaveRec]] /\ s2' \in [Realm -> [Ipa -> Data \cup {NoData}]]
        /\ pe' \in [PE -> Call]
    BY <1>6, DropEffect DEF PeBecomes, BorrowedShrink
  <2> QED BY <1>0, <2>1, <2>2, AptTypesKept DEF CsmTypes, MapTypes
<1>7. CASE RevokeShare(p)
  <2>1. UNCHANGED <<lk, aptg, realmVars, slave, ids, s2, gs>>
    BY <1>7 DEF RevokeShare, realmVars
  <2>2. pe' \in [PE -> Call] /\ master' \in [AptGranule -> [RegionId -> MasterRec]]
    BY <1>7, RevokeShareEffect DEF PeBecomes, OwnedKept
  <2> QED BY <1>0, <2>1, <2>2, AptTypesKept DEF CsmTypes, MapTypes
<1>8. CASE DestroyId(p)
  <2>1. UNCHANGED <<lk, rd, aptg, apt_pa, tag, master, slave, s2, gs>> /\ ids' = ids \ {pe[p].rid}
    BY <1>8 DEF DestroyId, realmVars
  <2>2. pe' \in [PE -> Call]
    BY <1>0, <1>8, ReturnSets DEF DestroyId, PeBecomes
  <2> QED BY <1>0, <2>1, <2>2 DEF CsmTypes, AptTypes, MapTypes
<1>9. CASE AptDestroyOwner(p)
  <2>1. UNCHANGED <<lk, aptg, realmVars, slave, ids, s2, gs>>
    BY <1>9 DEF AptDestroyOwner, realmVars
  <2>2. pe' \in [PE -> Call] /\ master' \in [AptGranule -> [RegionId -> MasterRec]]
    BY <1>9, AptDestroyOwnerEffect DEF PeBecomes, OwnedKept
  <2> QED BY <1>0, <2>1, <2>2, AptTypesKept DEF CsmTypes, MapTypes
<1>10. CASE AptDestroyDone(p)
  <2>1. UNCHANGED <<lk, aptg, realmVars, ids, master, slave, s2, gs>>
    BY <1>10 DEF AptDestroyDone, aptVars, realmVars
  <2>2. pe' \in [PE -> Call]
    BY <1>0, <1>10, ReturnSets DEF AptDestroyDone, PeBecomes
  <2> QED BY <1>0, <2>1, <2>2, AptTypesKept DEF CsmTypes, MapTypes
<1>11. CASE PropagateLock(p)
  <2>1. UNCHANGED <<aptg, realmVars, ids, master, slave, s2, gs>>
    BY <1>11 DEF PropagateLock, aptVars, realmVars
  <2>2. pe' \in [PE -> Call] /\ (UNCHANGED lk \/ \E X : Hold(p, X) \/ Unlock(X))
    BY <1>11, PropagateLockPe DEF PeBecomes
  <2> QED BY <1>0, <2>1, <2>2, AptTypesKept DEF CsmTypes, MapTypes
<1>12. CASE PropagatePeer(p)
  <2>1. UNCHANGED <<lk, aptg, realmVars, ids, master, slave, gs>>
    BY <1>12 DEF PropagatePeer, aptVars, realmVars
  <2>2. pe' \in [PE -> Call] /\ s2' \in [Realm -> [Ipa -> Data \cup {NoData}]]
    BY <1>12, PropagatePeerEffect DEF PeBecomes
  <2> QED BY <1>0, <2>1, <2>2, AptTypesKept DEF CsmTypes, MapTypes
<1>13. CASE PropagateDone(p)
  <2>1. UNCHANGED <<aptg, realmVars, ids, master, slave, s2, gs>> /\ Unlock(Locks(pe[p].r))
    BY <1>13 DEF PropagateDone, aptVars, realmVars
  <2>2. pe' \in [PE -> Call]
    BY <1>0, <1>13, ReturnSets DEF PropagateDone, PeBecomes
  <2> QED BY <1>0, <2>1, <2>2, AptTypesKept DEF CsmTypes, MapTypes
<1> QED BY <1>1, <1>2, <1>3, <1>4, <1>5, <1>6, <1>7, <1>8, <1>9, <1>10, <1>11, <1>12, <1>13 DEF Continue

LEMMA TypesStep == CsmTypes /\ [Next]_vars => CsmTypes'
<1> SUFFICES ASSUME CsmTypes, [Next]_vars PROVE CsmTypes'
  OBVIOUS
<1>1. CASE Next
  BY <1>1, OwnerCallTypes, BorrowerCallTypes, HostCommandTypes, ContinueTypes DEF Next
<1>2. CASE UNCHANGED vars
  BY <1>2 DEF vars, CsmTypes, AptTypes, MapTypes
<1> QED BY <1>1, <1>2

LEMMA TypesImply == CsmTypes => TypeOK
<1> SUFFICES ASSUME CsmTypes PROVE TypeOK
  OBVIOUS
<1>1. master \in [AptGranule -> [RegionId -> [ipa : Base, used : BOOLEAN,
                 shares : [ShareSlots -> [tag : Tag, rd : Realm] \cup {NoShare}]]]]
  BY DEF CsmTypes, MapTypes, MasterRec, Share
<1>2. SlaveRec \subseteq [rid : RegionId \cup {NoRegion}, master : Realm \cup {NoRealm}, ipa : Base, used : BOOLEAN]
  BY SizeFacts DEF SlaveRec, NoSlaveRec
<1>3. slave \in [AptGranule -> [Slots -> [rid : RegionId \cup {NoRegion}, master : Realm \cup {NoRealm},
                                          ipa : Base, used : BOOLEAN]]]
  BY <1>2 DEF CsmTypes, MapTypes
<1>4. \A p \in PE : pe[p].todo \subseteq Visits
  BY TypesOf DEF PeRec
<1>5. AptTypes /\ s2 \in [Realm -> [Ipa -> Data \cup {NoData}]] /\ gs \in [Data -> {"DELEGATED", "DATA"}]
  BY DEF CsmTypes, MapTypes
<1> QED BY <1>1, <1>3, <1>4, <1>5 DEF TypeOK, AptTypes, Lockable

(***************************************************************************)
(* The tables, the APTs and the records of the calls keep their types,     *)
(* whatever the host, the owners and the borrowers do.                     *)
(***************************************************************************)
THEOREM CsmTypeCorrect == Spec => []TypeOK
BY InitTypes, TypesStep, TypesImply, PTL DEF Spec

-----------------------------------------------------------------------------
(***************************************************************************)
(* The invariant of the registry, of the locks and of the borrowed         *)
(* regions.  Region identifiers: RegionIdsExact, pointwise, with what      *)
(* makes it inductive: a granule that is no APT holds no region, and the   *)
(* identifier that a destroy is about to release belongs to no region and  *)
(* to no other destroy.  Locks: LocksExact, pointwise, with the fact that  *)
(* a call that waits for a peer has found its own APT, which stays where   *)
(* it is while the call holds both.  Borrowed regions: the property as it  *)
(* stands, which needs the locks: a reservation tests for conflicts in the *)
(* APT that it writes.                                                     *)
(***************************************************************************)
Releases(x, i) == x.op = "destroy" /\ x.step = "id" /\ x.rid = i

IdsInv ==
  /\ \A i \in RegionId : i \in ids <=> \/ \E g \in AptGranule : master[g][i].used
                                       \/ \E p \in PE : Releases(pe[p], i)
  /\ \A i \in RegionId, g, h \in AptGranule : master[g][i].used /\ master[h][i].used => g = h
  /\ \A i \in RegionId, g \in AptGranule : master[g][i].used => aptg[g] = "APT"
  /\ \A i \in RegionId, g \in AptGranule, p \in PE : ~(Releases(pe[p], i) /\ master[g][i].used)
  /\ \A i \in RegionId, p, q \in PE : Releases(pe[p], i) /\ Releases(pe[q], i) => p = q

Holding(x) ==
  \/ x.op \in {"reserve", "attach"} /\ x.step = "peer"
  \/ x.op = "propagate" /\ x.step = "peers"

LocksInv ==
  \A p \in PE : pe[p].step # "panic" =>
    /\ \A y \in Lockable : lk[y] = p <=> Holding(pe[p]) /\ y \in Locks(pe[p].r)
    /\ Holding(pe[p]) => AptLive(pe[p].r)

RegistryInv == CsmTypes /\ IdsInv /\ LocksInv /\ BorrowedRegionsDisjoint

-----------------------------------------------------------------------------
(* Region identifiers.                                                     *)

LEMMA IdsKept ==
  ASSUME IdsInv, NEW p \in PE, NEW x \in Call, PeBecomes(p, x), OwnedKept,
         \A g \in AptGranule : aptg[g] = "APT" => aptg'[g] = "APT",
         UNCHANGED ids, pe[p].op # "destroy", x.op # "destroy"
  PROVE  IdsInv'
<1>1. \A q \in PE, i \in RegionId : Releases(pe'[q], i) <=> Releases(pe[q], i)
  BY DEF PeBecomes, Releases
<1>2. \A i \in RegionId : (i \in ids <=> \/ \E g \in AptGranule : master[g][i].used
                                         \/ \E q \in PE : Releases(pe[q], i))'
  BY <1>1 DEF IdsInv, OwnedKept
<1>3. \A i \in RegionId, g, h \in AptGranule : (master[g][i].used /\ master[h][i].used => g = h)'
  BY DEF IdsInv, OwnedKept
<1>4. \A i \in RegionId, g \in AptGranule : (master[g][i].used => aptg[g] = "APT")'
  BY DEF IdsInv, OwnedKept
<1>5. \A i \in RegionId, g \in AptGranule, q \in PE : ~(Releases(pe[q], i) /\ master[g][i].used)'
  BY <1>1 DEF IdsInv, OwnedKept
<1>6. \A i \in RegionId, q, o \in PE : (Releases(pe[q], i) /\ Releases(pe[o], i) => q = o)'
  BY <1>1 DEF IdsInv
<1> QED BY <1>2, <1>3, <1>4, <1>5, <1>6 DEF IdsInv

LEMMA IdsCreate ==
  ASSUME CsmTypes, IdsInv, NEW p \in PE, NEW r \in Realm, NEW b \in Base, handle_rsi_csm_create(p, r, b)
  PROVE  IdsInv'
<1>0. pe \in [PE -> Call] /\ pe[p].op = "none" /\ UNCHANGED <<aptg, apt_pa>>
  BY TypesOf DEF handle_rsi_csm_create, Calls, IsIdle, realmVars
<1>1. CASE (\E x \in Call : PeBecomes(p, x) /\ x.op = "apt_null") /\ UNCHANGED <<master, ids>>
  BY <1>0, <1>1, IdsKept, OwnedSame
<1>2. CASE /\ AptLive(r) /\ UNCHANGED pe
           /\ \E rid \in RegionId \ ids : \E y \in MasterRec :
                ids' = ids \cup {rid} /\ MasterBecomes(apt_pa[r], rid, y) /\ y.used
  <2>1. PICK rid \in RegionId \ ids, y \in MasterRec :
          ids' = ids \cup {rid} /\ MasterBecomes(apt_pa[r], rid, y) /\ y.used
    BY <1>2
  <2>2. apt_pa[r] \in AptGranule /\ aptg[apt_pa[r]] = "APT"
    BY <1>2 DEF AptLive
  <2>3. (\A h \in AptGranule : ~master[h][rid].used) /\ \A q \in PE : ~Releases(pe[q], rid)
    BY <2>1 DEF IdsInv
  <2>4. \A h \in AptGranule, i \in RegionId : master'[h][i].used <=> (h = apt_pa[r] /\ i = rid) \/ master[h][i].used
    BY <2>1 DEF MasterBecomes
  <2>5. \A i \in RegionId : (i \in ids <=> \/ \E h \in AptGranule : master[h][i].used
                                           \/ \E q \in PE : Releases(pe[q], i))'
    BY <1>2, <2>1, <2>2, <2>4 DEF IdsInv
  <2>6. \A i \in RegionId, o, h \in AptGranule : (master[o][i].used /\ master[h][i].used => o = h)'
    BY <2>3, <2>4 DEF IdsInv
  <2>7. \A i \in RegionId, h \in AptGranule : (master[h][i].used => aptg[h] = "APT")'
    BY <1>0, <2>2, <2>4 DEF IdsInv
  <2>8. \A i \in RegionId, h \in AptGranule, q \in PE : ~(Releases(pe[q], i) /\ master[h][i].used)'
    BY <1>2, <2>3, <2>4 DEF IdsInv
  <2>9. \A i \in RegionId, o, q \in PE : (Releases(pe[o], i) /\ Releases(pe[q], i) => o = q)'
    BY <1>2 DEF IdsInv
  <2> QED BY <2>5, <2>6, <2>7, <2>8, <2>9 DEF IdsInv
<1> QED BY <1>1, <1>2, CreateEffect

LEMMA IdsDestroyRegion ==
  ASSUME CsmTypes, IdsInv, NEW p \in PE, NEW r \in Realm, NEW rid \in RegionId, DestroyRegion(p, r, rid)
  PROVE  IdsInv'
<1>0. pe[p].op = "none" /\ UNCHANGED <<aptg, ids>> /\ Masters(r)[rid].used
  BY DEF DestroyRegion, DestroyAllowed, Calls, IsIdle, realmVars
<1> DEFINE a == apt_pa[r]
<1>1. a \in AptGranule /\ master[a][rid].used
  BY <1>0, Views
<1>2. MasterBecomes(a, rid, NoMaster)
  BY <1>1, MasterSet, NoMasterType DEF DestroyRegion
<1> HIDE DEF a
<1>3. PICK x \in Call : PeBecomes(p, x) /\ x.op = "destroy" /\ x.step = "id" /\ x.rid = rid
  BY DestroyRegionPe
<1>4. \A q \in PE, i \in RegionId : Releases(pe'[q], i) <=> (q = p /\ i = rid) \/ Releases(pe[q], i)
  BY <1>0, <1>3 DEF PeBecomes, Releases
<1>5. \A h \in AptGranule, i \in RegionId : master'[h][i].used <=> master[h][i].used /\ ~(h = a /\ i = rid)
  BY <1>2, NoMasterType DEF MasterBecomes
<1>6. \A h \in AptGranule : h # a => ~master[h][rid].used
  BY <1>1 DEF IdsInv
<1>7. \A q \in PE : ~Releases(pe[q], rid)
  BY <1>1 DEF IdsInv
<1>8. rid \in ids
  BY <1>1 DEF IdsInv
<1>9. \A i \in RegionId : (i \in ids <=> \/ \E h \in AptGranule : master[h][i].used
                                         \/ \E q \in PE : Releases(pe[q], i))'
  <2> SUFFICES ASSUME NEW i \in RegionId
               PROVE  i \in ids <=> \/ \E h \in AptGranule : master'[h][i].used
                                    \/ \E q \in PE : Releases(pe'[q], i)
    BY <1>0
  <2>1. CASE i = rid
    BY <1>4, <1>8, <2>1
  <2>2. CASE i # rid
    BY <1>4, <1>5, <2>2 DEF IdsInv
  <2> QED BY <2>1, <2>2
<1>10. \A i \in RegionId, o, h \in AptGranule : (master[o][i].used /\ master[h][i].used => o = h)'
  BY <1>5 DEF IdsInv
<1>11. \A i \in RegionId, h \in AptGranule : (master[h][i].used => aptg[h] = "APT")'
  BY <1>0, <1>5 DEF IdsInv
<1>12. \A i \in RegionId, h \in AptGranule, q \in PE : ~(Releases(pe[q], i) /\ master[h][i].used)'
  BY <1>4, <1>5, <1>6 DEF IdsInv
<1>13. \A i \in RegionId, o, q \in PE : (Releases(pe[o], i) /\ Releases(pe[q], i) => o = q)'
  BY <1>4, <1>7 DEF IdsInv
<1> QED BY <1>9, <1>10, <1>11, <1>12, <1>13 DEF IdsInv

LEMMA IdsDestroyId ==
  ASSUME CsmTypes, IdsInv, NEW p \in PE, DestroyId(p)
  PROVE  IdsInv'
<1> DEFINE rid == pe[p].rid
<1>0. /\ rid \in RegionId /\ Releases(pe[p], rid) /\ pe[p].op = "destroy"
      /\ ids' = ids \ {rid} /\ UNCHANGED <<aptg, master>>
  BY TypesOf DEF DestroyId, At, Named, Releases, realmVars
<1>1. PeBecomes(p, Idle)
  BY ReturnSets, TypesOf DEF DestroyId
<1>2. \A i : Releases(pe[p], i) => i = rid
  BY DEF Releases
<1> HIDE DEF rid
<1>3. \A q \in PE, i \in RegionId : Releases(pe'[q], i) <=> q # p /\ Releases(pe[q], i)
  BY <1>1, IdleType DEF PeBecomes, Releases
<1>4. (\A h \in AptGranule : ~master[h][rid].used) /\ \A q \in PE : Releases(pe[q], rid) => q = p
  BY <1>0 DEF IdsInv
<1>5. \A i \in RegionId : (i \in ids <=> \/ \E h \in AptGranule : master[h][i].used
                                         \/ \E q \in PE : Releases(pe[q], i))'
  <2> SUFFICES ASSUME NEW i \in RegionId
               PROVE  i \in ids' <=> \/ \E h \in AptGranule : master[h][i].used
                                     \/ \E q \in PE : Releases(pe'[q], i)
    BY <1>0
  <2>1. CASE i = rid
    BY <1>0, <1>3, <1>4, <2>1
  <2>2. CASE i # rid
    BY <1>0, <1>2, <1>3, <2>2 DEF IdsInv
  <2> QED BY <2>1, <2>2
<1>6. \A i \in RegionId, o, h \in AptGranule : (master[o][i].used /\ master[h][i].used => o = h)'
  BY <1>0 DEF IdsInv
<1>7. \A i \in RegionId, h \in AptGranule : (master[h][i].used => aptg[h] = "APT")'
  BY <1>0 DEF IdsInv
<1>8. \A i \in RegionId, h \in AptGranule, q \in PE : ~(Releases(pe[q], i) /\ master[h][i].used)'
  BY <1>0, <1>3 DEF IdsInv
<1>9. \A i \in RegionId, o, q \in PE : (Releases(pe[o], i) /\ Releases(pe[q], i) => o = q)'
  BY <1>3 DEF IdsInv
<1> QED BY <1>5, <1>6, <1>7, <1>8, <1>9 DEF IdsInv

\* The regions of one APT go, with their identifiers; the PE runs no RSI_CSM_DESTROY.
LEMMA IdsEmptied ==
  ASSUME CsmTypes, IdsInv, NEW p \in PE, NEW x \in Call, PeBecomes(p, x), NEW a \in AptGranule,
         master' = [master EXCEPT ![a] = EmptyMasters],
         \A h \in AptGranule : h # a => aptg'[h] = aptg[h],
         ids' = ids \ RegionsIn(a), pe[p].op # "destroy", x.op # "destroy"
  PROVE  IdsInv'
<1>1. \A q \in PE, i \in RegionId : Releases(pe'[q], i) <=> Releases(pe[q], i)
  BY DEF PeBecomes, Releases
<1>2. \A h \in AptGranule, i \in RegionId : master'[h][i].used <=> h # a /\ master[h][i].used
  BY MastersEmptied
<1>3. \A i \in RegionId : i \in RegionsIn(a) <=> master[a][i].used
  BY DEF RegionsIn
<1>4. \A i \in RegionId : (i \in ids <=> \/ \E h \in AptGranule : master[h][i].used
                                         \/ \E q \in PE : Releases(pe[q], i))'
  <2> SUFFICES ASSUME NEW i \in RegionId
               PROVE  i \in ids' <=> \/ \E h \in AptGranule : master'[h][i].used
                                     \/ \E q \in PE : Releases(pe'[q], i)
    OBVIOUS
  <2>1. CASE master[a][i].used
    <3>1. \A h \in AptGranule : ~master'[h][i].used
      BY <1>2, <2>1 DEF IdsInv
    <3>2. \A q \in PE : ~Releases(pe'[q], i)
      BY <1>1, <2>1 DEF IdsInv
    <3> QED BY <1>3, <2>1, <3>1, <3>2
  <2>2. CASE ~master[a][i].used
    <3>1. i \in ids' <=> i \in ids
      BY <1>3, <2>2
    <3>2. \A h \in AptGranule : master'[h][i].used <=> master[h][i].used
      BY <1>2, <2>2
    <3> QED BY <1>1, <3>1, <3>2 DEF IdsInv
  <2> QED BY <2>1, <2>2
<1>5. \A i \in RegionId, o, h \in AptGranule : (master[o][i].used /\ master[h][i].used => o = h)'
  BY <1>2 DEF IdsInv
<1>6. \A i \in RegionId, h \in AptGranule : (master[h][i].used => aptg[h] = "APT")'
  BY <1>2 DEF IdsInv
<1>7. \A i \in RegionId, h \in AptGranule, q \in PE : ~(Releases(pe[q], i) /\ master[h][i].used)'
  BY <1>1, <1>2 DEF IdsInv
<1>8. \A i \in RegionId, o, q \in PE : (Releases(pe[o], i) /\ Releases(pe[q], i) => o = q)'
  BY <1>1 DEF IdsInv
<1> QED BY <1>4, <1>5, <1>6, <1>7, <1>8 DEF IdsInv

LEMMA IdsAptCreate ==
  ASSUME CsmTypes, IdsInv, NEW p \in PE, NEW r \in Realm, NEW g \in AptGranule, smc_apt_create(p, r, g)
  PROVE  IdsInv'
<1>1. pe[p].op = "none" /\ UNCHANGED <<ids, pe>> /\ aptg[g] = "DELEGATED" /\ pe \in [PE -> Call]
  BY TypesOf DEF smc_apt_create, IsIdle
<1>2. PeBecomes(p, pe[p]) /\ pe[p] \in Call
  BY <1>1 DEF PeBecomes
<1>3. RegionsIn(g) = {}
  BY <1>1 DEF IdsInv, RegionsIn
<1>4. aptg \in [AptGranule -> {"DELEGATED", "APT"}]
  BY DEF CsmTypes, AptTypes
<1>5. /\ \A h \in AptGranule : h # g => aptg'[h] = aptg[h]
      /\ master' = [master EXCEPT ![g] = EmptyMasters]
  BY <1>4 DEF smc_apt_create
<1>6. ids' = ids \ RegionsIn(g)
  BY <1>1, <1>3
<1> QED BY <1>1, <1>2, <1>5, <1>6, IdsEmptied

LEMMA IdsAptDestroyLocal ==
  ASSUME CsmTypes, IdsInv, NEW p \in PE, NEW r \in Realm, AptDestroyLocal(p, r)
  PROVE  IdsInv'
<1>0. pe[p].op = "none" /\ aptg \in [AptGranule -> {"DELEGATED", "APT"}]
  BY DEF AptDestroyLocal, IsIdle, CsmTypes, AptTypes
<1>1. CASE (\E x \in Call : PeBecomes(p, x) /\ x.op = "apt_destroy") /\ UNCHANGED <<aptg, master, ids>>
  BY <1>0, <1>1, IdsKept, OwnedSame
<1>2. CASE /\ \E x \in Call : PeBecomes(p, x) /\ x.op = "apt_destroy"
           /\ AptLive(r) /\ aptg' = [aptg EXCEPT ![apt_pa[r]] = "DELEGATED"]
           /\ master' = [master EXCEPT ![apt_pa[r]] = EmptyMasters]
           /\ ids' = ids \ OwnRegions(r)
  <2>1. PICK x \in Call : PeBecomes(p, x) /\ x.op = "apt_destroy"
    BY <1>2
  <2>2. apt_pa[r] \in AptGranule /\ OwnRegions(r) = RegionsIn(apt_pa[r])
    BY <1>2, Views DEF OwnRegions, RegionsIn
  <2>3. \A h \in AptGranule : h # apt_pa[r] => aptg'[h] = aptg[h]
    BY <1>0, <1>2, <2>2
  <2> QED BY <1>0, <1>2, <2>1, <2>2, <2>3, IdsEmptied
<1> QED BY <1>1, <1>2, AptDestroyLocalPe

\* The first steps of calls and commands that leave the APTs alone.
Starts(p) ==
  \/ \E r \in Realm : smc_realm_create(p, r) \/ smc_realm_activate(p, r) \/ smc_realm_destroy(p, r)
  \/ \E r, s \in Realm, rid \in RegionId : ShareLookup(p, r, rid, s)
  \/ \E r \in Realm, rid \in RegionId, t \in Tag : RevokeLookup(p, r, rid, t)
  \/ \E r, m \in Realm, rid \in RegionId, b \in Base : ReserveLookup(p, r, rid, m, b)
  \/ \E r \in Realm, rid \in RegionId : DetachLookup(p, r, rid)
  \/ \E r \in Realm, i \in Ipa, d \in Data : data_create(p, r, i, d)
  \/ \E r \in Realm, i \in Ipa : smc_data_destroy(p, r, i)

LEMMA StartsFacts ==
  ASSUME CsmTypes, NEW p \in PE, Starts(p)
  PROVE  /\ UNCHANGED <<lk, aptg, master, slave, ids>> /\ pe[p].op = "none"
         /\ UNCHANGED apt_pa \/ \E r \in Realm : smc_realm_destroy(p, r)
         /\ \E x \in Call : PeBecomes(p, x) /\ x.op # "destroy" /\ ~Holding(x)
<1>0. pe \in [PE -> Call] /\ pe[p] \in PeRec
  BY TypesOf
<1>1. CASE \E r \in Realm : smc_realm_create(p, r) \/ smc_realm_activate(p, r) \/ smc_realm_destroy(p, r)
  <2>1. /\ UNCHANGED <<lk, aptg, master, slave, ids, pe>> /\ pe[p].op = "none"
    BY <1>1 DEF smc_realm_create, smc_realm_activate, smc_realm_destroy, IsIdle
  <2>3. UNCHANGED apt_pa \/ \E r \in Realm : smc_realm_destroy(p, r)
    BY <1>1 DEF smc_realm_create, smc_realm_activate
  <2>2. PeBecomes(p, pe[p]) /\ pe[p] \in Call
    BY <1>0, <2>1 DEF PeBecomes
  <2> QED BY <2>1, <2>2, <2>3 DEF Holding
<1>2. CASE \E r, s \in Realm, rid \in RegionId : ShareLookup(p, r, rid, s)
  <2>1. UNCHANGED <<lk, aptg, apt_pa, master, slave, ids>> /\ pe[p].op = "none"
    BY <1>2 DEF ShareLookup, Calls, IsIdle, aptVars, realmVars
  <2>2. \E x \in Call : PeBecomes(p, x) /\ x.op = "share"
    BY <1>2, ShareLookupPe
  <2> QED BY <2>1, <2>2 DEF Holding
<1>3. CASE \E r \in Realm, rid \in RegionId, t \in Tag : RevokeLookup(p, r, rid, t)
  <2>1. UNCHANGED <<lk, aptg, apt_pa, master, slave, ids>> /\ pe[p].op = "none"
    BY <1>3 DEF RevokeLookup, Calls, IsIdle, aptVars, realmVars
  <2>2. \E x \in Call : PeBecomes(p, x) /\ x.op = "revoke"
    BY <1>3, RevokeLookupPe
  <2> QED BY <2>1, <2>2 DEF Holding
<1>4. CASE \E r, m \in Realm, rid \in RegionId, b \in Base : ReserveLookup(p, r, rid, m, b)
  <2>1. UNCHANGED <<lk, aptg, apt_pa, master, slave, ids>> /\ pe[p].op = "none"
    BY <1>4 DEF ReserveLookup, Calls, IsIdle, aptVars, realmVars
  <2>2. \E x \in Call : PeBecomes(p, x) /\ x.op = "reserve" /\ x.step = "lock"
    BY <1>4, ReserveLookupPe
  <2> QED BY <2>1, <2>2 DEF Holding
<1>5. CASE \E r \in Realm, rid \in RegionId : DetachLookup(p, r, rid)
  <2>1. UNCHANGED <<lk, aptg, apt_pa, master, slave, ids>> /\ pe[p].op = "none"
    BY <1>5 DEF DetachLookup, Calls, IsIdle, aptVars, realmVars
  <2>2. \E x \in Call : PeBecomes(p, x) /\ x.op = "detach"
    BY <1>5, DetachLookupPe
  <2> QED BY <2>1, <2>2 DEF Holding
<1>6. CASE \E r \in Realm, i \in Ipa, d \in Data : data_create(p, r, i, d)
  <2>1. UNCHANGED <<lk, aptg, apt_pa, master, slave, ids>> /\ pe[p].op = "none"
    BY <1>6 DEF data_create, IsIdle, aptVars, realmVars
  <2>2. \E x \in Call : PeBecomes(p, x) /\ x.op = "propagate" /\ x.step = "lock"
    <3>1. PICK r \in Realm, i \in Ipa, d \in Data : data_create(p, r, i, d)
      BY <1>6
    <3>2. pe' = [pe EXCEPT ![p] = [Idle EXCEPT !.op = "propagate", !.step = "lock", !.r = r, !.ipa = i, !.data = d]]
      BY <3>1 DEF data_create
    <3> QED BY <3>2, PropagatePe
  <2> QED BY <2>1, <2>2 DEF Holding
<1>7. CASE \E r \in Realm, i \in Ipa : smc_data_destroy(p, r, i)
  <2>1. UNCHANGED <<lk, aptg, apt_pa, master, slave, ids>> /\ pe[p].op = "none"
    BY <1>7 DEF smc_data_destroy, IsIdle, aptVars, realmVars
  <2>2. \E x \in Call : PeBecomes(p, x) /\ (x.op = "data_state" \/ (x.op = "propagate" /\ x.step = "lock"))
    BY <1>7, DataDestroyPe
  <2> QED BY <2>1, <2>2 DEF Holding
<1> QED BY <1>1, <1>2, <1>3, <1>4, <1>5, <1>6, <1>7 DEF Starts

\* The steps that change shares or drop entries, with no lock across the step.
Visiting(p) ==
  \/ RevokeShare(p) \/ AptDestroyOwner(p) \/ AptDestroyDone(p)
  \/ DetachRemove(p) \/ RevokePeer(p) \/ AptDestroyBorrower(p)

LEMMA VisitingFacts ==
  ASSUME CsmTypes, NEW p \in PE, Visiting(p)
  PROVE  /\ UNCHANGED <<lk, aptg, apt_pa, ids>> /\ OwnedKept /\ BorrowedShrink
         /\ pe[p].op \in {"detach", "revoke", "apt_destroy"} /\ pe[p].step # "panic"
         /\ \E x \in Call : PeBecomes(p, x) /\ x.op # "destroy" /\ ~Holding(x)
<1>1. CASE RevokeShare(p)
  <2>1. UNCHANGED <<lk, aptg, apt_pa, ids, slave>> /\ pe[p].op = "revoke" /\ pe[p].step = "share"
    BY <1>1 DEF RevokeShare, At, realmVars
  <2>2. OwnedKept /\ \E x \in Call : PeBecomes(p, x) /\ (x = Idle \/ (x.op = "revoke" /\ x.step = "peer"))
    BY <1>1, RevokeShareEffect
  <2> QED BY <2>1, <2>2, BorrowedSame, IdleType DEF Holding
<1>2. CASE AptDestroyOwner(p)
  <2>1. UNCHANGED <<lk, aptg, apt_pa, ids, slave>> /\ pe[p].op = "apt_destroy" /\ pe[p].step = "peers"
    BY <1>2 DEF AptDestroyOwner, At, realmVars
  <2>2. OwnedKept /\ \E x \in Call : PeBecomes(p, x) /\ x.op = "apt_destroy" /\ x.step = "peers"
    BY <1>2, AptDestroyOwnerEffect
  <2> QED BY <2>1, <2>2, BorrowedSame DEF Holding
<1>3. CASE AptDestroyDone(p)
  <2>1. UNCHANGED <<lk, aptg, apt_pa, ids, master, slave>> /\ pe[p].op = "apt_destroy" /\ pe[p].step = "peers"
    BY <1>3 DEF AptDestroyDone, At, aptVars, realmVars
  <2>2. PeBecomes(p, Idle)
    BY <1>3, ReturnSets, TypesOf DEF AptDestroyDone
  <2> QED BY <2>1, <2>2, OwnedSame, BorrowedSame, IdleType DEF Holding
<1>4. CASE DetachRemove(p) \/ RevokePeer(p) \/ AptDestroyBorrower(p)
  <2>1. UNCHANGED <<lk, aptg, apt_pa, ids, master>>
    BY <1>4 DEF DetachRemove, RevokePeer, AptDestroyBorrower, realmVars
  <2>2. /\ BorrowedShrink /\ pe[p].op \in {"detach", "revoke", "apt_destroy"} /\ pe[p].step # "panic"
        /\ \E x \in Call : PeBecomes(p, x) /\ (x = Idle \/ (x.op = "apt_destroy" /\ x.step = "peers"))
    BY <1>4, DropEffect
  <2> QED BY <2>1, <2>2, OwnedSame, IdleType DEF Holding
<1> QED BY <1>1, <1>2, <1>3, <1>4 DEF Visiting

\* The steps of a reservation, an attachment, a propagation or a share, with their locks.
Locking(p) ==
  \/ \E r \in Realm, i \in Slots : AttachLock(p, r, i)
  \/ ShareEnter(p) \/ ReserveLock(p) \/ ReservePeer(p) \/ AttachNoOwner(p) \/ AttachPeer(p)
  \/ PropagateLock(p) \/ PropagatePeer(p) \/ PropagateDone(p)

LEMMA LockingFacts ==
  ASSUME CsmTypes, NEW p \in PE, Locking(p)
  PROVE  /\ UNCHANGED <<aptg, apt_pa, ids>> /\ OwnedKept
         /\ ReservePeer(p) \/ UNCHANGED slave
         /\ pe[p].op \in {"none", "share", "reserve", "attach", "propagate"}
         /\ \E x \in Call : PeBecomes(p, x) /\ x.op # "destroy"
<1>0. pe \in [PE -> Call]
  BY TypesOf
<1>1. CASE \E r \in Realm, i \in Slots : AttachLock(p, r, i)
  <2>1. UNCHANGED <<aptg, apt_pa, ids, master, slave>> /\ pe[p].op = "none"
    BY <1>1 DEF AttachLock, Calls, IsIdle, aptVars, realmVars
  <2>2. \E x \in Call : PeBecomes(p, x) /\ x.op \in {"attach", "apt_null"}
    BY <1>1, AttachLockPe
  <2> QED BY <2>1, <2>2, OwnedSame
<1>2. CASE ShareEnter(p)
  <2>1. UNCHANGED <<aptg, apt_pa, ids, slave>> /\ pe[p].op = "share"
    BY <1>2 DEF ShareEnter, At, realmVars
  <2>2. OwnedKept /\ \E x \in Call : PeBecomes(p, x) /\ x.op \in {"none", "apt_null"}
    BY <1>2, ShareEnterEffect, IdleType, OwnedSame
  <2> QED BY <2>1, <2>2
<1>3. CASE ReserveLock(p)
  <2>1. UNCHANGED <<aptg, apt_pa, ids, master, slave>> /\ pe[p].op = "reserve"
    BY <1>3 DEF ReserveLock, At, aptVars, realmVars
  <2>2. \E x \in Call : PeBecomes(p, x) /\ x.op \in {"reserve", "apt_null"}
    BY <1>3, ReserveLockPe
  <2> QED BY <2>1, <2>2, OwnedSame
<1>4. CASE ReservePeer(p)
  <2>1. UNCHANGED <<aptg, apt_pa, ids, master>> /\ pe[p].op = "reserve"
    BY <1>4 DEF ReservePeer, At, realmVars
  <2>2. \E x \in Call : PeBecomes(p, x) /\ x.op \in {"none", "rd_null", "apt_null"}
    BY <1>4, ReservePeerEffect, IdleType
  <2> QED BY <1>4, <2>1, <2>2, OwnedSame
<1>5. CASE AttachNoOwner(p) \/ PropagateDone(p)
  <2>1. UNCHANGED <<aptg, apt_pa, ids, master, slave>> /\ pe[p].op \in {"attach", "propagate"}
    BY <1>5 DEF AttachNoOwner, PropagateDone, At, aptVars, realmVars
  <2>2. PeBecomes(p, Idle)
    BY <1>0, <1>5, ReturnSets DEF AttachNoOwner, PropagateDone
  <2> QED BY <2>1, <2>2, OwnedSame, IdleType
<1>6. CASE AttachPeer(p)
  <2>1. UNCHANGED <<aptg, apt_pa, ids, master, slave>> /\ pe[p].op = "attach"
    BY <1>6 DEF AttachPeer, At, aptVars, realmVars
  <2>2. \E x \in Call : PeBecomes(p, x) /\ x.op \in {"none", "apt_null", "llt_unlock"}
    BY <1>6, AttachPeerEffect, IdleType
  <2> QED BY <2>1, <2>2, OwnedSame
<1>7. CASE PropagateLock(p)
  <2>1. UNCHANGED <<aptg, apt_pa, ids, master, slave>> /\ pe[p].op = "propagate"
    BY <1>7 DEF PropagateLock, At, aptVars, realmVars
  <2>2. \E x \in Call : PeBecomes(p, x) /\ x.op \in {"none", "propagate"}
    BY <1>7, PropagateLockPe, IdleType
  <2> QED BY <2>1, <2>2, OwnedSame
<1>8. CASE PropagatePeer(p)
  <2>1. UNCHANGED <<aptg, apt_pa, ids, master, slave>> /\ pe[p].op = "propagate"
    BY <1>8 DEF PropagatePeer, At, aptVars, realmVars
  <2>2. \E x \in Call : PeBecomes(p, x) /\ x.op = "propagate"
    BY <1>8, PropagatePeerEffect
  <2> QED BY <2>1, <2>2, OwnedSame
<1> QED BY <1>1, <1>2, <1>3, <1>4, <1>5, <1>6, <1>7, <1>8 DEF Locking

\* The steps of the system, by what they do to APTs and locks.
LEMMA StepKinds ==
  ASSUME NEW p \in PE, OwnerCall(p) \/ BorrowerCall(p) \/ HostCommand(p) \/ Continue(p)
  PROVE  \/ Starts(p) \/ Visiting(p) \/ Locking(p) \/ DestroyId(p)
         \/ \E r \in Realm, b \in Base : handle_rsi_csm_create(p, r, b)
         \/ \E r \in Realm, rid \in RegionId : DestroyRegion(p, r, rid)
         \/ \E r \in Realm, g \in AptGranule : smc_apt_create(p, r, g)
         \/ \E r \in Realm : AptDestroyLocal(p, r)
<1>0. Owner \subseteq Realm /\ Borrower \subseteq Realm
  BY CsmAssumption
<1>1. CASE OwnerCall(p)
  BY <1>0, <1>1 DEF OwnerCall, Starts
<1>2. CASE BorrowerCall(p)
  BY <1>0, <1>2 DEF BorrowerCall, Starts, Locking
<1>3. CASE HostCommand(p)
  BY <1>3 DEF HostCommand, Starts
<1>4. CASE Continue(p)
  BY <1>4 DEF Continue, Visiting, Locking
<1> QED BY <1>1, <1>2, <1>3, <1>4

LEMMA IdsStep ==
  ASSUME CsmTypes, IdsInv, NEW p \in PE, OwnerCall(p) \/ BorrowerCall(p) \/ HostCommand(p) \/ Continue(p)
  PROVE  IdsInv'
<1>1. CASE Starts(p)
  BY <1>1, StartsFacts, IdsKept, OwnedSame
<1>2. CASE Visiting(p)
  BY <1>2, VisitingFacts, IdsKept
<1>3. CASE Locking(p)
  BY <1>3, LockingFacts, IdsKept
<1> QED BY <1>1, <1>2, <1>3, StepKinds, IdsCreate, IdsDestroyRegion, IdsDestroyId, IdsAptCreate, IdsAptDestroyLocal

-----------------------------------------------------------------------------
(* Borrowed regions.                                                       *)

OwnedShrink ==
  \A g \in AptGranule, i \in RegionId :
    master'[g][i].used => master[g][i].used /\ master'[g][i].ipa = master[g][i].ipa

\* The property of the next state, spelled out.
LEMMA DisjointNext ==
  ASSUME \A g \in AptGranule, i, j \in Slots :
           i # j /\ slave'[g][i].used /\ slave'[g][j].used =>
             PagesFrom(slave'[g][i].ipa) \cap PagesFrom(slave'[g][j].ipa) = {},
         \A g \in AptGranule, i \in Slots, h \in RegionId :
           slave'[g][i].used /\ master'[g][h].used =>
             PagesFrom(slave'[g][i].ipa) \cap PagesFrom(master'[g][h].ipa) = {}
  PROVE  BorrowedRegionsDisjoint'
BY DEF BorrowedRegionsDisjoint, RegionsIn, PagesFrom

LEMMA DisjointKept ==
  ASSUME BorrowedRegionsDisjoint, OwnedShrink, BorrowedShrink
  PROVE  BorrowedRegionsDisjoint'
<1> SUFFICES ASSUME NEW g \in AptGranule, NEW i \in Slots, slave'[g][i].used
             PROVE  /\ \A j \in Slots \ {i} :
                         slave'[g][j].used => PagesFrom(slave'[g][i].ipa) \cap PagesFrom(slave'[g][j].ipa) = {}
                    /\ \A rid \in RegionId :
                         master'[g][rid].used => PagesFrom(slave'[g][i].ipa) \cap PagesFrom(master'[g][rid].ipa) = {}
  BY DEF BorrowedRegionsDisjoint, RegionsIn, PagesFrom
<1>1. slave'[g][i] = slave[g][i] /\ slave[g][i].used
  BY DEF BorrowedShrink
<1>2. \A j \in Slots : slave'[g][j].used => slave'[g][j] = slave[g][j] /\ slave[g][j].used
  BY DEF BorrowedShrink
<1>3. \A rid \in RegionId : master'[g][rid].used => rid \in RegionsIn(g) /\ master'[g][rid].ipa = master[g][rid].ipa
  BY DEF OwnedShrink, RegionsIn
<1> QED BY <1>1, <1>2, <1>3 DEF BorrowedRegionsDisjoint

LEMMA OwnedKeptShrinks == OwnedKept => OwnedShrink
BY DEF OwnedKept, OwnedShrink

\* A new owned region overlaps no borrowed one.
LEMMA DisjointCreate ==
  ASSUME CsmTypes, BorrowedRegionsDisjoint, NEW p \in PE, NEW r \in Realm, NEW b \in Base, handle_rsi_csm_create(p, r, b)
  PROVE  BorrowedRegionsDisjoint'
<1>0. UNCHANGED slave
  BY DEF handle_rsi_csm_create
<1>1. CASE UNCHANGED master
  BY <1>0, <1>1, DisjointKept, OwnedSame, OwnedKeptShrinks, BorrowedSame
<1>2. CASE /\ AptLive(r) /\ ~Conflict(r, b, TRUE)
           /\ \E rid \in RegionId : \E y \in MasterRec : MasterBecomes(apt_pa[r], rid, y) /\ y.ipa = b
  <2>1. PICK rid \in RegionId, y \in MasterRec : MasterBecomes(apt_pa[r], rid, y) /\ y.ipa = b
    BY <1>2
  <2> DEFINE a == apt_pa[r]
  <2>2. a \in AptGranule /\ Slaves(r) = slave[a]
    BY <1>2, Views
  <2>3. \A j \in Slots : slave[a][j].used => PagesFrom(b) \cap PagesFrom(slave[a][j].ipa) = {}
    BY <1>2, <2>2 DEF Conflict
  <2>4. ASSUME NEW g \in AptGranule, NEW i \in Slots, slave[g][i].used, NEW h \in RegionId, master'[g][h].used
        PROVE  PagesFrom(slave[g][i].ipa) \cap PagesFrom(master'[g][h].ipa) = {}
    <3>1. CASE g = a /\ h = rid
      <4>1. master'[g][h].ipa = b
        BY <2>1, <3>1 DEF MasterBecomes
      <4> QED BY <2>3, <2>4, <3>1, <4>1
    <3>2. CASE ~(g = a /\ h = rid)
      <4>1. master'[g][h] = master[g][h]
        BY <2>1, <3>2 DEF MasterBecomes
      <4> QED BY <2>4, <4>1 DEF BorrowedRegionsDisjoint, RegionsIn
    <3> QED BY <3>1, <3>2
  <2>5. \A g \in AptGranule, i, j \in Slots :
          i # j /\ slave[g][i].used /\ slave[g][j].used =>
            PagesFrom(slave[g][i].ipa) \cap PagesFrom(slave[g][j].ipa) = {}
    BY DEF BorrowedRegionsDisjoint
  <2> QED BY <1>0, <2>4, <2>5, DisjointNext
<1>3. CASE /\ AptLive(r) /\ ~Conflict(r, b, TRUE)
           /\ \E rid \in RegionId \ ids : \E y \in MasterRec :
                /\ ids' = ids \cup {rid}
                /\ MasterBecomes(apt_pa[r], rid, y) /\ y.used /\ y.ipa = b
  <2>1. \E rid \in RegionId : \E y \in MasterRec : MasterBecomes(apt_pa[r], rid, y) /\ y.ipa = b
    BY <1>3, Zenon
  <2>2. AptLive(r) /\ ~Conflict(r, b, TRUE)
    BY <1>3, Zenon
  <2> QED BY <1>2, <2>1, <2>2, Zenon
<1>4. \/ UNCHANGED master
      \/ /\ AptLive(r) /\ ~Conflict(r, b, TRUE)
         /\ \E rid \in RegionId \ ids : \E y \in MasterRec :
              /\ ids' = ids \cup {rid}
              /\ MasterBecomes(apt_pa[r], rid, y) /\ y.used /\ y.ipa = b
  BY CreateEffect, ZenonT(40)
<1> QED BY <1>1, <1>3, <1>4, Zenon

\* A reserved region overlaps no other, owned or borrowed, in the APT it is entered in.
LEMMA DisjointReserve ==
  ASSUME CsmTypes, LocksInv, BorrowedRegionsDisjoint, NEW p \in PE, ReservePeer(p)
  PROVE  BorrowedRegionsDisjoint'
<1> DEFINE r == pe[p].r
           b == pe[p].ipa
           a == apt_pa[r]
<1>0. UNCHANGED master /\ r \in Realm /\ AptLive(r)
  BY TypesOf DEF ReservePeer, At, Named, LocksInv, Holding
<1>1. CASE UNCHANGED slave
  BY <1>0, <1>1, DisjointKept, OwnedSame, OwnedKeptShrinks, BorrowedSame
<1>2. CASE \A g \in AptGranule, i \in Slots :
             \/ slave'[g][i] = slave[g][i]
             \/ /\ ReserveAllowed(pe[p].r, pe[p].tag, pe[p].rid, pe[p].peer, pe[p].ipa)
                /\ g = apt_pa[pe[p].r] /\ i \in FreeSlave(pe[p].r) /\ slave'[g][i].ipa = pe[p].ipa
  <2> DEFINE New(g, i) == ~Conflict(r, b, FALSE) /\ g = a /\ i \in FreeSlave(r) /\ slave'[g][i].ipa = b
  <2>1. \A g \in AptGranule, i \in Slots : slave'[g][i] = slave[g][i] \/ New(g, i)
    BY <1>2 DEF ReserveAllowed
  <2>2. a \in AptGranule /\ Slaves(r) = slave[a] /\ Masters(r) = master[a]
    BY <1>0, Views
  <2>3. \A i, j \in FreeSlave(r) : i = j
    BY SizeFacts DEF FreeSlave
  <2>4. ASSUME NEW g \in AptGranule, NEW i \in Slots, New(g, i)
        PROVE  /\ \A j \in Slots : slave[g][j].used => PagesFrom(b) \cap PagesFrom(slave[g][j].ipa) = {}
               /\ \A h \in RegionId : master[g][h].used => PagesFrom(b) \cap PagesFrom(master[g][h].ipa) = {}
    BY <2>2, <2>4 DEF Conflict
  <2>5. ASSUME NEW g \in AptGranule, NEW i \in Slots, NEW j \in Slots, i # j, New(g, i)
        PROVE  slave'[g][j] = slave[g][j]
    BY <2>1, <2>3, <2>5
  <2>6. \A g \in AptGranule, i \in Slots : New(g, i) => slave'[g][i].ipa = b
    OBVIOUS
  <2> HIDE DEF New, b, r, a
  <2>7. ASSUME NEW g \in AptGranule, NEW i \in Slots, NEW j \in Slots, i # j, slave'[g][i].used, slave'[g][j].used
        PROVE  PagesFrom(slave'[g][i].ipa) \cap PagesFrom(slave'[g][j].ipa) = {}
    <3>1. CASE New(g, i)
      <4>1. slave'[g][j] = slave[g][j]
        BY <2>5, <2>7, <3>1
      <4> QED BY <2>4, <2>6, <2>7, <3>1, <4>1
    <3>2. CASE New(g, j)
      <4>1. slave'[g][i] = slave[g][i]
        BY <2>5, <2>7, <3>2
      <4> QED BY <2>4, <2>6, <2>7, <3>2, <4>1
    <3>3. CASE ~New(g, i) /\ ~New(g, j)
      <4>1. slave'[g][i] = slave[g][i] /\ slave'[g][j] = slave[g][j]
        BY <2>1, <3>3
      <4> QED BY <2>7, <4>1 DEF BorrowedRegionsDisjoint
    <3> QED BY <3>1, <3>2, <3>3
  <2>8. ASSUME NEW g \in AptGranule, NEW i \in Slots, NEW h \in RegionId, slave'[g][i].used, master[g][h].used
        PROVE  PagesFrom(slave'[g][i].ipa) \cap PagesFrom(master[g][h].ipa) = {}
    <3>1. CASE New(g, i)
      BY <2>4, <2>6, <2>8, <3>1
    <3>2. CASE ~New(g, i)
      <4>1. slave'[g][i] = slave[g][i]
        BY <2>1, <3>2
      <4> QED BY <2>8, <4>1 DEF BorrowedRegionsDisjoint, RegionsIn
    <3> QED BY <3>1, <3>2
  <2> QED BY <1>0, <2>7, <2>8, DisjointNext
<1> QED BY <1>1, <1>2, ReservePeerEffect

LEMMA DisjointStep ==
  ASSUME CsmTypes, LocksInv, BorrowedRegionsDisjoint, NEW p \in PE,
         OwnerCall(p) \/ BorrowerCall(p) \/ HostCommand(p) \/ Continue(p)
  PROVE  BorrowedRegionsDisjoint'
<1>1. CASE Starts(p)
  BY <1>1, StartsFacts, DisjointKept, OwnedSame, OwnedKeptShrinks, BorrowedSame
<1>2. CASE Visiting(p)
  BY <1>2, VisitingFacts, DisjointKept, OwnedKeptShrinks
<1>3. CASE Locking(p) /\ ~ReservePeer(p)
  BY <1>3, LockingFacts, DisjointKept, OwnedKeptShrinks, BorrowedSame
<1>4. CASE DestroyId(p)
  <2>1. UNCHANGED <<master, slave>>
    BY <1>4 DEF DestroyId
  <2> QED BY <2>1, DisjointKept, OwnedSame, OwnedKeptShrinks, BorrowedSame
<1>5. ASSUME NEW r \in Realm, NEW rid \in RegionId, DestroyRegion(p, r, rid)
      PROVE  BorrowedRegionsDisjoint'
  <2>1. apt_pa[r] \in AptGranule /\ master' = [master EXCEPT ![apt_pa[r]][rid] = NoMaster] /\ UNCHANGED slave
    BY <1>5, Views DEF DestroyRegion, DestroyAllowed
  <2>2. MasterBecomes(apt_pa[r], rid, NoMaster)
    BY <2>1, MasterSet, NoMasterType
  <2>3. OwnedShrink
    BY <2>2, NoMasterType DEF OwnedShrink, MasterBecomes
  <2> QED BY <2>1, <2>3, DisjointKept, BorrowedSame
<1>6. ASSUME NEW r \in Realm, NEW g \in AptGranule, smc_apt_create(p, r, g)
      PROVE  BorrowedRegionsDisjoint'
  <2>1. OwnedShrink
    BY <1>6, MastersEmptied DEF smc_apt_create, OwnedShrink
  <2>2. BorrowedShrink
    BY <1>6, SlavesEmptied DEF smc_apt_create
  <2> QED BY <2>1, <2>2, DisjointKept
<1>7. ASSUME NEW r \in Realm, AptDestroyLocal(p, r)
      PROVE  BorrowedRegionsDisjoint'
  <2>1. CASE UNCHANGED <<master, slave>>
    BY <2>1, DisjointKept, OwnedSame, OwnedKeptShrinks, BorrowedSame
  <2>2. CASE /\ AptLive(r) /\ master' = [master EXCEPT ![apt_pa[r]] = EmptyMasters]
             /\ slave' = [slave EXCEPT ![apt_pa[r]] = EmptySlaves]
    <3>1. apt_pa[r] \in AptGranule
      BY <2>2, Views
    <3>2. OwnedShrink
      BY <2>2, <3>1, MastersEmptied DEF OwnedShrink
    <3> QED BY <2>2, <3>1, <3>2, SlavesEmptied, DisjointKept
  <2> QED BY <1>7, <2>1, <2>2, AptDestroyLocalPe
<1> QED BY <1>1, <1>2, <1>3, <1>4, <1>5, <1>6, <1>7, StepKinds, DisjointCreate, DisjointReserve

-----------------------------------------------------------------------------
(* Locks.                                                                  *)

LEMMA LocksLockable == \A r \in Realm : Locks(r) \subseteq Lockable
BY DEF Locks, Lockable

LEMMA HoldFacts ==
  ASSUME CsmTypes, NEW p \in PE, NEW X, \A y \in X : lk[y] = NoPE, Hold(p, X)
  PROVE  \A y \in Lockable : /\ lk'[y] = p <=> (y \in X \/ lk[y] = p)
                             /\ \A q \in PE : q # p => (lk'[y] = q <=> lk[y] = q)
BY CsmAssumption DEF Hold, Lockable

LEMMA UnlockFacts ==
  ASSUME CsmTypes, NEW p \in PE, NEW X, \A y \in Lockable : lk[y] = p <=> y \in X, Unlock(X)
  PROVE  \A y \in Lockable : /\ lk'[y] # p
                             /\ \A q \in PE : q # p => (lk'[y] = q <=> lk[y] = q)
BY CsmAssumption DEF Unlock, Lockable

LEMMA LocksKept ==
  ASSUME CsmTypes, LocksInv, NEW p \in PE, NEW x \in Call, PeBecomes(p, x),
         \A y \in Lockable, q \in PE : q # p => (lk'[y] = q <=> lk[y] = q),
         \A s \in Realm, q \in PE : q # p /\ AptLive(s) /\ lk[s] = q /\ lk[apt_pa[s]] = q =>
           AptLive(s)' /\ Locks(s)' = Locks(s),
         x.step # "panic" => /\ \A y \in Lockable : lk'[y] = p <=> Holding(x) /\ y \in Locks(x.r)'
                             /\ Holding(x) => AptLive(x.r)'
  PROVE  LocksInv'
<1> SUFFICES ASSUME NEW q \in PE, pe'[q].step # "panic"
             PROVE  (/\ \A y \in Lockable : lk[y] = q <=> Holding(pe[q]) /\ y \in Locks(pe[q].r)
                     /\ Holding(pe[q]) => AptLive(pe[q].r))'
  BY DEF LocksInv
<1>1. CASE q = p
  <2>1. pe'[q] = x
    BY <1>1 DEF PeBecomes
  <2> QED BY <1>1, <2>1 DEF AptLive, Locks
<1>2. CASE q # p
  <2> DEFINE z == pe[q]
  <2>1. pe'[q] = z
    BY <1>2 DEF PeBecomes
  <2>2. /\ \A y \in Lockable : lk[y] = q <=> Holding(z) /\ y \in Locks(z.r)
        /\ Holding(z) => AptLive(z.r)
    BY <2>1 DEF LocksInv
  <2>3. Holding(z) => z.r \in Realm
    BY TypesOf DEF Holding, Named
  <2>n. z.r = pe[q].r
    OBVIOUS
  <2>4. Holding(z) => AptLive(z.r)' /\ Locks(z.r)' = Locks(z.r)
    <3> SUFFICES ASSUME Holding(z) PROVE AptLive(z.r)' /\ Locks(z.r)' = Locks(z.r)
      OBVIOUS
    <3> DEFINE s == pe[q].r
    <3>1. s \in Realm /\ AptLive(s)
      BY <2>2, <2>3
    <3>2. s \in Locks(s) /\ apt_pa[s] \in Locks(s) /\ Locks(s) \subseteq Lockable
      BY <3>1, LocksLockable DEF AptLive, Locks
    <3>3. lk[s] = q /\ lk[apt_pa[s]] = q
      BY <2>2, <3>2
    <3> QED BY <1>2, <2>1, <3>1, <3>3
  <2> QED BY <1>2, <2>1, <2>2, <2>4 DEF AptLive, Locks
<1> QED BY <1>1, <1>2

\* A step that takes nothing and gives nothing back, and leaves the APTs that are locked where they are.
LEMMA LocksQuiet ==
  ASSUME CsmTypes, LocksInv, NEW p \in PE, NEW x \in Call, PeBecomes(p, x), UNCHANGED lk,
         \A s \in Realm : AptLive(s) /\ lk[s] # NoPE /\ lk[apt_pa[s]] # NoPE => AptLive(s)' /\ Locks(s)' = Locks(s),
         pe[p].step # "panic", ~Holding(pe[p]), ~Holding(x)
  PROVE  LocksInv'
<1>1. \A y \in Lockable : lk[y] # p
  BY DEF LocksInv
<1>2. \A s \in Realm, q \in PE : q # p /\ AptLive(s) /\ lk[s] = q /\ lk[apt_pa[s]] = q =>
        AptLive(s)' /\ Locks(s)' = Locks(s)
  BY CsmAssumption
<1> QED BY <1>1, <1>2, LocksKept

LEMMA AptsKept ==
  ASSUME UNCHANGED <<aptg, apt_pa>>
  PROVE  \A s \in Realm : (AptLive(s)' <=> AptLive(s)) /\ Locks(s)' = Locks(s)
BY DEF AptLive, Locks

\* A failed assertion under the locks of a realm that were free, or under none.
LEMMA LocksPanic ==
  ASSUME CsmTypes, LocksInv, NEW p \in PE, NEW x \in Call, PeBecomes(p, x), UNCHANGED <<aptg, apt_pa>>,
         x.step = "panic", UNCHANGED lk \/ \E r \in Realm : Free(r) /\ Hold(p, Locks(r))
  PROVE  LocksInv'
<1>1. \A y \in Lockable, q \in PE : q # p => (lk'[y] = q <=> lk[y] = q)
  <2>1. CASE UNCHANGED lk
    BY <2>1
  <2>2. CASE \E r \in Realm : Free(r) /\ Hold(p, Locks(r))
    BY <2>2, HoldFacts DEF Free
  <2> QED BY <2>1, <2>2
<1>2. \A s \in Realm : (AptLive(s)' <=> AptLive(s)) /\ Locks(s)' = Locks(s)
  BY AptsKept
<1> QED BY <1>1, <1>2, LocksKept

\* The locks of a realm are taken and kept until the next step.
LEMMA LocksTaken ==
  ASSUME CsmTypes, LocksInv, NEW p \in PE, NEW x \in Call, PeBecomes(p, x), UNCHANGED <<aptg, apt_pa>>,
         pe[p].step # "panic", ~Holding(pe[p]), Holding(x), x.r \in Realm, AptLive(x.r),
         Free(x.r), Hold(p, Locks(x.r))
  PROVE  LocksInv'
<1>1. \A y \in Lockable : lk[y] # p
  BY DEF LocksInv
<1>2. \A y \in Lockable : /\ lk'[y] = p <=> y \in Locks(x.r)
                          /\ \A q \in PE : q # p => (lk'[y] = q <=> lk[y] = q)
  BY <1>1, HoldFacts DEF Free
<1>3. \A s \in Realm : (AptLive(s)' <=> AptLive(s)) /\ Locks(s)' = Locks(s)
  BY DEF AptLive, Locks
<1> QED BY <1>2, <1>3, LocksKept

\* Both locks of the PE's realm are given back.
LEMMA LocksGiven ==
  ASSUME CsmTypes, LocksInv, NEW p \in PE, PeBecomes(p, Idle), UNCHANGED <<aptg, apt_pa>>,
         pe[p].step # "panic", Holding(pe[p]), Unlock(Locks(pe[p].r))
  PROVE  LocksInv'
<1>1. \A y \in Lockable : lk[y] = p <=> y \in Locks(pe[p].r)
  BY DEF LocksInv
<1>2. \A y \in Lockable : /\ lk'[y] # p
                          /\ \A q \in PE : q # p => (lk'[y] = q <=> lk[y] = q)
  <2> DEFINE X == Locks(pe[p].r)
  <2>1. (\A y \in Lockable : lk[y] = p <=> y \in X) /\ Unlock(X)
    BY <1>1
  <2> HIDE DEF X
  <2> QED BY <2>1, UnlockFacts
<1>3. \A s \in Realm : (AptLive(s)' <=> AptLive(s)) /\ Locks(s)' = Locks(s)
  BY DEF AptLive, Locks
<1>4. ~Holding(Idle) /\ Idle \in Call
  BY IdleType DEF Holding
<1> QED BY <1>2, <1>3, <1>4, LocksKept

LEMMA NotWaiting ==
  ASSUME CsmTypes, NEW p \in PE, pe[p].op \in {"none", "share", "destroy", "detach", "revoke", "apt_destroy"}
  PROVE  ~Holding(pe[p]) /\ (pe[p].op = "none" => pe[p].step # "panic")
BY TypesOf DEF Holding, Named

LEMMA LocksStart ==
  ASSUME CsmTypes, LocksInv, NEW p \in PE, Starts(p)
  PROVE  LocksInv'
<1>1. PICK x \in Call : PeBecomes(p, x) /\ ~Holding(x)
  BY StartsFacts
<1>2. UNCHANGED <<lk, aptg>> /\ ~Holding(pe[p]) /\ pe[p].step # "panic"
  BY StartsFacts, NotWaiting
<1>3. CASE UNCHANGED apt_pa
  BY <1>1, <1>2, <1>3, AptsKept, LocksQuiet
<1>4. ASSUME NEW r \in Realm, smc_realm_destroy(p, r) PROVE LocksInv'
  <2>1. lk[r] = NoPE /\ \A s \in Realm : s # r => apt_pa'[s] = apt_pa[s]
    BY <1>4 DEF smc_realm_destroy, CsmTypes, AptTypes
  <2>2. \A s \in Realm : AptLive(s) /\ lk[s] # NoPE /\ lk[apt_pa[s]] # NoPE => AptLive(s)' /\ Locks(s)' = Locks(s)
    BY <1>2, <2>1 DEF AptLive, Locks
  <2> QED BY <1>1, <1>2, <2>2, LocksQuiet
<1> QED BY <1>3, <1>4, StartsFacts

LEMMA LocksVisit ==
  ASSUME CsmTypes, LocksInv, NEW p \in PE, Visiting(p)
  PROVE  LocksInv'
<1>1. PICK x \in Call : PeBecomes(p, x) /\ ~Holding(x)
  BY VisitingFacts
<1>2. UNCHANGED <<lk, aptg, apt_pa>> /\ ~Holding(pe[p]) /\ pe[p].step # "panic"
  BY VisitingFacts, NotWaiting
<1> QED BY <1>1, <1>2, AptsKept, LocksQuiet

\* The steps that take locks.
LEMMA LocksTake ==
  ASSUME CsmTypes, LocksInv, NEW p \in PE,
         \/ \E r \in Realm, i \in Slots : AttachLock(p, r, i)
         \/ ShareEnter(p) \/ ReserveLock(p) \/ PropagateLock(p)
  PROVE  LocksInv'
<1>1. ASSUME NEW r \in Realm, NEW i \in Slots, AttachLock(p, r, i) PROVE LocksInv'
  <2>1. PICK x \in Call : /\ PeBecomes(p, x)
                          /\ \/ AptLive(r) /\ x.op = "attach" /\ x.step = "peer" /\ x.r = r
                             \/ x.op = "apt_null" /\ x.step = "panic"
    BY <1>1, AttachLockPe
  <2>2. /\ UNCHANGED <<aptg, apt_pa>> /\ ~Holding(pe[p]) /\ pe[p].step # "panic"
        /\ Free(r) /\ Hold(p, Locks(r))
    BY <1>1, NotWaiting DEF AttachLock, Calls, IsIdle, aptVars, realmVars
  <2>3. CASE x.step = "panic"
    BY <2>1, <2>2, <2>3, LocksPanic
  <2>4. CASE AptLive(r) /\ x.op = "attach" /\ x.step = "peer" /\ x.r = r
    BY <2>1, <2>2, <2>4, LocksTaken DEF Holding
  <2> QED BY <2>1, <2>3, <2>4
<1>2. CASE ShareEnter(p)
  <2>1. /\ UNCHANGED <<aptg, apt_pa>> /\ ~Holding(pe[p]) /\ pe[p].step # "panic"
        /\ pe[p].r \in Realm /\ Free(pe[p].r)
    BY <1>2, NotWaiting, TypesOf DEF ShareEnter, At, realmVars, Named
  <2>2. CASE (\E x \in Call : PeBecomes(p, x) /\ x.op = "apt_null" /\ x.step = "panic") /\ Hold(p, Locks(pe[p].r))
    BY <2>1, <2>2, LocksPanic
  <2>3. CASE PeBecomes(p, Idle) /\ UNCHANGED lk
    BY <2>1, <2>3, AptsKept, LocksQuiet, IdleType DEF Holding
  <2> QED BY <1>2, <2>2, <2>3, ShareEnterEffect
<1>3. CASE ReserveLock(p)
  <2>1. PICK x \in Call : /\ PeBecomes(p, x)
                          /\ \/ AptLive(pe[p].r) /\ x.op = "reserve" /\ x.step = "peer" /\ x.r = pe[p].r
                             \/ x.op = "apt_null" /\ x.step = "panic"
    BY <1>3, ReserveLockPe
  <2>2. /\ UNCHANGED <<aptg, apt_pa>> /\ ~Holding(pe[p]) /\ pe[p].step # "panic"
        /\ pe[p].r \in Realm /\ Free(pe[p].r) /\ Hold(p, Locks(pe[p].r))
    BY <1>3, TypesOf DEF ReserveLock, At, aptVars, realmVars, Named, Holding
  <2>3. CASE x.step = "panic"
    BY <2>1, <2>2, <2>3, LocksPanic
  <2>4. CASE AptLive(pe[p].r) /\ x.op = "reserve" /\ x.step = "peer" /\ x.r = pe[p].r
    <3>1. Holding(x)
      BY <2>4 DEF Holding
    <3> QED BY <2>1, <2>2, <2>4, <3>1, LocksTaken
  <2> QED BY <2>1, <2>3, <2>4
<1>4. CASE PropagateLock(p)
  <2>1. /\ UNCHANGED <<aptg, apt_pa>> /\ ~Holding(pe[p]) /\ pe[p].step # "panic"
        /\ pe[p].r \in Realm /\ Free(pe[p].r)
    BY <1>4, TypesOf DEF PropagateLock, At, aptVars, realmVars, Named, Holding
  <2>2. CASE PeBecomes(p, Idle) /\ UNCHANGED lk
    BY <2>1, <2>2, AptsKept, LocksQuiet, IdleType DEF Holding
  <2>3. CASE /\ \E x \in Call : PeBecomes(p, x) /\ x.op = "propagate" /\ x.step = "peers" /\ x.r = pe[p].r
             /\ Hold(p, Locks(pe[p].r)) /\ AptLive(pe[p].r)
    <3>1. PICK x \in Call : PeBecomes(p, x) /\ x.op = "propagate" /\ x.step = "peers" /\ x.r = pe[p].r
      BY <2>3
    <3>2. Holding(x)
      BY <3>1 DEF Holding
    <3> QED BY <2>1, <2>3, <3>1, <3>2, LocksTaken
  <2> QED BY <1>4, <2>2, <2>3, PropagateLockPe
<1> QED BY <1>1, <1>2, <1>3, <1>4

\* The steps of a PE that holds the locks of its realm.
LEMMA LocksGive ==
  ASSUME CsmTypes, LocksInv, NEW p \in PE,
         ReservePeer(p) \/ AttachNoOwner(p) \/ AttachPeer(p) \/ PropagatePeer(p) \/ PropagateDone(p)
  PROVE  LocksInv'
<1>0. UNCHANGED <<aptg, apt_pa>> /\ Holding(pe[p]) /\ pe[p].step # "panic"
  BY DEF ReservePeer, AttachNoOwner, AttachPeer, PropagatePeer, PropagateDone, At, aptVars, realmVars, Holding
<1>1. CASE ReservePeer(p)
  <2>1. pe[p].peer \in Realm /\ Free(pe[p].peer)
    BY <1>1, TypesOf DEF ReservePeer, At, Named
  <2>2. CASE /\ \E x \in Call : PeBecomes(p, x) /\ x.op \in {"rd_null", "apt_null"} /\ x.step = "panic"
             /\ UNCHANGED lk \/ Hold(p, Locks(pe[p].peer))
    BY <1>0, <2>1, <2>2, LocksPanic
  <2>3. CASE PeBecomes(p, Idle) /\ Unlock(Locks(pe[p].r))
    BY <1>0, <2>3, LocksGiven
  <2> QED BY <1>1, <2>2, <2>3, ReservePeerEffect
<1>2. CASE AttachNoOwner(p) \/ PropagateDone(p)
  <2>1. PeBecomes(p, Idle) /\ Unlock(Locks(pe[p].r))
    BY <1>2, ReturnSets, TypesOf DEF AttachNoOwner, PropagateDone
  <2> QED BY <1>0, <2>1, LocksGiven
<1>3. CASE AttachPeer(p)
  <2>1. pe[p].peer \in Realm /\ Free(pe[p].peer)
    BY <1>3 DEF AttachPeer
  <2>2. CASE /\ \E x \in Call : PeBecomes(p, x) /\ x.op \in {"apt_null", "llt_unlock"} /\ x.step = "panic"
             /\ Hold(p, Locks(pe[p].peer))
    BY <1>0, <2>1, <2>2, LocksPanic
  <2>3. CASE PeBecomes(p, Idle) /\ Unlock(Locks(pe[p].r))
    BY <1>0, <2>3, LocksGiven
  <2> QED BY <1>3, <2>2, <2>3, AttachPeerEffect
<1>4. CASE PropagatePeer(p)
  <2>1. PICK x \in Call : PeBecomes(p, x) /\ x.op = "propagate" /\ x.step = "peers" /\ x.r = pe[p].r
    BY <1>4, PropagatePeerEffect
  <2>2. UNCHANGED lk /\ Holding(x) /\ pe[p].r \in Realm
    BY <1>4, <2>1, TypesOf DEF PropagatePeer, Holding, At, Named
  <2> DEFINE s == pe[p].r
  <2>3. (\A y \in Lockable : lk[y] = p <=> y \in Locks(s)) /\ AptLive(s)
    BY <1>0 DEF LocksInv
  <2>4. \A z \in Realm : (AptLive(z)' <=> AptLive(z)) /\ Locks(z)' = Locks(z)
    BY <1>0, AptsKept
  <2>5. x.r = s /\ s \in Realm
    BY <2>1, <2>2
  <2> HIDE DEF s
  <2>6. /\ \A y \in Lockable : lk'[y] = p <=> Holding(x) /\ y \in Locks(x.r)'
        /\ Holding(x) => AptLive(x.r)'
    BY <2>2, <2>3, <2>4, <2>5
  <2> QED BY <2>1, <2>2, <2>4, <2>6, LocksKept
<1> QED BY <1>1, <1>2, <1>3, <1>4

\* The commands that give a granule to an APT or take it back, with its lock free.
LEMMA LocksAptCreate ==
  ASSUME CsmTypes, LocksInv, NEW p \in PE, NEW r \in Realm, NEW g \in AptGranule, smc_apt_create(p, r, g)
  PROVE  LocksInv'
<1>1. /\ UNCHANGED <<lk, pe>> /\ pe[p].op = "none" /\ lk[r] = NoPE /\ aptg[g] = "DELEGATED"
      /\ \A h \in AptGranule : h # g => aptg'[h] = aptg[h]
      /\ \A s \in Realm : s # r => apt_pa'[s] = apt_pa[s]
  BY DEF smc_apt_create, IsIdle, CsmTypes, AptTypes
<1>2. PeBecomes(p, pe[p]) /\ pe[p] \in Call /\ ~Holding(pe[p]) /\ pe[p].step # "panic"
  BY <1>1, TypesOf, NotWaiting DEF PeBecomes
<1>3. \A s \in Realm : AptLive(s) /\ lk[s] # NoPE /\ lk[apt_pa[s]] # NoPE => AptLive(s)' /\ Locks(s)' = Locks(s)
  BY <1>1 DEF AptLive, Locks
<1> QED BY <1>1, <1>2, <1>3, LocksQuiet

LEMMA LocksAptDestroy ==
  ASSUME CsmTypes, LocksInv, NEW p \in PE, NEW r \in Realm, AptDestroyLocal(p, r)
  PROVE  LocksInv'
<1>1. /\ UNCHANGED apt_pa /\ Free(r) /\ ~Holding(pe[p]) /\ pe[p].step # "panic"
  BY NotWaiting DEF AptDestroyLocal, IsIdle
<1>2. CASE /\ \E x \in Call : PeBecomes(p, x) /\ x.op = "apt_destroy" /\ x.step = "panic"
           /\ UNCHANGED aptg /\ Hold(p, Locks(r))
  BY <1>1, <1>2, LocksPanic
<1>3. CASE /\ \E x \in Call : PeBecomes(p, x) /\ x.op = "apt_destroy" /\ x.step = "peers"
           /\ AptLive(r) /\ aptg' = [aptg EXCEPT ![apt_pa[r]] = "DELEGATED"] /\ UNCHANGED lk
  <2>1. PICK x \in Call : PeBecomes(p, x) /\ x.op = "apt_destroy" /\ x.step = "peers"
    BY <1>3
  <2>2. ~Holding(x)
    BY <2>1 DEF Holding
  <2>3. lk[apt_pa[r]] = NoPE /\ \A h \in AptGranule : h # apt_pa[r] => aptg'[h] = aptg[h]
    BY <1>1, <1>3 DEF Free, Locks, AptLive, CsmTypes, AptTypes
  <2>4. \A s \in Realm : AptLive(s) /\ lk[s] # NoPE /\ lk[apt_pa[s]] # NoPE => AptLive(s)' /\ Locks(s)' = Locks(s)
    BY <1>1, <2>3 DEF AptLive, Locks
  <2> QED BY <1>1, <1>3, <2>1, <2>2, <2>4, LocksQuiet
<1> QED BY <1>2, <1>3, AptDestroyLocalPe

LEMMA LocksCreate ==
  ASSUME CsmTypes, LocksInv, NEW p \in PE, NEW r \in Realm, NEW b \in Base, handle_rsi_csm_create(p, r, b)
  PROVE  LocksInv'
<1>1. UNCHANGED <<aptg, apt_pa>> /\ Free(r) /\ ~Holding(pe[p]) /\ pe[p].step # "panic" /\ pe[p].op = "none"
  BY NotWaiting DEF handle_rsi_csm_create, Calls, IsIdle, realmVars
<1>2. CASE (\E x \in Call : PeBecomes(p, x) /\ x.op = "apt_null" /\ x.step = "panic") /\ Hold(p, Locks(r))
  BY <1>1, <1>2, LocksPanic
<1>3. CASE UNCHANGED <<pe, lk>>
  <2>1. PeBecomes(p, pe[p]) /\ pe[p] \in Call
    BY <1>3, TypesOf DEF PeBecomes
  <2> QED BY <1>1, <1>3, <2>1, AptsKept, LocksQuiet
<1> QED BY <1>2, <1>3, CreateEffect

LEMMA LocksDestroy ==
  ASSUME CsmTypes, LocksInv, NEW p \in PE,
         DestroyId(p) \/ \E r \in Realm, rid \in RegionId : DestroyRegion(p, r, rid)
  PROVE  LocksInv'
<1>1. UNCHANGED <<lk, aptg, apt_pa>> /\ ~Holding(pe[p]) /\ pe[p].step # "panic"
  BY NotWaiting DEF DestroyId, DestroyRegion, At, Calls, IsIdle, realmVars
<1>2. \E x \in Call : PeBecomes(p, x) /\ ~Holding(x)
  BY DestroyRegionPe, ReturnSets, TypesOf, IdleType DEF DestroyId, Holding
<1> QED BY <1>1, <1>2, AptsKept, LocksQuiet

LEMMA LocksStep ==
  ASSUME CsmTypes, LocksInv, NEW p \in PE, OwnerCall(p) \/ BorrowerCall(p) \/ HostCommand(p) \/ Continue(p)
  PROVE  LocksInv'
<1>1. CASE Locking(p)
  BY <1>1, LocksTake, LocksGive DEF Locking
<1> QED BY <1>1, StepKinds, LocksStart, LocksVisit, LocksAptCreate, LocksAptDestroy, LocksCreate, LocksDestroy

-----------------------------------------------------------------------------
LEMMA RegistryInit == Init => RegistryInv
<1> SUFFICES ASSUME Init PROVE RegistryInv
  OBVIOUS
<1>1. CsmTypes
  BY InitTypes
<1>2. \A p \in PE : pe[p].op = "none"
  BY IdleType DEF Init
<1>3. \A g \in AptGranule, i \in RegionId : ~master[g][i].used
  BY NoMasterType DEF Init
<1>4. \A g \in AptGranule, i \in Slots : ~slave[g][i].used
  BY NoSlaveType DEF Init
<1>5. IdsInv
  BY <1>2, <1>3 DEF Init, IdsInv, Releases
<1>6. LocksInv
  BY <1>2, CsmAssumption DEF Init, LocksInv, Holding, Lockable
<1>7. BorrowedRegionsDisjoint
  BY <1>4 DEF BorrowedRegionsDisjoint
<1> QED BY <1>1, <1>5, <1>6, <1>7 DEF RegistryInv

LEMMA RegistryStep == RegistryInv /\ [Next]_vars => RegistryInv'
<1> SUFFICES ASSUME RegistryInv, [Next]_vars PROVE RegistryInv'
  OBVIOUS
<1>0. CsmTypes /\ IdsInv /\ LocksInv /\ BorrowedRegionsDisjoint /\ CsmTypes'
  BY TypesStep DEF RegistryInv
<1>1. CASE Next
  <2>1. PICK p \in PE : OwnerCall(p) \/ BorrowerCall(p) \/ HostCommand(p) \/ Continue(p)
    BY <1>1 DEF Next
  <2>2. IdsInv' /\ LocksInv' /\ BorrowedRegionsDisjoint'
    BY <1>0, <2>1, IdsStep, LocksStep, DisjointStep
  <2> QED BY <1>0, <2>2 DEF RegistryInv
<1>2. CASE UNCHANGED vars
  <2>1. IdsInv'
    BY <1>0, <1>2 DEF IdsInv, Releases, vars
  <2>2. LocksInv'
    BY <1>0, <1>2 DEF LocksInv, Holding, AptLive, Locks, vars
  <2>3. BorrowedRegionsDisjoint'
    BY <1>0, <1>2 DEF BorrowedRegionsDisjoint, RegionsIn, vars
  <2> QED BY <1>0, <2>1, <2>2, <2>3 DEF RegistryInv
<1> QED BY <1>1, <1>2

(***************************************************************************)
(* The invariant above, with every interleaving of the calls, APTs that    *)
(* pass from realm to realm, tags that are used again, borrowers that      *)
(* reserve twice or attach any slot, and realms that go and come back.     *)
(***************************************************************************)
THEOREM CsmRegistry == Spec => []RegistryInv
BY RegistryInit, RegistryStep, PTL DEF Spec

LEMMA RegistryExact == RegistryInv => RegionIdsExact
<1> SUFFICES ASSUME RegistryInv PROVE RegionIdsExact
  OBVIOUS
<1>1. IdsInv /\ ids \subseteq RegionId
  BY DEF RegistryInv, CsmTypes, AptTypes
<1>2. \A p \in PE : At(p, "destroy", "id") => pe[p].rid \in RegionId /\ Releases(pe[p], pe[p].rid)
  BY TypesOf DEF RegistryInv, At, Named, Releases
<1>3. \A p \in PE, i \in RegionId : Releases(pe[p], i) => At(p, "destroy", "id") /\ pe[p].rid = i
  BY DEF Releases, At
<1>4. \A i \in ids : i \in (UNION {RegionsIn(g) : g \in AptGranule}) \cup {pe[p].rid : p \in {q \in PE : At(q, "destroy", "id")}}
  BY <1>1, <1>3 DEF IdsInv, RegionsIn
<1>5. \A g \in AptGranule : RegionsIn(g) \subseteq ids
  BY <1>1 DEF IdsInv, RegionsIn
<1>6. \A p \in PE : At(p, "destroy", "id") => pe[p].rid \in ids
  BY <1>1, <1>2 DEF IdsInv
<1>7. ids = (UNION {RegionsIn(g) : g \in AptGranule}) \cup {pe[p].rid : p \in {q \in PE : At(q, "destroy", "id")}}
  BY <1>4, <1>5, <1>6
<1>8. \A g, h \in AptGranule : g # h => RegionsIn(g) \cap RegionsIn(h) = {}
  BY <1>1 DEF IdsInv, RegionsIn
<1> QED BY <1>7, <1>8 DEF RegionIdsExact

LEMMA LocksFollow == RegistryInv => LocksExact
<1> SUFFICES ASSUME RegistryInv, NEW p \in PE, pe[p].step # "panic"
             PROVE  {x \in Realm \cup AptGranule : lk[x] = p} = Held(p)
  BY DEF LocksExact
<1>1. \A y \in Lockable : lk[y] = p <=> Holding(pe[p]) /\ y \in Locks(pe[p].r)
  BY DEF RegistryInv, LocksInv
<1>2. CASE Holding(pe[p])
  <2>1. Held(p) = Locks(pe[p].r)
    BY <1>2 DEF Held, Holding, At
  <2>2. pe[p].r \in Realm
    BY <1>2, TypesOf DEF RegistryInv, Holding, Named
  <2>3. Locks(pe[p].r) \subseteq Lockable
    BY <2>2, LocksLockable
  <2> QED BY <1>1, <1>2, <2>1, <2>3 DEF Lockable
<1>3. CASE ~Holding(pe[p])
  BY <1>1, <1>3 DEF Held, Holding, At, Lockable
<1> QED BY <1>2, <1>3

(***************************************************************************)
(* The registry of region identifiers never loses or leaks an identifier:  *)
(* csm_region_id_remove comes after the locks in RSI_CSM_DESTROY and       *)
(* before the peers in RMI_APT_DESTROY, and neither can release the        *)
(* identifier of a region that another PE creates meanwhile.               *)
(***************************************************************************)
THEOREM RegionIds == Spec => []RegionIdsExact
BY CsmRegistry, RegistryExact, PTL

(***************************************************************************)
(* A borrowed region overlaps no other region of its APT: the tests of     *)
(* RSI_CSM_CREATE and RSI_CSM_RESERVE agree, whichever comes first, and    *)
(* the test of a reservation still holds when the entry is made.           *)
(***************************************************************************)
THEOREM BorrowedDisjoint == Spec => []BorrowedRegionsDisjoint
BY CsmRegistry, PTL DEF RegistryInv

(***************************************************************************)
(* Every way out of a handler gives back exactly the locks it took, and a  *)
(* PE that waits for a peer holds its own RD and APT: no other step moves  *)
(* the APT of a realm that a handler has locked.                           *)
(***************************************************************************)
THEOREM LocksBalanced == Spec => []LocksExact
BY CsmRegistry, LocksFollow, PTL
=============================================================================
