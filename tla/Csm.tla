-------------------------------- MODULE Csm --------------------------------
(***************************************************************************)
(* Confidential shared memory between realms: the RSI_CSM_* calls of the   *)
(* realms (runtime/rsi/shared_memory.c), RMI_APT_CREATE and                *)
(* RMI_APT_DESTROY of the host (runtime/rmi/apt.c), and RMI_DATA_CREATE    *)
(* and RMI_DATA_DESTROY with their propagation to the sharing realms       *)
(* (runtime/rmi/rtt.c), with realms that are destroyed and created again.  *)
(*                                                                         *)
(* An owner realm creates a region and shares it; a borrower realm         *)
(* reserves it in its own address space and attaches the pages.  A PE runs *)
(* one call at a time; calls are split where they take the locks of a      *)
(* second realm and where they act between critical sections.  A step that *)
(* takes the lock of an RD and then of its APT waits for both at once: a   *)
(* PE that spins on an APT with the RD in its hands is not a state.        *)
(*                                                                         *)
(* A realm is named by the granule of its RD, and a tag by that granule:   *)
(* a realm created again in the same granule finds the old tag, and shares *)
(* name whoever is there now.  A borrower may reserve a sharing twice and  *)
(* attach any slot, used or not; slot numbers outside the table, which     *)
(* RSI_CSM_ATTACH does not refuse, are left out.  Page tables reach down   *)
(* to the page level and are locked inside the steps.  The packed lists of *)
(* the APT and the registry of identifiers are used by what the modules    *)
(* Apt and CsmRegionId show of them; a tag is any that no realm holds,     *)
(* which includes tags that were removed (RealmTag).                       *)
(***************************************************************************)
EXTENDS Integers, FiniteSets

CONSTANTS
  PE, NoPE,
  Realm, NoRealm,
  AptGranule, NoApt,  \* granules used for APTs; NoApt is the apt_pa of a new RD
  RegionId,           \* region identifiers
  NoRegion,
  Data, NoData,       \* data granules
  Pages,              \* IPA pages 0..Pages-1 of every realm
  RegionPages,        \* pages of a region
  MaxRegions,         \* MAX_MEM_REGIONS, for borrowed regions
  MaxShares,          \* CSM_MAX_MASTER_SHARES
  MaxTags,            \* number of tags
  Owner,              \* realms that create regions
  Borrower,           \* realms that regions are shared with
  HostOps             \* commands the host issues, beside those for realms and APTs

ASSUME CsmAssumption ==
  /\ NoPE \notin PE /\ NoRealm \notin Realm /\ NoData \notin Data /\ NoRegion \notin RegionId
  /\ NoApt \notin AptGranule /\ AptGranule \cap Realm = {}
  /\ Pages \in Nat /\ RegionPages \in 1..Pages /\ MaxRegions \in Nat \ {0}
  /\ MaxShares \in Nat /\ MaxTags \in Nat
  /\ Owner \subseteq Realm /\ Borrower \subseteq Realm
  /\ HostOps \subseteq {"data_create", "data_destroy", "realm_destroy"}

Ipa == 0..(Pages - 1)

Base == 0..(Pages - RegionPages)        \* where a region can start

Offsets == 0..(RegionPages - 1)

Slots == 1..MaxRegions

ShareSlots == 1..MaxShares

Tag == 1..MaxTags

VARIABLES
  lk,       \* holder of the lock of an RD or of an APT granule
  rd,       \* state of the realm
  aptg,     \* state of the APT granules
  apt_pa,   \* rd->apt_pa
  tag,      \* the realm's tag, 0 for none
  master,   \* master_memory of an APT, by region identifier
  slave,    \* slave_memory of an APT, by slot
  ids,      \* registered region identifiers
  s2,       \* page-level stage 2 entries
  gs,       \* state of the data granules
  pe        \* per PE: the call it runs, the step it is at, its locals

vars == <<lk, rd, aptg, apt_pa, tag, master, slave, ids, s2, gs, pe>>

realmVars == <<rd, aptg, apt_pa, tag>>

aptVars == <<realmVars, master, slave, ids>>

NoShare == [tag |-> 0, rd |-> NoRealm]

NoShares == [k \in ShareSlots |-> NoShare]

NoMaster == [ipa |-> 0, shares |-> NoShares, used |-> FALSE]

NoSlave == [rid |-> NoRegion, master |-> NoRealm, ipa |-> 0, used |-> FALSE]

EmptyMasters == [i \in RegionId |-> NoMaster]

EmptySlaves == [i \in Slots |-> NoSlave]

Idle ==
  [op |-> "none", step |-> "idle", r |-> NoRealm, peer |-> NoRealm, rid |-> NoRegion,
   ipa |-> 0, slot |-> 1, tag |-> 0, data |-> NoData, todo |-> {}]

Init ==
  /\ lk = [x \in Realm \cup AptGranule |-> NoPE]
  /\ rd = [r \in Realm |-> "NEW"]
  /\ aptg = [g \in AptGranule |-> "DELEGATED"]
  /\ apt_pa = [r \in Realm |-> NoApt]
  /\ tag = [r \in Realm |-> 0]
  /\ master = [g \in AptGranule |-> EmptyMasters]
  /\ slave = [g \in AptGranule |-> EmptySlaves]
  /\ ids = {}
  /\ s2 = [r \in Realm |-> [i \in Ipa |-> NoData]]
  /\ gs = [d \in Data |-> "DELEGATED"]
  /\ pe = [p \in PE |-> Idle]

IsIdle(p) == pe[p].op = "none"

At(p, op, step) == pe[p].op = op /\ pe[p].step = step

Return(p) == pe' = [pe EXCEPT ![p] = Idle]

\* A failed assertion: the PE stops where it is, with the locks it holds.
Panic(p, why) == pe' = [pe EXCEPT ![p].step = "panic", ![p].op = why]

\* find_lock_granule(rd->apt_pa, GRANULE_STATE_APT) succeeds.
AptLive(r) == apt_pa[r] \in AptGranule /\ aptg[apt_pa[r]] = "APT"

\* What a handler of the realm locks: its RD and, when there is one, its APT.
Locks(r) == {r} \cup {g \in AptGranule : g = apt_pa[r] /\ aptg[g] = "APT"}

Free(r) == \A x \in Locks(r) : lk[x] = NoPE

Hold(p, X) == lk' = [x \in Realm \cup AptGranule |-> IF x \in X THEN p ELSE lk[x]]

Unlock(X) == lk' = [x \in Realm \cup AptGranule |-> IF x \in X THEN NoPE ELSE lk[x]]

\* The tables of a realm's APT, as the handlers that find none see them.
Masters(r) == IF AptLive(r) THEN master[apt_pa[r]] ELSE EmptyMasters

Slaves(r) == IF AptLive(r) THEN slave[apt_pa[r]] ELSE EmptySlaves

\* A realm runs only when it has been activated.
Calls(p, r) == IsIdle(p) /\ rd[r] = "ACTIVE"

PagesFrom(b) == {b + o : o \in Offsets}

FirstSlave(r, rid) ==
  LET hits == {i \in Slots : Slaves(r)[i].used /\ Slaves(r)[i].rid = rid}
  IN  {i \in hits : \A j \in hits : i <= j}

\* apt_find_master_share_slot, and the free slot apt_master_add_share takes.
ShareOf(m, t) == {k \in ShareSlots : m.shares[k].rd # NoRealm /\ m.shares[k].tag = t}

FreeShare(m) ==
  LET free == {k \in ShareSlots : m.shares[k] = NoShare} IN {k \in free : \A l \in free : k <= l}

FreeSlave(r) ==
  LET free == {i \in Slots : ~Slaves(r)[i].used} IN {i \in free : \A j \in free : i <= j}

\* apt_find_enabled_conflict on the regions of realm r.
Conflict(r, b, skip_master_check) ==
  \/ \E i \in Slots : Slaves(r)[i].used /\ PagesFrom(b) \cap PagesFrom(Slaves(r)[i].ipa) # {}
  \/ /\ ~skip_master_check
     /\ \E i \in RegionId : Masters(r)[i].used /\ PagesFrom(b) \cap PagesFrom(Masters(r)[i].ipa) # {}

\* unmap_ipa_from_rd on the pages of a region.
Unmapped(f, pages) == [i \in Ipa |-> IF i \in pages THEN NoData ELSE f[i]]

-----------------------------------------------------------------------------
(***************************************************************************)
(* Host: realms.  REALM_DESTROY wants the RD without references (no REC,   *)
(* so no call of the realm is running) and the tables empty.  It touches   *)
(* neither the tag nor the APT nor the shares that name the realm; the RD  *)
(* of a new realm has no APT.                                              *)
(***************************************************************************)
RunsCall(p, r) ==
  pe[p].r = r /\ pe[p].op \in {"share", "reserve", "attach", "detach", "revoke", "destroy"}

smc_realm_create(p, r) ==
  /\ IsIdle(p) /\ "realm_destroy" \in HostOps
  /\ rd[r] = "none"
  /\ rd' = [rd EXCEPT ![r] = "NEW"]
  /\ UNCHANGED <<lk, aptg, apt_pa, tag, master, slave, ids, s2, gs, pe>>

smc_realm_activate(p, r) ==
  /\ IsIdle(p) /\ lk[r] = NoPE
  /\ rd[r] = "NEW"
  /\ rd' = [rd EXCEPT ![r] = "ACTIVE"]
  /\ UNCHANGED <<lk, aptg, apt_pa, tag, master, slave, ids, s2, gs, pe>>

smc_realm_destroy(p, r) ==
  /\ IsIdle(p) /\ "realm_destroy" \in HostOps /\ lk[r] = NoPE
  /\ rd[r] # "none"
  /\ \A i \in Ipa : s2[r][i] = NoData
  /\ \A q \in PE : ~RunsCall(q, r)
  /\ rd' = [rd EXCEPT ![r] = "none"]
  /\ apt_pa' = [apt_pa EXCEPT ![r] = NoApt]
  /\ UNCHANGED <<lk, aptg, tag, master, slave, ids, s2, gs, pe>>

(***************************************************************************)
(* RMI_APT_CREATE.  For a realm that is not NEW it returns an error, but   *)
(* the granule becomes an (empty) APT all the same.  A second APT of a NEW *)
(* realm replaces the first.  The result of realm_tag_assign is ignored: a *)
(* realm keeps the tag it has and stays without one when none is free.     *)
(***************************************************************************)
TagsFor(r) ==
  LET free == Tag \ {tag[q] : q \in Realm}
  IN  IF tag[r] = 0 /\ free # {} THEN free ELSE {tag[r]}

smc_apt_create(p, r, g) ==
  /\ IsIdle(p) /\ rd[r] # "none" /\ lk[r] = NoPE
  /\ aptg[g] = "DELEGATED" /\ lk[g] = NoPE
  /\ aptg' = [aptg EXCEPT ![g] = "APT"]
  /\ master' = [master EXCEPT ![g] = EmptyMasters]
  /\ slave' = [slave EXCEPT ![g] = EmptySlaves]
  /\ IF rd[r] # "NEW"
     THEN UNCHANGED <<apt_pa, tag>>
     ELSE /\ apt_pa' = [apt_pa EXCEPT ![r] = g]
          /\ \E t \in TagsFor(r) : tag' = [tag EXCEPT ![r] = t]
  /\ UNCHANGED <<lk, rd, ids, s2, gs, pe>>

(***************************************************************************)
(* RSI_CSM_CREATE: one critical section.  The APT is mapped without a test *)
(* that it was found.                                                      *)
(***************************************************************************)
handle_rsi_csm_create(p, r, b) ==
  /\ Calls(p, r) /\ Free(r)
  /\ IF ~AptLive(r)
     THEN Panic(p, "apt_null") /\ Hold(p, Locks(r)) /\ UNCHANGED <<master, ids>>
     ELSE \E rid \in RegionId \ ids :
            /\ ~Conflict(r, b, TRUE)
            /\ ids' = ids \cup {rid}
            /\ master' = [master EXCEPT ![apt_pa[r]][rid] = [ipa |-> b, shares |-> NoShares, used |-> TRUE]]
            /\ UNCHANGED <<pe, lk>>
  /\ UNCHANGED <<realmVars, slave, s2, gs>>

(***************************************************************************)
(* RSI_CSM_SHARE: the tags of caller and borrower are looked up first, the *)
(* share is entered later under the caller's locks.                        *)
(***************************************************************************)
ShareLookup(p, r, rid, s) ==
  /\ Calls(p, r)
  /\ tag[r] # 0 /\ tag[s] # 0
  /\ pe' = [pe EXCEPT ![p] = [Idle EXCEPT !.op = "share", !.step = "enter", !.r = r, !.rid = rid,
                                          !.peer = s, !.tag = tag[s]]]
  /\ UNCHANGED <<lk, aptVars, s2, gs>>

ShareEnter(p) ==
  LET r == pe[p].r
      m == Masters(r)[pe[p].rid]
  IN
  /\ At(p, "share", "enter") /\ Free(r)
  /\ IF ~AptLive(r)
     THEN Panic(p, "apt_null") /\ Hold(p, Locks(r)) /\ UNCHANGED master
     ELSE /\ Return(p) /\ UNCHANGED lk
          /\ master' = IF m.used /\ ShareOf(m, pe[p].tag) = {}
                       THEN [master EXCEPT ![apt_pa[r]][pe[p].rid].shares =
                               [k \in ShareSlots |-> IF k \in FreeShare(m)
                                                     THEN [tag |-> pe[p].tag, rd |-> pe[p].peer] ELSE m.shares[k]]]
                       ELSE master
  /\ UNCHANGED <<realmVars, slave, ids, s2, gs>>

(***************************************************************************)
(* RSI_CSM_RESERVE: tags first, then the borrower's RD and APT, then the   *)
(* owner's on top of them; the owner's RD must still be one.  An earlier   *)
(* reservation of the same region is no obstacle.  The result of           *)
(* apt_add_slave is not tested.                                            *)
(***************************************************************************)
ReserveLookup(p, r, rid, m, b) ==
  /\ Calls(p, r)
  /\ tag[r] # 0 /\ tag[m] # 0
  /\ pe' = [pe EXCEPT ![p] = [Idle EXCEPT !.op = "reserve", !.step = "lock", !.r = r, !.rid = rid,
                                          !.peer = m, !.ipa = b, !.tag = tag[r]]]
  /\ UNCHANGED <<lk, aptVars, s2, gs>>

ReserveLock(p) ==
  /\ At(p, "reserve", "lock") /\ Free(pe[p].r)
  /\ Hold(p, Locks(pe[p].r))
  /\ IF AptLive(pe[p].r)
     THEN pe' = [pe EXCEPT ![p].step = "peer"]
     ELSE Panic(p, "apt_null")
  /\ UNCHANGED <<aptVars, s2, gs>>

\* Mutant of ReserveAllowed: the regions the caller owns are skipped, as RSI_CSM_CREATE does.
ReserveAllowedSkipsMaster(r, t, rid, m, b) ==
  /\ Masters(m)[rid].used
  /\ ShareOf(Masters(m)[rid], t) # {}
  /\ ~Conflict(r, b, TRUE)

ReserveAllowed(r, t, rid, m, b) ==
  /\ Masters(m)[rid].used
  /\ ShareOf(Masters(m)[rid], t) # {}
  /\ ~Conflict(r, b, FALSE)

ReservePeer(p) ==
  LET r   == pe[p].r
      m   == pe[p].peer
      new == [rid |-> pe[p].rid, master |-> m, ipa |-> pe[p].ipa, used |-> TRUE]
      at  == IF ReserveAllowed(r, pe[p].tag, pe[p].rid, m, pe[p].ipa) THEN FreeSlave(r) ELSE {}
  IN
  /\ At(p, "reserve", "peer") /\ Free(m)
  /\ \/ rd[m] = "none" /\ Panic(p, "rd_null") /\ UNCHANGED <<lk, slave>>
     \/ rd[m] # "none" /\ ~AptLive(m) /\ Panic(p, "apt_null") /\ Hold(p, Locks(m)) /\ UNCHANGED slave
     \/ /\ rd[m] # "none" /\ AptLive(m)
        /\ Return(p) /\ Unlock(Locks(r))
        /\ slave' = [slave EXCEPT ![apt_pa[r]] = [i \in Slots |-> IF i \in at THEN new ELSE @[i]]]
  /\ UNCHANGED <<realmVars, master, ids, s2, gs>>

(***************************************************************************)
(* RSI_CSM_ATTACH: the slot is the caller's choice; neither its used bit   *)
(* nor the owner's share is tested.  Under both realms' locks the owner's  *)
(* pages are walked one by one and entered in the borrower's tables; a     *)
(* page that is not assigned RAM ends the loop.  RIPAS is the owner's      *)
(* affair: any set of pages may be RAM.  After a failed walk the code      *)
(* unlocks the table of the last good walk, which it has unlocked already. *)
(***************************************************************************)
AttachLock(p, r, i) ==
  /\ Calls(p, r) /\ Free(r)
  /\ Hold(p, Locks(r))
  /\ IF AptLive(r)
     THEN pe' = [pe EXCEPT ![p] = [Idle EXCEPT !.op = "attach", !.step = "peer", !.r = r, !.slot = i,
                                               !.peer = Slaves(r)[i].master, !.rid = Slaves(r)[i].rid]]
     ELSE Panic(p, "apt_null")
  /\ UNCHANGED <<aptVars, s2, gs>>

\* Mutant of AttachNoOwner: the way out forgets the APT.
AttachNoOwnerKeepsApt(p) ==
  /\ At(p, "attach", "peer")
  /\ pe[p].peer \in Realm => rd[pe[p].peer] = "none"
  /\ Return(p)
  /\ Unlock({pe[p].r})
  /\ UNCHANGED <<aptVars, s2, gs>>

\* The record names no owner, or one that is gone: find_lock_granule fails.
AttachNoOwner(p) ==
  /\ At(p, "attach", "peer")
  /\ pe[p].peer \in Realm => rd[pe[p].peer] = "none"
  /\ Return(p)
  /\ Unlock(Locks(pe[p].r))
  /\ UNCHANGED <<aptVars, s2, gs>>

AttachPeer(p) ==
  LET r == pe[p].r
      m == pe[p].peer
      b == Slaves(r)[pe[p].slot].ipa
  IN
  /\ At(p, "attach", "peer") /\ m \in Realm /\ rd[m] # "none" /\ Free(m)
  /\ IF ~AptLive(m)
     THEN Panic(p, "apt_null") /\ Hold(p, Locks(m)) /\ UNCHANGED s2
     ELSE IF ~Masters(m)[pe[p].rid].used
     THEN Return(p) /\ Unlock(Locks(r)) /\ UNCHANGED s2
     ELSE \E ram \in SUBSET Offsets :
            LET src(o) == s2[m][Masters(m)[pe[p].rid].ipa + o]
                good   == {o \in Offsets : \A q \in 0..o : q \in ram /\ src(q) # NoData}
            IN  /\ s2' = [s2 EXCEPT ![r] = [i \in Ipa |->
                            IF i - b \in good THEN src(i - b) ELSE s2[r][i]]]
                /\ IF good # {} /\ good # Offsets
                   THEN Panic(p, "llt_unlock") /\ Hold(p, Locks(m))
                   ELSE Return(p) /\ Unlock(Locks(r))
  /\ UNCHANGED <<aptVars, gs>>

(***************************************************************************)
(* RSI_CSM_DETACH_AND_FREE: the caller's tag first, then one critical      *)
(* section.  The owner's share stays.                                      *)
(***************************************************************************)
DetachLookup(p, r, rid) ==
  /\ Calls(p, r)
  /\ tag[r] # 0
  /\ pe' = [pe EXCEPT ![p] = [Idle EXCEPT !.op = "detach", !.step = "remove", !.r = r, !.rid = rid]]
  /\ UNCHANGED <<lk, aptVars, s2, gs>>

\* The end of detach, of revoke and of apt_destroy: the borrower r gives up its
\* first entry for the region and the pages of that entry are unmapped.  The
\* record stays readable; only apt_destroy clears it.
DropBorrowed(r, rid, clear) ==
  LET hit   == FirstSlave(r, rid)
      pages == UNION {PagesFrom(Slaves(r)[i].ipa) : i \in hit}
      left(i) == IF clear THEN NoSlave ELSE [Slaves(r)[i] EXCEPT !.used = FALSE]
  IN  /\ slave' = [g \in AptGranule |-> [i \in Slots |-> IF g = apt_pa[r] /\ i \in hit THEN left(i) ELSE slave[g][i]]]
      /\ s2' = [s2 EXCEPT ![r] = Unmapped(s2[r], pages)]

DetachRemove(p) ==
  /\ At(p, "detach", "remove") /\ Free(pe[p].r)
  /\ DropBorrowed(pe[p].r, pe[p].rid, FALSE)
  /\ Return(p)
  /\ UNCHANGED <<lk, realmVars, master, ids, gs>>

(***************************************************************************)
(* RSI_CSM_REVOKE: the caller's tag, then the share under the owner's      *)
(* locks, then the borrower's entry under the borrower's locks.            *)
(***************************************************************************)
RevokeLookup(p, r, rid, t) ==
  /\ Calls(p, r)
  /\ tag[r] # 0
  /\ pe' = [pe EXCEPT ![p] = [Idle EXCEPT !.op = "revoke", !.step = "share", !.r = r, !.rid = rid, !.tag = t]]
  /\ UNCHANGED <<lk, aptVars, s2, gs>>

RevokeShare(p) ==
  LET r == pe[p].r
      m == Masters(r)[pe[p].rid]
  IN
  /\ At(p, "revoke", "share") /\ Free(r)
  /\ IF m.used /\ ShareOf(m, pe[p].tag) # {}
     THEN \E k \in ShareOf(m, pe[p].tag) :
            /\ master' = [master EXCEPT ![apt_pa[r]][pe[p].rid].shares[k] = NoShare]
            /\ pe' = [pe EXCEPT ![p].step = "peer", ![p].peer = m.shares[k].rd]
     ELSE Return(p) /\ UNCHANGED master
  /\ UNCHANGED <<lk, realmVars, slave, ids, s2, gs>>

RevokePeer(p) ==
  /\ At(p, "revoke", "peer") /\ Free(pe[p].peer)
  /\ DropBorrowed(pe[p].peer, pe[p].rid, FALSE)
  /\ Return(p)
  /\ UNCHANGED <<lk, realmVars, master, ids, gs>>

(***************************************************************************)
(* RSI_CSM_DESTROY: refused while a share is left; the region identifier   *)
(* is released after the locks.                                            *)
(***************************************************************************)
DestroyAllowed(r, rid) == Masters(r)[rid].used /\ Masters(r)[rid].shares = NoShares

DestroyRegion(p, r, rid) ==
  /\ Calls(p, r) /\ Free(r)
  /\ DestroyAllowed(r, rid)
  /\ master' = [master EXCEPT ![apt_pa[r]][rid] = NoMaster]
  /\ pe' = [pe EXCEPT ![p] = [Idle EXCEPT !.op = "destroy", !.step = "id", !.r = r, !.rid = rid]]
  /\ UNCHANGED <<lk, realmVars, slave, ids, s2, gs>>

DestroyId(p) ==
  /\ At(p, "destroy", "id")
  /\ ids' = ids \ {pe[p].rid}
  /\ Return(p)
  /\ UNCHANGED <<lk, realmVars, master, slave, s2, gs>>

(***************************************************************************)
(* RMI_APT_DESTROY.  Phase 1 under the realm's own locks: the tag goes,    *)
(* borrowed regions are unmapped and forgotten, owned regions and their    *)
(* identifiers are released, the granule becomes DELEGATED again and may   *)
(* be any realm's next APT.  rd->apt_pa is not cleared.  Phase 2 visits    *)
(* the peers one at a time with no lock held on entry, the owners before   *)
(* the borrowers; a peer that is gone, or has no APT, is passed over.      *)
(***************************************************************************)
OwnerVisits(r) ==
  {[kind |-> "owner", peer |-> Slaves(r)[i].master, rid |-> Slaves(r)[i].rid, tag |-> 0, off |-> i] :
     i \in {j \in Slots : Slaves(r)[j].used}}

SharesIn(m) == {m.shares[k] : k \in {l \in ShareSlots : m.shares[l] # NoShare}}

\* The identifiers of the regions in an APT.
RegionsIn(g) == {i \in RegionId : master[g][i].used}

OwnRegions(r) == {i \in RegionId : Masters(r)[i].used}

BorrowerVisits(r) ==
  UNION {{[kind |-> "borrower", peer |-> h.rd, rid |-> i, tag |-> h.tag, off |-> 0] : h \in SharesIn(Masters(r)[i])} :
           i \in OwnRegions(r)}

BorrowedPages(r) == UNION {PagesFrom(Slaves(r)[i].ipa) : i \in {j \in Slots : Slaves(r)[j].used}}

\* Mutant of AptDestroyLocal: csm_region_id_remove is left out.
AptDestroyLocalKeepsIds(p, r) ==
  /\ IsIdle(p) /\ Free(r) /\ rd[r] # "none" /\ AptLive(r)
  /\ tag' = [tag EXCEPT ![r] = 0]
  /\ aptg' = [aptg EXCEPT ![apt_pa[r]] = "DELEGATED"]
  /\ master' = [master EXCEPT ![apt_pa[r]] = EmptyMasters]
  /\ slave' = [slave EXCEPT ![apt_pa[r]] = EmptySlaves]
  /\ s2' = [s2 EXCEPT ![r] = Unmapped(s2[r], BorrowedPages(r))]
  /\ pe' = [pe EXCEPT ![p] = [Idle EXCEPT !.op = "apt_destroy", !.step = "peers", !.r = r,
                                          !.todo = OwnerVisits(r) \cup BorrowerVisits(r)]]
  /\ UNCHANGED <<lk, rd, apt_pa, ids, gs>>

AptDestroyLocal(p, r) ==
  /\ IsIdle(p) /\ Free(r) /\ rd[r] # "none"
  /\ tag' = [tag EXCEPT ![r] = 0]
  /\ IF ~AptLive(r)
     THEN Panic(p, "apt_destroy") /\ Hold(p, Locks(r)) /\ UNCHANGED <<aptg, master, slave, ids, s2>>
     ELSE /\ aptg' = [aptg EXCEPT ![apt_pa[r]] = "DELEGATED"]
          /\ master' = [master EXCEPT ![apt_pa[r]] = EmptyMasters]
          /\ slave' = [slave EXCEPT ![apt_pa[r]] = EmptySlaves]
          /\ ids' = ids \ OwnRegions(r)
          /\ s2' = [s2 EXCEPT ![r] = Unmapped(s2[r], BorrowedPages(r))]
          /\ pe' = [pe EXCEPT ![p] = [Idle EXCEPT !.op = "apt_destroy", !.step = "peers", !.r = r,
                                                  !.todo = OwnerVisits(r) \cup BorrowerVisits(r)]]
          /\ UNCHANGED lk
  /\ UNCHANGED <<rd, apt_pa, gs>>

AptDestroyOwner(p) ==
  \E v \in pe[p].todo :
    /\ At(p, "apt_destroy", "peers") /\ v.kind = "owner" /\ Free(v.peer)
    /\ LET m    == Masters(v.peer)[v.rid]
           hits == {k \in ShareSlots : m.shares[k].rd = pe[p].r}
       IN  master' = IF m.used
                     THEN [master EXCEPT ![apt_pa[v.peer]][v.rid].shares =
                             [k \in ShareSlots |-> IF k \in hits /\ \A l \in hits : k <= l THEN NoShare ELSE m.shares[k]]]
                     ELSE master
    /\ pe' = [pe EXCEPT ![p].todo = @ \ {v}]
    /\ UNCHANGED <<lk, realmVars, slave, ids, s2, gs>>

AptDestroyBorrower(p) ==
  \E v \in pe[p].todo :
    /\ At(p, "apt_destroy", "peers") /\ v.kind = "borrower" /\ Free(v.peer)
    /\ \A w \in pe[p].todo : w.kind = "borrower"
    /\ DropBorrowed(v.peer, v.rid, TRUE)
    /\ pe' = [pe EXCEPT ![p].todo = @ \ {v}]
    /\ UNCHANGED <<lk, realmVars, master, ids, gs>>

AptDestroyDone(p) ==
  /\ At(p, "apt_destroy", "peers")
  /\ pe[p].todo = {}
  /\ Return(p)
  /\ UNCHANGED <<lk, aptVars, s2, gs>>

-----------------------------------------------------------------------------
(***************************************************************************)
(* RMI_DATA_CREATE and RMI_DATA_CREATE_UNKNOWN: the page is entered in one *)
(* critical section; the propagation to the sharing realms is another one, *)
(* after all locks have been given back.                                   *)
(***************************************************************************)
data_create(p, r, i, d) ==
  /\ IsIdle(p) /\ "data_create" \in HostOps /\ rd[r] # "none" /\ lk[r] = NoPE
  /\ gs[d] = "DELEGATED"
  /\ s2[r][i] = NoData
  /\ gs' = [gs EXCEPT ![d] = "DATA"]
  /\ s2' = [s2 EXCEPT ![r][i] = d]
  /\ pe' = [pe EXCEPT ![p] = [Idle EXCEPT !.op = "propagate", !.step = "lock", !.r = r, !.ipa = i, !.data = d]]
  /\ UNCHANGED <<lk, aptVars>>

(***************************************************************************)
(* RMI_DATA_DESTROY: the entry goes and the granule it names becomes       *)
(* DELEGATED, whoever created it; the peers follow afterwards.  The RD is  *)
(* given back before the walk, so its lock does not guard this step.       *)
(***************************************************************************)
smc_data_destroy(p, r, i) ==
  LET d == s2[r][i] IN
  /\ IsIdle(p) /\ "data_destroy" \in HostOps
  /\ d # NoData
  /\ s2' = [s2 EXCEPT ![r][i] = NoData]
  /\ IF gs[d] # "DATA"
     THEN Panic(p, "data_state") /\ UNCHANGED gs
     ELSE /\ gs' = [gs EXCEPT ![d] = "DELEGATED"]
          /\ pe' = [pe EXCEPT ![p] = [Idle EXCEPT !.op = "propagate", !.step = "lock", !.r = r, !.ipa = i]]
  /\ UNCHANGED <<lk, aptVars>>

\* The peers that csm_propagate_create and csm_propagate_destroy visit for page i of
\* realm r: the borrowers of a region that has the page, and the owner of one.
BorrowersOf(r, rid, i) ==
  {[kind |-> "borrower", peer |-> h.rd, rid |-> rid, tag |-> h.tag, off |-> i - Masters(r)[rid].ipa] :
     h \in SharesIn(Masters(r)[rid])}

OwnerOf(r, j, i) ==
  [kind |-> "owner", peer |-> Slaves(r)[j].master, rid |-> Slaves(r)[j].rid, tag |-> 0,
   off |-> i - Slaves(r)[j].ipa]

\* The code's loops stop at the first region that has the page.
AtMostOne(S) == IF S = {} THEN {{}} ELSE {{x} : x \in S}

\* A realm that is gone, or has no APT, has no peers to visit.
PropagateLock(p) ==
  LET r     == pe[p].r
      i     == pe[p].ipa
      owned == {g \in OwnRegions(r) : i \in PagesFrom(Masters(r)[g].ipa)}
      lent  == {j \in Slots : Slaves(r)[j].used /\ i \in PagesFrom(Slaves(r)[j].ipa)}
  IN
  /\ At(p, "propagate", "lock") /\ Free(r)
  /\ \E G \in AtMostOne(owned), J \in AtMostOne(lent) :
       LET todo == (UNION {BorrowersOf(r, g, i) : g \in G}) \cup {OwnerOf(r, j, i) : j \in J} IN
       IF todo = {} THEN Return(p) /\ UNCHANGED lk
       ELSE Hold(p, Locks(r)) /\ pe' = [pe EXCEPT ![p].step = "peers", ![p].todo = todo]
  /\ UNCHANGED <<aptVars, s2, gs>>

\* The page of the peer that the region puts at this offset.
PeerPages(v) ==
  IF v.kind = "owner"
  THEN {Masters(v.peer)[v.rid].ipa + v.off : x \in {v.rid} \cap OwnRegions(v.peer)}
  ELSE {Slaves(v.peer)[j].ipa + v.off : j \in FirstSlave(v.peer, v.rid)}

\* One peer: its RD and APT on top of the caller's, then map_ipa_to_pa (which
\* overwrites what is there) or unmap_ipa_from_rd.
PropagatePeer(p) ==
  \E v \in pe[p].todo :
    /\ At(p, "propagate", "peers") /\ Free(v.peer)
    /\ s2' = [s2 EXCEPT ![v.peer] = [i \in Ipa |-> IF i \in PeerPages(v) THEN pe[p].data ELSE s2[v.peer][i]]]
    /\ pe' = [pe EXCEPT ![p].todo = @ \ {v}]
    /\ UNCHANGED <<lk, aptVars, gs>>

PropagateDone(p) ==
  /\ At(p, "propagate", "peers")
  /\ pe[p].todo = {}
  /\ Unlock(Locks(pe[p].r))
  /\ Return(p)
  /\ UNCHANGED <<aptVars, s2, gs>>

-----------------------------------------------------------------------------
OwnerCall(p) ==
  \E r \in Owner, rid \in RegionId :
    \/ \E b \in Base : handle_rsi_csm_create(p, r, b)
    \/ \E s \in Borrower : ShareLookup(p, r, rid, s)
    \/ \E t \in Tag : RevokeLookup(p, r, rid, t)
    \/ DestroyRegion(p, r, rid)

BorrowerCall(p) ==
  \E r \in Borrower :
    \/ \E rid \in RegionId, m \in Owner, b \in Base : ReserveLookup(p, r, rid, m, b)
    \/ \E i \in Slots : AttachLock(p, r, i)
    \/ \E rid \in RegionId : DetachLookup(p, r, rid)

HostCommand(p) ==
  \E r \in Realm :
    \/ smc_realm_create(p, r)
    \/ smc_realm_activate(p, r)
    \/ smc_realm_destroy(p, r)
    \/ \E g \in AptGranule : smc_apt_create(p, r, g)
    \/ AptDestroyLocal(p, r)
    \/ \E i \in Ipa, d \in Data : data_create(p, r, i, d)
    \/ \E i \in Ipa : smc_data_destroy(p, r, i)

Continue(p) ==
  \/ ShareEnter(p)
  \/ ReserveLock(p) \/ ReservePeer(p)
  \/ AttachNoOwner(p) \/ AttachPeer(p)
  \/ DetachRemove(p)
  \/ RevokeShare(p) \/ RevokePeer(p)
  \/ DestroyId(p)
  \/ AptDestroyOwner(p) \/ AptDestroyBorrower(p) \/ AptDestroyDone(p)
  \/ PropagateLock(p) \/ PropagatePeer(p) \/ PropagateDone(p)

Next == \E p \in PE : OwnerCall(p) \/ BorrowerCall(p) \/ HostCommand(p) \/ Continue(p)

Spec == Init /\ [][Next]_vars

-----------------------------------------------------------------------------
Visits == [kind : {"owner", "borrower"}, peer : Realm, rid : RegionId, tag : 0..MaxTags, off : Nat]

\* The types of the state.
TypeOK ==
  /\ lk \in [Realm \cup AptGranule -> PE \cup {NoPE}]
  /\ rd \in [Realm -> {"none", "NEW", "ACTIVE"}]
  /\ aptg \in [AptGranule -> {"DELEGATED", "APT"}]
  /\ apt_pa \in [Realm -> AptGranule \cup {NoApt}]
  /\ tag \in [Realm -> 0..MaxTags]
  /\ master \in [AptGranule -> [RegionId -> [ipa : Base, used : BOOLEAN,
                 shares : [ShareSlots -> [tag : Tag, rd : Realm] \cup {NoShare}]]]]
  /\ slave \in [AptGranule -> [Slots -> [rid : RegionId \cup {NoRegion}, master : Realm \cup {NoRealm},
                                         ipa : Base, used : BOOLEAN]]]
  /\ ids \subseteq RegionId
  /\ s2 \in [Realm -> [Ipa -> Data \cup {NoData}]]
  /\ gs \in [Data -> {"DELEGATED", "DATA"}]
  /\ \A p \in PE : pe[p].todo \subseteq Visits

(***************************************************************************)
(* The registry holds exactly the identifiers of the regions in the APTs   *)
(* and of regions a destroy has just removed, and no two APTs hold the     *)
(* same identifier: through races, APTs that change hands and APTs that a  *)
(* destroyed realm leaves behind.                                          *)
(***************************************************************************)
RegionIdsExact ==
  /\ ids = (UNION {RegionsIn(g) : g \in AptGranule}) \cup {pe[p].rid : p \in {q \in PE : At(q, "destroy", "id")}}
  /\ \A g, h \in AptGranule : g # h => RegionsIn(g) \cap RegionsIn(h) = {}

(***************************************************************************)
(* "map_addr is in exactly one slave region": in every APT a borrowed      *)
(* region shares no page with another borrowed region nor with an owned    *)
(* one, although RSI_CSM_CREATE and RSI_CSM_RESERVE test for conflicts     *)
(* independently and a realm runs both at once.  (Two owned regions may    *)
(* overlap.)                                                               *)
(***************************************************************************)
BorrowedRegionsDisjoint ==
  \A g \in AptGranule, i \in Slots :
    slave[g][i].used =>
      /\ \A j \in Slots \ {i} :
           slave[g][j].used => PagesFrom(slave[g][i].ipa) \cap PagesFrom(slave[g][j].ipa) = {}
      /\ \A rid \in RegionsIn(g) : PagesFrom(slave[g][i].ipa) \cap PagesFrom(master[g][rid].ipa) = {}

(***************************************************************************)
(* A PE holds the RD and the APT of its realm while it looks for those of  *)
(* a peer, and at no other point between two steps holds any lock: no way  *)
(* out of a handler keeps one, and phase 2 of RMI_APT_DESTROY holds        *)
(* "nothing they could be waiting for".  A failed assertion keeps what it  *)
(* had.                                                                    *)
(***************************************************************************)
Held(p) ==
  IF (pe[p].op \in {"reserve", "attach"} /\ pe[p].step = "peer") \/ At(p, "propagate", "peers")
  THEN Locks(pe[p].r) ELSE {}

LocksExact == \A p \in PE : pe[p].step # "panic" => {x \in Realm \cup AptGranule : lk[x] = p} = Held(p)

(***************************************************************************)
(* Isolation: two realms map the same granule only while an owner shares a *)
(* region with both (or is one of the two), or while a revocation that has *)
(* begun is still to reach the borrower.  RSI_CSM_REVOKE "removes the      *)
(* slave's APT entry for this region, and forcibly unmaps the slave's RTT  *)
(* pages".                                                                 *)
(***************************************************************************)
Cleaning(r) ==
  \E p \in PE :
    \/ At(p, "revoke", "peer") /\ pe[p].peer = r
    \/ pe[p].op = "apt_destroy" /\ \E v \in pe[p].todo : v.kind = "borrower" /\ v.peer = r

Sharers(m, rid) == {m} \cup {h.rd : h \in SharesIn(Masters(m)[rid])}

SharedPagesJustified ==
  \A r, q \in Realm : \A i, j \in Ipa :
    (r # q /\ s2[r][i] # NoData /\ s2[r][i] = s2[q][j]) =>
      \/ \E m \in Realm : \E rid \in OwnRegions(m) : {r, q} \subseteq Sharers(m, rid)
      \/ Cleaning(r) \/ Cleaning(q)

(***************************************************************************)
(* After a data_destroy and its propagation no realm maps the granule that *)
(* went back to the host: "remove the corresponding page-level mapping     *)
(* from every other sharing realm".                                        *)
(***************************************************************************)
NoDanglingWhenIdle ==
  (\A p \in PE : IsIdle(p)) =>
    \A r \in Realm, i \in Ipa : s2[r][i] # NoData => gs[s2[r][i]] = "DATA"

(***************************************************************************)
(* No two PEs wait for each other's locks.  Two PEs that hold one realm    *)
(* and spin on another take them in opposite orders in the handlers of the *)
(* borrower and in the propagation from the owner.                         *)
(***************************************************************************)
Blocks(q, r) == \E x \in Locks(r) : lk[x] = q

WaitsFor(p, q) ==
  \/ /\ pe[p].op \in {"reserve", "attach"} /\ pe[p].step = "peer"
     /\ pe[p].peer # NoRealm /\ Blocks(q, pe[p].peer)
  \/ /\ At(p, "propagate", "peers") /\ pe[p].todo # {}
     /\ \A v \in pe[p].todo : Blocks(q, v.peer)

NoCircularWait == \A p, q \in PE : p # q => ~(WaitsFor(p, q) /\ WaitsFor(q, p))
=============================================================================
