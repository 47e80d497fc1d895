-------------------------------- MODULE Rmm --------------------------------
(***************************************************************************)
(* The object life cycle of the RMM: every PE may run any command, and     *)
(* their steps interleave.                                                 *)
(***************************************************************************)
EXTENDS RttTable

CONSTANT
  InitiallyDelegated   \* granules the host has delegated before the behaviour starts

ASSUME InitiallyDelegatedAssumption == InitiallyDelegated \subseteq Granules

Init ==
  /\ gs = [g \in Granules |-> IF g \in InitiallyDelegated THEN "DELEGATED" ELSE "NS"]
  /\ ref = [g \in Granules |-> 0]
  /\ lk = [g \in Granules |-> NoPE]
  /\ mem = [g \in Granules |-> IF g \in InitiallyDelegated THEN Zero ELSE HostOwned]
  /\ gpt = [g \in Granules |-> IF g \in InitiallyDelegated THEN "realm" ELSE "ns"]
  /\ vmids = {}
  /\ pe = [p \in PE |-> Idle]

Command(p) ==
  \/ \E g \in Granules : smc_granule_delegate(p, g)
  \/ \E g \in Granules : smc_granule_undelegate(p, g)
  \/ smc_realm_create(p)
  \/ \E rd \in Granules : smc_realm_activate(p, rd)
  \/ smc_realm_destroy(p)
  \/ smc_rec_create(p)
  \/ smc_rec_destroy(p)
  \/ smc_rec_enter(p)
  \/ smc_rtt_create(p)
  \/ smc_rtt_destroy(p)

El3 == \E g \in Granules : SpmTakesGranule(g) \/ SpmReturnsGranule(g)

Next == El3 \/ \E p \in PE : Command(p)

Spec == Init /\ [][Next]_vars

-----------------------------------------------------------------------------
Content ==
  {Zero, HostOwned, AuxMem}
  \cup [kind : {"rd"}, state : RealmStates, rec_count : Nat, vmid : Vmid,
        g_rtt : Granules, num_root_rtts : Nat \ {0}]
  \cup [kind : {"rec"}, g_rd : Granules, rec_idx : Nat, g_aux : AuxList,
        num_aux : 0..MaxRecAux, runnable : BOOLEAN]
  \cup [kind : {"rtt"}, tables : SUBSET Granules]

TypeOK ==
  /\ gs \in [Granules -> GranuleStates]
  /\ ref \in [Granules -> Nat]
  /\ lk \in [Granules -> PE \cup {NoPE}]
  /\ mem \in [Granules -> Content]
  /\ gpt \in [Granules -> {"ns", "secure", "realm"}]
  /\ vmids \subseteq Vmid

(***************************************************************************)
(* A granule's content is what its state says: a DELEGATED granule nobody  *)
(* holds is zero-filled (init_rec_regs relies on it), an RD is a realm     *)
(* descriptor and so on.  Violated by a free that does not scrub.          *)
(***************************************************************************)
ContentMatchesState ==
  \A g \in Granules : Unlocked(g) =>
    CASE gs[g] = "DELEGATED" -> mem[g] = Zero
      [] gs[g] = "RD"        -> mem[g].kind = "rd"
      [] gs[g] = "REC"       -> mem[g].kind = "rec"
      [] gs[g] = "RTT"       -> mem[g].kind = "rtt"
      [] gs[g] = "REC_AUX"   -> mem[g] \in {AuxMem, Zero}
      [] gs[g] = "NS"        -> mem[g] = HostOwned

Rds == {g \in Granules : gs[g] = "RD"}

RecsOf(rd) == {g \in Granules : gs[g] = "REC" /\ mem[g].g_rd = rd}

Putting(rd) == {p \in PE : At(p, "rec_destroy", "put") /\ pe[p].rd = rd}

Running(rec) == {p \in PE : pe[p].op = "rec_enter" /\ pe[p].new = rec}

(***************************************************************************)
(* Reference counts are exact.  An RD has one reference per REC plus one   *)
(* per RMI_REC_DESTROY between the REC's unlock and its lock-free put (the *)
(* transient over-estimate of rec.c); a REC has one per PE that runs it,   *)
(* so at most one; a root table one per table below it; the other states   *)
(* none.                                                                   *)
(***************************************************************************)
RefcountsExact ==
  \A g \in Granules :
    ref[g] = CASE gs[g] = "RD"  -> Cardinality(RecsOf(g)) + Cardinality(Putting(g))
               [] gs[g] = "REC" -> Cardinality(Running(g))
               [] gs[g] = "RTT" -> Cardinality(mem[g].tables)
               [] OTHER         -> 0

(***************************************************************************)
(* No reference count leaves its 10-bit field, even while puts are pending *)
(* (the REFCOUNT_MAX test of smc_rec_create).                              *)
(***************************************************************************)
RefcountFits == \A g \in Granules : ref[g] <= RefcountMax

(***************************************************************************)
(* While a PE runs a REC, with no lock held, the REC, its auxiliary        *)
(* granules and its realm descriptor exist and belong together: no command *)
(* of another PE takes them away (smc_rec_enter reads all three).          *)
(***************************************************************************)
RunningRecIntact ==
  \A p \in PE : pe[p].op = "rec_enter" =>
    LET rec == mem[pe[p].new] IN
    /\ gs[pe[p].new] = "REC"
    /\ rec.kind = "rec"
    /\ gs[rec.g_rd] = "RD" /\ mem[rec.g_rd].kind = "rd"
    /\ \A g \in AuxOf(rec.g_aux, rec.num_aux) : gs[g] = "REC_AUX" /\ mem[g] = AuxMem

(***************************************************************************)
(* granule_lock asserts that the granule has the expected state: whenever  *)
(* a PE is about to lock a granule it reached through an object, and the   *)
(* lock is free, the state is right.                                       *)
(***************************************************************************)
GranuleLockAsserts ==
  \A p \in PE :
    LET root == pe[p].root + pe[p].i IN
    /\ (At(p, "realm_destroy", "count") \/ At(p, "realm_destroy", "free_rtts")) =>
         (Unlocked(root) => gs[root] = "RTT")
    /\ At(p, "rtt_destroy", "lock_root") =>
         (Unlocked(pe[p].root) => gs[pe[p].root] = "RTT")
    /\ At(p, "rtt_create", "locked") =>
         LET g == mem[pe[p].rd].g_rtt IN Unlocked(g) => gs[g] = "RTT"
    /\ (pe[p].step = "walk" /\ pe[p].i # 0) => (Unlocked(root) => gs[root] = "RTT")
    /\ At(p, "rec_destroy", "aux") =>
         LET g == pe[p].aux[pe[p].i + 1] IN Unlocked(g) => gs[g] = "REC_AUX"
    /\ (At(p, "rec_create", "failed") /\ pe[p].i < pe[p].naux) =>
         LET g == pe[p].aux[pe[p].i + 1] IN Unlocked(g) => gs[g] = "REC_AUX"

(***************************************************************************)
(* Every realm has a VMID no other realm has, and the reserved VMIDs are   *)
(* those of the realms and of the commands that build or refuse one: none  *)
(* is leaked on an error path and none is free while a realm can still use *)
(* it.                                                                     *)
(***************************************************************************)
VmidsExact ==
  LET Dying(g)   == \E p \in PE : /\ pe[p].op = "realm_destroy" /\ pe[p].rd = g
                                  /\ pe[p].step \in {"free_rtts", "free_rd"}
      Live       == {g \in Rds : ~Dying(g)}
      Building   == {p \in PE : pe[p].op = "realm_create" /\ pe[p].step # "unlock_rtts"}
  IN  /\ \A g, h \in Live : mem[g].vmid = mem[h].vmid => g = h
      /\ \A p, q \in Building : pe[p].vmid = pe[q].vmid => p = q
      /\ \A g \in Live, p \in Building : mem[g].vmid # pe[p].vmid
      /\ vmids = {mem[g].vmid : g \in Live} \cup {pe[p].vmid : p \in Building}

(***************************************************************************)
(* EL3's protection table agrees with the granule states: what the RMM     *)
(* uses is in the Realm world and what it calls NS is not.                 *)
(***************************************************************************)
GptAgrees == \A g \in Granules : gpt[g] = "realm" <=> gs[g] # "NS"

(***************************************************************************)
(* RECs of one realm have different indices below the RD's rec_count: the  *)
(* MPIDR of a REC names it.                                                *)
(***************************************************************************)
RecIndicesUnique ==
  \A rd \in Rds :
    /\ \A r, t \in RecsOf(rd) : mem[r].rec_idx = mem[t].rec_idx => r = t
    /\ \A r \in RecsOf(rd) : mem[r].rec_idx < mem[rd].rec_count

(***************************************************************************)
(* Whether a command with locals e may hold the lock of granule g.         *)
(***************************************************************************)
MayHold(e, g) ==
  \/ /\ e.op = "realm_create" /\ e.step = "lock"
     /\ \E k \in 0..(e.i - 1) : g = NthToLock(e.rd, e.root, e.num, k)
  \/ /\ e.op = "realm_create" /\ e.step = "init"
     /\ g = e.rd \/ g \in RootRtts(e.root, e.num)
  \/ /\ e.op = "realm_create" /\ e.step = "unlock_rtts"
     /\ g \in (e.root + e.i)..(e.root + e.num - 1)
  \/ e.op = "realm_destroy" /\ g = e.rd
  \/ e.op = "rec_destroy" /\ e.step # "put" /\ g = e.new
  \/ e.op \in {"rec_create", "rtt_create"} /\ e.step = "lock2" /\ g = Min2(e.rd, e.new)
  \/ e.op \in {"rec_create", "rtt_create"} /\ e.step = "locked" /\ g \in {e.rd, e.new}
  \/ e.op = "rtt_create" /\ e.step \in {"walk", "at_parent"} /\ g \in {e.new, e.root}
  \/ e.op = "rtt_destroy" /\ e.step = "lock_root" /\ g = e.rd
  \/ e.op = "rtt_destroy" /\ e.step \in {"walk", "at_parent"} /\ g = e.root

(***************************************************************************)
(* No lock is left behind: whatever a PE holds is a lock its current step  *)
(* accounts for, so a command that returns, by success or by any of its    *)
(* error paths, has given back every lock it took.                         *)
(***************************************************************************)
LocksAccounted == \A p \in PE, g \in Granules : lk[g] = p => MayHold(pe[p], g)

(***************************************************************************)
(* The granule a PE is spinning on, if any.                                *)
(***************************************************************************)
Wants(p) ==
  LET e == pe[p] IN
  CASE e.op = "none" -> {}
    [] e.step = "lock1" /\ e.rd # e.new -> {FirstToLock(p)}
    [] e.step = "lock2" -> {SecondToLock(p)}
    [] e.step = "lock" -> {NthToLock(e.rd, e.root, e.num, e.i)}
    [] e.step \in {"count", "free_rtts"} -> {e.root + e.i}
    [] e.step = "lock_root" -> {e.root}
    [] e.step = "walk" /\ e.i # 0 -> {e.root + e.i}
    [] At(p, "rtt_create", "locked") /\ e.i < mem[e.rd].num_root_rtts -> {mem[e.rd].g_rtt}
    [] e.step = "aux" -> {e.aux[e.i + 1]}
    [] At(p, "rec_create", "failed") /\ e.i < e.naux -> {e.aux[e.i + 1]}
    [] OTHER -> {}

WaitsFor(p, q) == \E g \in Wants(p) : lk[g] = q

(***************************************************************************)
(* No deadlock: every set of PEs has a member that waits for no other      *)
(* member.  This is what the address order of external granules and the    *)
(* order RD, RTT, table are for (granule_types.h).                         *)
(***************************************************************************)
NoCircularWait ==
  \A S \in SUBSET PE : S # {} => \E p \in S : \A q \in S : ~WaitsFor(p, q)

(***************************************************************************)
(* Only the holder of a granule's lock changes the granule's state, and a  *)
(* state changes only while nothing refers to the granule.                 *)
(***************************************************************************)
StateChangesOwned ==
  [][\A g \in Granules : gs'[g] # gs[g] =>
       /\ ref[g] = 0 /\ ref'[g] = 0
       /\ lk[g] # NoPE => pe'[lk[g]] # pe[lk[g]]]_vars

(***************************************************************************)
(* granule_unlock "must be called with granule lock held" (granule.h): the *)
(* auxiliary granules smc_rec_create unlocks on its error path are locked  *)
(* by the calling PE.                                                      *)
(***************************************************************************)
UnlockedAuxWereHeld ==
  [][\A p \in PE : (At(p, "rec_create", "aux") /\ pe'[p].step = "failed") =>
       \A g \in AuxOf(pe[p].aux, pe[p].i) : lk[g] = p]_vars
=============================================================================
