------------------------------- MODULE Realm -------------------------------
(***************************************************************************)
(* Realm creation, activation and destruction (runtime/rmi/realm.c) and    *)
(* the reservation of VMIDs (lib/arch/src/vmid.c).                         *)
(***************************************************************************)
EXTENDS Granule

CONSTANTS
  RealmParams     \* the parameters a host may pass: records [rd, base, num, vmid]

ASSUME RealmParamsAssumption ==
  RealmParams \subseteq [rd : Granules, base : Granules, num : Nat \ {0}, vmid : Vmid]

ASSUME RootsFitAssumption ==
  \A rp \in RealmParams : rp.base + rp.num - 1 <= NumGranules

RootRtts(base, num) == base..(base + num - 1)

\* Mutant of NthToLock: the RD is always locked last.
NthToLockRdLast(rd, base, num, i) == IF i = num THEN rd ELSE base + i

(***************************************************************************)
(* find_lock_rd_granules: the RD and the starting-level tables, all        *)
(* expected to be DELEGATED, in address order.  The i-th granule, from 0.  *)
(***************************************************************************)
NthToLock(rd, base, num, i) ==
  IF rd < base THEN (IF i = 0 THEN rd ELSE base + i - 1)
               ELSE (IF i = num THEN rd ELSE base + i)

(***************************************************************************)
(* smc_realm_create, first part: the parameters are read and validated;    *)
(* the VMID is reserved last.  A VMID in use ends the command.             *)
(***************************************************************************)
RealmCreateReserve(p, rp) ==
  /\ IsIdle(p)
  /\ rp.vmid \notin vmids
  /\ vmids' = vmids \cup {rp.vmid}
  /\ pe' = [pe EXCEPT ![p] =
              [Idle EXCEPT !.op = "realm_create",
                           !.step = IF rp.rd \in RootRtts(rp.base, rp.num)
                                    THEN "failed" ELSE "lock",
                           !.rd = rp.rd, !.root = rp.base, !.num = rp.num,
                           !.vmid = rp.vmid]]
  /\ UNCHANGED <<gs, ref, lk, mem, gpt>>

\* The next granule of find_lock_rd_granules; on a mismatch every lock is given back.
RealmCreateLock(p) ==
  LET g == NthToLock(pe[p].rd, pe[p].root, pe[p].num, pe[p].i) IN
  /\ At(p, "realm_create", "lock")
  /\ Unlocked(g)
  /\ IF gs[g] = "DELEGATED"
     THEN /\ lk' = [lk EXCEPT ![g] = p]
          /\ pe' = [pe EXCEPT ![p].step = IF pe[p].i = pe[p].num THEN "init" ELSE "lock",
                              ![p].i = IF pe[p].i = pe[p].num THEN 0 ELSE pe[p].i + 1]
     ELSE /\ lk' = [h \in Granules |-> IF lk[h] = p THEN NoPE ELSE lk[h]]
          /\ Goto(p, "failed")
  /\ UNCHANGED <<gs, ref, mem, gpt, vmids>>

\* Mutant of RealmCreateFailed: the early return forgets the reserved VMID.
RealmCreateFailedLeak(p) ==
  /\ At(p, "realm_create", "failed")
  /\ Return(p)
  /\ UNCHANGED <<gs, ref, lk, mem, gpt, vmids>>

\* The two error paths after the reservation: vmid_free, then return.
RealmCreateFailed(p) ==
  /\ At(p, "realm_create", "failed")
  /\ vmids' = vmids \ {pe[p].vmid}
  /\ Return(p)
  /\ UNCHANGED <<gs, ref, lk, mem, gpt>>

\* Mutant of RealmCreateInit: the tables are unlocked before their state is set.
RealmCreateInitEarlyUnlock(p) ==
  LET rd == pe[p].rd IN
  /\ At(p, "realm_create", "init")
  /\ mem' = [g \in Granules |->
               IF g = rd THEN RdMem("NEW", 0, pe[p].vmid, pe[p].root, pe[p].num)
               ELSE IF g \in RootRtts(pe[p].root, pe[p].num) THEN RttMem({})
               ELSE mem[g]]
  /\ gs' = [gs EXCEPT ![rd] = "RD"]
  /\ lk' = [g \in Granules |-> IF lk[g] = p THEN NoPE ELSE lk[g]]
  /\ Goto(p, "unlock_rtts")
  /\ UNCHANGED <<ref, gpt, vmids>>

(***************************************************************************)
(* The RD and the starting-level tables are filled in under all locks;     *)
(* then the RD, and after it the tables one by one, change state and are   *)
(* unlocked.                                                               *)
(***************************************************************************)
RealmCreateInit(p) ==
  LET rd == pe[p].rd IN
  /\ At(p, "realm_create", "init")
  /\ mem' = [g \in Granules |->
               IF g = rd THEN RdMem("NEW", 0, pe[p].vmid, pe[p].root, pe[p].num)
               ELSE IF g \in RootRtts(pe[p].root, pe[p].num) THEN RttMem({})
               ELSE mem[g]]
  /\ gs' = [gs EXCEPT ![rd] = "RD"]
  /\ lk' = [lk EXCEPT ![rd] = NoPE]
  /\ Goto(p, "unlock_rtts")
  /\ UNCHANGED <<ref, gpt, vmids>>

RealmCreateUnlockRtt(p) ==
  LET g == pe[p].root + pe[p].i IN
  /\ At(p, "realm_create", "unlock_rtts")
  /\ gs' = [gs EXCEPT ![g] = "RTT"]
  /\ lk' = [lk EXCEPT ![g] = NoPE]
  /\ IF pe[p].i + 1 = pe[p].num THEN Return(p) ELSE pe' = [pe EXCEPT ![p].i = @ + 1]
  /\ UNCHANGED <<ref, mem, gpt, vmids>>

smc_realm_create(p) ==
  \/ \E rp \in RealmParams : RealmCreateReserve(p, rp)
  \/ RealmCreateLock(p)
  \/ RealmCreateFailed(p)
  \/ RealmCreateInit(p)
  \/ RealmCreateUnlockRtt(p)

smc_realm_activate(p, rd) ==
  /\ IsIdle(p) /\ Unlocked(rd)
  /\ gs[rd] = "RD"
  /\ mem[rd].state = "NEW"
  /\ mem' = [mem EXCEPT ![rd].state = "ACTIVE"]
  /\ UNCHANGED <<gs, ref, lk, gpt, vmids, pe>>

(***************************************************************************)
(* smc_realm_destroy.  find_lock_unused_granule refuses an RD with a       *)
(* reference; the root tables are then locked and counted one at a time.   *)
(***************************************************************************)
RealmDestroyLock(p, rd) ==
  /\ IsIdle(p) /\ Unlocked(rd)
  /\ gs[rd] = "RD"
  /\ Unused(rd)
  /\ lk' = [lk EXCEPT ![rd] = p]
  /\ pe' = [pe EXCEPT ![p] = [Idle EXCEPT !.op = "realm_destroy", !.step = "count", !.rd = rd,
                                          !.root = mem[rd].g_rtt, !.num = mem[rd].num_root_rtts]]
  /\ UNCHANGED <<gs, ref, mem, gpt, vmids>>

\* Mutant of RootsBusy: the loop overwrites the sum instead of adding to it.
RootsBusyLast(p, g) == ref[g] # 0

\* total_root_rtt_refcount up to table g; the sum is only ever compared with 0.
RootsBusy(p, g) == pe[p].busy \/ ref[g] # 0

RealmDestroyCount(p) ==
  LET g    == pe[p].root + pe[p].i
      last == pe[p].i + 1 = pe[p].num
  IN
  /\ At(p, "realm_destroy", "count")
  /\ Unlocked(g)
  /\ IF last /\ RootsBusy(p, g)
     THEN /\ lk' = [lk EXCEPT ![pe[p].rd] = NoPE]
          /\ Return(p)
     ELSE /\ pe' = [pe EXCEPT ![p].step = IF last THEN "free_vmid" ELSE "count",
                              ![p].busy = RootsBusy(p, g),
                              ![p].i = IF last THEN 0 ELSE pe[p].i + 1]
          /\ UNCHANGED lk
  /\ UNCHANGED <<gs, ref, mem, gpt, vmids>>

RealmDestroyFreeVmid(p) ==
  /\ At(p, "realm_destroy", "free_vmid")
  /\ vmids' = vmids \ {mem[pe[p].rd].vmid}
  /\ Goto(p, "free_rtts")
  /\ UNCHANGED <<gs, ref, lk, mem, gpt>>

\* free_sl_rtts: each table is locked, cleared and given back.
RealmDestroyFreeRtt(p) ==
  LET g == pe[p].root + pe[p].i IN
  /\ At(p, "realm_destroy", "free_rtts")
  /\ Unlocked(g)
  /\ mem' = [mem EXCEPT ![g] = Zero]
  /\ gs' = [gs EXCEPT ![g] = "DELEGATED"]
  /\ pe' = [pe EXCEPT ![p].step = IF pe[p].i + 1 = pe[p].num THEN "free_rd" ELSE "free_rtts",
                      ![p].i = IF pe[p].i + 1 = pe[p].num THEN 0 ELSE pe[p].i + 1]
  /\ UNCHANGED <<ref, lk, gpt, vmids>>

RealmDestroyFreeRd(p) ==
  /\ At(p, "realm_destroy", "free_rd")
  /\ mem' = [mem EXCEPT ![pe[p].rd] = Zero]
  /\ gs' = [gs EXCEPT ![pe[p].rd] = "DELEGATED"]
  /\ lk' = [lk EXCEPT ![pe[p].rd] = NoPE]
  /\ Return(p)
  /\ UNCHANGED <<ref, gpt, vmids>>

smc_realm_destroy(p) ==
  \/ \E rd \in Granules : RealmDestroyLock(p, rd)
  \/ RealmDestroyCount(p)
  \/ RealmDestroyFreeVmid(p)
  \/ RealmDestroyFreeRtt(p)
  \/ RealmDestroyFreeRd(p)
=============================================================================
