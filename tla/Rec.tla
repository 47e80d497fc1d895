-------------------------------- MODULE Rec --------------------------------
(***************************************************************************)
(* Realm execution contexts (RECs): creation, destruction (rmi/rec.c) and  *)
(* the reference a running REC holds (rmi/run.c).                          *)
(***************************************************************************)
EXTENDS Realm

CONSTANTS
  RecParams      \* the arguments a host may pass: records [rd, rec, idx, aux, naux]

ASSUME RecParamsAssumption ==
  RecParams \subseteq [rd : Granules, rec : Granules, idx : Nat, aux : AuxList, naux : 0..MaxRecAux]

ASSUME AuxListAssumption ==
  \A rp \in RecParams : \A k \in 1..rp.naux : rp.aux[k] \in Granules

AuxOf(aux, n) == {aux[k] : k \in 1..n}

(***************************************************************************)
(* smc_rec_create.  The auxiliary granules are converted first, one at a   *)
(* time, each under its own lock only.                                     *)
(***************************************************************************)
RecCreateStart(p, rp) ==
  /\ IsIdle(p)
  /\ pe' = [pe EXCEPT ![p] = [Idle EXCEPT !.op = "rec_create",
                                          !.step = IF rp.naux = 0 THEN "lock1" ELSE "aux",
                                          !.rd = rp.rd, !.new = rp.rec, !.idx = rp.idx,
                                          !.aux = rp.aux, !.naux = rp.naux]]
  /\ UNCHANGED <<gs, ref, lk, mem, gpt, vmids>>

(***************************************************************************)
(* When the i-th granule is not DELEGATED the earlier ones are unlocked -  *)
(* although granule_unlock_transition has already unlocked them - and then *)
(* freed.  The store that clears the lock bit does not ask who holds it.   *)
(***************************************************************************)
RecCreateAux(p) ==
  LET g    == pe[p].aux[pe[p].i + 1]
      last == pe[p].i + 1 = pe[p].naux
  IN
  /\ At(p, "rec_create", "aux")
  /\ Unlocked(g)
  /\ IF gs[g] = "DELEGATED"
     THEN /\ gs' = [gs EXCEPT ![g] = "REC_AUX"]
          /\ pe' = [pe EXCEPT ![p].step = IF last THEN "lock1" ELSE "aux",
                              ![p].i = IF last THEN 0 ELSE pe[p].i + 1]
          /\ UNCHANGED lk
     ELSE /\ lk' = [h \in Granules |-> IF h \in AuxOf(pe[p].aux, pe[p].i) THEN NoPE ELSE lk[h]]
          /\ pe' = [pe EXCEPT ![p].step = "failed", ![p].naux = pe[p].i, ![p].i = 0]
          /\ UNCHANGED gs
  /\ UNCHANGED <<ref, mem, gpt, vmids>>

\* Mutant of RecCreateAdmissible: the reference count of the RD has no limit.
RecCreateAdmissibleNoLimit(p) ==
  LET rd == pe[p].rd IN
  /\ mem[rd].state = "NEW"
  /\ pe[p].idx = mem[rd].rec_count
  /\ pe[p].naux = MaxRecAux

\* Mutant of RecCreateAdmissible: an index that has been given out is taken again.
RecCreateAdmissibleStaleIndex(p) ==
  LET rd == pe[p].rd IN
  /\ ref[rd] # RefcountMax
  /\ mem[rd].state = "NEW"
  /\ pe[p].idx <= mem[rd].rec_count
  /\ pe[p].naux = MaxRecAux

\* The checks under both locks: reference limit, realm state, next index (the MPIDR
\* the host passes), number of auxiliary granules.
RecCreateAdmissible(p) ==
  LET rd == pe[p].rd IN
  /\ ref[rd] # RefcountMax
  /\ mem[rd].state = "NEW"
  /\ pe[p].idx = mem[rd].rec_count
  /\ pe[p].naux = MaxRecAux

(***************************************************************************)
(* With the new granule and the RD locked: a refused REC leaves both as    *)
(* they are; otherwise the REC and its auxiliary granules are initialised, *)
(* the RD gets a reference and counts the REC.                             *)
(***************************************************************************)
RecCreateRefused(p) ==
  /\ At(p, "rec_create", "locked")
  /\ ~RecCreateAdmissible(p)
  /\ lk' = [lk EXCEPT ![pe[p].rd] = NoPE, ![pe[p].new] = NoPE]
  /\ Goto(p, "failed")
  /\ UNCHANGED <<gs, ref, mem, gpt, vmids>>

RecCreateDone(p, run) ==
  LET rd  == pe[p].rd
      rec == pe[p].new
  IN
  /\ At(p, "rec_create", "locked")
  /\ RecCreateAdmissible(p)
  /\ mem' = [g \in Granules |->
               IF g = rec THEN RecMem(rd, pe[p].idx, pe[p].aux, pe[p].naux, run)
               ELSE IF g = rd THEN [mem[rd] EXCEPT !.rec_count = @ + 1]
               ELSE IF g \in AuxOf(pe[p].aux, pe[p].naux) THEN AuxMem
               ELSE mem[g]]
  /\ ref' = [ref EXCEPT ![rd] = @ + 1]
  /\ gs' = [gs EXCEPT ![rec] = "REC"]
  /\ lk' = [lk EXCEPT ![rd] = NoPE, ![rec] = NoPE]
  /\ Return(p)
  /\ UNCHANGED <<gpt, vmids>>

\* free_rec_aux_granules(.., false): nothing has been written to them yet.
RecCreateFreeAux(p) ==
  /\ At(p, "rec_create", "failed")
  /\ IF pe[p].i = pe[p].naux
     THEN Return(p) /\ UNCHANGED gs
     ELSE LET g == pe[p].aux[pe[p].i + 1] IN
          /\ Unlocked(g)
          /\ gs' = [gs EXCEPT ![g] = "DELEGATED"]
          /\ pe' = [pe EXCEPT ![p].i = @ + 1]
  /\ UNCHANGED <<ref, lk, mem, gpt, vmids>>

smc_rec_create(p) ==
  \/ \E rp \in RecParams : RecCreateStart(p, rp)
  \/ RecCreateAux(p)
  \/ pe[p].op = "rec_create" /\ find_lock_two_granules(p)
  \/ RecCreateRefused(p)
  \/ \E run \in BOOLEAN : RecCreateDone(p, run)
  \/ RecCreateFreeAux(p)

(***************************************************************************)
(* smc_rec_destroy.  The REC must be unused; its auxiliary granules are    *)
(* scrubbed and freed under the REC's lock; the RD's reference is given    *)
(* back last, with no lock held.                                           *)
(***************************************************************************)
RecDestroyLock(p, rec) ==
  /\ IsIdle(p) /\ Unlocked(rec)
  /\ gs[rec] = "REC"
  /\ Unused(rec)
  /\ lk' = [lk EXCEPT ![rec] = p]
  /\ pe' = [pe EXCEPT ![p] = [Idle EXCEPT !.op = "rec_destroy",
                                          !.step = IF mem[rec].num_aux = 0 THEN "free" ELSE "aux",
                                          !.new = rec, !.rd = mem[rec].g_rd,
                                          !.aux = mem[rec].g_aux, !.naux = mem[rec].num_aux]]
  /\ UNCHANGED <<gs, ref, mem, gpt, vmids>>

\* Mutant of Scrubbed: free_rec_aux_granules is told not to scrub.
ScrubbedNot(g) == mem[g]

\* buffer_granule_memzero of an auxiliary granule.
Scrubbed(g) == Zero

RecDestroyFreeAux(p) ==
  LET g == pe[p].aux[pe[p].i + 1] IN
  /\ At(p, "rec_destroy", "aux")
  /\ Unlocked(g)
  /\ mem' = [mem EXCEPT ![g] = Scrubbed(g)]
  /\ gs' = [gs EXCEPT ![g] = "DELEGATED"]
  /\ IF pe[p].i + 1 = pe[p].naux
     THEN pe' = [pe EXCEPT ![p].step = "free", ![p].i = 0]
     ELSE pe' = [pe EXCEPT ![p].i = @ + 1]
  /\ UNCHANGED <<ref, lk, gpt, vmids>>

\* Mutant of RecDestroyFree: the RD's reference is never given back.
RecDestroyFreeNoPut(p) ==
  /\ At(p, "rec_destroy", "free")
  /\ mem' = [mem EXCEPT ![pe[p].new] = Zero]
  /\ gs' = [gs EXCEPT ![pe[p].new] = "DELEGATED"]
  /\ lk' = [lk EXCEPT ![pe[p].new] = NoPE]
  /\ Return(p)
  /\ UNCHANGED <<ref, gpt, vmids>>

RecDestroyFree(p) ==
  /\ At(p, "rec_destroy", "free")
  /\ mem' = [mem EXCEPT ![pe[p].new] = Zero]
  /\ gs' = [gs EXCEPT ![pe[p].new] = "DELEGATED"]
  /\ lk' = [lk EXCEPT ![pe[p].new] = NoPE]
  /\ Goto(p, "put")
  /\ UNCHANGED <<ref, gpt, vmids>>

RecDestroyPut(p) ==
  /\ At(p, "rec_destroy", "put")
  /\ ref' = [ref EXCEPT ![pe[p].rd] = @ - 1]
  /\ Return(p)
  /\ UNCHANGED <<gs, lk, mem, gpt, vmids>>

smc_rec_destroy(p) ==
  \/ \E rec \in Granules : RecDestroyLock(p, rec)
  \/ RecDestroyFreeAux(p)
  \/ RecDestroyFree(p)
  \/ RecDestroyPut(p)

(***************************************************************************)
(* smc_rec_enter.  The lock is only held to take the reference; from then  *)
(* on the REC, its auxiliary granules and its RD are used without a lock.  *)
(***************************************************************************)
RecEnterGet(p, rec) ==
  /\ IsIdle(p) /\ Unlocked(rec)
  /\ gs[rec] = "REC"
  /\ Unused(rec)
  /\ ref' = [ref EXCEPT ![rec] = @ + 1]
  /\ pe' = [pe EXCEPT ![p] = [Idle EXCEPT !.op = "rec_enter", !.step = "check", !.new = rec]]
  /\ UNCHANGED <<gs, lk, mem, gpt, vmids>>

(***************************************************************************)
(* The realm's state is read without the RD's lock; a realm that is not    *)
(* ACTIVE, a REC that is not runnable, or bad entry parameters (which need *)
(* no state of this module) end the command.                               *)
(***************************************************************************)
RecEnterCheck(p) ==
  /\ At(p, "rec_enter", "check")
  /\ \/ /\ mem[mem[pe[p].new].g_rd].state = "ACTIVE"
        /\ mem[pe[p].new].runnable
        /\ Goto(p, "run")
     \/ Goto(p, "put")
  /\ UNCHANGED <<gs, ref, lk, mem, gpt, vmids>>

\* PSCI_CPU_OFF (rsi/psci.c): the REC exits to the host and is not runnable any more.
RecRunCpuOff(p) ==
  /\ At(p, "rec_enter", "run")
  /\ mem' = [mem EXCEPT ![pe[p].new].runnable = FALSE]
  /\ Goto(p, "put")
  /\ UNCHANGED <<gs, ref, lk, gpt, vmids>>

\* PSCI_SYSTEM_OFF and SYSTEM_RESET (rsi/psci.c): the realm's state, under the RD's lock.
RecRunSystemOff(p) ==
  LET rd == mem[pe[p].new].g_rd IN
  /\ At(p, "rec_enter", "run")
  /\ Unlocked(rd)
  /\ mem' = [mem EXCEPT ![rd].state = "SYSTEM_OFF"]
  /\ Goto(p, "put")
  /\ UNCHANGED <<gs, ref, lk, gpt, vmids>>

\* Any other exit to the host.
RecRunExit(p) ==
  /\ At(p, "rec_enter", "run")
  /\ Goto(p, "put")
  /\ UNCHANGED <<gs, ref, lk, mem, gpt, vmids>>

RecEnterPut(p) ==
  /\ At(p, "rec_enter", "put")
  /\ ref' = [ref EXCEPT ![pe[p].new] = @ - 1]
  /\ Return(p)
  /\ UNCHANGED <<gs, lk, mem, gpt, vmids>>

smc_rec_enter(p) ==
  \/ \E rec \in Granules : RecEnterGet(p, rec)
  \/ RecEnterCheck(p)
  \/ RecRunCpuOff(p)
  \/ RecRunSystemOff(p)
  \/ RecRunExit(p)
  \/ RecEnterPut(p)
=============================================================================
