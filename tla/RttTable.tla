------------------------------ MODULE RttTable -----------------------------
(***************************************************************************)
(* The life of a translation-table granule: creation and destruction of a  *)
(* table below a realm's starting level (runtime/rmi/rtt.c).  This module  *)
(* follows the granules and their locks through the walk from the RD over  *)
(* the concatenated root tables; the entries of a table are abstracted to  *)
(* the set of tables they point to.                                        *)
(***************************************************************************)
EXTENDS Rec

CONSTANTS
  RttParams,      \* arguments of RTT_CREATE: records [rd, rtt, k]; k: root table the address is in
  MaxTables       \* entries of a root table that may be used

ASSUME RttParamsAssumption ==
  /\ RttParams \subseteq [rd : Granules, rtt : Granules, k : Nat]
  /\ MaxTables \in Nat
  /\ MaxTables <= RefcountMax   \* COMPILER_ASSERT(RTT_REFCOUNT_MAX <= REFCOUNT_MAX)

(***************************************************************************)
(* smc_rtt_create: the new table and the RD are locked in address order.   *)
(***************************************************************************)
RttCreateStart(p, tp) ==
  /\ IsIdle(p)
  /\ pe' = [pe EXCEPT ![p] = [Idle EXCEPT !.op = "rtt_create", !.step = "lock1", !.rd = tp.rd,
                                          !.new = tp.rtt, !.i = tp.k]]
  /\ UNCHANGED <<gs, ref, lk, mem, gpt, vmids>>

RttCreateFailed(p) ==
  /\ At(p, "rtt_create", "failed")
  /\ Return(p)
  /\ UNCHANGED <<gs, ref, lk, mem, gpt, vmids>>

\* validate_rtt_structure_cmds: the address is outside the realm's IPA space.
RttCreateBadAddress(p) ==
  /\ At(p, "rtt_create", "locked")
  /\ pe[p].i >= mem[pe[p].rd].num_root_rtts
  /\ lk' = [lk EXCEPT ![pe[p].rd] = NoPE, ![pe[p].new] = NoPE]
  /\ Return(p)
  /\ UNCHANGED <<gs, ref, mem, gpt, vmids>>

\* Lock the first root table, then unlock the RD.
RttCreateLockRoot(p) ==
  LET rd == pe[p].rd
      g  == mem[rd].g_rtt
  IN
  /\ At(p, "rtt_create", "locked")
  /\ pe[p].i < mem[rd].num_root_rtts
  /\ Unlocked(g)
  /\ lk' = [lk EXCEPT ![g] = p, ![rd] = NoPE]
  /\ pe' = [pe EXCEPT ![p].root = g, ![p].step = "walk"]
  /\ UNCHANGED <<gs, ref, mem, gpt, vmids>>

(***************************************************************************)
(* The first step of s2tt_walk_lock_unlock: with concatenated root tables, *)
(* lock the one the address is in, then unlock the first.                  *)
(***************************************************************************)
WalkConcatenated(p) ==
  LET g == pe[p].root + pe[p].i IN
  /\ pe[p].step = "walk"
  /\ IF pe[p].i = 0
     THEN Goto(p, "at_parent") /\ UNCHANGED lk
     ELSE /\ Unlocked(g)
          /\ lk' = [lk EXCEPT ![g] = p, ![pe[p].root] = NoPE]
          /\ pe' = [pe EXCEPT ![p].root = g, ![p].step = "at_parent"]
  /\ UNCHANGED <<gs, ref, mem, gpt, vmids>>

\* Mutant of RttCreateDone: no reference is taken on the parent table.
RttCreateDoneNoGet(p) ==
  LET root == pe[p].root
      rtt  == pe[p].new
  IN
  /\ At(p, "rtt_create", "at_parent")
  /\ Cardinality(mem[root].tables) < MaxTables
  /\ mem' = [mem EXCEPT ![root].tables = @ \cup {rtt}, ![rtt] = RttMem({})]
  /\ gs' = [gs EXCEPT ![rtt] = "RTT"]
  /\ lk' = [lk EXCEPT ![root] = NoPE, ![rtt] = NoPE]
  /\ Return(p)
  /\ UNCHANGED <<ref, gpt, vmids>>

\* An unassigned entry of the parent becomes a table entry.
RttCreateDone(p) ==
  LET root == pe[p].root
      rtt  == pe[p].new
  IN
  /\ At(p, "rtt_create", "at_parent")
  /\ Cardinality(mem[root].tables) < MaxTables
  /\ ref' = [ref EXCEPT ![root] = @ + 1]
  /\ mem' = [mem EXCEPT ![root].tables = @ \cup {rtt}, ![rtt] = RttMem({})]
  /\ gs' = [gs EXCEPT ![rtt] = "RTT"]
  /\ lk' = [lk EXCEPT ![root] = NoPE, ![rtt] = NoPE]
  /\ Return(p)
  /\ UNCHANGED <<gpt, vmids>>

\* The entry is already a table (RMI_ERROR_RTT): the new granule stays DELEGATED.
RttCreateRefused(p) ==
  /\ At(p, "rtt_create", "at_parent")
  /\ mem[pe[p].root].tables # {}
  /\ lk' = [lk EXCEPT ![pe[p].root] = NoPE, ![pe[p].new] = NoPE]
  /\ Return(p)
  /\ UNCHANGED <<gs, ref, mem, gpt, vmids>>

smc_rtt_create(p) ==
  \/ \E tp \in RttParams : RttCreateStart(p, tp)
  \/ pe[p].op = "rtt_create" /\ find_lock_two_granules(p)
  \/ RttCreateFailed(p)
  \/ RttCreateBadAddress(p)
  \/ RttCreateLockRoot(p)
  \/ pe[p].op = "rtt_create" /\ WalkConcatenated(p)
  \/ RttCreateDone(p)
  \/ RttCreateRefused(p)

(***************************************************************************)
(* smc_rtt_destroy: RD, then root table, then RD unlocked; the table the   *)
(* parent's entry points to is locked below its parent.                    *)
(***************************************************************************)
RttDestroyLockRd(p, rd, k) ==
  /\ IsIdle(p) /\ Unlocked(rd)
  /\ gs[rd] = "RD"
  /\ k < mem[rd].num_root_rtts
  /\ lk' = [lk EXCEPT ![rd] = p]
  /\ pe' = [pe EXCEPT ![p] = [Idle EXCEPT !.op = "rtt_destroy", !.step = "lock_root", !.rd = rd,
                                          !.root = mem[rd].g_rtt, !.i = k]]
  /\ UNCHANGED <<gs, ref, mem, gpt, vmids>>

RttDestroyLockRoot(p) ==
  LET g == pe[p].root IN
  /\ At(p, "rtt_destroy", "lock_root")
  /\ Unlocked(g)
  /\ lk' = [lk EXCEPT ![g] = p, ![pe[p].rd] = NoPE]
  /\ Goto(p, "walk")
  /\ UNCHANGED <<gs, ref, mem, gpt, vmids>>

\* The parent's entry is not a table entry.
RttDestroyNoTable(p) ==
  /\ At(p, "rtt_destroy", "at_parent")
  /\ lk' = [lk EXCEPT ![pe[p].root] = NoPE]
  /\ Return(p)
  /\ UNCHANGED <<gs, ref, mem, gpt, vmids>>

\* A table below the starting level has no references in this module.
RttDestroyDone(p, rtt) ==
  LET root == pe[p].root IN
  /\ At(p, "rtt_destroy", "at_parent")
  /\ rtt \in mem[root].tables
  /\ Unlocked(rtt)
  /\ ref[rtt] = 0
  /\ ref' = [ref EXCEPT ![root] = @ - 1]
  /\ mem' = [mem EXCEPT ![root].tables = @ \ {rtt}, ![rtt] = Zero]
  /\ gs' = [gs EXCEPT ![rtt] = "DELEGATED"]
  /\ lk' = [lk EXCEPT ![root] = NoPE]
  /\ Return(p)
  /\ UNCHANGED <<gpt, vmids>>

smc_rtt_destroy(p) ==
  \/ \E rd \in Granules, k \in 0..(NumGranules - 1) : RttDestroyLockRd(p, rd, k)
  \/ RttDestroyLockRoot(p)
  \/ pe[p].op = "rtt_destroy" /\ WalkConcatenated(p)
  \/ RttDestroyNoTable(p)
  \/ \E rtt \in Granules : RttDestroyDone(p, rtt)
=============================================================================
