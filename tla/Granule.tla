------------------------------ MODULE Granule ------------------------------
(***************************************************************************)
(* The granule array of the RMM (lib/granule) and the two commands that    *)
(* move a granule between the Non-secure and the Realm world               *)
(* (runtime/rmi/granule.c).                                                *)
(*                                                                         *)
(* A granule descriptor is a lock bit, a state and a reference count.      *)
(* Processing elements (PEs) run commands concurrently.  A command that    *)
(* holds several locks is split at every lock acquisition; a critical      *)
(* section with one lock, which touches only what that lock protects, is   *)
(* one step that needs the lock to be free.  The modules Realm, Rec and    *)
(* RttTable add the other commands, Rmm puts them together.                *)
(***************************************************************************)
EXTENDS Integers, FiniteSets

CONSTANTS
  PE,             \* processing elements
  NoPE,           \* "unlocked"
  NumGranules,    \* granules the platform gives to the RMM
  Vmid,           \* VMID values
  NoVmid,         \* placeholder in a PE that handles no realm parameters
  MaxRecAux,      \* MAX_REC_AUX_GRANULES
  RefcountMax     \* REFCOUNT_MAX

ASSUME PEAssumption == NoPE \notin PE /\ IsFiniteSet(PE)
ASSUME VmidAssumption == NoVmid \notin Vmid
ASSUME SizesAssumption ==
  /\ NumGranules \in Nat
  /\ MaxRecAux \in Nat
  /\ RefcountMax \in Nat \ {0}

Granules == 1..NumGranules          \* ordered by physical address

NoGranule == 0

GranuleStates == {"NS", "DELEGATED", "RD", "REC", "REC_AUX", "RTT"}

VARIABLES
  gs,      \* granule state
  ref,     \* granule reference count
  lk,      \* holder of the granule's lock bit
  mem,     \* granule content
  gpt,     \* EL3's granule protection table: who may access the granule
  vmids,   \* reserved VMIDs
  pe       \* per PE: the command it runs, the step it is at, its locals

vars == <<gs, ref, lk, mem, gpt, vmids, pe>>

(***************************************************************************)
(* Granule content.  Every record has a kind; the other fields are what    *)
(* the properties need of struct rd, struct rec and a translation table.   *)
(***************************************************************************)
Zero == [kind |-> "zero"]
HostOwned == [kind |-> "host"]
AuxMem == [kind |-> "aux"]
RdMem(st, n, v, base, num) ==
  [kind |-> "rd", state |-> st, rec_count |-> n, vmid |-> v, g_rtt |-> base, num_root_rtts |-> num]
RecMem(rd, idx, aux, n, run) ==
  [kind |-> "rec", g_rd |-> rd, rec_idx |-> idx, g_aux |-> aux, num_aux |-> n, runnable |-> run]
RttMem(tables) == [kind |-> "rtt", tables |-> tables]

RealmStates == {"NEW", "ACTIVE", "SYSTEM_OFF"}

AuxList == [1..MaxRecAux -> Granules \cup {NoGranule}]

NoAux == [k \in 1..MaxRecAux |-> NoGranule]

(***************************************************************************)
(* What a PE remembers between two steps of a command.                     *)
(***************************************************************************)
Idle ==
  [op |-> "none", step |-> "idle", rd |-> NoGranule, new |-> NoGranule, root |-> NoGranule,
   num |-> 0, vmid |-> NoVmid, aux |-> NoAux, naux |-> 0, idx |-> 0,
   i |-> 0, busy |-> FALSE]

IsIdle(p) == pe[p].op = "none"

At(p, op, step) == pe[p].op = op /\ pe[p].step = step

Goto(p, step) == pe' = [pe EXCEPT ![p].step = step]

Return(p) == pe' = [pe EXCEPT ![p] = Idle]

\* Mutant of Unlocked: granule_bitlock_acquire does not wait for the bit to clear.
UnlockedIgnored(g) == TRUE

Unlocked(g) == lk[g] = NoPE

HeldBy(p) == {g \in Granules : lk[g] = p}

\* Mutant of Unused: find_lock_granule where find_lock_unused_granule is meant.
UnusedIgnored(g) == TRUE

\* The -EBUSY test of find_lock_unused_granule.
Unused(g) == ref[g] = 0

Min2(a, b) == IF a < b THEN a ELSE b

(***************************************************************************)
(* find_lock_two_granules(new, DELEGATED, rd, RD), used by the commands    *)
(* that turn a delegated granule into an object of a realm.  The granules  *)
(* are sorted by address, duplicates are refused, each is locked and its   *)
(* state compared; a mismatch gives every lock back and continues at       *)
(* "failed".                                                               *)
(***************************************************************************)
ExpectedState(p, g) == IF g = pe[p].rd THEN "RD" ELSE "DELEGATED"

FirstToLock(p) == Min2(pe[p].rd, pe[p].new)

SecondToLock(p) == IF FirstToLock(p) = pe[p].rd THEN pe[p].new ELSE pe[p].rd

FindLockDuplicate(p) ==
  /\ pe[p].step = "lock1"
  /\ pe[p].rd = pe[p].new
  /\ Goto(p, "failed")
  /\ UNCHANGED <<gs, ref, lk, mem, gpt, vmids>>

FindLockFirst(p) ==
  LET g == FirstToLock(p) IN
  /\ pe[p].step = "lock1"
  /\ pe[p].rd # pe[p].new
  /\ Unlocked(g)
  /\ IF gs[g] = ExpectedState(p, g)
     THEN Goto(p, "lock2") /\ lk' = [lk EXCEPT ![g] = p]
     ELSE Goto(p, "failed") /\ UNCHANGED lk
  /\ UNCHANGED <<gs, ref, mem, gpt, vmids>>

\* Mutant of FindLockSecond: the error path forgets the lock that is already held.
FindLockSecondLeak(p) ==
  LET g == SecondToLock(p) IN
  /\ pe[p].step = "lock2"
  /\ Unlocked(g)
  /\ IF gs[g] = ExpectedState(p, g)
     THEN Goto(p, "locked") /\ lk' = [lk EXCEPT ![g] = p]
     ELSE Goto(p, "failed") /\ UNCHANGED lk
  /\ UNCHANGED <<gs, ref, mem, gpt, vmids>>

FindLockSecond(p) ==
  LET g == SecondToLock(p)
      h == FirstToLock(p)
  IN
  /\ pe[p].step = "lock2"
  /\ Unlocked(g)
  /\ IF gs[g] = ExpectedState(p, g)
     THEN Goto(p, "locked") /\ lk' = [lk EXCEPT ![g] = p]
     ELSE Goto(p, "failed") /\ lk' = [lk EXCEPT ![h] = NoPE]
  /\ UNCHANGED <<gs, ref, mem, gpt, vmids>>

find_lock_two_granules(p) ==
  FindLockDuplicate(p) \/ FindLockFirst(p) \/ FindLockSecond(p)

(***************************************************************************)
(* EL3's side of the granule protection table.  Secure software may take a *)
(* Non-secure granule or give it back at any time; the RMM sees it only as *)
(* a failing rmm_el3_ifc_gtsi_delegate.                                    *)
(***************************************************************************)
SpmTakesGranule(g) ==
  /\ gpt[g] = "ns"
  /\ gpt' = [gpt EXCEPT ![g] = "secure"]
  /\ UNCHANGED <<gs, ref, lk, mem, vmids, pe>>

SpmReturnsGranule(g) ==
  /\ gpt[g] = "secure"
  /\ gpt' = [gpt EXCEPT ![g] = "ns"]
  /\ UNCHANGED <<gs, ref, lk, mem, vmids, pe>>

\* Mutant of smc_granule_delegate: the result of rmm_el3_ifc_gtsi_delegate is ignored.
smc_granule_delegateUnchecked(p, g) ==
  /\ IsIdle(p) /\ Unlocked(g)
  /\ gs[g] = "NS"
  /\ gs' = [gs EXCEPT ![g] = "DELEGATED"]
  /\ mem' = [mem EXCEPT ![g] = Zero]
  /\ gpt' = [gpt EXCEPT ![g] = IF @ = "ns" THEN "realm" ELSE @]
  /\ UNCHANGED <<ref, lk, vmids, pe>>

(***************************************************************************)
(* smc_granule_delegate.  A granule EL3 has given to Secure software, or   *)
(* one that is not NS, is refused and nothing changes.                     *)
(***************************************************************************)
smc_granule_delegate(p, g) ==
  /\ IsIdle(p) /\ Unlocked(g)
  /\ gs[g] = "NS"
  /\ gpt[g] = "ns"
  /\ gpt' = [gpt EXCEPT ![g] = "realm"]
  /\ gs' = [gs EXCEPT ![g] = "DELEGATED"]
  /\ mem' = [mem EXCEPT ![g] = Zero]
  /\ UNCHANGED <<ref, lk, vmids, pe>>

(***************************************************************************)
(* smc_granule_undelegate.  rmm_el3_ifc_gtsi_undelegate fails only on an   *)
(* inconsistent protection table, where the code panics.                   *)
(***************************************************************************)
smc_granule_undelegate(p, g) ==
  /\ IsIdle(p) /\ Unlocked(g)
  /\ gs[g] = "DELEGATED"
  /\ gpt[g] = "realm"
  /\ gpt' = [gpt EXCEPT ![g] = "ns"]
  /\ gs' = [gs EXCEPT ![g] = "NS"]
  /\ mem' = [mem EXCEPT ![g] = HostOwned]
  /\ UNCHANGED <<ref, lk, vmids, pe>>
=============================================================================
