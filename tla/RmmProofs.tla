----------------------------- MODULE RmmProofs -----------------------------
(***************************************************************************)
(* The object commands, for every number of PEs and granules and every set *)
(* of arguments.  First the lock discipline, then OInv, the consistency of *)
(* the objects of the RMM, with one lemma per step of a command, and what  *)
(* follows from it.                                                        *)
(*                                                                         *)
(* LocksAccounted is nearly inductive.  What it lacks is the shape of the  *)
(* locals and, for RMI_REALM_CREATE, whose lock set is computed from an    *)
(* address and a count, their types and the loop bounds.                   *)
(***************************************************************************)
EXTENDS Rmm, FiniteSetTheorems, WellFoundedInduction, TLAPS

Fields == {"op", "step", "rd", "new", "root", "num", "vmid", "aux", "naux", "idx", "i", "busy"}

\* What RMI_REALM_CREATE remembers.
CreateOk(e) ==
  e.op = "realm_create" =>
    /\ e.rd \in Int /\ e.root \in Int /\ e.num \in Nat /\ e.i \in Nat
    /\ e.step \in {"lock", "init", "unlock_rtts", "failed"}
    /\ e.step = "lock" => e.i <= e.num
    /\ e.step = "init" => e.i = 0

LocalsOk(e) == DOMAIN e = Fields /\ CreateOk(e)

LInv ==
  /\ lk \in [Granules -> PE \cup {NoPE}]
  /\ DOMAIN pe = PE
  /\ \A p \in PE : LocalsOk(pe[p])
  /\ LocksAccounted

\* A step of PE p, seen from the locks: it accounts for its own locks and takes none
\* from another PE.
StepOf(p) ==
  /\ DOMAIN pe' = PE
  /\ \A q \in PE : q # p => pe'[q] = pe[q]
  /\ LocalsOk(pe'[p])
  /\ lk' \in [Granules -> PE \cup {NoPE}]
  /\ \A g \in Granules : lk'[g] \in {lk[g], p, NoPE}
  /\ \A g \in Granules : lk'[g] = p => MayHold(pe'[p], g)

\* Such a step keeps the invariant.
LEMMA StepKeeps ==
  ASSUME LInv, NEW p \in PE, StepOf(p)
  PROVE  LInv'
<1>1. \A q \in PE : LocalsOk(pe'[q])  BY DEF LInv, StepOf
<1>2. \A q \in PE, g \in Granules : lk'[g] = q => MayHold(pe'[q], g)
  <2> SUFFICES ASSUME NEW q \in PE, NEW g \in Granules, lk'[g] = q PROVE MayHold(pe'[q], g)
    OBVIOUS
  <2>1. CASE q = p  BY <2>1 DEF StepOf
  <2>2. CASE q # p
    <3>1. lk[g] = q  BY <2>2, PEAssumption DEF StepOf
    <3>2. QED  BY <3>1, <2>2 DEF LInv, LocksAccounted, StepOf
  <2>3. QED  BY <2>1, <2>2
<1>3. (\A q \in PE : LocalsOk(pe[q]))'  BY <1>1 DEF LocalsOk, CreateOk
<1>4. LocksAccounted'  BY <1>2 DEF LocksAccounted, MayHold
<1>5. QED  BY <1>3, <1>4 DEF LInv, StepOf

\* A PE between two commands holds no lock.
LEMMA IdleHoldsNothing ==
  ASSUME LInv, NEW p \in PE, pe[p].op = "none"
  PROVE  \A g \in Granules : lk[g] # p
BY DEF LInv, LocksAccounted, MayHold

\* The invariant, as the steps of one PE use it.
LEMMA HeldIsAccounted ==
  ASSUME LInv, NEW p \in PE
  PROVE  /\ \A g \in Granules : lk[g] = p => MayHold(pe[p], g)
         /\ LocalsOk(pe[p]) /\ DOMAIN pe = PE /\ lk \in [Granules -> PE \cup {NoPE}]
BY DEF LInv, LocksAccounted

\* A change of the step leaves the other locals alone.
LEMMA GotoLocals ==
  ASSUME LInv, NEW p \in PE, NEW s, Goto(p, s)
  PROVE  /\ DOMAIN pe' = PE
         /\ \A q \in PE : q # p => pe'[q] = pe[q]
         /\ DOMAIN pe'[p] = Fields
         /\ pe'[p].step = s
         /\ \A f \in Fields : f # "step" => pe'[p][f] = pe[p][f]
BY DEF LInv, LocalsOk, Goto, Fields

\* The same, field by field.
LEMMA GotoFields ==
  ASSUME LInv, NEW p \in PE, NEW s, Goto(p, s)
  PROVE  /\ pe'[p].op = pe[p].op /\ pe'[p].rd = pe[p].rd /\ pe'[p].new = pe[p].new
         /\ pe'[p].root = pe[p].root /\ pe'[p].num = pe[p].num /\ pe'[p].i = pe[p].i
BY GotoLocals DEF Fields

\* A command that returns holds nothing.
LEMMA ReturnStep ==
  ASSUME LInv, NEW p \in PE, Return(p),
         lk' \in [Granules -> PE \cup {NoPE}],
         \A g \in Granules : lk'[g] \in {lk[g], NoPE},
         \A g \in Granules : lk'[g] # p
  PROVE  StepOf(p)
<1>1. pe'[p] = Idle /\ DOMAIN pe' = PE /\ \A q \in PE : q # p => pe'[q] = pe[q]
  BY DEF LInv, Return
<1>2. LocalsOk(Idle)  BY DEF LocalsOk, CreateOk, Idle, Fields
<1>3. QED  BY <1>1, <1>2 DEF StepOf

\* Find-lock-two, shared by RMI_REC_CREATE and RMI_RTT_CREATE.
LEMMA FindLockKeeps ==
  ASSUME LInv, NEW p \in PE, pe[p].op \in {"rec_create", "rtt_create"}, find_lock_two_granules(p)
  PROVE  StepOf(p)
<1>1. /\ \A g \in Granules : lk[g] = p => MayHold(pe[p], g)
      /\ lk \in [Granules -> PE \cup {NoPE}]
  BY HeldIsAccounted
<1>2. ASSUME NEW s, Goto(p, s), lk' \in [Granules -> PE \cup {NoPE}],
             \A g \in Granules : lk'[g] \in {lk[g], p, NoPE},
             \A g \in Granules : lk'[g] = p =>
               \/ s = "lock2" /\ g = FirstToLock(p)
               \/ s = "locked" /\ g \in {pe[p].rd, pe[p].new}
      PROVE  StepOf(p)
  <2>1. LocalsOk(pe'[p])  BY <1>2, GotoLocals, GotoFields DEF LocalsOk, CreateOk
  <2>2. \A g \in Granules : lk'[g] = p => MayHold(pe'[p], g)
    BY <1>2, GotoLocals, GotoFields DEF MayHold, FirstToLock
  <2>3. QED  BY <2>1, <2>2, <1>2, GotoLocals DEF StepOf
<1>3. CASE FindLockDuplicate(p)
  <2>1. \A g \in Granules : lk[g] # p  BY <1>1, <1>3 DEF FindLockDuplicate, MayHold
  <2>2. QED  BY <2>1, <1>1, <1>2, <1>3 DEF FindLockDuplicate
<1>4. CASE FindLockFirst(p)
  <2>1. \A g \in Granules : lk[g] # p  BY <1>1, <1>4 DEF FindLockFirst, MayHold
  <2>2. CASE gs[FirstToLock(p)] = ExpectedState(p, FirstToLock(p))
    BY <2>1, <2>2, <1>1, <1>2, <1>4 DEF FindLockFirst
  <2>3. CASE gs[FirstToLock(p)] # ExpectedState(p, FirstToLock(p))
    BY <2>1, <2>3, <1>1, <1>2, <1>4 DEF FindLockFirst
  <2>4. QED  BY <2>2, <2>3
<1>5. CASE FindLockSecond(p)
  <2>1. \A g \in Granules : lk[g] = p => g = FirstToLock(p)
    BY <1>1, <1>5 DEF FindLockSecond, MayHold, FirstToLock
  <2>2. FirstToLock(p) \in {pe[p].rd, pe[p].new} /\ SecondToLock(p) \in {pe[p].rd, pe[p].new}
    BY DEF FirstToLock, SecondToLock, Min2
  <2>3. CASE gs[SecondToLock(p)] = ExpectedState(p, SecondToLock(p))
    BY <2>1, <2>2, <2>3, <1>1, <1>2, <1>5 DEF FindLockSecond
  <2>4. CASE gs[SecondToLock(p)] # ExpectedState(p, SecondToLock(p))
    BY <2>1, <2>4, <1>1, <1>2, <1>5, PEAssumption DEF FindLockSecond
  <2>5. QED  BY <2>3, <2>4
<1>6. QED  BY <1>3, <1>4, <1>5 DEF find_lock_two_granules

\* A command begins with at most one lock.
LEMMA StartStep ==
  ASSUME LInv, NEW p \in PE, IsIdle(p), NEW e, LocalsOk(e), pe' = [pe EXCEPT ![p] = e],
         lk' \in [Granules -> PE \cup {NoPE}],
         \A g \in Granules : lk'[g] = lk[g] \/ (lk'[g] = p /\ MayHold(e, g))
  PROVE  StepOf(p)
<1>1. pe'[p] = e /\ DOMAIN pe' = PE /\ \A q \in PE : q # p => pe'[q] = pe[q]
  BY DEF LInv
<1>2. \A g \in Granules : lk[g] # p  BY IdleHoldsNothing DEF IsIdle
<1>3. QED  BY <1>1, <1>2 DEF StepOf

\* A step of RMI_REALM_CREATE takes the locks in the order NthToLock counts them.
LEMMA RealmCreateStep ==
  ASSUME LInv, NEW p \in PE, smc_realm_create(p)
  PROVE  StepOf(p)
<1>1. /\ \A g \in Granules : lk[g] = p => MayHold(pe[p], g)
      /\ LocalsOk(pe[p]) /\ DOMAIN pe = PE /\ lk \in [Granules -> PE \cup {NoPE}]
  BY HeldIsAccounted
<1>2. ASSUME NEW rp \in RealmParams, RealmCreateReserve(p, rp) PROVE StepOf(p)
  <2> DEFINE e == [Idle EXCEPT !.op = "realm_create",
                               !.step = IF rp.rd \in RootRtts(rp.base, rp.num) THEN "failed" ELSE "lock",
                               !.rd = rp.rd, !.root = rp.base, !.num = rp.num, !.vmid = rp.vmid]
  <2>1. LocalsOk(e)
    BY RealmParamsAssumption, SizesAssumption DEF LocalsOk, CreateOk, Idle, Fields, Granules, NoGranule
  <2>2. QED  BY <2>1, <1>1, <1>2, StartStep DEF RealmCreateReserve
<1>3. CASE RealmCreateLock(p)
  <2> DEFINE n == NthToLock(pe[p].rd, pe[p].root, pe[p].num, pe[p].i)
  <2>0. /\ pe[p].rd \in Int /\ pe[p].root \in Int /\ pe[p].num \in Nat /\ pe[p].i \in Nat
        /\ pe[p].i <= pe[p].num
    BY <1>1, <1>3 DEF RealmCreateLock, At, LocalsOk, CreateOk
  <2>1. \A g \in Granules : lk[g] = p =>
          \E k \in 0..(pe[p].i - 1) : g = NthToLock(pe[p].rd, pe[p].root, pe[p].num, k)
    BY <1>1, <1>3 DEF RealmCreateLock, At, MayHold
  <2>2. CASE gs[n] = "DELEGATED" /\ pe[p].i # pe[p].num
    <3>1. /\ pe'[p] = [pe[p] EXCEPT !.step = "lock", !.i = pe[p].i + 1]
          /\ DOMAIN pe' = PE /\ \A q \in PE : q # p => pe'[q] = pe[q]
      BY <2>2, <1>1, <1>3 DEF RealmCreateLock, LocalsOk, Fields
    <3>2. /\ pe'[p].op = "realm_create" /\ pe'[p].step = "lock" /\ pe'[p].i = pe[p].i + 1
          /\ pe'[p].rd = pe[p].rd /\ pe'[p].root = pe[p].root /\ pe'[p].num = pe[p].num
          /\ DOMAIN pe'[p] = Fields
      BY <3>1, <1>1, <1>3 DEF RealmCreateLock, At, LocalsOk, Fields
    <3>3. LocalsOk(pe'[p])  BY <3>2, <2>0, <2>2 DEF LocalsOk, CreateOk
    <3>4. lk' = [lk EXCEPT ![n] = p]  BY <2>2, <1>3 DEF RealmCreateLock
    <3>5. \A g \in Granules : lk'[g] = p =>
            \E k \in 0..pe[p].i : g = NthToLock(pe[p].rd, pe[p].root, pe[p].num, k)
      BY <3>4, <2>1, <2>0, <1>1
    <3>6. pe'[p].i - 1 = pe[p].i  BY <3>2, <2>0
    <3>7. \A g \in Granules : lk'[g] = p => MayHold(pe'[p], g)  BY <3>5, <3>6, <3>2, Zenon DEF MayHold
    <3>8. QED  BY <3>1, <3>3, <3>4, <3>7, <1>1 DEF StepOf
  <2>3. CASE gs[n] = "DELEGATED" /\ pe[p].i = pe[p].num
    <3>1. /\ pe'[p] = [pe[p] EXCEPT !.step = "init", !.i = 0]
          /\ DOMAIN pe' = PE /\ \A q \in PE : q # p => pe'[q] = pe[q]
      BY <2>3, <1>1, <1>3 DEF RealmCreateLock, LocalsOk, Fields
    <3>2. /\ pe'[p].op = "realm_create" /\ pe'[p].step = "init" /\ pe'[p].i = 0
          /\ pe'[p].rd = pe[p].rd /\ pe'[p].root = pe[p].root /\ pe'[p].num = pe[p].num
          /\ DOMAIN pe'[p] = Fields
      BY <3>1, <1>1, <1>3 DEF RealmCreateLock, At, LocalsOk, Fields
    <3>3. LocalsOk(pe'[p])  BY <3>2, <2>0 DEF LocalsOk, CreateOk
    <3>4. lk' = [lk EXCEPT ![n] = p]  BY <2>3, <1>3 DEF RealmCreateLock
    <3>5. \A k \in 0..pe[p].num :
            LET g == NthToLock(pe[p].rd, pe[p].root, pe[p].num, k) IN
            g = pe[p].rd \/ g \in RootRtts(pe[p].root, pe[p].num)
      BY <2>0 DEF NthToLock, RootRtts
    <3>6. \A g \in Granules : lk'[g] = p => g = pe[p].rd \/ g \in RootRtts(pe[p].root, pe[p].num)
      BY <3>4, <3>5, <2>1, <2>0, <2>3, <1>1
    <3>7. \A g \in Granules : lk'[g] = p => MayHold(pe'[p], g)  BY <3>6, <3>2 DEF MayHold
    <3>8. QED  BY <3>1, <3>3, <3>4, <3>7, <1>1 DEF StepOf
  <2>4. CASE gs[n] # "DELEGATED"
    <3>1. Goto(p, "failed") /\ lk' = [h \in Granules |-> IF lk[h] = p THEN NoPE ELSE lk[h]]
      BY <2>4, <1>3 DEF RealmCreateLock
    <3>2. LocalsOk(pe'[p])
      BY <3>1, <1>1, <2>0, GotoLocals, GotoFields DEF LocalsOk, CreateOk
    <3>3. QED  BY <3>1, <3>2, <1>1, GotoLocals, PEAssumption DEF StepOf
  <2>5. QED  BY <2>2, <2>3, <2>4
<1>4. CASE RealmCreateFailed(p)
  <2>1. \A g \in Granules : lk[g] # p  BY <1>1, <1>4 DEF RealmCreateFailed, At, MayHold
  <2>2. QED  BY <2>1, <1>1, <1>4, ReturnStep DEF RealmCreateFailed
<1>5. CASE RealmCreateInit(p)
  <2>0. /\ pe[p].rd \in Int /\ pe[p].root \in Int /\ pe[p].num \in Nat /\ pe[p].i = 0
        /\ pe[p].op = "realm_create"
    BY <1>1, <1>5 DEF RealmCreateInit, At, LocalsOk, CreateOk
  <2>1. \A g \in Granules : lk[g] = p => g = pe[p].rd \/ g \in RootRtts(pe[p].root, pe[p].num)
    BY <1>1, <1>5 DEF RealmCreateInit, At, MayHold
  <2>2. Goto(p, "unlock_rtts") /\ lk' = [lk EXCEPT ![pe[p].rd] = NoPE]
    BY <1>5 DEF RealmCreateInit
  <2>3. LocalsOk(pe'[p])  BY <2>0, <2>2, GotoLocals, GotoFields DEF LocalsOk, CreateOk
  <2>4. \A g \in Granules : lk'[g] = p => g \in (pe[p].root + pe[p].i)..(pe[p].root + pe[p].num - 1)
    BY <2>0, <2>1, <2>2, <1>1, PEAssumption DEF RootRtts
  <2>5. \A g \in Granules : lk'[g] = p => MayHold(pe'[p], g)
    BY <2>4, <2>2, <2>0, GotoLocals, GotoFields DEF MayHold
  <2>6. QED  BY <2>2, <2>3, <2>5, <1>1, GotoLocals DEF StepOf
<1>6. CASE RealmCreateUnlockRtt(p)
  <2> DEFINE n == pe[p].root + pe[p].i
  <2>0. /\ pe[p].rd \in Int /\ pe[p].root \in Int /\ pe[p].num \in Nat /\ pe[p].i \in Nat
        /\ pe[p].op = "realm_create" /\ pe[p].step = "unlock_rtts"
    BY <1>1, <1>6 DEF RealmCreateUnlockRtt, At, LocalsOk, CreateOk
  <2>1. \A g \in Granules : lk[g] = p => g \in n..(pe[p].root + pe[p].num - 1)
    BY <1>1, <2>0 DEF MayHold
  <2>2. lk' = [lk EXCEPT ![n] = NoPE]  BY <1>6 DEF RealmCreateUnlockRtt
  <2>3. \A g \in Granules : lk'[g] = p => g \in (n + 1)..(pe[p].root + pe[p].num - 1)
    BY <2>0, <2>1, <2>2, <1>1, PEAssumption
  <2>4. CASE pe[p].i + 1 = pe[p].num
    <3>1. \A g \in Granules : lk'[g] # p  BY <2>3, <2>4, <2>0
    <3>2. QED  BY <3>1, <2>2, <2>4, <1>1, <1>6, ReturnStep DEF RealmCreateUnlockRtt
  <2>5. CASE pe[p].i + 1 # pe[p].num
    <3>1. /\ pe'[p] = [pe[p] EXCEPT !.i = pe[p].i + 1]
          /\ DOMAIN pe' = PE /\ \A q \in PE : q # p => pe'[q] = pe[q]
      BY <2>5, <1>1, <1>6 DEF RealmCreateUnlockRtt, LocalsOk, Fields
    <3>2. /\ pe'[p].op = "realm_create" /\ pe'[p].step = "unlock_rtts" /\ pe'[p].i = pe[p].i + 1
          /\ pe'[p].rd = pe[p].rd /\ pe'[p].root = pe[p].root /\ pe'[p].num = pe[p].num
          /\ DOMAIN pe'[p] = Fields
      BY <3>1, <1>1, <2>0 DEF LocalsOk, Fields
    <3>3. LocalsOk(pe'[p])  BY <3>2, <2>0 DEF LocalsOk, CreateOk
    <3>4. \A g \in Granules : lk'[g] = p => MayHold(pe'[p], g)  BY <3>2, <2>3, <2>0 DEF MayHold
    <3>5. QED  BY <3>1, <3>3, <3>4, <2>2, <1>1 DEF StepOf
  <2>6. QED  BY <2>4, <2>5
<1>7. QED  BY <1>2, <1>3, <1>4, <1>5, <1>6 DEF smc_realm_create

\* A step inside a command other than RMI_REALM_CREATE.
LEMMA InnerStep ==
  ASSUME LInv, NEW p \in PE, NEW e, pe' = [pe EXCEPT ![p] = e],
         DOMAIN e = Fields, e.op # "realm_create",
         lk' \in [Granules -> PE \cup {NoPE}],
         \A g \in Granules : lk'[g] \in {lk[g], p, NoPE},
         \A g \in Granules : lk'[g] = p => MayHold(e, g)
  PROVE  StepOf(p)
<1>1. pe'[p] = e /\ DOMAIN pe' = PE /\ \A q \in PE : q # p => pe'[q] = pe[q]
  BY DEF LInv
<1>2. LocalsOk(e)  BY DEF LocalsOk, CreateOk
<1>3. QED  BY <1>1, <1>2 DEF StepOf

\* The same for a step that only moves on.
LEMMA GotoStep ==
  ASSUME LInv, NEW p \in PE, NEW s, Goto(p, s), pe[p].op # "realm_create",
         lk' \in [Granules -> PE \cup {NoPE}],
         \A g \in Granules : lk'[g] \in {lk[g], p, NoPE},
         \A g \in Granules : lk'[g] = p => MayHold([pe[p] EXCEPT !.step = s], g)
  PROVE  StepOf(p)
<1>1. DOMAIN pe[p] = Fields  BY DEF LInv, LocalsOk
<1>2. pe'[p] = [pe[p] EXCEPT !.step = s]  BY DEF LInv, Goto
<1>3. LocalsOk(pe'[p])  BY GotoLocals, GotoFields DEF LocalsOk, CreateOk
<1>4. QED  BY <1>2, <1>3, GotoLocals DEF StepOf

\* RMI_REALM_DESTROY holds the RD from its first to its last step.
LEMMA RealmDestroyStep ==
  ASSUME LInv, NEW p \in PE, smc_realm_destroy(p)
  PROVE  StepOf(p)
<1>1. /\ \A g \in Granules : lk[g] = p => MayHold(pe[p], g)
      /\ DOMAIN pe[p] = Fields /\ DOMAIN pe = PE /\ lk \in [Granules -> PE \cup {NoPE}]
  BY HeldIsAccounted DEF LocalsOk
<1>2. ASSUME NEW rd \in Granules, RealmDestroyLock(p, rd) PROVE StepOf(p)
  <2> DEFINE e == [Idle EXCEPT !.op = "realm_destroy", !.step = "count", !.rd = rd,
                               !.root = mem[rd].g_rtt, !.num = mem[rd].num_root_rtts]
  <2>1. LocalsOk(e) /\ MayHold(e, rd)  BY DEF LocalsOk, CreateOk, Idle, Fields, MayHold
  <2>2. pe' = [pe EXCEPT ![p] = e] /\ lk' = [lk EXCEPT ![rd] = p] /\ IsIdle(p)
    BY <1>2 DEF RealmDestroyLock
  <2> HIDE DEF e
  <2>3. QED  BY <2>1, <2>2, <1>1, StartStep
<1>3. ASSUME pe[p].op = "realm_destroy" PROVE \A g \in Granules : lk[g] = p => g = pe[p].rd
  BY <1>1, <1>3 DEF MayHold
<1>4. CASE RealmDestroyCount(p)
  <2> DEFINE last == pe[p].i + 1 = pe[p].num
             busy == RootsBusy(p, pe[p].root + pe[p].i)
  <2>1. CASE last /\ busy
    <3>1. Return(p) /\ lk' = [lk EXCEPT ![pe[p].rd] = NoPE]  BY <2>1, <1>4 DEF RealmDestroyCount
    <3>2. \A g \in Granules : lk'[g] # p
      BY <3>1, <1>1, <1>3, <1>4, PEAssumption DEF RealmDestroyCount, At
    <3>3. QED  BY <3>1, <3>2, <1>1, ReturnStep
  <2>2. CASE ~(last /\ busy)
    <3> DEFINE e == [pe[p] EXCEPT !.step = IF last THEN "free_vmid" ELSE "count",
                                  !.busy = busy, !.i = IF last THEN 0 ELSE pe[p].i + 1]
    <3>1. pe' = [pe EXCEPT ![p] = e] /\ lk' = lk  BY <2>2, <1>1, <1>4 DEF RealmDestroyCount
    <3>2. DOMAIN e = Fields /\ e.op = "realm_destroy" /\ e.rd = pe[p].rd
      BY <1>1, <1>4 DEF RealmDestroyCount, At, Fields
    <3> HIDE DEF e
    <3>3. \A g \in Granules : lk'[g] = p => MayHold(e, g)
      BY <3>1, <3>2, <1>3, <1>4 DEF RealmDestroyCount, At, MayHold
    <3>4. QED  BY <3>1, <3>2, <3>3, <1>1, InnerStep
  <2>3. QED  BY <2>1, <2>2
<1>5. CASE RealmDestroyFreeVmid(p)
  <2>1. Goto(p, "free_rtts") /\ lk' = lk /\ pe[p].op = "realm_destroy"
    BY <1>5 DEF RealmDestroyFreeVmid, At
  <2>2. \A g \in Granules : lk'[g] = p => MayHold([pe[p] EXCEPT !.step = "free_rtts"], g)
    BY <2>1, <1>1, <1>3 DEF MayHold, Fields
  <2>3. QED  BY <2>1, <2>2, <1>1, GotoStep
<1>6. CASE RealmDestroyFreeRtt(p)
  <2> DEFINE last == pe[p].i + 1 = pe[p].num
             e == [pe[p] EXCEPT !.step = IF last THEN "free_rd" ELSE "free_rtts",
                                !.i = IF last THEN 0 ELSE pe[p].i + 1]
  <2>1. pe' = [pe EXCEPT ![p] = e] /\ lk' = lk  BY <1>1, <1>6 DEF RealmDestroyFreeRtt
  <2>2. DOMAIN e = Fields /\ e.op = "realm_destroy" /\ e.rd = pe[p].rd
    BY <1>1, <1>6 DEF RealmDestroyFreeRtt, At, Fields
  <2> HIDE DEF e
  <2>3. \A g \in Granules : lk'[g] = p => MayHold(e, g)
    BY <2>1, <2>2, <1>3, <1>6 DEF RealmDestroyFreeRtt, At, MayHold
  <2>4. QED  BY <2>1, <2>2, <2>3, <1>1, InnerStep
<1>7. CASE RealmDestroyFreeRd(p)
  <2>1. Return(p) /\ lk' = [lk EXCEPT ![pe[p].rd] = NoPE]  BY <1>7 DEF RealmDestroyFreeRd
  <2>2. \A g \in Granules : lk'[g] # p
    BY <2>1, <1>1, <1>3, <1>7, PEAssumption DEF RealmDestroyFreeRd, At
  <2>3. QED  BY <2>1, <2>2, <1>1, ReturnStep
<1>8. QED  BY <1>2, <1>4, <1>5, <1>6, <1>7 DEF smc_realm_destroy

\* RMI_REC_CREATE holds nothing while it converts auxiliary granules.
LEMMA RecCreateStep ==
  ASSUME LInv, NEW p \in PE, smc_rec_create(p)
  PROVE  StepOf(p)
<1>1. /\ \A g \in Granules : lk[g] = p => MayHold(pe[p], g)
      /\ DOMAIN pe[p] = Fields /\ DOMAIN pe = PE /\ lk \in [Granules -> PE \cup {NoPE}]
  BY HeldIsAccounted DEF LocalsOk
<1>2. ASSUME NEW rp \in RecParams, RecCreateStart(p, rp) PROVE StepOf(p)
  <2> DEFINE e == [Idle EXCEPT !.op = "rec_create", !.step = IF rp.naux = 0 THEN "lock1" ELSE "aux",
                               !.rd = rp.rd, !.new = rp.rec, !.idx = rp.idx,
                               !.aux = rp.aux, !.naux = rp.naux]
  <2>1. LocalsOk(e)  BY DEF LocalsOk, CreateOk, Idle, Fields
  <2>2. pe' = [pe EXCEPT ![p] = e] /\ lk' = lk /\ IsIdle(p)  BY <1>2 DEF RecCreateStart
  <2> HIDE DEF e
  <2>3. QED  BY <2>1, <2>2, <1>1, StartStep
<1>3. CASE RecCreateAux(p)
  <2>0. pe[p].op = "rec_create" /\ pe[p].step = "aux"  BY <1>3 DEF RecCreateAux, At
  <2>1. \A g \in Granules : lk[g] # p  BY <2>0, <1>1 DEF MayHold
  <2>2. CASE gs[pe[p].aux[pe[p].i + 1]] = "DELEGATED"
    <3> DEFINE last == pe[p].i + 1 = pe[p].naux
               e == [pe[p] EXCEPT !.step = IF last THEN "lock1" ELSE "aux",
                                  !.i = IF last THEN 0 ELSE pe[p].i + 1]
    <3>1. pe' = [pe EXCEPT ![p] = e] /\ lk' = lk  BY <2>2, <1>1, <1>3 DEF RecCreateAux
    <3>2. DOMAIN e = Fields /\ e.op # "realm_create"  BY <2>0, <1>1 DEF Fields
    <3> HIDE DEF e
    <3>3. QED  BY <3>1, <3>2, <2>1, <1>1, InnerStep
  <2>3. CASE gs[pe[p].aux[pe[p].i + 1]] # "DELEGATED"
    <3> DEFINE e == [pe[p] EXCEPT !.step = "failed", !.naux = pe[p].i, !.i = 0]
    <3>1. /\ pe' = [pe EXCEPT ![p] = e]
          /\ lk' = [h \in Granules |-> IF h \in AuxOf(pe[p].aux, pe[p].i) THEN NoPE ELSE lk[h]]
      BY <2>3, <1>1, <1>3 DEF RecCreateAux
    <3>2. DOMAIN e = Fields /\ e.op # "realm_create"  BY <2>0, <1>1 DEF Fields
    <3> HIDE DEF e
    <3>3. /\ lk' \in [Granules -> PE \cup {NoPE}]
          /\ \A g \in Granules : lk'[g] \in {lk[g], NoPE} /\ lk'[g] # p
      BY <3>1, <2>1, <1>1, PEAssumption
    <3>4. QED  BY <3>1, <3>2, <3>3, InnerStep
  <2>4. QED  BY <2>2, <2>3
<1>4. ASSUME pe[p].op = "rec_create", find_lock_two_granules(p) PROVE StepOf(p)
  BY <1>4, FindLockKeeps
<1>5. ASSUME At(p, "rec_create", "locked") PROVE \A g \in Granules : lk[g] = p => g \in {pe[p].rd, pe[p].new}
  BY <1>1, <1>5 DEF At, MayHold
<1>6. CASE RecCreateRefused(p)
  <2>1. /\ Goto(p, "failed") /\ pe[p].op = "rec_create"
        /\ lk' = [lk EXCEPT ![pe[p].rd] = NoPE, ![pe[p].new] = NoPE]
    BY <1>6 DEF RecCreateRefused, At
  <2>2. \A g \in Granules : lk'[g] # p
    BY <2>1, <1>1, <1>5, <1>6, PEAssumption DEF RecCreateRefused
  <2>3. QED  BY <2>1, <2>2, <1>1, GotoStep
<1>7. ASSUME NEW run \in BOOLEAN, RecCreateDone(p, run) PROVE StepOf(p)
  <2>1. Return(p) /\ lk' = [lk EXCEPT ![pe[p].rd] = NoPE, ![pe[p].new] = NoPE]
    BY <1>7 DEF RecCreateDone
  <2>2. \A g \in Granules : lk'[g] # p  BY <2>1, <1>1, <1>5, <1>7, PEAssumption DEF RecCreateDone
  <2>3. QED  BY <2>1, <2>2, <1>1, ReturnStep
<1>8. CASE RecCreateFreeAux(p)
  <2>0. pe[p].op = "rec_create" /\ pe[p].step = "failed" /\ lk' = lk  BY <1>8 DEF RecCreateFreeAux, At
  <2>1. \A g \in Granules : lk[g] # p  BY <2>0, <1>1 DEF MayHold
  <2>2. CASE pe[p].i = pe[p].naux
    BY <2>0, <2>1, <2>2, <1>1, <1>8, ReturnStep DEF RecCreateFreeAux
  <2>3. CASE pe[p].i # pe[p].naux
    <3> DEFINE e == [pe[p] EXCEPT !.i = pe[p].i + 1]
    <3>1. pe' = [pe EXCEPT ![p] = e]  BY <2>3, <1>1, <1>8 DEF RecCreateFreeAux
    <3>2. DOMAIN e = Fields /\ e.op # "realm_create"  BY <2>0, <1>1 DEF Fields
    <3> HIDE DEF e
    <3>3. QED  BY <3>1, <3>2, <2>0, <2>1, <1>1, InnerStep
  <2>4. QED  BY <2>2, <2>3
<1>9. QED  BY <1>2, <1>3, <1>4, <1>6, <1>7, <1>8 DEF smc_rec_create

\* RMI_REC_DESTROY holds the REC until it has freed it, and nothing for its last put.
LEMMA RecDestroyStep ==
  ASSUME LInv, NEW p \in PE, smc_rec_destroy(p)
  PROVE  StepOf(p)
<1>1. /\ \A g \in Granules : lk[g] = p => MayHold(pe[p], g)
      /\ DOMAIN pe[p] = Fields /\ DOMAIN pe = PE /\ lk \in [Granules -> PE \cup {NoPE}]
  BY HeldIsAccounted DEF LocalsOk
<1>2. ASSUME NEW rec \in Granules, RecDestroyLock(p, rec) PROVE StepOf(p)
  <2> DEFINE e == [Idle EXCEPT !.op = "rec_destroy", !.step = IF mem[rec].num_aux = 0 THEN "free" ELSE "aux",
                               !.new = rec, !.rd = mem[rec].g_rd,
                               !.aux = mem[rec].g_aux, !.naux = mem[rec].num_aux]
  <2>1. LocalsOk(e) /\ MayHold(e, rec)  BY DEF LocalsOk, CreateOk, Idle, Fields, MayHold
  <2>2. pe' = [pe EXCEPT ![p] = e] /\ lk' = [lk EXCEPT ![rec] = p] /\ IsIdle(p)
    BY <1>2 DEF RecDestroyLock
  <2> HIDE DEF e
  <2>3. QED  BY <2>1, <2>2, <1>1, StartStep
<1>3. ASSUME pe[p].op = "rec_destroy" PROVE \A g \in Granules : lk[g] = p => g = pe[p].new
  BY <1>1, <1>3 DEF MayHold
<1>4. CASE RecDestroyFreeAux(p)
  <2> DEFINE last == pe[p].i + 1 = pe[p].naux
             e == [pe[p] EXCEPT !.step = IF last THEN "free" ELSE "aux",
                                !.i = IF last THEN 0 ELSE pe[p].i + 1]
  <2>0. pe[p].op = "rec_destroy" /\ pe[p].step = "aux" /\ lk' = lk  BY <1>4 DEF RecDestroyFreeAux, At
  <2>1. DOMAIN e = Fields /\ e.op = "rec_destroy" /\ e.new = pe[p].new /\ e.step # "put"
    BY <2>0, <1>1 DEF Fields
  <2>2. \A g \in Granules : lk'[g] = p => MayHold(e, g)  BY <2>0, <2>1, <1>3 DEF MayHold
  <2>3. CASE last
    <3>1. pe' = [pe EXCEPT ![p] = [pe[p] EXCEPT !.step = "free", !.i = 0]]
      BY <2>3, <1>1, <1>4 DEF RecDestroyFreeAux
    <3>2. pe' = [pe EXCEPT ![p] = e]  BY <3>1, <2>3
    <3> HIDE DEF e
    <3>3. QED  BY <3>2, <2>0, <2>1, <2>2, <1>1, InnerStep
  <2>4. CASE ~last
    <3>1. pe' = [pe EXCEPT ![p] = [pe[p] EXCEPT !.i = pe[p].i + 1]]
      BY <2>4, <1>1, <1>4 DEF RecDestroyFreeAux
    <3>2. [pe[p] EXCEPT !.i = pe[p].i + 1] = e  BY <2>0, <2>4, <1>1 DEF Fields
    <3> HIDE DEF e
    <3>3. QED  BY <3>1, <3>2, <2>0, <2>1, <2>2, <1>1, InnerStep
  <2>5. QED  BY <2>3, <2>4
<1>5. CASE RecDestroyFree(p)
  <2>1. Goto(p, "put") /\ pe[p].op = "rec_destroy" /\ lk' = [lk EXCEPT ![pe[p].new] = NoPE]
    BY <1>5 DEF RecDestroyFree, At
  <2>2. \A g \in Granules : lk'[g] # p  BY <2>1, <1>1, <1>3, PEAssumption
  <2>3. QED  BY <2>1, <2>2, <1>1, GotoStep
<1>6. CASE RecDestroyPut(p)
  <2>1. \A g \in Granules : lk[g] # p  BY <1>1, <1>6 DEF RecDestroyPut, At, MayHold
  <2>2. QED  BY <2>1, <1>1, <1>6, ReturnStep DEF RecDestroyPut
<1>7. QED  BY <1>2, <1>4, <1>5, <1>6 DEF smc_rec_destroy

\* RMI_REC_ENTER holds no lock between two of its steps.
LEMMA RecEnterStep ==
  ASSUME LInv, NEW p \in PE, smc_rec_enter(p)
  PROVE  StepOf(p)
<1>1. /\ \A g \in Granules : lk[g] = p => MayHold(pe[p], g)
      /\ DOMAIN pe[p] = Fields /\ DOMAIN pe = PE /\ lk \in [Granules -> PE \cup {NoPE}]
  BY HeldIsAccounted DEF LocalsOk
<1>2. ASSUME NEW rec \in Granules, RecEnterGet(p, rec) PROVE StepOf(p)
  <2> DEFINE e == [Idle EXCEPT !.op = "rec_enter", !.step = "check", !.new = rec]
  <2>1. LocalsOk(e)  BY DEF LocalsOk, CreateOk, Idle, Fields
  <2>2. pe' = [pe EXCEPT ![p] = e] /\ lk' = lk /\ IsIdle(p)  BY <1>2 DEF RecEnterGet
  <2> HIDE DEF e
  <2>3. QED  BY <2>1, <2>2, <1>1, StartStep
<1>3. ASSUME pe[p].op = "rec_enter" PROVE \A g \in Granules : lk[g] # p
  BY <1>1, <1>3 DEF MayHold
<1>4. ASSUME pe[p].op = "rec_enter", lk' = lk, NEW s, Goto(p, s) PROVE StepOf(p)
  BY <1>1, <1>3, <1>4, GotoStep
<1>5. CASE RecEnterCheck(p)  BY <1>4, <1>5 DEF RecEnterCheck, At
<1>6. CASE RecRunCpuOff(p)  BY <1>4, <1>6 DEF RecRunCpuOff, At
<1>7. CASE RecRunSystemOff(p)  BY <1>4, <1>7 DEF RecRunSystemOff, At
<1>8. CASE RecRunExit(p)  BY <1>4, <1>8 DEF RecRunExit, At
<1>9. CASE RecEnterPut(p)  BY <1>1, <1>3, <1>9, ReturnStep DEF RecEnterPut, At
<1>10. QED  BY <1>2, <1>5, <1>6, <1>7, <1>8, <1>9 DEF smc_rec_enter

\* The walk hands the lock of the first root table over to the one the address is in.
LEMMA WalkStep ==
  ASSUME LInv, NEW p \in PE, pe[p].op \in {"rtt_create", "rtt_destroy"}, WalkConcatenated(p)
  PROVE  StepOf(p)
<1>1. /\ \A g \in Granules : lk[g] = p => MayHold(pe[p], g)
      /\ DOMAIN pe[p] = Fields /\ DOMAIN pe = PE /\ lk \in [Granules -> PE \cup {NoPE}]
  BY HeldIsAccounted DEF LocalsOk
<1>2. \A g \in Granules : lk[g] = p =>
        g = pe[p].root \/ (pe[p].op = "rtt_create" /\ g = pe[p].new)
  BY <1>1 DEF WalkConcatenated, MayHold
<1>3. CASE pe[p].i = 0
  <2>1. Goto(p, "at_parent") /\ lk' = lk  BY <1>3 DEF WalkConcatenated
  <2>2. \A g \in Granules : lk'[g] = p => MayHold([pe[p] EXCEPT !.step = "at_parent"], g)
    BY <2>1, <1>1, <1>2 DEF MayHold, Fields
  <2>3. QED  BY <2>1, <2>2, <1>1, GotoStep
<1>4. CASE pe[p].i # 0
  <2> DEFINE n == pe[p].root + pe[p].i
             e == [pe[p] EXCEPT !.root = n, !.step = "at_parent"]
  <2>1. pe' = [pe EXCEPT ![p] = e] /\ lk' = [lk EXCEPT ![n] = p, ![pe[p].root] = NoPE]
    BY <1>1, <1>4 DEF WalkConcatenated
  <2>2. /\ DOMAIN e = Fields /\ e.op = pe[p].op /\ e.root = n /\ e.new = pe[p].new
        /\ e.step = "at_parent"
    BY <1>1 DEF Fields
  <2> HIDE DEF n, e
  <2>3. \A g \in Granules : lk'[g] = p => g = n \/ (pe[p].op = "rtt_create" /\ g = pe[p].new)
    BY <2>1, <1>1, <1>2, PEAssumption
  <2>4. \A g \in Granules : lk'[g] = p => MayHold(e, g)  BY <2>2, <2>3 DEF MayHold
  <2>5. \A g \in Granules : lk'[g] \in {lk[g], p, NoPE}  BY <2>1, <1>1
  <2>6. lk' \in [Granules -> PE \cup {NoPE}]  BY <2>1, <1>1
  <2>7. QED  BY <2>1, <2>2, <2>4, <2>5, <2>6, InnerStep
<1>5. QED  BY <1>3, <1>4

\* RMI_RTT_CREATE holds the new table throughout, and one granule of the walk.
LEMMA RttCreateStep ==
  ASSUME LInv, NEW p \in PE, smc_rtt_create(p)
  PROVE  StepOf(p)
<1>1. /\ \A g \in Granules : lk[g] = p => MayHold(pe[p], g)
      /\ DOMAIN pe[p] = Fields /\ DOMAIN pe = PE /\ lk \in [Granules -> PE \cup {NoPE}]
  BY HeldIsAccounted DEF LocalsOk
<1>2. ASSUME NEW tp \in RttParams, RttCreateStart(p, tp) PROVE StepOf(p)
  <2> DEFINE e == [Idle EXCEPT !.op = "rtt_create", !.step = "lock1", !.rd = tp.rd,
                               !.new = tp.rtt, !.i = tp.k]
  <2>1. LocalsOk(e)  BY DEF LocalsOk, CreateOk, Idle, Fields
  <2>2. pe' = [pe EXCEPT ![p] = e] /\ lk' = lk /\ IsIdle(p)  BY <1>2 DEF RttCreateStart
  <2> HIDE DEF e
  <2>3. QED  BY <2>1, <2>2, <1>1, StartStep
<1>3. CASE pe[p].op = "rtt_create" /\ find_lock_two_granules(p)  BY <1>3, FindLockKeeps
<1>4. CASE RttCreateFailed(p)
  <2>1. \A g \in Granules : lk[g] # p  BY <1>1, <1>4 DEF RttCreateFailed, At, MayHold
  <2>2. QED  BY <2>1, <1>1, <1>4, ReturnStep DEF RttCreateFailed
<1>5. ASSUME At(p, "rtt_create", "locked")
      PROVE  \A g \in Granules : lk[g] = p => g \in {pe[p].rd, pe[p].new}
  BY <1>1, <1>5 DEF At, MayHold
<1>6. ASSUME At(p, "rtt_create", "at_parent")
      PROVE  \A g \in Granules : lk[g] = p => g \in {pe[p].root, pe[p].new}
  BY <1>1, <1>6 DEF At, MayHold
<1>7. CASE RttCreateBadAddress(p)
  <2>1. Return(p) /\ lk' = [lk EXCEPT ![pe[p].rd] = NoPE, ![pe[p].new] = NoPE]
    BY <1>7 DEF RttCreateBadAddress
  <2>2. \A g \in Granules : lk'[g] # p
    BY <2>1, <1>1, <1>5, <1>7, PEAssumption DEF RttCreateBadAddress
  <2>3. QED  BY <2>1, <2>2, <1>1, ReturnStep
<1>8. CASE RttCreateLockRoot(p)
  <2> DEFINE n == mem[pe[p].rd].g_rtt
             e == [pe[p] EXCEPT !.root = n, !.step = "walk"]
  <2>0. At(p, "rtt_create", "locked")  BY <1>8 DEF RttCreateLockRoot
  <2>1. pe' = [pe EXCEPT ![p] = e] /\ lk' = [lk EXCEPT ![n] = p, ![pe[p].rd] = NoPE]
    BY <1>1, <1>8 DEF RttCreateLockRoot
  <2>2. /\ DOMAIN e = Fields /\ e.op = "rtt_create" /\ e.root = n /\ e.new = pe[p].new
        /\ e.step = "walk"
    BY <2>0, <1>1 DEF At, Fields
  <2> HIDE DEF n, e
  <2>3. \A g \in Granules : lk'[g] = p => g \in {n, pe[p].new}
    BY <2>0, <2>1, <1>1, <1>5, PEAssumption
  <2>4. \A g \in Granules : lk'[g] = p => MayHold(e, g)  BY <2>2, <2>3 DEF MayHold
  <2>5. \A g \in Granules : lk'[g] \in {lk[g], p, NoPE}  BY <2>1, <1>1
  <2>6. lk' \in [Granules -> PE \cup {NoPE}]  BY <2>1, <1>1
  <2>7. QED  BY <2>1, <2>2, <2>4, <2>5, <2>6, InnerStep
<1>9. CASE pe[p].op = "rtt_create" /\ WalkConcatenated(p)  BY <1>9, WalkStep
<1>10. CASE RttCreateDone(p) \/ RttCreateRefused(p)
  <2>1. /\ Return(p) /\ At(p, "rtt_create", "at_parent")
        /\ lk' = [lk EXCEPT ![pe[p].root] = NoPE, ![pe[p].new] = NoPE]
    BY <1>10 DEF RttCreateDone, RttCreateRefused
  <2>2. \A g \in Granules : lk'[g] # p  BY <2>1, <1>1, <1>6, PEAssumption
  <2>3. QED  BY <2>1, <2>2, <1>1, ReturnStep
<1>11. QED  BY <1>2, <1>3, <1>4, <1>7, <1>8, <1>9, <1>10 DEF smc_rtt_create

\* RMI_RTT_DESTROY holds one granule of the walk at a time.
LEMMA RttDestroyStep ==
  ASSUME LInv, NEW p \in PE, smc_rtt_destroy(p)
  PROVE  StepOf(p)
<1>1. /\ \A g \in Granules : lk[g] = p => MayHold(pe[p], g)
      /\ DOMAIN pe[p] = Fields /\ DOMAIN pe = PE /\ lk \in [Granules -> PE \cup {NoPE}]
  BY HeldIsAccounted DEF LocalsOk
<1>2. ASSUME NEW rd \in Granules, NEW k, RttDestroyLockRd(p, rd, k) PROVE StepOf(p)
  <2> DEFINE e == [Idle EXCEPT !.op = "rtt_destroy", !.step = "lock_root", !.rd = rd,
                               !.root = mem[rd].g_rtt, !.i = k]
  <2>1. LocalsOk(e) /\ MayHold(e, rd)  BY DEF LocalsOk, CreateOk, Idle, Fields, MayHold
  <2>2. pe' = [pe EXCEPT ![p] = e] /\ lk' = [lk EXCEPT ![rd] = p] /\ IsIdle(p)
    BY <1>2 DEF RttDestroyLockRd
  <2> HIDE DEF e
  <2>3. QED  BY <2>1, <2>2, <1>1, StartStep
<1>3. CASE RttDestroyLockRoot(p)
  <2>1. /\ At(p, "rtt_destroy", "lock_root") /\ Goto(p, "walk")
        /\ lk' = [lk EXCEPT ![pe[p].root] = p, ![pe[p].rd] = NoPE]
    BY <1>3 DEF RttDestroyLockRoot
  <2>2. \A g \in Granules : lk[g] = p => g = pe[p].rd  BY <2>1, <1>1 DEF At, MayHold
  <2>3. \A g \in Granules : lk'[g] = p => g = pe[p].root
    BY <2>1, <2>2, <1>1, PEAssumption
  <2>4. \A g \in Granules : lk'[g] = p => MayHold([pe[p] EXCEPT !.step = "walk"], g)
    BY <2>1, <2>3, <1>1 DEF At, MayHold, Fields
  <2>5. \A g \in Granules : lk'[g] \in {lk[g], p, NoPE}  BY <2>1, <1>1
  <2>6. lk' \in [Granules -> PE \cup {NoPE}]  BY <2>1, <1>1
  <2>7. QED  BY <2>1, <2>4, <2>5, <2>6, GotoStep DEF At
<1>4. CASE pe[p].op = "rtt_destroy" /\ WalkConcatenated(p)  BY <1>4, WalkStep
<1>5. ASSUME Return(p), At(p, "rtt_destroy", "at_parent"), lk' = [lk EXCEPT ![pe[p].root] = NoPE]
      PROVE  StepOf(p)
  <2>1. \A g \in Granules : lk[g] = p => g = pe[p].root  BY <1>1, <1>5 DEF At, MayHold
  <2>2. \A g \in Granules : lk'[g] # p  BY <2>1, <1>1, <1>5, PEAssumption
  <2>3. QED  BY <2>2, <1>1, <1>5, ReturnStep
<1>6. CASE RttDestroyNoTable(p)  BY <1>5, <1>6 DEF RttDestroyNoTable
<1>7. ASSUME NEW rtt \in Granules, RttDestroyDone(p, rtt) PROVE StepOf(p)
  BY <1>5, <1>7 DEF RttDestroyDone
<1>8. QED  BY <1>2, <1>3, <1>4, <1>6, <1>7 DEF smc_rtt_destroy

\* A step that touches neither a lock nor a PE's locals keeps the invariant.
LEMMA UntouchedKeeps ==
  ASSUME LInv, UNCHANGED <<lk, pe>>
  PROVE  LInv'
BY DEF LInv, LocalsOk, CreateOk, LocksAccounted, MayHold

\* Every step of the specification keeps the invariant.
LEMMA LInvInductive ==
  ASSUME LInv, [Next]_vars
  PROVE  LInv'
<1>1. CASE UNCHANGED vars  BY <1>1, UntouchedKeeps DEF vars
<1>2. CASE El3  BY <1>2, UntouchedKeeps DEF El3, SpmTakesGranule, SpmReturnsGranule
<1>3. ASSUME NEW p \in PE, Command(p) PROVE LInv'
  <2>1. ASSUME NEW g \in Granules,
               smc_granule_delegate(p, g) \/ smc_granule_undelegate(p, g) \/ smc_realm_activate(p, g)
        PROVE  LInv'
    BY <2>1, UntouchedKeeps DEF smc_granule_delegate, smc_granule_undelegate, smc_realm_activate
  <2>2. CASE smc_realm_create(p)   BY <2>2, RealmCreateStep, StepKeeps
  <2>3. CASE smc_realm_destroy(p)  BY <2>3, RealmDestroyStep, StepKeeps
  <2>4. CASE smc_rec_create(p)     BY <2>4, RecCreateStep, StepKeeps
  <2>5. CASE smc_rec_destroy(p)    BY <2>5, RecDestroyStep, StepKeeps
  <2>6. CASE smc_rec_enter(p)      BY <2>6, RecEnterStep, StepKeeps
  <2>7. CASE smc_rtt_create(p)     BY <2>7, RttCreateStep, StepKeeps
  <2>8. CASE smc_rtt_destroy(p)    BY <2>8, RttDestroyStep, StepKeeps
  <2>9. QED  BY <1>3, <2>1, <2>2, <2>3, <2>4, <2>5, <2>6, <2>7, <2>8 DEF Command
<1>4. QED  BY <1>1, <1>2, <1>3 DEF Next

\* No lock is left behind, by any interleaving of the object commands: a command that has
\* returned, from success or from an error path, holds nothing (every granule_unlock of
\* realm.c, rec.c, rtt.c and lib/granule is reached).
THEOREM LocksAccountedAlways == Spec => []LocksAccounted
<1>1. Init => LInv
  <2>1. LocalsOk(Idle)  BY DEF LocalsOk, CreateOk, Idle, Fields
  <2>2. QED  BY <2>1, PEAssumption DEF Init, LInv, LocksAccounted
<1>2. LInv /\ [Next]_vars => LInv'  BY LInvInductive
<1>3. LInv => LocksAccounted  BY DEF LInv
<1>4. QED  BY <1>1, <1>2, <1>3, PTL DEF Spec

-----------------------------------------------------------------------------
(***************************************************************************)
(* The objects of the RMM stay consistent: states, contents, references    *)
(* and ownership of the granules, for every number of PEs and granules and *)
(* every set of arguments.                                                 *)
(***************************************************************************)

Ops == {"none", "realm_create", "realm_destroy", "rec_create", "rec_destroy", "rec_enter",
        "rtt_create", "rtt_destroy"}

Steps == {"idle", "lock", "init", "unlock_rtts", "failed", "count", "free_vmid", "free_rtts",
          "free_rd", "aux", "lock1", "lock2", "locked", "free", "put", "check", "run", "lock_root",
          "walk", "at_parent"}

GranuleOrNone == Granules \cup {NoGranule}

PeType ==
  [op : Ops, step : Steps, rd : GranuleOrNone, new : GranuleOrNone, root : GranuleOrNone,
   num : Nat, vmid : Vmid \cup {NoVmid}, aux : AuxList, naux : 0..MaxRecAux, idx : Nat,
   i : Nat, busy : BOOLEAN]

RdContent == [kind : {"rd"}, state : RealmStates, rec_count : Nat, vmid : Vmid,
              g_rtt : Granules, num_root_rtts : Nat \ {0}]
RecContent == [kind : {"rec"}, g_rd : Granules, rec_idx : Nat, g_aux : AuxList,
               num_aux : 0..MaxRecAux, runnable : BOOLEAN]
RttContent == [kind : {"rtt"}, tables : SUBSET Granules]

Types ==
  /\ gs \in [Granules -> GranuleStates]
  /\ ref \in [Granules -> Nat]
  /\ DOMAIN mem = Granules /\ mem = [g \in Granules |-> mem[g]]
  /\ gpt \in [Granules -> {"ns", "secure", "realm"}]
  /\ pe \in [PE -> PeType]

(***************************************************************************)
(* The locals of the command that holds the lock of g.                     *)
(***************************************************************************)
Holder(g) == IF lk[g] = NoPE THEN Idle ELSE pe[lk[g]]

\* RMI_REALM_CREATE has filled in its starting-level tables, and has their state still to set.
FillsRoots(e) == e.op = "realm_create" /\ e.step = "unlock_rtts"

\* The starting-level tables RMI_REALM_DESTROY has freed.
RootsFreed(e) ==
  IF e.op # "realm_destroy" THEN 0
  ELSE IF e.step = "free_rtts" THEN e.i ELSE IF e.step = "free_rd" THEN e.num ELSE 0

\* The auxiliary granules RMI_REC_DESTROY has freed.
AuxFreed(e) ==
  IF e.op # "rec_destroy" THEN 0 ELSE IF e.step = "aux" THEN e.i ELSE e.naux

\* The auxiliary granules RMI_REC_CREATE has converted and not given back.
ConvertedAux(e) ==
  IF e.op # "rec_create" THEN {}
  ELSE IF e.step = "aux" THEN 1..e.i
  ELSE IF e.step = "failed" THEN (e.i + 1)..e.naux ELSE 1..e.naux

(***************************************************************************)
(* What the RMM still owns through an RD and through a REC.                *)
(***************************************************************************)
LiveRoots(rd) ==
  (mem[rd].g_rtt + RootsFreed(Holder(rd)))..(mem[rd].g_rtt + mem[rd].num_root_rtts - 1)

LiveAux(r) == (AuxFreed(Holder(r)) + 1)..mem[r].num_aux

BeingRoot(g) == FillsRoots(Holder(g))

Recs == {g \in Granules : gs[g] = "REC"}

Contents ==
  \A g \in Granules :
    /\ gs[g] = "NS" => mem[g] = HostOwned
    /\ gs[g] = "DELEGATED" => mem[g] = IF BeingRoot(g) THEN RttMem({}) ELSE Zero
    /\ gs[g] = "RD" => /\ mem[g] \in RdContent
                       /\ mem[g].g_rtt + mem[g].num_root_rtts - 1 <= NumGranules
    /\ gs[g] = "REC" => mem[g] \in RecContent /\ \A k \in 1..mem[g].num_aux : mem[g].g_aux[k] \in Granules
    /\ gs[g] = "RTT" => mem[g] \in RttContent
    /\ gs[g] = "REC_AUX" => mem[g] \in {AuxMem, Zero}

(***************************************************************************)
(* What the steps of a command rely on, command by command: the locks that *)
(* are held, and what the granules behind them and behind the locals are.  *)
(***************************************************************************)
Holds(p, g, state) == g \in Granules /\ lk[g] = p /\ gs[g] = state

RealmCreateOk(p) ==
  LET e == pe[p] IN
  e.op = "realm_create" =>
    /\ e.rd \in Granules /\ e.root \in Granules /\ e.num # 0 /\ e.root + e.num - 1 <= NumGranules
    /\ e.vmid \in Vmid
    /\ e.step \in {"lock", "init", "unlock_rtts", "failed"}
    /\ e.step \in {"lock", "init"} => e.rd \notin RootRtts(e.root, e.num)
    /\ e.step = "lock" =>
         /\ e.i <= e.num
         /\ \A k \in 0..(e.i - 1) : Holds(p, NthToLock(e.rd, e.root, e.num, k), "DELEGATED")
    /\ e.step = "init" =>
         /\ e.i = 0 /\ Holds(p, e.rd, "DELEGATED")
         /\ \A g \in RootRtts(e.root, e.num) : Holds(p, g, "DELEGATED")
    /\ e.step = "unlock_rtts" =>
         /\ e.i < e.num
         /\ \A g \in (e.root + e.i)..(e.root + e.num - 1) : Holds(p, g, "DELEGATED")

\* The starting-level tables RMI_REALM_DESTROY has looked at and not freed.
Counted(e) ==
  IF e.step = "count" THEN e.root..(e.root + e.i - 1)
  ELSE IF e.step = "free_vmid" THEN e.root..(e.root + e.num - 1)
  ELSE IF e.step = "free_rtts" THEN (e.root + e.i)..(e.root + e.num - 1) ELSE {}

RealmDestroyOk(p) ==
  LET e == pe[p] IN
  e.op = "realm_destroy" =>
    /\ Holds(p, e.rd, "RD") /\ ref[e.rd] = 0
    /\ e.root = mem[e.rd].g_rtt /\ e.num = mem[e.rd].num_root_rtts
    /\ e.step \in {"count", "free_vmid", "free_rtts", "free_rd"}
    /\ e.step \in {"count", "free_rtts"} => e.i < e.num
    /\ e.step = "free_vmid" => e.i = 0
    /\ \A g \in Counted(e) :
         Unlocked(g) /\ gs[g] = "RTT" /\ (e.step # "count" \/ ~e.busy => ref[g] = 0)

TwoLocksOk(p) ==
  LET e == pe[p] IN
  e.op \in {"rec_create", "rtt_create"} =>
    /\ e.rd \in Granules /\ e.new \in Granules
    /\ e.step = "lock2" =>
         e.rd # e.new /\ Holds(p, FirstToLock(p), ExpectedState(p, FirstToLock(p)))
    /\ e.step = "locked" => e.rd # e.new /\ Holds(p, e.rd, "RD") /\ Holds(p, e.new, "DELEGATED")

RecCreateOk(p) ==
  LET e == pe[p] IN
  e.op = "rec_create" =>
    /\ e.step \in {"aux", "lock1", "lock2", "locked", "failed"}
    /\ e.step = "aux" => e.i < e.naux
    /\ e.step = "failed" => e.i <= e.naux
    /\ e.step \in {"lock1", "lock2", "locked"} => e.i = 0
    /\ \A k \in 1..e.naux : e.aux[k] \in Granules
    /\ \A k \in ConvertedAux(e) : gs[e.aux[k]] = "REC_AUX" /\ mem[e.aux[k]] = Zero

RecDestroyOk(p) ==
  LET e == pe[p] IN
  e.op = "rec_destroy" =>
    /\ e.step \in {"aux", "free", "put"}
    /\ e.rd \in Granules /\ gs[e.rd] = "RD"
    /\ e.step # "put" =>
         /\ Holds(p, e.new, "REC") /\ ref[e.new] = 0
         /\ e.rd = mem[e.new].g_rd /\ e.aux = mem[e.new].g_aux /\ e.naux = mem[e.new].num_aux
    /\ e.step = "aux" => e.i < e.naux

RecEnterOk(p) ==
  LET e == pe[p] IN
  e.op = "rec_enter" =>
    e.step \in {"check", "run", "put"} /\ e.new \in Granules /\ gs[e.new] = "REC"

\* A walk from the first table of a realm keeps its RD alive: whoever destroys the RD has
\* that table still to count.
Pinned(rd) == Holder(rd).op = "realm_destroy" => Holder(rd).step = "count" /\ Holder(rd).i = 0

WalkOk(p) ==
  LET e == pe[p] IN
  e.op \in {"rtt_create", "rtt_destroy"} =>
    /\ e.op = "rtt_create" =>
         e.step \in {"lock1", "lock2", "locked", "failed", "walk", "at_parent"}
    /\ e.op = "rtt_destroy" => e.step \in {"lock_root", "walk", "at_parent"}
    /\ e.step = "lock_root" => /\ Holds(p, e.rd, "RD")
                               /\ e.root = mem[e.rd].g_rtt /\ e.i < mem[e.rd].num_root_rtts
    /\ e.step \in {"walk", "at_parent"} =>
         /\ Holds(p, e.root, "RTT")
         /\ e.op = "rtt_create" => Holds(p, e.new, "DELEGATED")
    /\ e.step = "walk" =>
         /\ e.rd \in Granules /\ gs[e.rd] = "RD" /\ Pinned(e.rd)
         /\ e.root = mem[e.rd].g_rtt /\ e.i < mem[e.rd].num_root_rtts

CommandOk(p) ==
  /\ RealmCreateOk(p) /\ RealmDestroyOk(p) /\ TwoLocksOk(p) /\ RecCreateOk(p) /\ RecDestroyOk(p)
  /\ RecEnterOk(p) /\ WalkOk(p)

CommandsOk == \A p \in PE : CommandOk(p)

(***************************************************************************)
(* What objects own exists, and belongs to one object.                     *)
(***************************************************************************)
RootsOk == \A rd \in Rds : \A g \in LiveRoots(rd) : gs[g] = "RTT" \/ BeingRoot(g)

TablesOk == \A x \in Granules : gs[x] = "RTT" => \A t \in mem[x].tables : gs[t] = "RTT"

AuxOk == \A r \in Recs : \A k \in LiveAux(r) :
           gs[mem[r].g_aux[k]] = "REC_AUX" /\ mem[mem[r].g_aux[k]] = AuxMem

RootsDisjoint == \A a, b \in Rds : \A g \in LiveRoots(a) : g \in LiveRoots(b) => a = b

RootsNoTables == \A rd \in Rds, x \in Granules : gs[x] = "RTT" =>
                   \A g \in LiveRoots(rd) : g \notin mem[x].tables

TablesDisjoint == \A x, y \in Granules : gs[x] = "RTT" /\ gs[y] = "RTT" =>
                    \A t \in mem[x].tables : t \in mem[y].tables => x = y

RecAuxDisjoint == \A r, s \in Recs : \A j \in LiveAux(r), k \in LiveAux(s) :
                    mem[r].g_aux[j] = mem[s].g_aux[k] => r = s /\ j = k

ConvertedDisjoint == \A p, q \in PE : \A j \in ConvertedAux(pe[p]), k \in ConvertedAux(pe[q]) :
                       pe[p].aux[j] = pe[q].aux[k] => p = q /\ j = k

RecsOk == \A r \in Recs : gs[mem[r].g_rd] = "RD" /\ mem[r].rec_idx < mem[mem[r].g_rd].rec_count

Owned ==
  /\ RootsOk /\ TablesOk /\ AuxOk /\ RootsDisjoint /\ RootsNoTables /\ TablesDisjoint
  /\ RecAuxDisjoint /\ ConvertedDisjoint /\ RecsOk

OInv ==
  /\ LInv /\ Types /\ Contents /\ CommandsOk /\ Owned
  /\ RefcountsExact /\ RefcountFits /\ RecIndicesUnique /\ GptAgrees

-----------------------------------------------------------------------------
(***************************************************************************)
(* Facts about a state.                                                    *)
(***************************************************************************)
LEMMA GranulesAre == Granules \subseteq Nat /\ NoGranule \notin Granules /\ NoGranule \in Nat
BY SizesAssumption DEF Granules, NoGranule

LEMMA IdleTyped == Idle \in PeType /\ Idle.op = "none"
<1>1. NoAux \in AuxList  BY DEF NoAux, AuxList
<1>2. 0 \in 0..MaxRecAux  BY SizesAssumption
<1>3. QED  BY <1>1, <1>2 DEF Idle, PeType, Ops, Steps, GranuleOrNone

\* The fields of the locals, in the form arithmetic needs.
LEMMA LocalsTyped ==
  ASSUME NEW e \in PeType
  PROVE  /\ e.rd \in Nat /\ e.new \in Nat /\ e.root \in Nat /\ e.num \in Nat /\ e.naux \in Nat
         /\ e.i \in Nat /\ e.idx \in Nat /\ DOMAIN e = Fields
<1>1. DOMAIN e = Fields  BY DEF PeType, Fields
<1>2. e.naux \in 0..MaxRecAux /\ e.rd \in GranuleOrNone /\ e.new \in GranuleOrNone
      /\ e.root \in GranuleOrNone /\ e.num \in Nat /\ e.i \in Nat /\ e.idx \in Nat
  BY DEF PeType
<1>3. \A g \in GranuleOrNone : g \in Nat  BY GranulesAre DEF GranuleOrNone
<1>4. \A n \in 0..MaxRecAux : n \in Nat  BY SizesAssumption
<1>5. QED  BY <1>1, <1>2, <1>3, <1>4

\* Whoever holds a lock has a state of the granule to rely on.
LEMMA HeldState ==
  ASSUME OInv, NEW g \in Granules, NEW p \in PE, lk[g] = p
  PROVE  /\ gs[g] \in {"DELEGATED", "RD", "REC", "RTT"}
         /\ MayHold(pe[p], g)
         /\ Holder(g) = pe[p]
<1>0. MayHold(pe[p], g) /\ CommandOk(p) /\ pe[p] \in PeType
  BY DEF OInv, LInv, LocksAccounted, CommandsOk, Types
<1>1. Holder(g) = pe[p]  BY PEAssumption DEF Holder
<1>2. ASSUME pe[p].op = "realm_create" PROVE gs[g] = "DELEGATED"
  <2>1. RealmCreateOk(p)  BY <1>0 DEF CommandOk
  <2>2. QED  BY <2>1, <1>0, <1>2, LocalsTyped DEF RealmCreateOk, MayHold, Holds
<1>3. ASSUME pe[p].op = "realm_destroy" PROVE gs[g] = "RD"
  BY <1>0, <1>3 DEF CommandOk, RealmDestroyOk, MayHold, Holds
<1>4. ASSUME pe[p].op = "rec_destroy" PROVE gs[g] = "REC"
  BY <1>0, <1>4 DEF CommandOk, RecDestroyOk, MayHold, Holds
<1>5. ASSUME pe[p].op \in {"rec_create", "rtt_create", "rtt_destroy"}
      PROVE  gs[g] \in {"DELEGATED", "RD", "RTT"}
  BY <1>0, <1>5 DEF CommandOk, TwoLocksOk, WalkOk, MayHold, Holds, FirstToLock, ExpectedState
<1>6. QED  BY <1>0, <1>1, <1>2, <1>3, <1>4, <1>5 DEF MayHold

LEMMA HolderTyped ==
  ASSUME OInv, NEW g \in Granules
  PROVE  Holder(g) \in PeType
BY IdleTyped DEF OInv, LInv, Types, Holder

\* The granules that belong to an object are granules.
LEMMA OwnedAreGranules ==
  ASSUME OInv
  PROVE  /\ \A rd \in Rds : LiveRoots(rd) \subseteq Granules
         /\ \A r \in Recs : \A k \in LiveAux(r) : mem[r].g_aux[k] \in Granules
         /\ \A r \in Recs : mem[r].g_rd \in Granules
         /\ \A p \in PE : \A k \in ConvertedAux(pe[p]) : pe[p].aux[k] \in Granules
         /\ \A x \in Granules : gs[x] = "RTT" => mem[x].tables \subseteq Granules
<1>1. \A rd \in Rds : LiveRoots(rd) \subseteq Granules
  <2> SUFFICES ASSUME NEW rd \in Rds PROVE LiveRoots(rd) \subseteq Granules  OBVIOUS
  <2>1. /\ mem[rd].g_rtt \in 1..NumGranules /\ mem[rd].num_root_rtts \in Nat
        /\ mem[rd].g_rtt + mem[rd].num_root_rtts - 1 <= NumGranules /\ Holder(rd) \in PeType
    BY HolderTyped DEF Rds, OInv, Contents, RdContent, Granules
  <2>2. RootsFreed(Holder(rd)) \in Nat  BY <2>1, LocalsTyped DEF RootsFreed
  <2>3. QED  BY <2>1, <2>2, SizesAssumption DEF LiveRoots, Granules
<1>2. \A r \in Recs : \A k \in LiveAux(r) : mem[r].g_aux[k] \in Granules
  <2> SUFFICES ASSUME NEW r \in Recs, NEW k \in LiveAux(r) PROVE mem[r].g_aux[k] \in Granules  OBVIOUS
  <2>1. /\ mem[r].num_aux \in Nat /\ \A j \in 1..mem[r].num_aux : mem[r].g_aux[j] \in Granules
        /\ Holder(r) \in PeType
    BY HolderTyped, SizesAssumption DEF Recs, OInv, Contents, RecContent
  <2>2. AuxFreed(Holder(r)) \in Nat  BY <2>1, LocalsTyped DEF AuxFreed
  <2>3. k \in 1..mem[r].num_aux  BY <2>1, <2>2 DEF LiveAux
  <2>4. QED  BY <2>1, <2>3
<1>3. \A p \in PE : \A k \in ConvertedAux(pe[p]) : pe[p].aux[k] \in Granules
  <2> SUFFICES ASSUME NEW p \in PE, NEW k \in ConvertedAux(pe[p]) PROVE pe[p].aux[k] \in Granules
    OBVIOUS
  <2>1. pe[p].op = "rec_create" /\ RecCreateOk(p) /\ pe[p] \in PeType
    BY DEF ConvertedAux, OInv, CommandsOk, CommandOk, Types
  <2>2. k \in 1..pe[p].naux  BY <2>1, LocalsTyped DEF ConvertedAux, RecCreateOk
  <2>3. QED  BY <2>1, <2>2 DEF RecCreateOk
<1>4. QED  BY <1>1, <1>2, <1>3 DEF OInv, Contents, RecContent, RttContent, Recs

-----------------------------------------------------------------------------
(***************************************************************************)
(* A step of PE q, seen from the others: what a PE has locked stays as it  *)
(* is, and what it relies on without a lock is not taken away.             *)
(***************************************************************************)
Frame(q) ==
  /\ \A p \in PE : p # q => pe'[p] = pe[p]
  /\ \A g \in Granules : lk[g] \notin {q, NoPE} =>
       lk'[g] = lk[g] /\ gs'[g] = gs[g] /\ mem'[g] = mem[g] /\ (ref[g] = 0 => ref'[g] = 0)

Walks(e) == e.op \in {"rtt_create", "rtt_destroy"} /\ e.step = "walk"

Undisturbed(p) ==
  /\ pe[p].op = "realm_destroy" =>
       \A g \in Counted(pe[p]) : lk'[g] = NoPE /\ gs'[g] = "RTT" /\ (ref[g] = 0 => ref'[g] = 0)
  /\ pe[p].op = "rec_destroy" \/ Walks(pe[p]) => gs'[pe[p].rd] = "RD"
  /\ Walks(pe[p]) => /\ mem'[pe[p].rd].g_rtt = mem[pe[p].rd].g_rtt
                     /\ mem'[pe[p].rd].num_root_rtts = mem[pe[p].rd].num_root_rtts
                     /\ Pinned(pe[p].rd)'
  /\ \A k \in ConvertedAux(pe[p]) : gs'[pe[p].aux[k]] = "REC_AUX" /\ mem'[pe[p].aux[k]] = Zero
  /\ pe[p].op = "rec_enter" => gs'[pe[p].new] = "REC"

LEMMA OthersKeep ==
  ASSUME OInv, NEW q \in PE, Frame(q), NEW p \in PE, p # q, Undisturbed(p)
  PROVE  CommandOk(p)'
<1>0. pe'[p] = pe[p] /\ CommandOk(p) /\ pe[p] \in PeType
  BY DEF Frame, OInv, CommandsOk, Types
<1>1. \A g, s : Holds(p, g, s) => lk'[g] = p /\ gs'[g] = s /\ mem'[g] = mem[g] /\ (ref[g] = 0 => ref'[g] = 0)
  BY PEAssumption DEF Holds, Frame
<1>2. RealmCreateOk(p)'
  <2>1. RealmCreateOk(p)  BY <1>0 DEF CommandOk
  <2>2. QED  BY <2>1, <1>0, <1>1 DEF RealmCreateOk, Holds
<1>3. RealmDestroyOk(p)'
  <2>1. RealmDestroyOk(p)  BY <1>0 DEF CommandOk
  <2>2. QED  BY <2>1, <1>0, <1>1 DEF RealmDestroyOk, Holds, Undisturbed, Unlocked
<1>4. TwoLocksOk(p)'
  <2>1. TwoLocksOk(p)  BY <1>0 DEF CommandOk
  <2>2. QED  BY <2>1, <1>0, <1>1 DEF TwoLocksOk, Holds, FirstToLock, ExpectedState
<1>5. RecCreateOk(p)'
  <2>1. RecCreateOk(p)  BY <1>0 DEF CommandOk
  <2>2. QED  BY <2>1, <1>0 DEF RecCreateOk, Undisturbed
<1>6. RecDestroyOk(p)'
  <2>1. RecDestroyOk(p)  BY <1>0 DEF CommandOk
  <2>2. QED  BY <2>1, <1>0, <1>1 DEF RecDestroyOk, Holds, Undisturbed
<1>7. RecEnterOk(p)'
  BY <1>0 DEF CommandOk, RecEnterOk, Undisturbed
<1>8. WalkOk(p)'
  <2>1. WalkOk(p)  BY <1>0 DEF CommandOk
  <2>2. QED  BY <2>1, <1>0, <1>1 DEF WalkOk, Holds, Undisturbed, Walks
<1>9. QED  BY <1>2, <1>3, <1>4, <1>5, <1>6, <1>7, <1>8 DEF CommandOk

-----------------------------------------------------------------------------
(***************************************************************************)
(* Steps that touch only locks and locals.                                 *)
(***************************************************************************)
\* The locals change nothing in what is owned.
Quiet(e) == RootsFreed(e) = 0 /\ AuxFreed(e) = 0 /\ ~FillsRoots(e)

\* The references q stands for stay the same.
SameRefs(q) ==
  /\ pe'[q].op = "rec_enter" <=> pe[q].op = "rec_enter"
  /\ pe[q].op = "rec_enter" => pe'[q].new = pe[q].new
  /\ At(q, "rec_destroy", "put")' <=> At(q, "rec_destroy", "put")
  /\ At(q, "rec_destroy", "put") => pe'[q].rd = pe[q].rd

SameClaims(q) ==
  /\ ConvertedAux(pe'[q]) \subseteq ConvertedAux(pe[q])
  /\ ConvertedAux(pe'[q]) # {} => pe'[q].aux = pe[q].aux

LEMMA PeSetsKept ==
  ASSUME NEW q \in PE, \A p \in PE : p # q => pe'[p] = pe[p], SameRefs(q), NEW g
  PROVE  Putting(g)' = Putting(g) /\ Running(g)' = Running(g)
BY DEF SameRefs, Putting, Running, At

\* A step of a PE that holds only quiet locks leaves what is owned alone.
LEMMA QuietHolders ==
  ASSUME OInv, NEW q \in PE, \A p \in PE : p # q => pe'[p] = pe[p],
         Quiet(pe[q]), Quiet(pe'[q]),
         \A g \in Granules : lk[g] \notin {q, NoPE} => lk'[g] = lk[g],
         \A g \in Granules : lk'[g] \in {lk[g], q, NoPE},
         NEW g \in Granules
  PROVE  /\ RootsFreed(Holder(g))' = RootsFreed(Holder(g))
         /\ AuxFreed(Holder(g))' = AuxFreed(Holder(g))
         /\ BeingRoot(g)' = BeingRoot(g)
<1>1. Quiet(Idle)  BY IdleTyped DEF Quiet, RootsFreed, AuxFreed, FillsRoots
<1>2. lk[g] \in PE \cup {NoPE}  BY DEF OInv, LInv
<1>3. CASE lk[g] \notin {q, NoPE}
  <2>1. Holder(g)' = Holder(g)  BY <1>2, <1>3 DEF Holder
  <2>2. QED  BY <2>1 DEF BeingRoot, RootsFreed, AuxFreed, FillsRoots
<1>4. CASE lk[g] \in {q, NoPE}
  <2>1. Holder(g) \in {Idle, pe[q]} /\ Holder(g)' \in {Idle, pe'[q]}  BY <1>4 DEF Holder
  <2>2. Quiet(Holder(g)) /\ Quiet(Holder(g)')  BY <2>1, <1>1
  <2>3. QED  BY <2>2 DEF Quiet, BeingRoot, RootsFreed, AuxFreed, FillsRoots
<1>5. QED  BY <1>3, <1>4

LEMMA PinsKept ==
  ASSUME OInv, NEW q \in PE, \A p \in PE : p # q => pe'[p] = pe[p],
         pe'[q].op = "realm_destroy" => pe'[q].step = "count" /\ pe'[q].i = 0,
         \A g \in Granules : lk[g] \notin {q, NoPE} => lk'[g] = lk[g],
         \A g \in Granules : lk'[g] \in {lk[g], q, NoPE},
         NEW g \in Granules, Pinned(g)
  PROVE  Pinned(g)'
<1>1. lk[g] \in PE \cup {NoPE}  BY DEF OInv, LInv
<1>2. CASE lk[g] \notin {q, NoPE}
  <2>1. Holder(g)' = Holder(g)  BY <1>1, <1>2 DEF Holder
  <2>2. QED  BY <2>1 DEF Pinned
<1>3. CASE lk[g] \in {q, NoPE}
  <2>1. Holder(g)' \in {Idle, pe'[q]}  BY <1>3 DEF Holder
  <2>2. QED  BY <2>1, IdleTyped DEF Pinned
<1>4. QED  BY <1>2, <1>3

\* A walk's RD is a granule, and pinned.
LEMMA WalkersRd ==
  ASSUME OInv, NEW p \in PE, Walks(pe[p])
  PROVE  /\ pe[p].rd \in Granules /\ gs[pe[p].rd] = "RD" /\ Pinned(pe[p].rd)
         /\ pe[p].root = mem[pe[p].rd].g_rtt /\ pe[p].i < mem[pe[p].rd].num_root_rtts
         /\ pe[p].root \in Granules /\ lk[pe[p].root] = p /\ gs[pe[p].root] = "RTT"
BY DEF OInv, CommandsOk, CommandOk, WalkOk, Walks, Holds

LEMMA LockStepKeeps ==
  ASSUME OInv, LInv', NEW q \in PE, UNCHANGED <<gs, ref, mem, gpt>>,
         \A p \in PE : p # q => pe'[p] = pe[p], pe' \in [PE -> PeType],
         \A g \in Granules : lk[g] \notin {q, NoPE} => lk'[g] = lk[g],
         \A g \in Granules : lk'[g] \in {lk[g], q, NoPE},
         Quiet(pe[q]), Quiet(pe'[q]), SameRefs(q), SameClaims(q), CommandOk(q)',
         \A p \in PE : p # q /\ pe[p].op = "realm_destroy" => \A g \in Counted(pe[p]) : lk'[g] = NoPE,
         \A p \in PE : p # q /\ Walks(pe[p]) => Pinned(pe[p].rd)'
  PROVE  OInv'
<1>1. Types'  BY DEF OInv, Types
<1>2. \A g \in Granules : /\ RootsFreed(Holder(g))' = RootsFreed(Holder(g))
                          /\ AuxFreed(Holder(g))' = AuxFreed(Holder(g))
                          /\ BeingRoot(g)' = BeingRoot(g)
  BY QuietHolders
<1>3. Contents'  BY <1>2 DEF OInv, Contents
<1>4. CommandsOk'
  <2> SUFFICES ASSUME NEW p \in PE, p # q PROVE CommandOk(p)'  BY DEF CommandsOk
  <2>1. Frame(q)  BY DEF Frame
  <2>2. CommandOk(p)  BY DEF OInv, CommandsOk
  <2>3. pe[p].op = "realm_destroy" =>
          \A g \in Counted(pe[p]) : lk'[g] = NoPE /\ gs'[g] = "RTT" /\ (ref[g] = 0 => ref'[g] = 0)
    BY <2>2 DEF CommandOk, RealmDestroyOk
  <2>4. pe[p].op = "rec_destroy" \/ Walks(pe[p]) => gs'[pe[p].rd] = "RD"
    BY <2>2, WalkersRd DEF CommandOk, RecDestroyOk
  <2>5. \A k \in ConvertedAux(pe[p]) : gs'[pe[p].aux[k]] = "REC_AUX" /\ mem'[pe[p].aux[k]] = Zero
    BY <2>2 DEF CommandOk, RecCreateOk, ConvertedAux
  <2>6. pe[p].op = "rec_enter" => gs'[pe[p].new] = "REC"  BY <2>2 DEF CommandOk, RecEnterOk
  <2>7. Undisturbed(p)  BY <2>3, <2>4, <2>5, <2>6 DEF Undisturbed
  <2>8. QED  BY <2>1, <2>7, OthersKeep
<1>5. /\ \A rd \in Rds : LiveRoots(rd)' = LiveRoots(rd)
      /\ \A r \in Recs : LiveAux(r)' = LiveAux(r)
      /\ Rds' = Rds /\ Recs' = Recs
  BY <1>2 DEF LiveRoots, LiveAux, Rds, Recs
<1>6. RootsOk' /\ RootsDisjoint' /\ RootsNoTables'
  <2>1. \A rd \in Rds : LiveRoots(rd) \subseteq Granules  BY OwnedAreGranules
  <2>2. QED  BY <2>1, <1>2, <1>5 DEF OInv, Owned, RootsOk, RootsDisjoint, RootsNoTables
<1>7. TablesOk' /\ TablesDisjoint'  BY DEF OInv, Owned, TablesOk, TablesDisjoint
<1>8. AuxOk' /\ RecAuxDisjoint' /\ RecsOk'
  BY <1>5 DEF OInv, Owned, AuxOk, RecAuxDisjoint, RecsOk
<1>9. ConvertedDisjoint'
  <2>1. ConvertedDisjoint  BY DEF OInv, Owned
  <2>2. \A p \in PE : \A k \in ConvertedAux(pe'[p]) : k \in ConvertedAux(pe[p]) /\ pe'[p].aux[k] = pe[p].aux[k]
    BY DEF SameClaims
  <2>3. QED  BY <2>1, <2>2 DEF ConvertedDisjoint, ConvertedAux
<1>10. RefcountsExact' /\ RefcountFits'
  <2>1. \A g : RecsOf(g)' = RecsOf(g)  BY DEF RecsOf
  <2>2. QED  BY <2>1, PeSetsKept DEF OInv, RefcountsExact, RefcountFits
<1>11. RecIndicesUnique' /\ GptAgrees'
  BY DEF OInv, RecIndicesUnique, GptAgrees, Rds, RecsOf
<1>12. Owned'  BY <1>6, <1>7, <1>8, <1>9 DEF Owned
<1>13. QED  BY <1>1, <1>3, <1>4, <1>10, <1>11, <1>12 DEF OInv

\* The starting-level tables a destroyer has counted are granules of its realm.
LEMMA CountedAreRoots ==
  ASSUME OInv, NEW p \in PE, pe[p].op = "realm_destroy"
  PROVE  /\ pe[p].rd \in Rds /\ lk[pe[p].rd] = p /\ Holder(pe[p].rd) = pe[p]
         /\ pe[p].root = mem[pe[p].rd].g_rtt /\ pe[p].num = mem[pe[p].rd].num_root_rtts
         /\ Counted(pe[p]) \subseteq LiveRoots(pe[p].rd) /\ Counted(pe[p]) \subseteq Granules
         /\ \A g \in Counted(pe[p]) : lk[g] = NoPE /\ gs[g] = "RTT"
<1>1. /\ RealmDestroyOk(p) /\ pe[p] \in PeType  BY DEF OInv, CommandsOk, CommandOk, Types
<1>2. pe[p].rd \in Rds /\ lk[pe[p].rd] = p /\ Holder(pe[p].rd) = pe[p]
  BY <1>1, PEAssumption DEF RealmDestroyOk, Holds, Holder, Rds
<1>3. /\ pe[p].root = mem[pe[p].rd].g_rtt /\ pe[p].num = mem[pe[p].rd].num_root_rtts
      /\ pe[p].step \in {"count", "free_rtts"} => pe[p].i < pe[p].num
      /\ \A g \in Counted(pe[p]) : lk[g] = NoPE /\ gs[g] = "RTT"
  BY <1>1 DEF RealmDestroyOk, Unlocked
<1>4. Counted(pe[p]) \subseteq LiveRoots(pe[p].rd)
  BY <1>1, <1>2, <1>3, LocalsTyped DEF Counted, LiveRoots, RootsFreed
<1>5. QED  BY <1>2, <1>3, <1>4, OwnedAreGranules

\* The step that takes no root table's lock and does not move a destroyer on.
LEMMA QuietStepKeeps ==
  ASSUME OInv, LInv', NEW q \in PE, UNCHANGED <<gs, ref, mem, gpt>>,
         NEW e \in PeType, pe' = [pe EXCEPT ![q] = e],
         \A g \in Granules : lk[g] \notin {q, NoPE} => lk'[g] = lk[g],
         \A g \in Granules : lk'[g] \in {lk[g], q, NoPE},
         \A g \in Granules : lk'[g] = q => lk[g] = q \/ gs[g] # "RTT",
         Quiet(pe[q]), Quiet(e), SameRefs(q), SameClaims(q), CommandOk(q)',
         e.op = "realm_destroy" => e.step = "count" /\ e.i = 0
  PROVE  OInv'
<1>1. /\ pe'[q] = e /\ \A p \in PE : p # q => pe'[p] = pe[p]
      /\ pe' \in [PE -> PeType]
  BY DEF OInv, Types
<1>2. \A p \in PE : p # q /\ pe[p].op = "realm_destroy" => \A g \in Counted(pe[p]) : lk'[g] = NoPE
  BY CountedAreRoots, PEAssumption
<1>3. \A p \in PE : p # q /\ Walks(pe[p]) => Pinned(pe[p].rd)'
  BY <1>1, WalkersRd, PinsKept
<1>4. QED  BY <1>1, <1>2, <1>3, LockStepKeeps

LEMMA IdleOk ==
  ASSUME NEW q \in PE, pe'[q] = Idle
  PROVE  CommandOk(q)' /\ Quiet(Idle) /\ ConvertedAux(Idle) = {}
<1>1. /\ CommandOk(q)'
  BY IdleTyped DEF CommandOk, RealmCreateOk, RealmDestroyOk, TwoLocksOk, RecCreateOk, RecDestroyOk,
                   RecEnterOk, WalkOk
<1>2. QED  BY <1>1, IdleTyped DEF Quiet, RootsFreed, AuxFreed, FillsRoots, ConvertedAux

\* A command that ends without having changed an object.
LEMMA QuietReturn ==
  ASSUME OInv, LInv', NEW q \in PE, UNCHANGED <<gs, ref, mem, gpt>>, Return(q),
         \A g \in Granules : lk[g] \notin {q, NoPE} => lk'[g] = lk[g],
         \A g \in Granules : lk'[g] \in {lk[g], NoPE},
         Quiet(pe[q]), pe[q].op # "rec_enter", ~At(q, "rec_destroy", "put")
  PROVE  OInv'
<1>1. pe' = [pe EXCEPT ![q] = Idle] /\ pe'[q] = Idle  BY DEF Return, OInv, Types
<1>2. SameRefs(q)  BY <1>1, IdleTyped DEF SameRefs, At
<1>3. SameClaims(q) /\ CommandOk(q)' /\ Quiet(Idle)  BY <1>1, IdleOk DEF SameClaims
<1>4. \A g \in Granules : lk'[g] = q => lk[g] = q  BY PEAssumption
<1>5. QED  BY <1>1, <1>2, <1>3, <1>4, IdleTyped, QuietStepKeeps

\* The other commands have nothing to say about RMI_REALM_CREATE.
LEMMA OnlyRealmCreate ==
  ASSUME NEW q \in PE, pe'[q].op = "realm_create", RealmCreateOk(q)'
  PROVE  CommandOk(q)'
BY DEF CommandOk, RealmDestroyOk, TwoLocksOk, RecCreateOk, RecDestroyOk, RecEnterOk, WalkOk

-----------------------------------------------------------------------------
(***************************************************************************)
(* Steps that touch only locks and locals.                                 *)
(***************************************************************************)
\* What one PE's lock and locals look like, from the invariant.
LEMMA OfPe ==
  ASSUME OInv, NEW q \in PE
  PROVE  /\ pe[q] \in PeType /\ DOMAIN pe = PE /\ DOMAIN pe[q] = Fields
         /\ CommandOk(q) /\ lk \in [Granules -> PE \cup {NoPE}] /\ LInv
BY LocalsTyped DEF OInv, Types, CommandsOk, LInv

\* The locals of a command that moves on to step s with loop variable n.
Moved(e, s, n) == [e EXCEPT !.step = s, !.i = n]

LEMMA MovedOn ==
  ASSUME NEW e \in PeType, NEW s \in Steps, NEW n \in Nat
  PROVE  /\ Moved(e, s, n) \in PeType /\ Moved(e, s, n).step = s /\ Moved(e, s, n).i = n
         /\ Moved(e, s, n).op = e.op /\ Moved(e, s, n).rd = e.rd /\ Moved(e, s, n).new = e.new
         /\ Moved(e, s, n).root = e.root /\ Moved(e, s, n).num = e.num
         /\ Moved(e, s, n).vmid = e.vmid /\ Moved(e, s, n).aux = e.aux
         /\ Moved(e, s, n).naux = e.naux /\ Moved(e, s, n).idx = e.idx
         /\ Moved(e, s, n).busy = e.busy
<1>1. Moved(e, s, n) \in PeType  BY DEF PeType, Moved
<1>2. QED  BY <1>1 DEF PeType, Moved

\* A change of the step, and of the loop variable alone.
LEMMA GotoMoves ==
  ASSUME NEW q \in PE, pe \in [PE -> PeType], NEW s
  PROVE  /\ Goto(q, s) => pe' = [pe EXCEPT ![q] = Moved(pe[q], s, pe[q].i)]
         /\ \A n : pe' = [pe EXCEPT ![q].i = n] => pe' = [pe EXCEPT ![q] = Moved(pe[q], pe[q].step, n)]
<1>1. DOMAIN pe[q] = Fields /\ DOMAIN pe = PE  BY LocalsTyped
<1>2. [pe[q] EXCEPT !.step = s] = Moved(pe[q], s, pe[q].i)  BY <1>1 DEF Moved, Fields
<1>3. \A n : [pe[q] EXCEPT !.i = n] = Moved(pe[q], pe[q].step, n)  BY <1>1 DEF Moved, Fields
<1>4. QED  BY <1>1, <1>2, <1>3 DEF Goto

\* A command that starts, and may lock one granule that is not a table.
LEMMA QuietStart ==
  ASSUME OInv, LInv', NEW q \in PE, IsIdle(q), UNCHANGED <<gs, ref, mem, gpt>>,
         NEW e \in PeType, pe' = [pe EXCEPT ![q] = e],
         \/ UNCHANGED lk
         \/ \E g \in Granules : lk[g] = NoPE /\ gs[g] # "RTT" /\ lk' = [lk EXCEPT ![g] = q],
         Quiet(e), ConvertedAux(e) = {}, e.op # "rec_enter",
         ~(e.op = "rec_destroy" /\ e.step = "put"), CommandOk(q)',
         e.op = "realm_destroy" => e.step = "count" /\ e.i = 0
  PROVE  OInv'
<1>1. pe[q] \in PeType /\ DOMAIN pe = PE /\ lk \in [Granules -> PE \cup {NoPE}]  BY OfPe
<1>2. pe'[q] = e /\ pe[q].op = "none"  BY <1>1 DEF IsIdle
<1>3. Quiet(pe[q])  BY <1>2 DEF Quiet, RootsFreed, AuxFreed, FillsRoots
<1>4. SameRefs(q) /\ SameClaims(q)  BY <1>2 DEF SameRefs, SameClaims, At
<1>5. /\ \A g \in Granules : lk[g] \notin {q, NoPE} => lk'[g] = lk[g]
      /\ \A g \in Granules : lk'[g] \in {lk[g], q, NoPE}
      /\ \A g \in Granules : lk'[g] = q => lk[g] = q \/ gs[g] # "RTT"
  BY <1>1
<1>6. QED  BY <1>2, <1>3, <1>4, <1>5, QuietStepKeeps

LEMMA RealmCreateReserveKeeps ==
  ASSUME OInv, LInv', NEW q \in PE, NEW rp \in RealmParams, RealmCreateReserve(q, rp)
  PROVE  OInv'
<1> DEFINE e == [Idle EXCEPT !.op = "realm_create",
                             !.step = IF rp.rd \in RootRtts(rp.base, rp.num) THEN "failed" ELSE "lock",
                             !.rd = rp.rd, !.root = rp.base, !.num = rp.num, !.vmid = rp.vmid]
<1>0. /\ rp.rd \in Granules /\ rp.base \in Granules /\ rp.num \in Nat \ {0} /\ rp.vmid \in Vmid
      /\ rp.base + rp.num - 1 <= NumGranules
  BY RealmParamsAssumption, RootsFitAssumption
<1>1. e \in PeType  BY <1>0, IdleTyped DEF PeType, Ops, Steps, GranuleOrNone
<1>2. /\ e.op = "realm_create" /\ e.rd = rp.rd /\ e.root = rp.base /\ e.num = rp.num
      /\ e.vmid = rp.vmid /\ e.i = 0
      /\ e.step = IF rp.rd \in RootRtts(rp.base, rp.num) THEN "failed" ELSE "lock"
  BY DEF Idle
<1>3. pe' = [pe EXCEPT ![q] = e] /\ IsIdle(q) /\ UNCHANGED <<gs, ref, lk, mem, gpt>>
  BY DEF RealmCreateReserve
<1> HIDE DEF e
<1>4. pe'[q] = e  BY <1>3, OfPe
<1>5. RealmCreateOk(q)'  BY <1>0, <1>2, <1>4 DEF RealmCreateOk
<1>6. CommandOk(q)'  BY <1>2, <1>4, <1>5, OnlyRealmCreate
<1>7. Quiet(e) /\ ConvertedAux(e) = {}
  BY <1>2 DEF Quiet, RootsFreed, AuxFreed, FillsRoots, ConvertedAux
<1>8. QED  BY <1>1, <1>2, <1>3, <1>6, <1>7, QuietStart

LEMMA RealmCreateLockKeeps ==
  ASSUME OInv, LInv', NEW q \in PE, RealmCreateLock(q)
  PROVE  OInv'
<1> DEFINE n == NthToLock(pe[q].rd, pe[q].root, pe[q].num, pe[q].i)
<1>1. /\ pe[q] \in PeType /\ DOMAIN pe = PE /\ DOMAIN pe[q] = Fields
      /\ lk \in [Granules -> PE \cup {NoPE}] /\ RealmCreateOk(q)
      /\ pe[q].op = "realm_create" /\ pe[q].step = "lock"
      /\ UNCHANGED <<gs, ref, mem, gpt>>
  BY OfPe DEF CommandOk, RealmCreateLock, At
<1>2. Quiet(pe[q]) /\ ConvertedAux(pe[q]) = {}
  BY <1>1 DEF Quiet, RootsFreed, AuxFreed, FillsRoots, ConvertedAux
<1>3. /\ pe[q].rd \in Granules /\ pe[q].root \in Granules /\ pe[q].num \in Nat /\ pe[q].num # 0
      /\ pe[q].root + pe[q].num - 1 <= NumGranules /\ pe[q].i \in Nat /\ pe[q].i <= pe[q].num
      /\ pe[q].vmid \in Vmid
      /\ pe[q].rd \notin RootRtts(pe[q].root, pe[q].num)
      /\ \A k \in 0..(pe[q].i - 1) : Holds(q, NthToLock(pe[q].rd, pe[q].root, pe[q].num, k), "DELEGATED")
  BY <1>1, LocalsTyped DEF RealmCreateOk
<1>4. n \in Granules  BY <1>3, SizesAssumption DEF NthToLock, Granules
<1>5. ASSUME NEW e \in PeType, pe' = [pe EXCEPT ![q] = e], e.op = "realm_create",
             e.step # "unlock_rtts", RealmCreateOk(q)',
             \A g \in Granules : lk[g] \notin {q, NoPE} => lk'[g] = lk[g],
             \A g \in Granules : lk'[g] \in {lk[g], q, NoPE},
             \A g \in Granules : lk'[g] = q => lk[g] = q \/ gs[g] # "RTT"
      PROVE  OInv'
  <2>1. pe'[q] = e  BY <1>1, <1>5
  <2>2. SameRefs(q) /\ Quiet(e) /\ ConvertedAux(e) = {}
    BY <1>1, <1>5, <2>1 DEF SameRefs, At, Quiet, RootsFreed, AuxFreed, FillsRoots, ConvertedAux
  <2>3. SameClaims(q)  BY <2>1, <2>2 DEF SameClaims
  <2>4. CommandOk(q)'  BY <2>1, <1>5, OnlyRealmCreate
  <2>5. QED  BY <1>1, <1>2, <1>5, <2>2, <2>3, <2>4, QuietStepKeeps
<1>6. CASE gs[n] = "DELEGATED" /\ pe[q].i # pe[q].num
  <2> DEFINE e == Moved(pe[q], "lock", pe[q].i + 1)
  <2>1. pe' = [pe EXCEPT ![q] = e] /\ lk' = [lk EXCEPT ![n] = q] /\ lk[n] = NoPE
    BY <1>6 DEF RealmCreateLock, Unlocked, Moved
  <2>2. "lock" \in Steps /\ pe[q].i + 1 \in Nat  BY <1>3 DEF Steps
  <2>3. /\ e \in PeType /\ e.op = "realm_create" /\ e.step = "lock" /\ e.i = pe[q].i + 1
        /\ e.rd = pe[q].rd /\ e.root = pe[q].root /\ e.num = pe[q].num /\ e.vmid = pe[q].vmid
    BY <2>2, <1>1, MovedOn
  <2> HIDE DEF e
  <2>4. pe'[q] = e  BY <2>1, <1>1
  <2>5. \A k \in 0..(e.i - 1) : k \in 0..(pe[q].i - 1) \/ k = pe[q].i  BY <2>3, <1>3
  <2>6. \A g : Holds(q, g, "DELEGATED") \/ g = n => Holds(q, g, "DELEGATED")'
    BY <2>1, <1>1, <1>4, <1>6 DEF Holds
  <2>7. \A k \in 0..(e.i - 1) :
          \A g : g = NthToLock(pe[q].rd, pe[q].root, pe[q].num, k) => Holds(q, g, "DELEGATED")'
    <3> SUFFICES ASSUME NEW k \in 0..(e.i - 1) 
                 PROVE  \A g : g = NthToLock(pe[q].rd, pe[q].root, pe[q].num, k) => Holds(q, g, "DELEGATED")'
      OBVIOUS
    <3>1. CASE k \in 0..(pe[q].i - 1)
      <4>1. Holds(q, NthToLock(pe[q].rd, pe[q].root, pe[q].num, k), "DELEGATED")  BY <3>1, <1>3, Zenon
      <4>2. QED  BY <4>1, <2>6, Zenon
    <3>2. CASE k = pe[q].i  BY <3>2, <2>6, Zenon
    <3>3. QED  BY <3>1, <3>2, <2>5
  <2>8. RealmCreateOk(q)'  BY <2>3, <2>4, <2>7, <1>3, <1>6 DEF RealmCreateOk
  <2>9. QED  BY <1>1, <1>5, <1>6, <2>1, <2>2, <2>3, <2>8
<1>7. CASE gs[n] = "DELEGATED" /\ pe[q].i = pe[q].num
  <2> DEFINE e == Moved(pe[q], "init", 0)
  <2>1. pe' = [pe EXCEPT ![q] = e] /\ lk' = [lk EXCEPT ![n] = q] /\ lk[n] = NoPE
    BY <1>7 DEF RealmCreateLock, Unlocked, Moved
  <2>2. "init" \in Steps /\ 0 \in Nat  BY <1>3 DEF Steps
  <2>3. /\ e \in PeType /\ e.op = "realm_create" /\ e.step = "init" /\ e.i = 0
        /\ e.rd = pe[q].rd /\ e.root = pe[q].root /\ e.num = pe[q].num /\ e.vmid = pe[q].vmid
    BY <2>2, <1>1, MovedOn
  <2> HIDE DEF e
  <2>4. pe'[q] = e  BY <2>1, <1>1
  <2>5. \A k \in 0..pe[q].num :
          \A g : g = NthToLock(pe[q].rd, pe[q].root, pe[q].num, k) => Holds(q, g, "DELEGATED")'
    <3>1. \A g : Holds(q, g, "DELEGATED") \/ g = n => Holds(q, g, "DELEGATED")'
      BY <2>1, <1>1, <1>4, <1>7 DEF Holds
    <3>2. \A k \in 0..pe[q].num : k \in 0..(pe[q].i - 1) \/ k = pe[q].i  BY <1>3, <1>7
    <3> SUFFICES ASSUME NEW k \in 0..pe[q].num
                 PROVE  \A g : g = NthToLock(pe[q].rd, pe[q].root, pe[q].num, k) => Holds(q, g, "DELEGATED")'
      OBVIOUS
    <3>3. CASE k \in 0..(pe[q].i - 1)
      <4>1. Holds(q, NthToLock(pe[q].rd, pe[q].root, pe[q].num, k), "DELEGATED")  BY <3>3, <1>3, Zenon
      <4>2. QED  BY <4>1, <3>1, Zenon
    <3>4. CASE k = pe[q].i  BY <3>4, <3>1, Zenon
    <3>5. QED  BY <3>2, <3>3, <3>4
  <2>6. \A g : g = pe[q].rd \/ g \in RootRtts(pe[q].root, pe[q].num) =>
           \E k \in 0..pe[q].num : g = NthToLock(pe[q].rd, pe[q].root, pe[q].num, k)
    <3>1. pe[q].rd \in Nat /\ pe[q].root \in Nat  BY <1>1, LocalsTyped
    <3>2. \E k \in 0..pe[q].num : pe[q].rd = NthToLock(pe[q].rd, pe[q].root, pe[q].num, k)
      BY <3>1, <1>3 DEF NthToLock
    <3>3. ASSUME NEW g \in RootRtts(pe[q].root, pe[q].num)
          PROVE  \E k \in 0..pe[q].num : g = NthToLock(pe[q].rd, pe[q].root, pe[q].num, k)
      <4>1. g \in Nat /\ g >= pe[q].root /\ g <= pe[q].root + pe[q].num - 1
        BY <3>1, <3>3, <1>3 DEF RootRtts
      <4>2. g - pe[q].root \in 0..pe[q].num /\ g - pe[q].root # pe[q].num
            /\ g - pe[q].root + 1 \in 0..pe[q].num /\ g - pe[q].root + 1 # 0
        BY <4>1, <3>1, <1>3
      <4>3. CASE pe[q].rd < pe[q].root
        <5>1. g = NthToLock(pe[q].rd, pe[q].root, pe[q].num, g - pe[q].root + 1)
          BY <4>1, <4>2, <4>3, <3>1, <1>3 DEF NthToLock
        <5>2. QED  BY <5>1, <4>2
      <4>4. CASE ~(pe[q].rd < pe[q].root)
        <5>1. g = NthToLock(pe[q].rd, pe[q].root, pe[q].num, g - pe[q].root)
          BY <4>1, <4>2, <4>4, <3>1, <1>3 DEF NthToLock
        <5>2. QED  BY <5>1, <4>2
      <4>5. QED  BY <4>3, <4>4
    <3>4. QED  BY <3>2, <3>3
  <2>7. \A g : g = pe[q].rd \/ g \in RootRtts(pe[q].root, pe[q].num) => Holds(q, g, "DELEGATED")'
    BY <2>5, <2>6, Zenon
  <2>8. RealmCreateOk(q)'  BY <2>3, <2>4, <2>7, <1>3 DEF RealmCreateOk
  <2>9. QED  BY <1>1, <1>5, <1>7, <2>1, <2>2, <2>3, <2>8
<1>8. CASE gs[n] # "DELEGATED"
  <2> DEFINE e == Moved(pe[q], "failed", pe[q].i)
  <2>1. pe' = [pe EXCEPT ![q] = e] /\ lk' = [h \in Granules |-> IF lk[h] = q THEN NoPE ELSE lk[h]]
    BY <1>8, GotoMoves DEF RealmCreateLock, OInv, Types
  <2>2. /\ "failed" \in Steps /\ pe[q] \in PeType /\ pe[q].i \in Nat /\ pe[q].op = "realm_create"
    BY <1>1, <1>3, LocalsTyped DEF Steps
  <2>3. /\ e \in PeType /\ e.op = "realm_create" /\ e.step = "failed" /\ e.i = pe[q].i
        /\ e.rd = pe[q].rd /\ e.root = pe[q].root /\ e.num = pe[q].num /\ e.vmid = pe[q].vmid
    BY <2>2, MovedOn
  <2> HIDE DEF e
  <2>4. pe'[q] = e  BY <2>1, <1>1
  <2>5. RealmCreateOk(q)'  BY <2>3, <2>4, <1>3 DEF RealmCreateOk
  <2>6. QED  BY <1>1, <1>5, <2>1, <2>2, <2>3, <2>5, PEAssumption
<1>9. QED  BY <1>6, <1>7, <1>8

LEMMA RealmCreateFailedKeeps ==
  ASSUME OInv, LInv', NEW q \in PE, RealmCreateFailed(q)
  PROVE  OInv'
<1>1. pe[q].op = "realm_create" /\ pe[q].step = "failed"  BY DEF RealmCreateFailed, At
<1>2. Quiet(pe[q])  BY <1>1 DEF Quiet, RootsFreed, AuxFreed, FillsRoots
<1>3. QED  BY <1>1, <1>2, QuietReturn DEF RealmCreateFailed, At

\* The others have nothing to say about RMI_REALM_DESTROY.
LEMMA OnlyRealmDestroy ==
  ASSUME NEW q \in PE, pe'[q].op = "realm_destroy", RealmDestroyOk(q)'
  PROVE  CommandOk(q)'
BY DEF CommandOk, RealmCreateOk, TwoLocksOk, RecCreateOk, RecDestroyOk, RecEnterOk, WalkOk

LEMMA RealmDestroyLockKeeps ==
  ASSUME OInv, LInv', NEW q \in PE, NEW rd \in Granules, RealmDestroyLock(q, rd)
  PROVE  OInv'
<1> DEFINE e == [Idle EXCEPT !.op = "realm_destroy", !.step = "count", !.rd = rd,
                             !.root = mem[rd].g_rtt, !.num = mem[rd].num_root_rtts]
<1>0. /\ IsIdle(q) /\ lk[rd] = NoPE /\ gs[rd] = "RD" /\ ref[rd] = 0 /\ lk' = [lk EXCEPT ![rd] = q]
      /\ pe' = [pe EXCEPT ![q] = e] /\ UNCHANGED <<gs, ref, mem, gpt>>
  BY DEF RealmDestroyLock, Unlocked, Unused
<1>1. mem[rd].g_rtt \in Granules /\ mem[rd].num_root_rtts \in Nat \ {0}
  BY <1>0 DEF OInv, Contents, RdContent
<1>2. e \in PeType  BY <1>1, IdleTyped DEF PeType, Ops, Steps, GranuleOrNone
<1>3. /\ e.op = "realm_destroy" /\ e.step = "count" /\ e.rd = rd /\ e.i = 0
      /\ e.root = mem[rd].g_rtt /\ e.num = mem[rd].num_root_rtts
  BY DEF Idle
<1> HIDE DEF e
<1>4. pe'[q] = e /\ lk'[rd] = q  BY <1>0, OfPe
<1>5. Counted(e) = {}
  <2>1. e.root \in Nat /\ e.i = 0  BY <1>2, <1>3, LocalsTyped
  <2>2. QED  BY <2>1, <1>3 DEF Counted
<1>6. RealmDestroyOk(q)'  BY <1>0, <1>1, <1>3, <1>4, <1>5 DEF RealmDestroyOk, Holds
<1>7. CommandOk(q)'  BY <1>3, <1>4, <1>6, OnlyRealmDestroy
<1>8. Quiet(e) /\ ConvertedAux(e) = {}
  BY <1>3 DEF Quiet, RootsFreed, AuxFreed, FillsRoots, ConvertedAux
<1>9. QED  BY <1>0, <1>2, <1>3, <1>7, <1>8, QuietStart

\* A destroyer of a realm moves on when no walk pins the RD.
LEMMA DestroyerMoves ==
  ASSUME OInv, LInv', NEW q \in PE, pe[q].op = "realm_destroy", UNCHANGED <<gs, ref, mem, gpt, lk>>,
         Quiet(pe[q]), NEW e \in PeType, pe' = [pe EXCEPT ![q] = e], e.op = "realm_destroy",
         Quiet(e), RealmDestroyOk(q)',
         \A p \in PE : p # q /\ Walks(pe[p]) => pe[p].rd # pe[q].rd
  PROVE  OInv'
<1>1. /\ DOMAIN pe = PE /\ pe'[q] = e /\ \A p \in PE : p # q => pe'[p] = pe[p]
      /\ pe' \in [PE -> PeType]
  BY OfPe DEF OInv, Types
<1>2. SameRefs(q) /\ ConvertedAux(e) = {}  BY <1>1 DEF SameRefs, At, ConvertedAux
<1>3. SameClaims(q) /\ CommandOk(q)'  BY <1>1, <1>2, OnlyRealmDestroy DEF SameClaims
<1>4. \A p \in PE : p # q /\ pe[p].op = "realm_destroy" => \A g \in Counted(pe[p]) : lk'[g] = NoPE
  BY CountedAreRoots
<1>5. ASSUME NEW p \in PE, p # q, Walks(pe[p]) PROVE Pinned(pe[p].rd)'
  <2>1. pe[p].rd \in Granules /\ Pinned(pe[p].rd) /\ pe[p].rd # pe[q].rd  BY <1>5, WalkersRd
  <2>2. lk[pe[p].rd] # q
    <3>1. \A g \in Granules : lk[g] = q => MayHold(pe[q], g)  BY DEF OInv, LInv, LocksAccounted
    <3>2. QED  BY <2>1, <3>1 DEF MayHold
  <2>3. lk[pe[p].rd] \in PE \cup {NoPE}  BY <2>1 DEF OInv, LInv
  <2>4. ASSUME NEW g, g = pe[p].rd PROVE Pinned(g)'
    <3>1. Holder(g)' = Holder(g)  BY <2>2, <2>3, <2>4, <1>1 DEF Holder
    <3>2. QED  BY <3>1, <2>1, <2>4 DEF Pinned
  <2>5. pe'[p].rd = pe[p].rd  BY <1>1, <1>5
  <2>6. QED  BY <2>4, <2>5
<1>6. QED  BY <1>1, <1>2, <1>3, <1>4, <1>5, LockStepKeeps

LEMMA RealmDestroyCountKeeps ==
  ASSUME OInv, LInv', NEW q \in PE, RealmDestroyCount(q)
  PROVE  OInv'
<1> DEFINE n == pe[q].root + pe[q].i
           last == pe[q].i + 1 = pe[q].num
<1>1. /\ pe[q] \in PeType /\ DOMAIN pe = PE /\ DOMAIN pe[q] = Fields
      /\ lk \in [Granules -> PE \cup {NoPE}] /\ RealmDestroyOk(q)
      /\ pe[q].op = "realm_destroy" /\ pe[q].step = "count" /\ lk[n] = NoPE
      /\ UNCHANGED <<gs, ref, mem, gpt>>
  BY OfPe DEF CommandOk, RealmDestroyCount, At, Unlocked
<1>2. /\ Holds(q, pe[q].rd, "RD") /\ ref[pe[q].rd] = 0 /\ pe[q].root = mem[pe[q].rd].g_rtt
      /\ pe[q].num = mem[pe[q].rd].num_root_rtts /\ pe[q].i < pe[q].num
      /\ \A g \in Counted(pe[q]) : Unlocked(g) /\ gs[g] = "RTT" /\ (~pe[q].busy => ref[g] = 0)
  BY <1>1 DEF RealmDestroyOk
<1>3. Quiet(pe[q])  BY <1>1 DEF Quiet, RootsFreed, AuxFreed, FillsRoots
<1>4. pe[q].rd \in Rds /\ Holder(pe[q].rd) = pe[q]  BY <1>1, CountedAreRoots
<1>5. pe[q].root \in Nat /\ pe[q].i \in Nat /\ pe[q].num \in Nat  BY <1>1, LocalsTyped
<1>6. n \in LiveRoots(pe[q].rd)
  BY <1>1, <1>2, <1>4, <1>5 DEF LiveRoots, RootsFreed
<1>7. gs[n] = "RTT"
  <2>1. gs[n] = "RTT" \/ BeingRoot(n)  BY <1>4, <1>6 DEF OInv, Owned, RootsOk
  <2>2. ~BeingRoot(n)  BY <1>1, IdleTyped DEF BeingRoot, Holder, FillsRoots
  <2>3. QED  BY <2>1, <2>2
<1>8. \A p \in PE : p # q /\ Walks(pe[p]) => pe[p].rd # pe[q].rd
  <2> SUFFICES ASSUME NEW p \in PE, p # q, Walks(pe[p]), pe[p].rd = pe[q].rd PROVE FALSE  OBVIOUS
  <2>1. Pinned(pe[q].rd) /\ lk[pe[q].root] = p  BY <1>2, WalkersRd
  <2>2. pe[q].i = 0  BY <2>1, <1>1, <1>4 DEF Pinned
  <2>3. QED  BY <2>1, <2>2, <1>1, <1>5, PEAssumption
<1>9. CASE last /\ RootsBusy(q, n)
  <2>1. lk' = [lk EXCEPT ![pe[q].rd] = NoPE] /\ Return(q)  BY <1>9 DEF RealmDestroyCount
  <2>2. lk[pe[q].rd] = q  BY <1>2 DEF Holds
  <2>3. QED  BY <2>1, <2>2, <1>1, <1>3, QuietReturn DEF At
<1>10. CASE ~(last /\ RootsBusy(q, n))
  <2> DEFINE s == IF last THEN "free_vmid" ELSE "count"
             i == IF last THEN 0 ELSE pe[q].i + 1
             e == [pe[q] EXCEPT !.step = s, !.busy = RootsBusy(q, n), !.i = i]
  <2>1. pe' = [pe EXCEPT ![q] = e] /\ UNCHANGED lk  BY <1>10 DEF RealmDestroyCount
  <2>2. RootsBusy(q, n) \in BOOLEAN /\ s \in Steps /\ i \in Nat
    <3>1. pe[q].busy \in BOOLEAN  BY <1>1 DEF PeType
    <3>2. QED  BY <3>1, <1>5 DEF RootsBusy, Steps
  <2>3. /\ e.op = "realm_destroy" /\ e.step = s /\ e.i = i /\ e.rd = pe[q].rd /\ e.root = pe[q].root
        /\ e.num = pe[q].num /\ e.busy = RootsBusy(q, n)
    BY <1>1 DEF Fields
  <2>4. e \in PeType
    <3> HIDE DEF s, i
    <3>1. \A b \in BOOLEAN : [pe[q] EXCEPT !.step = s, !.busy = b, !.i = i] \in PeType
      BY <2>2, <1>1 DEF PeType
    <3>2. QED  BY <3>1, <2>2
  <2> HIDE DEF e
  <2>5. pe'[q] = e  BY <2>1, <1>1
  <2>6. \A g \in Counted(e) : g \in Counted(pe[q]) \/ g = n
    BY <2>3, <1>1, <1>2, <1>5 DEF Counted
  <2>7. e.step # "count" \/ ~e.busy => ~pe[q].busy /\ ref[n] = 0
    BY <2>3, <1>10 DEF RootsBusy
  <2>8. \A g \in Counted(e) : lk[g] = NoPE /\ gs[g] = "RTT" /\ (e.step # "count" \/ ~e.busy => ref[g] = 0)
    BY <2>6, <2>7, <1>1, <1>2, <1>7 DEF Unlocked
  <2>9. s = "count" => i < pe[q].num  BY <1>2, <1>5
  <2>10. s \in {"count", "free_vmid"} /\ (s = "free_vmid" => i = 0)  OBVIOUS
  <2> HIDE DEF s, i
  <2>11. RealmDestroyOk(q)'
    BY <2>1, <2>3, <2>5, <2>8, <2>9, <2>10, <1>1, <1>2 DEF RealmDestroyOk, Holds, Unlocked
  <2>12. Quiet(e)  BY <2>3, <2>10 DEF Quiet, RootsFreed, AuxFreed, FillsRoots
  <2>13. QED  BY <2>1, <2>3, <2>4, <2>11, <2>12, <1>1, <1>3, <1>8, DestroyerMoves
<1>11. QED  BY <1>9, <1>10

LEMMA RealmDestroyFreeVmidKeeps ==
  ASSUME OInv, LInv', NEW q \in PE, RealmDestroyFreeVmid(q)
  PROVE  OInv'
<1> DEFINE e == Moved(pe[q], "free_rtts", pe[q].i)
<1>1. /\ pe[q] \in PeType /\ DOMAIN pe = PE /\ RealmDestroyOk(q)
      /\ pe[q].op = "realm_destroy" /\ pe[q].step = "free_vmid" /\ pe' = [pe EXCEPT ![q] = e]
      /\ UNCHANGED <<gs, ref, lk, mem, gpt>>
  BY OfPe, GotoMoves DEF CommandOk, RealmDestroyFreeVmid, At, OInv, Types
<1>2. pe[q].i \in Nat /\ "free_rtts" \in Steps  BY <1>1, LocalsTyped DEF Steps
<1>3. /\ e \in PeType /\ e.op = "realm_destroy" /\ e.step = "free_rtts" /\ e.i = pe[q].i
      /\ e.rd = pe[q].rd /\ e.root = pe[q].root /\ e.num = pe[q].num
  BY <1>1, <1>2, MovedOn
<1> HIDE DEF e
<1>4. pe'[q] = e  BY <1>1
<1>5. /\ Holds(q, pe[q].rd, "RD") /\ ref[pe[q].rd] = 0 /\ pe[q].root = mem[pe[q].rd].g_rtt
      /\ pe[q].num = mem[pe[q].rd].num_root_rtts /\ pe[q].i = 0
      /\ \A g \in Counted(pe[q]) : Unlocked(g) /\ gs[g] = "RTT" /\ ref[g] = 0
  BY <1>1 DEF RealmDestroyOk
<1>6. pe[q].root \in Nat /\ pe[q].num \in Nat  BY <1>1, LocalsTyped
<1>7. Counted(e) = Counted(pe[q]) /\ e.i < e.num
  <2>1. mem[pe[q].rd].num_root_rtts \in Nat \ {0}
    BY <1>5 DEF OInv, Contents, RdContent, Holds
  <2>2. QED  BY <2>1, <1>1, <1>3, <1>5, <1>6 DEF Counted
<1>8. RealmDestroyOk(q)'  BY <1>1, <1>3, <1>4, <1>5, <1>7 DEF RealmDestroyOk, Holds, Unlocked
<1>9. Quiet(pe[q]) /\ Quiet(e)
  BY <1>1, <1>3, <1>5 DEF Quiet, RootsFreed, AuxFreed, FillsRoots
<1>10. \A p \in PE : p # q /\ Walks(pe[p]) => pe[p].rd # pe[q].rd
  BY <1>1, WalkersRd, CountedAreRoots DEF Pinned
<1>11. QED  BY <1>1, <1>3, <1>8, <1>9, <1>10, DestroyerMoves

\* The commands that turn a delegated granule into an object, before they touch one.
LEMMA FindLockMove ==
  ASSUME OInv, LInv', NEW q \in PE, pe[q].op \in {"rec_create", "rtt_create"},
         pe[q].step \in {"lock1", "lock2", "locked"}, NEW s \in {"lock2", "locked", "failed"},
         Goto(q, s), UNCHANGED <<gs, ref, mem, gpt>>,
         \A g \in Granules : lk[g] \notin {q, NoPE} => lk'[g] = lk[g],
         \A g \in Granules : lk'[g] \in {lk[g], q, NoPE},
         \A g \in Granules : lk'[g] = q => lk[g] = q \/ gs[g] # "RTT",
         \A a, b : a = pe[q].rd /\ b = pe[q].new =>
           /\ s = "lock2" => a # b /\ Holds(q, Min2(a, b), IF Min2(a, b) = a THEN "RD" ELSE "DELEGATED")'
           /\ s = "locked" => a # b /\ Holds(q, a, "RD")' /\ Holds(q, b, "DELEGATED")'
  PROVE  OInv'
<1> DEFINE e == Moved(pe[q], s, pe[q].i)
<1>1. /\ pe[q] \in PeType /\ DOMAIN pe = PE /\ CommandOk(q) /\ pe' = [pe EXCEPT ![q] = e]
  BY OfPe, GotoMoves DEF OInv, Types
<1>2. pe[q].i \in Nat /\ s \in Steps  BY <1>1, LocalsTyped DEF Steps
<1>3. /\ e \in PeType /\ e.op = pe[q].op /\ e.step = s /\ e.i = pe[q].i /\ e.rd = pe[q].rd
      /\ e.new = pe[q].new /\ e.aux = pe[q].aux /\ e.naux = pe[q].naux
  BY <1>1, <1>2, MovedOn
<1> HIDE DEF e
<1>4. pe'[q] = e  BY <1>1
<1>5. pe[q].op = "rec_create" => pe[q].i = 0  BY <1>1 DEF CommandOk, RecCreateOk
<1>6. ConvertedAux(e) = ConvertedAux(pe[q])  BY <1>3, <1>5 DEF ConvertedAux
<1>7. /\ Quiet(pe[q]) /\ Quiet(e) /\ SameRefs(q) /\ SameClaims(q)
  BY <1>3, <1>4, <1>6 DEF Quiet, RootsFreed, AuxFreed, FillsRoots, SameRefs, SameClaims, At
<1>8. TwoLocksOk(q)'
  <2>1. pe[q].rd \in Granules /\ pe[q].new \in Granules  BY <1>1 DEF CommandOk, TwoLocksOk
  <2>2. FirstToLock(q)' = Min2(pe[q].rd, pe[q].new)  BY <1>3, <1>4 DEF FirstToLock
  <2>3. \A g : ExpectedState(q, g)' = IF g = pe[q].rd THEN "RD" ELSE "DELEGATED"
    BY <1>3, <1>4 DEF ExpectedState
  <2>4. s = "lock2" => Holds(q, FirstToLock(q), ExpectedState(q, FirstToLock(q)))'
    BY <2>2, <2>3 DEF Holds, ExpectedState, FirstToLock
  <2>5. QED  BY <2>1, <2>4, <1>3, <1>4 DEF TwoLocksOk
<1>9. RecCreateOk(q)'
  <2>1. RecCreateOk(q)  BY <1>1 DEF CommandOk
  <2>2. pe[q].naux \in Nat  BY <1>1, LocalsTyped
  <2>3. QED  BY <2>1, <2>2, <1>3, <1>4, <1>5, <1>6 DEF RecCreateOk
<1>10. CommandOk(q)'
  BY <1>3, <1>4, <1>8, <1>9 DEF CommandOk, RealmCreateOk, RealmDestroyOk, RecDestroyOk, RecEnterOk, WalkOk
<1>11. e.op # "realm_destroy"  BY <1>3
<1>12. QED  BY <1>1, <1>3, <1>7, <1>10, <1>11, QuietStepKeeps

LEMMA FindLockKeepsObjects ==
  ASSUME OInv, LInv', NEW q \in PE, pe[q].op \in {"rec_create", "rtt_create"},
         find_lock_two_granules(q)
  PROVE  OInv'
<1>1. /\ pe[q] \in PeType /\ DOMAIN pe = PE /\ TwoLocksOk(q)
      /\ lk \in [Granules -> PE \cup {NoPE}]
      /\ UNCHANGED <<gs, ref, mem, gpt>>
  BY OfPe DEF CommandOk, find_lock_two_granules, FindLockDuplicate, FindLockFirst, FindLockSecond
<1>2. pe[q].rd \in Granules /\ pe[q].new \in Granules /\ pe[q].rd \in Nat /\ pe[q].new \in Nat
  BY <1>1, LocalsTyped DEF TwoLocksOk
<1>3. FirstToLock(q) \in Granules /\ SecondToLock(q) \in Granules
  BY <1>2 DEF FirstToLock, SecondToLock, Min2
<1>4. CASE FindLockDuplicate(q)
  <2>1. Goto(q, "failed") /\ UNCHANGED lk /\ pe[q].step = "lock1"  BY <1>4 DEF FindLockDuplicate
  <2>2. QED  BY <2>1, <1>1, FindLockMove
<1>5. CASE FindLockFirst(q)
  <2> DEFINE g == FirstToLock(q)
  <2>1. pe[q].step = "lock1" /\ pe[q].rd # pe[q].new /\ lk[g] = NoPE
    BY <1>5 DEF FindLockFirst, Unlocked
  <2>2. CASE gs[g] = ExpectedState(q, g)
    <3>1. Goto(q, "lock2") /\ lk' = [lk EXCEPT ![g] = q]  BY <1>5, <2>2 DEF FindLockFirst
    <3>2. lk'[g] = q /\ gs'[g] = IF g = pe[q].rd THEN "RD" ELSE "DELEGATED"
      BY <3>1, <2>2, <1>1, <1>3 DEF ExpectedState
    <3>3. \A a, b : a = pe[q].rd /\ b = pe[q].new =>
            Holds(q, Min2(a, b), IF Min2(a, b) = a THEN "RD" ELSE "DELEGATED")'
      BY <3>2, <1>3 DEF FirstToLock, Holds, Min2
    <3>4. gs[g] # "RTT"  BY <2>2 DEF ExpectedState
    <3>5. /\ \A h \in Granules : lk[h] \notin {q, NoPE} => lk'[h] = lk[h]
          /\ \A h \in Granules : lk'[h] \in {lk[h], q, NoPE}
          /\ \A h \in Granules : lk'[h] = q => lk[h] = q \/ gs[h] # "RTT"
      BY <3>1, <3>4, <2>1, <1>1
    <3> HIDE DEF g
    <3>6. QED  BY <3>1, <3>3, <3>5, <2>1, <1>1, FindLockMove
  <2>3. CASE gs[g] # ExpectedState(q, g)
    <3>1. Goto(q, "failed") /\ UNCHANGED lk  BY <1>5, <2>3 DEF FindLockFirst
    <3>2. QED  BY <3>1, <2>1, <1>1, FindLockMove
  <2>4. QED  BY <2>2, <2>3
<1>6. CASE FindLockSecond(q)
  <2> DEFINE g == SecondToLock(q)
             h == FirstToLock(q)
  <2>1. /\ pe[q].step = "lock2" /\ lk[g] = NoPE /\ pe[q].rd # pe[q].new
        /\ Holds(q, h, ExpectedState(q, h))
    BY <1>1, <1>6 DEF FindLockSecond, Unlocked, TwoLocksOk
  <2>2. CASE gs[g] = ExpectedState(q, g)
    <3>1. Goto(q, "locked") /\ lk' = [lk EXCEPT ![g] = q]  BY <1>6, <2>2 DEF FindLockSecond
    <3>2. /\ lk'[g] = q /\ gs'[g] = IF g = pe[q].rd THEN "RD" ELSE "DELEGATED"
          /\ lk'[h] = q /\ gs'[h] = IF h = pe[q].rd THEN "RD" ELSE "DELEGATED"
      BY <3>1, <2>1, <2>2, <1>1, <1>3 DEF ExpectedState, Holds
    <3>3. \A a, b : a = pe[q].rd /\ b = pe[q].new => Holds(q, a, "RD")' /\ Holds(q, b, "DELEGATED")'
      BY <3>2, <2>1, <1>2 DEF FirstToLock, SecondToLock, Holds, Min2
    <3>4. gs[g] # "RTT"  BY <2>2 DEF ExpectedState
    <3>5. /\ \A x \in Granules : lk[x] \notin {q, NoPE} => lk'[x] = lk[x]
          /\ \A x \in Granules : lk'[x] \in {lk[x], q, NoPE}
          /\ \A x \in Granules : lk'[x] = q => lk[x] = q \/ gs[x] # "RTT"
      BY <3>1, <3>4, <2>1, <1>1
    <3> HIDE DEF g, h
    <3>6. QED  BY <3>1, <3>3, <3>5, <2>1, <1>1, FindLockMove
  <2>3. CASE gs[g] # ExpectedState(q, g)
    <3>1. Goto(q, "failed") /\ lk' = [lk EXCEPT ![h] = NoPE] /\ lk[h] = q
      BY <1>6, <2>1, <2>3 DEF FindLockSecond, Holds
    <3>2. /\ \A x \in Granules : lk[x] \notin {q, NoPE} => lk'[x] = lk[x]
          /\ \A x \in Granules : lk'[x] \in {lk[x], q, NoPE}
          /\ \A x \in Granules : lk'[x] = q => lk[x] = q
      BY <3>1, <1>1, PEAssumption
    <3> HIDE DEF g, h
    <3>3. QED  BY <3>1, <3>2, <2>1, <1>1, FindLockMove
  <2>4. QED  BY <2>2, <2>3
<1>7. QED  BY <1>4, <1>5, <1>6 DEF find_lock_two_granules

LEMMA RecCreateRefusedKeeps ==
  ASSUME OInv, LInv', NEW q \in PE, RecCreateRefused(q)
  PROVE  OInv'
<1>1. /\ lk \in [Granules -> PE \cup {NoPE}] /\ TwoLocksOk(q)
      /\ pe[q].op = "rec_create" /\ pe[q].step = "locked" /\ Goto(q, "failed")
      /\ lk' = [lk EXCEPT ![pe[q].rd] = NoPE, ![pe[q].new] = NoPE]
      /\ UNCHANGED <<gs, ref, mem, gpt>>
  BY OfPe DEF CommandOk, RecCreateRefused, At
<1>2. lk[pe[q].rd] = q /\ lk[pe[q].new] = q  BY <1>1 DEF TwoLocksOk, Holds
<1>3. /\ \A g \in Granules : lk[g] \notin {q, NoPE} => lk'[g] = lk[g]
      /\ \A g \in Granules : lk'[g] \in {lk[g], q, NoPE}
      /\ \A g \in Granules : lk'[g] = q => lk[g] = q
  BY <1>1, <1>2, PEAssumption
<1>4. QED  BY <1>1, <1>3, FindLockMove

LEMMA RecCreateStartKeeps ==
  ASSUME OInv, LInv', NEW q \in PE, NEW rp \in RecParams, RecCreateStart(q, rp)
  PROVE  OInv'
<1> DEFINE e == [Idle EXCEPT !.op = "rec_create",
                             !.step = IF rp.naux = 0 THEN "lock1" ELSE "aux",
                             !.rd = rp.rd, !.new = rp.rec, !.idx = rp.idx,
                             !.aux = rp.aux, !.naux = rp.naux]
<1>0. /\ rp.rd \in Granules /\ rp.rec \in Granules /\ rp.idx \in Nat /\ rp.aux \in AuxList
      /\ rp.naux \in 0..MaxRecAux /\ rp.naux \in Nat /\ \A k \in 1..rp.naux : rp.aux[k] \in Granules
  BY RecParamsAssumption, AuxListAssumption, SizesAssumption
<1>1. e \in PeType  BY <1>0, IdleTyped DEF PeType, Ops, Steps, GranuleOrNone
<1>2. /\ e.op = "rec_create" /\ e.rd = rp.rd /\ e.new = rp.rec /\ e.aux = rp.aux /\ e.naux = rp.naux
      /\ e.i = 0 /\ e.step = IF rp.naux = 0 THEN "lock1" ELSE "aux"
  BY DEF Idle
<1>3. pe' = [pe EXCEPT ![q] = e] /\ IsIdle(q) /\ UNCHANGED <<gs, ref, lk, mem, gpt>>
  BY DEF RecCreateStart
<1> HIDE DEF e
<1>4. pe'[q] = e  BY <1>3, OfPe
<1>5. ConvertedAux(e) = {}  BY <1>0, <1>2 DEF ConvertedAux
<1>6. RecCreateOk(q)' /\ TwoLocksOk(q)'
  BY <1>0, <1>2, <1>4, <1>5 DEF RecCreateOk, TwoLocksOk
<1>7. CommandOk(q)'
  BY <1>2, <1>4, <1>6 DEF CommandOk, RealmCreateOk, RealmDestroyOk, RecDestroyOk, RecEnterOk, WalkOk
<1>8. Quiet(e)  BY <1>2 DEF Quiet, RootsFreed, AuxFreed, FillsRoots
<1>9. QED  BY <1>1, <1>2, <1>3, <1>5, <1>7, <1>8, QuietStart

LEMMA RttCreateStartKeeps ==
  ASSUME OInv, LInv', NEW q \in PE, NEW tp \in RttParams, RttCreateStart(q, tp)
  PROVE  OInv'
<1> DEFINE e == [Idle EXCEPT !.op = "rtt_create", !.step = "lock1", !.rd = tp.rd,
                             !.new = tp.rtt, !.i = tp.k]
<1>0. tp.rd \in Granules /\ tp.rtt \in Granules /\ tp.k \in Nat  BY RttParamsAssumption
<1>1. e \in PeType  BY <1>0, IdleTyped DEF PeType, Ops, Steps, GranuleOrNone
<1>2. e.op = "rtt_create" /\ e.rd = tp.rd /\ e.new = tp.rtt /\ e.step = "lock1"
  BY DEF Idle
<1>3. pe' = [pe EXCEPT ![q] = e] /\ IsIdle(q) /\ UNCHANGED <<gs, ref, lk, mem, gpt>>
  BY DEF RttCreateStart
<1> HIDE DEF e
<1>4. pe'[q] = e  BY <1>3, OfPe
<1>5. ConvertedAux(e) = {} /\ Quiet(e)
  BY <1>2 DEF ConvertedAux, Quiet, RootsFreed, AuxFreed, FillsRoots
<1>6. CommandOk(q)'
  BY <1>0, <1>2, <1>4 DEF CommandOk, TwoLocksOk, RecCreateOk, RealmCreateOk, RealmDestroyOk,
                          RecDestroyOk, RecEnterOk, WalkOk
<1>7. QED  BY <1>1, <1>2, <1>3, <1>5, <1>6, QuietStart

\* A walk that moves on, and may take the lock of a table no destroyer has counted.
LEMMA WalkMoves ==
  ASSUME OInv, LInv', NEW q \in PE, pe[q].op \in {"rtt_create", "rtt_destroy"},
         UNCHANGED <<gs, ref, mem, gpt>>, NEW e \in PeType, e.op = pe[q].op,
         pe' = [pe EXCEPT ![q] = e], WalkOk(q)', TwoLocksOk(q)',
         \A g \in Granules : lk[g] \notin {q, NoPE} => lk'[g] = lk[g],
         \A g \in Granules : lk'[g] \in {lk[g], q, NoPE},
         \A g \in Granules : lk'[g] = q =>
           \/ lk[g] = q
           \/ \A p \in PE : p # q /\ pe[p].op = "realm_destroy" => g \notin Counted(pe[p])
  PROVE  OInv'
<1>1. /\ DOMAIN pe = PE /\ pe'[q] = e /\ \A p \in PE : p # q => pe'[p] = pe[p]
      /\ pe' \in [PE -> PeType]
  BY OfPe DEF OInv, Types
<1>2. Quiet(pe[q]) /\ Quiet(e) /\ ConvertedAux(e) = {}
  BY DEF Quiet, RootsFreed, AuxFreed, FillsRoots, ConvertedAux
<1>3. SameRefs(q) /\ SameClaims(q)  BY <1>1, <1>2 DEF SameRefs, SameClaims, At
<1>4. CommandOk(q)'
  BY <1>1 DEF CommandOk, RecCreateOk, RealmCreateOk, RealmDestroyOk, RecDestroyOk, RecEnterOk
<1>5. \A p \in PE : p # q /\ pe[p].op = "realm_destroy" => \A g \in Counted(pe[p]) : lk'[g] = NoPE
  BY CountedAreRoots, PEAssumption
<1>6. ASSUME NEW p \in PE, p # q, Walks(pe[p]) PROVE Pinned(pe[p].rd)'
  <2>1. pe[p].rd \in Granules /\ Pinned(pe[p].rd)  BY <1>6, WalkersRd
  <2>2. pe'[q].op # "realm_destroy"  BY <1>1
  <2>3. ASSUME NEW g \in Granules, Pinned(g) PROVE Pinned(g)'  BY <2>2, <2>3, <1>1, PinsKept
  <2>4. pe'[p].rd = pe[p].rd  BY <1>1, <1>6
  <2>5. QED  BY <2>1, <2>3, <2>4
<1>7. QED  BY <1>1, <1>2, <1>3, <1>4, <1>5, <1>6, LockStepKeeps

\* A table of a realm that nobody tears down is in nobody's count, and is an RTT once it is free.
LEMMA FirstTableFree ==
  ASSUME OInv, NEW q \in PE, NEW rd \in Granules, gs[rd] = "RD",
         Pinned(rd), NEW k \in Nat, k < mem[rd].num_root_rtts
  PROVE  /\ mem[rd].g_rtt + k \in Granules
         /\ Unlocked(mem[rd].g_rtt + k) => gs[mem[rd].g_rtt + k] = "RTT"
         /\ \A p \in PE : pe[p].op = "realm_destroy" => mem[rd].g_rtt + k \notin Counted(pe[p])
<1> DEFINE g == mem[rd].g_rtt + k
<1>1. mem[rd].g_rtt \in Nat /\ mem[rd].num_root_rtts \in Nat /\ rd \in Rds
  BY GranulesAre DEF OInv, Contents, RdContent, Rds
<1>2. RootsFreed(Holder(rd)) = 0  BY DEF Pinned, RootsFreed
<1>3. g \in LiveRoots(rd)  BY <1>1, <1>2 DEF LiveRoots
<1> HIDE DEF g
<1>4. g \in Granules  BY <1>1, <1>3, OwnedAreGranules
<1>5. Unlocked(g) => gs[g] = "RTT"
  <2>1. gs[g] = "RTT" \/ BeingRoot(g)  BY <1>1, <1>3 DEF OInv, Owned, RootsOk
  <2>2. Unlocked(g) => ~BeingRoot(g)  BY IdleTyped DEF BeingRoot, Holder, FillsRoots, Unlocked
  <2>3. QED  BY <2>1, <2>2
<1>6. ASSUME NEW p \in PE, pe[p].op = "realm_destroy", g \in Counted(pe[p]) PROVE FALSE
  <2>1. /\ pe[p].rd \in Rds /\ Counted(pe[p]) \subseteq LiveRoots(pe[p].rd)
        /\ Holder(pe[p].rd) = pe[p]
    BY <1>6, CountedAreRoots
  <2>2. pe[p].rd = rd  BY <2>1, <1>1, <1>3, <1>6 DEF OInv, Owned, RootsDisjoint
  <2>3. pe[p].step = "count" /\ pe[p].i = 0  BY <2>1, <2>2, <1>6 DEF Pinned
  <2>4. pe[p].root \in Nat  BY OfPe, LocalsTyped
  <2>5. Counted(pe[p]) = {}  BY <2>3, <2>4 DEF Counted
  <2>6. QED  BY <2>5, <1>6
<1>7. QED  BY <1>4, <1>5, <1>6 DEF g

LEMMA RttCreateLockRootKeeps ==
  ASSUME OInv, LInv', NEW q \in PE, RttCreateLockRoot(q)
  PROVE  OInv'
<1> DEFINE rd == pe[q].rd
           g  == mem[rd].g_rtt
           e  == [pe[q] EXCEPT !.root = g, !.step = "walk"]
<1>1. /\ pe[q] \in PeType /\ DOMAIN pe = PE /\ DOMAIN pe[q] = Fields
      /\ lk \in [Granules -> PE \cup {NoPE}] /\ TwoLocksOk(q)
      /\ pe[q].op = "rtt_create" /\ pe[q].step = "locked" /\ pe[q].i < mem[rd].num_root_rtts
      /\ lk[g] = NoPE /\ lk' = [lk EXCEPT ![g] = q, ![rd] = NoPE] /\ pe' = [pe EXCEPT ![q] = e]
      /\ UNCHANGED <<gs, ref, mem, gpt>>
  BY OfPe DEF CommandOk, RttCreateLockRoot, At, Unlocked
<1>2. /\ rd \in Granules /\ pe[q].new \in Granules /\ lk[rd] = q /\ gs[rd] = "RD"
      /\ lk[pe[q].new] = q /\ gs[pe[q].new] = "DELEGATED"
  BY <1>1 DEF TwoLocksOk, Holds
<1>3. pe[q].i \in Nat /\ mem[rd].num_root_rtts \in Nat \ {0} /\ g \in Granules
  BY <1>1, <1>2, LocalsTyped DEF OInv, Contents, RdContent
<1>4. Holder(rd) = pe[q]  BY <1>2, PEAssumption DEF Holder
<1>5. Pinned(rd)  BY <1>1, <1>4 DEF Pinned
<1>6. /\ gs[g] = "RTT"
      /\ \A p \in PE : pe[p].op = "realm_destroy" => g \notin Counted(pe[p])
  <2>0. g \in Nat  BY <1>3, GranulesAre
  <2>1. 0 < mem[rd].num_root_rtts /\ 0 \in Nat /\ g + 0 = g  BY <2>0, <1>3
  <2>2. QED  BY <2>1, <1>1, <1>2, <1>3, <1>5, FirstTableFree DEF Unlocked
<1>7. "walk" \in Steps /\ g \in GranuleOrNone  BY <1>3 DEF Steps, GranuleOrNone
<1>8. /\ e.op = "rtt_create" /\ e.step = "walk" /\ e.root = g /\ e.rd = rd /\ e.new = pe[q].new
      /\ e.i = pe[q].i
  BY <1>1 DEF Fields
<1>9. e \in PeType
  <2> HIDE DEF g
  <2>1. QED  BY <1>1, <1>7 DEF PeType
<1>10. \A x \in Granules : lk'[x] = IF x = rd THEN NoPE ELSE IF x = g THEN q ELSE lk[x]
  BY <1>1
<1>11. rd # g /\ pe[q].new # rd /\ pe[q].new # g  BY <1>2, <1>6
<1> HIDE DEF rd, g, e
<1>12. pe'[q] = e  BY <1>1
<1>13. lk'[rd] = NoPE /\ lk'[g] = q /\ lk'[pe[q].new] = q
  BY <1>2, <1>3, <1>10, <1>11
<1>14. ASSUME NEW x, x = rd PROVE Pinned(x)'
  <2>1. Holder(x)' = Idle  BY <1>13, <1>14 DEF Holder
  <2>2. QED  BY <2>1, IdleTyped DEF Pinned
<1>15. WalkOk(q)'
  <2>1. e.op = "rtt_create" /\ e.step = "walk"  BY <1>8
  <2>2. g = mem[rd].g_rtt /\ e.i < mem[rd].num_root_rtts  BY <1>1, <1>8 DEF g, rd
  <2>3. QED
    BY <2>1, <2>2, <1>1, <1>2, <1>3, <1>6, <1>8, <1>12, <1>13, <1>14 DEF WalkOk, Holds
<1>16. TwoLocksOk(q)'  BY <1>2, <1>8, <1>12 DEF TwoLocksOk
<1>17. /\ \A x \in Granules : lk[x] \notin {q, NoPE} => lk'[x] = lk[x]
       /\ \A x \in Granules : lk'[x] \in {lk[x], q, NoPE}
       /\ \A x \in Granules : lk'[x] = q =>
            lk[x] = q \/ \A p \in PE : p # q /\ pe[p].op = "realm_destroy" => x \notin Counted(pe[p])
  <2>1. lk[rd] = q /\ lk[g] = NoPE  BY <1>1, <1>2 DEF g, rd
  <2>2. QED  BY <2>1, <1>6, <1>10, PEAssumption
<1>18. QED  BY <1>1, <1>8, <1>9, <1>15, <1>16, <1>17, WalkMoves

LEMMA RttDestroyLockRootKeeps ==
  ASSUME OInv, LInv', NEW q \in PE, RttDestroyLockRoot(q)
  PROVE  OInv'
<1> DEFINE rd == pe[q].rd
           g  == pe[q].root
           e  == Moved(pe[q], "walk", pe[q].i)
<1>1. /\ pe[q] \in PeType /\ DOMAIN pe = PE /\ WalkOk(q) /\ lk \in [Granules -> PE \cup {NoPE}]
      /\ pe[q].op = "rtt_destroy" /\ pe[q].step = "lock_root"
      /\ lk[g] = NoPE /\ lk' = [lk EXCEPT ![g] = q, ![rd] = NoPE] /\ pe' = [pe EXCEPT ![q] = e]
      /\ UNCHANGED <<gs, ref, mem, gpt>>
  BY OfPe, GotoMoves DEF CommandOk, RttDestroyLockRoot, At, Unlocked, OInv, Types
<1>2. /\ rd \in Granules /\ lk[rd] = q /\ gs[rd] = "RD" /\ g = mem[rd].g_rtt
      /\ pe[q].i < mem[rd].num_root_rtts
  BY <1>1 DEF WalkOk, Holds
<1>3. pe[q].i \in Nat /\ mem[rd].num_root_rtts \in Nat \ {0} /\ g \in Granules
  BY <1>1, <1>2, LocalsTyped DEF OInv, Contents, RdContent
<1>4. Holder(rd) = pe[q]  BY <1>2, PEAssumption DEF Holder
<1>5. Pinned(rd)  BY <1>1, <1>4 DEF Pinned
<1>6. /\ gs[g] = "RTT"
      /\ \A p \in PE : pe[p].op = "realm_destroy" => g \notin Counted(pe[p])
  <2>0. g \in Nat  BY <1>3, GranulesAre
  <2>1. 0 < mem[rd].num_root_rtts /\ 0 \in Nat /\ g + 0 = g  BY <2>0, <1>3
  <2>2. QED  BY <2>1, <1>1, <1>2, <1>3, <1>5, FirstTableFree DEF Unlocked
<1>7. "walk" \in Steps  BY DEF Steps
<1>8. /\ e \in PeType /\ e.op = "rtt_destroy" /\ e.step = "walk" /\ e.root = g /\ e.rd = rd
      /\ e.i = pe[q].i
  BY <1>1, <1>3, <1>7, MovedOn
<1>10. \A x \in Granules : lk'[x] = IF x = rd THEN NoPE ELSE IF x = g THEN q ELSE lk[x]
  BY <1>1
<1>11. rd # g  BY <1>2, <1>6
<1> HIDE DEF rd, g, e
<1>12. pe'[q] = e  BY <1>1
<1>13. lk'[rd] = NoPE /\ lk'[g] = q  BY <1>2, <1>3, <1>10, <1>11
<1>14. ASSUME NEW x, x = rd PROVE Pinned(x)'
  <2>1. Holder(x)' = Idle  BY <1>13, <1>14 DEF Holder
  <2>2. QED  BY <2>1, IdleTyped DEF Pinned
<1>15. WalkOk(q)'
  BY <1>1, <1>2, <1>3, <1>6, <1>8, <1>12, <1>13, <1>14 DEF WalkOk, Holds
<1>16. TwoLocksOk(q)'  BY <1>8, <1>12 DEF TwoLocksOk
<1>17. /\ \A x \in Granules : lk[x] \notin {q, NoPE} => lk'[x] = lk[x]
       /\ \A x \in Granules : lk'[x] \in {lk[x], q, NoPE}
       /\ \A x \in Granules : lk'[x] = q =>
            lk[x] = q \/ \A p \in PE : p # q /\ pe[p].op = "realm_destroy" => x \notin Counted(pe[p])
  BY <1>1, <1>2, <1>6, <1>10, PEAssumption
<1>18. QED  BY <1>1, <1>8, <1>15, <1>16, <1>17, WalkMoves

LEMMA WalkConcatenatedKeeps ==
  ASSUME OInv, LInv', NEW q \in PE, pe[q].op \in {"rtt_create", "rtt_destroy"}, WalkConcatenated(q)
  PROVE  OInv'
<1> DEFINE g == pe[q].root + pe[q].i
<1>1. /\ pe[q] \in PeType /\ DOMAIN pe = PE /\ DOMAIN pe[q] = Fields /\ WalkOk(q) /\ TwoLocksOk(q)
      /\ lk \in [Granules -> PE \cup {NoPE}] /\ pe[q].step = "walk"
      /\ UNCHANGED <<gs, ref, mem, gpt>>
  BY OfPe DEF CommandOk, WalkConcatenated
<1>2. /\ pe[q].rd \in Granules /\ gs[pe[q].rd] = "RD" /\ Pinned(pe[q].rd)
      /\ pe[q].root = mem[pe[q].rd].g_rtt /\ pe[q].i < mem[pe[q].rd].num_root_rtts
      /\ pe[q].root \in Granules /\ lk[pe[q].root] = q /\ gs[pe[q].root] = "RTT"
      /\ pe[q].op = "rtt_create" => Holds(q, pe[q].new, "DELEGATED")
      /\ pe[q].op = "rtt_create" => pe[q].rd \in Granules /\ pe[q].new \in Granules
  BY <1>1 DEF WalkOk, Holds, TwoLocksOk
<1>3. pe[q].i \in Nat /\ pe[q].root \in Nat  BY <1>1, LocalsTyped
<1>4. "at_parent" \in Steps  BY DEF Steps
<1>5. CASE pe[q].i = 0
  <2> DEFINE e == Moved(pe[q], "at_parent", pe[q].i)
  <2>1. pe' = [pe EXCEPT ![q] = e] /\ UNCHANGED lk
    BY <1>5, GotoMoves DEF WalkConcatenated, OInv, Types
  <2>2. /\ e \in PeType /\ e.op = pe[q].op /\ e.step = "at_parent" /\ e.root = pe[q].root
        /\ e.rd = pe[q].rd /\ e.new = pe[q].new
    BY <1>1, <1>3, <1>4, MovedOn
  <2> HIDE DEF e
  <2>3. pe'[q] = e  BY <2>1, <1>1
  <2>4. WalkOk(q)' /\ TwoLocksOk(q)'
    BY <2>1, <2>2, <2>3, <1>1, <1>2 DEF WalkOk, TwoLocksOk, Holds
  <2>5. QED  BY <2>1, <2>2, <2>4, <1>1, WalkMoves
<1>6. CASE pe[q].i # 0
  <2> DEFINE e == [pe[q] EXCEPT !.root = g, !.step = "at_parent"]
  <2>1. /\ lk[g] = NoPE /\ lk' = [lk EXCEPT ![g] = q, ![pe[q].root] = NoPE]
        /\ pe' = [pe EXCEPT ![q] = e]
    BY <1>6 DEF WalkConcatenated, Unlocked
  <2>2. /\ g \in Granules /\ gs[g] = "RTT"
        /\ \A p \in PE : pe[p].op = "realm_destroy" => g \notin Counted(pe[p])
    BY <2>1, <1>2, <1>3, FirstTableFree DEF Unlocked
  <2>3. g \in GranuleOrNone  BY <2>2 DEF GranuleOrNone
  <2>4. /\ e.op = pe[q].op /\ e.step = "at_parent" /\ e.root = g /\ e.rd = pe[q].rd /\ e.new = pe[q].new
    BY <1>1 DEF Fields
  <2> HIDE DEF g
  <2>5. e \in PeType  BY <2>3, <1>1, <1>4 DEF PeType
  <2> HIDE DEF e
  <2>6. pe'[q] = e  BY <2>1, <1>1
  <2>7. \A x \in Granules : lk'[x] = IF x = pe[q].root THEN NoPE ELSE IF x = g THEN q ELSE lk[x]
    BY <2>1, <1>1
  <2>8. lk'[g] = q  BY <2>1, <2>2, <2>7, <1>2, PEAssumption
  <2>9. pe[q].op = "rtt_create" => lk'[pe[q].new] = q
    BY <2>7, <1>2 DEF Holds
  <2>10. WalkOk(q)' /\ TwoLocksOk(q)'
    BY <2>2, <2>4, <2>6, <2>8, <2>9, <1>1, <1>2 DEF WalkOk, TwoLocksOk, Holds
  <2>11. /\ \A x \in Granules : lk[x] \notin {q, NoPE} => lk'[x] = lk[x]
         /\ \A x \in Granules : lk'[x] \in {lk[x], q, NoPE}
         /\ \A x \in Granules : lk'[x] = q =>
              lk[x] = q \/ \A p \in PE : p # q /\ pe[p].op = "realm_destroy" => x \notin Counted(pe[p])
    BY <2>1, <2>2, <2>7, <1>2, PEAssumption
  <2>12. QED  BY <2>1, <2>4, <2>5, <2>10, <2>11, <1>1, WalkMoves
<1>7. QED  BY <1>5, <1>6

LEMMA RttCreateReturns ==
  ASSUME OInv, LInv', NEW q \in PE,
         RttCreateFailed(q) \/ RttCreateBadAddress(q) \/ RttCreateRefused(q)
  PROVE  OInv'
<1>1. /\ pe[q].op = "rtt_create" /\ Return(q) /\ UNCHANGED <<gs, ref, mem, gpt>>
      /\ lk \in [Granules -> PE \cup {NoPE}] /\ CommandOk(q)
  BY OfPe DEF RttCreateFailed, RttCreateBadAddress, RttCreateRefused, At
<1>2. Quiet(pe[q])  BY <1>1 DEF Quiet, RootsFreed, AuxFreed, FillsRoots
<1>3. /\ \A g \in Granules : lk[g] \notin {q, NoPE} => lk'[g] = lk[g]
      /\ \A g \in Granules : lk'[g] \in {lk[g], NoPE}
  <2>1. CASE RttCreateFailed(q)  BY <2>1 DEF RttCreateFailed
  <2>2. CASE RttCreateBadAddress(q)
    <3>1. lk[pe[q].rd] = q /\ lk[pe[q].new] = q
      BY <2>2, <1>1 DEF RttCreateBadAddress, At, CommandOk, TwoLocksOk, Holds
    <3>2. lk' = [lk EXCEPT ![pe[q].rd] = NoPE, ![pe[q].new] = NoPE]  BY <2>2 DEF RttCreateBadAddress
    <3>3. QED  BY <3>1, <3>2, <1>1
  <2>3. CASE RttCreateRefused(q)
    <3>1. lk[pe[q].root] = q /\ lk[pe[q].new] = q
      BY <2>3, <1>1 DEF RttCreateRefused, At, CommandOk, WalkOk, Holds
    <3>2. lk' = [lk EXCEPT ![pe[q].root] = NoPE, ![pe[q].new] = NoPE]  BY <2>3 DEF RttCreateRefused
    <3>3. QED  BY <3>1, <3>2, <1>1
  <2>4. QED  BY <2>1, <2>2, <2>3
<1>4. QED  BY <1>1, <1>2, <1>3, QuietReturn DEF At

LEMMA RttDestroyNoTableKeeps ==
  ASSUME OInv, LInv', NEW q \in PE, RttDestroyNoTable(q)
  PROVE  OInv'
<1>1. /\ pe[q].op = "rtt_destroy" /\ Return(q) /\ UNCHANGED <<gs, ref, mem, gpt>>
      /\ lk \in [Granules -> PE \cup {NoPE}] /\ lk[pe[q].root] = q
      /\ lk' = [lk EXCEPT ![pe[q].root] = NoPE]
  BY OfPe DEF RttDestroyNoTable, At, CommandOk, WalkOk, Holds
<1>2. Quiet(pe[q])  BY <1>1 DEF Quiet, RootsFreed, AuxFreed, FillsRoots
<1>3. QED  BY <1>1, <1>2, QuietReturn DEF At

LEMMA RttDestroyLockRdKeeps ==
  ASSUME OInv, LInv', NEW q \in PE, NEW rd \in Granules, NEW k \in Nat, RttDestroyLockRd(q, rd, k)
  PROVE  OInv'
<1> DEFINE e == [Idle EXCEPT !.op = "rtt_destroy", !.step = "lock_root", !.rd = rd,
                             !.root = mem[rd].g_rtt, !.i = k]
<1>0. /\ IsIdle(q) /\ lk[rd] = NoPE /\ gs[rd] = "RD" /\ k < mem[rd].num_root_rtts
      /\ lk' = [lk EXCEPT ![rd] = q]
      /\ pe' = [pe EXCEPT ![q] = e] /\ UNCHANGED <<gs, ref, mem, gpt>>
  BY DEF RttDestroyLockRd, Unlocked
<1>1. mem[rd].g_rtt \in Granules  BY <1>0 DEF OInv, Contents, RdContent
<1>2. e \in PeType  BY <1>1, IdleTyped DEF PeType, Ops, Steps, GranuleOrNone
<1>3. /\ e.op = "rtt_destroy" /\ e.step = "lock_root" /\ e.rd = rd /\ e.i = k /\ e.root = mem[rd].g_rtt
  BY DEF Idle
<1> HIDE DEF e
<1>4. pe'[q] = e /\ lk'[rd] = q  BY <1>0, OfPe
<1>5. WalkOk(q)'  BY <1>0, <1>3, <1>4 DEF WalkOk, Holds
<1>6. CommandOk(q)'
  BY <1>3, <1>4, <1>5 DEF CommandOk, TwoLocksOk, RecCreateOk, RealmCreateOk, RealmDestroyOk,
                          RecDestroyOk, RecEnterOk
<1>7. Quiet(e) /\ ConvertedAux(e) = {}
  BY <1>3 DEF Quiet, RootsFreed, AuxFreed, FillsRoots, ConvertedAux
<1>8. QED  BY <1>0, <1>2, <1>3, <1>6, <1>7, QuietStart

LEMMA RecDestroyLockKeeps ==
  ASSUME OInv, LInv', NEW q \in PE, NEW rec \in Granules, RecDestroyLock(q, rec)
  PROVE  OInv'
<1> DEFINE s == IF mem[rec].num_aux = 0 THEN "free" ELSE "aux"
           e == [Idle EXCEPT !.op = "rec_destroy", !.step = s, !.new = rec, !.rd = mem[rec].g_rd,
                             !.aux = mem[rec].g_aux, !.naux = mem[rec].num_aux]
<1>0. /\ IsIdle(q) /\ lk[rec] = NoPE /\ gs[rec] = "REC" /\ ref[rec] = 0
      /\ lk' = [lk EXCEPT ![rec] = q]
      /\ pe' = [pe EXCEPT ![q] = e] /\ UNCHANGED <<gs, ref, mem, gpt>>
  BY DEF RecDestroyLock, Unlocked, Unused
<1>1. /\ mem[rec].g_rd \in Granules /\ mem[rec].g_aux \in AuxList /\ mem[rec].num_aux \in 0..MaxRecAux
      /\ mem[rec].num_aux \in Nat /\ gs[mem[rec].g_rd] = "RD"
  <2>1. mem[rec] \in RecContent /\ rec \in Recs  BY <1>0 DEF OInv, Contents, Recs
  <2>2. QED  BY <2>1, SizesAssumption DEF RecContent, OInv, Owned, RecsOk
<1>2. e \in PeType  BY <1>1, IdleTyped DEF PeType, Ops, Steps, GranuleOrNone
<1>3. /\ e.op = "rec_destroy" /\ e.step = s /\ e.new = rec /\ e.rd = mem[rec].g_rd /\ e.i = 0
      /\ e.aux = mem[rec].g_aux /\ e.naux = mem[rec].num_aux
  BY DEF Idle
<1> HIDE DEF e
<1>4. pe'[q] = e /\ lk'[rec] = q  BY <1>0, OfPe
<1>5. s \in {"free", "aux"} /\ (s = "aux" => 0 < mem[rec].num_aux) /\ (s = "free" => mem[rec].num_aux = 0)
  BY <1>1
<1> HIDE DEF s
<1>6. RecDestroyOk(q)'  BY <1>0, <1>1, <1>3, <1>4, <1>5 DEF RecDestroyOk, Holds
<1>7. CommandOk(q)'
  BY <1>3, <1>4, <1>6 DEF CommandOk, TwoLocksOk, RecCreateOk, RealmCreateOk, RealmDestroyOk,
                          WalkOk, RecEnterOk
<1>8. Quiet(e) /\ ConvertedAux(e) = {}
  BY <1>3, <1>5 DEF Quiet, RootsFreed, AuxFreed, FillsRoots, ConvertedAux
<1>9. QED  BY <1>0, <1>2, <1>3, <1>5, <1>7, <1>8, QuietStart

\* A running REC that goes on to another step.
LEMMA RecEnterMoves ==
  ASSUME OInv, LInv', NEW q \in PE, pe[q].op = "rec_enter", NEW s \in {"run", "put"}, Goto(q, s),
         UNCHANGED <<gs, ref, lk, mem, gpt>>
  PROVE  OInv'
<1> DEFINE e == Moved(pe[q], s, pe[q].i)
<1>1. pe[q] \in PeType /\ DOMAIN pe = PE /\ RecEnterOk(q) /\ pe' = [pe EXCEPT ![q] = e]
  BY OfPe, GotoMoves DEF CommandOk, OInv, Types
<1>2. pe[q].i \in Nat /\ s \in Steps  BY <1>1, LocalsTyped DEF Steps
<1>3. e \in PeType /\ e.op = "rec_enter" /\ e.step = s /\ e.new = pe[q].new  BY <1>1, <1>2, MovedOn
<1> HIDE DEF e
<1>4. pe'[q] = e  BY <1>1
<1>5. CommandOk(q)'
  BY <1>1, <1>3, <1>4 DEF CommandOk, TwoLocksOk, RecCreateOk, RealmCreateOk, RealmDestroyOk, WalkOk,
                          RecEnterOk, RecDestroyOk
<1>6. Quiet(pe[q]) /\ Quiet(e) /\ ConvertedAux(e) = {}
  BY <1>3 DEF Quiet, RootsFreed, AuxFreed, FillsRoots, ConvertedAux
<1>7. SameRefs(q) /\ SameClaims(q)  BY <1>3, <1>4, <1>6 DEF SameRefs, SameClaims, At
<1>8. QED  BY <1>1, <1>3, <1>5, <1>6, <1>7, QuietStepKeeps

LEMMA RecEnterStepsKeep ==
  ASSUME OInv, LInv', NEW q \in PE, RecEnterCheck(q) \/ RecRunExit(q)
  PROVE  OInv'
BY RecEnterMoves DEF RecEnterCheck, RecRunExit, At

\* The auxiliary granules RMI_REC_CREATE unlocks without holding them are free: nobody locks
\* a granule in state REC_AUX over a step.
LEMMA RecCreateAuxFails ==
  ASSUME OInv, LInv', NEW q \in PE, RecCreateAux(q), gs[pe[q].aux[pe[q].i + 1]] # "DELEGATED"
  PROVE  OInv' /\ UNCHANGED lk
<1> DEFINE e == [pe[q] EXCEPT !.step = "failed", !.naux = pe[q].i, !.i = 0]
<1>1. /\ pe[q] \in PeType /\ DOMAIN pe = PE /\ DOMAIN pe[q] = Fields
      /\ RecCreateOk(q) /\ TwoLocksOk(q) /\ pe' = [pe EXCEPT ![q] = e]
      /\ lk \in [Granules -> PE \cup {NoPE}] /\ pe[q].op = "rec_create" /\ pe[q].step = "aux"
      /\ lk' = [h \in Granules |-> IF h \in AuxOf(pe[q].aux, pe[q].i) THEN NoPE ELSE lk[h]]
      /\ UNCHANGED <<gs, ref, mem, gpt>>
  BY OfPe DEF CommandOk, RecCreateAux, At
<1>2. /\ pe[q].i \in Nat /\ pe[q].naux \in 0..MaxRecAux /\ pe[q].naux \in Nat /\ pe[q].i < pe[q].naux
      /\ \A k \in 1..pe[q].naux : pe[q].aux[k] \in Granules
      /\ \A k \in ConvertedAux(pe[q]) : gs[pe[q].aux[k]] = "REC_AUX" /\ mem[pe[q].aux[k]] = Zero
      /\ pe[q].rd \in Granules /\ pe[q].new \in Granules
  BY <1>1, LocalsTyped DEF RecCreateOk, PeType, TwoLocksOk
<1>3. pe[q].i \in 0..MaxRecAux  BY <1>2, SizesAssumption
<1>4. e \in PeType  BY <1>1, <1>3 DEF PeType, Steps
<1>5. /\ e.op = "rec_create" /\ e.step = "failed" /\ e.naux = pe[q].i /\ e.i = 0 /\ e.aux = pe[q].aux
      /\ e.rd = pe[q].rd /\ e.new = pe[q].new
  BY <1>1 DEF Fields
<1> HIDE DEF e
<1>6. pe'[q] = e  BY <1>1
<1>7. ConvertedAux(e) = 1..pe[q].i /\ ConvertedAux(pe[q]) = 1..pe[q].i
  BY <1>1, <1>2, <1>5 DEF ConvertedAux
<1>8. \A k \in 1..pe[q].i : lk[pe[q].aux[k]] = NoPE
  <2> SUFFICES ASSUME NEW k \in 1..pe[q].i PROVE lk[pe[q].aux[k]] = NoPE  OBVIOUS
  <2>1. gs[pe[q].aux[k]] = "REC_AUX" /\ pe[q].aux[k] \in Granules  BY <1>2, <1>7
  <2>2. lk[pe[q].aux[k]] \in PE \cup {NoPE}  BY <2>1, <1>1
  <2>3. QED  BY <2>1, <2>2, HeldState
<1>9. UNCHANGED lk
  <2>1. \A h \in Granules : lk'[h] = lk[h]  BY <1>1, <1>8 DEF AuxOf
  <2>2. QED  BY <2>1, <1>1
<1>10. \A k \in 1..pe[q].i : k \in 1..pe[q].naux  BY <1>2
<1>11. RecCreateOk(q)' /\ TwoLocksOk(q)'
  BY <1>1, <1>2, <1>5, <1>6, <1>7, <1>10 DEF RecCreateOk, TwoLocksOk
<1>12. CommandOk(q)'
  BY <1>5, <1>6, <1>11 DEF CommandOk, RealmCreateOk, RealmDestroyOk, WalkOk, RecEnterOk, RecDestroyOk
<1>13. Quiet(pe[q]) /\ Quiet(e)
  BY <1>1, <1>5 DEF Quiet, RootsFreed, AuxFreed, FillsRoots
<1>14. SameRefs(q) /\ SameClaims(q)
  BY <1>1, <1>5, <1>6, <1>7 DEF SameRefs, SameClaims, At
<1>15. e.op # "realm_destroy"  BY <1>5
<1>16. QED  BY <1>1, <1>4, <1>9, <1>12, <1>13, <1>14, <1>15, QuietStepKeeps

LEMMA RecCreateFreeAuxReturns ==
  ASSUME OInv, LInv', NEW q \in PE, RecCreateFreeAux(q), pe[q].i = pe[q].naux
  PROVE  OInv'
<1>1. pe[q].op = "rec_create" /\ Return(q) /\ UNCHANGED <<gs, ref, lk, mem, gpt>>
  BY DEF RecCreateFreeAux, At
<1>2. Quiet(pe[q])  BY <1>1 DEF Quiet, RootsFreed, AuxFreed, FillsRoots
<1>3. QED  BY <1>1, <1>2, QuietReturn DEF At

-----------------------------------------------------------------------------
(***************************************************************************)
(* Steps that change objects.                                              *)
(***************************************************************************)
RefExact(g) ==
  ref[g] = CASE gs[g] = "RD"  -> Cardinality(RecsOf(g)) + Cardinality(Putting(g))
             [] gs[g] = "REC" -> Cardinality(Running(g))
             [] gs[g] = "RTT" -> Cardinality(mem[g].tables)
             [] OTHER         -> 0

LEMMA RefExactAt ==
  ASSUME OInv, NEW g \in Granules
  PROVE  /\ RefExact(g)
         /\ gs[g] = "RD" => ref[g] = Cardinality(RecsOf(g)) + Cardinality(Putting(g))
         /\ gs[g] = "REC" => ref[g] = Cardinality(Running(g))
         /\ gs[g] = "RTT" => ref[g] = Cardinality(mem[g].tables)
         /\ gs[g] \in {"NS", "DELEGATED", "REC_AUX"} => ref[g] = 0
<1>1. RefExact(g)  BY DEF OInv, RefcountsExact, RefExact
<1>2. QED  BY <1>1 DEF RefExact

\* A granule whose state, count and referrers stay the same.
LEMMA RefKept ==
  ASSUME OInv, NEW g \in Granules, gs'[g] = gs[g], ref'[g] = ref[g],
         gs[g] = "RTT" => mem'[g].tables = mem[g].tables,
         gs[g] = "RD" => RecsOf(g)' = RecsOf(g) /\ Putting(g)' = Putting(g),
         gs[g] = "REC" => Running(g)' = Running(g)
  PROVE  RefExact(g)'
<1>1. RefExact(g)  BY RefExactAt
<1>2. gs[g] = "RTT" => Cardinality(mem'[g].tables) = Cardinality(mem[g].tables)  OBVIOUS
<1>3. gs[g] = "RD" => Cardinality(RecsOf(g)') + Cardinality(Putting(g)') =
                      Cardinality(RecsOf(g)) + Cardinality(Putting(g))
  OBVIOUS
<1>4. gs[g] = "REC" => Cardinality(Running(g)') = Cardinality(Running(g))  OBVIOUS
<1>5. QED  BY <1>1, <1>2, <1>3, <1>4 DEF RefExact

\* The sets that reference counts count are finite.
LEMMA Finite ==
  /\ IsFiniteSet(Granules) /\ IsFiniteSet(PE)
  /\ \A S \in SUBSET Granules : IsFiniteSet(S) /\ Cardinality(S) \in Nat /\ (Cardinality(S) = 0 <=> S = {})
  /\ \A S \in SUBSET PE : IsFiniteSet(S) /\ Cardinality(S) \in Nat /\ (Cardinality(S) = 0 <=> S = {})
<1>1. IsFiniteSet(Granules)  BY FS_Interval, SizesAssumption DEF Granules
<1>2. IsFiniteSet(PE)  BY PEAssumption
<1>3. \A T : IsFiniteSet(T) => \A S \in SUBSET T :
        IsFiniteSet(S) /\ Cardinality(S) \in Nat /\ (Cardinality(S) = 0 <=> S = {})
  BY FS_Subset, FS_CardinalityType, FS_EmptySet
<1>4. QED  BY <1>1, <1>2, <1>3

LEMMA RefSets ==
  ASSUME NEW g
  PROVE  RecsOf(g) \in SUBSET Granules /\ Putting(g) \in SUBSET PE /\ Running(g) \in SUBSET PE
BY DEF RecsOf, Putting, Running

\* Nothing refers to a realm without references, or to a REC that nobody runs.
LEMMA NoReferrers ==
  ASSUME OInv, NEW g \in Granules, ref[g] = 0
  PROVE  /\ gs[g] = "RD" => RecsOf(g) = {} /\ Putting(g) = {}
         /\ gs[g] = "REC" => Running(g) = {}
         /\ gs[g] = "RTT" => mem[g].tables = {}
<1>1. ASSUME gs[g] = "RD" PROVE RecsOf(g) = {} /\ Putting(g) = {}
  <2>1. Cardinality(RecsOf(g)) + Cardinality(Putting(g)) = 0  BY <1>1, RefExactAt
  <2>2. Cardinality(RecsOf(g)) \in Nat /\ Cardinality(Putting(g)) \in Nat  BY Finite, RefSets
  <2>3. Cardinality(RecsOf(g)) = 0 /\ Cardinality(Putting(g)) = 0  BY <2>1, <2>2
  <2>4. QED  BY <2>3, Finite, RefSets
<1>2. ASSUME gs[g] = "REC" PROVE Running(g) = {}
  BY <1>2, RefExactAt, Finite, RefSets
<1>3. ASSUME gs[g] = "RTT" PROVE mem[g].tables = {}
  <2>1. mem[g].tables \in SUBSET Granules  BY <1>3, OwnedAreGranules
  <2>2. QED  BY <2>1, <1>3, RefExactAt, Finite
<1>4. QED  BY <1>1, <1>2, <1>3

LEMMA NoneOk ==
  ASSUME NEW q \in PE, pe'[q].op = "none"
  PROVE  CommandOk(q)'
BY DEF CommandOk, RealmCreateOk, RealmDestroyOk, TwoLocksOk, RecCreateOk, RecDestroyOk, RecEnterOk, WalkOk

\* A step after which no RMI_REC_CREATE claims more auxiliary granules.
LEMMA ClaimsShrink ==
  ASSUME OInv,
         \A p \in PE : \A k \in ConvertedAux(pe'[p]) :
           k \in ConvertedAux(pe[p]) /\ pe'[p].aux[k] = pe[p].aux[k]
  PROVE  ConvertedDisjoint'
<1>1. ConvertedDisjoint  BY DEF OInv, Owned
<1>2. QED  BY <1>1 DEF ConvertedDisjoint, ConvertedAux

\* A step that gives no object anything new to own keeps the ownership disjoint.
LEMMA OwnedShrinks ==
  ASSUME OInv,
         \A rd \in Rds' : rd \in Rds /\ LiveRoots(rd)' \subseteq LiveRoots(rd),
         \A x \in Granules : gs'[x] = "RTT" =>
           \A t \in mem'[x].tables : gs[x] = "RTT" /\ t \in mem[x].tables /\ gs'[t] = "RTT",
         \A r \in Recs' : /\ r \in Recs /\ LiveAux(r)' \subseteq LiveAux(r)
                          /\ mem'[r].g_aux = mem[r].g_aux,
         RootsOk', AuxOk', RecsOk', ConvertedDisjoint'
  PROVE  Owned'
<1>1. TablesOk'  BY DEF TablesOk
<1>2. RootsDisjoint'  BY DEF OInv, Owned, RootsDisjoint
<1>3. RootsNoTables'  BY DEF OInv, Owned, RootsNoTables
<1>4. TablesDisjoint'  BY DEF OInv, Owned, TablesDisjoint
<1>5. RecAuxDisjoint'
  <2>1. RecAuxDisjoint  BY DEF OInv, Owned
  <2>2. QED  BY <2>1 DEF RecAuxDisjoint
<1>6. QED  BY <1>1, <1>2, <1>3, <1>4, <1>5 DEF Owned

\* A step that only EL3's table can tell from a stuttering step.
LEMMA SameObjectsKeep ==
  ASSUME OInv, LInv', UNCHANGED <<gs, ref, lk, mem, pe>>,
         gpt' \in [Granules -> {"ns", "secure", "realm"}], GptAgrees'
  PROVE  OInv'
<1>1. UNCHANGED <<gs, ref, lk, mem, pe>>  OBVIOUS
<1>3. \A g : Holder(g)' = Holder(g) /\ RecsOf(g)' = RecsOf(g) /\ Putting(g)' = Putting(g)
              /\ Running(g)' = Running(g)
  BY <1>1 DEF Holder, RecsOf, Putting, Running, At
<1>4. Types'  BY <1>1 DEF OInv, Types
<1>5. Contents'  BY <1>1, <1>3 DEF OInv, Contents, BeingRoot
<1>6. CommandsOk'
  <2> SUFFICES ASSUME NEW p \in PE PROVE CommandOk(p)'  BY DEF CommandsOk
  <2>1. CommandOk(p)  BY DEF OInv, CommandsOk
  <2>2. /\ RealmCreateOk(p)' /\ RealmDestroyOk(p)' /\ RecCreateOk(p)' /\ RecDestroyOk(p)' /\ RecEnterOk(p)'
    BY <2>1, <1>1 DEF CommandOk, RealmCreateOk, RealmDestroyOk, RecCreateOk, RecDestroyOk,
                      RecEnterOk, Holds, Unlocked
  <2>3. TwoLocksOk(p)' /\ WalkOk(p)'
    BY <2>1, <1>1, <1>3 DEF CommandOk, TwoLocksOk, WalkOk, Holds, FirstToLock, ExpectedState, Pinned
  <2>4. QED  BY <2>2, <2>3 DEF CommandOk
<1>7. Owned'
  <2>1. /\ \A g : LiveRoots(g)' = LiveRoots(g) /\ LiveAux(g)' = LiveAux(g) /\ BeingRoot(g)' = BeingRoot(g)
        /\ Rds' = Rds /\ Recs' = Recs
    BY <1>1, <1>3 DEF LiveRoots, LiveAux, Rds, Recs, BeingRoot
  <2>2. RootsOk' /\ AuxOk' /\ RecsOk'
    BY <2>1, <1>1 DEF OInv, Owned, RootsOk, AuxOk, RecsOk
  <2>3. TablesOk  BY DEF OInv, Owned
  <2>4. ConvertedDisjoint'  BY <1>1, ClaimsShrink
  <2>5. QED  BY <2>1, <2>2, <2>3, <2>4, <1>1, OwnedShrinks DEF TablesOk
<1>8. RefcountsExact' /\ RefcountFits'
  BY <1>1, <1>3 DEF OInv, RefcountsExact, RefcountFits
<1>9. RecIndicesUnique'  BY <1>1, <1>3 DEF OInv, RecIndicesUnique, Rds
<1>10. QED  BY <1>4, <1>5, <1>6, <1>7, <1>8, <1>9 DEF OInv

\* EL3 moves a granule between the Non-secure and the Secure world.
LEMMA El3Keeps ==
  ASSUME OInv, LInv', El3
  PROVE  OInv'
<1>1. UNCHANGED <<gs, ref, lk, mem, pe>>  BY DEF El3, SpmTakesGranule, SpmReturnsGranule
<1>2. GptAgrees'
  <2>1. PICK g \in Granules : SpmTakesGranule(g) \/ SpmReturnsGranule(g)  BY DEF El3
  <2>2. gpt[g] # "realm" /\ \E w \in {"ns", "secure"} : gpt' = [gpt EXCEPT ![g] = w]
    BY <2>1 DEF SpmTakesGranule, SpmReturnsGranule
  <2>3. PICK w \in {"ns", "secure"} : gpt' = [gpt EXCEPT ![g] = w]  BY <2>2
  <2>4. \A x \in Granules : gpt'[x] = "realm" <=> gpt[x] = "realm"
    BY <2>2, <2>3
  <2>5. QED  BY <2>4, <1>1 DEF OInv, GptAgrees
<1>3. gpt' \in [Granules -> {"ns", "secure", "realm"}]
  BY DEF OInv, Types, El3, SpmTakesGranule, SpmReturnsGranule
<1>4. QED  BY <1>1, <1>2, <1>3, SameObjectsKeep

\* Who holds a lock after a step of q.
LEMMA HolderAfter ==
  ASSUME OInv, NEW q \in PE, \A p \in PE : p # q => pe'[p] = pe[p], NEW g \in Granules
  PROVE  /\ lk'[g] = lk[g] /\ lk[g] # q => Holder(g)' = Holder(g)
         /\ lk'[g] = NoPE => Holder(g)' = Idle
         /\ lk'[g] = q => Holder(g)' = pe'[q]
         /\ lk[g] = NoPE => Holder(g) = Idle
         /\ lk[g] = q => Holder(g) = pe[q]
<1>1. lk[g] \in PE \cup {NoPE}  BY DEF OInv, LInv
<1>2. QED  BY <1>1, PEAssumption DEF Holder

LEMMA IdleQuiet == RootsFreed(Idle) = 0 /\ AuxFreed(Idle) = 0 /\ ~FillsRoots(Idle)
BY IdleTyped DEF RootsFreed, AuxFreed, FillsRoots

\* The parts of the invariant after a step of q that changes objects.
LEMMA ObjectStep ==
  ASSUME OInv, LInv', NEW q \in PE, Frame(q), Types', Contents', CommandOk(q)',
         \A p \in PE : p # q => Undisturbed(p),
         Owned', \A g \in Granules : RefExact(g)', RefcountFits', RecIndicesUnique', GptAgrees'
  PROVE  OInv'
<1>1. CommandsOk'
  <2>1. \A p \in PE : CommandOk(p)'  BY OthersKeep
  <2>2. QED  BY <2>1 DEF CommandsOk
<1>2. RefcountsExact'
  <2>1. \A g \in Granules : RefExact(g)'  OBVIOUS
  <2>2. QED  BY <2>1 DEF RefcountsExact, RefExact
<1>3. QED  BY <1>1, <1>2 DEF OInv

\* What the commands of the other PEs rely on without a lock.
LEMMA Reliances ==
  ASSUME OInv, NEW p \in PE
  PROVE  /\ pe[p].op = "realm_destroy" =>
              \A g \in Counted(pe[p]) : g \in Granules /\ lk[g] = NoPE /\ gs[g] = "RTT"
         /\ pe[p].op = "rec_destroy" \/ Walks(pe[p]) => pe[p].rd \in Granules /\ gs[pe[p].rd] = "RD"
         /\ Walks(pe[p]) => Pinned(pe[p].rd)
         /\ \A k \in ConvertedAux(pe[p]) : /\ pe[p].aux[k] \in Granules
                                           /\ gs[pe[p].aux[k]] = "REC_AUX" /\ mem[pe[p].aux[k]] = Zero
         /\ pe[p].op = "rec_enter" => pe[p].new \in Granules /\ gs[pe[p].new] = "REC"
<1>1. CommandOk(p)  BY OfPe
<1>2. pe[p].op = "realm_destroy" =>
        \A g \in Counted(pe[p]) : g \in Granules /\ lk[g] = NoPE /\ gs[g] = "RTT"
  BY CountedAreRoots
<1>3. pe[p].op = "rec_destroy" \/ Walks(pe[p]) => pe[p].rd \in Granules /\ gs[pe[p].rd] = "RD"
  BY <1>1, WalkersRd DEF CommandOk, RecDestroyOk
<1>4. Walks(pe[p]) => Pinned(pe[p].rd)  BY WalkersRd
<1>5. \A k \in ConvertedAux(pe[p]) : /\ pe[p].aux[k] \in Granules
                                     /\ gs[pe[p].aux[k]] = "REC_AUX" /\ mem[pe[p].aux[k]] = Zero
  BY <1>1, OwnedAreGranules DEF CommandOk, RecCreateOk, ConvertedAux
<1>6. pe[p].op = "rec_enter" => pe[p].new \in Granules /\ gs[pe[p].new] = "REC"
  BY <1>1 DEF CommandOk, RecEnterOk
<1>7. QED  BY <1>2, <1>3, <1>4, <1>5, <1>6

\* A free granule that no object owns changes between NS and DELEGATED.
LEMMA FlipKeeps ==
  ASSUME OInv, LInv', NEW q \in PE, pe[q].op = "none", NEW g \in Granules, lk[g] = NoPE,
         gs[g] \in {"NS", "DELEGATED"}, UNCHANGED <<ref, lk, pe>>,
         NEW s \in {"NS", "DELEGATED"}, gs' = [gs EXCEPT ![g] = s],
         mem' = [mem EXCEPT ![g] = IF s = "NS" THEN HostOwned ELSE Zero],
         gpt' \in [Granules -> {"ns", "secure", "realm"}], GptAgrees'
  PROVE  OInv'
<1>1. /\ gs \in [Granules -> GranuleStates] /\ DOMAIN mem = Granules
      /\ lk \in [Granules -> PE \cup {NoPE}]
  BY DEF OInv, Types, LInv
<1>2. /\ gs'[g] = s /\ mem'[g] = IF s = "NS" THEN HostOwned ELSE Zero
      /\ \A x \in Granules : x # g => gs'[x] = gs[x] /\ mem'[x] = mem[x]
      /\ \A x \in Granules : gs[x] \notin {"NS", "DELEGATED"} => x # g
      /\ \A x \in Granules : gs'[x] \notin {"NS", "DELEGATED"} => x # g
  BY <1>1
<1>3. \A x : Holder(x)' = Holder(x) /\ BeingRoot(x)' = BeingRoot(x)
  BY DEF Holder, BeingRoot
<1>4. ~BeingRoot(g)  BY IdleQuiet DEF BeingRoot, Holder
<1>5. Types'  BY <1>1 DEF OInv, Types, GranuleStates
<1>6. Contents'
  <2> SUFFICES ASSUME NEW x \in Granules
               PROVE  (/\ gs[x] = "NS" => mem[x] = HostOwned
                       /\ gs[x] = "DELEGATED" => mem[x] = IF BeingRoot(x) THEN RttMem({}) ELSE Zero
                       /\ gs[x] = "RD" => /\ mem[x] \in RdContent
                                          /\ mem[x].g_rtt + mem[x].num_root_rtts - 1 <= NumGranules
                       /\ gs[x] = "REC" => mem[x] \in RecContent /\ \A k \in 1..mem[x].num_aux : mem[x].g_aux[k] \in Granules
                       /\ gs[x] = "RTT" => mem[x] \in RttContent
                       /\ gs[x] = "REC_AUX" => mem[x] \in {AuxMem, Zero})'
    BY DEF Contents
  <2>1. CASE x = g  BY <2>1, <1>2, <1>3, <1>4
  <2>2. CASE x # g  BY <2>2, <1>2, <1>3 DEF OInv, Contents
  <2>3. QED  BY <2>1, <2>2
<1>7. CommandOk(q)'  BY NoneOk
<1>8. Frame(q)  BY <1>2 DEF Frame
<1>9. \A p \in PE : Undisturbed(p)
  <2> SUFFICES ASSUME NEW p \in PE PROVE Undisturbed(p)  OBVIOUS
  <2>1. Pinned(pe[p].rd)' <=> Pinned(pe[p].rd)  BY <1>3 DEF Pinned
  <2>2. QED  BY <2>1, <1>2, Reliances DEF Undisturbed
<1>10. /\ Rds' = Rds /\ Recs' = Recs
       /\ \A x \in Rds : LiveRoots(x)' = LiveRoots(x) /\ mem'[x] = mem[x]
       /\ \A x \in Recs : LiveAux(x)' = LiveAux(x) /\ mem'[x] = mem[x]
  <2>1. Rds' = Rds /\ Recs' = Recs  BY <1>1, <1>2 DEF Rds, Recs
  <2>2. \A x \in Rds : mem'[x] = mem[x]  BY <1>2 DEF Rds
  <2>3. \A x \in Recs : mem'[x] = mem[x]  BY <1>2 DEF Recs
  <2>4. QED  BY <2>1, <2>2, <2>3, <1>3 DEF LiveRoots, LiveAux
<1>11. Owned'
  <2>1. RootsOk'
    <3>1. RootsOk /\ \A rd \in Rds : LiveRoots(rd) \subseteq Granules  BY OwnedAreGranules DEF OInv, Owned
    <3>2. QED  BY <3>1, <1>2, <1>3, <1>4, <1>10 DEF RootsOk
  <2>2. AuxOk'
    <3>1. /\ AuxOk /\ \A r \in Recs : \A k \in LiveAux(r) : mem[r].g_aux[k] \in Granules
      BY OwnedAreGranules DEF OInv, Owned
    <3>2. QED  BY <3>1, <1>2, <1>10 DEF AuxOk
  <2>3. RecsOk'
    <3>1. /\ RecsOk /\ \A r \in Recs : mem[r].g_rd \in Granules  BY OwnedAreGranules DEF OInv, Owned
    <3>2. QED  BY <3>1, <1>2, <1>10 DEF RecsOk
  <2>4. \A x \in Granules : gs'[x] = "RTT" =>
           \A t \in mem'[x].tables : gs[x] = "RTT" /\ t \in mem[x].tables /\ gs'[t] = "RTT"
    <3>1. /\ TablesOk /\ \A x \in Granules : gs[x] = "RTT" => mem[x].tables \subseteq Granules
      BY OwnedAreGranules DEF OInv, Owned
    <3>2. QED  BY <3>1, <1>2 DEF TablesOk
  <2>5. ConvertedDisjoint'  BY ClaimsShrink
  <2>6. QED  BY <2>1, <2>2, <2>3, <2>4, <2>5, <1>10, OwnedShrinks
<1>12. \A x : RecsOf(x)' = RecsOf(x) /\ Putting(x)' = Putting(x) /\ Running(x)' = Running(x)
  BY <1>1, <1>2 DEF RecsOf, Putting, Running, At
<1>13. ASSUME NEW x \in Granules PROVE RefExact(x)'
  <2>1. CASE x = g
    <3>1. ref'[g] = 0  BY RefExactAt
    <3>2. QED  BY <2>1, <3>1, <1>2 DEF RefExact
  <2>2. CASE x # g  BY <2>2, <1>2, <1>12, RefKept
  <2>3. QED  BY <2>1, <2>2
<1>14. RefcountFits' /\ RecIndicesUnique'
  <2>1. \A x : \A r \in RecsOf(x) : mem'[r] = mem[r]  BY <1>2 DEF RecsOf
  <2>2. QED  BY <2>1, <1>10, <1>12 DEF OInv, RefcountFits, RecIndicesUnique
<1>15. QED  BY <1>5, <1>6, <1>7, <1>8, <1>9, <1>11, <1>13, <1>14, ObjectStep

LEMMA DelegateKeeps ==
  ASSUME OInv, LInv', NEW q \in PE, NEW g \in Granules,
         smc_granule_delegate(q, g) \/ smc_granule_undelegate(q, g)
  PROVE  OInv'
<1>1. CASE smc_granule_delegate(q, g)
  <2>1. /\ pe[q].op = "none" /\ lk[g] = NoPE /\ gs[g] = "NS" /\ gpt[g] = "ns"
        /\ gpt' = [gpt EXCEPT ![g] = "realm"] /\ gs' = [gs EXCEPT ![g] = "DELEGATED"]
        /\ mem' = [mem EXCEPT ![g] = Zero] /\ UNCHANGED <<ref, lk, pe>>
    BY <1>1 DEF smc_granule_delegate, IsIdle, Unlocked
  <2>2. GptAgrees' /\ gpt' \in [Granules -> {"ns", "secure", "realm"}]
    BY <2>1 DEF OInv, GptAgrees, Types
  <2>3. QED  BY <2>1, <2>2, FlipKeeps
<1>2. CASE smc_granule_undelegate(q, g)
  <2>1. /\ pe[q].op = "none" /\ lk[g] = NoPE /\ gs[g] = "DELEGATED" /\ gpt[g] = "realm"
        /\ gpt' = [gpt EXCEPT ![g] = "ns"] /\ gs' = [gs EXCEPT ![g] = "NS"]
        /\ mem' = [mem EXCEPT ![g] = HostOwned] /\ UNCHANGED <<ref, lk, pe>>
    BY <1>2 DEF smc_granule_undelegate, IsIdle, Unlocked
  <2>2. GptAgrees' /\ gpt' \in [Granules -> {"ns", "secure", "realm"}]
    BY <2>1 DEF OInv, GptAgrees, Types
  <2>3. QED  BY <2>1, <2>2, FlipKeeps
<1>3. QED  BY <1>1, <1>2

\* A step of a PE that holds no lock and writes to one RD or REC, or to its reference count,
\* and leaves what the object owns alone.
LEMMA LocklessStep ==
  ASSUME OInv, LInv', NEW q \in PE, UNCHANGED <<gs, lk, gpt>>, \A g \in Granules : lk[g] # q,
         NEW e \in PeType, pe' = [pe EXCEPT ![q] = e], CommandOk(q)', ConvertedAux(e) = {},
         NEW x \in Granules, NEW n \in Nat, n <= RefcountMax, ref' = [ref EXCEPT ![x] = n],
         NEW v, mem' = [mem EXCEPT ![x] = v],
         lk[x] = NoPE \/ (v = mem[x] /\ ref[x] # 0),
         \/ /\ gs[x] = "RD" /\ v \in RdContent /\ v.g_rtt = mem[x].g_rtt
            /\ v.num_root_rtts = mem[x].num_root_rtts /\ v.rec_count = mem[x].rec_count
            /\ n = Cardinality(RecsOf(x)) + Cardinality(Putting(x)')
         \/ /\ gs[x] = "REC" /\ v \in RecContent /\ v.g_rd = mem[x].g_rd /\ v.g_aux = mem[x].g_aux
            /\ v.num_aux = mem[x].num_aux /\ v.rec_idx = mem[x].rec_idx
            /\ n = Cardinality(Running(x)'),
         \A g \in Granules : g # x => Putting(g)' = Putting(g) /\ Running(g)' = Running(g)
  PROVE  OInv'
<1>1. /\ DOMAIN pe = PE /\ DOMAIN mem = Granules /\ ref \in [Granules -> Nat]
      /\ lk \in [Granules -> PE \cup {NoPE}] /\ gs[x] \in {"RD", "REC"}
  BY OfPe DEF OInv, Types
<1>2. /\ pe'[q] = e /\ \A p \in PE : p # q => pe'[p] = pe[p]
      /\ \A g \in Granules : g # x => mem'[g] = mem[g] /\ ref'[g] = ref[g]
      /\ mem'[x] = v /\ ref'[x] = n
  BY <1>1
<1>3. \A g \in Granules : Holder(g)' = Holder(g) /\ BeingRoot(g)' = BeingRoot(g)
  BY <1>2, HolderAfter DEF BeingRoot
<1>4. Types'  BY <1>1 DEF OInv, Types
<1>5. \A g \in Granules :
        /\ gs[g] = "RD" => /\ mem'[g].g_rtt = mem[g].g_rtt /\ mem'[g].num_root_rtts = mem[g].num_root_rtts
                           /\ mem'[g].rec_count = mem[g].rec_count
        /\ gs[g] = "REC" => /\ mem'[g].g_rd = mem[g].g_rd /\ mem'[g].g_aux = mem[g].g_aux
                            /\ mem'[g].num_aux = mem[g].num_aux /\ mem'[g].rec_idx = mem[g].rec_idx
        /\ gs[g] \notin {"RD", "REC"} => mem'[g] = mem[g] /\ ref'[g] = ref[g]
  BY <1>1, <1>2
<1>6. Contents'
  <2>1. \A g \in Granules : /\ gs[g] = "RD" => mem'[g] \in RdContent
                            /\ gs[g] = "REC" => mem'[g] \in RecContent
    BY <1>2 DEF OInv, Contents
  <2>2. QED  BY <2>1, <1>3, <1>5 DEF OInv, Contents
<1>7. Frame(q)  BY <1>1, <1>2, PEAssumption DEF Frame
<1>8. \A p \in PE : p # q => Undisturbed(p)
  <2> SUFFICES ASSUME NEW p \in PE, p # q PROVE Undisturbed(p)  OBVIOUS
  <2>1. Walks(pe[p]) => Pinned(pe[p].rd)'
    <3>1. \A g \in Granules : Pinned(g)' <=> Pinned(g)  BY <1>3 DEF Pinned
    <3>2. pe'[p].rd = pe[p].rd  BY <1>2
    <3>3. QED  BY <3>1, <3>2, Reliances
  <2>2. \A k \in ConvertedAux(pe[p]) : gs'[pe[p].aux[k]] = "REC_AUX" /\ mem'[pe[p].aux[k]] = Zero
    BY <1>5, Reliances
  <2>3. QED  BY <2>1, <2>2, <1>1, <1>5, Reliances DEF Undisturbed
<1>9. /\ Rds' = Rds /\ Recs' = Recs
      /\ \A g \in Rds : LiveRoots(g)' = LiveRoots(g)
      /\ \A g \in Recs : LiveAux(g)' = LiveAux(g)
  <2>1. Rds' = Rds /\ Recs' = Recs  BY DEF Rds, Recs
  <2>2. \A g \in Rds : LiveRoots(g)' = LiveRoots(g)  BY <1>3, <1>5 DEF LiveRoots, Rds
  <2>3. \A g \in Recs : LiveAux(g)' = LiveAux(g)  BY <1>3, <1>5 DEF LiveAux, Recs
  <2>4. QED  BY <2>1, <2>2, <2>3
<1>10. Owned'
  <2>1. RootsOk'
    <3>1. RootsOk /\ \A rd \in Rds : LiveRoots(rd) \subseteq Granules  BY OwnedAreGranules DEF OInv, Owned
    <3>2. QED  BY <3>1, <1>3, <1>9 DEF RootsOk
  <2>2. AuxOk'
    <3>1. /\ AuxOk /\ \A r \in Recs : \A k \in LiveAux(r) : mem[r].g_aux[k] \in Granules
      BY OwnedAreGranules DEF OInv, Owned
    <3>2. \A r \in Recs : mem'[r].g_aux = mem[r].g_aux  BY <1>5 DEF Recs
    <3>3. QED  BY <3>1, <3>2, <1>5, <1>9 DEF AuxOk
  <2>3. RecsOk'
    <3>1. /\ RecsOk /\ \A r \in Recs : mem[r].g_rd \in Granules  BY OwnedAreGranules DEF OInv, Owned
    <3>2. \A r \in Recs : mem'[r].g_rd = mem[r].g_rd /\ mem'[r].rec_idx = mem[r].rec_idx
      BY <1>5 DEF Recs
    <3>3. QED  BY <3>1, <3>2, <1>5, <1>9 DEF RecsOk
  <2>4. \A g \in Granules : gs'[g] = "RTT" =>
           \A t \in mem'[g].tables : gs[g] = "RTT" /\ t \in mem[g].tables /\ gs'[t] = "RTT"
    <3>1. TablesOk  BY DEF OInv, Owned
    <3>2. QED  BY <3>1, <1>5 DEF TablesOk
  <2>5. ConvertedDisjoint'  BY <1>2, ClaimsShrink
  <2>6. \A r \in Recs : mem'[r].g_aux = mem[r].g_aux  BY <1>5 DEF Recs
  <2>7. QED  BY <2>1, <2>2, <2>3, <2>4, <2>5, <2>6, <1>9, OwnedShrinks
<1>11. \A g : RecsOf(g)' = RecsOf(g)  BY <1>5 DEF RecsOf
<1>12. ASSUME NEW g \in Granules PROVE RefExact(g)'
  <2>1. CASE g = x
    <3>1. CASE gs[x] = "RD"
      <4>1. ref'[x] = Cardinality(RecsOf(x)') + Cardinality(Putting(x)')  BY <3>1, <1>2, <1>11
      <4>2. QED  BY <4>1, <2>1, <3>1 DEF RefExact
    <3>2. CASE gs[x] = "REC"
      <4>1. ref'[x] = Cardinality(Running(x)')  BY <3>2, <1>2
      <4>2. QED  BY <4>1, <2>1, <3>2 DEF RefExact
    <3>3. QED  BY <3>1, <3>2, <1>1
  <2>2. CASE g # x  BY <2>2, <1>2, <1>11, RefKept
  <2>3. QED  BY <2>1, <2>2
<1>13. RefcountFits'  BY <1>2 DEF OInv, RefcountFits
<1>14. RecIndicesUnique'
  <2>1. \A g : \A r \in RecsOf(g) : mem'[r].rec_idx = mem[r].rec_idx  BY <1>5 DEF RecsOf
  <2>2. \A g \in Rds : mem'[g].rec_count = mem[g].rec_count  BY <1>5 DEF Rds
  <2>3. QED  BY <2>1, <2>2, <1>9, <1>11 DEF OInv, RecIndicesUnique
<1>15. GptAgrees'  BY DEF OInv, GptAgrees
<1>16. QED  BY <1>4, <1>6, <1>7, <1>8, <1>10, <1>12, <1>13, <1>14, <1>15, ObjectStep

\* Only RMI_REC_DESTROY keeps the lock of a REC, and only of one that nobody runs.
LEMMA RecHolder ==
  ASSUME OInv, NEW g \in Granules, gs[g] = "REC", lk[g] # NoPE
  PROVE  ref[g] = 0
<1>1. PICK p \in PE : lk[g] = p  BY DEF OInv, LInv
<1>2. MayHold(pe[p], g) /\ CommandOk(p) /\ pe[p] \in PeType
  BY <1>1 DEF OInv, LInv, LocksAccounted, CommandsOk, Types
<1>3. pe[p].op # "realm_create"
  <2> SUFFICES ASSUME pe[p].op = "realm_create" PROVE FALSE  OBVIOUS
  <2>1. RealmCreateOk(p)  BY <1>2 DEF CommandOk
  <2>2. QED  BY <2>1, <1>2, LocalsTyped DEF RealmCreateOk, MayHold, Holds
<1>4. pe[p].op # "realm_destroy"
  BY <1>2 DEF CommandOk, RealmDestroyOk, MayHold, Holds
<1>5. pe[p].op \notin {"rec_create", "rtt_create", "rtt_destroy"}
  BY <1>2 DEF CommandOk, TwoLocksOk, WalkOk, MayHold, Holds, FirstToLock, ExpectedState
<1>6. QED  BY <1>2, <1>3, <1>4, <1>5 DEF MayHold, CommandOk, RecDestroyOk

LEMMA RealmActivateKeeps ==
  ASSUME OInv, LInv', NEW q \in PE, NEW rd \in Granules, smc_realm_activate(q, rd)
  PROVE  OInv'
<1> DEFINE v == [mem[rd] EXCEPT !.state = "ACTIVE"]
<1>1. /\ pe[q] \in PeType /\ pe \in [PE -> PeType] /\ pe[q].op = "none" /\ lk[rd] = NoPE /\ gs[rd] = "RD"
      /\ mem' = [mem EXCEPT ![rd] = v] /\ UNCHANGED <<gs, ref, lk, gpt, pe>>
  BY OfPe DEF smc_realm_activate, IsIdle, Unlocked, OInv, Types
<1>2. mem[rd] \in RdContent /\ ref[rd] \in Nat /\ ref[rd] <= RefcountMax /\ ref \in [Granules -> Nat]
  BY <1>1 DEF OInv, Contents, Types, RefcountFits
<1>3. v \in RdContent  BY <1>2 DEF RdContent, RealmStates
<1>4. v.g_rtt = mem[rd].g_rtt /\ v.num_root_rtts = mem[rd].num_root_rtts /\ v.rec_count = mem[rd].rec_count
  BY <1>2 DEF RdContent
<1> HIDE DEF v
<1>5. pe' = [pe EXCEPT ![q] = pe[q]] /\ ref' = [ref EXCEPT ![rd] = ref[rd]]  BY <1>1, <1>2
<1>6. \A g \in Granules : lk[g] # q  BY <1>1, IdleHoldsNothing DEF OInv
<1>7. CommandOk(q)' /\ ConvertedAux(pe[q]) = {}  BY <1>1, NoneOk DEF ConvertedAux
<1>8. \A g : Putting(g)' = Putting(g) /\ Running(g)' = Running(g)  BY <1>1 DEF Putting, Running, At
<1>9. ref[rd] = Cardinality(RecsOf(rd)) + Cardinality(Putting(rd)')  BY <1>1, <1>8, RefExactAt
<1>10. QED  BY <1>1, <1>2, <1>3, <1>4, <1>5, <1>6, <1>7, <1>8, <1>9, LocklessStep

\* RMI_REC_ENTER holds no lock.
LEMMA RecEnterHoldsNothing ==
  ASSUME OInv, NEW q \in PE, pe[q].op = "rec_enter" \/ At(q, "rec_destroy", "put")
  PROVE  \A g \in Granules : lk[g] # q
BY DEF OInv, LInv, LocksAccounted, MayHold, At

\* A step of RMI_REC_ENTER that writes to the REC it runs or to its RD.
LEMMA RecRunWrites ==
  ASSUME OInv, LInv', NEW q \in PE, pe[q].op = "rec_enter", Goto(q, "put"),
         UNCHANGED <<gs, ref, lk, gpt>>, NEW x \in Granules, lk[x] = NoPE, NEW v, mem' = [mem EXCEPT ![x] = v],
         \/ /\ gs[x] = "RD" /\ v \in RdContent /\ v.g_rtt = mem[x].g_rtt
            /\ v.num_root_rtts = mem[x].num_root_rtts /\ v.rec_count = mem[x].rec_count
         \/ /\ gs[x] = "REC" /\ v \in RecContent /\ v.g_rd = mem[x].g_rd /\ v.g_aux = mem[x].g_aux
            /\ v.num_aux = mem[x].num_aux /\ v.rec_idx = mem[x].rec_idx
  PROVE  OInv'
<1> DEFINE e == Moved(pe[q], "put", pe[q].i)
<1>1. pe[q] \in PeType /\ DOMAIN pe = PE /\ RecEnterOk(q) /\ pe' = [pe EXCEPT ![q] = e]
  BY OfPe, GotoMoves DEF CommandOk, OInv, Types
<1>2. pe[q].i \in Nat /\ "put" \in Steps  BY <1>1, LocalsTyped DEF Steps
<1>3. e \in PeType /\ e.op = "rec_enter" /\ e.step = "put" /\ e.new = pe[q].new  BY <1>1, <1>2, MovedOn
<1> HIDE DEF e
<1>4. pe'[q] = e /\ \A p \in PE : p # q => pe'[p] = pe[p]  BY <1>1
<1>5. CommandOk(q)' /\ ConvertedAux(e) = {}
  BY <1>1, <1>3, <1>4 DEF CommandOk, TwoLocksOk, RecCreateOk, RealmCreateOk, RealmDestroyOk, WalkOk,
                          RecEnterOk, RecDestroyOk, ConvertedAux
<1>6. SameRefs(q)  BY <1>3, <1>4 DEF SameRefs, At
<1>7. \A g : Putting(g)' = Putting(g) /\ Running(g)' = Running(g)  BY <1>4, <1>6, PeSetsKept
<1>8. ref[x] \in Nat /\ ref[x] <= RefcountMax /\ ref' = [ref EXCEPT ![x] = ref[x]]
  BY DEF OInv, Types, RefcountFits
<1>9. /\ gs[x] = "RD" => ref[x] = Cardinality(RecsOf(x)) + Cardinality(Putting(x)')
      /\ gs[x] = "REC" => ref[x] = Cardinality(Running(x)')
  BY <1>7, RefExactAt
<1>10. \A g \in Granules : lk[g] # q  BY RecEnterHoldsNothing
<1>11. QED  BY <1>1, <1>3, <1>5, <1>7, <1>8, <1>9, <1>10, LocklessStep

LEMMA RecRunCpuOffKeeps ==
  ASSUME OInv, LInv', NEW q \in PE, RecRunCpuOff(q)
  PROVE  OInv'
<1> DEFINE x == pe[q].new
           v == [mem[x] EXCEPT !.runnable = FALSE]
<1>1. /\ pe[q].op = "rec_enter" /\ Goto(q, "put") /\ mem' = [mem EXCEPT ![x] = v]
      /\ UNCHANGED <<gs, ref, lk, gpt>>
  BY DEF RecRunCpuOff, At
<1>2. x \in Granules /\ gs[x] = "REC"  BY <1>1, Reliances
<1>3. mem[x] \in RecContent  BY <1>2 DEF OInv, Contents
<1>4. v \in RecContent  BY <1>3 DEF RecContent
<1>5. v.g_rd = mem[x].g_rd /\ v.g_aux = mem[x].g_aux /\ v.num_aux = mem[x].num_aux /\ v.rec_idx = mem[x].rec_idx
  BY <1>3 DEF RecContent
<1>6. lk[x] = NoPE
  <2>1. q \in Running(x)  BY <1>1 DEF Running
  <2>2. QED  BY <2>1, <1>2, NoReferrers, RecHolder
<1> HIDE DEF x, v
<1>7. QED  BY <1>1, <1>2, <1>4, <1>5, <1>6, RecRunWrites

LEMMA RecRunSystemOffKeeps ==
  ASSUME OInv, LInv', NEW q \in PE, RecRunSystemOff(q)
  PROVE  OInv'
<1> DEFINE x == mem[pe[q].new].g_rd
           v == [mem[x] EXCEPT !.state = "SYSTEM_OFF"]
<1>1. /\ pe[q].op = "rec_enter" /\ Goto(q, "put") /\ mem' = [mem EXCEPT ![x] = v]
      /\ UNCHANGED <<gs, ref, lk, gpt>> /\ lk[x] = NoPE
  BY DEF RecRunSystemOff, At, Unlocked
<1>2. x \in Granules /\ gs[x] = "RD"
  <2>1. pe[q].new \in Recs  BY <1>1, Reliances DEF Recs
  <2>2. QED  BY <2>1, OwnedAreGranules DEF OInv, Owned, RecsOk
<1> HIDE DEF x
<1>3. mem[x] \in RdContent  BY <1>2 DEF OInv, Contents
<1>4. v \in RdContent  BY <1>3 DEF RdContent, RealmStates
<1>5. v.g_rtt = mem[x].g_rtt /\ v.num_root_rtts = mem[x].num_root_rtts /\ v.rec_count = mem[x].rec_count
  BY <1>3 DEF RdContent
<1> HIDE DEF v
<1>6. QED  BY <1>1, <1>2, <1>4, <1>5, RecRunWrites

\* Counting one element more or less.
LEMMA CountOne ==
  ASSUME NEW S, IsFiniteSet(S), NEW x
  PROVE  /\ Cardinality(S) \in Nat
         /\ x \in S => Cardinality(S \ {x}) = Cardinality(S) - 1 /\ Cardinality(S) >= 1
         /\ x \notin S => Cardinality(S \cup {x}) = Cardinality(S) + 1
         /\ Cardinality({x}) = 1
<1>1. Cardinality(S) \in Nat  BY FS_CardinalityType
<1>2. x \in S => Cardinality(S \ {x}) = Cardinality(S) - 1  BY FS_RemoveElement
<1>3. x \in S => Cardinality(S) # 0  BY FS_EmptySet
<1>4. x \notin S => Cardinality(S \cup {x}) = Cardinality(S) + 1  BY FS_AddElement
<1>5. Cardinality({x}) = 1  BY FS_Singleton
<1>6. QED  BY <1>1, <1>2, <1>3, <1>4, <1>5

LEMMA RecEnterGetKeeps ==
  ASSUME OInv, LInv', NEW q \in PE, NEW rec \in Granules, RecEnterGet(q, rec)
  PROVE  OInv'
<1> DEFINE e == [Idle EXCEPT !.op = "rec_enter", !.step = "check", !.new = rec]
<1>1. /\ pe[q].op = "none" /\ DOMAIN pe = PE /\ lk[rec] = NoPE /\ gs[rec] = "REC" /\ ref[rec] = 0
      /\ ref' = [ref EXCEPT ![rec] = 1] /\ pe' = [pe EXCEPT ![q] = e] /\ UNCHANGED <<gs, lk, mem, gpt>>
  BY OfPe DEF RecEnterGet, IsIdle, Unlocked, Unused
<1>2. e \in PeType  BY IdleTyped DEF PeType, Ops, Steps, GranuleOrNone
<1>3. e.op = "rec_enter" /\ e.step = "check" /\ e.new = rec  BY DEF Idle
<1> HIDE DEF e
<1>4. pe'[q] = e /\ \A p \in PE : p # q => pe'[p] = pe[p]  BY <1>1
<1>5. CommandOk(q)' /\ ConvertedAux(e) = {}
  BY <1>1, <1>3, <1>4 DEF CommandOk, TwoLocksOk, RecCreateOk, RealmCreateOk, RealmDestroyOk, WalkOk,
                          RecEnterOk, RecDestroyOk, ConvertedAux
<1>6. \A g \in Granules : lk[g] # q  BY <1>1, IdleHoldsNothing DEF OInv
<1>7. Running(rec)' = {q}
  <2>1. Running(rec) = {}  BY <1>1, NoReferrers
  <2>2. QED  BY <2>1, <1>3, <1>4 DEF Running
<1>8. \A g \in Granules : g # rec => Putting(g)' = Putting(g) /\ Running(g)' = Running(g)
  BY <1>1, <1>3, <1>4 DEF Running, Putting, At
<1>9. 1 = Cardinality(Running(rec)')  BY <1>7, FS_Singleton
<1>10. mem[rec] \in RecContent /\ mem' = [mem EXCEPT ![rec] = mem[rec]] /\ 1 \in Nat /\ 1 <= RefcountMax
  BY <1>1, SizesAssumption DEF OInv, Contents, Types
<1>11. QED  BY <1>1, <1>2, <1>5, <1>6, <1>8, <1>9, <1>10, LocklessStep

LEMMA RecEnterPutKeeps ==
  ASSUME OInv, LInv', NEW q \in PE, RecEnterPut(q)
  PROVE  OInv'
<1>0. PICK x, n : x = pe[q].new /\ n = ref[x] - 1  OBVIOUS
<1>1. /\ pe[q].op = "rec_enter" /\ DOMAIN pe = PE /\ ref' = [ref EXCEPT ![x] = n] /\ Return(q)
      /\ UNCHANGED <<gs, lk, mem, gpt>>
  BY <1>0, OfPe DEF RecEnterPut, At
<1>2. x \in Granules /\ gs[x] = "REC"  BY <1>0, <1>1, Reliances
<1>3. pe' = [pe EXCEPT ![q] = Idle] /\ pe'[q] = Idle /\ \A p \in PE : p # q => pe'[p] = pe[p]
  BY <1>0, <1>1 DEF Return
<1>4. q \in Running(x) /\ Running(x)' = Running(x) \ {q}
  BY <1>0, <1>1, <1>3, IdleTyped DEF Running
<1>5. ref[x] = Cardinality(Running(x)) /\ IsFiniteSet(Running(x))  BY <1>0, <1>2, RefExactAt, RefSets, Finite
<1>6. n = Cardinality(Running(x)') /\ n \in Nat /\ ref[x] # 0 /\ n < ref[x]
  <2>1. Cardinality(Running(x) \ {q}) = Cardinality(Running(x)) - 1 /\ Cardinality(Running(x)) >= 1
        /\ Cardinality(Running(x)) \in Nat
    BY <1>4, <1>5, CountOne
  <2>2. QED  BY <2>1, <1>0, <1>4, <1>5
<1>7. n <= RefcountMax
  <2>1. ref[x] <= RefcountMax /\ ref[x] \in Nat  BY <1>0, <1>2 DEF OInv, RefcountFits, Types
  <2>2. QED  BY <1>0, <2>1, <1>6, SizesAssumption
<1>8. \A g \in Granules : g # x => Putting(g)' = Putting(g) /\ Running(g)' = Running(g)
  BY <1>0, <1>1, <1>3, IdleTyped DEF Running, Putting, At
<1>9. mem[x] \in RecContent /\ mem' = [mem EXCEPT ![x] = mem[x]]
  BY <1>0, <1>1, <1>2 DEF OInv, Contents, Types
<1>10. CommandOk(q)' /\ ConvertedAux(Idle) = {} /\ Idle \in PeType  BY <1>0, <1>3, IdleOk, IdleTyped
<1>11. \A g \in Granules : lk[g] # q  BY <1>0, <1>1, RecEnterHoldsNothing
<1>12. QED  BY <1>1, <1>2, <1>3, <1>6, <1>7, <1>8, <1>9, <1>10, <1>11, LocklessStep

LEMMA RecDestroyPutKeeps ==
  ASSUME OInv, LInv', NEW q \in PE, RecDestroyPut(q)
  PROVE  OInv'
<1>0. PICK x, n : x = pe[q].rd /\ n = ref[x] - 1  OBVIOUS
<1>1. /\ At(q, "rec_destroy", "put") /\ DOMAIN pe = PE /\ ref' = [ref EXCEPT ![x] = n] /\ Return(q)
      /\ UNCHANGED <<gs, lk, mem, gpt>>
  BY <1>0, OfPe DEF RecDestroyPut
<1>2. x \in Granules /\ gs[x] = "RD"  BY <1>0, <1>1, Reliances DEF At
<1>3. pe' = [pe EXCEPT ![q] = Idle] /\ pe'[q] = Idle /\ \A p \in PE : p # q => pe'[p] = pe[p]
  BY <1>0, <1>1 DEF Return
<1>4. q \in Putting(x) /\ Putting(x)' = Putting(x) \ {q}
  BY <1>0, <1>1, <1>3, IdleTyped DEF Putting, At
<1>5. /\ ref[x] = Cardinality(RecsOf(x)) + Cardinality(Putting(x))
      /\ IsFiniteSet(Putting(x)) /\ Cardinality(RecsOf(x)) \in Nat
  BY <1>0, <1>2, RefExactAt, RefSets, Finite
<1>6. n = Cardinality(RecsOf(x)) + Cardinality(Putting(x)') /\ n \in Nat /\ ref[x] # 0 /\ n < ref[x]
  <2>1. Cardinality(Putting(x) \ {q}) = Cardinality(Putting(x)) - 1 /\ Cardinality(Putting(x)) >= 1
        /\ Cardinality(Putting(x)) \in Nat
    BY <1>4, <1>5, CountOne
  <2>2. QED  BY <2>1, <1>0, <1>4, <1>5
<1>7. n <= RefcountMax
  <2>1. ref[x] <= RefcountMax /\ ref[x] \in Nat  BY <1>0, <1>2 DEF OInv, RefcountFits, Types
  <2>2. QED  BY <1>0, <2>1, <1>6, SizesAssumption
<1>8. \A g \in Granules : g # x => Putting(g)' = Putting(g) /\ Running(g)' = Running(g)
  BY <1>0, <1>1, <1>3, IdleTyped DEF Running, Putting, At
<1>9. mem[x] \in RdContent /\ mem' = [mem EXCEPT ![x] = mem[x]]
  BY <1>0, <1>1, <1>2 DEF OInv, Contents, Types
<1>10. CommandOk(q)' /\ ConvertedAux(Idle) = {} /\ Idle \in PeType  BY <1>0, <1>3, IdleOk, IdleTyped
<1>11. \A g \in Granules : lk[g] # q  BY <1>0, <1>1, RecEnterHoldsNothing
<1>12. QED  BY <1>1, <1>2, <1>3, <1>6, <1>7, <1>8, <1>9, <1>10, <1>11, LocklessStep

(***************************************************************************)
(* One granule changes state and content and is left unlocked.             *)
(***************************************************************************)
Retyped(q, x, s, v, e) ==
  /\ gs' = [gs EXCEPT ![x] = s]
  /\ mem' = [mem EXCEPT ![x] = v]
  /\ pe' = [pe EXCEPT ![q] = e]
  /\ lk'[x] = NoPE /\ \A g \in Granules : g # x => lk'[g] = lk[g]
  /\ UNCHANGED <<ref, gpt>>

\* What q still holds stays owned, or less of it.
Releases(q, x, e) ==
  \A g \in Granules : g # x /\ lk[g] = q =>
    /\ FillsRoots(e) <=> FillsRoots(pe[q])
    /\ RootsFreed(e) >= RootsFreed(pe[q]) /\ AuxFreed(e) >= AuxFreed(pe[q])

LEMMA RetypedFacts ==
  ASSUME OInv, NEW q \in PE, NEW x \in Granules, NEW s \in {"DELEGATED", "RTT", "REC_AUX"}, NEW v,
         NEW e \in PeType, Retyped(q, x, s, v, e), Releases(q, x, e)
  PROVE  /\ gs'[x] = s /\ mem'[x] = v /\ pe'[q] = e
         /\ \A g \in Granules : g # x => gs'[g] = gs[g] /\ mem'[g] = mem[g]
         /\ \A p \in PE : p # q => pe'[p] = pe[p]
         /\ \A g \in Granules : g # x => BeingRoot(g)' = BeingRoot(g)
         /\ ~BeingRoot(x)'
         /\ Rds' = Rds \ {x} /\ Recs' = Recs \ {x}
         /\ \A rd \in Rds' : LiveRoots(rd)' \subseteq LiveRoots(rd)
         /\ \A r \in Recs' : LiveAux(r)' \subseteq LiveAux(r)
<1>1. /\ gs \in [Granules -> GranuleStates] /\ DOMAIN mem = Granules /\ pe \in [PE -> PeType]
  BY DEF OInv, Types
<1>2. /\ gs'[x] = s /\ mem'[x] = v /\ pe'[q] = e
      /\ \A g \in Granules : g # x => gs'[g] = gs[g] /\ mem'[g] = mem[g]
      /\ \A p \in PE : p # q => pe'[p] = pe[p]
  BY <1>1 DEF Retyped
<1>3. Rds' = Rds \ {x} /\ Recs' = Recs \ {x}  BY <1>2 DEF Rds, Recs
<1>4. ~BeingRoot(x)'
  <2>1. Holder(x)' = Idle  BY <1>2, HolderAfter DEF Retyped
  <2>2. QED  BY <2>1, IdleQuiet DEF BeingRoot
<1>5. ASSUME NEW g \in Granules, g # x
      PROVE  /\ BeingRoot(g)' = BeingRoot(g)
             /\ RootsFreed(Holder(g)') \in Nat /\ RootsFreed(Holder(g)) \in Nat
             /\ RootsFreed(Holder(g)') >= RootsFreed(Holder(g))
             /\ AuxFreed(Holder(g)') \in Nat /\ AuxFreed(Holder(g)) \in Nat
             /\ AuxFreed(Holder(g)') >= AuxFreed(Holder(g))
  <2>1. \A f \in PeType : RootsFreed(f) \in Nat /\ AuxFreed(f) \in Nat /\ FillsRoots(f) \in BOOLEAN
    BY LocalsTyped DEF RootsFreed, AuxFreed, FillsRoots
  <2>2. Holder(g) \in PeType  BY HolderTyped
  <2>3. CASE lk[g] # q
    <3>1. Holder(g)' = Holder(g)  BY <2>3, <1>2, <1>5, HolderAfter DEF Retyped
    <3>2. QED  BY <3>1, <2>1, <2>2 DEF BeingRoot
  <2>4. CASE lk[g] = q
    <3>1. Holder(g)' = e /\ Holder(g) = pe[q]  BY <2>4, <1>2, <1>5, HolderAfter DEF Retyped
    <3>2. QED  BY <3>1, <2>1, <2>2, <2>4, <1>5 DEF BeingRoot, Releases
  <2>5. QED  BY <2>3, <2>4
<1>6. ASSUME NEW rd \in Rds' PROVE LiveRoots(rd)' \subseteq LiveRoots(rd)
  <2>1. rd \in Granules /\ rd # x /\ gs[rd] = "RD"  BY <1>3, <1>6 DEF Rds
  <2>2. mem[rd].g_rtt \in Nat /\ mem[rd].num_root_rtts \in Nat
    BY <2>1, GranulesAre DEF OInv, Contents, RdContent
  <2>3. \A n \in Nat, m \in Nat : n >= m =>
          (mem[rd].g_rtt + n)..(mem[rd].g_rtt + mem[rd].num_root_rtts - 1) \subseteq
          (mem[rd].g_rtt + m)..(mem[rd].g_rtt + mem[rd].num_root_rtts - 1)
    BY <2>2
  <2>4. mem'[rd] = mem[rd]  BY <2>1, <1>2
  <2>5. LiveRoots(rd)' = (mem[rd].g_rtt + RootsFreed(Holder(rd)'))..(mem[rd].g_rtt + mem[rd].num_root_rtts - 1)
    BY <2>4 DEF LiveRoots, RootsFreed
  <2>6. QED  BY <2>1, <2>3, <2>5, <1>5 DEF LiveRoots
<1>7. ASSUME NEW r \in Recs' PROVE LiveAux(r)' \subseteq LiveAux(r)
  <2>1. r \in Granules /\ r # x /\ gs[r] = "REC"  BY <1>3, <1>7 DEF Recs
  <2>2. mem[r].num_aux \in Nat
    BY <2>1, SizesAssumption DEF OInv, Contents, RecContent
  <2>3. \A n \in Nat, m \in Nat : n >= m => (n + 1)..mem[r].num_aux \subseteq (m + 1)..mem[r].num_aux
    BY <2>2
  <2>4. mem'[r] = mem[r]  BY <2>1, <1>2
  <2>5. LiveAux(r)' = (AuxFreed(Holder(r)') + 1)..mem[r].num_aux  BY <2>4 DEF LiveAux, AuxFreed
  <2>6. QED  BY <2>1, <2>3, <2>5, <1>5 DEF LiveAux
<1>8. QED  BY <1>2, <1>3, <1>4, <1>5, <1>6, <1>7

LEMMA RetypedKeeps ==
  ASSUME OInv, LInv', NEW q \in PE, NEW x \in Granules, lk[x] \in {q, NoPE},
         NEW s \in {"DELEGATED", "RTT", "REC_AUX"}, NEW v,
         s = "RTT" => v = RttMem({}), s # "RTT" => v = Zero,
         NEW e \in PeType, Retyped(q, x, s, v, e), Releases(q, x, e), CommandOk(q)',
         gs[x] # "NS", ref[x] = 0, BeingRoot(x) => s = "RTT",
         \A p \in PE : p # q /\ Walks(pe[p]) => Pinned(pe[p].rd)',
         gs[x] = "RTT" =>
           /\ \A p \in PE : p # q /\ pe[p].op = "realm_destroy" => x \notin Counted(pe[p])
           /\ \A rd \in Rds' : x \notin LiveRoots(rd)'
           /\ \A y \in Granules : gs[y] = "RTT" => x \notin mem[y].tables,
         gs[x] = "RD" =>
           /\ \A p \in PE : p # q /\ (pe[p].op = "rec_destroy" \/ Walks(pe[p])) => pe[p].rd # x
           /\ \A r \in Recs : mem[r].g_rd # x,
         gs[x] = "REC_AUX" =>
           /\ \A p \in PE : p # q => \A k \in ConvertedAux(pe[p]) : pe[p].aux[k] # x
           /\ \A r \in Recs' : \A k \in LiveAux(r)' : mem[r].g_aux[k] # x,
         gs[x] = "REC" => \A p \in PE : p # q /\ pe[p].op = "rec_enter" => pe[p].new # x,
         ConvertedDisjoint',
         \A g \in Granules : g # x =>
           /\ gs[g] = "RD" => Cardinality(RecsOf(g)') + Cardinality(Putting(g)') =
                              Cardinality(RecsOf(g)) + Cardinality(Putting(g))
           /\ gs[g] = "REC" => Running(g)' = Running(g)
  PROVE  OInv'
<1>1. /\ gs'[x] = s /\ mem'[x] = v /\ pe'[q] = e
      /\ \A g \in Granules : g # x => gs'[g] = gs[g] /\ mem'[g] = mem[g]
      /\ \A p \in PE : p # q => pe'[p] = pe[p]
      /\ \A g \in Granules : g # x => BeingRoot(g)' = BeingRoot(g)
      /\ ~BeingRoot(x)'
      /\ Rds' = Rds \ {x} /\ Recs' = Recs \ {x}
      /\ \A rd \in Rds' : LiveRoots(rd)' \subseteq LiveRoots(rd)
      /\ \A r \in Recs' : LiveAux(r)' \subseteq LiveAux(r)
  BY RetypedFacts
<1>2. UNCHANGED <<ref, gpt>> /\ lk'[x] = NoPE /\ \A g \in Granules : g # x => lk'[g] = lk[g]
  BY DEF Retyped
<1>3. Types'
  BY DEF OInv, Types, Retyped, GranuleStates
<1>4. Contents'
  <2>1. \A g \in Granules : g # x =>
          (/\ gs[g] = "NS" => mem[g] = HostOwned
           /\ gs[g] = "DELEGATED" => mem[g] = IF BeingRoot(g) THEN RttMem({}) ELSE Zero
           /\ gs[g] = "RD" => /\ mem[g] \in RdContent
                              /\ mem[g].g_rtt + mem[g].num_root_rtts - 1 <= NumGranules
           /\ gs[g] = "REC" => mem[g] \in RecContent /\ \A k \in 1..mem[g].num_aux : mem[g].g_aux[k] \in Granules
           /\ gs[g] = "RTT" => mem[g] \in RttContent
           /\ gs[g] = "REC_AUX" => mem[g] \in {AuxMem, Zero})'
    BY <1>1 DEF OInv, Contents
  <2>2. RttMem({}) \in RttContent  BY DEF RttMem, RttContent
  <2>3. QED  BY <2>1, <2>2, <1>1 DEF Contents
<1>5. Frame(q)  BY <1>1, <1>2 DEF Frame
<1>6. ASSUME NEW p \in PE, p # q PROVE Undisturbed(p)
  <2>1. pe[p].op = "realm_destroy" =>
          \A g \in Counted(pe[p]) : lk'[g] = NoPE /\ gs'[g] = "RTT" /\ (ref[g] = 0 => ref'[g] = 0)
    BY <1>1, <1>2, <1>6, Reliances
  <2>2. pe[p].op = "rec_destroy" \/ Walks(pe[p]) => pe[p].rd # x /\ gs'[pe[p].rd] = "RD"
    BY <1>1, <1>6, Reliances
  <2>3. Walks(pe[p]) => mem'[pe[p].rd] = mem[pe[p].rd]  BY <2>2, <1>1, Reliances
  <2>4. \A k \in ConvertedAux(pe[p]) : gs'[pe[p].aux[k]] = "REC_AUX" /\ mem'[pe[p].aux[k]] = Zero
    BY <1>1, <1>6, Reliances
  <2>5. pe[p].op = "rec_enter" => gs'[pe[p].new] = "REC"  BY <1>1, <1>6, Reliances
  <2>6. QED  BY <2>1, <2>2, <2>3, <2>4, <2>5, <1>6 DEF Undisturbed
<1>7. Owned'
  <2>1. RootsOk'
    <3>1. RootsOk /\ \A rd \in Rds : LiveRoots(rd) \subseteq Granules  BY OwnedAreGranules DEF OInv, Owned
    <3>2. ASSUME NEW rd \in Rds', NEW g \in LiveRoots(rd)' PROVE gs'[g] = "RTT" \/ BeingRoot(g)'
      <4>1. rd \in Rds /\ g \in LiveRoots(rd)  BY <1>1, <3>2
      <4>2. g \in Granules /\ (gs[g] = "RTT" \/ BeingRoot(g))  BY <4>1, <3>1 DEF RootsOk
      <4>3. CASE g = x  BY <4>2, <4>3, <3>2, <1>1
      <4>4. CASE g # x  BY <4>2, <4>4, <1>1
      <4>5. QED  BY <4>3, <4>4
    <3>3. QED  BY <3>2 DEF RootsOk
  <2>2. AuxOk'
    <3>1. /\ AuxOk /\ \A r \in Recs : \A k \in LiveAux(r) : mem[r].g_aux[k] \in Granules
      BY OwnedAreGranules DEF OInv, Owned
    <3>2. ASSUME NEW r \in Recs', NEW k \in LiveAux(r)'
          PROVE  gs'[mem'[r].g_aux[k]] = "REC_AUX" /\ mem'[mem'[r].g_aux[k]] = AuxMem
      <4>1. r \in Recs /\ r # x /\ k \in LiveAux(r) /\ r \in Granules  BY <1>1, <3>2 DEF Recs
      <4>2. mem'[r] = mem[r]  BY <4>1, <1>1
      <4>3. /\ mem[r].g_aux[k] \in Granules /\ gs[mem[r].g_aux[k]] = "REC_AUX"
            /\ mem[mem[r].g_aux[k]] = AuxMem
        BY <4>1, <3>1 DEF AuxOk
      <4>4. mem[r].g_aux[k] # x  BY <4>3, <3>2
      <4>5. QED  BY <4>2, <4>3, <4>4, <1>1
    <3>3. QED  BY <3>2 DEF AuxOk
  <2>3. RecsOk'
    <3>1. /\ RecsOk /\ \A r \in Recs : mem[r].g_rd \in Granules  BY OwnedAreGranules DEF OInv, Owned
    <3>2. ASSUME NEW r \in Recs'
          PROVE  gs'[mem'[r].g_rd] = "RD" /\ mem'[r].rec_idx < mem'[mem'[r].g_rd].rec_count
      <4>1. r \in Recs /\ r # x /\ r \in Granules  BY <1>1, <3>2 DEF Recs
      <4>2. mem'[r] = mem[r]  BY <4>1, <1>1
      <4>3. mem[r].g_rd \in Granules /\ gs[mem[r].g_rd] = "RD" /\ mem[r].rec_idx < mem[mem[r].g_rd].rec_count
        BY <4>1, <3>1 DEF RecsOk
      <4>4. mem[r].g_rd # x  BY <4>1, <4>3
      <4>5. QED  BY <4>2, <4>3, <4>4, <1>1
    <3>3. QED  BY <3>2 DEF RecsOk
  <2>4. \A y \in Granules : gs'[y] = "RTT" =>
           \A t \in mem'[y].tables : gs[y] = "RTT" /\ t \in mem[y].tables /\ gs'[t] = "RTT"
    <3> SUFFICES ASSUME NEW y \in Granules, gs'[y] = "RTT", NEW t \in mem'[y].tables
                 PROVE  gs[y] = "RTT" /\ t \in mem[y].tables /\ gs'[t] = "RTT"
      OBVIOUS
    <3>1. y # x
      <4>1. CASE y = x
        <5>1. mem'[x].tables = {}  BY <4>1, <1>1 DEF RttMem
        <5>2. QED  BY <5>1, <4>1
      <4>2. QED  BY <4>1
    <3>2. gs[y] = "RTT" /\ t \in mem[y].tables  BY <3>1, <1>1
    <3>3. t \in Granules /\ gs[t] = "RTT"  BY <3>2, OwnedAreGranules DEF OInv, Owned, TablesOk
    <3>4. t # x  BY <3>2, <3>3
    <3>5. QED  BY <3>2, <3>3, <3>4, <1>1
  <2>5. \A r \in Recs' : mem'[r].g_aux = mem[r].g_aux  BY <1>1 DEF Recs
  <2>6. QED  BY <2>1, <2>2, <2>3, <2>4, <2>5, <1>1, OwnedShrinks
<1>8. ASSUME NEW g \in Granules PROVE RefExact(g)'
  <2>1. CASE g = x
    <3>1. CASE s = "RTT"
      <4>1. mem'[x].tables = {}  BY <3>1, <1>1 DEF RttMem
      <4>2. Cardinality(mem'[x].tables) = 0  BY <4>1, FS_EmptySet
      <4>3. QED  BY <4>2, <3>1, <2>1, <1>1, <1>2 DEF RefExact
    <3>2. CASE s # "RTT"  BY <3>2, <2>1, <1>1, <1>2 DEF RefExact
    <3>3. QED  BY <3>1, <3>2
  <2>2. CASE g # x
    <3>1. RefExact(g) /\ gs'[g] = gs[g] /\ mem'[g] = mem[g] /\ ref'[g] = ref[g]
      BY <2>2, <1>1, <1>2, RefExactAt
    <3>2. gs[g] = "RD" => ref'[g] = Cardinality(RecsOf(g)') + Cardinality(Putting(g)')
      BY <3>1, <2>2 DEF RefExact
    <3>3. gs[g] = "REC" => ref'[g] = Cardinality(Running(g)')  BY <3>1, <2>2 DEF RefExact
    <3>4. QED  BY <3>1, <3>2, <3>3 DEF RefExact
  <2>3. QED  BY <2>1, <2>2
<1>9. RefcountFits'  BY <1>2 DEF OInv, RefcountFits
<1>10. RecIndicesUnique'
  <2>1. \A g : \A r \in RecsOf(g)' : r \in RecsOf(g) /\ mem'[r] = mem[r]  BY <1>1 DEF RecsOf
  <2>2. \A g \in Rds' : g \in Rds /\ mem'[g] = mem[g]  BY <1>1 DEF Rds
  <2>3. QED  BY <2>1, <2>2 DEF OInv, RecIndicesUnique
<1>11. GptAgrees'  BY <1>1, <1>2 DEF OInv, GptAgrees
<1>12. QED  BY <1>3, <1>4, <1>5, <1>6, <1>7, <1>8, <1>9, <1>10, <1>11, ObjectStep

\* A step that retypes a granule other than a REC, and neither enters nor leaves a REC.
LEMMA RetypedRefs ==
  ASSUME OInv, NEW q \in PE, NEW x \in Granules, NEW s \in {"DELEGATED", "RTT", "REC_AUX"}, NEW v,
         NEW e \in PeType, Retyped(q, x, s, v, e), gs[x] # "REC", SameRefs(q)
  PROVE  \A g : RecsOf(g)' = RecsOf(g) /\ Putting(g)' = Putting(g) /\ Running(g)' = Running(g)
<1>1. /\ gs \in [Granules -> GranuleStates] /\ DOMAIN mem = Granules /\ pe \in [PE -> PeType]
  BY DEF OInv, Types
<1>2. /\ gs'[x] = s /\ \A g \in Granules : g # x => gs'[g] = gs[g] /\ mem'[g] = mem[g]
      /\ \A p \in PE : p # q => pe'[p] = pe[p]
  BY <1>1 DEF Retyped
<1>3. \A g : RecsOf(g)' = RecsOf(g)  BY <1>2 DEF RecsOf
<1>4. \A g : Putting(g)' = Putting(g) /\ Running(g)' = Running(g)  BY <1>2, PeSetsKept
<1>5. QED  BY <1>3, <1>4

\* The walks of the others stay pinned, unless q tears a realm down.
LEMMA RetypedPins ==
  ASSUME OInv, NEW q \in PE, NEW x \in Granules, lk[x] \in {q, NoPE}, NEW s, NEW v,
         NEW e \in PeType, Retyped(q, x, s, v, e), e.op # "realm_destroy"
  PROVE  \A p \in PE : p # q /\ Walks(pe[p]) => Pinned(pe[p].rd)'
<1>1. pe'[q] = e /\ \A p \in PE : p # q => pe'[p] = pe[p]  BY OfPe DEF Retyped
<1>2. /\ \A g \in Granules : lk[g] \notin {q, NoPE} => lk'[g] = lk[g]
      /\ \A g \in Granules : lk'[g] \in {lk[g], q, NoPE}
  BY DEF Retyped
<1>3. \A g \in Granules : Pinned(g) => Pinned(g)'  BY <1>1, <1>2, PinsKept
<1>4. SUFFICES ASSUME NEW p \in PE, p # q, Walks(pe[p]) PROVE Pinned(pe[p].rd)'  OBVIOUS
<1>5. pe'[p].rd = pe[p].rd  BY <1>1, <1>4
<1>6. QED  BY <1>3, <1>4, <1>5, WalkersRd

LEMMA RealmCreateUnlockRttKeeps ==
  ASSUME OInv, LInv', NEW q \in PE, RealmCreateUnlockRtt(q)
  PROVE  OInv'
<1>0. PICK x : x = pe[q].root + pe[q].i  OBVIOUS
<1>1. /\ pe[q] \in PeType /\ DOMAIN pe = PE /\ RealmCreateOk(q) /\ pe[q].op = "realm_create"
      /\ pe[q].step = "unlock_rtts" /\ gs' = [gs EXCEPT ![x] = "RTT"] /\ lk' = [lk EXCEPT ![x] = NoPE]
      /\ UNCHANGED <<ref, mem, gpt>> /\ lk \in [Granules -> PE \cup {NoPE}]
  BY <1>0, OfPe DEF RealmCreateUnlockRtt, At, CommandOk
<1>2. /\ pe[q].rd \in Granules /\ pe[q].root \in Granules /\ pe[q].num \in Nat /\ pe[q].num # 0
      /\ pe[q].root + pe[q].num - 1 <= NumGranules /\ pe[q].i \in Nat /\ pe[q].i < pe[q].num
      /\ pe[q].vmid \in Vmid /\ pe[q].root \in Nat
      /\ \A g \in (pe[q].root + pe[q].i)..(pe[q].root + pe[q].num - 1) : Holds(q, g, "DELEGATED")
  BY <1>1, LocalsTyped DEF RealmCreateOk
<1>3. x \in (pe[q].root + pe[q].i)..(pe[q].root + pe[q].num - 1)  BY <1>0, <1>2
<1>4. x \in Granules /\ lk[x] = q /\ gs[x] = "DELEGATED"  BY <1>2, <1>3 DEF Holds
<1>5. BeingRoot(x)  BY <1>1, <1>4, HeldState DEF BeingRoot, FillsRoots
<1>6. mem[x] = RttMem({})  BY <1>4, <1>5 DEF OInv, Contents
<1>7. mem' = [mem EXCEPT ![x] = RttMem({})]  BY <1>1, <1>4, <1>6 DEF OInv, Types
<1>8. ref[x] = 0  BY <1>4, RefExactAt
<1>9. \A g \in Granules : lk[g] = q => g \in (pe[q].root + pe[q].i)..(pe[q].root + pe[q].num - 1)
  BY <1>1 DEF OInv, LInv, LocksAccounted, MayHold
<1>10. ASSUME NEW e \in PeType, pe' = [pe EXCEPT ![q] = e], e.op \in {"none", "realm_create"},
              Releases(q, x, e), CommandOk(q)'
       PROVE  OInv'
  <2>1. Retyped(q, x, "RTT", RttMem({}), e)  BY <1>1, <1>4, <1>7, <1>10 DEF Retyped
  <2>2. pe'[q] = e  BY <1>1, <1>10
  <2>3. SameRefs(q) /\ ConvertedAux(e) = {}  BY <1>1, <1>10, <2>2 DEF SameRefs, At, ConvertedAux
  <2>4. \A g : RecsOf(g)' = RecsOf(g) /\ Putting(g)' = Putting(g) /\ Running(g)' = Running(g)
    BY <2>1, <2>3, <1>4, <1>10, RetypedRefs
  <2>5. \A p \in PE : p # q /\ Walks(pe[p]) => Pinned(pe[p].rd)'
    BY <2>1, <1>4, <1>10, RetypedPins
  <2>6. ConvertedDisjoint'
    <3>1. \A p \in PE : p # q => pe'[p] = pe[p]  BY <1>10
    <3>2. QED  BY <3>1, <2>2, <2>3, ClaimsShrink
  <2>7. QED  BY <2>1, <2>4, <2>5, <2>6, <1>4, <1>8, <1>10, RetypedKeeps
<1>11. CASE pe[q].i + 1 = pe[q].num
  <2>1. pe' = [pe EXCEPT ![q] = Idle]  BY <1>11 DEF RealmCreateUnlockRtt, Return
  <2>2. \A g \in Granules : lk[g] = q => g = x
    <3>1. \A g \in (pe[q].root + pe[q].i)..(pe[q].root + pe[q].num - 1) : g = x  BY <1>0, <1>2, <1>11
    <3>2. QED  BY <3>1, <1>9
  <2>3. Releases(q, x, Idle)  BY <2>2 DEF Releases
  <2>4. pe'[q] = Idle  BY <2>1, <1>1
  <2>5. CommandOk(q)'  BY <2>4, IdleOk
  <2>6. QED  BY <2>1, <2>3, <2>5, <1>10, IdleTyped
<1>12. CASE pe[q].i + 1 # pe[q].num
  <2> DEFINE e == Moved(pe[q], pe[q].step, pe[q].i + 1)
  <2>1. pe' = [pe EXCEPT ![q] = e]
    BY <1>12, GotoMoves DEF RealmCreateUnlockRtt, OInv, Types
  <2>2. pe[q].step \in Steps /\ pe[q].i + 1 \in Nat  BY <1>1, <1>2 DEF Steps
  <2>3. /\ e \in PeType /\ e.op = "realm_create" /\ e.step = "unlock_rtts" /\ e.i = pe[q].i + 1
        /\ e.rd = pe[q].rd /\ e.root = pe[q].root /\ e.num = pe[q].num /\ e.vmid = pe[q].vmid
    BY <2>2, <1>1, MovedOn
  <2> HIDE DEF e
  <2>4. pe'[q] = e  BY <2>1, <1>1
  <2>5. Releases(q, x, e)
    BY <2>3, <1>1 DEF Releases, FillsRoots, RootsFreed, AuxFreed
  <2>6. e.i < e.num  BY <2>3, <1>2, <1>12
  <2>7. \A g \in (e.root + e.i)..(e.root + e.num - 1) : Holds(q, g, "DELEGATED")'
    <3>1. \A g \in (e.root + e.i)..(e.root + e.num - 1) :
            g \in (pe[q].root + pe[q].i)..(pe[q].root + pe[q].num - 1) /\ g # x
      BY <2>3, <1>0, <1>2
    <3>2. \A g \in (e.root + e.i)..(e.root + e.num - 1) : Holds(q, g, "DELEGATED") /\ g # x
      BY <3>1, <1>2
    <3>3. QED  BY <3>2, <1>1 DEF Holds
  <2>8. RealmCreateOk(q)'  BY <2>3, <2>4, <2>6, <2>7, <1>2 DEF RealmCreateOk
  <2>9. CommandOk(q)'  BY <2>3, <2>4, <2>8, OnlyRealmCreate
  <2>10. QED  BY <2>1, <2>3, <2>5, <2>9, <1>10
<1>13. QED  BY <1>11, <1>12

LEMMA RealmDestroyFreeRttKeeps ==
  ASSUME OInv, LInv', NEW q \in PE, RealmDestroyFreeRtt(q)
  PROVE  OInv'
<1>0. PICK x, rd : x = pe[q].root + pe[q].i /\ rd = pe[q].rd  OBVIOUS
<1> DEFINE last == pe[q].i + 1 = pe[q].num
           e == Moved(pe[q], IF last THEN "free_rd" ELSE "free_rtts", IF last THEN 0 ELSE pe[q].i + 1)
<1>1. /\ pe[q] \in PeType /\ DOMAIN pe = PE /\ RealmDestroyOk(q) /\ pe[q].op = "realm_destroy"
      /\ pe[q].step = "free_rtts" /\ gs' = [gs EXCEPT ![x] = "DELEGATED"]
      /\ mem' = [mem EXCEPT ![x] = Zero] /\ lk[x] = NoPE
      /\ UNCHANGED <<ref, lk, gpt>> /\ lk \in [Granules -> PE \cup {NoPE}]
  BY <1>0, OfPe DEF RealmDestroyFreeRtt, At, CommandOk, Unlocked
<1>2. pe' = [pe EXCEPT ![q] = e]  BY DEF RealmDestroyFreeRtt, Moved
<1>3. /\ rd \in Granules /\ lk[rd] = q /\ gs[rd] = "RD" /\ ref[rd] = 0
      /\ pe[q].root = mem[rd].g_rtt /\ pe[q].num = mem[rd].num_root_rtts
      /\ pe[q].i < pe[q].num /\ pe[q].i \in Nat /\ pe[q].num \in Nat /\ pe[q].root \in Nat
      /\ \A g \in Counted(pe[q]) : lk[g] = NoPE /\ gs[g] = "RTT" /\ ref[g] = 0
  BY <1>0, <1>1, LocalsTyped DEF RealmDestroyOk, Holds, Unlocked
<1>4. x \in Counted(pe[q])  BY <1>0, <1>1, <1>3 DEF Counted
<1>5. x \in Granules /\ gs[x] = "RTT" /\ ref[x] = 0 /\ rd \in Rds /\ Holder(rd) = pe[q] /\ x \in LiveRoots(rd)
      /\ x # rd
  BY <1>0, <1>1, <1>3, <1>4, CountedAreRoots
<1>6. (IF last THEN "free_rd" ELSE "free_rtts") \in Steps /\ (IF last THEN 0 ELSE pe[q].i + 1) \in Nat
  BY <1>3 DEF Steps
<1>7. /\ e \in PeType /\ e.op = "realm_destroy" /\ e.step = (IF last THEN "free_rd" ELSE "free_rtts")
      /\ e.i = (IF last THEN 0 ELSE pe[q].i + 1) /\ e.rd = rd /\ e.root = pe[q].root /\ e.num = pe[q].num
  BY <1>0, <1>1, <1>6, MovedOn
<1> HIDE DEF e
<1>8. pe'[q] = e /\ \A p \in PE : p # q => pe'[p] = pe[p]  BY <1>1, <1>2
<1>9. RootsFreed(e) = pe[q].i + 1 /\ RootsFreed(pe[q]) = pe[q].i
  BY <1>1, <1>3, <1>7 DEF RootsFreed
<1>10. Releases(q, x, e)
  BY <1>1, <1>3, <1>7, <1>9 DEF Releases, FillsRoots, AuxFreed
<1>11. Retyped(q, x, "DELEGATED", Zero, e)  BY <1>1, <1>2, <1>5 DEF Retyped
<1>12. \A a \in Rds : x \in LiveRoots(a) => a = rd  BY <1>5 DEF OInv, Owned, RootsDisjoint
<1>13. ASSUME NEW a \in Rds', x \in LiveRoots(a)' PROVE FALSE
  <2>1. a \in Rds /\ x \in LiveRoots(a)  BY <1>5, <1>7, <1>10, <1>11, <1>13, RetypedFacts
  <2>2. a = rd  BY <2>1, <1>12
  <2>3. Holder(rd)' = e /\ mem'[rd] = mem[rd]  BY <1>1, <1>3, <1>5, <1>8, HolderAfter
  <2>4. LiveRoots(rd)' = (pe[q].root + (pe[q].i + 1))..(pe[q].root + pe[q].num - 1)
    <3>1. RootsFreed(Holder(rd))' = RootsFreed(e)  BY <2>3 DEF RootsFreed
    <3>2. LiveRoots(rd)' = (pe[q].root + RootsFreed(e))..(pe[q].root + pe[q].num - 1)
      BY <2>3, <3>1, <1>3 DEF LiveRoots
    <3>3. QED  BY <3>2, <1>9
  <2>5. QED  BY <2>2, <2>4, <1>0, <1>3, <1>13
<1>14. ASSUME NEW p \in PE, p # q, pe[p].op = "realm_destroy" PROVE x \notin Counted(pe[p])
  <2>1. pe[p].rd \in Rds /\ lk[pe[p].rd] = p /\ Counted(pe[p]) \subseteq LiveRoots(pe[p].rd)
    BY <1>14, CountedAreRoots
  <2>2. QED  BY <2>1, <1>3, <1>12, <1>14
<1>15. \A y \in Granules : gs[y] = "RTT" => x \notin mem[y].tables
  BY <1>5 DEF OInv, Owned, RootsNoTables
<1>16. ASSUME NEW p \in PE, p # q, Walks(pe[p]) PROVE Pinned(pe[p].rd)'
  <2>1. pe[p].rd \in Granules /\ Pinned(pe[p].rd)  BY <1>16, WalkersRd
  <2>2. pe[p].rd # rd  BY <2>1, <1>1, <1>5 DEF Pinned
  <2>3. \A g \in Granules : lk[g] = q => g = rd
    BY <1>0, <1>1 DEF OInv, LInv, LocksAccounted, MayHold
  <2>4. ASSUME NEW g, g = pe[p].rd PROVE Pinned(g)'
    <3>1. Holder(g)' = Holder(g)  BY <2>1, <2>2, <2>3, <2>4, <1>1, <1>8, HolderAfter
    <3>2. QED  BY <3>1, <2>1, <2>4 DEF Pinned
  <2>5. pe'[p].rd = pe[p].rd  BY <1>8, <1>16
  <2>6. QED  BY <2>4, <2>5
<1>17. \A g \in Counted(e) : g \in Counted(pe[q]) /\ g # x
  BY <1>0, <1>1, <1>3, <1>7 DEF Counted
<1>18. CommandOk(q)'
  <2>1. \A g \in Counted(e) : g \in Granules /\ g # x /\ lk[g] = NoPE /\ gs[g] = "RTT" /\ ref[g] = 0
    BY <1>1, <1>3, <1>17, CountedAreRoots
  <2>2. \A g \in Counted(e) : lk'[g] = NoPE /\ gs'[g] = "RTT" /\ ref'[g] = 0
    BY <2>1, <1>1
  <2>3. mem'[rd] = mem[rd] /\ gs'[rd] = "RD" /\ lk'[rd] = q /\ ref'[rd] = 0  BY <1>1, <1>3, <1>5
  <2>4. e.step \in {"free_rtts", "free_rd"} /\ (e.step = "free_rtts" => e.i < e.num)
    BY <1>3, <1>7
  <2>5. RealmDestroyOk(q)'
    BY <2>2, <2>3, <2>4, <1>3, <1>7, <1>8 DEF RealmDestroyOk, Holds, Unlocked
  <2>6. QED  BY <2>5, <1>7, <1>8, OnlyRealmDestroy
<1>19. SameRefs(q) /\ ConvertedAux(e) = {}
  BY <1>1, <1>7, <1>8 DEF SameRefs, At, ConvertedAux
<1>20. \A g : RecsOf(g)' = RecsOf(g) /\ Putting(g)' = Putting(g) /\ Running(g)' = Running(g)
  BY <1>5, <1>7, <1>11, <1>19, RetypedRefs
<1>21. ConvertedDisjoint'  BY <1>8, <1>19, ClaimsShrink
<1>22. ~BeingRoot(x)  BY <1>1, <1>5, <1>8, HolderAfter, IdleQuiet DEF BeingRoot
<1>23. QED
  BY <1>1, <1>5, <1>7, <1>10, <1>11, <1>13, <1>14, <1>15, <1>16, <1>18, <1>20, <1>21, <1>22, RetypedKeeps


LEMMA RealmDestroyFreeRdKeeps ==
  ASSUME OInv, LInv', NEW q \in PE, RealmDestroyFreeRd(q)
  PROVE  OInv'
<1>0. PICK x : x = pe[q].rd  OBVIOUS
<1>1. /\ pe[q] \in PeType /\ DOMAIN pe = PE /\ RealmDestroyOk(q) /\ pe[q].op = "realm_destroy"
      /\ pe[q].step = "free_rd" /\ gs' = [gs EXCEPT ![x] = "DELEGATED"]
      /\ mem' = [mem EXCEPT ![x] = Zero] /\ lk' = [lk EXCEPT ![x] = NoPE]
      /\ pe' = [pe EXCEPT ![q] = Idle] /\ UNCHANGED <<ref, gpt>> /\ lk \in [Granules -> PE \cup {NoPE}]
  BY <1>0, OfPe DEF RealmDestroyFreeRd, At, CommandOk, Return
<1>2. x \in Granules /\ lk[x] = q /\ gs[x] = "RD" /\ ref[x] = 0
  BY <1>0, <1>1 DEF RealmDestroyOk, Holds
<1>3. pe'[q] = Idle /\ \A p \in PE : p # q => pe'[p] = pe[p]  BY <1>1
<1>4. Retyped(q, x, "DELEGATED", Zero, Idle)  BY <1>1, <1>2 DEF Retyped
<1>5. Releases(q, x, Idle)
  <2>1. \A g \in Granules : lk[g] = q => g = x
    BY <1>0, <1>1 DEF OInv, LInv, LocksAccounted, MayHold
  <2>2. QED  BY <2>1 DEF Releases
<1>6. CommandOk(q)' /\ ConvertedAux(Idle) = {}  BY <1>3, IdleOk
<1>7. Holder(x) = pe[q]  BY <1>2, HeldState
<1>8. ~BeingRoot(x)  BY <1>1, <1>7 DEF BeingRoot, FillsRoots
<1>9. RecsOf(x) = {} /\ Putting(x) = {}  BY <1>2, NoReferrers
<1>10. \A r \in Recs : mem[r].g_rd # x  BY <1>9 DEF RecsOf, Recs
<1>11. ASSUME NEW p \in PE, p # q, pe[p].op = "rec_destroy" \/ Walks(pe[p]) PROVE pe[p].rd # x
  <2>1. CASE Walks(pe[p])
    <3>1. Pinned(pe[p].rd)  BY <2>1, WalkersRd
    <3>2. QED  BY <3>1, <1>1, <1>7 DEF Pinned
  <2>2. CASE At(p, "rec_destroy", "put")  BY <2>2, <1>9 DEF Putting
  <2>3. CASE pe[p].op = "rec_destroy" /\ pe[p].step # "put"
    <3>1. RecDestroyOk(p)  BY OfPe DEF CommandOk
    <3>2. pe[p].new \in Recs /\ pe[p].rd = mem[pe[p].new].g_rd  BY <2>3, <3>1 DEF RecDestroyOk, Holds, Recs
    <3>3. QED  BY <3>2, <1>10
  <2>4. QED  BY <2>1, <2>2, <2>3, <1>11 DEF At
<1>12. SameRefs(q)  BY <1>1, <1>3, IdleTyped DEF SameRefs, At
<1>13. \A g : RecsOf(g)' = RecsOf(g) /\ Putting(g)' = Putting(g) /\ Running(g)' = Running(g)
  BY <1>2, <1>4, <1>12, IdleTyped, RetypedRefs
<1>14. \A p \in PE : p # q /\ Walks(pe[p]) => Pinned(pe[p].rd)'
  BY <1>2, <1>4, IdleTyped, RetypedPins
<1>15. ConvertedDisjoint'  BY <1>3, <1>6, ClaimsShrink
<1>16. QED
  BY <1>2, <1>4, <1>5, <1>6, <1>8, <1>10, <1>11, <1>13, <1>14, <1>15, IdleTyped, RetypedKeeps

\* RMI_REC_CREATE has claimed one more auxiliary granule.
LEMMA RecCreateAuxKeeps ==
  ASSUME OInv, LInv', NEW q \in PE, RecCreateAux(q), gs[pe[q].aux[pe[q].i + 1]] = "DELEGATED"
  PROVE  OInv'
<1>0. PICK x, n : n = pe[q].i + 1 /\ x = pe[q].aux[n]  OBVIOUS
<1> DEFINE last == n = pe[q].naux
           e == Moved(pe[q], IF last THEN "lock1" ELSE "aux", IF last THEN 0 ELSE n)
<1>1. /\ pe[q] \in PeType /\ DOMAIN pe = PE /\ CommandOk(q) /\ RecCreateOk(q) /\ pe[q].op = "rec_create"
      /\ pe[q].step = "aux" /\ gs' = [gs EXCEPT ![x] = "REC_AUX"] /\ lk[x] = NoPE /\ gs[x] = "DELEGATED"
      /\ UNCHANGED <<ref, lk, mem, gpt>> /\ lk \in [Granules -> PE \cup {NoPE}]
  BY <1>0, OfPe DEF RecCreateAux, At, CommandOk, Unlocked
<1>2. pe' = [pe EXCEPT ![q] = e]  BY <1>0 DEF RecCreateAux, Moved
<1>3. /\ pe[q].i \in Nat /\ pe[q].naux \in Nat /\ pe[q].i < pe[q].naux /\ n \in Nat
      /\ n \in 1..pe[q].naux /\ \A k \in 1..pe[q].naux : pe[q].aux[k] \in Granules
      /\ \A k \in 1..pe[q].i : gs[pe[q].aux[k]] = "REC_AUX" /\ mem[pe[q].aux[k]] = Zero
  BY <1>0, <1>1, LocalsTyped DEF RecCreateOk, ConvertedAux
<1>4. x \in Granules  BY <1>0, <1>3
<1>5. ~BeingRoot(x) /\ mem[x] = Zero /\ ref[x] = 0
  <2>1. ~BeingRoot(x)  BY <1>1, <1>4, IdleQuiet DEF BeingRoot, Holder
  <2>2. QED  BY <2>1, <1>1, <1>4, RefExactAt DEF OInv, Contents
<1>6. mem' = [mem EXCEPT ![x] = Zero]  BY <1>1, <1>4, <1>5 DEF OInv, Types
<1>7. (IF last THEN "lock1" ELSE "aux") \in Steps /\ (IF last THEN 0 ELSE n) \in Nat
  BY <1>3 DEF Steps
<1>8. /\ e \in PeType /\ e.op = "rec_create" /\ e.step = (IF last THEN "lock1" ELSE "aux")
      /\ e.i = (IF last THEN 0 ELSE n) /\ e.rd = pe[q].rd /\ e.new = pe[q].new
      /\ e.aux = pe[q].aux /\ e.naux = pe[q].naux
  BY <1>1, <1>7, MovedOn
<1> HIDE DEF e
<1>9. pe'[q] = e /\ \A p \in PE : p # q => pe'[p] = pe[p]  BY <1>1, <1>2
<1>10. ConvertedAux(pe[q]) = 1..pe[q].i /\ ConvertedAux(e) = 1..n
  <2>1. ConvertedAux(pe[q]) = 1..pe[q].i  BY <1>1 DEF ConvertedAux
  <2>2. ConvertedAux(e) = 1..n  BY <1>8, <1>3 DEF ConvertedAux
  <2>3. QED  BY <2>1, <2>2
<1>11. \A k \in 1..n : k = n \/ k \in 1..pe[q].i  BY <1>0, <1>3
<1>12. Retyped(q, x, "REC_AUX", Zero, e)  BY <1>1, <1>2, <1>4, <1>6 DEF Retyped
<1>13. Releases(q, x, e)  BY <1>1, <1>8 DEF Releases, FillsRoots, RootsFreed, AuxFreed
<1>14. CommandOk(q)'
  <2>1. \A k \in ConvertedAux(e) : gs'[e.aux[k]] = "REC_AUX" /\ mem'[e.aux[k]] = Zero
    <3> SUFFICES ASSUME NEW k \in 1..n PROVE gs'[e.aux[k]] = "REC_AUX" /\ mem'[e.aux[k]] = Zero
      BY <1>10
    <3>1. gs'[x] = "REC_AUX" /\ mem'[x] = Zero  BY <1>1, <1>4, <1>5 DEF OInv, Types
    <3>2. CASE k = n  BY <3>1, <3>2, <1>0, <1>8
    <3>3. CASE k \in 1..pe[q].i
      <4>1. k \in 1..pe[q].naux  BY <3>3, <1>3
      <4>2. gs[e.aux[k]] = "REC_AUX" /\ mem[e.aux[k]] = Zero /\ e.aux[k] \in Granules
        BY <3>3, <4>1, <1>3, <1>8
      <4>3. QED  BY <4>2, <3>1, <1>1
    <3>4. QED  BY <3>2, <3>3, <1>11
  <2>2. \A k \in 1..e.naux : e.aux[k] \in Granules  BY <1>3, <1>8
  <2>3. e.step \in {"aux", "lock1"} /\ (e.step = "aux" => e.i < e.naux) /\ (e.step = "lock1" => e.i = 0)
    BY <1>0, <1>3, <1>8
  <2>4. RecCreateOk(q)'  BY <2>1, <2>2, <2>3, <1>8, <1>9 DEF RecCreateOk
  <2>5. e.rd \in Granules /\ e.new \in Granules  BY <1>1, <1>8 DEF CommandOk, TwoLocksOk
  <2>6. TwoLocksOk(q)'  BY <2>3, <2>5, <1>8, <1>9 DEF TwoLocksOk
  <2>7. QED
    BY <2>4, <2>6, <1>8, <1>9 DEF CommandOk, RealmCreateOk, RealmDestroyOk, WalkOk, RecEnterOk, RecDestroyOk
<1>15. SameRefs(q)  BY <1>1, <1>8, <1>9 DEF SameRefs, At
<1>16. \A g : RecsOf(g)' = RecsOf(g) /\ Putting(g)' = Putting(g) /\ Running(g)' = Running(g)
  BY <1>1, <1>4, <1>8, <1>12, <1>15, RetypedRefs
<1>17. \A p \in PE : p # q /\ Walks(pe[p]) => Pinned(pe[p].rd)'
  BY <1>1, <1>4, <1>8, <1>12, RetypedPins
<1>18. ConvertedDisjoint'
  <2>1. ConvertedDisjoint  BY DEF OInv, Owned
  <2>2. \A p \in PE : \A k \in ConvertedAux(pe[p]) : pe[p].aux[k] # x  BY <1>1, Reliances
  <2>3. ASSUME NEW p \in PE, NEW k \in ConvertedAux(pe'[p])
        PROVE  /\ pe'[p].aux = pe[p].aux
               /\ k \in ConvertedAux(pe[p]) \/ (p = q /\ k = n)
    <3>1. CASE p = q  BY <3>1, <2>3, <1>8, <1>9, <1>10, <1>11
    <3>2. CASE p # q  BY <3>2, <2>3, <1>9
    <3>3. QED  BY <3>1, <3>2
  <2>4. SUFFICES ASSUME NEW p \in PE, NEW t \in PE, NEW j \in ConvertedAux(pe'[p]),
                        NEW k \in ConvertedAux(pe'[t]), pe'[p].aux[j] = pe'[t].aux[k]
                 PROVE  p = t /\ j = k
    BY DEF ConvertedDisjoint, ConvertedAux
  <2>5. pe[p].aux[j] = pe[t].aux[k]  BY <2>3, <2>4
  <2>6. CASE j \in ConvertedAux(pe[p]) /\ k \in ConvertedAux(pe[t])  BY <2>1, <2>5, <2>6 DEF ConvertedDisjoint
  <2>7. CASE p = q /\ j = n  BY <2>2, <2>3, <2>5, <2>7, <1>0
  <2>8. CASE t = q /\ k = n  BY <2>2, <2>3, <2>5, <2>8, <1>0
  <2>9. QED  BY <2>3, <2>6, <2>7, <2>8
<1>19. QED
  BY <1>1, <1>4, <1>5, <1>8, <1>12, <1>13, <1>14, <1>16, <1>17, <1>18, RetypedKeeps

LEMMA RecCreateFreeAuxKeeps ==
  ASSUME OInv, LInv', NEW q \in PE, RecCreateFreeAux(q), pe[q].i # pe[q].naux
  PROVE  OInv'
<1>0. PICK x, n : n = pe[q].i + 1 /\ x = pe[q].aux[n]  OBVIOUS
<1> DEFINE e == Moved(pe[q], pe[q].step, n)
<1>1. /\ pe[q] \in PeType /\ pe \in [PE -> PeType] /\ DOMAIN pe = PE /\ CommandOk(q) /\ RecCreateOk(q)
      /\ pe[q].op = "rec_create"
      /\ pe[q].step = "failed" /\ gs' = [gs EXCEPT ![x] = "DELEGATED"] /\ lk[x] = NoPE
      /\ UNCHANGED <<ref, lk, mem, gpt>> /\ lk \in [Granules -> PE \cup {NoPE}]
  BY <1>0, OfPe DEF RecCreateFreeAux, At, CommandOk, Unlocked, OInv, Types
<1>2. pe' = [pe EXCEPT ![q] = e]
  <2>1. pe' = [pe EXCEPT ![q].i = n]  BY <1>0 DEF RecCreateFreeAux
  <2>2. QED  BY <2>1, <1>1, GotoMoves
<1>3. /\ pe[q].i \in Nat /\ pe[q].naux \in Nat /\ pe[q].i < pe[q].naux /\ n \in Nat
      /\ n \in 1..pe[q].naux /\ n \in (pe[q].i + 1)..pe[q].naux
      /\ \A k \in 1..pe[q].naux : pe[q].aux[k] \in Granules
      /\ ConvertedAux(pe[q]) = (pe[q].i + 1)..pe[q].naux
  <2>1. pe[q].i \in Nat /\ pe[q].naux \in Nat  BY <1>1, LocalsTyped
  <2>2. pe[q].i <= pe[q].naux /\ \A k \in 1..pe[q].naux : pe[q].aux[k] \in Granules
    BY <1>1 DEF RecCreateOk
  <2>3. ConvertedAux(pe[q]) = (pe[q].i + 1)..pe[q].naux  BY <1>1 DEF ConvertedAux
  <2>4. pe[q].i < pe[q].naux /\ n \in Nat /\ n \in 1..pe[q].naux /\ n \in (pe[q].i + 1)..pe[q].naux
    BY <1>0, <2>1, <2>2
  <2>5. QED  BY <2>1, <2>2, <2>3, <2>4
<1>4. x \in Granules /\ gs[x] = "REC_AUX" /\ mem[x] = Zero /\ ref[x] = 0
  BY <1>0, <1>1, <1>3, Reliances, RefExactAt
<1>5. mem' = [mem EXCEPT ![x] = Zero]  BY <1>1, <1>4 DEF OInv, Types
<1>6. pe[q].step \in Steps /\ pe[q] \in PeType /\ n \in Nat /\ pe[q].op = "rec_create" /\ pe[q].step = "failed"
  BY <1>1, <1>3 DEF Steps
<1>7. /\ e \in PeType /\ e.op = "rec_create" /\ e.step = "failed" /\ e.i = n
      /\ e.rd = pe[q].rd /\ e.new = pe[q].new /\ e.aux = pe[q].aux /\ e.naux = pe[q].naux
  BY <1>6, MovedOn
<1> HIDE DEF e
<1>8. pe'[q] = e /\ \A p \in PE : p # q => pe'[p] = pe[p]  BY <1>1, <1>2
<1>9. \A k \in ConvertedAux(e) : k \in ConvertedAux(pe[q]) /\ k # n /\ e.aux[k] = pe[q].aux[k]
  BY <1>0, <1>3, <1>7 DEF ConvertedAux
<1>10. \A p \in PE : \A k \in ConvertedAux(pe[p]) : pe[p].aux[k] = x => p = q /\ k = n
  BY <1>0, <1>3 DEF OInv, Owned, ConvertedDisjoint
<1>11. Retyped(q, x, "DELEGATED", Zero, e)  BY <1>1, <1>2, <1>4, <1>5 DEF Retyped
<1>12. Releases(q, x, e)  BY <1>1, <1>7 DEF Releases, FillsRoots, RootsFreed, AuxFreed
<1>13. ~BeingRoot(x)  BY <1>1, <1>4, IdleQuiet DEF BeingRoot, Holder
<1>14. CommandOk(q)'
  <2>1. \A k \in ConvertedAux(e) : gs'[e.aux[k]] = "REC_AUX" /\ mem'[e.aux[k]] = Zero
    <3> SUFFICES ASSUME NEW k \in ConvertedAux(e)
                 PROVE  gs'[e.aux[k]] = "REC_AUX" /\ mem'[e.aux[k]] = Zero
      OBVIOUS
    <3>1. e.aux[k] \in Granules /\ gs[e.aux[k]] = "REC_AUX" /\ mem[e.aux[k]] = Zero /\ e.aux[k] # x
      BY <1>9, <1>10, Reliances
    <3>2. QED  BY <3>1, <1>1
  <2>2. \A k \in 1..e.naux : e.aux[k] \in Granules  BY <1>3, <1>7
  <2>3. e.i <= e.naux  BY <1>0, <1>3, <1>7
  <2>4. RecCreateOk(q)'  BY <2>1, <2>2, <2>3, <1>7, <1>8 DEF RecCreateOk
  <2>5. e.rd \in Granules /\ e.new \in Granules  BY <1>1, <1>7 DEF CommandOk, TwoLocksOk
  <2>6. TwoLocksOk(q)'  BY <2>5, <1>7, <1>8 DEF TwoLocksOk
  <2>7. QED
    BY <2>4, <2>6, <1>7, <1>8 DEF CommandOk, RealmCreateOk, RealmDestroyOk, WalkOk, RecEnterOk, RecDestroyOk
<1>15. SameRefs(q)  BY <1>1, <1>7, <1>8 DEF SameRefs, At
<1>16. \A g : RecsOf(g)' = RecsOf(g) /\ Putting(g)' = Putting(g) /\ Running(g)' = Running(g)
  BY <1>4, <1>7, <1>11, <1>15, RetypedRefs
<1>17. \A p \in PE : p # q /\ Walks(pe[p]) => Pinned(pe[p].rd)'
  BY <1>1, <1>4, <1>7, <1>11, RetypedPins
<1>18. ConvertedDisjoint'  BY <1>8, <1>9, ClaimsShrink
<1>19. ASSUME NEW r \in Recs', NEW k \in LiveAux(r)' PROVE mem[r].g_aux[k] # x
  <2>1. r \in Recs /\ k \in LiveAux(r)  BY <1>4, <1>7, <1>11, <1>12, <1>19, RetypedFacts
  <2>2. mem[mem[r].g_aux[k]] = AuxMem  BY <2>1 DEF OInv, Owned, AuxOk
  <2>3. QED  BY <2>2, <1>4 DEF AuxMem, Zero
<1>20. QED
  BY <1>1, <1>4, <1>7, <1>10, <1>11, <1>12, <1>13, <1>14, <1>16, <1>17, <1>18, <1>19, RetypedKeeps

LEMMA RecDestroyFreeAuxKeeps ==
  ASSUME OInv, LInv', NEW q \in PE, RecDestroyFreeAux(q)
  PROVE  OInv'
<1>0. PICK x, n, rec : n = pe[q].i + 1 /\ x = pe[q].aux[n] /\ rec = pe[q].new  OBVIOUS
<1> DEFINE last == n = pe[q].naux
           e == Moved(pe[q], IF last THEN "free" ELSE "aux", IF last THEN 0 ELSE n)
<1>1. /\ pe[q] \in PeType /\ pe \in [PE -> PeType] /\ DOMAIN pe = PE /\ RecDestroyOk(q)
      /\ pe[q].op = "rec_destroy"
      /\ pe[q].step = "aux" /\ gs' = [gs EXCEPT ![x] = "DELEGATED"] /\ lk[x] = NoPE
      /\ mem' = [mem EXCEPT ![x] = Zero]
      /\ UNCHANGED <<ref, lk, gpt>> /\ lk \in [Granules -> PE \cup {NoPE}]
  BY <1>0, OfPe DEF RecDestroyFreeAux, Scrubbed, At, CommandOk, Unlocked, OInv, Types
<1>2. pe' = [pe EXCEPT ![q] = e]
  <2>1. CASE last
    <3>1. pe' = [pe EXCEPT ![q].step = "free", ![q].i = 0]  BY <2>1, <1>0 DEF RecDestroyFreeAux
    <3>2. QED  BY <2>1, <3>1 DEF Moved
  <2>2. CASE ~last
    <3>1. pe' = [pe EXCEPT ![q].i = n]  BY <2>2, <1>0 DEF RecDestroyFreeAux
    <3>2. pe' = [pe EXCEPT ![q] = Moved(pe[q], pe[q].step, n)]  BY <3>1, <1>1, GotoMoves
    <3>3. e = Moved(pe[q], pe[q].step, n)  BY <2>2, <1>1
    <3>4. QED  BY <3>2, <3>3
  <2>3. QED  BY <2>1, <2>2
<1>3. /\ pe[q].i \in Nat /\ pe[q].naux \in Nat /\ pe[q].i < pe[q].naux /\ n \in Nat
      /\ rec \in Granules /\ lk[rec] = q /\ gs[rec] = "REC" /\ ref[rec] = 0
      /\ pe[q].rd = mem[rec].g_rd /\ pe[q].aux = mem[rec].g_aux /\ pe[q].naux = mem[rec].num_aux
      /\ pe[q].rd \in Granules /\ gs[pe[q].rd] = "RD"
  BY <1>0, <1>1, LocalsTyped DEF RecDestroyOk, Holds
<1>4. rec \in Recs /\ Holder(rec) = pe[q] /\ AuxFreed(pe[q]) = pe[q].i /\ n \in LiveAux(rec)
  <2>1. rec \in Recs /\ Holder(rec) = pe[q]  BY <1>3, HeldState DEF Recs
  <2>2. AuxFreed(pe[q]) = pe[q].i  BY <1>1 DEF AuxFreed
  <2>3. n \in LiveAux(rec)  BY <2>1, <2>2, <1>0, <1>3 DEF LiveAux
  <2>4. QED  BY <2>1, <2>2, <2>3
<1>5. x \in Granules /\ gs[x] = "REC_AUX" /\ mem[x] = AuxMem /\ ref[x] = 0
  <2>1. x = mem[rec].g_aux[n]  BY <1>0, <1>3
  <2>2. x \in Granules /\ gs[x] = "REC_AUX" /\ mem[x] = AuxMem
    BY <2>1, <1>4, OwnedAreGranules DEF OInv, Owned, AuxOk
  <2>3. QED  BY <2>2, RefExactAt
<1>6. (IF last THEN "free" ELSE "aux") \in Steps /\ (IF last THEN 0 ELSE n) \in Nat  BY <1>3 DEF Steps
<1>7. /\ e \in PeType /\ e.op = "rec_destroy" /\ e.step = (IF last THEN "free" ELSE "aux")
      /\ e.i = (IF last THEN 0 ELSE n)
      /\ e.rd = pe[q].rd /\ e.new = pe[q].new /\ e.aux = pe[q].aux /\ e.naux = pe[q].naux
  BY <1>1, <1>6, MovedOn
<1> HIDE DEF e
<1>8. pe'[q] = e /\ \A p \in PE : p # q => pe'[p] = pe[p]  BY <1>1, <1>2
<1>9. AuxFreed(e) = n  BY <1>7 DEF AuxFreed
<1>10. ConvertedAux(e) = {} /\ SameRefs(q)  BY <1>1, <1>7, <1>8 DEF ConvertedAux, SameRefs, At
<1>11. Retyped(q, x, "DELEGATED", Zero, e)  BY <1>1, <1>2, <1>5 DEF Retyped
<1>12. Releases(q, x, e)
  <2>1. AuxFreed(e) >= AuxFreed(pe[q])  BY <1>0, <1>3, <1>4, <1>9
  <2>2. QED  BY <2>1, <1>1, <1>7 DEF Releases, FillsRoots, RootsFreed
<1>13. ~BeingRoot(x)  BY <1>1, <1>5, IdleQuiet DEF BeingRoot, Holder
<1>14. x # rec /\ x # pe[q].rd  BY <1>3, <1>5
<1>15. CommandOk(q)'
  <2>1. /\ lk'[rec] = q /\ gs'[rec] = "REC" /\ mem'[rec] = mem[rec] /\ ref'[rec] = 0
        /\ gs'[e.rd] = "RD"
    BY <1>1, <1>3, <1>7, <1>14
  <2>2. e.step = "aux" => e.i < e.naux  BY <1>0, <1>3, <1>7
  <2>3. RecDestroyOk(q)'  BY <2>1, <2>2, <1>0, <1>3, <1>7, <1>8 DEF RecDestroyOk, Holds
  <2>4. QED
    BY <2>3, <1>7, <1>8 DEF CommandOk, RealmCreateOk, RealmDestroyOk, TwoLocksOk, RecCreateOk, WalkOk, RecEnterOk
<1>16. \A g : RecsOf(g)' = RecsOf(g) /\ Putting(g)' = Putting(g) /\ Running(g)' = Running(g)
  BY <1>5, <1>7, <1>10, <1>11, RetypedRefs
<1>17. \A p \in PE : p # q /\ Walks(pe[p]) => Pinned(pe[p].rd)'
  BY <1>1, <1>5, <1>7, <1>11, RetypedPins
<1>18. ConvertedDisjoint'  BY <1>8, <1>10, ClaimsShrink
<1>19. ASSUME NEW r \in Recs', NEW k \in LiveAux(r)' PROVE mem[r].g_aux[k] # x
  <2>1. r \in Recs /\ k \in LiveAux(r)  BY <1>5, <1>7, <1>11, <1>12, <1>19, RetypedFacts
  <2>2. SUFFICES ASSUME mem[r].g_aux[k] = x PROVE FALSE  OBVIOUS
  <2>3. x = mem[rec].g_aux[n]  BY <1>0, <1>3
  <2>4. r = rec /\ k = n  BY <2>1, <2>2, <2>3, <1>4 DEF OInv, Owned, RecAuxDisjoint
  <2>5. Holder(rec)' = e /\ mem'[rec] = mem[rec]  BY <1>1, <1>3, <1>8, <1>14, HolderAfter
  <2>6. LiveAux(rec)' = (n + 1)..mem[rec].num_aux
    <3>1. AuxFreed(Holder(rec))' = AuxFreed(e)  BY <2>5 DEF AuxFreed
    <3>2. QED  BY <3>1, <2>5, <1>9 DEF LiveAux
  <2>7. QED  BY <2>4, <2>6, <1>3, <1>19
<1>20. \A p \in PE : \A k \in ConvertedAux(pe[p]) : pe[p].aux[k] # x
  <2>1. AuxMem # Zero  BY DEF AuxMem, Zero
  <2>2. QED  BY <2>1, <1>5, Reliances
<1>21. QED
  BY <1>1, <1>5, <1>7, <1>11, <1>12, <1>13, <1>15, <1>16, <1>17, <1>18, <1>19, <1>20, RetypedKeeps

\* The REC is freed; its reference to the RD stays until the put.
LEMMA RecDestroyFreeKeeps ==
  ASSUME OInv, LInv', NEW q \in PE, RecDestroyFree(q)
  PROVE  OInv'
<1>0. PICK x, rd : x = pe[q].new /\ rd = pe[q].rd  OBVIOUS
<1> DEFINE e == Moved(pe[q], "put", pe[q].i)
<1>1. /\ pe[q] \in PeType /\ pe \in [PE -> PeType] /\ DOMAIN pe = PE /\ RecDestroyOk(q)
      /\ pe[q].op = "rec_destroy"
      /\ pe[q].step = "free" /\ gs' = [gs EXCEPT ![x] = "DELEGATED"] /\ lk' = [lk EXCEPT ![x] = NoPE]
      /\ mem' = [mem EXCEPT ![x] = Zero] /\ Goto(q, "put")
      /\ UNCHANGED <<ref, gpt>> /\ lk \in [Granules -> PE \cup {NoPE}]
  BY <1>0, OfPe DEF RecDestroyFree, At, CommandOk, OInv, Types
<1>2. pe' = [pe EXCEPT ![q] = e]  BY <1>1, GotoMoves
<1>3. /\ x \in Granules /\ lk[x] = q /\ gs[x] = "REC" /\ ref[x] = 0
      /\ rd = mem[x].g_rd /\ rd \in Granules /\ gs[rd] = "RD" /\ rd # x
  BY <1>0, <1>1 DEF RecDestroyOk, Holds
<1>4. "put" \in Steps /\ pe[q].i \in Nat  BY <1>1, LocalsTyped DEF Steps
<1>5. e \in PeType /\ e.op = "rec_destroy" /\ e.step = "put" /\ e.rd = rd
  BY <1>0, <1>1, <1>4, MovedOn
<1> HIDE DEF e
<1>6. pe'[q] = e /\ \A p \in PE : p # q => pe'[p] = pe[p]  BY <1>1, <1>2
<1>7. Retyped(q, x, "DELEGATED", Zero, e)  BY <1>1, <1>2, <1>3 DEF Retyped
<1>8. Releases(q, x, e)
  <2>1. \A g \in Granules : lk[g] = q => g = x
    BY <1>0, <1>1 DEF OInv, LInv, LocksAccounted, MayHold
  <2>2. QED  BY <2>1 DEF Releases
<1>9. ~BeingRoot(x)  BY <1>1, <1>3, HeldState DEF BeingRoot, FillsRoots
<1>10. CommandOk(q)'
  <2>1. gs'[rd] = "RD"  BY <1>1, <1>3
  <2>2. RecDestroyOk(q)'  BY <2>1, <1>3, <1>5, <1>6 DEF RecDestroyOk
  <2>3. QED
    BY <2>2, <1>5, <1>6 DEF CommandOk, RealmCreateOk, RealmDestroyOk, TwoLocksOk, RecCreateOk, WalkOk, RecEnterOk
<1>11. ConvertedAux(e) = {}  BY <1>5 DEF ConvertedAux
<1>12. ConvertedDisjoint'  BY <1>6, <1>11, ClaimsShrink
<1>13. \A p \in PE : p # q /\ Walks(pe[p]) => Pinned(pe[p].rd)'
  BY <1>3, <1>5, <1>7, RetypedPins
<1>14. \A p \in PE : pe[p].op = "rec_enter" => pe[p].new # x
  <2>1. Running(x) = {}  BY <1>3, NoReferrers
  <2>2. QED  BY <2>1 DEF Running
<1>15. \A g : Running(g)' = Running(g)  BY <1>1, <1>5, <1>6 DEF Running
<1>16. ASSUME NEW g \in Granules
       PROVE  Cardinality(RecsOf(g)') + Cardinality(Putting(g)') =
              Cardinality(RecsOf(g)) + Cardinality(Putting(g))
  <2>1. gs'[x] = "DELEGATED" /\ \A y \in Granules : y # x => gs'[y] = gs[y] /\ mem'[y] = mem[y]
    BY <1>3, <1>5, <1>7, <1>8, RetypedFacts
  <2>2. CASE g = rd
    <3>1. RecsOf(rd)' = RecsOf(rd) \ {x} /\ x \in RecsOf(rd)  BY <2>1, <1>3 DEF RecsOf
    <3>2. Putting(rd)' = Putting(rd) \cup {q} /\ q \notin Putting(rd)
      BY <1>1, <1>5, <1>6 DEF Putting, At
    <3>3. IsFiniteSet(RecsOf(rd)) /\ IsFiniteSet(Putting(rd))  BY RefSets, Finite
    <3>4. /\ Cardinality(RecsOf(rd) \ {x}) = Cardinality(RecsOf(rd)) - 1
          /\ Cardinality(Putting(rd) \cup {q}) = Cardinality(Putting(rd)) + 1
          /\ Cardinality(RecsOf(rd)) \in Nat /\ Cardinality(Putting(rd)) \in Nat
      BY <3>1, <3>2, <3>3, CountOne
    <3>5. /\ Cardinality(RecsOf(rd)') = Cardinality(RecsOf(rd)) - 1
          /\ Cardinality(Putting(rd)') = Cardinality(Putting(rd)) + 1
      BY <3>1, <3>2, <3>4
    <3>6. QED  BY <3>4, <3>5, <2>2
  <2>3. CASE g # rd
    <3>1. RecsOf(g)' = RecsOf(g)  BY <2>1, <2>3, <1>3 DEF RecsOf
    <3>2. Putting(g)' = Putting(g)  BY <2>3, <1>0, <1>5, <1>6 DEF Putting, At
    <3>3. QED  BY <3>1, <3>2
  <2>4. QED  BY <2>2, <2>3
<1>17. QED
  BY <1>1, <1>3, <1>5, <1>7, <1>8, <1>9, <1>10, <1>12, <1>13, <1>14, <1>15, <1>16, RetypedKeeps

-----------------------------------------------------------------------------
(***************************************************************************)
(* Steps that make an object of several granules.                          *)
(***************************************************************************)
\* The realm exists; its starting-level tables are filled in and still locked.
LEMMA RealmCreateInitKeeps ==
  ASSUME OInv, LInv', NEW q \in PE, RealmCreateInit(q)
  PROVE  OInv'
<1>0. PICK rd, base, num, v : rd = pe[q].rd /\ base = pe[q].root /\ num = pe[q].num /\ v = pe[q].vmid
  OBVIOUS
<1> DEFINE e == Moved(pe[q], "unlock_rtts", pe[q].i)
           roots == RootRtts(base, num)
<1>1. /\ pe[q] \in PeType /\ pe \in [PE -> PeType] /\ DOMAIN pe = PE /\ RealmCreateOk(q)
      /\ pe[q].op = "realm_create" /\ pe[q].step = "init"
      /\ gs' = [gs EXCEPT ![rd] = "RD"] /\ lk' = [lk EXCEPT ![rd] = NoPE] /\ Goto(q, "unlock_rtts")
      /\ mem' = [g \in Granules |-> IF g = rd THEN RdMem("NEW", 0, v, base, num)
                                    ELSE IF g \in roots THEN RttMem({}) ELSE mem[g]]
      /\ UNCHANGED <<ref, gpt>> /\ lk \in [Granules -> PE \cup {NoPE}]
      /\ gs \in [Granules -> GranuleStates]
  BY <1>0, OfPe DEF RealmCreateInit, At, CommandOk, OInv, Types
<1>2. pe' = [pe EXCEPT ![q] = e]  BY <1>1, GotoMoves
<1>3. /\ rd \in Granules /\ base \in Granules /\ num \in Nat /\ num # 0 /\ base + num - 1 <= NumGranules
      /\ v \in Vmid /\ rd \notin roots /\ pe[q].i = 0 /\ lk[rd] = q /\ gs[rd] = "DELEGATED"
      /\ \A g \in roots : g \in Granules /\ lk[g] = q /\ gs[g] = "DELEGATED"
  BY <1>0, <1>1, LocalsTyped DEF RealmCreateOk, Holds
<1>4. "unlock_rtts" \in Steps /\ pe[q].i \in Nat  BY <1>3 DEF Steps
<1>5. /\ e \in PeType /\ e.op = "realm_create" /\ e.step = "unlock_rtts" /\ e.i = 0 /\ e.rd = rd
      /\ e.root = base /\ e.num = num /\ e.vmid = v
  BY <1>0, <1>1, <1>3, <1>4, MovedOn
<1> HIDE DEF e
<1>6. pe'[q] = e /\ \A p \in PE : p # q => pe'[p] = pe[p]  BY <1>1, <1>2
<1>7. \A g \in Granules : lk[g] = q => g = rd \/ g \in roots
  BY <1>0, <1>1 DEF OInv, LInv, LocksAccounted, MayHold
<1>8. roots = base..(base + num - 1) /\ base \in roots
  BY <1>3, GranulesAre DEF RootRtts
<1> HIDE DEF roots
<1>9. /\ gs'[rd] = "RD" /\ \A g \in Granules : g # rd => gs'[g] = gs[g] /\ lk'[g] = lk[g]
      /\ lk'[rd] = NoPE /\ mem'[rd] = RdMem("NEW", 0, v, base, num)
      /\ \A g \in roots : g # rd /\ mem'[g] = RttMem({})
      /\ \A g \in Granules : g # rd /\ g \notin roots => mem'[g] = mem[g]
      /\ \A g \in Granules : gs[g] # "DELEGATED" => g # rd /\ g \notin roots
      /\ \A g \in Granules : lk[g] # q => g # rd /\ g \notin roots
  BY <1>1, <1>3
<1>10. /\ Holder(rd)' = Idle /\ Holder(rd) = pe[q]
       /\ \A g \in roots : Holder(g)' = e /\ Holder(g) = pe[q]
       /\ \A g \in Granules : g # rd /\ g \notin roots => Holder(g)' = Holder(g)
  <2>1. Holder(rd)' = Idle /\ Holder(rd) = pe[q]  BY <1>3, <1>6, <1>9, HolderAfter
  <2>2. \A g \in roots : Holder(g)' = e /\ Holder(g) = pe[q]  BY <1>3, <1>6, <1>9, HolderAfter
  <2>3. \A g \in Granules : g # rd /\ g \notin roots => Holder(g)' = Holder(g)
    BY <1>6, <1>7, <1>9, HolderAfter
  <2>4. QED  BY <2>1, <2>2, <2>3
<1>11. /\ \A g \in roots : BeingRoot(g)'
       /\ \A g \in roots : ~BeingRoot(g)
       /\ ~BeingRoot(rd) /\ ~BeingRoot(rd)'
       /\ \A g \in Granules : g # rd /\ g \notin roots => (BeingRoot(g)' <=> BeingRoot(g))
  BY <1>1, <1>5, <1>10, IdleQuiet DEF BeingRoot, FillsRoots
<1>12. Types'
  <2>1. pe' \in [PE -> PeType]  BY <1>1, <1>2, <1>5
  <2>2. gs' \in [Granules -> GranuleStates]  BY <1>1 DEF GranuleStates
  <2>3. DOMAIN mem' = Granules /\ mem' = [g \in Granules |-> mem'[g]]  BY <1>1
  <2>4. QED  BY <2>1, <2>2, <2>3, <1>1 DEF OInv, Types
<1>13. RdMem("NEW", 0, v, base, num) \in RdContent  BY <1>3 DEF RdMem, RdContent, RealmStates
<1>14. /\ mem'[rd].g_rtt = base /\ mem'[rd].num_root_rtts = num  BY <1>9 DEF RdMem
<1>15. Contents'
  <2> SUFFICES ASSUME NEW g \in Granules
               PROVE  (/\ gs[g] = "NS" => mem[g] = HostOwned
                       /\ gs[g] = "DELEGATED" => mem[g] = IF BeingRoot(g) THEN RttMem({}) ELSE Zero
                       /\ gs[g] = "RD" => /\ mem[g] \in RdContent
                                          /\ mem[g].g_rtt + mem[g].num_root_rtts - 1 <= NumGranules
                       /\ gs[g] = "REC" => mem[g] \in RecContent /\ \A k \in 1..mem[g].num_aux : mem[g].g_aux[k] \in Granules
                       /\ gs[g] = "RTT" => mem[g] \in RttContent
                       /\ gs[g] = "REC_AUX" => mem[g] \in {AuxMem, Zero})'
    BY DEF Contents
  <2>1. CASE g = rd  BY <2>1, <1>3, <1>9, <1>13, <1>14
  <2>2. CASE g \in roots  BY <2>2, <1>3, <1>9, <1>11
  <2>3. CASE g # rd /\ g \notin roots  BY <2>3, <1>9, <1>11 DEF OInv, Contents
  <2>4. QED  BY <2>1, <2>2, <2>3
<1>16. Frame(q)  BY <1>1, <1>6, <1>9 DEF Frame
<1>17. CommandOk(q)'
  <2>1. \A g \in (e.root + e.i)..(e.root + e.num - 1) : Holds(q, g, "DELEGATED")'
    <3>1. (e.root + e.i)..(e.root + e.num - 1) = roots  BY <1>5, <1>8, <1>3, GranulesAre
    <3>2. QED  BY <3>1, <1>3, <1>9 DEF Holds
  <2>2. e.i < e.num  BY <1>3, <1>5
  <2>3. RealmCreateOk(q)'  BY <2>1, <2>2, <1>3, <1>5, <1>6 DEF RealmCreateOk
  <2>4. QED  BY <2>3, <1>5, <1>6, OnlyRealmCreate
<1>18. ASSUME NEW p \in PE, p # q PROVE Undisturbed(p)
  <2>1. Walks(pe[p]) => Pinned(pe[p].rd)'
    <3>1. \A g \in Granules : Pinned(g) => Pinned(g)'
      BY <1>5, <1>6, <1>9, PinsKept
    <3>2. pe'[p].rd = pe[p].rd  BY <1>6, <1>18
    <3>3. QED  BY <3>1, <3>2, WalkersRd
  <2>2. \A k \in ConvertedAux(pe[p]) : gs'[pe[p].aux[k]] = "REC_AUX" /\ mem'[pe[p].aux[k]] = Zero
    BY <1>9, Reliances
  <2>3. pe[p].op = "realm_destroy" =>
          \A g \in Counted(pe[p]) : lk'[g] = NoPE /\ gs'[g] = "RTT" /\ (ref[g] = 0 => ref'[g] = 0)
    BY <1>1, <1>9, Reliances
  <2>4. QED  BY <2>1, <2>2, <2>3, <1>9, Reliances DEF Undisturbed
<1>19. /\ Rds' = Rds \cup {rd} /\ rd \notin Rds /\ Recs' = Recs
       /\ \A g \in Rds : LiveRoots(g)' = LiveRoots(g) /\ mem'[g] = mem[g]
       /\ \A r \in Recs : LiveAux(r)' = LiveAux(r) /\ mem'[r] = mem[r]
       /\ LiveRoots(rd)' = roots
  <2>1. Rds' = Rds \cup {rd} /\ rd \notin Rds /\ Recs' = Recs  BY <1>3, <1>9 DEF Rds, Recs
  <2>2. \A g \in Rds : g \in Granules /\ g # rd /\ g \notin roots /\ mem'[g] = mem[g]
    BY <1>9 DEF Rds
  <2>3. \A g \in Recs : g \in Granules /\ g # rd /\ g \notin roots /\ mem'[g] = mem[g]
    BY <1>9 DEF Recs
  <2>4. \A g \in Rds : LiveRoots(g)' = LiveRoots(g)  BY <2>2, <1>10 DEF LiveRoots
  <2>5. \A r \in Recs : LiveAux(r)' = LiveAux(r)  BY <2>3, <1>10 DEF LiveAux
  <2>6. RootsFreed(Holder(rd))' = 0  BY <1>10, IdleTyped DEF RootsFreed
  <2>7. LiveRoots(rd)' = (base + 0)..(base + num - 1)  BY <2>6, <1>14 DEF LiveRoots
  <2>8. base \in Nat  BY <1>3, GranulesAre
  <2>9. base + 0 = base  BY <2>8
  <2>10. QED  BY <2>1, <2>2, <2>3, <2>4, <2>5, <2>7, <2>9, <1>8
<1>20. \A g \in Granules : gs[g] = "RTT" => gs'[g] = "RTT" /\ mem'[g] = mem[g]  BY <1>9
<1>21. \A g \in Granules : gs'[g] = "RTT" => gs[g] = "RTT" /\ mem'[g] = mem[g]  BY <1>9
<1>22. \A g \in Granules : gs[g] = "RTT" => mem[g].tables \subseteq Granules /\ \A t \in mem[g].tables : gs[t] = "RTT"
  BY OwnedAreGranules DEF OInv, Owned, TablesOk
<1>23. \A b \in Rds : \A g \in LiveRoots(b) : g \in Granules /\ (gs[g] = "RTT" \/ BeingRoot(g))
  BY OwnedAreGranules DEF OInv, Owned, RootsOk
<1>24. Owned'
  <2>1. RootsOk'
    <3>1. \A g \in Granules : gs[g] = "RTT" \/ BeingRoot(g) => gs'[g] = "RTT" \/ BeingRoot(g)'
      BY <1>11, <1>20
    <3>2. QED  BY <3>1, <1>11, <1>19, <1>23 DEF RootsOk
  <2>2. TablesOk'  BY <1>20, <1>21, <1>22 DEF TablesOk
  <2>3. AuxOk'
    <3>1. /\ AuxOk /\ \A r \in Recs : \A k \in LiveAux(r) : mem[r].g_aux[k] \in Granules
      BY OwnedAreGranules DEF OInv, Owned
    <3>2. QED  BY <3>1, <1>9, <1>19 DEF AuxOk
  <2>4. RootsDisjoint'
    <3>1. \A b \in Rds : \A g \in LiveRoots(b) : g \notin roots  BY <1>3, <1>11, <1>23
    <3>2. RootsDisjoint  BY DEF OInv, Owned
    <3>3. QED  BY <3>1, <3>2, <1>19 DEF RootsDisjoint
  <2>5. RootsNoTables'
    <3>1. \A x \in Granules : gs[x] = "RTT" => \A g \in roots : g \notin mem[x].tables
      BY <1>3, <1>22
    <3>2. RootsNoTables  BY DEF OInv, Owned
    <3>3. QED  BY <3>1, <3>2, <1>19, <1>21 DEF RootsNoTables
  <2>6. TablesDisjoint'  BY <1>21 DEF OInv, Owned, TablesDisjoint
  <2>7. RecAuxDisjoint'
    <3>1. RecAuxDisjoint  BY DEF OInv, Owned
    <3>2. QED  BY <3>1, <1>19 DEF RecAuxDisjoint
  <2>8. ConvertedDisjoint'
    <3>1. ConvertedAux(e) = {}  BY <1>5 DEF ConvertedAux
    <3>2. QED  BY <3>1, <1>6, ClaimsShrink
  <2>9. RecsOk'
    <3>1. /\ RecsOk /\ \A r \in Recs : mem[r].g_rd \in Granules  BY OwnedAreGranules DEF OInv, Owned
    <3>2. QED  BY <3>1, <1>9, <1>19 DEF RecsOk
  <2>10. QED  BY <2>1, <2>2, <2>3, <2>4, <2>5, <2>6, <2>7, <2>8, <2>9 DEF Owned
<1>25. \A g : RecsOf(g)' = RecsOf(g)
  <2>1. \A g \in Granules : gs'[g] = "REC" <=> gs[g] = "REC"  BY <1>3, <1>9
  <2>2. \A g \in Granules : gs[g] = "REC" => mem'[g] = mem[g]  BY <1>9
  <2>3. QED  BY <2>1, <2>2 DEF RecsOf
<1>26. SameRefs(q)  BY <1>1, <1>5, <1>6 DEF SameRefs, At
<1>27. \A g : Putting(g)' = Putting(g) /\ Running(g)' = Running(g)  BY <1>6, <1>26, PeSetsKept
<1>28. RecsOf(rd) = {} /\ Putting(rd) = {}
  <2>1. RecsOf(rd) = {}
    <3>1. \A r \in Granules : gs[r] = "REC" => gs[mem[r].g_rd] = "RD"  BY DEF OInv, Owned, RecsOk, Recs
    <3>2. QED  BY <3>1, <1>3 DEF RecsOf
  <2>2. Putting(rd) = {}  BY <1>3, Reliances DEF Putting, At
  <2>3. QED  BY <2>1, <2>2
<1>29. ASSUME NEW g \in Granules PROVE RefExact(g)'
  <2>1. CASE g = rd
    <3>1. ref'[rd] = 0  BY <1>1, <1>3, RefExactAt
    <3>2. Cardinality(RecsOf(rd)') + Cardinality(Putting(rd)') = 0
      BY <1>25, <1>27, <1>28, FS_EmptySet
    <3>3. QED  BY <3>1, <3>2, <2>1, <1>9 DEF RefExact
  <2>2. CASE g # rd
    <3>1. gs[g] = "RTT" => mem'[g] = mem[g]  BY <1>20
    <3>2. QED  BY <3>1, <2>2, <1>1, <1>9, <1>25, <1>27, RefKept
  <2>3. QED  BY <2>1, <2>2
<1>30. RefcountFits'  BY <1>1 DEF OInv, RefcountFits
<1>31. RecIndicesUnique'
  <2>1. \A g : \A r \in RecsOf(g) : mem'[r] = mem[r]  BY <1>19 DEF RecsOf, Recs
  <2>2. QED  BY <2>1, <1>19, <1>25, <1>28 DEF OInv, RecIndicesUnique
<1>32. GptAgrees'  BY <1>1, <1>3, <1>9 DEF OInv, GptAgrees
<1>33. QED
  BY <1>12, <1>15, <1>16, <1>17, <1>18, <1>24, <1>29, <1>30, <1>31, <1>32, ObjectStep

\* The REC exists and has its auxiliary granules; the RD counts it.
LEMMA RecCreateDoneKeeps ==
  ASSUME OInv, LInv', NEW q \in PE, NEW run \in BOOLEAN, RecCreateDone(q, run)
  PROVE  OInv'
<1>0. PICK rd, rec, idx, aux, naux :
        rd = pe[q].rd /\ rec = pe[q].new /\ idx = pe[q].idx /\ aux = pe[q].aux /\ naux = pe[q].naux
  OBVIOUS
<1> DEFINE m == RecMem(rd, idx, aux, naux, run)
           w == [mem[rd] EXCEPT !.rec_count = @ + 1]
           A == AuxOf(aux, naux)
<1>1. /\ pe[q] \in PeType /\ pe \in [PE -> PeType] /\ DOMAIN pe = PE /\ CommandOk(q)
      /\ pe[q].op = "rec_create" /\ pe[q].step = "locked"
      /\ ref[rd] # RefcountMax /\ idx = mem[rd].rec_count
      /\ mem' = [g \in Granules |-> IF g = rec THEN m ELSE IF g = rd THEN w
                                    ELSE IF g \in A THEN AuxMem ELSE mem[g]]
      /\ ref' = [ref EXCEPT ![rd] = ref[rd] + 1] /\ gs' = [gs EXCEPT ![rec] = "REC"]
      /\ lk' = [lk EXCEPT ![rd] = NoPE, ![rec] = NoPE] /\ pe' = [pe EXCEPT ![q] = Idle]
      /\ UNCHANGED gpt /\ lk \in [Granules -> PE \cup {NoPE}]
      /\ gs \in [Granules -> GranuleStates] /\ ref \in [Granules -> Nat]
  BY <1>0, OfPe DEF RecCreateDone, RecCreateAdmissible, At, OInv, Types, Return
<1>2. /\ rd \in Granules /\ rec \in Granules /\ rd # rec /\ lk[rd] = q /\ gs[rd] = "RD"
      /\ lk[rec] = q /\ gs[rec] = "DELEGATED"
  BY <1>0, <1>1 DEF CommandOk, TwoLocksOk, Holds
<1>3. /\ idx \in Nat /\ aux \in AuxList /\ naux \in 0..MaxRecAux /\ naux \in Nat
      /\ mem[rd] \in RdContent /\ mem[rd].g_rtt + mem[rd].num_root_rtts - 1 <= NumGranules
  BY <1>0, <1>1, <1>2, LocalsTyped DEF PeType, OInv, Contents
<1>4. m \in RecContent  BY <1>2, <1>3 DEF RecMem, RecContent
<1>5. m.g_rd = rd /\ m.rec_idx = idx /\ m.g_aux = aux /\ m.num_aux = naux  BY DEF RecMem
<1>6. w \in RdContent  BY <1>3 DEF RdContent
<1>7. w.g_rtt = mem[rd].g_rtt /\ w.num_root_rtts = mem[rd].num_root_rtts /\ w.rec_count = mem[rd].rec_count + 1
  BY <1>3 DEF RdContent
<1>8. ConvertedAux(pe[q]) = 1..naux  BY <1>0, <1>1 DEF ConvertedAux
<1>9. \A k \in 1..naux : aux[k] \in Granules /\ aux[k] \in A /\ gs[aux[k]] = "REC_AUX" /\ mem[aux[k]] = Zero
  <2>1. \A k \in 1..naux : aux[k] \in A  BY DEF AuxOf
  <2>2. \A k \in ConvertedAux(pe[q]) :
          pe[q].aux[k] \in Granules /\ gs[pe[q].aux[k]] = "REC_AUX" /\ mem[pe[q].aux[k]] = Zero
    BY Reliances
  <2>3. QED  BY <2>1, <2>2, <1>0, <1>8
<1>10. \A g \in A : g \in Granules /\ gs[g] = "REC_AUX" /\ mem[g] = Zero /\ lk[g] = NoPE
  <2>1. \A g \in A : g \in Granules /\ gs[g] = "REC_AUX" /\ mem[g] = Zero  BY <1>9 DEF AuxOf
  <2>2. QED  BY <2>1, <1>1, HeldState
<1> HIDE DEF m, w, A
<1>11. pe'[q] = Idle /\ \A p \in PE : p # q => pe'[p] = pe[p]  BY <1>1
<1>12. \A g \in Granules : lk[g] = q => g \in {rd, rec}
  BY <1>0, <1>1 DEF OInv, LInv, LocksAccounted, MayHold
<1>13. /\ gs'[rec] = "REC" /\ mem'[rec] = m /\ lk'[rec] = NoPE /\ ref'[rec] = ref[rec]
       /\ gs'[rd] = "RD" /\ mem'[rd] = w /\ lk'[rd] = NoPE /\ ref'[rd] = ref[rd] + 1
       /\ \A g \in A : g \notin {rd, rec} /\ mem'[g] = AuxMem
       /\ \A g \in Granules : g # rec => gs'[g] = gs[g]
       /\ \A g \in Granules : g # rd => ref'[g] = ref[g]
       /\ \A g \in Granules : g \notin {rd, rec} => lk'[g] = lk[g]
       /\ \A g \in Granules : g \notin {rd, rec} /\ g \notin A => mem'[g] = mem[g]
  BY <1>1, <1>2, <1>10
<1>14. /\ \A g \in Granules : lk[g] \notin {q, NoPE} => lk'[g] = lk[g]
       /\ \A g \in Granules : lk'[g] \in {lk[g], q, NoPE}
  BY <1>2, <1>13
<1>15. Quiet(pe[q]) /\ Quiet(Idle)
  BY <1>1, IdleQuiet DEF Quiet, RootsFreed, AuxFreed, FillsRoots
<1>16. \A g \in Granules : /\ RootsFreed(Holder(g))' = RootsFreed(Holder(g))
                           /\ AuxFreed(Holder(g))' = AuxFreed(Holder(g))
                           /\ BeingRoot(g)' = BeingRoot(g)
  BY <1>11, <1>14, <1>15, QuietHolders
<1>17. /\ \A g \in Granules : gs[g] \notin {"DELEGATED", "RD", "REC_AUX"} => gs'[g] = gs[g] /\ mem'[g] = mem[g]
       /\ \A g \in Granules : gs[g] = "RD" =>
            /\ gs'[g] = "RD" /\ mem'[g].g_rtt = mem[g].g_rtt /\ mem'[g].num_root_rtts = mem[g].num_root_rtts
            /\ mem'[g].rec_count \in Nat /\ mem[g].rec_count \in Nat /\ mem'[g].rec_count >= mem[g].rec_count
            /\ g # rd => mem'[g] = mem[g]
       /\ \A g \in Granules : gs[g] = "REC_AUX" => gs'[g] = "REC_AUX" /\ mem'[g] \in {mem[g], AuxMem}
       /\ \A g \in Granules : g # rec => (gs'[g] = "RD" <=> gs[g] = "RD") /\ (gs'[g] = "REC" <=> gs[g] = "REC")
                                         /\ (gs'[g] = "RTT" <=> gs[g] = "RTT")
  <2>1. \A g \in Granules : gs[g] # "REC_AUX" => g \notin A  BY <1>10
  <2>2. \A g \in Granules : gs[g] = "RD" => mem[g].rec_count \in Nat  BY DEF OInv, Contents, RdContent
  <2>3. mem'[rd].rec_count \in Nat /\ mem'[rd].rec_count >= mem[rd].rec_count
    BY <2>2, <1>2, <1>7, <1>13
  <2>4. QED  BY <2>1, <2>2, <2>3, <1>2, <1>7, <1>13
<1>18. Types'
  <2>1. pe' \in [PE -> PeType]  BY <1>1, IdleTyped
  <2>2. gs' \in [Granules -> GranuleStates]  BY <1>1 DEF GranuleStates
  <2>3. DOMAIN mem' = Granules /\ mem' = [g \in Granules |-> mem'[g]]  BY <1>1
  <2>4. ref' \in [Granules -> Nat]  BY <1>1, <1>2
  <2>5. QED  BY <2>1, <2>2, <2>3, <2>4, <1>1 DEF OInv, Types
<1>19. Contents'
  <2> SUFFICES ASSUME NEW g \in Granules
               PROVE  (/\ gs[g] = "NS" => mem[g] = HostOwned
                       /\ gs[g] = "DELEGATED" => mem[g] = IF BeingRoot(g) THEN RttMem({}) ELSE Zero
                       /\ gs[g] = "RD" => /\ mem[g] \in RdContent
                                          /\ mem[g].g_rtt + mem[g].num_root_rtts - 1 <= NumGranules
                       /\ gs[g] = "REC" => mem[g] \in RecContent /\ \A k \in 1..mem[g].num_aux : mem[g].g_aux[k] \in Granules
                       /\ gs[g] = "RTT" => mem[g] \in RttContent
                       /\ gs[g] = "REC_AUX" => mem[g] \in {AuxMem, Zero})'
    BY DEF Contents
  <2>1. CASE g = rd  BY <2>1, <1>3, <1>6, <1>7, <1>13
  <2>2. CASE g = rec  BY <2>2, <1>4, <1>5, <1>9, <1>13
  <2>3. CASE g \in A  BY <2>3, <1>10, <1>13
  <2>4. CASE g \notin {rd, rec} /\ g \notin A  BY <2>4, <1>13, <1>16 DEF OInv, Contents
  <2>5. QED  BY <2>1, <2>2, <2>3, <2>4
<1>20. Frame(q)
  <2>1. \A g \in Granules : lk[g] \notin {q, NoPE} => g \notin {rd, rec} /\ g \notin A  BY <1>2, <1>10
  <2>2. QED  BY <2>1, <1>11, <1>13 DEF Frame
<1>21. CommandOk(q)' /\ ConvertedAux(Idle) = {}  BY <1>11, IdleOk
<1>22. \A p \in PE : p # q => \A k \in ConvertedAux(pe[p]) : pe[p].aux[k] \notin A
  <2>1. \A p \in PE : p # q => \A k \in ConvertedAux(pe[p]) : \A j \in 1..naux : pe[p].aux[k] # aux[j]
    BY <1>0, <1>8 DEF OInv, Owned, ConvertedDisjoint
  <2>2. QED  BY <2>1 DEF A, AuxOf
<1>23. ASSUME NEW p \in PE, p # q PROVE Undisturbed(p)
  <2>1. Walks(pe[p]) => Pinned(pe[p].rd)'
    <3>1. \A g \in Granules : Pinned(g) => Pinned(g)'  BY <1>11, <1>14, IdleTyped, PinsKept
    <3>2. pe'[p].rd = pe[p].rd  BY <1>11, <1>23
    <3>3. QED  BY <3>1, <3>2, WalkersRd
  <2>2. \A k \in ConvertedAux(pe[p]) : gs'[pe[p].aux[k]] = "REC_AUX" /\ mem'[pe[p].aux[k]] = Zero
    <3> SUFFICES ASSUME NEW k \in ConvertedAux(pe[p])
                 PROVE  gs'[pe[p].aux[k]] = "REC_AUX" /\ mem'[pe[p].aux[k]] = Zero
      OBVIOUS
    <3>1. pe[p].aux[k] \in Granules /\ gs[pe[p].aux[k]] = "REC_AUX" /\ mem[pe[p].aux[k]] = Zero
          /\ pe[p].aux[k] \notin A
      BY <1>22, <1>23, Reliances
    <3>2. QED  BY <3>1, <1>2, <1>13
  <2>3. pe[p].op = "realm_destroy" =>
          \A g \in Counted(pe[p]) : lk'[g] = NoPE /\ gs'[g] = "RTT" /\ (ref[g] = 0 => ref'[g] = 0)
    BY <1>2, <1>13, Reliances
  <2>4. QED  BY <2>1, <2>2, <2>3, <1>17, Reliances DEF Undisturbed
<1>24. /\ Rds' = Rds /\ Recs' = Recs \cup {rec} /\ rec \notin Recs
       /\ \A g \in Rds : LiveRoots(g)' = LiveRoots(g)
       /\ \A r \in Recs : LiveAux(r)' = LiveAux(r) /\ mem'[r] = mem[r]
       /\ LiveAux(rec)' = 1..naux
  <2>1. Rds' = Rds /\ Recs' = Recs \cup {rec} /\ rec \notin Recs  BY <1>2, <1>13, <1>17 DEF Rds, Recs
  <2>2. \A r \in Recs : mem'[r] = mem[r]  BY <1>17 DEF Recs
  <2>3. \A g \in Rds : LiveRoots(g)' = LiveRoots(g)
    <3>1. \A g \in Rds : mem'[g].g_rtt = mem[g].g_rtt /\ mem'[g].num_root_rtts = mem[g].num_root_rtts
      BY <1>17 DEF Rds
    <3>2. QED  BY <3>1, <1>16 DEF LiveRoots, Rds
  <2>4. \A r \in Recs : LiveAux(r)' = LiveAux(r)  BY <2>2, <1>16 DEF LiveAux, Recs
  <2>5. Holder(rec)' = Idle  BY <1>2, <1>11, <1>13, HolderAfter
  <2>6. LiveAux(rec)' = (0 + 1)..naux  BY <2>5, <1>5, <1>13, IdleQuiet DEF LiveAux, AuxFreed
  <2>7. QED  BY <2>1, <2>2, <2>3, <2>4, <2>6
<1>25. \A r \in Recs : \A k \in LiveAux(r) :
         mem[r].g_aux[k] \in Granules /\ gs[mem[r].g_aux[k]] = "REC_AUX" /\ mem[mem[r].g_aux[k]] = AuxMem
  BY OwnedAreGranules DEF OInv, Owned, AuxOk
<1>26. \A g \in Granules : gs[g] = "RTT" => mem[g].tables \subseteq Granules /\ \A t \in mem[g].tables : gs[t] = "RTT"
  BY OwnedAreGranules DEF OInv, Owned, TablesOk
<1>27. \A g \in Granules : gs'[g] = "RTT" => gs[g] = "RTT" /\ mem'[g] = mem[g]
  BY <1>13, <1>17
<1>28. Owned'
  <2>1. RootsOk'
    <3>1. RootsOk /\ \A g \in Rds : LiveRoots(g) \subseteq Granules  BY OwnedAreGranules DEF OInv, Owned
    <3>2. \A g \in Granules : gs[g] = "RTT" => gs'[g] = "RTT"  BY <1>17
    <3>3. QED  BY <3>1, <3>2, <1>16, <1>24 DEF RootsOk
  <2>2. TablesOk'  BY <1>17, <1>26, <1>27 DEF TablesOk
  <2>3. AuxOk'
    <3>1. ASSUME NEW r \in Recs', NEW k \in LiveAux(r)'
          PROVE  gs'[mem'[r].g_aux[k]] = "REC_AUX" /\ mem'[mem'[r].g_aux[k]] = AuxMem
      <4>1. CASE r = rec
        <5>1. k \in 1..naux /\ mem'[r].g_aux = aux  BY <3>1, <4>1, <1>5, <1>13, <1>24
        <5>2. QED  BY <5>1, <1>9, <1>13, <1>17
      <4>2. CASE r \in Recs
        <5>1. k \in LiveAux(r) /\ mem'[r] = mem[r]  BY <3>1, <4>2, <1>24
        <5>2. QED  BY <5>1, <4>2, <1>17, <1>25
      <4>3. QED  BY <4>1, <4>2, <1>24
    <3>2. QED  BY <3>1 DEF AuxOk
  <2>4. RootsDisjoint'  BY <1>24 DEF OInv, Owned, RootsDisjoint
  <2>5. RootsNoTables'  BY <1>24, <1>27 DEF OInv, Owned, RootsNoTables
  <2>6. TablesDisjoint'  BY <1>27 DEF OInv, Owned, TablesDisjoint
  <2>7. RecAuxDisjoint'
    <3>1. RecAuxDisjoint /\ ConvertedDisjoint  BY DEF OInv, Owned
    <3>2. \A j, k \in 1..naux : aux[j] = aux[k] => j = k
      <4>1. \A j, k \in ConvertedAux(pe[q]) : pe[q].aux[j] = pe[q].aux[k] => j = k
        BY <3>1 DEF ConvertedDisjoint
      <4>2. QED  BY <4>1, <1>0, <1>8
    <3>3. \A r \in Recs : \A k \in LiveAux(r) : \A j \in 1..naux : mem[r].g_aux[k] # aux[j]
      <4>1. AuxMem # Zero  BY DEF AuxMem, Zero
      <4>2. QED  BY <4>1, <1>9, <1>25
    <3>4. mem'[rec].g_aux = aux  BY <1>5, <1>13
    <3>5. ASSUME NEW r \in Recs', NEW s \in Recs', NEW j \in LiveAux(r)', NEW k \in LiveAux(s)',
                 mem'[r].g_aux[j] = mem'[s].g_aux[k]
          PROVE  r = s /\ j = k
      <4>1. CASE r = rec /\ s = rec  BY <3>2, <3>4, <3>5, <4>1, <1>24
      <4>2. CASE r \in Recs /\ s = rec  BY <3>3, <3>4, <3>5, <4>2, <1>24
      <4>3. CASE r = rec /\ s \in Recs  BY <3>3, <3>4, <3>5, <4>3, <1>24
      <4>4. CASE r \in Recs /\ s \in Recs  BY <3>1, <3>5, <4>4, <1>24 DEF RecAuxDisjoint
      <4>5. QED  BY <4>1, <4>2, <4>3, <4>4, <1>24
    <3>6. QED  BY <3>5 DEF RecAuxDisjoint
  <2>8. ConvertedDisjoint'  BY <1>11, <1>21, ClaimsShrink
  <2>9. RecsOk'
    <3>1. ASSUME NEW r \in Recs'
          PROVE  gs'[mem'[r].g_rd] = "RD" /\ mem'[r].rec_idx < mem'[mem'[r].g_rd].rec_count
      <4>1. CASE r = rec  BY <4>1, <1>1, <1>3, <1>5, <1>7, <1>13
      <4>2. CASE r \in Recs
        <5>1. /\ mem'[r] = mem[r] /\ mem[r].g_rd \in Granules /\ gs[mem[r].g_rd] = "RD"
              /\ mem[r].rec_idx < mem[mem[r].g_rd].rec_count /\ mem[r].rec_idx \in Nat
          BY <4>2, <1>24, OwnedAreGranules DEF OInv, Owned, RecsOk, Recs, Contents, RecContent
        <5>2. QED  BY <5>1, <1>17
      <4>3. QED  BY <4>1, <4>2, <1>24
    <3>2. QED  BY <3>1 DEF RecsOk
  <2>10. QED  BY <2>1, <2>2, <2>3, <2>4, <2>5, <2>6, <2>7, <2>8, <2>9 DEF Owned
<1>29. /\ RecsOf(rd)' = RecsOf(rd) \cup {rec} /\ rec \notin RecsOf(rd)
       /\ \A g : g # rd => RecsOf(g)' = RecsOf(g)
  <2>1. mem'[rec].g_rd = rd  BY <1>5, <1>13
  <2>2. \A g \in Granules : g # rec => (gs'[g] = "REC" <=> gs[g] = "REC")  BY <1>17
  <2>3. \A g \in Granules : gs[g] = "REC" => mem'[g] = mem[g]  BY <1>17
  <2>4. QED  BY <2>1, <2>2, <2>3, <1>2, <1>13 DEF RecsOf
<1>30. SameRefs(q)  BY <1>1, <1>11, IdleTyped DEF SameRefs, At
<1>31. \A g : Putting(g)' = Putting(g) /\ Running(g)' = Running(g)  BY <1>11, <1>30, PeSetsKept
<1>32. ASSUME NEW g \in Granules PROVE RefExact(g)'
  <2>1. CASE g = rd
    <3>1. ref[rd] = Cardinality(RecsOf(rd)) + Cardinality(Putting(rd))  BY <1>2, RefExactAt
    <3>2. /\ Cardinality(RecsOf(rd) \cup {rec}) = Cardinality(RecsOf(rd)) + 1
          /\ Cardinality(RecsOf(rd)) \in Nat /\ Cardinality(Putting(rd)) \in Nat
      BY <1>29, RefSets, Finite, CountOne
    <3>3. Cardinality(RecsOf(rd)') = Cardinality(RecsOf(rd)) + 1 /\ Cardinality(Putting(rd)') = Cardinality(Putting(rd))
      BY <3>2, <1>29, <1>31
    <3>4. ref'[rd] = Cardinality(RecsOf(rd)') + Cardinality(Putting(rd)')
      BY <3>1, <3>2, <3>3, <1>13
    <3>5. QED  BY <3>4, <2>1, <1>13 DEF RefExact
  <2>2. CASE g = rec
    <3>1. ref'[rec] = 0  BY <1>2, <1>13, RefExactAt
    <3>2. Running(rec) = {}  BY <1>2, Reliances DEF Running
    <3>3. Cardinality(Running(rec)') = 0  BY <3>2, <1>31, FS_EmptySet
    <3>4. QED  BY <3>1, <3>3, <2>2, <1>13 DEF RefExact
  <2>3. CASE g \notin {rd, rec}
    <3>1. gs[g] = "RTT" => mem'[g] = mem[g]  BY <1>17
    <3>2. QED  BY <3>1, <2>3, <1>13, <1>29, <1>31, RefKept
  <2>4. QED  BY <2>1, <2>2, <2>3
<1>33. RefcountFits'
  <2>1. \A g \in Granules : ref[g] <= RefcountMax /\ ref[g] \in Nat  BY <1>1 DEF OInv, RefcountFits
  <2>2. ref[rd] + 1 <= RefcountMax  BY <2>1, <1>1, <1>2, SizesAssumption
  <2>3. QED  BY <2>1, <2>2, <1>13 DEF RefcountFits
<1>34. RecIndicesUnique'
  <2>1. RecIndicesUnique  BY DEF OInv
  <2>2. \A g : \A r \in RecsOf(g) : mem'[r] = mem[r] /\ r \in Granules /\ mem[r].rec_idx \in Nat
    BY <1>17 DEF RecsOf, OInv, Contents, RecContent
  <2>3. \A r, t \in RecsOf(rd) : mem[r].rec_idx = mem[t].rec_idx => r = t
    BY <2>1, <1>2 DEF RecIndicesUnique, Rds
  <2>4. \A r \in RecsOf(rd) : mem[r].rec_idx < idx  BY <2>1, <1>1, <1>2 DEF RecIndicesUnique, Rds
  <2>5. mem'[rec].rec_idx = idx /\ mem'[rd].rec_count = idx + 1  BY <1>1, <1>5, <1>7, <1>13
  <2>6. \A r, t \in RecsOf(rd)' : mem'[r].rec_idx = mem'[t].rec_idx => r = t
    BY <2>2, <2>3, <2>4, <2>5, <1>3, <1>29
  <2>7. \A r \in RecsOf(rd)' : mem'[r].rec_idx < mem'[rd].rec_count
    BY <2>2, <2>4, <2>5, <1>3, <1>29
  <2>8. ASSUME NEW g \in Rds, g # rd
        PROVE  /\ \A r, t \in RecsOf(g)' : mem'[r].rec_idx = mem'[t].rec_idx => r = t
               /\ \A r \in RecsOf(g)' : mem'[r].rec_idx < mem'[g].rec_count
    <3>1. RecsOf(g)' = RecsOf(g) /\ mem'[g] = mem[g]  BY <2>8, <1>17, <1>29 DEF Rds
    <3>2. QED  BY <3>1, <2>1, <2>2 DEF RecIndicesUnique
  <2>9. QED  BY <2>6, <2>7, <2>8, <1>24 DEF RecIndicesUnique
<1>35. GptAgrees'  BY <1>1, <1>2, <1>13 DEF OInv, GptAgrees
<1>36. QED
  BY <1>18, <1>19, <1>20, <1>21, <1>23, <1>28, <1>32, <1>33, <1>34, <1>35, ObjectStep

\* A table below the starting level exists; its parent refers to it.
LEMMA RttCreateDoneKeeps ==
  ASSUME OInv, LInv', NEW q \in PE, RttCreateDone(q)
  PROVE  OInv'
<1>0. PICK root, rtt : root = pe[q].root /\ rtt = pe[q].new  OBVIOUS
<1> DEFINE w == [mem[root] EXCEPT !.tables = @ \cup {rtt}]
<1>1. /\ pe[q] \in PeType /\ pe \in [PE -> PeType] /\ DOMAIN pe = PE /\ CommandOk(q)
      /\ pe[q].op = "rtt_create" /\ pe[q].step = "at_parent"
      /\ Cardinality(mem[root].tables) < MaxTables
      /\ ref' = [ref EXCEPT ![root] = ref[root] + 1]
      /\ mem' = [mem EXCEPT ![root].tables = @ \cup {rtt}, ![rtt] = RttMem({})]
      /\ gs' = [gs EXCEPT ![rtt] = "RTT"] /\ lk' = [lk EXCEPT ![root] = NoPE, ![rtt] = NoPE]
      /\ pe' = [pe EXCEPT ![q] = Idle] /\ UNCHANGED gpt /\ lk \in [Granules -> PE \cup {NoPE}]
      /\ gs \in [Granules -> GranuleStates] /\ ref \in [Granules -> Nat] /\ DOMAIN mem = Granules
  BY <1>0, OfPe DEF RttCreateDone, At, OInv, Types, Return
<1>2. /\ root \in Granules /\ rtt \in Granules /\ root # rtt /\ lk[root] = q /\ gs[root] = "RTT"
      /\ lk[rtt] = q /\ gs[rtt] = "DELEGATED"
  BY <1>0, <1>1 DEF CommandOk, WalkOk, Holds
<1>3. mem[root] \in RttContent  BY <1>2 DEF OInv, Contents
<1>4. w \in RttContent  BY <1>2, <1>3 DEF RttContent
<1>5. w.tables = mem[root].tables \cup {rtt}  BY <1>3 DEF RttContent
<1>6. mem'[root] = w  BY <1>1, <1>2
<1> HIDE DEF w
<1>7. /\ gs'[rtt] = "RTT" /\ mem'[rtt] = RttMem({}) /\ lk'[rtt] = NoPE /\ ref'[rtt] = ref[rtt]
      /\ gs'[root] = "RTT" /\ lk'[root] = NoPE /\ ref'[root] = ref[root] + 1
      /\ \A g \in Granules : g # rtt => gs'[g] = gs[g]
      /\ \A g \in Granules : g # root => ref'[g] = ref[g]
      /\ \A g \in Granules : g \notin {root, rtt} => lk'[g] = lk[g] /\ mem'[g] = mem[g]
  BY <1>1, <1>2
<1>8. mem'[rtt].tables = {}  BY <1>7 DEF RttMem
<1>9. pe'[q] = Idle /\ \A p \in PE : p # q => pe'[p] = pe[p]  BY <1>1
<1>10. /\ \A g \in Granules : lk[g] \notin {q, NoPE} => lk'[g] = lk[g]
       /\ \A g \in Granules : lk'[g] \in {lk[g], q, NoPE}
  BY <1>2, <1>7
<1>11. Quiet(pe[q]) /\ Quiet(Idle)
  BY <1>1, IdleQuiet DEF Quiet, RootsFreed, AuxFreed, FillsRoots
<1>12. \A g \in Granules : /\ RootsFreed(Holder(g))' = RootsFreed(Holder(g))
                           /\ AuxFreed(Holder(g))' = AuxFreed(Holder(g))
                           /\ BeingRoot(g)' = BeingRoot(g)
  BY <1>9, <1>10, <1>11, QuietHolders
<1>13. ~BeingRoot(rtt)  BY <1>1, <1>2, HeldState DEF BeingRoot, FillsRoots
<1>14. \A g \in Granules : gs[g] \notin {"DELEGATED", "RTT"} => gs'[g] = gs[g] /\ mem'[g] = mem[g]
  BY <1>2, <1>7
<1>15. Types'
  <2>1. pe' \in [PE -> PeType]  BY <1>1, IdleTyped
  <2>2. gs' \in [Granules -> GranuleStates]  BY <1>1 DEF GranuleStates
  <2>3. DOMAIN mem' = Granules /\ mem' = [g \in Granules |-> mem'[g]]
    <3>1. mem = [g \in Granules |-> mem[g]]  BY DEF OInv, Types
    <3>2. QED  BY <3>1, <1>1
  <2>4. ref' \in [Granules -> Nat]  BY <1>1, <1>2
  <2>5. QED  BY <2>1, <2>2, <2>3, <2>4, <1>1 DEF OInv, Types
<1>16. Contents'
  <2> SUFFICES ASSUME NEW g \in Granules
               PROVE  (/\ gs[g] = "NS" => mem[g] = HostOwned
                       /\ gs[g] = "DELEGATED" => mem[g] = IF BeingRoot(g) THEN RttMem({}) ELSE Zero
                       /\ gs[g] = "RD" => /\ mem[g] \in RdContent
                                          /\ mem[g].g_rtt + mem[g].num_root_rtts - 1 <= NumGranules
                       /\ gs[g] = "REC" => mem[g] \in RecContent /\ \A k \in 1..mem[g].num_aux : mem[g].g_aux[k] \in Granules
                       /\ gs[g] = "RTT" => mem[g] \in RttContent
                       /\ gs[g] = "REC_AUX" => mem[g] \in {AuxMem, Zero})'
    BY DEF Contents
  <2>1. CASE g = root  BY <2>1, <1>4, <1>6, <1>7
  <2>2. CASE g = rtt
    <3>1. RttMem({}) \in RttContent  BY DEF RttMem, RttContent
    <3>2. QED  BY <3>1, <2>2, <1>7
  <2>3. CASE g \notin {root, rtt}  BY <2>3, <1>7, <1>12 DEF OInv, Contents
  <2>4. QED  BY <2>1, <2>2, <2>3
<1>17. Frame(q)
  <2>1. \A g \in Granules : lk[g] \notin {q, NoPE} => g \notin {root, rtt}  BY <1>2
  <2>2. QED  BY <2>1, <1>7, <1>9 DEF Frame
<1>18. CommandOk(q)' /\ ConvertedAux(Idle) = {}  BY <1>9, IdleOk
<1>19. ASSUME NEW p \in PE, p # q PROVE Undisturbed(p)
  <2>1. Walks(pe[p]) => Pinned(pe[p].rd)'
    <3>1. \A g \in Granules : Pinned(g) => Pinned(g)'  BY <1>9, <1>10, IdleTyped, PinsKept
    <3>2. pe'[p].rd = pe[p].rd  BY <1>9, <1>19
    <3>3. QED  BY <3>1, <3>2, WalkersRd
  <2>2. \A k \in ConvertedAux(pe[p]) : gs'[pe[p].aux[k]] = "REC_AUX" /\ mem'[pe[p].aux[k]] = Zero
    BY <1>14, Reliances
  <2>3. pe[p].op = "realm_destroy" =>
          \A g \in Counted(pe[p]) : lk'[g] = NoPE /\ gs'[g] = "RTT" /\ (ref[g] = 0 => ref'[g] = 0)
    <3>1. \A g \in Granules : lk[g] = NoPE => g \notin {root, rtt}  BY <1>2, PEAssumption
    <3>2. QED  BY <3>1, <1>7, Reliances
  <2>4. QED  BY <2>1, <2>2, <2>3, <1>14, Reliances DEF Undisturbed
<1>20. /\ Rds' = Rds /\ Recs' = Recs
       /\ \A g \in Rds : LiveRoots(g)' = LiveRoots(g) /\ mem'[g] = mem[g]
       /\ \A r \in Recs : LiveAux(r)' = LiveAux(r) /\ mem'[r] = mem[r]
  <2>1. Rds' = Rds /\ Recs' = Recs  BY <1>2, <1>7 DEF Rds, Recs
  <2>2. \A g \in Rds : mem'[g] = mem[g]  BY <1>14 DEF Rds
  <2>3. \A r \in Recs : mem'[r] = mem[r]  BY <1>14 DEF Recs
  <2>4. \A g \in Rds : LiveRoots(g)' = LiveRoots(g)  BY <2>2, <1>12 DEF LiveRoots, Rds
  <2>5. \A r \in Recs : LiveAux(r)' = LiveAux(r)  BY <2>3, <1>12 DEF LiveAux, Recs
  <2>6. QED  BY <2>1, <2>2, <2>3, <2>4, <2>5
<1>21. \A g \in Granules : gs[g] = "RTT" => mem[g].tables \subseteq Granules /\ \A t \in mem[g].tables : gs[t] = "RTT"
  BY OwnedAreGranules DEF OInv, Owned, TablesOk
<1>22. \A g \in Granules : gs'[g] = "RTT" =>
         /\ g = root => mem'[g].tables = mem[g].tables \cup {rtt}
         /\ g = rtt => mem'[g].tables = {}
         /\ g \notin {root, rtt} => gs[g] = "RTT" /\ mem'[g].tables = mem[g].tables
  BY <1>5, <1>6, <1>7, <1>8
<1>23. \A g \in Granules : gs[g] = "RTT" => rtt \notin mem[g].tables  BY <1>2, <1>21
<1>24. \A d \in Rds : LiveRoots(d) \subseteq Granules /\ rtt \notin LiveRoots(d)
  BY <1>2, <1>13, OwnedAreGranules DEF OInv, Owned, RootsOk
<1>25. Owned'
  <2>1. RootsOk'
    <3>1. RootsOk  BY DEF OInv, Owned
    <3>2. \A g \in Granules : gs[g] = "RTT" => gs'[g] = "RTT"  BY <1>7
    <3>3. QED  BY <3>1, <3>2, <1>12, <1>20, <1>24 DEF RootsOk
  <2>2. TablesOk'
    <3>1. ASSUME NEW x \in Granules, gs'[x] = "RTT", NEW t \in mem'[x].tables PROVE gs'[t] = "RTT"
      <4>1. CASE x = root
        <5>1. t = rtt \/ t \in mem[root].tables  BY <3>1, <4>1, <1>22
        <5>2. QED  BY <5>1, <1>2, <1>7, <1>21
      <4>2. CASE x = rtt  BY <3>1, <4>2, <1>22
      <4>3. CASE x \notin {root, rtt}
        <5>1. gs[x] = "RTT" /\ t \in mem[x].tables  BY <3>1, <4>3, <1>22
        <5>2. QED  BY <5>1, <1>7, <1>21
      <4>4. QED  BY <4>1, <4>2, <4>3
    <3>2. QED  BY <3>1 DEF TablesOk
  <2>3. AuxOk'
    <3>1. /\ AuxOk /\ \A r \in Recs : \A k \in LiveAux(r) : mem[r].g_aux[k] \in Granules
      BY OwnedAreGranules DEF OInv, Owned
    <3>2. QED  BY <3>1, <1>14, <1>20 DEF AuxOk
  <2>4. RootsDisjoint'  BY <1>20 DEF OInv, Owned, RootsDisjoint
  <2>5. RootsNoTables'
    <3>1. RootsNoTables  BY DEF OInv, Owned
    <3>2. ASSUME NEW d \in Rds, NEW x \in Granules, gs'[x] = "RTT", NEW g \in LiveRoots(d)
          PROVE  g \notin mem'[x].tables
      <4>1. CASE x = root  BY <3>1, <3>2, <4>1, <1>2, <1>22, <1>24 DEF RootsNoTables
      <4>2. CASE x = rtt  BY <3>2, <4>2, <1>22
      <4>3. CASE x \notin {root, rtt}  BY <3>1, <3>2, <4>3, <1>22 DEF RootsNoTables
      <4>4. QED  BY <4>1, <4>2, <4>3
    <3>3. QED  BY <3>2, <1>20 DEF RootsNoTables
  <2>6. TablesDisjoint'
    <3>1. TablesDisjoint  BY DEF OInv, Owned
    <3>2. ASSUME NEW x \in Granules, NEW y \in Granules, gs'[x] = "RTT", gs'[y] = "RTT",
                 NEW t \in mem'[x].tables, t \in mem'[y].tables, x # y
          PROVE  FALSE
      <4>1. x # rtt /\ y # rtt  BY <3>2, <1>22
      <4>2. gs[x] = "RTT" /\ gs[y] = "RTT"  BY <4>1, <3>2, <1>7
      <4>3. CASE t = rtt  BY <4>1, <4>2, <4>3, <3>2, <1>22, <1>23
      <4>4. CASE t # rtt
        <5>1. t \in mem[x].tables /\ t \in mem[y].tables  BY <4>1, <4>4, <3>2, <1>22
        <5>2. QED  BY <5>1, <4>2, <3>1, <3>2 DEF TablesDisjoint
      <4>5. QED  BY <4>3, <4>4
    <3>3. QED  BY <3>2 DEF TablesDisjoint
  <2>7. RecAuxDisjoint'
    <3>1. RecAuxDisjoint  BY DEF OInv, Owned
    <3>2. QED  BY <3>1, <1>20 DEF RecAuxDisjoint
  <2>8. ConvertedDisjoint'  BY <1>9, <1>18, ClaimsShrink
  <2>9. RecsOk'
    <3>1. /\ RecsOk /\ \A r \in Recs : mem[r].g_rd \in Granules  BY OwnedAreGranules DEF OInv, Owned
    <3>2. QED  BY <3>1, <1>14, <1>20 DEF RecsOk
  <2>10. QED  BY <2>1, <2>2, <2>3, <2>4, <2>5, <2>6, <2>7, <2>8, <2>9 DEF Owned
<1>26. \A g : RecsOf(g)' = RecsOf(g)
  <2>1. \A g \in Granules : gs'[g] = "REC" <=> gs[g] = "REC"  BY <1>2, <1>7
  <2>2. QED  BY <2>1, <1>14 DEF RecsOf
<1>27. SameRefs(q)  BY <1>1, <1>9, IdleTyped DEF SameRefs, At
<1>28. \A g : Putting(g)' = Putting(g) /\ Running(g)' = Running(g)  BY <1>9, <1>27, PeSetsKept
<1>29. /\ ref[root] = Cardinality(mem[root].tables) /\ Cardinality(mem[root].tables) \in Nat
       /\ Cardinality(mem'[root].tables) = Cardinality(mem[root].tables) + 1
  <2>1. mem[root].tables \in SUBSET Granules /\ rtt \notin mem[root].tables  BY <1>2, <1>21, <1>23
  <2>2. IsFiniteSet(mem[root].tables)  BY <2>1, Finite
  <2>3. ref[root] = Cardinality(mem[root].tables)  BY <1>2, RefExactAt
  <2>4. /\ Cardinality(mem[root].tables) \in Nat
        /\ Cardinality(mem[root].tables \cup {rtt}) = Cardinality(mem[root].tables) + 1
    BY <2>1, <2>2, CountOne
  <2>5. QED  BY <2>3, <2>4, <1>5, <1>6
<1>30. ASSUME NEW g \in Granules PROVE RefExact(g)'
  <2>1. CASE g = root
    <3>1. ref'[root] = Cardinality(mem'[root].tables)  BY <1>7, <1>29
    <3>2. QED  BY <3>1, <2>1, <1>7 DEF RefExact
  <2>2. CASE g = rtt
    <3>1. ref'[rtt] = 0  BY <1>2, <1>7, RefExactAt
    <3>2. Cardinality(mem'[rtt].tables) = 0  BY <1>8, FS_EmptySet
    <3>3. QED  BY <3>1, <3>2, <2>2, <1>7 DEF RefExact
  <2>3. CASE g \notin {root, rtt}  BY <2>3, <1>7, <1>26, <1>28, RefKept
  <2>4. QED  BY <2>1, <2>2, <2>3
<1>31. RefcountFits'
  <2>1. ref[root] + 1 <= RefcountMax
    BY <1>1, <1>29, RttParamsAssumption, SizesAssumption
  <2>2. QED  BY <2>1, <1>7 DEF OInv, RefcountFits
<1>32. RecIndicesUnique'
  <2>1. \A g : \A r \in RecsOf(g) : mem'[r] = mem[r]  BY <1>20 DEF RecsOf, Recs
  <2>2. QED  BY <2>1, <1>20, <1>26 DEF OInv, RecIndicesUnique
<1>33. GptAgrees'  BY <1>1, <1>2, <1>7 DEF OInv, GptAgrees
<1>34. QED
  BY <1>15, <1>16, <1>17, <1>18, <1>19, <1>25, <1>30, <1>31, <1>32, <1>33, ObjectStep

\* A table below the starting level is freed, and its parent's reference given back.
LEMMA RttDestroyDoneKeeps ==
  ASSUME OInv, LInv', NEW q \in PE, NEW rtt \in Granules, RttDestroyDone(q, rtt)
  PROVE  OInv'
<1>0. PICK root : root = pe[q].root  OBVIOUS
<1> DEFINE w == [mem[root] EXCEPT !.tables = @ \ {rtt}]
<1>1. /\ pe[q] \in PeType /\ pe \in [PE -> PeType] /\ DOMAIN pe = PE /\ CommandOk(q)
      /\ pe[q].op = "rtt_destroy" /\ pe[q].step = "at_parent"
      /\ rtt \in mem[root].tables /\ lk[rtt] = NoPE /\ ref[rtt] = 0
      /\ ref' = [ref EXCEPT ![root] = ref[root] - 1]
      /\ mem' = [mem EXCEPT ![root].tables = @ \ {rtt}, ![rtt] = Zero]
      /\ gs' = [gs EXCEPT ![rtt] = "DELEGATED"] /\ lk' = [lk EXCEPT ![root] = NoPE]
      /\ pe' = [pe EXCEPT ![q] = Idle] /\ UNCHANGED gpt /\ lk \in [Granules -> PE \cup {NoPE}]
      /\ gs \in [Granules -> GranuleStates] /\ ref \in [Granules -> Nat] /\ DOMAIN mem = Granules
  BY <1>0, OfPe DEF RttDestroyDone, At, OInv, Types, Return, Unlocked
<1>2. root \in Granules /\ lk[root] = q /\ gs[root] = "RTT" /\ root # rtt
  BY <1>0, <1>1, PEAssumption DEF CommandOk, WalkOk, Holds
<1>3. \A g \in Granules : gs[g] = "RTT" => mem[g].tables \subseteq Granules /\ \A t \in mem[g].tables : gs[t] = "RTT"
  BY OwnedAreGranules DEF OInv, Owned, TablesOk
<1>4. gs[rtt] = "RTT"  BY <1>1, <1>2, <1>3
<1>5. mem[root] \in RttContent  BY <1>2 DEF OInv, Contents
<1>6. w \in RttContent  BY <1>5 DEF RttContent
<1>7. w.tables = mem[root].tables \ {rtt}  BY <1>5 DEF RttContent
<1>8. mem'[root] = w  BY <1>1, <1>2
<1> HIDE DEF w
<1>9. /\ gs'[rtt] = "DELEGATED" /\ mem'[rtt] = Zero /\ lk'[rtt] = NoPE /\ ref'[rtt] = 0
      /\ gs'[root] = "RTT" /\ lk'[root] = NoPE /\ ref'[root] = ref[root] - 1
      /\ \A g \in Granules : g # rtt => gs'[g] = gs[g]
      /\ \A g \in Granules : g # root => ref'[g] = ref[g] /\ lk'[g] = lk[g]
      /\ \A g \in Granules : g \notin {root, rtt} => mem'[g] = mem[g]
  BY <1>1, <1>2
<1>10. pe'[q] = Idle /\ \A p \in PE : p # q => pe'[p] = pe[p]  BY <1>1
<1>11. /\ \A g \in Granules : lk[g] \notin {q, NoPE} => lk'[g] = lk[g]
       /\ \A g \in Granules : lk'[g] \in {lk[g], q, NoPE}
  BY <1>2, <1>9
<1>12. Quiet(pe[q]) /\ Quiet(Idle)
  BY <1>1, IdleQuiet DEF Quiet, RootsFreed, AuxFreed, FillsRoots
<1>13. \A g \in Granules : /\ RootsFreed(Holder(g))' = RootsFreed(Holder(g))
                           /\ AuxFreed(Holder(g))' = AuxFreed(Holder(g))
                           /\ BeingRoot(g)' = BeingRoot(g)
  BY <1>10, <1>11, <1>12, QuietHolders
<1>14. ~BeingRoot(rtt)  BY <1>1, IdleQuiet DEF BeingRoot, Holder
<1>15. \A g \in Granules : gs[g] # "RTT" => gs'[g] = gs[g] /\ mem'[g] = mem[g]
  BY <1>2, <1>4, <1>9
<1>16. Types'
  <2>1. pe' \in [PE -> PeType]  BY <1>1, IdleTyped
  <2>2. gs' \in [Granules -> GranuleStates]  BY <1>1 DEF GranuleStates
  <2>3. DOMAIN mem' = Granules /\ mem' = [g \in Granules |-> mem'[g]]
    <3>1. mem = [g \in Granules |-> mem[g]]  BY DEF OInv, Types
    <3>2. QED  BY <3>1, <1>1
  <2>4. ref' \in [Granules -> Nat]
    <3>1. mem[root].tables # {}  BY <1>1
    <3>2. ref[root] # 0  BY <3>1, <1>2, NoReferrers
    <3>3. ref[root] - 1 \in Nat  BY <3>2, <1>1, <1>2
    <3>4. QED  BY <3>3, <1>1, <1>2
  <2>5. QED  BY <2>1, <2>2, <2>3, <2>4, <1>1 DEF OInv, Types
<1>17. Contents'
  <2> SUFFICES ASSUME NEW g \in Granules
               PROVE  (/\ gs[g] = "NS" => mem[g] = HostOwned
                       /\ gs[g] = "DELEGATED" => mem[g] = IF BeingRoot(g) THEN RttMem({}) ELSE Zero
                       /\ gs[g] = "RD" => /\ mem[g] \in RdContent
                                          /\ mem[g].g_rtt + mem[g].num_root_rtts - 1 <= NumGranules
                       /\ gs[g] = "REC" => mem[g] \in RecContent /\ \A k \in 1..mem[g].num_aux : mem[g].g_aux[k] \in Granules
                       /\ gs[g] = "RTT" => mem[g] \in RttContent
                       /\ gs[g] = "REC_AUX" => mem[g] \in {AuxMem, Zero})'
    BY DEF Contents
  <2>1. CASE g = root  BY <2>1, <1>6, <1>8, <1>9
  <2>2. CASE g = rtt  BY <2>2, <1>9, <1>13, <1>14
  <2>3. CASE g \notin {root, rtt}  BY <2>3, <1>9, <1>13 DEF OInv, Contents
  <2>4. QED  BY <2>1, <2>2, <2>3
<1>18. Frame(q)
  <2>1. \A g \in Granules : lk[g] \notin {q, NoPE} => g \notin {root, rtt}  BY <1>1, <1>2
  <2>2. QED  BY <2>1, <1>9, <1>10 DEF Frame
<1>19. CommandOk(q)' /\ ConvertedAux(Idle) = {}  BY <1>10, IdleOk
<1>20. \A d \in Rds : LiveRoots(d) \subseteq Granules /\ rtt \notin LiveRoots(d)
  BY <1>1, <1>2, OwnedAreGranules DEF OInv, Owned, RootsNoTables
<1>21. ASSUME NEW p \in PE, p # q PROVE Undisturbed(p)
  <2>1. Walks(pe[p]) => Pinned(pe[p].rd)'
    <3>1. \A g \in Granules : Pinned(g) => Pinned(g)'  BY <1>10, <1>11, IdleTyped, PinsKept
    <3>2. pe'[p].rd = pe[p].rd  BY <1>10, <1>21
    <3>3. QED  BY <3>1, <3>2, WalkersRd
  <2>2. \A k \in ConvertedAux(pe[p]) : gs'[pe[p].aux[k]] = "REC_AUX" /\ mem'[pe[p].aux[k]] = Zero
    BY <1>15, Reliances
  <2>3. pe[p].op = "realm_destroy" =>
          \A g \in Counted(pe[p]) : lk'[g] = NoPE /\ gs'[g] = "RTT" /\ (ref[g] = 0 => ref'[g] = 0)
    <3>1. SUFFICES ASSUME pe[p].op = "realm_destroy", NEW g \in Counted(pe[p])
                   PROVE  lk'[g] = NoPE /\ gs'[g] = "RTT" /\ (ref[g] = 0 => ref'[g] = 0)
      OBVIOUS
    <3>2. g \in Granules /\ lk[g] = NoPE /\ gs[g] = "RTT"  BY <3>1, Reliances
    <3>3. g # root  BY <3>2, <1>2, PEAssumption
    <3>4. g # rtt  BY <3>1, <1>20, CountedAreRoots
    <3>5. QED  BY <3>2, <3>3, <3>4, <1>9
  <2>4. QED  BY <2>1, <2>2, <2>3, <1>15, Reliances DEF Undisturbed
<1>22. /\ Rds' = Rds /\ Recs' = Recs
       /\ \A g \in Rds : LiveRoots(g)' = LiveRoots(g) /\ mem'[g] = mem[g]
       /\ \A r \in Recs : LiveAux(r)' = LiveAux(r) /\ mem'[r] = mem[r]
  <2>1. Rds' = Rds /\ Recs' = Recs  BY <1>4, <1>9 DEF Rds, Recs
  <2>2. \A g \in Rds : mem'[g] = mem[g]  BY <1>15 DEF Rds
  <2>3. \A r \in Recs : mem'[r] = mem[r]  BY <1>15 DEF Recs
  <2>4. \A g \in Rds : LiveRoots(g)' = LiveRoots(g)  BY <2>2, <1>13 DEF LiveRoots, Rds
  <2>5. \A r \in Recs : LiveAux(r)' = LiveAux(r)  BY <2>3, <1>13 DEF LiveAux, Recs
  <2>6. QED  BY <2>1, <2>2, <2>3, <2>4, <2>5
<1>23. Owned'
  <2>1. RootsOk'
    <3>1. RootsOk  BY DEF OInv, Owned
    <3>2. \A g \in Granules : g # rtt /\ gs[g] = "RTT" => gs'[g] = "RTT"  BY <1>9
    <3>3. QED  BY <3>1, <3>2, <1>13, <1>20, <1>22 DEF RootsOk
  <2>2. AuxOk'
    <3>1. /\ AuxOk /\ \A r \in Recs : \A k \in LiveAux(r) : mem[r].g_aux[k] \in Granules
      BY OwnedAreGranules DEF OInv, Owned
    <3>2. QED  BY <3>1, <1>15, <1>22 DEF AuxOk
  <2>3. RecsOk'
    <3>1. /\ RecsOk /\ \A r \in Recs : mem[r].g_rd \in Granules  BY OwnedAreGranules DEF OInv, Owned
    <3>2. QED  BY <3>1, <1>15, <1>22 DEF RecsOk
  <2>4. ASSUME NEW x \in Granules, gs'[x] = "RTT", NEW t \in mem'[x].tables
        PROVE  gs[x] = "RTT" /\ t \in mem[x].tables /\ gs'[t] = "RTT"
    <3>1. x # rtt /\ gs[x] = "RTT"  BY <2>4, <1>9
    <3>2. t \in mem[x].tables /\ (x = root => t # rtt)
      <4>1. CASE x = root  BY <4>1, <2>4, <1>7, <1>8
      <4>2. CASE x # root  BY <4>2, <3>1, <2>4, <1>9
      <4>3. QED  BY <4>1, <4>2
    <3>3. t # rtt
      <4>1. TablesDisjoint  BY DEF OInv, Owned
      <4>2. QED  BY <4>1, <3>1, <3>2, <1>1, <1>2 DEF TablesDisjoint
    <3>4. t \in Granules /\ gs[t] = "RTT"  BY <3>1, <3>2, <1>3
    <3>5. QED  BY <3>1, <3>2, <3>3, <3>4, <1>9
  <2>5. ConvertedDisjoint'  BY <1>10, <1>19, ClaimsShrink
  <2>6. QED  BY <2>1, <2>2, <2>3, <2>4, <2>5, <1>22, OwnedShrinks
<1>24. \A g : RecsOf(g)' = RecsOf(g)
  <2>1. \A g \in Granules : gs'[g] = "REC" <=> gs[g] = "REC"  BY <1>4, <1>9
  <2>2. QED  BY <2>1, <1>15 DEF RecsOf
<1>25. SameRefs(q)  BY <1>1, <1>10, IdleTyped DEF SameRefs, At
<1>26. \A g : Putting(g)' = Putting(g) /\ Running(g)' = Running(g)  BY <1>10, <1>25, PeSetsKept
<1>27. /\ ref[root] = Cardinality(mem[root].tables) /\ Cardinality(mem[root].tables) \in Nat
       /\ Cardinality(mem'[root].tables) = Cardinality(mem[root].tables) - 1
  <2>1. mem[root].tables \in SUBSET Granules  BY <1>2, <1>3
  <2>2. IsFiniteSet(mem[root].tables)  BY <2>1, Finite
  <2>3. ref[root] = Cardinality(mem[root].tables)  BY <1>2, RefExactAt
  <2>4. /\ Cardinality(mem[root].tables) \in Nat
        /\ Cardinality(mem[root].tables \ {rtt}) = Cardinality(mem[root].tables) - 1
    BY <2>2, <1>1, CountOne
  <2>5. QED  BY <2>3, <2>4, <1>7, <1>8
<1>28. ASSUME NEW g \in Granules PROVE RefExact(g)'
  <2>1. CASE g = root
    <3>1. ref'[root] = Cardinality(mem'[root].tables)  BY <1>9, <1>27
    <3>2. QED  BY <3>1, <2>1, <1>9 DEF RefExact
  <2>2. CASE g = rtt  BY <2>2, <1>9 DEF RefExact
  <2>3. CASE g \notin {root, rtt}  BY <2>3, <1>9, <1>24, <1>26, RefKept
  <2>4. QED  BY <2>1, <2>2, <2>3
<1>29. RefcountFits'
  <2>1. ref[root] - 1 <= RefcountMax
    <3>1. ref[root] <= RefcountMax /\ ref[root] \in Nat  BY <1>1, <1>2 DEF OInv, RefcountFits
    <3>2. QED  BY <3>1, SizesAssumption
  <2>2. QED  BY <2>1, <1>9 DEF OInv, RefcountFits
<1>30. RecIndicesUnique'
  <2>1. \A g : \A r \in RecsOf(g) : mem'[r] = mem[r]  BY <1>22 DEF RecsOf, Recs
  <2>2. QED  BY <2>1, <1>22, <1>24 DEF OInv, RecIndicesUnique
<1>31. GptAgrees'  BY <1>1, <1>4, <1>9 DEF OInv, GptAgrees
<1>32. QED
  BY <1>16, <1>17, <1>18, <1>19, <1>21, <1>23, <1>28, <1>29, <1>30, <1>31, ObjectStep

-----------------------------------------------------------------------------
(***************************************************************************)
(* What holds of the object life cycle in every behaviour, for every       *)
(* number of PEs and granules and every set of command arguments.          *)
(***************************************************************************)

\* Every command keeps the objects consistent.
LEMMA CommandKeeps ==
  ASSUME OInv, LInv', NEW q \in PE, Command(q)
  PROVE  OInv'
<1>1. ASSUME NEW g \in Granules, smc_granule_delegate(q, g) \/ smc_granule_undelegate(q, g)
      PROVE  OInv'
  BY <1>1, DelegateKeeps, Zenon
<1>2. CASE smc_realm_create(q)
  BY <1>2, RealmCreateReserveKeeps, RealmCreateLockKeeps, RealmCreateFailedKeeps,
     RealmCreateInitKeeps, RealmCreateUnlockRttKeeps, Zenon DEF smc_realm_create
<1>3. ASSUME NEW rd \in Granules, smc_realm_activate(q, rd) PROVE OInv'
  BY <1>3, RealmActivateKeeps, Zenon
<1>4. CASE smc_realm_destroy(q)
  BY <1>4, RealmDestroyLockKeeps, RealmDestroyCountKeeps, RealmDestroyFreeVmidKeeps,
     RealmDestroyFreeRttKeeps, RealmDestroyFreeRdKeeps, Zenon DEF smc_realm_destroy
<1>5. CASE smc_rec_create(q)
  <2>1. CASE RecCreateAux(q)  BY <2>1, RecCreateAuxKeeps, RecCreateAuxFails, Zenon
  <2>2. CASE RecCreateFreeAux(q)  BY <2>2, RecCreateFreeAuxReturns, RecCreateFreeAuxKeeps, Zenon
  <2>3. CASE pe[q].op = "rec_create" /\ find_lock_two_granules(q)
    <3>1. pe[q].op \in {"rec_create", "rtt_create"}  BY <2>3
    <3>2. QED  BY <2>3, <3>1, FindLockKeepsObjects, Zenon
  <2>4. QED
    BY <1>5, <2>1, <2>2, <2>3, RecCreateStartKeeps, RecCreateRefusedKeeps, RecCreateDoneKeeps, Zenon
    DEF smc_rec_create
<1>6. CASE smc_rec_destroy(q)
  BY <1>6, RecDestroyLockKeeps, RecDestroyFreeAuxKeeps, RecDestroyFreeKeeps, RecDestroyPutKeeps, Zenon
  DEF smc_rec_destroy
<1>7. CASE smc_rec_enter(q)
  BY <1>7, RecEnterGetKeeps, RecEnterStepsKeep, RecRunCpuOffKeeps, RecRunSystemOffKeeps,
     RecEnterPutKeeps, Zenon DEF smc_rec_enter
<1>8. CASE smc_rtt_create(q)
  <2>1. CASE pe[q].op = "rtt_create" /\ find_lock_two_granules(q)
    <3>1. pe[q].op \in {"rec_create", "rtt_create"}  BY <2>1
    <3>2. QED  BY <2>1, <3>1, FindLockKeepsObjects, Zenon
  <2>2. CASE pe[q].op = "rtt_create" /\ WalkConcatenated(q)
    <3>1. pe[q].op \in {"rtt_create", "rtt_destroy"}  BY <2>2
    <3>2. QED  BY <2>2, <3>1, WalkConcatenatedKeeps, Zenon
  <2>3. QED
    BY <1>8, <2>1, <2>2, RttCreateStartKeeps, RttCreateReturns, RttCreateLockRootKeeps,
       RttCreateDoneKeeps, Zenon DEF smc_rtt_create
<1>9. CASE smc_rtt_destroy(q)
  <2>1. CASE pe[q].op = "rtt_destroy" /\ WalkConcatenated(q)
    <3>1. pe[q].op \in {"rtt_create", "rtt_destroy"}  BY <2>1
    <3>2. QED  BY <2>1, <3>1, WalkConcatenatedKeeps, Zenon
  <2>2. ASSUME NEW rd \in Granules, NEW k \in 0..(NumGranules - 1), RttDestroyLockRd(q, rd, k)
        PROVE  OInv'
    <3>1. k \in Nat  BY SizesAssumption
    <3>2. QED  BY <3>1, <2>2, RttDestroyLockRdKeeps, Zenon
  <2>3. QED
    BY <1>9, <2>1, <2>2, RttDestroyLockRootKeeps, RttDestroyNoTableKeeps, RttDestroyDoneKeeps, Zenon
    DEF smc_rtt_destroy
<1>10. QED  BY <1>1, <1>2, <1>3, <1>4, <1>5, <1>6, <1>7, <1>8, <1>9, Zenon DEF Command

\* Every step of the specification keeps the objects consistent.
LEMMA OInvInductive ==
  ASSUME OInv, [Next]_vars
  PROVE  OInv'
<1>1. LInv'  BY LInvInductive DEF OInv
<1>2. CASE UNCHANGED vars
  <2>1. UNCHANGED <<gs, ref, lk, mem, gpt, pe>>  BY <1>2 DEF vars
  <2>2. GptAgrees' /\ gpt' \in [Granules -> {"ns", "secure", "realm"}]
    BY <2>1 DEF OInv, GptAgrees, Types
  <2>3. QED  BY <1>1, <2>1, <2>2, SameObjectsKeep
<1>3. CASE El3  BY <1>1, <1>3, El3Keeps
<1>4. ASSUME NEW q \in PE, Command(q) PROVE OInv'  BY <1>1, <1>4, CommandKeeps
<1>5. QED  BY <1>2, <1>3, <1>4 DEF Next

\* The RMM starts with no objects.
LEMMA OInvInitially ==
  ASSUME Init
  PROVE  OInv
<1>1. /\ gs = [g \in Granules |-> IF g \in InitiallyDelegated THEN "DELEGATED" ELSE "NS"]
      /\ ref = [g \in Granules |-> 0]
      /\ lk = [g \in Granules |-> NoPE]
      /\ mem = [g \in Granules |-> IF g \in InitiallyDelegated THEN Zero ELSE HostOwned]
      /\ gpt = [g \in Granules |-> IF g \in InitiallyDelegated THEN "realm" ELSE "ns"]
      /\ pe = [p \in PE |-> Idle]
  BY DEF Init
<1>2. LInv
  <2>1. LocalsOk(Idle)  BY DEF LocalsOk, CreateOk, Idle, Fields
  <2>2. QED  BY <1>1, <2>1, PEAssumption DEF LInv, LocksAccounted
<1>3. \A g \in Granules : gs[g] \in {"DELEGATED", "NS"} /\ ref[g] = 0  BY <1>1
<1>4. \A g \in Granules : ~BeingRoot(g)  BY <1>1, IdleQuiet DEF BeingRoot, Holder
<1>5. Types
  <2>1. pe \in [PE -> PeType]  BY <1>1, IdleTyped
  <2>2. QED  BY <1>1, <2>1 DEF Types, GranuleStates
<1>6. Contents  BY <1>1, <1>4 DEF Contents
<1>7. CommandsOk
  BY <1>1, IdleTyped
  DEF CommandsOk, CommandOk, RealmCreateOk, RealmDestroyOk, TwoLocksOk, RecCreateOk, RecDestroyOk,
      RecEnterOk, WalkOk
<1>8. Rds = {} /\ Recs = {} /\ \A g \in Granules : gs[g] # "RTT"  BY <1>3 DEF Rds, Recs
<1>9. ConvertedDisjoint  BY <1>1, IdleTyped DEF ConvertedDisjoint, ConvertedAux
<1>10. Owned
  BY <1>8, <1>9
  DEF Owned, RootsOk, TablesOk, AuxOk, RootsDisjoint, RootsNoTables, TablesDisjoint, RecAuxDisjoint, RecsOk
<1>11. RefcountsExact  BY <1>3 DEF RefcountsExact
<1>12. RefcountFits  BY <1>3, SizesAssumption DEF RefcountFits
<1>13. RecIndicesUnique  BY <1>8 DEF RecIndicesUnique
<1>14. GptAgrees  BY <1>1 DEF GptAgrees
<1>15. QED  BY <1>2, <1>5, <1>6, <1>7, <1>10, <1>11, <1>12, <1>13, <1>14 DEF OInv

-----------------------------------------------------------------------------
(***************************************************************************)
(* What the invariant says of a state.                                     *)
(***************************************************************************)
LEMMA ContentsMatch ==
  ASSUME OInv
  PROVE  ContentMatchesState
<1> SUFFICES ASSUME NEW g \in Granules, lk[g] = NoPE
             PROVE  CASE gs[g] = "DELEGATED" -> mem[g] = Zero
                      [] gs[g] = "RD"        -> mem[g].kind = "rd"
                      [] gs[g] = "REC"       -> mem[g].kind = "rec"
                      [] gs[g] = "RTT"       -> mem[g].kind = "rtt"
                      [] gs[g] = "REC_AUX"   -> mem[g] \in {AuxMem, Zero}
                      [] gs[g] = "NS"        -> mem[g] = HostOwned
  BY DEF ContentMatchesState, Unlocked
<1>1. ~BeingRoot(g)  BY IdleQuiet DEF BeingRoot, Holder
<1>2. gs[g] \in GranuleStates  BY DEF OInv, Types
<1>3. /\ gs[g] = "DELEGATED" => mem[g] = Zero
      /\ gs[g] = "RD" => mem[g] \in RdContent
      /\ gs[g] = "REC" => mem[g] \in RecContent
      /\ gs[g] = "RTT" => mem[g] \in RttContent
      /\ gs[g] = "REC_AUX" => mem[g] \in {AuxMem, Zero}
      /\ gs[g] = "NS" => mem[g] = HostOwned
  BY <1>1 DEF OInv, Contents
<1>4. /\ mem[g] \in RdContent => mem[g].kind = "rd"
      /\ mem[g] \in RecContent => mem[g].kind = "rec"
      /\ mem[g] \in RttContent => mem[g].kind = "rtt"
  BY DEF RdContent, RecContent, RttContent
<1>5. QED  BY <1>2, <1>3, <1>4 DEF GranuleStates

\* A REC somebody runs is not locked, so everything it owns is there.
LEMMA RunningIntact ==
  ASSUME OInv
  PROVE  RunningRecIntact
<1> SUFFICES ASSUME NEW p \in PE, pe[p].op = "rec_enter"
             PROVE  /\ gs[pe[p].new] = "REC"
                    /\ mem[pe[p].new].kind = "rec"
                    /\ gs[mem[pe[p].new].g_rd] = "RD" /\ mem[mem[pe[p].new].g_rd].kind = "rd"
                    /\ \A g \in AuxOf(mem[pe[p].new].g_aux, mem[pe[p].new].num_aux) :
                         gs[g] = "REC_AUX" /\ mem[g] = AuxMem
  BY DEF RunningRecIntact
<1>1. PICK r : r = pe[p].new  OBVIOUS
<1>2. r \in Granules /\ gs[r] = "REC" /\ r \in Recs  BY <1>1, Reliances DEF Recs
<1>3. lk[r] = NoPE
  <2>1. p \in Running(r)  BY <1>1 DEF Running
  <2>2. QED  BY <2>1, <1>2, NoReferrers, RecHolder
<1>4. mem[r] \in RecContent  BY <1>2 DEF OInv, Contents
<1>5. LiveAux(r) = 1..mem[r].num_aux  BY <1>3, IdleQuiet DEF LiveAux, Holder
<1>6. \A k \in 1..mem[r].num_aux : gs[mem[r].g_aux[k]] = "REC_AUX" /\ mem[mem[r].g_aux[k]] = AuxMem
  BY <1>2, <1>5 DEF OInv, Owned, AuxOk
<1>7. mem[r].g_rd \in Granules /\ gs[mem[r].g_rd] = "RD"
  BY <1>2, OwnedAreGranules DEF OInv, Owned, RecsOk
<1>8. mem[mem[r].g_rd] \in RdContent  BY <1>7 DEF OInv, Contents
<1>9. mem[r].kind = "rec" /\ mem[mem[r].g_rd].kind = "rd"  BY <1>4, <1>8 DEF RecContent, RdContent
<1>10. QED  BY <1>1, <1>2, <1>6, <1>7, <1>9 DEF AuxOf


-----------------------------------------------------------------------------
(***************************************************************************)
(* A PE that has returned from a command has forgotten its locals.         *)
(***************************************************************************)
IdleForgets == \A p \in PE : pe[p].op = "none" => pe[p] = Idle

\* How the locals of a PE change: a command starts, moves on or returns.
Advances(q, op) ==
  /\ \A p \in PE : p # q => pe'[p] = pe[p]
  /\ pe[q].op \in {"none", op}
  /\ pe'[q] = Idle \/ pe'[q].op = op

LEMMA MovesAdvance ==
  ASSUME LInv, NEW q \in PE
  PROVE  /\ \A s : Goto(q, s) => Advances(q, pe[q].op)
         /\ Return(q) => Advances(q, pe[q].op)
         /\ find_lock_two_granules(q) \/ WalkConcatenated(q) => Advances(q, pe[q].op)
<1>1. DOMAIN pe = PE /\ DOMAIN pe[q] = Fields  BY DEF LInv, LocalsOk
<1>2. (\A s : Goto(q, s) => Advances(q, pe[q].op)) /\ (Return(q) => Advances(q, pe[q].op))
  BY <1>1 DEF Goto, Return, Advances, Fields
<1>3. find_lock_two_granules(q) => Advances(q, pe[q].op)
  BY <1>2 DEF find_lock_two_granules, FindLockDuplicate, FindLockFirst, FindLockSecond
<1>4. WalkConcatenated(q) => Advances(q, pe[q].op)
  BY <1>1, <1>2 DEF WalkConcatenated, Advances, Fields
<1>5. QED  BY <1>2, <1>3, <1>4

LEMMA RealmsAdvance ==
  ASSUME LInv, NEW q \in PE
  PROVE  /\ smc_realm_create(q) => Advances(q, "realm_create")
         /\ smc_realm_destroy(q) => Advances(q, "realm_destroy")
<1>1. DOMAIN pe = PE /\ DOMAIN pe[q] = Fields  BY DEF LInv, LocalsOk
<1>2. ASSUME smc_realm_create(q) PROVE Advances(q, "realm_create")
  <2>1. CASE \E rp \in RealmParams : RealmCreateReserve(q, rp)
    BY <1>1, <2>1 DEF RealmCreateReserve, Advances, Idle, IsIdle
  <2>2. CASE RealmCreateLock(q)  BY <1>1, <2>2, MovesAdvance DEF RealmCreateLock, At, Advances, Fields
  <2>3. CASE RealmCreateUnlockRtt(q)  BY <1>1, <2>3, MovesAdvance DEF RealmCreateUnlockRtt, At, Advances, Fields
  <2>4. QED
    BY <1>2, <2>1, <2>2, <2>3, MovesAdvance DEF smc_realm_create, RealmCreateFailed, RealmCreateInit, At
<1>3. ASSUME smc_realm_destroy(q) PROVE Advances(q, "realm_destroy")
  <2>1. CASE \E rd \in Granules : RealmDestroyLock(q, rd)
    BY <1>1, <2>1 DEF RealmDestroyLock, Advances, Idle, IsIdle
  <2>2. CASE RealmDestroyCount(q)  BY <1>1, <2>2, MovesAdvance DEF RealmDestroyCount, At, Advances, Fields
  <2>3. CASE RealmDestroyFreeRtt(q)  BY <1>1, <2>3 DEF RealmDestroyFreeRtt, At, Advances, Fields
  <2>4. QED
    BY <1>3, <2>1, <2>2, <2>3, MovesAdvance DEF smc_realm_destroy, RealmDestroyFreeVmid, RealmDestroyFreeRd, At
<1>4. QED  BY <1>2, <1>3

LEMMA RecsAdvance ==
  ASSUME LInv, NEW q \in PE
  PROVE  /\ smc_rec_create(q) => Advances(q, "rec_create")
         /\ smc_rec_destroy(q) => Advances(q, "rec_destroy")
         /\ smc_rec_enter(q) => Advances(q, "rec_enter")
<1>1. DOMAIN pe = PE /\ DOMAIN pe[q] = Fields  BY DEF LInv, LocalsOk
<1>2. ASSUME smc_rec_create(q) PROVE Advances(q, "rec_create")
  <2>1. CASE \E rp \in RecParams : RecCreateStart(q, rp)
    BY <1>1, <2>1 DEF RecCreateStart, Advances, Idle, IsIdle
  <2>2. CASE RecCreateAux(q)  BY <1>1, <2>2 DEF RecCreateAux, At, Advances, Fields
  <2>3. CASE RecCreateFreeAux(q)  BY <1>1, <2>3, MovesAdvance DEF RecCreateFreeAux, At, Advances, Fields
  <2>4. QED
    BY <1>2, <2>1, <2>2, <2>3, MovesAdvance DEF smc_rec_create, RecCreateRefused, RecCreateDone, At
<1>3. ASSUME smc_rec_destroy(q) PROVE Advances(q, "rec_destroy")
  <2>1. CASE \E rec \in Granules : RecDestroyLock(q, rec)
    BY <1>1, <2>1 DEF RecDestroyLock, Advances, Idle, IsIdle
  <2>2. CASE RecDestroyFreeAux(q)  BY <1>1, <2>2 DEF RecDestroyFreeAux, At, Advances, Fields
  <2>3. QED  BY <1>3, <2>1, <2>2, MovesAdvance DEF smc_rec_destroy, RecDestroyFree, RecDestroyPut, At
<1>4. ASSUME smc_rec_enter(q) PROVE Advances(q, "rec_enter")
  <2>1. CASE \E rec \in Granules : RecEnterGet(q, rec)
    BY <1>1, <2>1 DEF RecEnterGet, Advances, Idle, IsIdle
  <2>2. QED
    BY <1>4, <2>1, MovesAdvance
    DEF smc_rec_enter, RecEnterCheck, RecRunCpuOff, RecRunSystemOff, RecRunExit, RecEnterPut, At
<1>5. QED  BY <1>2, <1>3, <1>4

LEMMA TablesAdvance ==
  ASSUME LInv, NEW q \in PE
  PROVE  /\ smc_rtt_create(q) => Advances(q, "rtt_create")
         /\ smc_rtt_destroy(q) => Advances(q, "rtt_destroy")
<1>1. DOMAIN pe = PE /\ DOMAIN pe[q] = Fields  BY DEF LInv, LocalsOk
<1>2. ASSUME smc_rtt_create(q) PROVE Advances(q, "rtt_create")
  <2>1. CASE \E tp \in RttParams : RttCreateStart(q, tp)
    BY <1>1, <2>1 DEF RttCreateStart, Advances, Idle, IsIdle
  <2>2. CASE RttCreateLockRoot(q)  BY <1>1, <2>2 DEF RttCreateLockRoot, At, Advances, Fields
  <2>3. QED
    BY <1>2, <2>1, <2>2, MovesAdvance
    DEF smc_rtt_create, RttCreateFailed, RttCreateBadAddress, RttCreateDone, RttCreateRefused, At
<1>3. ASSUME smc_rtt_destroy(q) PROVE Advances(q, "rtt_destroy")
  <2>1. CASE \E rd \in Granules, k \in 0..(NumGranules - 1) : RttDestroyLockRd(q, rd, k)
    BY <1>1, <2>1 DEF RttDestroyLockRd, Advances, Idle, IsIdle
  <2>2. QED
    BY <1>3, <2>1, MovesAdvance DEF smc_rtt_destroy, RttDestroyLockRoot, RttDestroyNoTable, RttDestroyDone, At
<1>4. QED  BY <1>2, <1>3

\* Three commands are a single step.
LEMMA SingleSteps ==
  ASSUME NEW q \in PE, NEW g \in Granules,
         smc_granule_delegate(q, g) \/ smc_granule_undelegate(q, g) \/ smc_realm_activate(q, g)
  PROVE  pe' = pe
BY DEF smc_granule_delegate, smc_granule_undelegate, smc_realm_activate

LEMMA IdleForgetsInductive ==
  ASSUME LInv, IdleForgets, [Next]_vars
  PROVE  IdleForgets'
<1>1. CASE pe' = pe  BY <1>1 DEF IdleForgets
<1>2. ASSUME NEW q \in PE, NEW op, op # "none", Advances(q, op) PROVE IdleForgets'
  BY <1>2 DEF IdleForgets, Advances
<1>3. ASSUME NEW q \in PE, Command(q) PROVE IdleForgets'
  BY <1>1, <1>2, <1>3, RealmsAdvance, RecsAdvance, TablesAdvance, SingleSteps DEF Command
<1>4. El3 => pe' = pe  BY DEF El3, SpmTakesGranule, SpmReturnsGranule
<1>5. QED  BY <1>1, <1>3, <1>4 DEF Next, vars

\* Whatever a command finds through an object is in the state the object says.
LEMMA LockAssertsHold ==
  ASSUME OInv, IdleForgets
  PROVE  GranuleLockAsserts
<1> SUFFICES ASSUME NEW p \in PE
             PROVE  LET root == pe[p].root + pe[p].i IN
                    /\ (At(p, "realm_destroy", "count") \/ At(p, "realm_destroy", "free_rtts")) =>
                         (Unlocked(root) => gs[root] = "RTT")
                    /\ At(p, "rtt_destroy", "lock_root") =>
                         (Unlocked(pe[p].root) => gs[pe[p].root] = "RTT")
                    /\ At(p, "rtt_create", "locked") =>
                         LET g == mem[pe[p].rd].g_rtt IN Unlocked(g) => gs[g] = "RTT"
                    /\ (pe[p].step = "walk" /\ pe[p].i # 0) => (Unlocked(root) => gs[root] = "RTT")
                    /\ At(p, "rec_destroy", "aux") =>
                         LET g == pe[p].aux[pe[p].i + 1] IN Unlocked(g) => gs[g] = "REC_AUX"
                    /\ (At(p, "rec_create", "failed") /\ pe[p].i < pe[p].naux) =>
                         LET g == pe[p].aux[pe[p].i + 1] IN Unlocked(g) => gs[g] = "REC_AUX"
  BY DEF GranuleLockAsserts
<1>1. /\ pe[p] \in PeType /\ CommandOk(p) /\ pe[p].i \in Nat /\ pe[p].root \in Nat /\ pe[p].naux \in Nat
      /\ pe[p].op \in Ops
  BY OfPe, LocalsTyped DEF PeType
<1>0. ASSUME NEW d \in Granules, gs[d] = "RD"
      PROVE  0 < mem[d].num_root_rtts /\ mem[d].g_rtt + 0 = mem[d].g_rtt
  <2>1. mem[d] \in RdContent  BY <1>0 DEF OInv, Contents
  <2>2. mem[d].num_root_rtts \in Nat \ {0} /\ mem[d].g_rtt \in Nat  BY <2>1, GranulesAre DEF RdContent
  <2>3. QED  BY <2>2
<1>2. ASSUME NEW d \in Rds, NEW g \in LiveRoots(d), lk[g] = NoPE PROVE gs[g] = "RTT"
  <2>1. g \in Granules  BY <1>2, OwnedAreGranules
  <2>2. ~BeingRoot(g)  BY <1>2, IdleQuiet DEF BeingRoot, Holder
  <2>3. QED  BY <1>2, <2>1, <2>2 DEF OInv, Owned, RootsOk
<1>3. ASSUME NEW d \in Granules, gs[d] = "RD", NEW n \in Nat, n < mem[d].num_root_rtts,
             RootsFreed(Holder(d)) \in Nat, RootsFreed(Holder(d)) <= n,
             lk[mem[d].g_rtt + n] = NoPE
      PROVE  gs[mem[d].g_rtt + n] = "RTT"
  <2>1. d \in Rds /\ mem[d] \in RdContent  BY <1>3 DEF OInv, Contents, Rds
  <2>2. mem[d].g_rtt \in Nat /\ mem[d].num_root_rtts \in Nat  BY <2>1, GranulesAre DEF RdContent
  <2>3. mem[d].g_rtt + n \in LiveRoots(d)  BY <1>3, <2>2 DEF LiveRoots
  <2>4. QED  BY <2>1, <2>3, <1>2, <1>3
<1>4. ASSUME NEW d \in Granules, lk[d] = p, pe[p].op \in {"rtt_create", "rtt_destroy"}
      PROVE  RootsFreed(Holder(d)) = 0
  <2>1. Holder(d) = pe[p]  BY <1>4, HeldState
  <2>2. QED  BY <2>1, <1>4 DEF RootsFreed
<1>5. CASE pe[p].op = "realm_destroy"
  <2>1. RealmDestroyOk(p)  BY <1>1 DEF CommandOk
  <2>2. PICK d : d = pe[p].rd  OBVIOUS
  <2>3. /\ d \in Granules /\ lk[d] = p /\ gs[d] = "RD" /\ pe[p].root = mem[d].g_rtt
        /\ pe[p].num = mem[d].num_root_rtts
        /\ pe[p].step \in {"count", "free_rtts"} => pe[p].i < pe[p].num
    BY <1>5, <2>1, <2>2 DEF RealmDestroyOk, Holds
  <2>4. Holder(d) = pe[p]  BY <2>3, HeldState
  <2>5. /\ pe[p].step = "count" => RootsFreed(Holder(d)) = 0
        /\ pe[p].step = "free_rtts" => RootsFreed(Holder(d)) = pe[p].i
    BY <2>4, <1>5 DEF RootsFreed
  <2>6. pe[p].step \in {"count", "free_rtts"} /\ lk[pe[p].root + pe[p].i] = NoPE => gs[pe[p].root + pe[p].i] = "RTT"
    <3> SUFFICES ASSUME pe[p].step \in {"count", "free_rtts"}, lk[pe[p].root + pe[p].i] = NoPE
                 PROVE  gs[pe[p].root + pe[p].i] = "RTT"
      OBVIOUS
    <3>1. RootsFreed(Holder(d)) \in Nat /\ RootsFreed(Holder(d)) <= pe[p].i  BY <2>5, <1>1
    <3>2. QED  BY <3>1, <2>3, <1>1, <1>3
  <2>7. pe[p].step # "walk"  BY <1>5, <2>1 DEF RealmDestroyOk
  <2>8. QED  BY <1>5, <2>6, <2>7 DEF At, Unlocked
<1>6. CASE pe[p].op \in {"rtt_create", "rtt_destroy"}
  <2>1. WalkOk(p) /\ TwoLocksOk(p)  BY <1>1 DEF CommandOk
  <2>2. At(p, "rtt_destroy", "lock_root") /\ lk[pe[p].root] = NoPE => gs[pe[p].root] = "RTT"
    <3> SUFFICES ASSUME At(p, "rtt_destroy", "lock_root"), lk[pe[p].root] = NoPE
                 PROVE  gs[pe[p].root] = "RTT"
      OBVIOUS
    <3>1. PICK d : d = pe[p].rd  OBVIOUS
    <3>2. d \in Granules /\ lk[d] = p /\ gs[d] = "RD" /\ pe[p].root = mem[d].g_rtt
      BY <1>6, <2>1, <3>1 DEF WalkOk, Holds, At
    <3>3. RootsFreed(Holder(d)) = 0  BY <1>4, <1>6, <3>2
    <3>5. 0 < mem[d].num_root_rtts /\ mem[d].g_rtt + 0 = mem[d].g_rtt  BY <3>2, <1>0
    <3>6. QED  BY <3>2, <3>3, <3>5, <1>3
  <2>3. At(p, "rtt_create", "locked") /\ lk[mem[pe[p].rd].g_rtt] = NoPE => gs[mem[pe[p].rd].g_rtt] = "RTT"
    <3> SUFFICES ASSUME At(p, "rtt_create", "locked"), lk[mem[pe[p].rd].g_rtt] = NoPE
                 PROVE  gs[mem[pe[p].rd].g_rtt] = "RTT"
      OBVIOUS
    <3>1. PICK d : d = pe[p].rd  OBVIOUS
    <3>2. d \in Granules /\ lk[d] = p /\ gs[d] = "RD"
      BY <1>6, <2>1, <3>1 DEF TwoLocksOk, Holds, At
    <3>3. RootsFreed(Holder(d)) = 0  BY <1>4, <1>6, <3>2
    <3>5. 0 < mem[d].num_root_rtts /\ mem[d].g_rtt + 0 = mem[d].g_rtt  BY <3>2, <1>0
    <3>6. QED  BY <3>1, <3>2, <3>3, <3>5, <1>3
  <2>4. pe[p].step = "walk" /\ lk[pe[p].root + pe[p].i] = NoPE => gs[pe[p].root + pe[p].i] = "RTT"
    <3> SUFFICES ASSUME pe[p].step = "walk", lk[pe[p].root + pe[p].i] = NoPE
                 PROVE  gs[pe[p].root + pe[p].i] = "RTT"
      OBVIOUS
    <3>1. PICK d : d = pe[p].rd  OBVIOUS
    <3>2. /\ d \in Granules /\ gs[d] = "RD" /\ Pinned(d) /\ pe[p].root = mem[d].g_rtt
          /\ pe[p].i < mem[d].num_root_rtts
      BY <1>6, <2>1, <3>1 DEF WalkOk
    <3>3. RootsFreed(Holder(d)) = 0  BY <3>2 DEF Pinned, RootsFreed
    <3>4. QED  BY <3>2, <3>3, <1>1, <1>3
  <2>5. QED  BY <1>6, <2>2, <2>3, <2>4 DEF At, Unlocked
<1>7. CASE pe[p].op = "rec_destroy"
  <2>1. RecDestroyOk(p)  BY <1>1 DEF CommandOk
  <2>2. ASSUME pe[p].step = "aux" PROVE gs[pe[p].aux[pe[p].i + 1]] = "REC_AUX"
    <3>1. PICK r : r = pe[p].new  OBVIOUS
    <3>2. /\ r \in Granules /\ lk[r] = p /\ gs[r] = "REC" /\ pe[p].aux = mem[r].g_aux
          /\ pe[p].naux = mem[r].num_aux /\ pe[p].i < pe[p].naux
      BY <1>7, <2>1, <2>2, <3>1 DEF RecDestroyOk, Holds
    <3>3. Holder(r) = pe[p]  BY <3>2, HeldState
    <3>4. AuxFreed(Holder(r)) = pe[p].i  BY <3>3, <1>7, <2>2 DEF AuxFreed
    <3>5. pe[p].i + 1 \in LiveAux(r)  BY <3>2, <3>4, <1>1 DEF LiveAux
    <3>6. QED  BY <3>2, <3>5 DEF OInv, Owned, AuxOk, Recs
  <2>3. pe[p].step # "walk"  BY <1>7, <2>1 DEF RecDestroyOk
  <2>4. QED  BY <1>7, <2>2, <2>3 DEF At
<1>8. CASE pe[p].op = "rec_create"
  <2>1. RecCreateOk(p)  BY <1>1 DEF CommandOk
  <2>2. ASSUME pe[p].step = "failed", pe[p].i < pe[p].naux PROVE gs[pe[p].aux[pe[p].i + 1]] = "REC_AUX"
    <3>1. pe[p].i + 1 \in ConvertedAux(pe[p])  BY <1>1, <1>8, <2>2 DEF ConvertedAux
    <3>2. QED  BY <3>1, <1>8, <2>1 DEF RecCreateOk
  <2>3. pe[p].step # "walk"  BY <1>8, <2>1 DEF RecCreateOk
  <2>4. QED  BY <1>8, <2>2, <2>3 DEF At
<1>9. CASE pe[p].op \in {"none", "realm_create", "rec_enter"}
  <2>1. pe[p].step # "walk"
    BY <1>1, <1>9 DEF CommandOk, RealmCreateOk, RecEnterOk, IdleForgets, Idle
  <2>2. QED  BY <1>9, <2>1 DEF At
<1>10. QED  BY <1>1, <1>5, <1>6, <1>7, <1>8, <1>9 DEF Ops


-----------------------------------------------------------------------------
(***************************************************************************)
(* VMIDs.  VmidsExact is inductive relative to OInv, which says what the   *)
(* states of the granules are that the steps of the commands change.       *)
(***************************************************************************)
Kills(e, g) == e.op = "realm_destroy" /\ e.rd = g /\ e.step \in {"free_rtts", "free_rd"}

Builds(e) == e.op = "realm_create" /\ e.step # "unlock_rtts"

LiveRds == {g \in Rds : ~\E p \in PE : Kills(pe[p], g)}

Builders == {p \in PE : Builds(pe[p])}

LEMMA VmidsExactIs ==
  VmidsExact <=> /\ \A g, h \in LiveRds : mem[g].vmid = mem[h].vmid => g = h
                 /\ \A p, q \in Builders : pe[p].vmid = pe[q].vmid => p = q
                 /\ \A g \in LiveRds, p \in Builders : mem[g].vmid # pe[p].vmid
                 /\ vmids = {mem[g].vmid : g \in LiveRds} \cup {pe[p].vmid : p \in Builders}
BY DEF VmidsExact, LiveRds, Builders, Kills, Builds

\* The same in the next state.
LEMMA VmidsExactNext ==
  VmidsExact' <=> /\ \A g, h \in LiveRds' : mem'[g].vmid = mem'[h].vmid => g = h
                  /\ \A p, q \in Builders' : pe'[p].vmid = pe'[q].vmid => p = q
                  /\ \A g \in LiveRds', p \in Builders' : mem'[g].vmid # pe'[p].vmid
                  /\ vmids' = {mem'[g].vmid : g \in LiveRds'} \cup {pe'[p].vmid : p \in Builders'}
BY DEF VmidsExact, LiveRds, Builders, Kills, Builds

\* No realm appears, disappears or gets another VMID.
SameRds ==
  \A g \in Granules : /\ gs'[g] = "RD" <=> gs[g] = "RD"
                      /\ gs[g] = "RD" => mem'[g].vmid = mem[g].vmid

\* A step that is not one of the five in which a VMID changes hands.
LEMMA SameVmids ==
  ASSUME VmidsExact, NEW q \in PE, vmids' = vmids, SameRds,
         \A p \in PE : p # q => pe'[p] = pe[p],
         Builds(pe'[q]) <=> Builds(pe[q]), Builds(pe[q]) => pe'[q].vmid = pe[q].vmid,
         \A g : Kills(pe'[q], g) <=> Kills(pe[q], g)
  PROVE  VmidsExact'
<1>1. Builders' = Builders /\ \A p \in Builders : pe'[p].vmid = pe[p].vmid
  <2>1. \A p \in PE : Builds(pe'[p]) <=> Builds(pe[p])  OBVIOUS
  <2>2. Builders' = {p \in PE : Builds(pe'[p])}  BY DEF Builders, Builds
  <2>3. QED  BY <2>1, <2>2 DEF Builders
<1>2. LiveRds' = LiveRds
  <2>1. \A p \in PE : \A g : Kills(pe'[p], g) <=> Kills(pe[p], g)  OBVIOUS
  <2>2. LiveRds' = {g \in Rds' : ~\E p \in PE : Kills(pe'[p], g)}  BY DEF LiveRds, Kills
  <2>3. Rds' = Rds  BY DEF SameRds, Rds
  <2>4. QED  BY <2>1, <2>2, <2>3 DEF LiveRds
<1>3. \A g \in LiveRds : mem'[g].vmid = mem[g].vmid  BY DEF LiveRds, Rds, SameRds
<1>4. QED  BY <1>1, <1>2, <1>3, VmidsExactIs, VmidsExactNext


LEMMA RdsUntouched ==
  ASSUME OInv
  PROVE  /\ UNCHANGED gs /\ UNCHANGED mem => SameRds
         /\ \A g \in Granules : \A s : gs[g] # "RD" /\ s # "RD" /\ gs' = [gs EXCEPT ![g] = s] /\ UNCHANGED mem
              => SameRds
         /\ \A g \in Granules : \A s, v : gs[g] # "RD" /\ s # "RD" /\ gs' = [gs EXCEPT ![g] = s]
              /\ mem' = [mem EXCEPT ![g] = v] => SameRds
<1>1. gs \in [Granules -> GranuleStates] /\ DOMAIN mem = Granules  BY DEF OInv, Types
<1>2. QED  BY <1>1 DEF SameRds

\* The RECs of a realm come and go without a change of its VMID.
LEMMA RecsKeepRds ==
  ASSUME OInv, NEW q \in PE, smc_rec_create(q) \/ smc_rec_destroy(q) \/ smc_rec_enter(q)
  PROVE  SameRds /\ vmids' = vmids
<1>0. /\ DOMAIN mem = Granules /\ gs \in [Granules -> GranuleStates] /\ pe[q] \in PeType /\ CommandOk(q)
      /\ pe[q].i \in Nat /\ pe[q].naux \in Nat
  BY OfPe, LocalsTyped DEF OInv, Types
<1>1. CASE smc_rec_create(q)
  <2>1. CASE (\E rp \in RecParams : RecCreateStart(q, rp)) \/ RecCreateRefused(q) \/ find_lock_two_granules(q)
    BY <2>1, RdsUntouched
    DEF RecCreateStart, RecCreateRefused, find_lock_two_granules, FindLockDuplicate, FindLockFirst,
        FindLockSecond
  <2>2. CASE RecCreateAux(q)
    <3>1. PICK g : g = pe[q].aux[pe[q].i + 1]  OBVIOUS
    <3>2. pe[q].i + 1 \in 1..pe[q].naux  BY <2>2, <1>0 DEF RecCreateAux, At, CommandOk, RecCreateOk
    <3>3. g \in Granules  BY <2>2, <3>1, <3>2, <1>0 DEF RecCreateAux, At, CommandOk, RecCreateOk
    <3>4. QED  BY <2>2, <3>1, <3>3, RdsUntouched DEF RecCreateAux
  <2>3. ASSUME NEW run \in BOOLEAN, RecCreateDone(q, run) PROVE SameRds /\ vmids' = vmids
    <3>1. PICK rd, rec : rd = pe[q].rd /\ rec = pe[q].new  OBVIOUS
    <3>2. /\ gs' = [gs EXCEPT ![rec] = "REC"] /\ vmids' = vmids
          /\ mem' = [g \in Granules |->
                       IF g = rec THEN RecMem(rd, pe[q].idx, pe[q].aux, pe[q].naux, run)
                       ELSE IF g = rd THEN [mem[rd] EXCEPT !.rec_count = @ + 1]
                       ELSE IF g \in AuxOf(pe[q].aux, pe[q].naux) THEN AuxMem
                       ELSE mem[g]]
          /\ pe[q].op = "rec_create" /\ pe[q].step = "locked"
      BY <2>3, <3>1 DEF RecCreateDone, At
    <3>3. rec \in Granules /\ gs[rec] = "DELEGATED" /\ rd \in Granules /\ gs[rd] = "RD"
      BY <3>1, <3>2, <1>0 DEF CommandOk, TwoLocksOk, Holds
    <3>4. mem[rd] \in RdContent  BY <3>3 DEF OInv, Contents
    <3>5. [mem[rd] EXCEPT !.rec_count = @ + 1].vmid = mem[rd].vmid  BY <3>4 DEF RdContent
    <3>6. \A g \in AuxOf(pe[q].aux, pe[q].naux) : gs[g] = "REC_AUX"
      BY <3>2, Reliances DEF AuxOf, ConvertedAux
    <3>7. \A g \in Granules : gs[g] = "RD" => g # rec /\ g \notin AuxOf(pe[q].aux, pe[q].naux)
      BY <3>3, <3>6
    <3>8. \A g \in Granules : gs[g] = "RD" => mem'[g].vmid = mem[g].vmid
      BY <3>2, <3>5, <3>7
    <3>9. \A g \in Granules : gs'[g] = "RD" <=> gs[g] = "RD"  BY <3>2, <3>3, <1>0
    <3>10. QED  BY <3>2, <3>8, <3>9 DEF SameRds
  <2>4. CASE RecCreateFreeAux(q)
    <3>1. CASE pe[q].i = pe[q].naux  BY <2>4, <3>1, RdsUntouched DEF RecCreateFreeAux
    <3>2. CASE pe[q].i # pe[q].naux
      <4>1. PICK g : g = pe[q].aux[pe[q].i + 1]  OBVIOUS
      <4>2. pe[q].i + 1 \in ConvertedAux(pe[q])
        BY <2>4, <3>2, <1>0 DEF RecCreateFreeAux, At, CommandOk, RecCreateOk, ConvertedAux
      <4>3. g \in Granules /\ gs[g] = "REC_AUX"  BY <4>1, <4>2, Reliances
      <4>4. QED  BY <2>4, <3>2, <4>1, <4>3, RdsUntouched DEF RecCreateFreeAux
    <3>3. QED  BY <3>1, <3>2
  <2>5. QED  BY <1>1, <2>1, <2>2, <2>3, <2>4 DEF smc_rec_create
<1>2. CASE smc_rec_destroy(q)
  <2>1. CASE (\E rec \in Granules : RecDestroyLock(q, rec)) \/ RecDestroyPut(q)
    BY <2>1, RdsUntouched DEF RecDestroyLock, RecDestroyPut
  <2>2. CASE RecDestroyFreeAux(q)
    <3>1. PICK r, g : r = pe[q].new /\ g = pe[q].aux[pe[q].i + 1]  OBVIOUS
    <3>2. pe[q].op = "rec_destroy" /\ pe[q].step = "aux"  BY <2>2 DEF RecDestroyFreeAux, At
    <3>3. /\ r \in Granules /\ lk[r] = q /\ gs[r] = "REC" /\ pe[q].aux = mem[r].g_aux
          /\ pe[q].naux = mem[r].num_aux /\ pe[q].i < pe[q].naux
      BY <3>1, <3>2, <1>0 DEF CommandOk, RecDestroyOk, Holds
    <3>4. Holder(r) = pe[q]  BY <3>3, HeldState
    <3>5. AuxFreed(Holder(r)) = pe[q].i  BY <3>2, <3>4 DEF AuxFreed
    <3>6. pe[q].i + 1 \in LiveAux(r) /\ r \in Recs  BY <3>3, <3>5, <1>0 DEF LiveAux, Recs
    <3>7. g \in Granules /\ gs[g] = "REC_AUX"
      BY <3>1, <3>3, <3>6, OwnedAreGranules DEF OInv, Owned, AuxOk
    <3>8. QED  BY <2>2, <3>1, <3>7, RdsUntouched DEF RecDestroyFreeAux
  <2>3. CASE RecDestroyFree(q)
    <3>1. pe[q].new \in Granules /\ gs[pe[q].new] = "REC"
      BY <2>3, <1>0 DEF RecDestroyFree, At, CommandOk, RecDestroyOk, Holds
    <3>2. QED  BY <2>3, <3>1, RdsUntouched DEF RecDestroyFree
  <2>4. QED  BY <1>2, <2>1, <2>2, <2>3 DEF smc_rec_destroy
<1>3. CASE smc_rec_enter(q)
  <2>1. CASE (\E rec \in Granules : RecEnterGet(q, rec)) \/ RecEnterCheck(q) \/ RecRunExit(q) \/ RecEnterPut(q)
    BY <2>1, RdsUntouched DEF RecEnterGet, RecEnterCheck, RecRunExit, RecEnterPut
  <2>2. CASE RecRunCpuOff(q)
    <3>1. pe[q].new \in Granules /\ gs[pe[q].new] = "REC"  BY <2>2, Reliances DEF RecRunCpuOff, At
    <3>2. QED  BY <2>2, <3>1, <1>0 DEF RecRunCpuOff, SameRds
  <2>3. CASE RecRunSystemOff(q)
    <3>1. PICK rd : rd = mem[pe[q].new].g_rd  OBVIOUS
    <3>2. pe[q].new \in Recs  BY <2>3, Reliances DEF RecRunSystemOff, At, Recs
    <3>3. rd \in Granules /\ gs[rd] = "RD"  BY <3>1, <3>2, OwnedAreGranules DEF OInv, Owned, RecsOk
    <3>4. mem[rd] \in RdContent  BY <3>3 DEF OInv, Contents
    <3>5. [mem[rd] EXCEPT !.state = "SYSTEM_OFF"].vmid = mem[rd].vmid  BY <3>4 DEF RdContent
    <3>6. mem' = [mem EXCEPT ![rd] = [mem[rd] EXCEPT !.state = "SYSTEM_OFF"]] /\ UNCHANGED <<gs, vmids>>
      BY <2>3, <3>1 DEF RecRunSystemOff
    <3>7. QED  BY <3>5, <3>6, <1>0 DEF SameRds
  <2>4. QED  BY <1>3, <2>1, <2>2, <2>3 DEF smc_rec_enter
<1>4. QED  BY <1>1, <1>2, <1>3


\* So do its tables.
LEMMA TablesKeepRds ==
  ASSUME OInv, NEW q \in PE, smc_rtt_create(q) \/ smc_rtt_destroy(q)
  PROVE  SameRds /\ vmids' = vmids
<1>0. DOMAIN mem = Granules /\ gs \in [Granules -> GranuleStates] /\ CommandOk(q)
  BY OfPe DEF OInv, Types
<1>1. CASE \/ \E tp \in RttParams : RttCreateStart(q, tp)
           \/ find_lock_two_granules(q) \/ WalkConcatenated(q)
           \/ RttCreateFailed(q) \/ RttCreateBadAddress(q) \/ RttCreateLockRoot(q) \/ RttCreateRefused(q)
  BY <1>1, RdsUntouched
  DEF RttCreateStart, find_lock_two_granules, FindLockDuplicate, FindLockFirst, FindLockSecond,
      WalkConcatenated, RttCreateFailed, RttCreateBadAddress, RttCreateLockRoot, RttCreateRefused
<1>2. CASE \/ \E rd \in Granules, k \in 0..(NumGranules - 1) : RttDestroyLockRd(q, rd, k)
           \/ RttDestroyLockRoot(q) \/ RttDestroyNoTable(q)
  BY <1>2, RdsUntouched DEF RttDestroyLockRd, RttDestroyLockRoot, RttDestroyNoTable
<1>3. ASSUME NEW s, NEW rtt \in Granules, gs[rtt] # "RD", s # "RD", NEW root \in Granules, gs[root] = "RTT",
             gs' = [gs EXCEPT ![rtt] = s], \A g \in Granules : g \notin {root, rtt} => mem'[g] = mem[g]
      PROVE  SameRds
  BY <1>0, <1>3 DEF SameRds
<1>4. CASE RttCreateDone(q)
  <2>1. /\ pe[q].new \in Granules /\ gs[pe[q].new] = "DELEGATED"
        /\ pe[q].root \in Granules /\ gs[pe[q].root] = "RTT"
    BY <1>4, <1>0 DEF RttCreateDone, At, CommandOk, WalkOk, Holds
  <2>2. /\ vmids' = vmids /\ gs' = [gs EXCEPT ![pe[q].new] = "RTT"]
        /\ \A g \in Granules : g \notin {pe[q].root, pe[q].new} => mem'[g] = mem[g]
    BY <1>4, <1>0 DEF RttCreateDone
  <2>3. QED  BY <1>3, <2>1, <2>2
<1>5. ASSUME NEW rtt \in Granules, RttDestroyDone(q, rtt) PROVE SameRds /\ vmids' = vmids
  <2>1. pe[q].root \in Granules /\ gs[pe[q].root] = "RTT"
    BY <1>5, <1>0 DEF RttDestroyDone, At, CommandOk, WalkOk, Holds
  <2>2. gs[rtt] = "RTT"  BY <1>5, <2>1 DEF RttDestroyDone, OInv, Owned, TablesOk
  <2>3. /\ vmids' = vmids /\ gs' = [gs EXCEPT ![rtt] = "DELEGATED"]
        /\ \A g \in Granules : g \notin {pe[q].root, rtt} => mem'[g] = mem[g]
    BY <1>5, <1>0 DEF RttDestroyDone
  <2>4. QED  BY <1>3, <2>1, <2>2, <2>3
<1>6. QED  BY <1>1, <1>2, <1>4, <1>5 DEF smc_rtt_create, smc_rtt_destroy

LEMMA SingleStepsKeepRds ==
  ASSUME OInv, NEW q \in PE, NEW g \in Granules,
         smc_granule_delegate(q, g) \/ smc_granule_undelegate(q, g) \/ smc_realm_activate(q, g)
  PROVE  SameRds /\ vmids' = vmids
<1>0. DOMAIN mem = Granules /\ gs \in [Granules -> GranuleStates]  BY DEF OInv, Types
<1>1. CASE smc_granule_delegate(q, g) \/ smc_granule_undelegate(q, g)
  BY <1>1, RdsUntouched DEF smc_granule_delegate, smc_granule_undelegate
<1>2. CASE smc_realm_activate(q, g)
  <2>1. mem[g] \in RdContent  BY <1>2 DEF smc_realm_activate, OInv, Contents
  <2>2. [mem[g] EXCEPT !.state = "ACTIVE"].vmid = mem[g].vmid  BY <2>1 DEF RdContent
  <2>3. mem' = [mem EXCEPT ![g] = [mem[g] EXCEPT !.state = "ACTIVE"]] /\ UNCHANGED <<gs, vmids>>
    BY <1>2 DEF smc_realm_activate
  <2>4. QED  BY <2>2, <2>3, <1>0 DEF SameRds
<1>3. QED  BY <1>1, <1>2

\* RMI_REALM_CREATE: the VMID is the command's, then the realm's.
LEMMA RealmCreateVmids ==
  ASSUME OInv, VmidsExact, NEW q \in PE, smc_realm_create(q)
  PROVE  VmidsExact'
<1>0. /\ DOMAIN mem = Granules /\ gs \in [Granules -> GranuleStates] /\ CommandOk(q) /\ DOMAIN pe = PE
      /\ DOMAIN pe[q] = Fields /\ Advances(q, "realm_create")
  BY OfPe, RealmsAdvance DEF OInv, Types
<1>1. \A p \in PE : p # q => pe'[p] = pe[p]  BY <1>0 DEF Advances
<1>2. \A g : ~Kills(pe[q], g) /\ ~Kills(pe'[q], g)  BY <1>0, IdleTyped DEF Kills, Advances
<1>3. \A g : (\E p \in PE : Kills(pe'[p], g)) <=> (\E p \in PE : Kills(pe[p], g))  BY <1>1, <1>2
<1>4. LiveRds' = {g \in Rds' : ~\E p \in PE : Kills(pe[p], g)}
  <2>1. LiveRds' = {g \in Rds' : ~\E p \in PE : Kills(pe'[p], g)}  BY DEF LiveRds, Kills
  <2>2. QED  BY <2>1, <1>3
<1>5. Builders' = {p \in PE : Builds(pe'[p])}  BY DEF Builders, Builds
<1>6. ASSUME NEW rp \in RealmParams, RealmCreateReserve(q, rp) PROVE VmidsExact'
  <2>1. /\ rp.vmid \notin vmids /\ vmids' = vmids \cup {rp.vmid} /\ UNCHANGED <<gs, mem>>
        /\ pe[q].op = "none"
    BY <1>6 DEF RealmCreateReserve, IsIdle
  <2>2. Builds(pe'[q]) /\ pe'[q].vmid = rp.vmid
    BY <1>6, <1>0 DEF RealmCreateReserve, Builds, Idle
  <2>3. Builders' = Builders \cup {q} /\ q \notin Builders
    BY <1>1, <1>5, <2>1, <2>2 DEF Builders, Builds
  <2>4. \A p \in Builders : pe'[p].vmid = pe[p].vmid /\ p # q  BY <2>3, <1>1 DEF Builders
  <2>5. LiveRds' = LiveRds  BY <1>4, <2>1 DEF LiveRds, Rds
  <2>6. QED  BY <2>1, <2>2, <2>3, <2>4, <2>5, VmidsExactIs, VmidsExactNext
<1>7. CASE RealmCreateLock(q)
  <2>1. UNCHANGED <<gs, mem, vmids>> /\ Builds(pe[q])  BY <1>7 DEF RealmCreateLock, At, Builds
  <2>2. Builds(pe'[q]) /\ pe'[q].vmid = pe[q].vmid
    BY <1>7, <1>0 DEF RealmCreateLock, At, Builds, Goto, Fields
  <2>3. QED  BY <1>1, <1>2, <2>1, <2>2, RdsUntouched, SameVmids
<1>8. ASSUME pe[q].op = "realm_create", pe[q].step # "unlock_rtts", ~Builds(pe'[q])
      PROVE  Builders' = Builders \ {q} /\ q \in Builders /\ \A p \in Builders' : pe'[p].vmid = pe[p].vmid
  <2>1. q \in Builders  BY <1>8 DEF Builders, Builds
  <2>2. Builders' = Builders \ {q}  BY <1>1, <1>5, <1>8 DEF Builders
  <2>3. QED  BY <1>1, <2>1, <2>2 DEF Builders
<1>9. CASE RealmCreateFailed(q)
  <2>1. /\ pe[q].op = "realm_create" /\ pe[q].step = "failed" /\ vmids' = vmids \ {pe[q].vmid}
        /\ UNCHANGED <<gs, mem>> /\ pe'[q] = Idle
    BY <1>9, <1>0 DEF RealmCreateFailed, At, Return
  <2>2. Builders' = Builders \ {q} /\ q \in Builders /\ \A p \in Builders' : pe'[p].vmid = pe[p].vmid
    BY <1>8, <2>1, IdleTyped DEF Builds
  <2>3. LiveRds' = LiveRds  BY <1>4, <2>1 DEF LiveRds, Rds
  <2>4. QED  BY <2>1, <2>2, <2>3, VmidsExactIs, VmidsExactNext
<1>10. CASE RealmCreateInit(q)
  <2>1. PICK rd : rd = pe[q].rd  OBVIOUS
  <2>2. /\ pe[q].op = "realm_create" /\ pe[q].step = "init" /\ vmids' = vmids
        /\ gs' = [gs EXCEPT ![rd] = "RD"]
        /\ mem' = [g \in Granules |->
                     IF g = rd THEN RdMem("NEW", 0, pe[q].vmid, pe[q].root, pe[q].num)
                     ELSE IF g \in RootRtts(pe[q].root, pe[q].num) THEN RttMem({})
                     ELSE mem[g]]
    BY <1>10, <2>1 DEF RealmCreateInit, At
  <2>3. /\ rd \in Granules /\ gs[rd] = "DELEGATED"
        /\ \A g \in RootRtts(pe[q].root, pe[q].num) : gs[g] = "DELEGATED"
    BY <2>1, <2>2, <1>0 DEF CommandOk, RealmCreateOk, Holds
  <2>4. ~Builds(pe'[q])  BY <1>10, <1>0 DEF RealmCreateInit, Goto, Fields, Builds
  <2>5. Builders' = Builders \ {q} /\ q \in Builders /\ \A p \in Builders' : pe'[p].vmid = pe[p].vmid
    BY <1>8, <2>2, <2>4
  <2>6. Rds' = Rds \cup {rd} /\ rd \notin Rds  BY <2>2, <2>3, <1>0 DEF Rds
  <2>7. ~\E p \in PE : Kills(pe[p], rd)
    <3> SUFFICES ASSUME NEW p \in PE, Kills(pe[p], rd) PROVE FALSE  OBVIOUS
    <3>1. RealmDestroyOk(p)  BY OfPe DEF CommandOk
    <3>2. gs[rd] = "RD"  BY <3>1 DEF Kills, RealmDestroyOk, Holds
    <3>3. QED  BY <3>2, <2>3
  <2>8. LiveRds' = LiveRds \cup {rd} /\ rd \notin LiveRds  BY <1>4, <2>6, <2>7 DEF LiveRds
  <2>9. mem'[rd].vmid = pe[q].vmid  BY <2>2, <2>3 DEF RdMem
  <2>10. \A g \in LiveRds : mem'[g] = mem[g]  BY <2>2, <2>3 DEF LiveRds, Rds
  <2>11. /\ \A g, h \in LiveRds' : mem'[g].vmid = mem'[h].vmid => g = h
         /\ \A p, r \in Builders' : pe'[p].vmid = pe'[r].vmid => p = r
         /\ \A g \in LiveRds', p \in Builders' : mem'[g].vmid # pe'[p].vmid
    BY <2>5, <2>8, <2>9, <2>10, VmidsExactIs
  <2>12. vmids' = {mem'[g].vmid : g \in LiveRds'} \cup {pe'[p].vmid : p \in Builders'}
    <3>1. vmids = {mem[g].vmid : g \in LiveRds} \cup {pe[p].vmid : p \in Builders}  BY VmidsExactIs
    <3>2. {mem'[g].vmid : g \in LiveRds'} = {mem[g].vmid : g \in LiveRds} \cup {pe[q].vmid}
      BY <2>8, <2>9, <2>10
    <3>3. {pe[p].vmid : p \in Builders} = {pe'[p].vmid : p \in Builders'} \cup {pe[q].vmid}
      BY <2>5
    <3>4. QED  BY <3>1, <3>2, <3>3, <2>2
  <2>13. QED  BY <2>11, <2>12, VmidsExactNext
<1>11. CASE RealmCreateUnlockRtt(q)
  <2>1. PICK g : g = pe[q].root + pe[q].i  OBVIOUS
  <2>2. /\ pe[q].op = "realm_create" /\ pe[q].step = "unlock_rtts" /\ gs' = [gs EXCEPT ![g] = "RTT"]
        /\ UNCHANGED <<mem, vmids>>
    BY <1>11, <2>1 DEF RealmCreateUnlockRtt, At
  <2>3. g \in Granules /\ gs[g] = "DELEGATED"
    <3>1. /\ pe[q].root \in Nat /\ pe[q].i \in Nat /\ pe[q].num \in Nat  BY OfPe, LocalsTyped
    <3>2. /\ pe[q].i < pe[q].num
          /\ \A h \in (pe[q].root + pe[q].i)..(pe[q].root + pe[q].num - 1) : Holds(q, h, "DELEGATED")
      BY <2>2, <1>0 DEF CommandOk, RealmCreateOk
    <3>3. g \in (pe[q].root + pe[q].i)..(pe[q].root + pe[q].num - 1)  BY <2>1, <3>1, <3>2
    <3>4. QED  BY <3>2, <3>3 DEF Holds
  <2>4. SameRds  BY <2>2, <2>3, RdsUntouched
  <2>5. ~Builds(pe[q])  BY <2>2 DEF Builds
  <2>6. ~Builds(pe'[q])  BY <1>11, <1>0, <2>2, IdleTyped DEF RealmCreateUnlockRtt, Return, Fields, Builds
  <2>7. QED  BY <1>1, <1>2, <2>2, <2>4, <2>5, <2>6, SameVmids
<1>12. QED  BY <1>6, <1>7, <1>9, <1>10, <1>11 DEF smc_realm_create


\* RMI_REALM_DESTROY: the VMID is given back while the RD is locked and about to go.
LEMMA RealmDestroyVmids ==
  ASSUME OInv, VmidsExact, NEW q \in PE, smc_realm_destroy(q)
  PROVE  VmidsExact'
<1>0. /\ DOMAIN mem = Granules /\ gs \in [Granules -> GranuleStates] /\ CommandOk(q) /\ DOMAIN pe = PE
      /\ DOMAIN pe[q] = Fields /\ Advances(q, "realm_destroy") /\ RealmDestroyOk(q)
      /\ pe[q].root \in Nat /\ pe[q].i \in Nat /\ pe[q].num \in Nat
  BY OfPe, RealmsAdvance, LocalsTyped DEF OInv, Types, CommandOk
<1>1. \A p \in PE : p # q => pe'[p] = pe[p]  BY <1>0 DEF Advances
<1>2. ~Builds(pe[q]) /\ ~Builds(pe'[q])  BY <1>0, IdleTyped DEF Builds, Advances
<1>3. Builders' = Builders /\ \A p \in Builders : pe'[p].vmid = pe[p].vmid
  <2>1. Builders' = {p \in PE : Builds(pe'[p])}  BY DEF Builders, Builds
  <2>2. QED  BY <1>1, <1>2, <2>1 DEF Builders
<1>4. LiveRds' = {g \in Rds' : ~\E p \in PE : Kills(pe'[p], g)}  BY DEF LiveRds, Kills
<1>5. ASSUME NEW rd \in Granules, RealmDestroyLock(q, rd) PROVE VmidsExact'
  <2>1. UNCHANGED <<gs, mem, vmids>> /\ pe[q].op = "none"  BY <1>5 DEF RealmDestroyLock, IsIdle
  <2>2. \A g : ~Kills(pe[q], g) /\ ~Kills(pe'[q], g)
    BY <1>5, <1>0, <2>1 DEF RealmDestroyLock, Kills, Idle
  <2>3. QED  BY <1>1, <1>2, <2>1, <2>2, RdsUntouched, SameVmids
<1>6. CASE RealmDestroyCount(q)
  <2>1. UNCHANGED <<gs, mem, vmids>> /\ pe[q].step = "count"  BY <1>6 DEF RealmDestroyCount, At
  <2>2. \A g : ~Kills(pe[q], g)  BY <2>1 DEF Kills
  <2>3. pe'[q] = Idle \/ pe'[q].step \in {"free_vmid", "count"}
    BY <1>6, <1>0 DEF RealmDestroyCount, Return, Fields
  <2>4. \A g : ~Kills(pe'[q], g)  BY <2>3, IdleTyped DEF Kills
  <2>5. QED  BY <1>1, <1>2, <2>1, <2>2, <2>4, RdsUntouched, SameVmids
<1>7. CASE RealmDestroyFreeVmid(q)
  <2>1. PICK rd : rd = pe[q].rd  OBVIOUS
  <2>2. /\ pe[q].op = "realm_destroy" /\ pe[q].step = "free_vmid" /\ vmids' = vmids \ {mem[rd].vmid}
        /\ UNCHANGED <<gs, mem>>
    BY <1>7, <2>1 DEF RealmDestroyFreeVmid, At
  <2>3. rd \in Granules /\ lk[rd] = q /\ gs[rd] = "RD"  BY <1>0, <2>1, <2>2 DEF RealmDestroyOk, Holds
  <2>4. \A g : Kills(pe'[q], g) <=> g = rd
    BY <1>7, <1>0, <2>1, <2>2 DEF RealmDestroyFreeVmid, Goto, Kills, Fields
  <2>5. \A g : ~Kills(pe[q], g)  BY <2>2 DEF Kills
  <2>6. ~\E p \in PE : Kills(pe[p], rd)
    <3> SUFFICES ASSUME NEW p \in PE, Kills(pe[p], rd) PROVE FALSE  OBVIOUS
    <3>1. RealmDestroyOk(p)  BY OfPe DEF CommandOk
    <3>2. lk[rd] = p  BY <3>1 DEF Kills, RealmDestroyOk, Holds
    <3>3. QED  BY <3>2, <2>3, <2>5
  <2>7. LiveRds' = LiveRds \ {rd} /\ rd \in LiveRds
    <3>1. rd \in LiveRds  BY <2>3, <2>6 DEF LiveRds, Rds
    <3>2. Rds' = Rds  BY <2>2 DEF Rds
    <3>3. \A g : (\E p \in PE : Kills(pe'[p], g)) <=> g = rd \/ \E p \in PE : Kills(pe[p], g)
      BY <1>1, <2>4, <2>5
    <3>4. QED  BY <1>4, <3>1, <3>2, <3>3 DEF LiveRds
  <2>8. QED  BY <1>3, <2>2, <2>7, VmidsExactIs, VmidsExactNext
<1>8. CASE RealmDestroyFreeRtt(q)
  <2>1. PICK g : g = pe[q].root + pe[q].i  OBVIOUS
  <2>2. /\ pe[q].op = "realm_destroy" /\ pe[q].step = "free_rtts" /\ vmids' = vmids
        /\ gs' = [gs EXCEPT ![g] = "DELEGATED"] /\ mem' = [mem EXCEPT ![g] = Zero]
    BY <1>8, <2>1 DEF RealmDestroyFreeRtt, At
  <2>3. g \in Counted(pe[q])
    BY <2>1, <2>2, <1>0 DEF RealmDestroyOk, Counted
  <2>4. g \in Granules /\ gs[g] = "RTT"  BY <2>2, <2>3, Reliances
  <2>5. SameRds  BY <2>2, <2>4, RdsUntouched
  <2>6. \A h : Kills(pe'[q], h) <=> Kills(pe[q], h)
    BY <1>8, <1>0, <2>2 DEF RealmDestroyFreeRtt, Kills, Fields
  <2>7. QED  BY <1>1, <1>2, <2>2, <2>5, <2>6, SameVmids
<1>9. CASE RealmDestroyFreeRd(q)
  <2>1. PICK rd : rd = pe[q].rd  OBVIOUS
  <2>2. /\ pe[q].op = "realm_destroy" /\ pe[q].step = "free_rd" /\ vmids' = vmids /\ pe'[q] = Idle
        /\ gs' = [gs EXCEPT ![rd] = "DELEGATED"] /\ mem' = [mem EXCEPT ![rd] = Zero]
    BY <1>9, <1>0, <2>1 DEF RealmDestroyFreeRd, At, Return
  <2>3. rd \in Granules  BY <1>0, <2>1, <2>2 DEF RealmDestroyOk, Holds
  <2>4. Rds' = Rds \ {rd}  BY <2>2, <2>3, <1>0 DEF Rds
  <2>5. \A g : Kills(pe[q], g) <=> g = rd  BY <2>1, <2>2 DEF Kills
  <2>6. \A g : ~Kills(pe'[q], g)  BY <2>2, IdleTyped DEF Kills
  <2>7. LiveRds' = LiveRds
    <3>1. \A g : g # rd => ((\E p \in PE : Kills(pe'[p], g)) <=> (\E p \in PE : Kills(pe[p], g)))
      BY <1>1, <2>5, <2>6
    <3>2. rd \notin LiveRds  BY <2>5 DEF LiveRds
    <3>3. QED  BY <1>4, <2>4, <3>1, <3>2 DEF LiveRds
  <2>8. \A g \in LiveRds : mem'[g] = mem[g]
    <3>1. rd \notin LiveRds  BY <2>5 DEF LiveRds
    <3>2. QED  BY <3>1, <2>2, <1>0 DEF LiveRds, Rds
  <2>9. QED  BY <1>3, <2>2, <2>7, <2>8, VmidsExactIs, VmidsExactNext
<1>10. QED  BY <1>5, <1>6, <1>7, <1>8, <1>9 DEF smc_realm_destroy

LEMMA VmidsInductive ==
  ASSUME OInv, VmidsExact, [Next]_vars
  PROVE  VmidsExact'
<1>1. LInv  BY DEF OInv
<1>2. ASSUME UNCHANGED <<gs, mem, vmids, pe>> PROVE VmidsExact'
  <2>1. Rds' = Rds /\ LiveRds' = LiveRds /\ Builders' = Builders
    BY <1>2 DEF Rds, LiveRds, Builders, Kills, Builds
  <2>2. QED  BY <1>2, <2>1, VmidsExactIs, VmidsExactNext
<1>3. ASSUME NEW q \in PE, NEW op \in Ops \ {"realm_create", "realm_destroy"}, Advances(q, op),
             SameRds, vmids' = vmids
      PROVE  VmidsExact'
  <2>1. ~Builds(pe[q]) /\ ~Builds(pe'[q])  BY <1>3, IdleTyped DEF Advances, Builds
  <2>2. \A g : ~Kills(pe[q], g) /\ ~Kills(pe'[q], g)  BY <1>3, IdleTyped DEF Advances, Kills
  <2>3. \A p \in PE : p # q => pe'[p] = pe[p]  BY <1>3 DEF Advances
  <2>4. QED  BY <1>3, <2>1, <2>2, <2>3, SameVmids
<1>4. ASSUME NEW q \in PE, Command(q) PROVE VmidsExact'
  <2>1. CASE smc_rec_create(q) \/ smc_rec_destroy(q) \/ smc_rec_enter(q)
    <3>1. SameRds /\ vmids' = vmids  BY <2>1, RecsKeepRds
    <3>2. QED  BY <1>1, <1>3, <2>1, <3>1, RecsAdvance DEF Ops
  <2>2. CASE smc_rtt_create(q) \/ smc_rtt_destroy(q)
    <3>1. SameRds /\ vmids' = vmids  BY <2>2, TablesKeepRds
    <3>2. QED  BY <1>1, <1>3, <2>2, <3>1, TablesAdvance DEF Ops
  <2>3. ASSUME NEW g \in Granules,
               smc_granule_delegate(q, g) \/ smc_granule_undelegate(q, g) \/ smc_realm_activate(q, g)
        PROVE  VmidsExact'
    <3>1. SameRds /\ vmids' = vmids /\ pe' = pe  BY <2>3, SingleSteps, SingleStepsKeepRds
    <3>2. QED  BY <3>1, SameVmids
  <2>4. QED  BY <1>4, <2>1, <2>2, <2>3, RealmCreateVmids, RealmDestroyVmids DEF Command
<1>5. El3 => UNCHANGED <<gs, mem, vmids, pe>>  BY DEF El3, SpmTakesGranule, SpmReturnsGranule
<1>6. QED  BY <1>2, <1>4, <1>5 DEF Next, vars


-----------------------------------------------------------------------------
(***************************************************************************)
(* Who changes the state of a granule, and when.                           *)
(***************************************************************************)
ChangeOwned(g) ==
  gs'[g] # gs[g] => /\ ref[g] = 0 /\ ref'[g] = 0
                    /\ lk[g] # NoPE => pe'[lk[g]] # pe[lk[g]]

\* One granule changes its state, unlocked or under a lock of the PE that takes the step.
LEMMA OneChange ==
  ASSUME OInv, NEW q \in PE, NEW x \in Granules, NEW s, gs' = [gs EXCEPT ![x] = s],
         ref[x] = 0, ref'[x] = 0, lk[x] = NoPE \/ (lk[x] = q /\ pe'[q] # pe[q])
  PROVE  \A g \in Granules : ChangeOwned(g)
<1>1. gs \in [Granules -> GranuleStates]  BY DEF OInv, Types
<1>2. QED  BY <1>1 DEF ChangeOwned

\* The states without references.
LEMMA Unreferenced ==
  ASSUME OInv, NEW g \in Granules, gs[g] \in {"NS", "DELEGATED", "REC_AUX"}
  PROVE  ref[g] = 0
BY RefExactAt

LEMMA RealmsChangeOwned ==
  ASSUME OInv, NEW q \in PE, smc_realm_create(q) \/ smc_realm_destroy(q)
  PROVE  \A g \in Granules : ChangeOwned(g)
<1>0. /\ CommandOk(q) /\ DOMAIN pe = PE /\ DOMAIN pe[q] = Fields
      /\ pe[q].root \in Nat /\ pe[q].i \in Nat /\ pe[q].num \in Nat
  BY OfPe, LocalsTyped
<1>1. CASE \/ \E rp \in RealmParams : RealmCreateReserve(q, rp)
           \/ RealmCreateLock(q) \/ RealmCreateFailed(q)
           \/ \E rd \in Granules : RealmDestroyLock(q, rd)
           \/ RealmDestroyCount(q) \/ RealmDestroyFreeVmid(q)
  BY <1>1
  DEF RealmCreateReserve, RealmCreateLock, RealmCreateFailed, RealmDestroyLock, RealmDestroyCount,
      RealmDestroyFreeVmid, ChangeOwned
<1>2. CASE RealmCreateInit(q)
  <2>1. PICK rd : rd = pe[q].rd  OBVIOUS
  <2>2. /\ pe[q].op = "realm_create" /\ pe[q].step = "init" /\ gs' = [gs EXCEPT ![rd] = "RD"]
        /\ ref' = ref
    BY <1>2, <2>1 DEF RealmCreateInit, At
  <2>3. rd \in Granules /\ lk[rd] = q /\ gs[rd] = "DELEGATED"
    BY <1>0, <2>1, <2>2 DEF CommandOk, RealmCreateOk, Holds
  <2>4. pe'[q].step = "unlock_rtts"  BY <1>0, <1>2 DEF RealmCreateInit, Goto, Fields
  <2>5. QED  BY <2>2, <2>3, <2>4, Unreferenced, OneChange
<1>3. CASE RealmCreateUnlockRtt(q)
  <2>1. PICK g : g = pe[q].root + pe[q].i  OBVIOUS
  <2>2. /\ pe[q].op = "realm_create" /\ pe[q].step = "unlock_rtts" /\ gs' = [gs EXCEPT ![g] = "RTT"]
        /\ ref' = ref
    BY <1>3, <2>1 DEF RealmCreateUnlockRtt, At
  <2>3. /\ pe[q].i < pe[q].num
        /\ \A h \in (pe[q].root + pe[q].i)..(pe[q].root + pe[q].num - 1) : Holds(q, h, "DELEGATED")
    BY <1>0, <2>2 DEF CommandOk, RealmCreateOk
  <2>4. g \in (pe[q].root + pe[q].i)..(pe[q].root + pe[q].num - 1)  BY <1>0, <2>1, <2>3
  <2>5. g \in Granules /\ lk[g] = q /\ gs[g] = "DELEGATED"  BY <2>3, <2>4 DEF Holds
  <2>6. pe'[q].op = "none" \/ pe'[q].i = pe[q].i + 1
    BY <1>0, <1>3, IdleTyped DEF RealmCreateUnlockRtt, Return, Fields
  <2>7. pe'[q] # pe[q]  BY <1>0, <2>2, <2>6
  <2>8. QED  BY <2>2, <2>5, <2>7, Unreferenced, OneChange
<1>4. CASE RealmDestroyFreeRtt(q)
  <2>1. PICK g : g = pe[q].root + pe[q].i  OBVIOUS
  <2>2. /\ pe[q].op = "realm_destroy" /\ pe[q].step = "free_rtts" /\ lk[g] = NoPE /\ ref' = ref
        /\ gs' = [gs EXCEPT ![g] = "DELEGATED"]
    BY <1>4, <2>1 DEF RealmDestroyFreeRtt, At, Unlocked
  <2>3. g \in Counted(pe[q])  BY <2>1, <2>2, <1>0 DEF CommandOk, RealmDestroyOk, Counted
  <2>4. g \in Granules  BY <2>2, <2>3, Reliances
  <2>5. ref[g] = 0  BY <1>0, <2>2, <2>3 DEF CommandOk, RealmDestroyOk
  <2>6. QED  BY <2>2, <2>4, <2>5, OneChange
<1>5. CASE RealmDestroyFreeRd(q)
  <2>1. PICK rd : rd = pe[q].rd  OBVIOUS
  <2>2. /\ pe[q].op = "realm_destroy" /\ gs' = [gs EXCEPT ![rd] = "DELEGATED"] /\ ref' = ref
        /\ pe'[q] = Idle
    BY <1>0, <1>5, <2>1 DEF RealmDestroyFreeRd, At, Return
  <2>3. rd \in Granules /\ lk[rd] = q /\ ref[rd] = 0
    BY <1>0, <2>1, <2>2 DEF CommandOk, RealmDestroyOk, Holds
  <2>4. QED  BY <2>2, <2>3, IdleTyped, OneChange
<1>6. QED  BY <1>1, <1>2, <1>3, <1>4, <1>5 DEF smc_realm_create, smc_realm_destroy

LEMMA RecsChangeOwned ==
  ASSUME OInv, NEW q \in PE, smc_rec_create(q) \/ smc_rec_destroy(q) \/ smc_rec_enter(q)
  PROVE  \A g \in Granules : ChangeOwned(g)
<1>0. /\ CommandOk(q) /\ DOMAIN pe = PE /\ DOMAIN pe[q] = Fields
      /\ pe[q].naux \in Nat /\ pe[q].i \in Nat /\ ref \in [Granules -> Nat]
  BY OfPe, LocalsTyped DEF OInv, Types
<1>1. CASE \/ \E rp \in RecParams : RecCreateStart(q, rp)
           \/ RecCreateRefused(q) \/ find_lock_two_granules(q)
           \/ \E rec \in Granules : RecDestroyLock(q, rec)
           \/ RecDestroyPut(q) \/ smc_rec_enter(q)
  BY <1>1
  DEF RecCreateStart, RecCreateRefused, find_lock_two_granules, FindLockDuplicate, FindLockFirst,
      FindLockSecond, RecDestroyLock, RecDestroyPut, smc_rec_enter, RecEnterGet, RecEnterCheck,
      RecRunCpuOff, RecRunSystemOff, RecRunExit, RecEnterPut, ChangeOwned
<1>2. CASE RecCreateAux(q)
  <2>1. PICK g : g = pe[q].aux[pe[q].i + 1]  OBVIOUS
  <2>2. /\ pe[q].op = "rec_create" /\ pe[q].step = "aux" /\ lk[g] = NoPE /\ ref' = ref
        /\ \/ gs[g] = "DELEGATED" /\ gs' = [gs EXCEPT ![g] = "REC_AUX"]
           \/ gs' = gs
    BY <1>2, <2>1 DEF RecCreateAux, At, Unlocked
  <2>3. pe[q].i + 1 \in 1..pe[q].naux  BY <1>0, <2>2 DEF CommandOk, RecCreateOk
  <2>4. g \in Granules  BY <1>0, <2>1, <2>2, <2>3 DEF CommandOk, RecCreateOk
  <2>5. CASE gs' = gs  BY <2>5 DEF ChangeOwned
  <2>6. CASE gs' # gs  BY <2>2, <2>4, <2>6, Unreferenced, OneChange
  <2>7. QED  BY <2>5, <2>6
<1>3. ASSUME NEW run \in BOOLEAN, RecCreateDone(q, run) PROVE \A g \in Granules : ChangeOwned(g)
  <2>1. PICK rd, rec : rd = pe[q].rd /\ rec = pe[q].new  OBVIOUS
  <2>2. /\ pe[q].op = "rec_create" /\ pe[q].step = "locked" /\ gs' = [gs EXCEPT ![rec] = "REC"]
        /\ ref' = [ref EXCEPT ![rd] = @ + 1] /\ pe'[q] = Idle
    BY <1>0, <1>3, <2>1 DEF RecCreateDone, At, Return
  <2>3. rd # rec /\ rec \in Granules /\ lk[rec] = q /\ gs[rec] = "DELEGATED"
    BY <1>0, <2>1, <2>2 DEF CommandOk, TwoLocksOk, Holds
  <2>4. ref[rec] = 0 /\ ref'[rec] = 0  BY <1>0, <2>2, <2>3, Unreferenced
  <2>5. QED  BY <2>2, <2>3, <2>4, IdleTyped, OneChange
<1>4. CASE RecCreateFreeAux(q)
  <2>1. CASE pe[q].i = pe[q].naux  BY <1>4, <2>1 DEF RecCreateFreeAux, ChangeOwned
  <2>2. CASE pe[q].i # pe[q].naux
    <3>1. PICK g : g = pe[q].aux[pe[q].i + 1]  OBVIOUS
    <3>2. pe[q].i + 1 \in ConvertedAux(pe[q])
      BY <1>0, <1>4, <2>2 DEF RecCreateFreeAux, At, CommandOk, RecCreateOk, ConvertedAux
    <3>3. g \in Granules /\ gs[g] = "REC_AUX"  BY <3>1, <3>2, Reliances
    <3>4. lk[g] = NoPE /\ gs' = [gs EXCEPT ![g] = "DELEGATED"] /\ ref' = ref
      BY <1>4, <2>2, <3>1 DEF RecCreateFreeAux, Unlocked
    <3>5. QED  BY <3>3, <3>4, Unreferenced, OneChange
  <2>3. QED  BY <2>1, <2>2
<1>5. CASE RecDestroyFreeAux(q)
  <2>1. PICK r, g : r = pe[q].new /\ g = pe[q].aux[pe[q].i + 1]  OBVIOUS
  <2>2. /\ pe[q].op = "rec_destroy" /\ pe[q].step = "aux" /\ lk[g] = NoPE /\ ref' = ref
        /\ gs' = [gs EXCEPT ![g] = "DELEGATED"]
    BY <1>5, <2>1 DEF RecDestroyFreeAux, At, Unlocked
  <2>3. /\ r \in Granules /\ lk[r] = q /\ gs[r] = "REC" /\ pe[q].aux = mem[r].g_aux
        /\ pe[q].naux = mem[r].num_aux /\ pe[q].i < pe[q].naux
    BY <1>0, <2>1, <2>2 DEF CommandOk, RecDestroyOk, Holds
  <2>4. Holder(r) = pe[q]  BY <2>3, HeldState
  <2>5. AuxFreed(Holder(r)) = pe[q].i  BY <2>2, <2>4 DEF AuxFreed
  <2>6. pe[q].i + 1 \in LiveAux(r) /\ r \in Recs  BY <1>0, <2>3, <2>5 DEF LiveAux, Recs
  <2>7. g \in Granules /\ gs[g] = "REC_AUX"
    BY <2>1, <2>3, <2>6, OwnedAreGranules DEF OInv, Owned, AuxOk
  <2>8. QED  BY <2>2, <2>7, Unreferenced, OneChange
<1>6. CASE RecDestroyFree(q)
  <2>1. PICK r : r = pe[q].new  OBVIOUS
  <2>2. /\ pe[q].op = "rec_destroy" /\ pe[q].step = "free" /\ ref' = ref
        /\ gs' = [gs EXCEPT ![r] = "DELEGATED"]
    BY <1>6, <2>1 DEF RecDestroyFree, At
  <2>3. r \in Granules /\ lk[r] = q /\ ref[r] = 0
    BY <1>0, <2>1, <2>2 DEF CommandOk, RecDestroyOk, Holds
  <2>4. pe'[q].step = "put"  BY <1>0, <1>6 DEF RecDestroyFree, Goto, Fields
  <2>5. QED  BY <2>2, <2>3, <2>4, OneChange
<1>7. QED  BY <1>1, <1>2, <1>3, <1>4, <1>5, <1>6 DEF smc_rec_create, smc_rec_destroy

LEMMA TablesChangeOwned ==
  ASSUME OInv, NEW q \in PE, smc_rtt_create(q) \/ smc_rtt_destroy(q)
  PROVE  \A g \in Granules : ChangeOwned(g)
<1>0. CommandOk(q) /\ DOMAIN pe = PE /\ ref \in [Granules -> Nat]  BY OfPe DEF OInv, Types
<1>1. CASE \/ \E tp \in RttParams : RttCreateStart(q, tp)
           \/ find_lock_two_granules(q) \/ WalkConcatenated(q)
           \/ RttCreateFailed(q) \/ RttCreateBadAddress(q) \/ RttCreateLockRoot(q) \/ RttCreateRefused(q)
           \/ \E rd \in Granules, k \in 0..(NumGranules - 1) : RttDestroyLockRd(q, rd, k)
           \/ RttDestroyLockRoot(q) \/ RttDestroyNoTable(q)
  BY <1>1
  DEF RttCreateStart, find_lock_two_granules, FindLockDuplicate, FindLockFirst, FindLockSecond,
      WalkConcatenated, RttCreateFailed, RttCreateBadAddress, RttCreateLockRoot, RttCreateRefused,
      RttDestroyLockRd, RttDestroyLockRoot, RttDestroyNoTable, ChangeOwned
<1>2. CASE RttCreateDone(q)
  <2>1. PICK root, rtt : root = pe[q].root /\ rtt = pe[q].new  OBVIOUS
  <2>2. /\ pe[q].op = "rtt_create" /\ pe[q].step = "at_parent" /\ gs' = [gs EXCEPT ![rtt] = "RTT"]
        /\ ref' = [ref EXCEPT ![root] = @ + 1] /\ pe'[q] = Idle
    BY <1>0, <1>2, <2>1 DEF RttCreateDone, At, Return
  <2>3. rtt \in Granules /\ lk[rtt] = q /\ gs[rtt] = "DELEGATED" /\ gs[root] = "RTT"
    BY <1>0, <2>1, <2>2 DEF CommandOk, WalkOk, Holds
  <2>4. ref[rtt] = 0 /\ ref'[rtt] = 0  BY <1>0, <2>2, <2>3, Unreferenced
  <2>5. QED  BY <2>2, <2>3, <2>4, IdleTyped, OneChange
<1>3. ASSUME NEW rtt \in Granules, RttDestroyDone(q, rtt) PROVE \A g \in Granules : ChangeOwned(g)
  <2>1. PICK root : root = pe[q].root  OBVIOUS
  <2>2. /\ pe[q].op = "rtt_destroy" /\ pe[q].step = "at_parent" /\ lk[rtt] = NoPE /\ ref[rtt] = 0
        /\ gs' = [gs EXCEPT ![rtt] = "DELEGATED"] /\ ref' = [ref EXCEPT ![root] = @ - 1]
    BY <1>3, <2>1 DEF RttDestroyDone, At, Unlocked
  <2>3. lk[root] = q  BY <1>0, <2>1, <2>2 DEF CommandOk, WalkOk, Holds
  <2>4. ref'[rtt] = 0  BY <1>0, <2>2, <2>3, PEAssumption
  <2>5. QED  BY <2>2, <2>4, OneChange
<1>4. QED  BY <1>1, <1>2, <1>3 DEF smc_rtt_create, smc_rtt_destroy

LEMMA StepsOwned ==
  ASSUME OInv, Next
  PROVE  \A g \in Granules : ChangeOwned(g)
<1>1. CASE El3  BY <1>1 DEF El3, SpmTakesGranule, SpmReturnsGranule, ChangeOwned
<1>2. ASSUME NEW q \in PE, NEW x \in Granules,
             smc_granule_delegate(q, x) \/ smc_granule_undelegate(q, x) \/ smc_realm_activate(q, x)
      PROVE  \A g \in Granules : ChangeOwned(g)
  <2>1. CASE smc_realm_activate(q, x)  BY <2>1 DEF smc_realm_activate, ChangeOwned
  <2>2. CASE smc_granule_delegate(q, x) \/ smc_granule_undelegate(q, x)
    <3>1. /\ lk[x] = NoPE /\ gs[x] \in {"NS", "DELEGATED"} /\ ref' = ref
          /\ \E s : gs' = [gs EXCEPT ![x] = s]
      BY <2>2 DEF smc_granule_delegate, smc_granule_undelegate, Unlocked
    <3>2. QED  BY <3>1, Unreferenced, OneChange
  <2>3. QED  BY <1>2, <2>1, <2>2
<1>3. QED
  BY <1>1, <1>2, RealmsChangeOwned, RecsChangeOwned, TablesChangeOwned DEF Next, Command


-----------------------------------------------------------------------------
(***************************************************************************)
(* The theorems.                                                           *)
(***************************************************************************)
RmmInv == OInv /\ IdleForgets /\ VmidsExact

\* The inductive invariant: the objects are consistent, an idle PE remembers nothing, and
\* every VMID has one owner.
THEOREM RmmInvAlways == Spec => []RmmInv
<1>1. Init => RmmInv
  <2> SUFFICES ASSUME Init PROVE RmmInv  OBVIOUS
  <2>1. OInv  BY OInvInitially
  <2>2. pe = [p \in PE |-> Idle] /\ vmids = {} /\ \A g \in Granules : gs[g] # "RD"  BY DEF Init
  <2>3. IdleForgets  BY <2>2 DEF IdleForgets
  <2>4. LiveRds = {} /\ Builders = {}  BY <2>2, IdleTyped DEF LiveRds, Rds, Builders, Builds
  <2>5. VmidsExact  BY <2>2, <2>4, VmidsExactIs
  <2>6. QED  BY <2>1, <2>3, <2>5 DEF RmmInv
<1>2. RmmInv /\ [Next]_vars => RmmInv'
  <2>1. RmmInv => LInv  BY DEF RmmInv, OInv
  <2>2. QED  BY <2>1, OInvInductive, IdleForgetsInductive, VmidsInductive DEF RmmInv
<1>3. QED  BY <1>1, <1>2, PTL DEF Spec

\* A granule's content is what its state says whenever nobody holds its lock: what a free
\* leaves behind in a DELEGATED granule is zero (free_sl_rtts, smc_rec_destroy, smc_rtt_destroy).
THEOREM ContentMatchesStateAlways == Spec => []ContentMatchesState
<1>1. RmmInv => ContentMatchesState  BY ContentsMatch DEF RmmInv
<1>2. QED  BY <1>1, RmmInvAlways, PTL

\* Reference counts are exact, the lock-free put of smc_rec_destroy included: no interleaving
\* of the object commands loses one or counts one twice.
THEOREM RefcountsExactAlways == Spec => []RefcountsExact
<1>1. RmmInv => RefcountsExact  BY DEF RmmInv, OInv
<1>2. QED  BY <1>1, RmmInvAlways, PTL

\* No reference count leaves its field (the REFCOUNT_MAX test of smc_rec_create).
THEOREM RefcountFitsAlways == Spec => []RefcountFits
<1>1. RmmInv => RefcountFits  BY DEF RmmInv, OInv
<1>2. QED  BY <1>1, RmmInvAlways, PTL

\* What smc_rec_enter uses without a lock stays there while it runs.
THEOREM RunningRecIntactAlways == Spec => []RunningRecIntact
<1>1. RmmInv => RunningRecIntact  BY RunningIntact DEF RmmInv
<1>2. QED  BY <1>1, RmmInvAlways, PTL

\* The assertion of granule_lock never fails.
THEOREM GranuleLockAssertsAlways == Spec => []GranuleLockAsserts
<1>1. RmmInv => GranuleLockAsserts  BY LockAssertsHold DEF RmmInv
<1>2. QED  BY <1>1, RmmInvAlways, PTL

\* No VMID is leaked, shared or free while a realm uses it (vmid_reserve, vmid_free).
THEOREM VmidsExactAlways == Spec => []VmidsExact
<1>1. RmmInv => VmidsExact  BY DEF RmmInv
<1>2. QED  BY <1>1, RmmInvAlways, PTL

\* EL3's protection table and the granule states agree (smc_granule_delegate,
\* smc_granule_undelegate).
THEOREM GptAgreesAlways == Spec => []GptAgrees
<1>1. RmmInv => GptAgrees  BY DEF RmmInv, OInv
<1>2. QED  BY <1>1, RmmInvAlways, PTL

\* Two RECs of a realm never have the same index (the rec_count test of smc_rec_create).
THEOREM RecIndicesUniqueAlways == Spec => []RecIndicesUnique
<1>1. RmmInv => RecIndicesUnique  BY DEF RmmInv, OInv
<1>2. QED  BY <1>1, RmmInvAlways, PTL

\* Type correctness; the types of the contents and of the VMIDs rest on everything else.
THEOREM RmmTypeCorrect == Spec => []TypeOK
<1>1. RmmInv => TypeOK
  <2> SUFFICES ASSUME RmmInv PROVE TypeOK  OBVIOUS
  <2>1. OInv /\ VmidsExact  BY DEF RmmInv
  <2>2. /\ gs \in [Granules -> GranuleStates] /\ ref \in [Granules -> Nat]
        /\ lk \in [Granules -> PE \cup {NoPE}] /\ gpt \in [Granules -> {"ns", "secure", "realm"}]
    BY <2>1 DEF OInv, Types, LInv
  <2>3. ASSUME NEW g \in Granules PROVE mem[g] \in Content
    <3>1. gs[g] \in GranuleStates  BY <2>2
    <3>2. /\ gs[g] = "NS" => mem[g] = HostOwned
          /\ gs[g] = "DELEGATED" => mem[g] \in {RttMem({}), Zero}
          /\ gs[g] = "RD" => mem[g] \in RdContent
          /\ gs[g] = "REC" => mem[g] \in RecContent
          /\ gs[g] = "RTT" => mem[g] \in RttContent
          /\ gs[g] = "REC_AUX" => mem[g] \in {AuxMem, Zero}
      BY <2>1 DEF OInv, Contents
    <3>3. RttMem({}) \in RttContent  BY DEF RttMem, RttContent
    <3>4. Content = {Zero, HostOwned, AuxMem} \cup RdContent \cup RecContent \cup RttContent
      BY DEF Content, RdContent, RecContent, RttContent
    <3>5. QED  BY <3>1, <3>2, <3>3, <3>4 DEF GranuleStates
  <2>4. mem = [g \in Granules |-> mem[g]]  BY <2>1 DEF OInv, Types
  <2>5. mem \in [Granules -> Content]  BY <2>3, <2>4
  <2>6. vmids \subseteq Vmid
    <3>1. \A g \in LiveRds : mem[g].vmid \in Vmid
      BY <2>1 DEF OInv, Contents, LiveRds, Rds, RdContent
    <3>2. \A p \in Builders : pe[p].vmid \in Vmid
      BY <2>1 DEF OInv, CommandsOk, CommandOk, RealmCreateOk, Builders, Builds
    <3>3. QED  BY <2>1, <3>1, <3>2, VmidsExactIs
  <2>7. QED  BY <2>2, <2>5, <2>6 DEF TypeOK
<1>2. QED  BY <1>1, RmmInvAlways, PTL

\* Only the holder of a granule's lock changes the granule's state, and only while nothing
\* refers to the granule (granule_unlock_transition).
THEOREM StateChangesOwnedAlways == Spec => StateChangesOwned
<1>1. RmmInv /\ [Next]_vars =>
        [\A g \in Granules : gs'[g] # gs[g] =>
           /\ ref[g] = 0 /\ ref'[g] = 0
           /\ lk[g] # NoPE => pe'[lk[g]] # pe[lk[g]]]_vars
  BY StepsOwned DEF RmmInv, ChangeOwned
<1>2. QED  BY <1>1, RmmInvAlways, PTL DEF Spec, StateChangesOwned


-----------------------------------------------------------------------------
(***************************************************************************)
(* Lock order.  Every lock has a rank, tables above all other granules and *)
(* the address within a class; whoever waits while it holds a lock waits   *)
(* for a lock of higher rank (granule_types.h).                            *)
(***************************************************************************)
IsTable(g) == gs[g] = "RTT" \/ BeingRoot(g)

Rank(g) == IF IsTable(g) THEN NumGranules + g ELSE g

LEMMA RanksAre ==
  ASSUME NEW g \in Granules
  PROVE  Rank(g) \in Nat /\ Rank(g) <= 2 * NumGranules /\ (~IsTable(g) => Rank(g) = g)
         /\ (IsTable(g) => Rank(g) = NumGranules + g) /\ g \in Nat /\ 1 <= g /\ g <= NumGranules
BY SizesAssumption DEF Rank, Granules

\* A lock taken later, by class or by address.
LEMMA LaterRank ==
  ASSUME NEW g \in Granules, NEW h \in Granules,
         (~IsTable(g) /\ IsTable(h)) \/ ((IsTable(g) => IsTable(h)) /\ g < h)
  PROVE  Rank(g) < Rank(h)
<1>1. /\ NumGranules \in Nat /\ g \in Nat /\ h \in Nat /\ g <= NumGranules /\ 1 <= h
  BY RanksAre, SizesAssumption
<1>2. CASE IsTable(h)  BY <1>1, <1>2 DEF Rank
<1>3. CASE ~IsTable(h)  BY <1>1, <1>3 DEF Rank
<1>4. QED  BY <1>2, <1>3

\* What a PE may be spinning on, command by command.
LEMMA WantsAre ==
  ASSUME OInv, IdleForgets, NEW p \in PE, NEW h \in Wants(p)
  PROVE  \/ pe[p].op \in {"rec_create", "rtt_create"} /\ pe[p].step = "lock1" /\ h \in {pe[p].rd, pe[p].new}
         \/ pe[p].op \in {"rec_create", "rtt_create"} /\ pe[p].step = "lock2" /\ h = SecondToLock(p)
         \/ /\ pe[p].op = "realm_create" /\ pe[p].step = "lock"
            /\ h = NthToLock(pe[p].rd, pe[p].root, pe[p].num, pe[p].i)
         \/ /\ pe[p].op = "realm_destroy" /\ pe[p].step \in {"count", "free_rtts"}
            /\ h = pe[p].root + pe[p].i
         \/ pe[p].op = "rtt_destroy" /\ pe[p].step = "lock_root" /\ h = pe[p].root
         \/ /\ pe[p].op \in {"rtt_create", "rtt_destroy"} /\ pe[p].step = "walk" /\ pe[p].i # 0
            /\ h = pe[p].root + pe[p].i
         \/ pe[p].op = "rtt_create" /\ pe[p].step = "locked" /\ h = mem[pe[p].rd].g_rtt
         \/ pe[p].op \in {"rec_create", "rec_destroy"} /\ pe[p].step = "aux" /\ h = pe[p].aux[pe[p].i + 1]
         \/ /\ pe[p].op = "rec_create" /\ pe[p].step = "failed" /\ pe[p].i < pe[p].naux
            /\ h = pe[p].aux[pe[p].i + 1]
<1>1. pe[p].op \in Ops /\ CommandOk(p)  BY OfPe DEF PeType
<1>2. /\ pe[p].op = "realm_create" => pe[p].step \in {"lock", "init", "unlock_rtts", "failed"}
      /\ pe[p].op = "realm_destroy" => pe[p].step \in {"count", "free_vmid", "free_rtts", "free_rd"}
      /\ pe[p].op = "rec_create" => pe[p].step \in {"aux", "lock1", "lock2", "locked", "failed"}
      /\ pe[p].op = "rec_destroy" => pe[p].step \in {"aux", "free", "put"}
      /\ pe[p].op = "rec_enter" => pe[p].step \in {"check", "run", "put"}
      /\ pe[p].op = "rtt_create" => pe[p].step \in {"lock1", "lock2", "locked", "failed", "walk", "at_parent"}
      /\ pe[p].op = "rtt_destroy" => pe[p].step \in {"lock_root", "walk", "at_parent"}
  BY <1>1 DEF CommandOk, RealmCreateOk, RealmDestroyOk, RecCreateOk, RecDestroyOk, RecEnterOk, WalkOk
<1>3. FirstToLock(p) \in {pe[p].rd, pe[p].new}  BY DEF FirstToLock, Min2
<1>4. pe[p].op # "none"
  <2> SUFFICES ASSUME pe[p].op = "none" PROVE FALSE  OBVIOUS
  <2>1. pe[p] = Idle  BY DEF IdleForgets
  <2>2. pe[p].step = "idle"  BY <2>1 DEF Idle
  <2>3. Wants(p) = {}  BY <2>2 DEF Wants, At
  <2>4. QED  BY <2>3
<1>5. CASE pe[p].op \in {"realm_create", "realm_destroy"}  BY <1>2, <1>5 DEF Wants, At
<1>6. CASE pe[p].op \in {"rec_create", "rec_destroy", "rec_enter"}  BY <1>2, <1>3, <1>6 DEF Wants, At
<1>7. CASE pe[p].op \in {"rtt_create", "rtt_destroy"}  BY <1>2, <1>3, <1>7 DEF Wants, At
<1>8. QED  BY <1>1, <1>4, <1>5, <1>6, <1>7 DEF Ops

\* The n-th starting-level table of a realm, while n tables at most have been freed.
LEMMA NthRoot ==
  ASSUME OInv, NEW d \in Granules, gs[d] = "RD", NEW n \in Nat, n < mem[d].num_root_rtts,
         RootsFreed(Holder(d)) \in Nat, RootsFreed(Holder(d)) <= n
  PROVE  /\ mem[d].g_rtt + n \in Granules /\ IsTable(mem[d].g_rtt + n)
<1>1. d \in Rds /\ mem[d] \in RdContent  BY DEF OInv, Contents, Rds
<1>2. mem[d].g_rtt \in Nat /\ mem[d].num_root_rtts \in Nat  BY <1>1, GranulesAre DEF RdContent
<1>3. mem[d].g_rtt + n \in LiveRoots(d)  BY <1>2 DEF LiveRoots
<1>4. QED  BY <1>1, <1>3, OwnedAreGranules DEF OInv, Owned, RootsOk, IsTable

\* What a PE that holds a lock and waits for another has: a lock of lower rank than the
\* one it waits for.
LEMMA WaitsUpwards ==
  ASSUME OInv, IdleForgets, NEW p \in PE, NEW h \in Wants(p)
  PROVE  /\ h \in Granules
         /\ lk[h] # NoPE => \A g \in Granules : lk[g] = p => Rank(g) < Rank(h)
<1>0. /\ pe[p] \in PeType /\ CommandOk(p) /\ pe[p].i \in Nat /\ pe[p].root \in Nat /\ pe[p].num \in Nat
      /\ pe[p].naux \in Nat /\ pe[p].rd \in Nat /\ pe[p].new \in Nat
      /\ \A g \in Granules : lk[g] = p => MayHold(pe[p], g) /\ Holder(g) = pe[p]
  BY OfPe, LocalsTyped, HeldState
<1>1. \A g \in Granules : lk[g] = p /\ gs[g] # "RTT" /\ ~FillsRoots(pe[p]) => ~IsTable(g)
  BY <1>0 DEF IsTable, BeingRoot
<1>2. CASE pe[p].op \in {"rec_create", "rtt_create"} /\ pe[p].step = "lock1" /\ h \in {pe[p].rd, pe[p].new}
  BY <1>0, <1>2 DEF CommandOk, TwoLocksOk, MayHold
<1>3. CASE pe[p].op \in {"rec_create", "rtt_create"} /\ pe[p].step = "lock2" /\ h = SecondToLock(p)
  <2>1. /\ pe[p].rd \in Granules /\ pe[p].new \in Granules /\ pe[p].rd # pe[p].new
        /\ Holds(p, FirstToLock(p), ExpectedState(p, FirstToLock(p)))
    BY <1>0, <1>3 DEF CommandOk, TwoLocksOk
  <2>2. \A g \in Granules : lk[g] = p => g = FirstToLock(p)  BY <1>0, <1>3 DEF MayHold, FirstToLock
  <2>3. FirstToLock(p) < h /\ h \in Granules /\ FirstToLock(p) \in Granules
    BY <1>0, <1>3, <2>1 DEF SecondToLock, FirstToLock, Min2
  <2>4. ~IsTable(FirstToLock(p))
    BY <1>1, <1>3, <2>1 DEF Holds, ExpectedState, FillsRoots
  <2>5. QED  BY <2>2, <2>3, <2>4, LaterRank
<1>4. CASE /\ pe[p].op = "realm_create" /\ pe[p].step = "lock"
           /\ h = NthToLock(pe[p].rd, pe[p].root, pe[p].num, pe[p].i)
  <2>1. /\ pe[p].rd \in Granules /\ pe[p].root \in Granules /\ pe[p].num # 0
        /\ pe[p].root + pe[p].num - 1 <= NumGranules /\ pe[p].rd \notin RootRtts(pe[p].root, pe[p].num)
        /\ pe[p].i <= pe[p].num
        /\ \A k \in 0..(pe[p].i - 1) : Holds(p, NthToLock(pe[p].rd, pe[p].root, pe[p].num, k), "DELEGATED")
    BY <1>0, <1>4 DEF CommandOk, RealmCreateOk
  <2>2. h \in Granules
    BY <1>0, <1>4, <2>1, SizesAssumption DEF NthToLock, Granules
  <2>3. ASSUME NEW g \in Granules, lk[g] = p PROVE Rank(g) < Rank(h)
    <3>1. PICK k \in 0..(pe[p].i - 1) : g = NthToLock(pe[p].rd, pe[p].root, pe[p].num, k)
      BY <1>0, <1>4, <2>3 DEF MayHold
    <3>2. gs[g] = "DELEGATED"  BY <2>1, <3>1 DEF Holds
    <3>3. ~IsTable(g)  BY <1>1, <1>4, <2>3, <3>2 DEF FillsRoots
    <3>4. pe[p].rd < pe[p].root \/ pe[p].rd > pe[p].root + pe[p].num - 1
      BY <1>0, <2>1 DEF RootRtts
    <3>5. g < h  BY <1>0, <1>4, <2>1, <3>1, <3>4 DEF NthToLock
    <3>6. QED  BY <2>2, <3>3, <3>5, LaterRank
  <2>4. QED  BY <2>2, <2>3
<1>5. CASE /\ pe[p].op = "realm_destroy" /\ pe[p].step \in {"count", "free_rtts"}
           /\ h = pe[p].root + pe[p].i
  <2>1. PICK d : d = pe[p].rd  OBVIOUS
  <2>2. /\ d \in Granules /\ lk[d] = p /\ gs[d] = "RD" /\ pe[p].root = mem[d].g_rtt
        /\ pe[p].num = mem[d].num_root_rtts /\ pe[p].i < pe[p].num
    BY <1>0, <1>5, <2>1 DEF CommandOk, RealmDestroyOk, Holds
  <2>3. RootsFreed(Holder(d)) \in Nat /\ RootsFreed(Holder(d)) <= pe[p].i
    BY <1>0, <1>5, <2>2 DEF RootsFreed
  <2>4. h \in Granules /\ IsTable(h)  BY <1>0, <1>5, <2>2, <2>3, NthRoot
  <2>5. \A g \in Granules : lk[g] = p => g = d  BY <1>0, <1>5, <2>1 DEF MayHold
  <2>6. ~IsTable(d)  BY <1>1, <1>5, <2>2 DEF FillsRoots
  <2>7. QED  BY <2>2, <2>4, <2>5, <2>6, LaterRank
<1>6. CASE \/ pe[p].op = "rtt_destroy" /\ pe[p].step = "lock_root" /\ h = pe[p].root
           \/ pe[p].op = "rtt_create" /\ pe[p].step = "locked" /\ h = mem[pe[p].rd].g_rtt
  <2>1. PICK d : d = pe[p].rd  OBVIOUS
  <2>2. d \in Granules /\ lk[d] = p /\ gs[d] = "RD" /\ h = mem[d].g_rtt
    BY <1>0, <1>6, <2>1 DEF CommandOk, WalkOk, TwoLocksOk, Holds
  <2>3. RootsFreed(Holder(d)) = 0  BY <1>0, <1>6, <2>2 DEF RootsFreed
  <2>4. mem[d] \in RdContent  BY <2>2 DEF OInv, Contents
  <2>5. mem[d].num_root_rtts \in Nat \ {0} /\ mem[d].g_rtt \in Nat  BY <2>4, GranulesAre DEF RdContent
  <2>6. 0 < mem[d].num_root_rtts /\ mem[d].g_rtt + 0 = h  BY <2>2, <2>5
  <2>7. h \in Granules /\ IsTable(h)  BY <2>2, <2>3, <2>6, NthRoot
  <2>8. \A g \in Granules : lk[g] = p => gs[g] # "RTT"
    <3>1. \A g \in Granules : lk[g] = p => g = d \/ (pe[p].op = "rtt_create" /\ g = pe[p].new)
      BY <1>0, <1>6, <2>1 DEF MayHold
    <3>2. pe[p].op = "rtt_create" => gs[pe[p].new] = "DELEGATED"
      BY <1>0, <1>6 DEF CommandOk, TwoLocksOk, Holds
    <3>3. QED  BY <3>1, <3>2, <2>2
  <2>9. \A g \in Granules : lk[g] = p => ~IsTable(g)  BY <1>1, <1>6, <2>8 DEF FillsRoots
  <2>10. QED  BY <2>7, <2>9, LaterRank
<1>7. CASE /\ pe[p].op \in {"rtt_create", "rtt_destroy"} /\ pe[p].step = "walk" /\ pe[p].i # 0
           /\ h = pe[p].root + pe[p].i
  <2>1. PICK d : d = pe[p].rd  OBVIOUS
  <2>2. /\ d \in Granules /\ gs[d] = "RD" /\ Pinned(d) /\ pe[p].root = mem[d].g_rtt
        /\ pe[p].i < mem[d].num_root_rtts
        /\ pe[p].op = "rtt_create" => gs[pe[p].new] = "DELEGATED"
    BY <1>0, <1>7, <2>1 DEF CommandOk, WalkOk, Holds
  <2>3. RootsFreed(Holder(d)) = 0  BY <2>2 DEF Pinned, RootsFreed
  <2>4. h \in Granules /\ IsTable(h)  BY <1>0, <1>7, <2>2, <2>3, NthRoot
  <2>5. ASSUME NEW g \in Granules, lk[g] = p PROVE Rank(g) < Rank(h)
    <3>1. g = pe[p].root \/ (pe[p].op = "rtt_create" /\ g = pe[p].new)
      BY <1>0, <1>7, <2>5 DEF MayHold
    <3>2. CASE g = pe[p].root
      <4>1. g < h  BY <3>2, <1>0, <1>7
      <4>2. QED  BY <4>1, <2>4, LaterRank
    <3>3. CASE pe[p].op = "rtt_create" /\ g = pe[p].new
      <4>1. ~IsTable(g)  BY <3>3, <1>1, <2>2, <2>5 DEF FillsRoots
      <4>2. QED  BY <4>1, <2>4, LaterRank
    <3>4. QED  BY <3>1, <3>2, <3>3
  <2>6. QED  BY <2>4, <2>5
<1>8. CASE pe[p].op = "rec_create" /\ pe[p].step \in {"aux", "failed"} /\ h = pe[p].aux[pe[p].i + 1]
           /\ pe[p].i < pe[p].naux
  <2>1. pe[p].i + 1 \in 1..pe[p].naux  BY <1>0, <1>8
  <2>2. h \in Granules  BY <1>0, <1>8, <2>1 DEF CommandOk, RecCreateOk
  <2>3. \A g \in Granules : lk[g] # p  BY <1>0, <1>8 DEF MayHold
  <2>4. QED  BY <2>2, <2>3
<1>9. CASE pe[p].op = "rec_destroy" /\ pe[p].step = "aux" /\ h = pe[p].aux[pe[p].i + 1]
  <2>1. PICK r : r = pe[p].new  OBVIOUS
  <2>2. /\ r \in Granules /\ lk[r] = p /\ gs[r] = "REC" /\ pe[p].aux = mem[r].g_aux
        /\ pe[p].naux = mem[r].num_aux /\ pe[p].i < pe[p].naux
    BY <1>0, <1>9, <2>1 DEF CommandOk, RecDestroyOk, Holds
  <2>3. AuxFreed(Holder(r)) = pe[p].i  BY <1>0, <1>9, <2>2 DEF AuxFreed
  <2>4. pe[p].i + 1 \in LiveAux(r) /\ r \in Recs  BY <1>0, <2>2, <2>3 DEF LiveAux, Recs
  <2>5. h \in Granules /\ gs[h] = "REC_AUX"
    BY <1>9, <2>2, <2>4, OwnedAreGranules DEF OInv, Owned, AuxOk
  <2>6. lk[h] = NoPE  BY <2>5, HeldState DEF OInv, LInv
  <2>7. QED  BY <2>5, <2>6
<1>10. pe[p].op = "rec_create" /\ pe[p].step = "aux" => pe[p].i < pe[p].naux
  BY <1>0 DEF CommandOk, RecCreateOk
<1>11. QED  BY <1>2, <1>3, <1>4, <1>5, <1>6, <1>7, <1>8, <1>9, <1>10, WantsAre

\* Every non-empty set of naturals has a least element.
LEMMA Least ==
  ASSUME NEW T \in SUBSET Nat, T # {}
  PROVE  \E n \in T : \A m \in T : n <= m
<1>1. PICK R : R = OpToRel(<, Nat)  BY Zenon
<1>2. IsWellFoundedOn(R, Nat)  BY <1>1, NatLessThanWellFounded, Zenon
<1>3. PICK n \in T : \A m \in T : ~(<<m, n>> \in R)  BY <1>2, WFMin
<1>4. \A a, b \in Nat : a < b => <<a, b>> \in R  BY <1>1, Zenon DEF OpToRel
<1>5. \A m \in T : n \in Nat /\ m \in Nat /\ ~(m < n)  BY <1>3, <1>4
<1>6. \A m \in T : n <= m  BY <1>5
<1>7. QED  BY <1>6

\* Of the PEs that wait for one another, the one that waits for the lock of the highest rank
\* waits for a PE that waits for a lock of a still higher rank.
LEMMA NoCycle ==
  ASSUME OInv, IdleForgets
  PROVE  NoCircularWait
<1> SUFFICES ASSUME NEW S \in SUBSET PE, S # {}, \A p \in S : \E q \in S : WaitsFor(p, q)
             PROVE  FALSE
  BY DEF NoCircularWait
<1> DEFINE Top == 2 * NumGranules
           T   == {n \in Nat : \E p \in S : \E h \in Wants(p) : lk[h] \in S /\ n = Top - Rank(h)}
<1>1. \A p \in S : \E h \in Wants(p) : lk[h] \in S /\ lk[h] # NoPE /\ h \in Granules
  BY PEAssumption, WaitsUpwards DEF WaitsFor
<1>2. \A h \in Granules : Rank(h) \in Nat /\ Top - Rank(h) \in Nat /\ Top \in Nat
  <2>1. Top \in Nat  BY SizesAssumption
  <2>2. \A h \in Granules : Rank(h) \in Nat /\ Rank(h) <= Top  BY RanksAre
  <2> HIDE DEF Top
  <2>3. QED  BY <2>1, <2>2
<1> HIDE DEF Top
<1>3. T \in SUBSET Nat /\ T # {}  BY <1>1, <1>2
<1>4. PICK n \in T : \A m \in T : n <= m  BY <1>3, Least
<1>5. PICK p \in S : \E h \in Wants(p) : lk[h] \in S /\ n = Top - Rank(h)  BY <1>4
<1>6. PICK h \in Wants(p) : lk[h] \in S /\ n = Top - Rank(h)  BY <1>5
<1>7. PICK q \in S : lk[h] = q  BY <1>6
<1>8. PICK x \in Wants(q) : lk[x] \in S /\ lk[x] # NoPE /\ x \in Granules  BY <1>1
<1>9. Top - Rank(x) \in T  BY <1>2, <1>8
<1>10. h \in Granules  BY WaitsUpwards
<1>11. Rank(h) < Rank(x)  BY <1>7, <1>8, <1>10, WaitsUpwards
<1>12. n <= Top - Rank(x)  BY <1>4, <1>9
<1>13. Rank(h) \in Nat /\ Rank(x) \in Nat /\ Top \in Nat  BY <1>2, <1>8, <1>10
<1>14. QED  BY <1>6, <1>11, <1>12, <1>13

\* No deadlock: the order in which the commands take locks has no cycle, whatever arguments
\* the host passes (find_lock_granules, s2tt_walk_lock_unlock, smc_realm_destroy).
THEOREM NoCircularWaitAlways == Spec => []NoCircularWait
<1>1. RmmInv => NoCircularWait  BY NoCycle DEF RmmInv
<1>2. QED  BY <1>1, RmmInvAlways, PTL
=============================================================================
