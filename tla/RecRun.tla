------------------------------- MODULE RecRun -------------------------------
(***************************************************************************)
(* RMI_REC_ENTER from the host's call to its return: the checks and        *)
(* completions of smc_rec_enter (rmi/run.c), the run loop (core/run.c) and *)
(* the exits (core/exit.c), on several PEs.  The realm is ACTIVE and its   *)
(* RECs are runnable (Psci and Rec have the rest).                         *)
(*                                                                         *)
(* A PE is at "host" in the Normal world, at "loop" before the checks of   *)
(* the run loop, at "realm" when the realm executes, and at "leave" and    *)
(* "save" in the two parts of the way back: the timer is read in both, and *)
(* it may fire in between.                                                 *)
(***************************************************************************)
EXTENDS Simd, Exits, FiniteSets, Sequences

CONSTANTS
  PE, REC, NoRec,
  SveRec,       \* the RECs of realms with SVE
  RealmVq,      \* their vector length
  PmuRec,       \* the RECs of realms with a PMU
  Aborts,       \* the accesses that may abort: [ext, area, isv, wr, xzr, aarch32]
  Sysregs,      \* the trapped system register accesses: [reg, wr, xzr]
  Simds,        \* the SIMD exceptions: a subset of {"FPU", "SVE", "SME"}
  Events,       \* the other causes of an exit
  Pages,        \* what a walk may find at the address of a host call
  Enters,       \* the flags of an entry: [sea, mmio]
  NsCalls,      \* the host's SIMD state at a call: [hint, sm, zcr], the SVE hint,
                \* PSTATE.SM and ZCR_EL2
  LrLists,      \* the list registers a host may hand in
  TimerCtls,    \* what the realm writes to its timer: on, or off (disabled or masked)
  NsFaults      \* whether the host takes its run page away: a subset of BOOLEAN

VARIABLES
  pe,           \* the PEs and their registers
  rec,          \* struct rec, with the SIMD context of its auxiliary granules
  page,         \* what a walk finds at the address of a host call
  due,          \* whether the time a REC's timer is set to has come
  told          \* the level of a REC's timer that the host was told last

vars == <<pe, rec, page, due, told>>

Causes == {"wfx", "hvc", "rsi", "rsi_fpu", "rsi_exit", "rsi_abort", "ripas", "host_call",
           "fiq", "irq", "serror"}
PageStates == {"mapped", "unmapped", "empty"}

AbortShape ==
  [ext : {"no", "UER", "UEO"}, area : {"outside", "empty", "par", "unprot"},
   isv : BOOLEAN, wr : BOOLEAN, xzr : BOOLEAN, aarch32 : BOOLEAN]
SysregShape == [reg : {"icc", "id", "other"}, wr : BOOLEAN, xzr : BOOLEAN]
LrShape == [valid : BOOLEAN, res0 : BOOLEAN, vintid : Nat]

(***************************************************************************)
(* What the constants are.  A realm has SVE only if the CPU has it, and    *)
(* its vector length is at most the CPU's (validate_realm_params); the     *)
(* host is in streaming mode only if there is SME; the interrupt registers *)
(* trap only for writes (the assertion of handle_icc_el1_sysreg_trap).     *)
(***************************************************************************)
Configured ==
  /\ NoRec \notin REC
  /\ SveRec \subseteq REC /\ PmuRec \subseteq REC
  /\ CpuSve \in BOOLEAN /\ CpuSme \in BOOLEAN /\ CpuVq \in Nat /\ RealmVq \in Nat
  /\ SveRec # {} => CpuSve /\ RealmVq <= CpuVq
  /\ Events \subseteq Causes /\ Pages \subseteq PageStates
  /\ Aborts \subseteq AbortShape /\ Simds \subseteq {"FPU", "SVE", "SME"}
  /\ Sysregs \subseteq {s \in SysregShape : s.reg = "icc" => s.wr}
  /\ Enters \subseteq [sea : BOOLEAN, mmio : BOOLEAN]
  /\ NsCalls \subseteq {c \in [hint : BOOLEAN, sm : BOOLEAN, zcr : Nat] : c.sm => CpuSme}
  /\ LrLists \subseteq Seq(LrShape)
  /\ TimerCtls \subseteq BOOLEAN /\ NsFaults \subseteq BOOLEAN

ASSUME RecRunAssumption == Configured

\* The owner of register contents, next to the RECs, Zeroed and RmmData.
Host == "ns"

RecCfg(r) == [sve_en |-> r \in SveRec, sve_vq |-> IF r \in SveRec THEN RealmVq ELSE 0,
              sme_en |-> FALSE]

-----------------------------------------------------------------------------
(***************************************************************************)
(* lib/gic: which list registers the host may hand in.  A list register is *)
(* [valid, res0, vintid]: res0 says whether a bit that has to be zero is   *)
(* set (HW, priority, physical identifier); vintid 0 is out of range.      *)
(***************************************************************************)
LrOk(lr) == ~lr.res0 /\ lr.vintid # 0

\* Mutant of gic_validate_state: only neighbours are compared.
gic_validate_stateNeighbours(lrs) ==
  \A i \in DOMAIN lrs :
    lrs[i].valid =>
      /\ LrOk(lrs[i])
      /\ \A j \in {i + 1} \cap DOMAIN lrs : lrs[j].valid => lrs[j].vintid # lrs[i].vintid

gic_validate_state(lrs) ==
  \A i \in DOMAIN lrs :
    lrs[i].valid =>
      /\ LrOk(lrs[i])
      /\ \A j \in (i + 1)..Len(lrs) : lrs[j].valid => lrs[j].vintid # lrs[i].vintid

-----------------------------------------------------------------------------
(***************************************************************************)
(* g_ns_data and the register banks of a PE.  sys stands for the EL1 and   *)
(* EL2 registers save_sysreg_state handles, pmu for the counters, keys for *)
(* the pointer authentication keys.  ctl is the realm's CNTx_CTL: whether  *)
(* the timer is enabled and not masked.                                    *)
(***************************************************************************)
NsCtx == simd_context_init("NWD", g_simd_cfg, Host)

QuietCall == [hint |-> FALSE, sm |-> FALSE, zcr |-> 0]

HostPe ==
  [at |-> "host", rec |-> NoRec, sys |-> Host, pmu |-> Host, keys |-> RmmData,
   ns_data |-> [sys |-> Zeroed, pmu |-> Zeroed], lrs |-> <<>>, ctl |-> FALSE, vse |-> FALSE,
   heap |-> FALSE, irq |-> FALSE, seen |-> FALSE, nsctx |-> NsCtx, call |-> QuietCall,
   simd |-> [live |-> [vregs |-> Vregs(Host), sm |-> FALSE, zcr |-> 0], saved |-> FALSE,
             ok |-> TRUE]]

\* A REC after smc_rec_create; its registers are its own from the start.
FreshRec(r) ==
  [exit |-> NewRec, ns |-> FALSE, active |-> "none", cptr |-> FALSE,
   ctx |-> simd_context_init("REL1", RecCfg(r), r), sys |-> r, pmu |-> r, keys |-> r,
   lrs |-> <<>>, ctl |-> FALSE, asserted |-> FALSE, cntmask |-> FALSE]

Init ==
  /\ pe = [p \in PE |-> HostPe]
  /\ rec = [r \in REC |-> FreshRec(r)]
  /\ page \in Pages
  /\ due = [r \in REC |-> FALSE]
  /\ told = [r \in REC |-> FALSE]

Running(r) == \E p \in PE : pe[p].rec = r

TIMER_ASSERTED(p) == pe[p].ctl /\ due[pe[p].rec]

-----------------------------------------------------------------------------
(***************************************************************************)
(* handle_ns_smc: the host calls with its own contents in the registers,   *)
(* and no state is saved.  NsSmcFpu is a command whose handler uses the    *)
(* FPU (rmi_handler_needs_fpu).                                            *)
(***************************************************************************)
NsSmc(p, call) ==
  [pe[p] EXCEPT !.call = call,
                !.nsctx = simd_update_smc_sve_hint(@, call.hint),
                !.simd = [live |-> [vregs |-> Vregs(Host), sm |-> call.sm, zcr |-> call.zcr],
                          saved |-> @.saved, ok |-> @.ok /\ ~@.saved]]

NsSmcFpu(p, call) ==
  LET c  == NsSmc(p, call)
      c1 == SaveCtx(c.nsctx, c.simd.live)
      s1 == SIMD_FPU_ALLOW(SwitchOut(c.simd, c.nsctx))
  IN  /\ pe[p].at = "host"
      /\ pe' = [pe EXCEPT ![p] = [c EXCEPT !.nsctx = Restored(c1), !.simd = SwitchIn(s1, c1)]]
      /\ UNCHANGED <<rec, page, due, told>>

-----------------------------------------------------------------------------
(***************************************************************************)
(* smc_rec_enter.  The REC must be unused.  Entries that are refused leave *)
(* the REC alone, but for the list registers, which are copied before the  *)
(* flags are checked.                                                      *)
(***************************************************************************)
Refused(r, enter) == SeaRefused(rec[r].exit, enter) \/ MmioRefused(rec[r].exit, enter)

RecEnterRefused(p, r, enter, lrs, call) ==
  /\ pe[p].at = "host" /\ ~Running(r)
  /\ ~gic_validate_state(lrs) \/ Refused(r, enter)
  /\ pe' = [pe EXCEPT ![p] = NsSmc(p, call)]
  /\ rec' = [rec EXCEPT ![r].lrs = IF gic_validate_state(lrs) THEN lrs ELSE @]
  /\ UNCHANGED <<page, due, told>>

\* The completions of the last exit, in the order of the code.
Completed(x, enter) ==
  complete_sysreg_emulation(
    complete_set_ripas(complete_mmio_emulation(complete_sea_insertion(x, enter), enter)))

(***************************************************************************)
(* The page of a pending host call cannot be reached: the host gets an     *)
(* emulated data abort in an exit structure that is zero otherwise, the    *)
(* realm does not run and the host call stays pending.                     *)
(***************************************************************************)
RecEnterAborted(p, r, enter, lrs, call) ==
  /\ pe[p].at = "host" /\ ~Running(r)
  /\ gic_validate_state(lrs) /\ ~Refused(r, enter)
  /\ HostCallAborts(rec[r].exit, page)
  /\ pe' = [pe EXCEPT ![p] = NsSmc(p, call)]
  /\ rec' = [rec EXCEPT ![r].lrs = lrs, ![r].exit = Completed(@, enter)]
  /\ told' = [told EXCEPT ![r] = FALSE]
  /\ UNCHANGED <<page, due>>

(***************************************************************************)
(* The register banks on the way in: those of the host are saved in        *)
(* g_ns_data, those of the REC loaded.  HCR_EL2 is the REC's, without VSE. *)
(***************************************************************************)
restore_sysreg_state(c, sys, ctl) == [c EXCEPT !.sys = sys, !.ctl = ctl]

pmu_restore_state(c, r, from) == IF r \in PmuRec THEN [c EXCEPT !.pmu = from] ELSE c

gic_restore_state(c, lrs) == [c EXCEPT !.lrs = lrs]

save_ns_state(c, r) ==
  [c EXCEPT !.ns_data = [sys |-> c.sys, pmu |-> IF r \in PmuRec THEN c.pmu ELSE @.pmu]]

restore_realm_state(c, r, lrs) ==
  LET loaded == restore_sysreg_state(c, rec[r].sys, rec[r].ctl)
  IN  [pmu_restore_state(gic_restore_state(loaded, lrs), r, rec[r].pmu) EXCEPT !.vse = FALSE]

RecEnterRun(p, r, enter, lrs, call) ==
  /\ pe[p].at = "host" /\ ~Running(r)
  /\ gic_validate_state(lrs) /\ ~Refused(r, enter)
  /\ ~HostCallAborts(rec[r].exit, page)
  /\ pe' = [pe EXCEPT ![p] = [restore_realm_state(save_ns_state(NsSmc(p, call), r), r, lrs) EXCEPT
                                 !.at = "loop", !.rec = r, !.heap = TRUE]]
  /\ rec' = [rec EXCEPT ![r] = [@ EXCEPT
               !.exit = reset_last_run_info(complete_host_call(Completed(rec[r].exit, enter), page)),
               !.lrs = lrs, !.ns = TRUE, !.active = "ns"]]
  /\ UNCHANGED <<page, due, told>>

-----------------------------------------------------------------------------
(***************************************************************************)
(* The run loop.  check_pending_timers masks the timer interrupt at EL2 as *)
(* long as the timer is asserted, and goes back to the host when the level *)
(* differs from the one at the last exit; otherwise a pending SError is    *)
(* made visible (activate_events) and the realm runs.                      *)
(***************************************************************************)
LoopEntersRealm(p) == TIMER_ASSERTED(p) = rec[pe[p].rec].asserted

activate_events(c, r) == [c EXCEPT !.vse = @ \/ rec[r].exit.serror]

pauth_restore_realm_keys(c, r) == [c EXCEPT !.keys = rec[r].keys]

check_pending_timers(p) ==
  LET r == pe[p].rec IN
  /\ pe[p].at = "loop"
  /\ IF LoopEntersRealm(p)
     THEN /\ rec' = [rec EXCEPT ![r] = [@ EXCEPT !.cntmask = TIMER_ASSERTED(p),
                                                !.exit.serror = FALSE]]
          /\ pe' = [pe EXCEPT ![p] =
                       [pauth_restore_realm_keys(activate_events(@, r), r) EXCEPT !.at = "realm"]]
     ELSE /\ rec' = [rec EXCEPT ![r].cntmask = TIMER_ASSERTED(p)]
          /\ pe' = [pe EXCEPT ![p].at = "leave"]
  /\ UNCHANGED <<page, due, told>>

pauth_save_realm_keys(x, c) == [x EXCEPT !.keys = c.keys]

pauth_restore_rmm_keys(c) == [c EXCEPT !.keys = RmmData]

\* run_realm returns: the realm's keys are saved, the RMM's are put back, and the exit is
\* handled; `res` says how, `simd`, `nsctx` and `new` what the handler leaves.
RunRealm(p, res, simd, nsctx, new) ==
  /\ pe' = [pe EXCEPT ![p] = [pauth_restore_rmm_keys(@) EXCEPT
                                 !.at = IF res.to_realm THEN "loop" ELSE "leave",
                                 !.simd = simd, !.nsctx = nsctx]]
  /\ rec' = [rec EXCEPT ![pe[p].rec] = [pauth_save_realm_keys(new, pe[p]) EXCEPT !.exit = res.rec]]
  /\ UNCHANGED <<page, due, told>>

\* An exit whose handler leaves the SIMD contexts alone.
handle_realm_exit(p, res) == RunRealm(p, res, pe[p].simd, pe[p].nsctx, rec[pe[p].rec])

Exit(p) == rec[pe[p].rec].exit

handle_exception_sync(p) ==
  \/ \E a \in Aborts, hpfar \in BOOLEAN :
       \/ handle_realm_exit(p, handle_data_abort(Exit(p), a, hpfar))
       \/ handle_realm_exit(p, handle_instruction_abort(Exit(p), a))
  \/ \E s \in Sysregs : handle_realm_exit(p, handle_sysreg_access_trap(Exit(p), s))
  \/ /\ "wfx" \in Events
     /\ handle_realm_exit(p, Out(Last(advance_pc(Trapped(Exit(p), "wfx", "")), LastEc("wfx"))))
  \/ /\ "hvc" \in Events
     /\ handle_realm_exit(p, Back(Inject(Trapped(Exit(p), "undef", ""))))

handle_realm_rsi(p) ==
  \/ "rsi" \in Events /\ handle_realm_exit(p, RsiAnswered(Exit(p), FALSE))
  \/ "rsi_exit" \in Events /\ handle_realm_exit(p, RsiAnswered(Exit(p), TRUE))
  \/ "rsi_abort" \in Events /\ handle_realm_exit(p, RsiStage2Abort(Exit(p)))
  \/ "ripas" \in Events /\ handle_realm_exit(p, RsiIpaStateSet(Exit(p)))
  \/ "host_call" \in Events /\ handle_realm_exit(p, handle_rsi_host_call(Exit(p), page))

(***************************************************************************)
(* An RSI call that uses the FPU: the active context, the host's or the    *)
(* realm's, is saved before and restored after.                            *)
(***************************************************************************)
RsiFpu(p, exit) ==
  LET r   == pe[p].rec
      act == IF rec[r].active = "rec" THEN rec[r].ctx ELSE pe[p].nsctx
      c1  == SaveCtx(act, pe[p].simd.live)
      s   == SwitchIn(SIMD_FPU_ALLOW(SwitchOut(pe[p].simd, act)), c1)
      own == rec[r].active = "rec"
  IN  RunRealm(p, RsiAnswered(Exit(p), exit), s,
               IF own THEN pe[p].nsctx ELSE Restored(c1),
               IF own THEN [rec[r] EXCEPT !.ctx = Restored(c1)] ELSE rec[r])

\* realm_inject_undef_abort instead of the realm's use of SVE or SME.
SimdUndef(r, ec) ==
  \/ ec = "SVE" /\ r \notin SveRec
  \/ ec = "SME" /\ (r \notin SveRec \/ rec[r].active = "rec")

\* The use that traps: everything while the realm's context is not live, SME always.
SimdTraps(r, ec) == ~rec[r].cptr \/ ec = "SME" \/ (ec = "SVE" /\ r \notin SveRec)

handle_simd_exception(p, ec) ==
  LET r == pe[p].rec
      s == SwitchIn(SwitchOut(pe[p].simd, pe[p].nsctx), rec[r].ctx)
  IN  /\ SimdTraps(r, ec)
      /\ IF SimdUndef(r, ec)
         THEN handle_realm_exit(p, Back(Inject(Trapped(Exit(p), "undef", ""))))
         ELSE RunRealm(p, Back(Trapped(Exit(p), "simd", "")),
                       [s EXCEPT !.ok = @ /\ rec[r].active = "ns"],
                       SaveCtx(pe[p].nsctx, pe[p].simd.live),
                       [rec[r] EXCEPT !.active = "rec", !.cptr = TRUE, !.ctx = Restored(@)])

\* A physical interrupt: the host's, or the realm's timer while it is not masked at EL2.
PhysicalIrq(p) == pe[p].irq \/ (TIMER_ASSERTED(p) /\ ~rec[pe[p].rec].cntmask)

\* Mutant of handle_exception_irq_lel: the realm goes on.
handle_exception_irq_lelBack(p) ==
  handle_realm_exit(p, Back(Trapped(Exit(p), "irq", "")))

handle_exception_irq_lel(p) == handle_realm_exit(p, Out(Trapped(Exit(p), "irq", "")))

RealmIrq(p) == pe[p].at = "realm" /\ PhysicalIrq(p) /\ handle_exception_irq_lel(p)

RealmSError(p, aet) ==
  "serror" \in Events /\ handle_realm_exit(p, handle_exception_serror_lel(Exit(p), aet))

RealmExit(p) ==
  /\ pe[p].at = "realm"
  /\ \/ handle_exception_sync(p)
     \/ handle_realm_rsi(p)
     \/ "rsi_fpu" \in Events /\ \E exit \in BOOLEAN : RsiFpu(p, exit)
     \/ \E ec \in Simds : handle_simd_exception(p, ec)
     \/ "fiq" \in Events /\ handle_realm_exit(p, Out(Trapped(Exit(p), "fiq", "")))
     \/ \E aet \in {"UER", "CE"} : RealmSError(p, aet)

-----------------------------------------------------------------------------
(***************************************************************************)
(* The way back.  First the SIMD registers go back to the host and the     *)
(* timer is read for the host (report_timer_state_to_ns) ...               *)
(***************************************************************************)
\* Mutant of ReportedLevel: only a change since the last exit is reported.
ReportedLevelChanged(p) == TIMER_ASSERTED(p) /\ ~rec[pe[p].rec].asserted

ReportedLevel(p) == TIMER_ASSERTED(p)

\* Mutant of GiveBackSimd: the REC's context is only given up, not saved.
GiveBackSimdForgets(p) ==
  LET r == pe[p].rec IN
  /\ pe' = [pe EXCEPT ![p] = [@ EXCEPT !.at = "save", !.seen = ReportedLevel(p)]]
  /\ rec' = [rec EXCEPT ![r] = [@ EXCEPT !.active = "none", !.cptr = FALSE]]

GiveBackSimd(p) ==
  LET r   == pe[p].rec
      c   == pe[p]
      x   == rec[r]
      own == x.active = "rec"
      s   == SwitchIn(SwitchOut(c.simd, x.ctx), c.nsctx)
  IN  /\ pe' = [pe EXCEPT ![p] = [@ EXCEPT !.at = "save", !.seen = ReportedLevel(p),
                                          !.simd = IF own THEN s ELSE c.simd,
                                          !.nsctx = IF own THEN Restored(c.nsctx) ELSE c.nsctx]]
      /\ rec' = [rec EXCEPT ![r] = [@ EXCEPT
                   !.active = "none", !.cptr = FALSE,
                   !.ctx = IF own THEN SaveCtx(x.ctx, c.simd.live) ELSE x.ctx]]

report_timer_state_to_ns(p) ==
  /\ pe[p].at = "leave"
  /\ GiveBackSimd(p)
  /\ UNCHANGED <<page, due, told>>

(***************************************************************************)
(* ... then the realm's registers, the timer's among them, are saved, the  *)
(* host's restored, and the exit structure is written to the host's page,  *)
(* if it still is the host's.                                              *)
(***************************************************************************)
save_sysreg_state(x, c, asserted) == [x EXCEPT !.sys = c.sys, !.ctl = c.ctl, !.asserted = asserted]

gic_save_state(x, c) == [x EXCEPT !.lrs = c.lrs]

pmu_save_state(x, c, r) == IF r \in PmuRec THEN [x EXCEPT !.pmu = c.pmu] ELSE x

\* The realm's interrupts and timers end with its registers.
restore_ns_state(c, r) ==
  [gic_restore_state(
     pmu_restore_state(restore_sysreg_state(c, c.ns_data.sys, FALSE), r, c.ns_data.pmu), <<>>)
   EXCEPT !.ns_data = [sys |-> Zeroed, pmu |-> Zeroed], !.vse = FALSE]

save_realm_state(p, fault) ==
  LET r == pe[p].rec
      c == pe[p]
  IN
  /\ c.at = "save"
  /\ rec' = [rec EXCEPT ![r] =
               [pmu_save_state(gic_save_state(save_sysreg_state(@, c, TIMER_ASSERTED(p)), c), c, r)
                EXCEPT !.ns = FALSE]]
  /\ pe' = [pe EXCEPT ![p] = [restore_ns_state(c, r) EXCEPT
               !.at = "host", !.rec = NoRec, !.heap = FALSE, !.irq = FALSE, !.seen = FALSE]]
  /\ told' = [told EXCEPT ![r] = IF fault THEN @ ELSE pe[p].seen]
  /\ UNCHANGED <<page, due>>

-----------------------------------------------------------------------------
(***************************************************************************)
(* What happens next to the RMM: a host interrupt; the realm sets its      *)
(* timer, acknowledges an interrupt or takes a virtual SError; time comes; *)
(* the host or another REC changes the page of the host call.              *)
(***************************************************************************)
HostIrq(p) ==
  /\ "irq" \in Events
  /\ pe[p].at \in {"loop", "realm"} /\ ~pe[p].irq
  /\ pe' = [pe EXCEPT ![p].irq = TRUE]
  /\ UNCHANGED <<rec, page, due, told>>

RealmSetsTimer(p, ctl) ==
  /\ pe[p].at = "realm"
  /\ pe' = [pe EXCEPT ![p].ctl = ctl]
  /\ due' = [due EXCEPT ![pe[p].rec] = FALSE]
  /\ UNCHANGED <<rec, page, told>>

RealmAcknowledges(p, i) ==
  /\ pe[p].at = "realm" /\ pe[p].lrs[i].valid
  /\ pe' = [pe EXCEPT ![p].lrs[i].valid = FALSE]
  /\ UNCHANGED <<rec, page, due, told>>

RealmTakesSError(p) ==
  /\ pe[p].at = "realm" /\ pe[p].vse
  /\ pe' = [pe EXCEPT ![p].vse = FALSE]
  /\ UNCHANGED <<rec, page, due, told>>

TimerFires(r) ==
  /\ TimerCtls # {} /\ ~due[r]
  /\ due' = [due EXCEPT ![r] = TRUE]
  /\ UNCHANGED <<pe, rec, page, told>>

PageChanges ==
  /\ page' \in Pages \ {page}
  /\ UNCHANGED <<pe, rec, due, told>>

smc_rec_enter(p) ==
  \E r \in REC, enter \in Enters, lrs \in LrLists, call \in NsCalls :
    \/ RecEnterRefused(p, r, enter, lrs, call)
    \/ RecEnterAborted(p, r, enter, lrs, call)
    \/ RecEnterRun(p, r, enter, lrs, call)

rec_run_loop(p) ==
  \/ check_pending_timers(p)
  \/ report_timer_state_to_ns(p)
  \/ \E fault \in NsFaults : save_realm_state(p, fault)

Next ==
  \/ \E p \in PE :
       \/ \E call \in NsCalls : NsSmcFpu(p, call)
       \/ smc_rec_enter(p)
       \/ rec_run_loop(p)
       \/ RealmExit(p) \/ RealmIrq(p)
       \/ HostIrq(p)
       \/ \E ctl \in TimerCtls : RealmSetsTimer(p, ctl)
       \/ \E i \in DOMAIN pe[p].lrs : RealmAcknowledges(p, i)
       \/ RealmTakesSError(p)
  \/ \E r \in REC : TimerFires(r)
  \/ PageChanges

(***************************************************************************)
(* A PE does not stop in the RMM, and an interrupt that keeps coming up    *)
(* while the realm executes is taken.  For the timer the host must come    *)
(* back to the REC, its own interrupts must end the realm's run, and it    *)
(* must answer the emulated data abort of a host call by mapping the page. *)
(***************************************************************************)
RmmFairness == \A p \in PE : WF_vars(rec_run_loop(p)) /\ SF_vars(RealmIrq(p))

HostFairness ==
  /\ WF_vars(PageChanges /\ page' = "mapped")
  /\ \A p \in PE : /\ WF_vars(HostIrq(p))
                   /\ SF_vars(\E r \in REC, enter \in Enters, lrs \in LrLists, call \in NsCalls :
                                RecEnterRun(p, r, enter, lrs, call))

Spec == Init /\ [][Next]_vars /\ RmmFairness /\ HostFairness

-----------------------------------------------------------------------------
(***************************************************************************)
(* What an exit left open is completed exactly once, and completely: when  *)
(* the realm runs, its pc and registers are what the instruction that      *)
(* trapped, and nothing else, allows.  In particular an access to          *)
(* protected memory is only ever retried, a host's value only goes into    *)
(* the register of an emulated load, no instruction is skipped twice, and  *)
(* an injected abort returns to the instruction that caused it.  A host    *)
(* call is answered in its buffer and in X0 together, or, on an EMPTY      *)
(* page, in neither (HostCallAnswered is about that case).                 *)
(***************************************************************************)
ExitsCompletedOnce ==
  \A p \in PE : pe[p].at = "realm" => ResumedRight(Exit(p))

(***************************************************************************)
(* What the comment in complete_rsi_host_call promises for a host call     *)
(* whose page became EMPTY meanwhile: "In this case, we return RSI_SUCCESS *)
(* to Realm".  do_host_call leaves rec->regs[0] alone on that path.        *)
(***************************************************************************)
HostCallAnswered ==
  \A p \in PE : pe[p].at = "realm" /\ Exit(p).trap = "host_call" => Exit(p).x0 = "result"

SimdOf(who, live, sve) ==
  /\ live.vregs.q = who
  /\ sve => live.vregs.z = who /\ live.vregs.p = who

(***************************************************************************)
(* Registers are never mixed up: whenever a realm executes, every bank it  *)
(* can use holds its own contents - the vector registers once it may use   *)
(* them, the counters if it has them - and the host finds its own when the *)
(* command returns, up to the SVE state it said it does not need.          *)
(***************************************************************************)
RegistersIsolated ==
  \A p \in PE :
    LET c == pe[p]
        r == c.rec
    IN
    /\ c.at = "realm" =>
         /\ c.sys = r /\ c.keys = r
         /\ r \in PmuRec => c.pmu = r
         /\ rec[r].cptr => /\ SimdOf(r, c.simd.live, r \in SveRec)
                           /\ r \in SveRec => c.simd.live.zcr = RealmVq
    /\ c.at = "host" =>
         /\ c.sys = Host /\ c.pmu = Host /\ c.keys = RmmData
         /\ ~c.simd.saved
         /\ SimdOf(Host, c.simd.live, CpuSve /\ (~c.call.hint \/ c.call.sm))
         /\ {c.simd.live.vregs.z, c.simd.live.vregs.p} \subseteq {Host, Zeroed}
         /\ c.simd.live.sm = c.call.sm /\ c.simd.live.zcr = c.call.zcr

(***************************************************************************)
(* The assertions on the way: simd_context_switch is never asked to save   *)
(* what is saved or to restore what is live, rec_run_loop finds ns and     *)
(* active_simd_ctx clear, and the heap belongs to the REC that runs.       *)
(***************************************************************************)
RunAssertsHold ==
  /\ \A p \in PE : pe[p].simd.ok /\ (pe[p].heap <=> pe[p].at # "host")
  /\ \A r \in REC : ~Running(r) => /\ ~rec[r].ns /\ rec[r].active = "none" /\ ~rec[r].cptr
                                   /\ rec[r].ctx.saved

\* The list registers in use are never ones whose effect is UNPREDICTABLE: each holds an
\* interrupt the host may inject, and no interrupt is in two of them.
LrsPredictable ==
  \A p \in PE : pe[p].at = "realm" =>
    LET used == {i \in DOMAIN pe[p].lrs : pe[p].lrs[i].valid} IN
    /\ \A i \in used : LrOk(pe[p].lrs[i])
    /\ \A i, j \in used : i # j => pe[p].lrs[i].vintid # pe[p].lrs[j].vintid

(***************************************************************************)
(* A host interrupt that arrives while the RMM or the realm has the PE     *)
(* gives the PE back to the host, whatever the realm does.                 *)
(***************************************************************************)
HostInterruptReturns == \A p \in PE : (pe[p].irq /\ pe[p].at # "host") ~> (pe[p].at = "host")

\* The level of the timer as the realm has set it.
Level(r) == due[r] /\ IF Running(r) THEN \E p \in PE : pe[p].rec = r /\ pe[p].ctl ELSE rec[r].ctl

(***************************************************************************)
(* A timer interrupt is not lost: the host is told that the timer of a REC *)
(* is asserted, unless the realm stops or moves it, if the host keeps      *)
(* entering the REC and has interrupts of its own.                         *)
(***************************************************************************)
TimerReachesHost == \A r \in REC : Level(r) ~> (told[r] \/ ~Level(r))

(***************************************************************************)
(* core/run.c, in the loop: "that we report any change in output level to  *)
(* the NS caller".  When the realm is entered, the host knows the level.   *)
(***************************************************************************)
EntryKnowsLevel ==
  \A p \in PE : (pe[p].at = "loop" /\ pe'[p].at = "realm") =>
                   TIMER_ASSERTED(p) = told[pe[p].rec]

TimerLevelReported == [][EntryKnowsLevel]_vars
=============================================================================
