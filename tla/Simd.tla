-------------------------------- MODULE Simd --------------------------------
(***************************************************************************)
(* The SIMD context layer (lib/arch/src/simd.c) as operators on values.    *)
(* The contents of the vector registers are reduced to whose they are: q   *)
(* the FPU registers, z the rest of the Z registers, p the predicates and  *)
(* FFR.  sm is PSTATE.SM, zcr the vector length ZCR_EL2 allows.            *)
(***************************************************************************)
EXTENDS Naturals

CONSTANTS
  CpuSve,      \* is_feat_sve_present
  CpuSme,      \* is_feat_sme_present
  CpuVq        \* the largest vector length EL3 allows

\* Register contents that belong to nobody, and what the RMM's own code leaves.
Zeroed == "zeroed"
RmmData == "rmm"

Vregs(who) == [q |-> who, z |-> who, p |-> who]

\* struct simd_config as simd_init discovers it.
g_simd_cfg == [sve_en |-> CpuSve, sve_vq |-> IF CpuSve THEN CpuVq ELSE 0, sme_en |-> CpuSme]

validate_simd_config(cfg) ==
  /\ cfg.sve_en => g_simd_cfg.sve_en /\ cfg.sve_vq <= g_simd_cfg.sve_vq
  /\ cfg.sme_en => g_simd_cfg.sme_en

(***************************************************************************)
(* simd_context_init.  A realm's context counts as saved from the start:   *)
(* it is restored when the realm first uses the registers.                 *)
(***************************************************************************)
simd_context_init(owner, cfg, who) ==
  [owner |-> owner, init |-> validate_simd_config(cfg), saved |-> owner = "REL1",
   hint |-> FALSE, sve |-> cfg.sve_en, sme |-> cfg.sme_en, zcr |-> cfg.sve_vq, ns_zcr |-> 0,
   svcr |-> FALSE, vregs |-> Vregs(who)]

\* The hint of SMCCC v1.3: the caller has nothing in the SVE registers.
simd_update_smc_sve_hint(ctx, hint) == IF ctx.sve THEN [ctx EXCEPT !.hint = hint] ELSE ctx

Streaming(ctx, live) == ctx.sme /\ live.sm

FullSve(ctx, live) == Streaming(ctx, live) \/ (ctx.sve /\ ~ctx.hint)

-----------------------------------------------------------------------------
\* Mutant of restore_simd_el2_config: the vector length is left as the last owner set it.
restore_simd_el2_configSkipped(live, sve, zcr) == live

restore_simd_el2_config(live, sve, zcr) == IF sve THEN [live EXCEPT !.zcr = zcr] ELSE live

\* What a save stores: registers longer than the vector length of the moment are cut off.
sve_save_vector_registers(ctx, live) ==
  [live.vregs EXCEPT !.z = IF live.zcr < ctx.zcr THEN "cut" ELSE @]

fpu_save_registers(ctx, live) == [ctx.vregs EXCEPT !.q = live.vregs.q]

SavedVregs(ctx, live) ==
  IF FullSve(ctx, live) THEN sve_save_vector_registers(ctx, live) ELSE fpu_save_registers(ctx, live)

\* save_simd_context; leaving streaming mode clears the registers.
SaveCtx(ctx, live) ==
  LET l == restore_simd_el2_config(live, ctx.sve, ctx.zcr)
  IN  [ctx EXCEPT !.ns_zcr = IF ctx.owner = "NWD" /\ ctx.sve THEN live.zcr ELSE @,
                  !.svcr = IF ctx.sme THEN live.sm ELSE @,
                  !.vregs = SavedVregs(ctx, l),
                  !.saved = TRUE]

SaveLive(ctx, live) ==
  LET l == restore_simd_el2_config(live, ctx.sve, ctx.zcr)
  IN  IF Streaming(ctx, live) THEN [l EXCEPT !.sm = FALSE, !.vregs = Vregs(Zeroed)] ELSE l

sve_restore_vector_registers(ctx, live) == [live EXCEPT !.vregs = ctx.vregs]

\* The instructions that load the FPU registers clear the upper Z bits.
fpu_restore_registers(ctx, live) ==
  [live EXCEPT !.vregs = [@ EXCEPT !.q = ctx.vregs.q, !.z = Zeroed]]

sve_clear_p_ffr_registers(live) == [live EXCEPT !.vregs.p = Zeroed]

\* restore_simd_context: without a full restore the predicates of an SVE context are cleared.
RestoreLive(ctx, live) ==
  LET l  == restore_simd_el2_config(live, ctx.sve, ctx.zcr)
      l1 == IF ctx.sme /\ l.sm # ctx.svcr
            THEN [l EXCEPT !.sm = ctx.svcr, !.vregs = Vregs(Zeroed)] ELSE l
      l2 == IF FullSve(ctx, l1) THEN sve_restore_vector_registers(ctx, l1)
            ELSE LET f == fpu_restore_registers(ctx, l1)
                 IN  IF ctx.sve THEN sve_clear_p_ffr_registers(f) ELSE f
  IN  restore_simd_el2_config(l2, ctx.owner = "NWD" /\ ctx.sve, ctx.ns_zcr)

(***************************************************************************)
(* The two halves of simd_context_switch, on a PE's SIMD state [live,      *)
(* saved, ok]: saved is g_simd_state_saved and ok whether every assertion  *)
(* so far held.                                                            *)
(***************************************************************************)
SwitchOut(s, ctx) ==
  [live |-> SaveLive(ctx, s.live), saved |-> TRUE,
   ok |-> s.ok /\ ctx.init /\ ~ctx.saved /\ ~s.saved]

SwitchIn(s, ctx) ==
  [live |-> RestoreLive(ctx, s.live), saved |-> FALSE,
   ok |-> s.ok /\ ctx.init /\ ctx.saved /\ s.saved]

Restored(ctx) == [ctx EXCEPT !.saved = FALSE]

\* SIMD_FPU_ALLOW(expression): the RMM's own code uses the FPU registers.
SIMD_FPU_ALLOW(s) ==
  [s EXCEPT !.live.vregs = [@ EXCEPT !.q = RmmData, !.z = Zeroed], !.ok = s.ok /\ s.saved]

=============================================================================
