---------------------------- MODULE RecRunProofs ----------------------------
(***************************************************************************)
(* The register banks are never mixed up, the assertions of the SIMD layer *)
(* hold, the list registers are predictable and every exit is completed    *)
(* once, for every set of PEs and RECs, every CPU with or without SVE and  *)
(* SME and every sequence of exits, entries and interrupts.                *)
(***************************************************************************)
EXTENDS RecRun, TLAPS

(***************************************************************************)
(* Types.  An owner is whose contents a register bank holds; "cut" are the *)
(* contents that a save under a shorter vector length truncates.           *)
(***************************************************************************)
Owner == REC \cup {Host, Zeroed, RmmData, "cut"}
VregsType == [q : Owner, z : Owner, p : Owner]
LiveType == [vregs : VregsType, sm : BOOLEAN, zcr : Nat]
SimdType == [live : LiveType, saved : BOOLEAN, ok : BOOLEAN]
CtxType ==
  [owner : {"NWD", "REL1"}, init : BOOLEAN, saved : BOOLEAN, hint : BOOLEAN, sve : BOOLEAN,
   sme : BOOLEAN, zcr : Nat, ns_zcr : Nat, svcr : BOOLEAN, vregs : VregsType]
CallType == {c \in [hint : BOOLEAN, sm : BOOLEAN, zcr : Nat] : c.sm => CpuSme}

LastType ==
  [ec : {"none", "dabt", "iabt", "wfx", "sysreg", "smc", "serror"}, isv : BOOLEAN, wr : BOOLEAN,
   unprot : BOOLEAN, xzr : BOOLEAN]
Pc == {"at", "next", "vector", "beyond"}
Traps == {"start", "irq", "fiq", "serror", "simd", "undef", "wfx", "dabt", "iabt", "sysreg", "rsi",
          "ripas", "rsi_abort", "host_call"}
Areas == {"", "par", "outside", "empty", "unprot", "ext", "icc", "id", "other"}
ExitType ==
  [pc : Pc, elr : Pc \cup {"old"}, x0 : {"old", "fid", "result"},
   rt : {"old", "host", "icc", "id", "other"}, last : LastType, host_call : BOOLEAN,
   ripas : BOOLEAN, serror : BOOLEAN, trap : Traps, area : Areas,
   buf : {"none", "args", "answer", "skipped"}]

PeType ==
  [at : {"host", "loop", "realm", "leave", "save"}, rec : REC \cup {NoRec}, sys : Owner,
   pmu : Owner, keys : Owner, ns_data : [sys : Owner, pmu : Owner], lrs : Seq(LrShape),
   ctl : BOOLEAN, vse : BOOLEAN, heap : BOOLEAN, irq : BOOLEAN, seen : BOOLEAN,
   nsctx : CtxType, call : CallType, simd : SimdType]
RecType ==
  [exit : ExitType, ns : BOOLEAN, active : {"none", "ns", "rec"}, cptr : BOOLEAN,
   ctx : CtxType, sys : Owner, pmu : Owner, keys : Owner, lrs : Seq(LrShape),
   ctl : BOOLEAN, asserted : BOOLEAN, cntmask : BOOLEAN]

Types ==
  /\ pe \in [PE -> PeType]
  /\ rec \in [REC -> RecType]
  /\ page \in PageStates
  /\ due \in [REC -> BOOLEAN]
  /\ told \in [REC -> BOOLEAN]

-----------------------------------------------------------------------------
(***************************************************************************)
(* The vector registers.  They are the host's (HostLive), the realm's      *)
(* (RealmLive), or parked between a save and a restore; the context that   *)
(* is not live holds what its owner gets back.                             *)
(***************************************************************************)
NsShape(ctx, call) ==
  /\ ctx.owner = "NWD" /\ ctx.init
  /\ ctx.sve = CpuSve /\ ctx.sme = CpuSme /\ ctx.zcr = g_simd_cfg.sve_vq
  /\ CpuSve => ctx.hint = call.hint

RecShape(ctx, r) ==
  /\ ctx.owner = "REL1" /\ ctx.init
  /\ ctx.sve = (r \in SveRec) /\ ~ctx.sme /\ ~ctx.hint /\ ctx.zcr = RecCfg(r).sve_vq
  /\ ctx.vregs.q = r
  /\ r \in SveRec => ctx.vregs.z = r /\ ctx.vregs.p = r

HostLive(live, call) ==
  /\ SimdOf(Host, live, CpuSve /\ (~call.hint \/ call.sm))
  /\ live.vregs.z \in {Host, Zeroed} /\ live.vregs.p \in {Host, Zeroed}
  /\ live.sm = call.sm /\ live.zcr = call.zcr

HostSaved(ctx, call) ==
  /\ ctx.vregs.q = Host
  /\ CpuSme => ctx.svcr = call.sm
  /\ CpuSve => ctx.ns_zcr = call.zcr
  /\ call.sm \/ (CpuSve /\ ~call.hint) =>
       /\ ctx.vregs.z \in {Host, Zeroed} /\ ctx.vregs.p \in {Host, Zeroed}
       /\ CpuSve => ctx.vregs.z = Host /\ ctx.vregs.p = Host

\* Without SVE nothing ever writes the predicates or ZCR_EL2.
Parked(live, call) ==
  /\ ~live.sm
  /\ ~CpuSve => live.vregs.p \in {Host, Zeroed} /\ live.zcr = call.zcr

RealmLive(live, r, call) ==
  /\ SimdOf(r, live, r \in SveRec)
  /\ r \in SveRec => live.zcr = RealmVq
  /\ Parked(live, call)

-----------------------------------------------------------------------------
(***************************************************************************)
(* What an exit leaves.  Settled: the realm may run on.  Open: what the    *)
(* next entry has to complete, nothing, a data abort, a change of RIPAS or *)
(* a host call.                                                            *)
(***************************************************************************)
Settled(x) == x.last = NoAbort /\ ~x.host_call /\ ~x.ripas /\ ResumedRight(x)

NothingOpen(x) ==
  /\ x.last.ec # "dabt" /\ (x.last.ec = "sysreg" => x.last.wr)
  /\ ~x.host_call /\ ~x.ripas /\ ResumedRight(x)

DataAbortOpen(x) ==
  /\ x.trap = "dabt" /\ x.last.ec = "dabt" /\ ~x.host_call /\ ~x.ripas /\ x.rt = "old"
  /\ \/ x.area = "par" /\ x.pc = "at" /\ ~x.last.isv /\ ~x.last.unprot
     \/ x.area = "ext" /\ x.pc \in {"at", "vector"} /\ ~x.last.isv
     \/ x.area = "unprot" /\ x.pc = "at" /\ x.elr = "old"

RipasOpen(x) ==
  x.trap = "ripas" /\ AtNext(x) /\ x.ripas /\ ~x.host_call /\ x.last.ec = "smc"

HostCallOpen(x) ==
  /\ x.trap = "host_call" /\ AtNext(x) /\ ~x.ripas /\ x.host_call /\ x.last.ec = "smc"
  /\ x.x0 = "fid"

Open(x) == NothingOpen(x) \/ DataAbortOpen(x) \/ RipasOpen(x) \/ HostCallOpen(x)

LrsUsable(lrs) ==
  LET used == {i \in DOMAIN lrs : lrs[i].valid} IN
  /\ \A i \in used : LrOk(lrs[i])
  /\ \A i, j \in used : i # j => lrs[i].vintid # lrs[j].vintid

-----------------------------------------------------------------------------
(***************************************************************************)
(* The inductive invariant, on the values c of a PE and x of a REC: a PE   *)
(* at the host, a REC nobody runs, and a PE c that runs the REC r with     *)
(* value x.                                                                *)
(***************************************************************************)
OwnBanks(r, x) == x.sys = r /\ x.pmu = r /\ x.keys = r

HostOk(c) ==
  /\ c.rec = NoRec /\ ~c.heap
  /\ c.sys = Host /\ c.pmu = Host /\ c.keys = RmmData
  /\ c.simd.ok /\ ~c.simd.saved /\ HostLive(c.simd.live, c.call)
  /\ NsShape(c.nsctx, c.call) /\ ~c.nsctx.saved

IdleOk(r, x) ==
  /\ OwnBanks(r, x) /\ ~x.ns /\ x.active = "none" /\ ~x.cptr
  /\ RecShape(x.ctx, r) /\ x.ctx.saved
  /\ Open(x.exit)

RunBanks(r, c) ==
  /\ c.sys = r /\ c.ns_data.sys = Host
  /\ c.keys = IF c.at = "realm" THEN r ELSE RmmData
  /\ IF r \in PmuRec THEN c.pmu = r /\ c.ns_data.pmu = Host ELSE c.pmu = Host

RunSimd(r, c, x) ==
  /\ c.simd.ok /\ ~c.simd.saved /\ NsShape(c.nsctx, c.call) /\ RecShape(x.ctx, r)
  /\ \/ /\ x.active = IF c.at = "save" THEN "none" ELSE "ns"
        /\ ~x.cptr /\ x.ctx.saved
        /\ HostLive(c.simd.live, c.call) /\ ~c.nsctx.saved
     \/ /\ c.at # "save" /\ x.active = "rec"
        /\ x.cptr /\ ~x.ctx.saved
        /\ RealmLive(c.simd.live, r, c.call)
        /\ HostSaved(c.nsctx, c.call) /\ c.nsctx.saved

RunExit(c, x) == IF c.at \in {"loop", "realm"} THEN Settled(x.exit) ELSE Open(x.exit)

RunOk(r, c, x) ==
  /\ c.at # "host" /\ c.rec = r /\ c.heap /\ x.ns /\ OwnBanks(r, x)
  /\ RunBanks(r, c) /\ RunSimd(r, c, x) /\ RunExit(c, x)
  /\ c.at \in {"loop", "realm"} => LrsUsable(c.lrs)

RunInv ==
  /\ Types
  /\ \A p \in PE : pe[p].at = "host" => HostOk(pe[p])
  /\ \A p \in PE : pe[p].at # "host" =>
       pe[p].rec \in REC /\ RunOk(pe[p].rec, pe[p], rec[pe[p].rec])
  /\ \A r \in REC : ~Running(r) => IdleOk(r, rec[r])
  /\ \A p, q \in PE : pe[p].rec = pe[q].rec /\ pe[p].rec # NoRec => p = q


-----------------------------------------------------------------------------
(***************************************************************************)
(* The SIMD layer on typed contexts.                                       *)
(***************************************************************************)
LEMMA Config ==
  /\ CpuSve \in BOOLEAN /\ CpuSme \in BOOLEAN /\ CpuVq \in Nat /\ RealmVq \in Nat
  /\ SveRec \subseteq REC /\ PmuRec \subseteq REC /\ NoRec \notin REC
  /\ SveRec # {} => CpuSve /\ RealmVq <= CpuVq
  /\ g_simd_cfg.sve_vq = IF CpuSve THEN CpuVq ELSE 0
  /\ \A r : RecCfg(r).sve_vq = IF r \in SveRec THEN RealmVq ELSE 0
BY RecRunAssumption DEF Configured, g_simd_cfg, RecCfg

LEMMA OwnerHas == {Host, Zeroed, RmmData, "cut"} \subseteq Owner /\ REC \subseteq Owner
BY DEF Owner

\* The EL2 configuration: with SVE the vector length is the context's.
LEMMA El2Config ==
  ASSUME NEW live \in LiveType, NEW sve \in BOOLEAN, NEW zcr \in Nat
  PROVE  /\ restore_simd_el2_config(live, sve, zcr) \in LiveType
         /\ restore_simd_el2_config(live, sve, zcr).vregs = live.vregs
         /\ restore_simd_el2_config(live, sve, zcr).sm = live.sm
         /\ restore_simd_el2_config(live, sve, zcr).zcr = IF sve THEN zcr ELSE live.zcr
BY DEF restore_simd_el2_config, LiveType

\* What a save leaves in the registers: a realm is never in streaming mode.
LEMMA SaveLiveIs ==
  ASSUME NEW ctx \in CtxType, NEW live \in LiveType
  PROVE  /\ SaveLive(ctx, live) \in LiveType
         /\ ctx.sme \/ ~live.sm => ~SaveLive(ctx, live).sm
         /\ SaveLive(ctx, live).zcr = IF ctx.sve THEN ctx.zcr ELSE live.zcr
         /\ SaveLive(ctx, live).vregs.p \in {live.vregs.p, Zeroed}
<1> DEFINE l == restore_simd_el2_config(live, ctx.sve, ctx.zcr)
<1>1. ctx.sve \in BOOLEAN /\ ctx.zcr \in Nat /\ ctx.sme \in BOOLEAN  BY DEF CtxType
<1>2. /\ l \in LiveType /\ l.vregs = live.vregs /\ l.sm = live.sm
      /\ l.zcr = IF ctx.sve THEN ctx.zcr ELSE live.zcr
  BY <1>1, El2Config
<1>3. SaveLive(ctx, live) =
        IF Streaming(ctx, live) THEN [l EXCEPT !.sm = FALSE, !.vregs = Vregs(Zeroed)] ELSE l
  BY DEF SaveLive
<1> HIDE DEF l
<1>4. CASE Streaming(ctx, live)
  <2>1. Vregs(Zeroed) \in VregsType /\ Vregs(Zeroed).p = Zeroed
    BY OwnerHas DEF Vregs, VregsType
  <2>2. QED  BY <1>2, <1>3, <1>4, <2>1 DEF LiveType
<1>5. CASE ~Streaming(ctx, live)
  BY <1>1, <1>2, <1>3, <1>5 DEF Streaming
<1>6. QED  BY <1>4, <1>5

\* What a save stores in the context.
LEMMA SaveCtxIs ==
  ASSUME NEW ctx \in CtxType, NEW live \in LiveType, ~ctx.sve => ctx.zcr = 0
  PROVE  LET c == SaveCtx(ctx, live)
         IN  /\ c \in CtxType /\ c.saved
             /\ c.owner = ctx.owner /\ c.init = ctx.init /\ c.hint = ctx.hint
             /\ c.sve = ctx.sve /\ c.sme = ctx.sme /\ c.zcr = ctx.zcr
             /\ c.ns_zcr = IF ctx.owner = "NWD" /\ ctx.sve THEN live.zcr ELSE ctx.ns_zcr
             /\ c.svcr = IF ctx.sme THEN live.sm ELSE ctx.svcr
             /\ c.vregs = IF FullSve(ctx, live) THEN live.vregs
                          ELSE [ctx.vregs EXCEPT !.q = live.vregs.q]
<1> DEFINE l == restore_simd_el2_config(live, ctx.sve, ctx.zcr)
<1>1. ctx.sve \in BOOLEAN /\ ctx.zcr \in Nat /\ ctx.vregs \in VregsType  BY DEF CtxType
<1>2. /\ l \in LiveType /\ l.vregs = live.vregs /\ l.sm = live.sm
      /\ l.zcr = IF ctx.sve THEN ctx.zcr ELSE live.zcr
  BY <1>1, El2Config
<1>3. SaveCtx(ctx, live) =
        [ctx EXCEPT !.ns_zcr = IF ctx.owner = "NWD" /\ ctx.sve THEN live.zcr ELSE @,
                    !.svcr = IF ctx.sme THEN live.sm ELSE @,
                    !.vregs = SavedVregs(ctx, l),
                    !.saved = TRUE]
  BY DEF SaveCtx
<1> HIDE DEF l
<1>4. live.vregs \in VregsType /\ live.zcr \in Nat /\ live.sm \in BOOLEAN  BY DEF LiveType
<1>5. FullSve(ctx, l) <=> FullSve(ctx, live)  BY <1>2 DEF FullSve, Streaming
<1>6. SavedVregs(ctx, l) = IF FullSve(ctx, live) THEN live.vregs
                           ELSE [ctx.vregs EXCEPT !.q = live.vregs.q]
  <2>1. ~(l.zcr < ctx.zcr)  BY <1>1, <1>2, <1>4
  <2>2. sve_save_vector_registers(ctx, l) = live.vregs
    BY <2>1, <1>2, <1>4 DEF sve_save_vector_registers, VregsType
  <2>3. fpu_save_registers(ctx, l) = [ctx.vregs EXCEPT !.q = live.vregs.q]
    BY <1>2 DEF fpu_save_registers
  <2>4. QED  BY <2>2, <2>3, <1>5 DEF SavedVregs
<1>7. SavedVregs(ctx, l) \in VregsType  BY <1>1, <1>4, <1>6 DEF VregsType
<1> DEFINE c == SaveCtx(ctx, live)
           z == IF ctx.owner = "NWD" /\ ctx.sve THEN live.zcr ELSE ctx.ns_zcr
           b == IF ctx.sme THEN live.sm ELSE ctx.svcr
           v == SavedVregs(ctx, l)
<1>8. z \in Nat /\ b \in BOOLEAN  BY <1>1, <1>4 DEF CtxType
<1>9. c = [ctx EXCEPT !.ns_zcr = z, !.svcr = b, !.vregs = v, !.saved = TRUE]
  BY <1>3 DEF CtxType
<1>10. v \in VregsType  BY <1>7
<1> HIDE DEF c, z, b, v
<1>11. /\ c \in CtxType /\ c.saved
       /\ c.owner = ctx.owner /\ c.init = ctx.init /\ c.hint = ctx.hint
       /\ c.sve = ctx.sve /\ c.sme = ctx.sme /\ c.zcr = ctx.zcr
       /\ c.ns_zcr = z /\ c.svcr = b /\ c.vregs = v
  BY <1>8, <1>9, <1>10 DEF CtxType
<1>12. QED  BY <1>6, <1>11 DEF c, z, b, v


\* What a restore puts into the registers.
LEMMA RestoreLiveIs ==
  ASSUME NEW ctx \in CtxType, NEW live \in LiveType
  PROVE  LET l    == RestoreLive(ctx, live)
             full == (ctx.sme /\ ctx.svcr) \/ (ctx.sve /\ ~ctx.hint)
         IN  /\ l \in LiveType
             /\ l.sm = IF ctx.sme THEN ctx.svcr ELSE live.sm
             /\ l.zcr = IF ~ctx.sve THEN live.zcr
                        ELSE IF ctx.owner = "NWD" THEN ctx.ns_zcr ELSE ctx.zcr
             /\ l.vregs.q = ctx.vregs.q
             /\ full => l.vregs = ctx.vregs
             /\ ~full => /\ l.vregs.z = Zeroed
                         /\ l.vregs.p \in IF ctx.sve THEN {Zeroed} ELSE {live.vregs.p, Zeroed}
<1> DEFINE full == (ctx.sme /\ ctx.svcr) \/ (ctx.sve /\ ~ctx.hint)
           l == restore_simd_el2_config(live, ctx.sve, ctx.zcr)
           l1 == IF ctx.sme /\ l.sm # ctx.svcr
                 THEN [l EXCEPT !.sm = ctx.svcr, !.vregs = Vregs(Zeroed)] ELSE l
           f == fpu_restore_registers(ctx, l1)
           l2 == IF FullSve(ctx, l1) THEN sve_restore_vector_registers(ctx, l1)
                 ELSE IF ctx.sve THEN sve_clear_p_ffr_registers(f) ELSE f
<1>0. RestoreLive(ctx, live) = restore_simd_el2_config(l2, ctx.owner = "NWD" /\ ctx.sve, ctx.ns_zcr)
  BY DEF RestoreLive
<1>1. /\ ctx.sve \in BOOLEAN /\ ctx.sme \in BOOLEAN /\ ctx.zcr \in Nat /\ ctx.ns_zcr \in Nat
      /\ ctx.vregs \in VregsType /\ ctx.svcr \in BOOLEAN
  BY DEF CtxType
<1>2. /\ l \in LiveType /\ l.vregs = live.vregs /\ l.sm = live.sm
      /\ l.zcr = IF ctx.sve THEN ctx.zcr ELSE live.zcr
  <2> HIDE DEF full
  <2>1. ctx.sve \in BOOLEAN /\ ctx.zcr \in Nat  BY <1>1
  <2>2. QED  BY <2>1, El2Config
<1> HIDE DEF l
<1>3. /\ l1 \in LiveType /\ l1.zcr = l.zcr
      /\ l1.sm = IF ctx.sme THEN ctx.svcr ELSE live.sm
      /\ l1.vregs.p \in {live.vregs.p, Zeroed}
  <2>1. Vregs(Zeroed) \in VregsType /\ Vregs(Zeroed).p = Zeroed
    BY OwnerHas DEF Vregs, VregsType
  <2>2. CASE ctx.sme /\ l.sm # ctx.svcr  BY <2>1, <2>2, <1>1, <1>2 DEF LiveType
  <2>3. CASE ~(ctx.sme /\ l.sm # ctx.svcr)  BY <2>3, <1>1, <1>2
  <2>4. QED  BY <2>2, <2>3
<1> HIDE DEF l1
<1>4. FullSve(ctx, l1) <=> full  BY <1>3 DEF FullSve, Streaming
<1>5. /\ l2 \in LiveType /\ l2.zcr = l1.zcr /\ l2.sm = l1.sm /\ l2.vregs.q = ctx.vregs.q
      /\ full => l2.vregs = ctx.vregs
      /\ ~full => /\ l2.vregs.z = Zeroed
                  /\ l2.vregs.p \in IF ctx.sve THEN {Zeroed} ELSE {live.vregs.p, Zeroed}
  <2>1. CASE full
    <3>1. l2 = [l1 EXCEPT !.vregs = ctx.vregs]
      BY <2>1, <1>4 DEF sve_restore_vector_registers
    <3> HIDE DEF l2, full
    <3>2. QED  BY <3>1, <2>1, <1>1, <1>3 DEF LiveType
  <2>2. CASE ~full
    <3>1. /\ f \in LiveType /\ f.zcr = l1.zcr /\ f.sm = l1.sm
          /\ f.vregs.q = ctx.vregs.q /\ f.vregs.z = Zeroed /\ f.vregs.p = l1.vregs.p
      <4> DEFINE v == [l1.vregs EXCEPT !.q = ctx.vregs.q, !.z = Zeroed]
      <4>1. /\ v \in VregsType /\ v.q = ctx.vregs.q /\ v.z = Zeroed /\ v.p = l1.vregs.p
        BY <1>1, <1>3, OwnerHas DEF VregsType, LiveType
      <4>2. f = [l1 EXCEPT !.vregs = v]  BY DEF fpu_restore_registers
      <4> HIDE DEF v, f
      <4>3. QED  BY <4>1, <4>2, <1>3 DEF LiveType
    <3>2. l2 = IF ctx.sve THEN sve_clear_p_ffr_registers(f) ELSE f  BY <2>2, <1>4
    <3> HIDE DEF f, l2, full
    <3>3. CASE ~ctx.sve  BY <3>1, <3>2, <3>3, <2>2, <1>3
    <3>4. CASE ctx.sve
      <4> DEFINE v == [f.vregs EXCEPT !.p = Zeroed]
      <4>1. /\ v \in VregsType /\ v.q = f.vregs.q /\ v.z = f.vregs.z /\ v.p = Zeroed
        BY <3>1, OwnerHas DEF VregsType, LiveType
      <4>2. l2 = [f EXCEPT !.vregs = v]
        BY <3>2, <3>4, <3>1 DEF sve_clear_p_ffr_registers, LiveType
      <4> HIDE DEF v
      <4>3. QED  BY <4>1, <4>2, <3>1, <3>4, <2>2 DEF LiveType
    <3>5. QED  BY <3>3, <3>4
  <2>3. QED  BY <2>1, <2>2
<1> HIDE DEF l2, full
<1> DEFINE R == RestoreLive(ctx, live)
<1>6.     /\ R \in LiveType /\ R.vregs = l2.vregs /\ R.sm = l2.sm
          /\ R.zcr = IF ctx.owner = "NWD" /\ ctx.sve THEN ctx.ns_zcr ELSE l2.zcr
  <2>1. PICK b \in BOOLEAN : b = (ctx.owner = "NWD" /\ ctx.sve)  OBVIOUS
  <2>2. RestoreLive(ctx, live) = restore_simd_el2_config(l2, b, ctx.ns_zcr)  BY <1>0, <2>1
  <2>3. l2 \in LiveType /\ ctx.ns_zcr \in Nat  BY <1>1, <1>5
  <2> HIDE DEF R
  <2>4. /\ R \in LiveType /\ R.vregs = l2.vregs /\ R.sm = l2.sm
        /\ R.zcr = IF b THEN ctx.ns_zcr ELSE l2.zcr
    BY <2>2, <2>3, El2Config DEF R
  <2>5. QED  BY <2>1, <2>4
<1>7. QED  BY <1>1, <1>2, <1>3, <1>5, <1>6 DEF full

-----------------------------------------------------------------------------
\* Saving and restoring the host's registers.
LEMMA SaveHost ==
  ASSUME NEW ctx \in CtxType, NEW live \in LiveType, NEW call \in CallType,
         NsShape(ctx, call), HostLive(live, call)
  PROVE  /\ SaveCtx(ctx, live) \in CtxType /\ SaveCtx(ctx, live).saved
         /\ NsShape(SaveCtx(ctx, live), call) /\ HostSaved(SaveCtx(ctx, live), call)
         /\ SaveLive(ctx, live) \in LiveType /\ Parked(SaveLive(ctx, live), call)
<1>1. /\ ctx.sve = CpuSve /\ ctx.sme = CpuSme /\ ctx.owner = "NWD"
      /\ ~ctx.sve => ctx.zcr = 0
      /\ CpuSve => ctx.hint = call.hint
  BY Config DEF NsShape
<1>2. /\ live.vregs.q = Host /\ live.sm = call.sm /\ live.zcr = call.zcr
      /\ live.vregs.z \in {Host, Zeroed} /\ live.vregs.p \in {Host, Zeroed}
      /\ CpuSve /\ (~call.hint \/ call.sm) => live.vregs.z = Host /\ live.vregs.p = Host
  BY DEF HostLive, SimdOf
<1>3. (call.sm => CpuSme) /\ call.sm \in BOOLEAN /\ call.hint \in BOOLEAN  BY DEF CallType
<1>4. FullSve(ctx, live) <=> call.sm \/ (CpuSve /\ ~call.hint)
  BY <1>1, <1>2, <1>3 DEF FullSve, Streaming
<1> DEFINE c == SaveCtx(ctx, live)
<1>5. /\ c \in CtxType /\ c.saved /\ c.owner = ctx.owner /\ c.init = ctx.init /\ c.hint = ctx.hint
      /\ c.sve = ctx.sve /\ c.sme = ctx.sme /\ c.zcr = ctx.zcr
      /\ c.ns_zcr = IF ctx.owner = "NWD" /\ ctx.sve THEN live.zcr ELSE ctx.ns_zcr
      /\ c.svcr = IF ctx.sme THEN live.sm ELSE ctx.svcr
      /\ c.vregs = IF FullSve(ctx, live) THEN live.vregs ELSE [ctx.vregs EXCEPT !.q = live.vregs.q]
  BY <1>1, SaveCtxIs
<1> HIDE DEF c
<1>6. NsShape(c, call)  BY <1>5 DEF NsShape
<1>7. HostSaved(c, call)
  <2>1. c.vregs.q = Host  BY <1>2, <1>5 DEF CtxType, VregsType
  <2>2. call.sm \/ (CpuSve /\ ~call.hint) => c.vregs = live.vregs  BY <1>4, <1>5
  <2>3. QED  BY <2>1, <2>2, <1>1, <1>2, <1>5 DEF HostSaved
<1>8. SaveLive(ctx, live) \in LiveType /\ Parked(SaveLive(ctx, live), call)
  BY <1>1, <1>2, <1>3, SaveLiveIs DEF Parked
<1>9. QED  BY <1>5, <1>6, <1>7, <1>8 DEF c

LEMMA RestoreHost ==
  ASSUME NEW ctx \in CtxType, NEW live \in LiveType, NEW call \in CallType,
         NsShape(ctx, call), HostSaved(ctx, call), Parked(live, call)
  PROVE  RestoreLive(ctx, live) \in LiveType /\ HostLive(RestoreLive(ctx, live), call)
<1>1. /\ ctx.sve = CpuSve /\ ctx.sme = CpuSme /\ ctx.owner = "NWD"
      /\ CpuSve => ctx.hint = call.hint
  BY DEF NsShape
<1>2. (call.sm => CpuSme) /\ call.sm \in BOOLEAN /\ call.hint \in BOOLEAN  BY DEF CallType
<1> DEFINE full == (ctx.sme /\ ctx.svcr) \/ (ctx.sve /\ ~ctx.hint)
           R == RestoreLive(ctx, live)
<1>3. /\ R \in LiveType
      /\ R.sm = IF ctx.sme THEN ctx.svcr ELSE live.sm
      /\ R.zcr = IF ~ctx.sve THEN live.zcr
                 ELSE IF ctx.owner = "NWD" THEN ctx.ns_zcr ELSE ctx.zcr
      /\ R.vregs.q = ctx.vregs.q
      /\ full => R.vregs = ctx.vregs
      /\ ~full => /\ R.vregs.z = Zeroed
                  /\ R.vregs.p \in IF ctx.sve THEN {Zeroed} ELSE {live.vregs.p, Zeroed}
  BY RestoreLiveIs
<1> HIDE DEF R
<1>4. full <=> call.sm \/ (CpuSve /\ ~call.hint)
  BY <1>1, <1>2 DEF HostSaved
<1>5. R.sm = call.sm  BY <1>1, <1>2, <1>3, Config DEF HostSaved, Parked, LiveType
<1>6. R.zcr = call.zcr  BY <1>1, <1>3, Config DEF HostSaved, Parked
<1>7. CASE full
  <2>1. R.vregs = ctx.vregs  BY <1>3, <1>7
  <2>2. QED  BY <2>1, <1>3, <1>4, <1>5, <1>6, <1>7 DEF HostSaved, HostLive, SimdOf, R
<1>8. CASE ~full
  BY <1>1, <1>3, <1>4, <1>5, <1>6, <1>8 DEF HostSaved, HostLive, SimdOf, Parked, R
<1>9. QED  BY <1>7, <1>8

\* Saving and restoring a realm's registers; the host's call stays what it was.
LEMMA SaveRealm ==
  ASSUME NEW r \in REC, NEW ctx \in CtxType, NEW live \in LiveType, NEW call \in CallType,
         RecShape(ctx, r), RealmLive(live, r, call)
  PROVE  /\ SaveCtx(ctx, live) \in CtxType /\ SaveCtx(ctx, live).saved
         /\ RecShape(SaveCtx(ctx, live), r)
         /\ SaveLive(ctx, live) \in LiveType /\ Parked(SaveLive(ctx, live), call)
<1>1. /\ ctx.sve = (r \in SveRec) /\ ~ctx.sme /\ ~ctx.hint /\ ctx.vregs.q = r
  BY DEF RecShape
<1>2. ~ctx.sve => ctx.zcr = 0  BY Config DEF RecShape
<1>3. /\ live.vregs.q = r /\ ~live.sm
      /\ r \in SveRec => live.vregs.z = r /\ live.vregs.p = r
  BY DEF RealmLive, SimdOf, Parked
<1> DEFINE c == SaveCtx(ctx, live)
<1>5. /\ c \in CtxType /\ c.saved /\ c.owner = ctx.owner /\ c.init = ctx.init /\ c.hint = ctx.hint
      /\ c.sve = ctx.sve /\ c.sme = ctx.sme /\ c.zcr = ctx.zcr
      /\ c.vregs = IF FullSve(ctx, live) THEN live.vregs ELSE [ctx.vregs EXCEPT !.q = live.vregs.q]
  BY <1>2, SaveCtxIs
<1> HIDE DEF c
<1>6. FullSve(ctx, live) <=> r \in SveRec  BY <1>1 DEF FullSve, Streaming
<1>7. RecShape(c, r)
  <2>1. c.vregs.q = r  BY <1>3, <1>5 DEF CtxType, VregsType
  <2>2. r \in SveRec => c.vregs = live.vregs  BY <1>5, <1>6
  <2>3. QED  BY <2>1, <2>2, <1>3, <1>5 DEF RecShape
<1>8. SaveLive(ctx, live) \in LiveType /\ Parked(SaveLive(ctx, live), call)
  BY <1>1, <1>3, SaveLiveIs, Config DEF Parked, RealmLive
<1>9. QED  BY <1>5, <1>7, <1>8 DEF c

LEMMA RestoreRealm ==
  ASSUME NEW r \in REC, NEW ctx \in CtxType, NEW live \in LiveType, NEW call \in CallType,
         RecShape(ctx, r), Parked(live, call)
  PROVE  RestoreLive(ctx, live) \in LiveType /\ RealmLive(RestoreLive(ctx, live), r, call)
<1>1. /\ ctx.sve = (r \in SveRec) /\ ~ctx.sme /\ ~ctx.hint /\ ctx.owner = "REL1"
      /\ ctx.vregs.q = r
      /\ r \in SveRec => ctx.zcr = RealmVq /\ ctx.vregs.z = r /\ ctx.vregs.p = r
  BY Config DEF RecShape
<1> DEFINE full == (ctx.sme /\ ctx.svcr) \/ (ctx.sve /\ ~ctx.hint)
           R == RestoreLive(ctx, live)
<1>2. /\ R \in LiveType
      /\ R.sm = IF ctx.sme THEN ctx.svcr ELSE live.sm
      /\ R.zcr = IF ~ctx.sve THEN live.zcr
                 ELSE IF ctx.owner = "NWD" THEN ctx.ns_zcr ELSE ctx.zcr
      /\ R.vregs.q = ctx.vregs.q
      /\ full => R.vregs = ctx.vregs
      /\ ~full => /\ R.vregs.z = Zeroed
                  /\ R.vregs.p \in IF ctx.sve THEN {Zeroed} ELSE {live.vregs.p, Zeroed}
  BY RestoreLiveIs
<1> HIDE DEF R
<1>3. full <=> r \in SveRec  BY <1>1
<1>4. Parked(R, call)  BY <1>1, <1>2, <1>3, Config DEF Parked
<1>5. QED  BY <1>1, <1>2, <1>3, <1>4 DEF RealmLive, SimdOf, R

\* The RMM's own use of the FPU between a save and a restore.
LEMMA FpuAllowed ==
  ASSUME NEW s \in SimdType, NEW call \in CallType, Parked(s.live, call), s.saved
  PROVE  /\ SIMD_FPU_ALLOW(s) \in SimdType /\ SIMD_FPU_ALLOW(s).saved
         /\ SIMD_FPU_ALLOW(s).ok = s.ok /\ Parked(SIMD_FPU_ALLOW(s).live, call)
<1> DEFINE v == [s.live.vregs EXCEPT !.q = RmmData, !.z = Zeroed]
           l == [s.live EXCEPT !.vregs = v]
<1>1. v \in VregsType /\ v.p = s.live.vregs.p
  BY OwnerHas DEF VregsType, LiveType, SimdType
<1>2. SIMD_FPU_ALLOW(s) = [s EXCEPT !.live = l, !.ok = s.ok /\ s.saved]
  BY DEF SIMD_FPU_ALLOW, SimdType, LiveType
<1> HIDE DEF v
<1>3. l \in LiveType /\ l.sm = s.live.sm /\ l.zcr = s.live.zcr /\ l.vregs.p = s.live.vregs.p
  BY <1>1 DEF LiveType, SimdType
<1> HIDE DEF l
<1>4. QED  BY <1>2, <1>3 DEF SimdType, Parked


\* simd_context_switch's halves: the assertions hold when the contexts are on the right side.
LEMMA SwitchOutIs ==
  ASSUME NEW s \in SimdType, NEW ctx \in CtxType, s.ok, ~s.saved, ctx.init, ~ctx.saved,
         NEW call \in CallType, SaveLive(ctx, s.live) \in LiveType,
         Parked(SaveLive(ctx, s.live), call)
  PROVE  /\ SwitchOut(s, ctx) \in SimdType /\ SwitchOut(s, ctx).ok /\ SwitchOut(s, ctx).saved
         /\ SwitchOut(s, ctx).live = SaveLive(ctx, s.live)
         /\ Parked(SwitchOut(s, ctx).live, call)
<1>1. SwitchOut(s, ctx) = [live |-> SaveLive(ctx, s.live), saved |-> TRUE, ok |-> TRUE]
  BY DEF SwitchOut
<1>2. QED  BY <1>1 DEF SimdType

LEMMA SwitchInIs ==
  ASSUME NEW s \in SimdType, NEW ctx \in CtxType, s.ok, s.saved, ctx.init, ctx.saved,
         RestoreLive(ctx, s.live) \in LiveType
  PROVE  /\ SwitchIn(s, ctx) \in SimdType /\ SwitchIn(s, ctx).ok /\ ~SwitchIn(s, ctx).saved
         /\ SwitchIn(s, ctx).live = RestoreLive(ctx, s.live)
<1>1. SwitchIn(s, ctx) = [live |-> RestoreLive(ctx, s.live), saved |-> FALSE, ok |-> TRUE]
  BY DEF SwitchIn
<1>2. QED  BY <1>1 DEF SimdType

LEMMA RestoredIs ==
  ASSUME NEW ctx \in CtxType
  PROVE  /\ Restored(ctx) \in CtxType /\ ~Restored(ctx).saved
         /\ \A call : NsShape(ctx, call) => NsShape(Restored(ctx), call)
         /\ \A r : RecShape(ctx, r) => RecShape(Restored(ctx), r)
<1> DEFINE c == Restored(ctx)
<1>1. /\ c \in CtxType /\ ~c.saved /\ c.owner = ctx.owner /\ c.init = ctx.init /\ c.sve = ctx.sve
      /\ c.sme = ctx.sme /\ c.zcr = ctx.zcr /\ c.hint = ctx.hint /\ c.vregs = ctx.vregs
  BY DEF Restored, CtxType
<1> HIDE DEF c
<1>2. QED  BY <1>1 DEF NsShape, RecShape, c

(***************************************************************************)
(* The four uses: the RMM uses the FPU while the host's registers or the   *)
(* realm's are live, the realm takes the registers, the host gets them     *)
(* back.                                                                   *)
(***************************************************************************)
LEMMA HostFpu ==
  ASSUME NEW s \in SimdType, NEW ctx \in CtxType, NEW call \in CallType, s.ok, ~s.saved,
         NsShape(ctx, call), ~ctx.saved, HostLive(s.live, call)
  PROVE  LET c1 == SaveCtx(ctx, s.live)
             s1 == SwitchIn(SIMD_FPU_ALLOW(SwitchOut(s, ctx)), c1)
         IN  /\ s1 \in SimdType /\ s1.ok /\ ~s1.saved /\ HostLive(s1.live, call)
             /\ Restored(c1) \in CtxType /\ NsShape(Restored(c1), call) /\ ~Restored(c1).saved
<1> DEFINE c1 == SaveCtx(ctx, s.live)
           s0 == SIMD_FPU_ALLOW(SwitchOut(s, ctx))
<1>1. s.live \in LiveType  BY DEF SimdType
<1>2. /\ c1 \in CtxType /\ c1.saved /\ NsShape(c1, call) /\ HostSaved(c1, call)
      /\ SaveLive(ctx, s.live) \in LiveType /\ Parked(SaveLive(ctx, s.live), call)
  BY <1>1, SaveHost
<1>3. ctx.init /\ c1.init  BY <1>2 DEF NsShape
<1>4. SwitchOut(s, ctx) \in SimdType /\ SwitchOut(s, ctx).ok /\ SwitchOut(s, ctx).saved
      /\ Parked(SwitchOut(s, ctx).live, call)
  BY <1>2, <1>3, SwitchOutIs
<1>5. s0 \in SimdType /\ s0.ok /\ s0.saved /\ Parked(s0.live, call)  BY <1>4, FpuAllowed
<1> HIDE DEF c1, s0
<1>6. s0.live \in LiveType  BY <1>5 DEF SimdType
<1>7. RestoreLive(c1, s0.live) \in LiveType /\ HostLive(RestoreLive(c1, s0.live), call)
  BY <1>2, <1>5, <1>6, RestoreHost
<1>8. /\ SwitchIn(s0, c1) \in SimdType /\ SwitchIn(s0, c1).ok /\ ~SwitchIn(s0, c1).saved
      /\ SwitchIn(s0, c1).live = RestoreLive(c1, s0.live)
  BY <1>2, <1>3, <1>5, <1>7, SwitchInIs
<1>9. Restored(c1) \in CtxType /\ NsShape(Restored(c1), call) /\ ~Restored(c1).saved
  BY <1>2, RestoredIs
<1>10. QED  BY <1>7, <1>8, <1>9 DEF s0, c1

LEMMA RealmFpu ==
  ASSUME NEW r \in REC, NEW s \in SimdType, NEW ctx \in CtxType, NEW call \in CallType,
         s.ok, ~s.saved, RecShape(ctx, r), ~ctx.saved, RealmLive(s.live, r, call)
  PROVE  LET c1 == SaveCtx(ctx, s.live)
             s1 == SwitchIn(SIMD_FPU_ALLOW(SwitchOut(s, ctx)), c1)
         IN  /\ s1 \in SimdType /\ s1.ok /\ ~s1.saved /\ RealmLive(s1.live, r, call)
             /\ Restored(c1) \in CtxType /\ RecShape(Restored(c1), r) /\ ~Restored(c1).saved
<1> DEFINE c1 == SaveCtx(ctx, s.live)
           s0 == SIMD_FPU_ALLOW(SwitchOut(s, ctx))
<1>1. s.live \in LiveType  BY DEF SimdType
<1>2. /\ c1 \in CtxType /\ c1.saved /\ RecShape(c1, r)
      /\ SaveLive(ctx, s.live) \in LiveType /\ Parked(SaveLive(ctx, s.live), call)
  BY <1>1, SaveRealm
<1>3. ctx.init /\ c1.init  BY <1>2 DEF RecShape
<1>4. SwitchOut(s, ctx) \in SimdType /\ SwitchOut(s, ctx).ok /\ SwitchOut(s, ctx).saved
      /\ Parked(SwitchOut(s, ctx).live, call)
  BY <1>2, <1>3, SwitchOutIs
<1>5. s0 \in SimdType /\ s0.ok /\ s0.saved /\ Parked(s0.live, call)  BY <1>4, FpuAllowed
<1> HIDE DEF c1, s0
<1>6. s0.live \in LiveType  BY <1>5 DEF SimdType
<1>7. RestoreLive(c1, s0.live) \in LiveType /\ RealmLive(RestoreLive(c1, s0.live), r, call)
  BY <1>2, <1>5, <1>6, RestoreRealm
<1>8. /\ SwitchIn(s0, c1) \in SimdType /\ SwitchIn(s0, c1).ok /\ ~SwitchIn(s0, c1).saved
      /\ SwitchIn(s0, c1).live = RestoreLive(c1, s0.live)
  BY <1>2, <1>3, <1>5, <1>7, SwitchInIs
<1>9. Restored(c1) \in CtxType /\ RecShape(Restored(c1), r) /\ ~Restored(c1).saved
  BY <1>2, RestoredIs
<1>10. QED  BY <1>7, <1>8, <1>9 DEF s0, c1

LEMMA RealmTakesSimd ==
  ASSUME NEW r \in REC, NEW s \in SimdType, NEW ns \in CtxType, NEW ctx \in CtxType,
         NEW call \in CallType, s.ok, ~s.saved, NsShape(ns, call), ~ns.saved,
         RecShape(ctx, r), ctx.saved, HostLive(s.live, call)
  PROVE  LET s1 == SwitchIn(SwitchOut(s, ns), ctx)
             n1 == SaveCtx(ns, s.live)
         IN  /\ s1 \in SimdType /\ s1.ok /\ ~s1.saved /\ RealmLive(s1.live, r, call)
             /\ n1 \in CtxType /\ n1.saved /\ NsShape(n1, call) /\ HostSaved(n1, call)
             /\ Restored(ctx) \in CtxType /\ RecShape(Restored(ctx), r) /\ ~Restored(ctx).saved
<1> DEFINE s0 == SwitchOut(s, ns)
<1>1. s.live \in LiveType  BY DEF SimdType
<1>2. /\ SaveCtx(ns, s.live) \in CtxType /\ SaveCtx(ns, s.live).saved
      /\ NsShape(SaveCtx(ns, s.live), call) /\ HostSaved(SaveCtx(ns, s.live), call)
      /\ SaveLive(ns, s.live) \in LiveType /\ Parked(SaveLive(ns, s.live), call)
  BY <1>1, SaveHost
<1>3. ctx.init /\ ns.init  BY DEF NsShape, RecShape
<1>4. s0 \in SimdType /\ s0.ok /\ s0.saved /\ Parked(s0.live, call)
  BY <1>2, <1>3, SwitchOutIs
<1> HIDE DEF s0
<1>5. s0.live \in LiveType  BY <1>4 DEF SimdType
<1>6. RestoreLive(ctx, s0.live) \in LiveType /\ RealmLive(RestoreLive(ctx, s0.live), r, call)
  BY <1>4, <1>5, RestoreRealm
<1>7. /\ SwitchIn(s0, ctx) \in SimdType /\ SwitchIn(s0, ctx).ok /\ ~SwitchIn(s0, ctx).saved
      /\ SwitchIn(s0, ctx).live = RestoreLive(ctx, s0.live)
  BY <1>3, <1>4, <1>6, SwitchInIs
<1>8. Restored(ctx) \in CtxType /\ RecShape(Restored(ctx), r) /\ ~Restored(ctx).saved
  BY RestoredIs
<1>9. QED  BY <1>2, <1>6, <1>7, <1>8 DEF s0

LEMMA HostGetsSimd ==
  ASSUME NEW r \in REC, NEW s \in SimdType, NEW ns \in CtxType, NEW ctx \in CtxType,
         NEW call \in CallType, s.ok, ~s.saved, NsShape(ns, call), HostSaved(ns, call), ns.saved,
         RecShape(ctx, r), ~ctx.saved, RealmLive(s.live, r, call)
  PROVE  LET s1 == SwitchIn(SwitchOut(s, ctx), ns)
             c1 == SaveCtx(ctx, s.live)
         IN  /\ s1 \in SimdType /\ s1.ok /\ ~s1.saved /\ HostLive(s1.live, call)
             /\ c1 \in CtxType /\ c1.saved /\ RecShape(c1, r)
             /\ Restored(ns) \in CtxType /\ NsShape(Restored(ns), call) /\ ~Restored(ns).saved
<1> DEFINE s0 == SwitchOut(s, ctx)
<1>1. s.live \in LiveType  BY DEF SimdType
<1>2. /\ SaveCtx(ctx, s.live) \in CtxType /\ SaveCtx(ctx, s.live).saved
      /\ RecShape(SaveCtx(ctx, s.live), r)
      /\ SaveLive(ctx, s.live) \in LiveType /\ Parked(SaveLive(ctx, s.live), call)
  BY <1>1, SaveRealm
<1>3. ctx.init /\ ns.init  BY DEF NsShape, RecShape
<1>4. s0 \in SimdType /\ s0.ok /\ s0.saved /\ Parked(s0.live, call)
  BY <1>2, <1>3, SwitchOutIs
<1> HIDE DEF s0
<1>5. s0.live \in LiveType  BY <1>4 DEF SimdType
<1>6. RestoreLive(ns, s0.live) \in LiveType /\ HostLive(RestoreLive(ns, s0.live), call)
  BY <1>4, <1>5, RestoreHost
<1>7. /\ SwitchIn(s0, ns) \in SimdType /\ SwitchIn(s0, ns).ok /\ ~SwitchIn(s0, ns).saved
      /\ SwitchIn(s0, ns).live = RestoreLive(ns, s0.live)
  BY <1>3, <1>4, <1>6, SwitchInIs
<1>8. Restored(ns) \in CtxType /\ NsShape(Restored(ns), call) /\ ~Restored(ns).saved
  BY RestoredIs
<1>9. QED  BY <1>2, <1>6, <1>7, <1>8 DEF s0


-----------------------------------------------------------------------------
(***************************************************************************)
(* Exits and their completion.                                             *)
(***************************************************************************)
ExitOk(res) ==
  /\ res.rec \in ExitType /\ res.to_realm \in BOOLEAN
  /\ IF res.to_realm THEN Settled(res.rec) ELSE Open(res.rec)

\* ResumedRight, arm by arm.
LEMMA ResumedArms ==
  ASSUME NEW x
  PROVE  /\ x.trap \in {"start", "irq", "fiq", "serror", "simd"} =>
              (ResumedRight(x) <=> AtRetry(x))
         /\ x.trap = "undef" => (ResumedRight(x) <=> AtVector(x))
         /\ x.trap = "wfx" => (ResumedRight(x) <=> AtNext(x) /\ x.rt = "old")
         /\ x.trap \in {"dabt", "iabt"} => (ResumedRight(x) <=> AbortResumedRight(x))
         /\ x.trap = "sysreg" => (ResumedRight(x) <=> AtNext(x) /\ x.rt # "host")
         /\ x.trap \in {"rsi", "ripas"} => (ResumedRight(x) <=> AtNext(x) /\ x.x0 = "result")
         /\ x.trap = "rsi_abort" => (ResumedRight(x) <=> AtRetry(x) /\ x.x0 = "fid")
         /\ x.trap = "host_call" =>
              (ResumedRight(x) <=>
                 AtNext(x) /\ (\/ x.x0 = "result" /\ x.buf = "answer"
                               \/ x.x0 = "fid" /\ x.buf = "skipped"))
BY DEF ResumedRight

LEMMA AbortArms ==
  ASSUME NEW x
  PROVE  /\ x.area = "par" => (AbortResumedRight(x) <=> AtRetry(x))
         /\ x.area \in {"outside", "empty"} => (AbortResumedRight(x) <=> AtVector(x))
         /\ x.area = "unprot" =>
              (AbortResumedRight(x) <=>
                 AtVector(x) \/ (x.trap = "dabt" /\ (AtRetry(x) \/ AtNext(x))))
         /\ x.area = "ext" =>
              (AbortResumedRight(x) <=> x.pc \in {"at", "vector"} /\ x.rt = "old")
BY DEF AbortResumedRight

\* What the realm runs on with depends on these fields alone.
LEMMA ResumedSame ==
  ASSUME NEW x, NEW y, x.pc = y.pc, x.elr = y.elr, x.x0 = y.x0, x.rt = y.rt, x.trap = y.trap,
         x.area = y.area, x.buf = y.buf
  PROVE  ResumedRight(x) <=> ResumedRight(y)
BY DEF ResumedRight, AbortResumedRight, AtRetry, AtNext, AtVector

\* The realm's registers at a trap; nothing is pending from an earlier exit.
AtTrap(y, trap, area) ==
  /\ y \in ExitType
  /\ y.pc = "at" /\ y.elr = "old" /\ y.x0 = "old" /\ y.rt = "old" /\ y.buf = "none"
  /\ y.trap = trap /\ y.area = area
  /\ y.last = NoAbort /\ ~y.host_call /\ ~y.ripas

LEMMA TrappedIs ==
  ASSUME NEW x \in ExitType, Settled(x), NEW trap \in Traps, NEW area \in Areas
  PROVE  AtTrap(Trapped(x, trap, area), trap, area)
<1> DEFINE y == Trapped(x, trap, area)
<1>1. y = [x EXCEPT !.pc = "at", !.elr = "old", !.x0 = "old", !.rt = "old", !.buf = "none",
                    !.trap = trap, !.area = area]
  BY DEF Trapped
<1>2. "at" \in Pc  BY DEF Pc
<1> HIDE DEF y
<1>3. y \in ExitType  BY <1>1, <1>2 DEF ExitType
<1>4. /\ y.pc = "at" /\ y.elr = "old" /\ y.x0 = "old" /\ y.rt = "old" /\ y.buf = "none"
      /\ y.trap = trap /\ y.area = area
      /\ y.last = x.last /\ y.host_call = x.host_call /\ y.ripas = x.ripas
  BY <1>1 DEF ExitType
<1>5. AtTrap(y, trap, area)  BY <1>3, <1>4 DEF AtTrap, Settled
<1>6. QED  BY <1>5 DEF y

LEMMA LastTypes ==
  /\ NoAbort \in LastType /\ NoAbort.ec = "none"
  /\ \A ec \in {"iabt", "wfx", "sysreg", "smc", "serror"} :
       LastEc(ec) \in LastType /\ LastEc(ec).ec = ec
BY DEF NoAbort, LastEc, LastType

LEMMA LastIs ==
  ASSUME NEW x \in ExitType, NEW last \in LastType
  PROVE  /\ Last(x, last) \in ExitType /\ Last(x, last).last = last
         /\ Last(x, last).pc = x.pc /\ Last(x, last).elr = x.elr /\ Last(x, last).x0 = x.x0
         /\ Last(x, last).rt = x.rt /\ Last(x, last).trap = x.trap /\ Last(x, last).area = x.area
         /\ Last(x, last).buf = x.buf /\ Last(x, last).host_call = x.host_call
         /\ Last(x, last).ripas = x.ripas
BY DEF Last, ExitType

LEMMA InjectIs ==
  ASSUME NEW x \in ExitType
  PROVE  /\ Inject(x) \in ExitType /\ Inject(x).pc = "vector" /\ Inject(x).elr = x.pc
         /\ Inject(x).x0 = x.x0 /\ Inject(x).rt = x.rt /\ Inject(x).trap = x.trap
         /\ Inject(x).area = x.area /\ Inject(x).buf = x.buf /\ Inject(x).last = x.last
         /\ Inject(x).host_call = x.host_call /\ Inject(x).ripas = x.ripas
BY DEF Inject, ExitType, Pc

LEMMA AdvanceIs ==
  ASSUME NEW x \in ExitType, x.pc = "at"
  PROVE  /\ advance_pc(x) \in ExitType /\ advance_pc(x).pc = "next" /\ advance_pc(x).elr = x.elr
         /\ advance_pc(x).x0 = x.x0 /\ advance_pc(x).rt = x.rt /\ advance_pc(x).trap = x.trap
         /\ advance_pc(x).area = x.area /\ advance_pc(x).buf = x.buf
         /\ advance_pc(x).last = x.last /\ advance_pc(x).host_call = x.host_call
         /\ advance_pc(x).ripas = x.ripas
BY DEF advance_pc, ExitType, Pc

\* Nothing is open: the realm runs on from where it was.
LEMMA SettledOpen ==
  ASSUME NEW x, Settled(x)
  PROVE  Open(x)
BY DEF Settled, Open, NothingOpen, NoAbort

\* An exit that is not a data abort and leaves nothing to complete.
LEMMA OutQuiet ==
  ASSUME NEW y \in ExitType, ~y.host_call, ~y.ripas, ResumedRight(y), NEW last \in LastType,
         last.ec # "dabt", last.ec = "sysreg" => last.wr
  PROVE  ExitOk(Out(Last(y, last)))
<1>1. ResumedRight(Last(y, last))  BY LastIs, ResumedSame
<1>2. Open(Last(y, last))  BY <1>1, LastIs DEF Open, NothingOpen
<1>3. QED  BY <1>2, LastIs DEF ExitOk, Out

LEMMA OutOpen ==
  ASSUME NEW y \in ExitType, Open(y)
  PROVE  ExitOk(Out(y))
BY DEF ExitOk, Out

LEMMA BackSettled ==
  ASSUME NEW y \in ExitType, y.last = NoAbort, ~y.host_call, ~y.ripas, ResumedRight(y)
  PROVE  ExitOk(Back(y))
BY DEF ExitOk, Back, Settled


\* handle_data_abort: an abort goes back to the realm at its vector, or to the host with what
\* the host may answer.
LEMMA DataAbortOk ==
  ASSUME NEW x \in ExitType, Settled(x), NEW a \in AbortShape, NEW hpfar \in BOOLEAN
  PROVE  ExitOk(handle_data_abort(x, a, hpfar))
<1> DEFINE area == IF a.ext = "no" THEN a.area ELSE "ext"
           y == Trapped(x, "dabt", area)
           last == [ec |-> "dabt", isv |-> FALSE, wr |-> a.wr, xzr |-> a.xzr,
                    unprot |-> IF a.ext # "no" THEN hpfar ELSE a.area = "unprot"]
           last1 == [last EXCEPT !.isv = a.isv]
<1>1. AtTrap(y, "dabt", area)
  <2>1. area \in Areas  BY DEF AbortShape, Areas
  <2>2. QED  BY <2>1, TrappedIs DEF Traps
<1>2. /\ last \in LastType /\ last.ec = "dabt" /\ ~last.isv
      /\ a.ext = "no" => (last.unprot <=> a.area = "unprot")
      /\ last1 \in LastType /\ last1.ec = "dabt"
  BY DEF LastType, AbortShape
<1>3. /\ a.ext \in {"no", "UER", "UEO"} /\ a.area \in {"outside", "empty", "par", "unprot"}
      /\ a.aarch32 \in BOOLEAN
  BY DEF AbortShape
<1>4. /\ a.ext = "UER" => handle_data_abort(x, a, hpfar) = Out(Last(Inject(y), last))
      /\ a.ext = "UEO" => handle_data_abort(x, a, hpfar) = Out(Last(y, last))
      /\ a.ext = "no" /\ a.area \in {"outside", "empty"} =>
           handle_data_abort(x, a, hpfar) = Back(Inject(y))
      /\ a.ext = "no" /\ a.area = "par" => handle_data_abort(x, a, hpfar) = Out(Last(y, last))
      /\ a.ext = "no" /\ a.area = "unprot" =>
           handle_data_abort(x, a, hpfar) \in {Out(Last(y, last)), Out(Last(y, last1))}
  BY <1>3 DEF handle_data_abort
<1>5. area = IF a.ext = "no" THEN a.area ELSE "ext"  OBVIOUS
<1>6. y \in ExitType  BY <1>1 DEF AtTrap
<1> HIDE DEF y, last, last1, area
<1>7. ASSUME NEW l \in LastType, l.ec = "dabt", DataAbortOpen(Last(y, l)) PROVE ExitOk(Out(Last(y, l)))
  BY <1>6, <1>7, LastIs DEF ExitOk, Out, Open
<1>8. CASE a.ext = "UER"
  <2>1. DataAbortOpen(Last(Inject(y), last))
    BY <1>1, <1>2, <1>5, <1>6, <1>8, InjectIs, LastIs DEF AtTrap, DataAbortOpen
  <2>2. Last(Inject(y), last) \in ExitType  BY <1>2, <1>6, InjectIs, LastIs
  <2>3. Open(Last(Inject(y), last))  BY <2>1 DEF Open
  <2>4. ExitOk(Out(Last(Inject(y), last)))  BY <2>2, <2>3, OutOpen
  <2>5. QED  BY <2>4, <1>4, <1>8
<1>9. CASE a.ext = "UEO"
  <2>1. DataAbortOpen(Last(y, last))
    BY <1>1, <1>2, <1>5, <1>6, <1>9, LastIs DEF AtTrap, DataAbortOpen
  <2>2. QED  BY <2>1, <1>2, <1>4, <1>7, <1>9
<1>10. CASE a.ext = "no" /\ a.area \in {"outside", "empty"}
  <2>1. AtVector(Inject(y)) /\ Inject(y).trap = "dabt" /\ Inject(y).area \in {"outside", "empty"}
    BY <1>1, <1>5, <1>6, <1>10, InjectIs DEF AtTrap, AtVector
  <2>2. ResumedRight(Inject(y))  BY <2>1, ResumedArms, AbortArms
  <2>3. QED  BY <2>2, <1>1, <1>4, <1>6, <1>10, InjectIs, BackSettled DEF AtTrap
<1>11. CASE a.ext = "no" /\ a.area = "par"
  <2>1. DataAbortOpen(Last(y, last))
    BY <1>1, <1>2, <1>5, <1>6, <1>11, LastIs DEF AtTrap, DataAbortOpen
  <2>2. QED  BY <2>1, <1>2, <1>4, <1>7, <1>11
<1>12. CASE a.ext = "no" /\ a.area = "unprot"
  <2>1. DataAbortOpen(Last(y, last)) /\ DataAbortOpen(Last(y, last1))
    BY <1>1, <1>2, <1>5, <1>6, <1>12, LastIs DEF AtTrap, DataAbortOpen
  <2>2. ExitOk(Out(Last(y, last))) /\ ExitOk(Out(Last(y, last1)))  BY <2>1, <1>2, <1>7
  <2>3. QED  BY <2>2, <1>4, <1>12
<1>13. QED  BY <1>3, <1>8, <1>9, <1>10, <1>11, <1>12

LEMMA InstructionAbortOk ==
  ASSUME NEW x \in ExitType, Settled(x), NEW a \in AbortShape
  PROVE  ExitOk(handle_instruction_abort(x, a))
<1> DEFINE area == IF a.ext = "no" THEN a.area ELSE "ext"
           y == Trapped(x, "iabt", area)
           last == LastEc("iabt")
<1>1. AtTrap(y, "iabt", area)
  <2>1. area \in Areas  BY DEF AbortShape, Areas
  <2>2. QED  BY <2>1, TrappedIs DEF Traps
<1>2. last \in LastType /\ last.ec = "iabt"  BY LastTypes
<1>3. a.ext \in {"no", "UER", "UEO"} /\ a.area \in {"outside", "empty", "par", "unprot"}
  BY DEF AbortShape
<1>4. /\ a.ext = "UER" => handle_instruction_abort(x, a) = Out(Last(Inject(y), last))
      /\ a.ext = "UEO" => handle_instruction_abort(x, a) = Out(Last(y, last))
      /\ a.ext = "no" /\ a.area # "par" => handle_instruction_abort(x, a) = Back(Inject(y))
      /\ a.ext = "no" /\ a.area = "par" => handle_instruction_abort(x, a) = Out(Last(y, last))
  BY <1>3 DEF handle_instruction_abort
<1>5. area = IF a.ext = "no" THEN a.area ELSE "ext"  OBVIOUS
<1>6. y \in ExitType /\ ~y.host_call /\ ~y.ripas /\ y.last = NoAbort  BY <1>1 DEF AtTrap
<1> HIDE DEF y, last, area
<1>7. Inject(y) \in ExitType /\ ~Inject(y).host_call /\ ~Inject(y).ripas /\ Inject(y).last = NoAbort
  BY <1>6, InjectIs
<1>8. a.ext # "no" \/ a.area # "par" => ResumedRight(Inject(y))
  <2>1. /\ AtVector(Inject(y)) /\ Inject(y).trap = "iabt" /\ Inject(y).area = area
        /\ Inject(y).rt = "old"
    BY <1>1, <1>6, InjectIs DEF AtTrap, AtVector
  <2>2. QED  BY <2>1, <1>3, <1>5, ResumedArms, AbortArms DEF AtVector
<1>9. a.ext # "no" \/ a.area = "par" => ResumedRight(y)
  BY <1>1, <1>3, <1>5, ResumedArms, AbortArms DEF AtTrap, AtRetry
<1>10. ResumedRight(y) => ExitOk(Out(Last(y, last)))  BY <1>2, <1>6, OutQuiet
<1>11. ResumedRight(Inject(y)) =>
         ExitOk(Out(Last(Inject(y), last))) /\ ExitOk(Back(Inject(y)))
  BY <1>2, <1>7, OutQuiet, BackSettled
<1>12. QED  BY <1>3, <1>4, <1>8, <1>9, <1>10, <1>11

\* handle_sysreg_access_trap: the pc goes on; only a write of an interrupt register exits.
LEMMA SysregOk ==
  ASSUME NEW x \in ExitType, Settled(x), NEW s \in SysregShape, s.reg = "icc" => s.wr
  PROVE  ExitOk(handle_sysreg_access_trap(x, s))
<1> DEFINE y == Trapped(x, "sysreg", s.reg)
           v == [y EXCEPT !.rt = IF s.wr \/ s.xzr THEN @ ELSE s.reg]
           last == [LastEc("sysreg") EXCEPT !.wr = s.wr, !.xzr = s.xzr]
<1>1. s.reg \in {"icc", "id", "other"} /\ s.wr \in BOOLEAN /\ s.xzr \in BOOLEAN
  BY DEF SysregShape
<1>2. AtTrap(y, "sysreg", s.reg)  BY <1>1, TrappedIs DEF Traps, Areas
<1>3. last \in LastType /\ last.ec = "sysreg" /\ last.wr = s.wr
  BY <1>1 DEF LastType, LastEc, NoAbort
<1>4. handle_sysreg_access_trap(x, s) =
        IF s.reg = "icc" THEN Out(Last(advance_pc(y), last)) ELSE Back(advance_pc(v))
  BY DEF handle_sysreg_access_trap
<1> HIDE DEF y, last
<1>5. /\ v \in ExitType /\ v.pc = "at" /\ v.elr = "old" /\ v.rt # "host" /\ v.trap = "sysreg"
      /\ v.last = NoAbort /\ ~v.host_call /\ ~v.ripas
  BY <1>1, <1>2 DEF AtTrap, ExitType
<1> HIDE DEF v
<1>6. CASE s.reg = "icc"
  <2> DEFINE z == advance_pc(y)
  <2>1. /\ z \in ExitType /\ z.pc = "next" /\ z.elr = "old" /\ z.rt = "old" /\ z.trap = "sysreg"
        /\ ~z.host_call /\ ~z.ripas
    BY <1>2, AdvanceIs DEF AtTrap
  <2> HIDE DEF z
  <2>2. ResumedRight(z)  BY <2>1, ResumedArms DEF AtNext
  <2>3. ExitOk(Out(Last(z, last)))  BY <2>1, <2>2, <1>3, <1>6, OutQuiet
  <2>4. QED  BY <2>3, <1>4, <1>6 DEF z
<1>7. CASE s.reg # "icc"
  <2> DEFINE z == advance_pc(v)
  <2>1. /\ z \in ExitType /\ z.pc = "next" /\ z.elr = "old" /\ z.rt # "host" /\ z.trap = "sysreg"
        /\ ~z.host_call /\ ~z.ripas /\ z.last = NoAbort
    BY <1>5, AdvanceIs
  <2> HIDE DEF z
  <2>2. ResumedRight(z)  BY <2>1, ResumedArms DEF AtNext
  <2>3. ExitOk(Back(z))  BY <2>1, <2>2, BackSettled
  <2>4. QED  BY <2>3, <1>4, <1>7 DEF z
<1>8. QED  BY <1>6, <1>7

\* WFI and WFE, interrupts, SErrors and undefined instructions.
LEMMA WfxOk ==
  ASSUME NEW x \in ExitType, Settled(x)
  PROVE  ExitOk(Out(Last(advance_pc(Trapped(x, "wfx", "")), LastEc("wfx"))))
<1> DEFINE z == advance_pc(Trapped(x, "wfx", ""))
<1>0. PICK y : y = Trapped(x, "wfx", "")  OBVIOUS
<1>1. AtTrap(y, "wfx", "") /\ z = advance_pc(y)  BY <1>0, TrappedIs DEF Traps, Areas
<1> HIDE DEF z
<1>2. /\ z \in ExitType /\ z.pc = "next" /\ z.elr = "old" /\ z.rt = "old" /\ z.trap = "wfx"
      /\ ~z.host_call /\ ~z.ripas
  <2>1. /\ y \in ExitType /\ y.pc = "at" /\ y.elr = "old" /\ y.rt = "old" /\ y.trap = "wfx"
        /\ ~y.host_call /\ ~y.ripas
    BY <1>1 DEF AtTrap
  <2>2. QED  BY <2>1, <1>1, AdvanceIs
<1>3. ResumedRight(z)  BY <1>2, ResumedArms DEF AtNext
<1>4. LastEc("wfx") \in LastType /\ LastEc("wfx").ec = "wfx"  BY LastTypes
<1>5. ExitOk(Out(Last(z, LastEc("wfx"))))  BY <1>2, <1>3, <1>4, OutQuiet
<1>6. QED  BY <1>5 DEF z

LEMMA UndefOk ==
  ASSUME NEW x \in ExitType, Settled(x)
  PROVE  ExitOk(Back(Inject(Trapped(x, "undef", ""))))
<1> DEFINE z == Inject(Trapped(x, "undef", ""))
<1>0. PICK y : y = Trapped(x, "undef", "")  OBVIOUS
<1>1. AtTrap(y, "undef", "") /\ z = Inject(y)  BY <1>0, TrappedIs DEF Traps, Areas
<1> HIDE DEF z
<1>2. /\ z \in ExitType /\ z.pc = "vector" /\ z.elr = "at" /\ z.rt = "old" /\ z.trap = "undef"
      /\ ~z.host_call /\ ~z.ripas /\ z.last = NoAbort
  <2>1. /\ y \in ExitType /\ y.pc = "at" /\ y.rt = "old" /\ y.trap = "undef"
        /\ ~y.host_call /\ ~y.ripas /\ y.last = NoAbort
    BY <1>1 DEF AtTrap
  <2>2. QED  BY <2>1, <1>1, InjectIs
<1>3. ResumedRight(z)  BY <1>2, ResumedArms DEF AtVector
<1>4. ExitOk(Back(z))  BY <1>2, <1>3, BackSettled
<1>5. QED  BY <1>4 DEF z

LEMMA InterruptOk ==
  ASSUME NEW x \in ExitType, Settled(x), NEW trap \in {"irq", "fiq", "serror", "simd"}
  PROVE  /\ Settled(Trapped(x, trap, "")) /\ ExitOk(Out(Trapped(x, trap, "")))
         /\ ExitOk(Back(Trapped(x, trap, "")))
<1> DEFINE z == Trapped(x, trap, "")
<1>1. AtTrap(z, trap, "")  BY TrappedIs DEF Traps, Areas
<1> HIDE DEF z
<1>2. ResumedRight(z)  BY <1>1, ResumedArms DEF AtTrap, AtRetry
<1>3. Settled(z) /\ z \in ExitType  BY <1>1, <1>2 DEF Settled, AtTrap
<1>4. Open(z)  BY <1>3, SettledOpen
<1>5. QED  BY <1>3, <1>4 DEF ExitOk, Out, Back, z

LEMMA SErrorOk ==
  ASSUME NEW x \in ExitType, Settled(x), NEW aet
  PROVE  ExitOk(handle_exception_serror_lel(x, aet))
<1> DEFINE y == Trapped(x, "serror", "")
           z == [y EXCEPT !.serror = @ \/ aet \in {"UEU", "UER"}]
<1>1. Settled(y) /\ AtTrap(y, "serror", "")  BY InterruptOk, TrappedIs DEF Traps, Areas
<1>2. handle_exception_serror_lel(x, aet) = Out(Last(z, LastEc("serror")))
  BY DEF handle_exception_serror_lel
<1> HIDE DEF y
<1>3. z \in ExitType /\ ~z.host_call /\ ~z.ripas /\ AtRetry(z) /\ z.trap = "serror"
  BY <1>1 DEF AtTrap, ExitType, AtRetry
<1> HIDE DEF z
<1>4. ResumedRight(z)  BY <1>3, ResumedArms
<1>5. LastEc("serror") \in LastType /\ LastEc("serror").ec = "serror"  BY LastTypes
<1>6. QED  BY <1>2, <1>3, <1>4, <1>5, OutQuiet


\* RSI calls.  A call that is answered goes on behind the SMC; one that aborts is made again; a
\* change of RIPAS and a host call wait for the host.
LEMMA RsiAnsweredOk ==
  ASSUME NEW x \in ExitType, Settled(x), NEW exit \in BOOLEAN
  PROVE  ExitOk(RsiAnswered(x, exit))
<1> DEFINE y == Trapped(x, "rsi", "")
           v == [Smc(x, "rsi") EXCEPT !.x0 = "result"]
           z == advance_pc(v)
<1>1. AtTrap(y, "rsi", "")  BY TrappedIs DEF Traps, Areas
<1>2. v = [[y EXCEPT !.x0 = "fid"] EXCEPT !.x0 = "result"]  BY DEF Smc
<1> HIDE DEF y
<1>3. /\ v \in ExitType /\ v.pc = "at" /\ v.elr = "old" /\ v.x0 = "result" /\ v.trap = "rsi"
      /\ v.last = NoAbort /\ ~v.host_call /\ ~v.ripas
  <2> DEFINE w == [y EXCEPT !.x0 = "fid"]
  <2>1. /\ w \in ExitType /\ w.pc = "at" /\ w.elr = "old" /\ w.trap = "rsi"
        /\ w.last = NoAbort /\ ~w.host_call /\ ~w.ripas
    BY <1>1 DEF AtTrap, ExitType
  <2>2. v = [w EXCEPT !.x0 = "result"]  BY <1>2
  <2> HIDE DEF w, v
  <2>3. QED  BY <2>1, <2>2 DEF ExitType
<1>4. RsiAnswered(x, exit) = IF exit THEN Out(Last(z, LastEc("smc"))) ELSE Back(z)
  BY DEF RsiAnswered
<1> HIDE DEF v
<1>5. /\ z \in ExitType /\ z.pc = "next" /\ z.elr = "old" /\ z.x0 = "result" /\ z.trap = "rsi"
      /\ z.last = NoAbort /\ ~z.host_call /\ ~z.ripas
  BY <1>3, AdvanceIs
<1> HIDE DEF z
<1>6. ResumedRight(z)  BY <1>5, ResumedArms DEF AtNext
<1>7. LastEc("smc") \in LastType /\ LastEc("smc").ec = "smc"  BY LastTypes
<1>8. ExitOk(Out(Last(z, LastEc("smc")))) /\ ExitOk(Back(z))
  BY <1>5, <1>6, <1>7, OutQuiet, BackSettled
<1>9. QED  BY <1>4, <1>8

LEMMA RsiAbortOk ==
  ASSUME NEW x \in ExitType, Settled(x)
  PROVE  ExitOk(RsiStage2Abort(x))
<1> DEFINE y == Trapped(x, "rsi_abort", "")
           v == [y EXCEPT !.x0 = "fid"]
<1>1. AtTrap(y, "rsi_abort", "")  BY TrappedIs DEF Traps, Areas
<1>2. RsiStage2Abort(x) = Out(Last(v, LastEc("smc")))  BY DEF RsiStage2Abort, Smc
<1> HIDE DEF y
<1>3. /\ v \in ExitType /\ AtRetry(v) /\ v.x0 = "fid" /\ v.trap = "rsi_abort"
      /\ ~v.host_call /\ ~v.ripas
  BY <1>1 DEF AtTrap, ExitType, AtRetry
<1> HIDE DEF v
<1>4. ResumedRight(v)  BY <1>3, ResumedArms
<1>5. LastEc("smc") \in LastType /\ LastEc("smc").ec = "smc"  BY LastTypes
<1>6. QED  BY <1>2, <1>3, <1>4, <1>5, OutQuiet

LEMMA RipasOk ==
  ASSUME NEW x \in ExitType, Settled(x)
  PROVE  ExitOk(RsiIpaStateSet(x))
<1> DEFINE y == Trapped(x, "ripas", "")
           v == [Smc(x, "ripas") EXCEPT !.ripas = TRUE]
           z == Last(advance_pc(v), LastEc("smc"))
<1>1. AtTrap(y, "ripas", "")  BY TrappedIs DEF Traps, Areas
<1>2. v = [[y EXCEPT !.x0 = "fid"] EXCEPT !.ripas = TRUE]  BY DEF Smc
<1>3. RsiIpaStateSet(x) = Out(z)  BY DEF RsiIpaStateSet
<1> HIDE DEF y, v
<1>4. /\ v \in ExitType /\ v.pc = "at" /\ v.elr = "old" /\ v.trap = "ripas"
      /\ ~v.host_call /\ v.ripas
  <2> DEFINE w == [y EXCEPT !.x0 = "fid"]
  <2>1. /\ w \in ExitType /\ w.pc = "at" /\ w.elr = "old" /\ w.trap = "ripas"
        /\ ~w.host_call
    BY <1>1 DEF AtTrap, ExitType
  <2>2. v = [w EXCEPT !.ripas = TRUE]  BY <1>2
  <2> HIDE DEF w
  <2>3. QED  BY <2>1, <2>2 DEF ExitType
<1>5. LastEc("smc") \in LastType /\ LastEc("smc").ec = "smc"  BY LastTypes
<1>6. z \in ExitType /\ RipasOpen(z)
  BY <1>4, <1>5, AdvanceIs, LastIs DEF RipasOpen, AtNext
<1> HIDE DEF z
<1>7. Open(z)  BY <1>6 DEF Open
<1>8. QED  BY <1>3, <1>6, <1>7, OutOpen

LEMMA HostCallOk ==
  ASSUME NEW x \in ExitType, Settled(x), NEW pg \in PageStates
  PROVE  ExitOk(handle_rsi_host_call(x, pg))
<1> DEFINE y == Trapped(x, "host_call", "")
           v == [Smc(x, "host_call") EXCEPT !.host_call = TRUE, !.buf = "args"]
           z == Last(advance_pc(v), LastEc("smc"))
<1>1. AtTrap(y, "host_call", "")  BY TrappedIs DEF Traps, Areas
<1>2. v = [[y EXCEPT !.x0 = "fid"] EXCEPT !.host_call = TRUE, !.buf = "args"]  BY DEF Smc
<1>3. /\ pg = "empty" => handle_rsi_host_call(x, pg) = RsiAnswered(x, FALSE)
      /\ pg = "unmapped" => handle_rsi_host_call(x, pg) = RsiStage2Abort(x)
      /\ pg = "mapped" => handle_rsi_host_call(x, pg) = Out(z)
  BY DEF handle_rsi_host_call
<1> HIDE DEF y, v
<1>4. /\ v \in ExitType /\ v.pc = "at" /\ v.elr = "old" /\ v.trap = "host_call"
      /\ v.host_call /\ ~v.ripas /\ v.x0 = "fid"
  <2> DEFINE w == [y EXCEPT !.x0 = "fid"]
  <2>1. /\ w \in ExitType /\ w.pc = "at" /\ w.elr = "old" /\ w.trap = "host_call" /\ ~w.ripas
        /\ w.x0 = "fid"
    BY <1>1 DEF AtTrap, ExitType
  <2>2. v = [w EXCEPT !.host_call = TRUE, !.buf = "args"]  BY <1>2
  <2> HIDE DEF w
  <2>3. QED  BY <2>1, <2>2 DEF ExitType
<1>5. LastEc("smc") \in LastType /\ LastEc("smc").ec = "smc"  BY LastTypes
<1>6. z \in ExitType /\ HostCallOpen(z)
  BY <1>4, <1>5, AdvanceIs, LastIs DEF HostCallOpen, AtNext
<1> HIDE DEF z
<1>7. Open(z)  BY <1>6 DEF Open
<1>8. ExitOk(Out(z))  BY <1>6, <1>7, OutOpen
<1>9. ExitOk(RsiAnswered(x, FALSE)) /\ ExitOk(RsiStage2Abort(x))  BY RsiAnsweredOk, RsiAbortOk
<1>10. QED  BY <1>3, <1>8, <1>9 DEF PageStates

(***************************************************************************)
(* The next entry completes what is open, and only that.                   *)
(***************************************************************************)
Entered(x, enter, pg) == reset_last_run_info(complete_host_call(Completed(x, enter), pg))

\* The last two completions, host call and reset, on a REC without a data abort.
LEMMA EntryTail ==
  ASSUME NEW x \in ExitType, NEW pg \in PageStates
  PROVE  /\ reset_last_run_info(complete_host_call(x, pg)) \in ExitType
         /\ ~x.host_call /\ ~x.ripas /\ ResumedRight(x) =>
              Settled(reset_last_run_info(complete_host_call(x, pg)))
         /\ HostCallOpen(x) => Settled(reset_last_run_info(complete_host_call(x, pg)))
<1> DEFINE y == complete_host_call(x, pg)
           z == reset_last_run_info(y)
<1>1. /\ y \in ExitType /\ ~y.host_call /\ y.ripas = x.ripas /\ y.pc = x.pc /\ y.elr = x.elr
      /\ y.rt = x.rt /\ y.trap = x.trap /\ y.area = x.area
      /\ ~x.host_call => y = x
      /\ x.host_call => \/ y.x0 = "result" /\ y.buf = "answer"
                        \/ y.x0 = x.x0 /\ y.buf = "skipped"
  <2>1. CASE ~x.host_call  BY <2>1 DEF complete_host_call
  <2>2. CASE x.host_call /\ pg = "mapped"
    <3>1. y = [x EXCEPT !.host_call = FALSE, !.x0 = "result", !.buf = "answer"]
      BY <2>2 DEF complete_host_call
    <3> HIDE DEF y
    <3>2. QED  BY <3>1, <2>2 DEF ExitType
  <2>3. CASE x.host_call /\ pg # "mapped"
    <3>1. y = [x EXCEPT !.host_call = FALSE, !.buf = "skipped"]
      BY <2>3 DEF complete_host_call, ExitType
    <3> HIDE DEF y
    <3>2. QED  BY <3>1, <2>3 DEF ExitType
  <2>4. QED  BY <2>1, <2>2, <2>3
<1> HIDE DEF y
<1>2. /\ z \in ExitType /\ z.last = NoAbort /\ z.host_call = y.host_call /\ z.ripas = y.ripas
      /\ z.pc = y.pc /\ z.elr = y.elr /\ z.x0 = y.x0 /\ z.rt = y.rt /\ z.trap = y.trap
      /\ z.area = y.area /\ z.buf = y.buf
  BY <1>1, LastTypes DEF reset_last_run_info, ExitType
<1> HIDE DEF z
<1>3. ASSUME ~x.host_call, ~x.ripas, ResumedRight(x) PROVE Settled(z)
  <2>1. ResumedRight(z)  BY <1>1, <1>2, <1>3, ResumedSame
  <2>2. QED  BY <2>1, <1>1, <1>2, <1>3 DEF Settled
<1>4. ASSUME HostCallOpen(x) PROVE Settled(z)
  <2>1. z.trap = "host_call" /\ AtNext(z)
    BY <1>1, <1>2, <1>4 DEF HostCallOpen, AtNext
  <2>2. \/ z.x0 = "result" /\ z.buf = "answer"
        \/ z.x0 = "fid" /\ z.buf = "skipped"
    BY <1>1, <1>2, <1>4 DEF HostCallOpen
  <2>3. ResumedRight(z)  BY <2>1, <2>2, ResumedArms
  <2>4. QED  BY <2>3, <1>1, <1>2, <1>4 DEF Settled, HostCallOpen
<1>5. QED  BY <1>2, <1>3, <1>4 DEF y, z


LEMMA EntryCompletes ==
  ASSUME NEW x \in ExitType, Open(x), NEW enter \in [sea : BOOLEAN, mmio : BOOLEAN],
         ~SeaRefused(x, enter), ~MmioRefused(x, enter), NEW pg \in PageStates
  PROVE  /\ HostCallAborts(x, pg) => Completed(x, enter) = x
         /\ ~HostCallAborts(x, pg) =>
              Entered(x, enter, pg) \in ExitType /\ Settled(Entered(x, enter, pg))
<1>1. /\ enter.sea \in BOOLEAN /\ enter.mmio \in BOOLEAN
      /\ enter.sea => x.last.ec = "dabt" /\ x.last.unprot
      /\ enter.mmio /\ ~enter.sea => x.last.ec = "dabt" /\ x.last.isv
  BY DEF SeaRefused, MmioRefused
<1>2. ~enter.sea => complete_sea_insertion(x, enter) = x  BY DEF complete_sea_insertion
<1>3. ASSUME NEW y, ~(enter.mmio /\ ~enter.sea) PROVE complete_mmio_emulation(y, enter) = y
  BY <1>3 DEF complete_mmio_emulation
<1>4. ASSUME NEW y, ~y.ripas PROVE complete_set_ripas(y) = y
  BY <1>4 DEF complete_set_ripas
<1>5. ASSUME NEW y, y.last.ec = "sysreg" => y.last.wr PROVE complete_sysreg_emulation(y) = y
  BY <1>5 DEF complete_sysreg_emulation
<1>6. ASSUME Completed(x, enter) \in ExitType, ~Completed(x, enter).host_call,
             ~Completed(x, enter).ripas, ResumedRight(Completed(x, enter))
      PROVE  Entered(x, enter, pg) \in ExitType /\ Settled(Entered(x, enter, pg))
  BY <1>6, EntryTail DEF Entered
<1>7. CASE NothingOpen(x)
  <2>1. ~enter.sea /\ ~enter.mmio  BY <1>1, <1>7 DEF NothingOpen
  <2>2. ~x.ripas /\ (x.last.ec = "sysreg" => x.last.wr)  BY <1>7 DEF NothingOpen
  <2>3. Completed(x, enter) = x  BY <2>1, <2>2, <1>2, <1>3, <1>4, <1>5 DEF Completed
  <2>4. QED  BY <2>3, <1>6, <1>7 DEF NothingOpen
<1>8. CASE DataAbortOpen(x)
  <2>0. /\ ~HostCallAborts(x, pg)
        /\ x.trap = "dabt" /\ x.last.ec = "dabt" /\ ~x.host_call /\ ~x.ripas /\ x.rt = "old"
    BY <1>8 DEF DataAbortOpen, HostCallAborts
  <2>1. CASE enter.sea
    <3> DEFINE y == Inject(x)
    <3>1. /\ y \in ExitType /\ y.pc = "vector" /\ y.elr = x.pc /\ y.rt = "old" /\ y.trap = "dabt"
          /\ y.area = x.area /\ y.last.ec = "dabt" /\ ~y.host_call /\ ~y.ripas
      BY <2>0, InjectIs
    <3>2. complete_sea_insertion(x, enter) = y  BY <2>1 DEF complete_sea_insertion
    <3> HIDE DEF y
    <3>3. Completed(x, enter) = y  BY <3>1, <3>2, <2>1, <1>3, <1>4, <1>5 DEF Completed
    <3>4. x.area = "ext" \/ (x.area = "unprot" /\ x.pc = "at")
      BY <1>1, <1>8, <2>1 DEF DataAbortOpen
    <3>5. ResumedRight(y)  BY <3>1, <3>4, ResumedArms, AbortArms DEF AtVector
    <3>6. QED  BY <3>1, <3>3, <3>5, <2>0, <1>6
  <2>2. CASE ~enter.sea /\ enter.mmio
    <3> DEFINE v == [x EXCEPT !.rt = IF x.last.wr \/ x.last.xzr THEN @ ELSE "host"]
               y == advance_pc(v)
    <3>1. x.area = "unprot" /\ x.pc = "at" /\ x.elr = "old"
      BY <1>1, <1>8, <2>2 DEF DataAbortOpen
    <3>2. /\ v \in ExitType /\ v.pc = "at" /\ v.elr = "old" /\ v.trap = "dabt"
          /\ v.area = "unprot" /\ v.last.ec = "dabt" /\ ~v.host_call /\ ~v.ripas
      BY <3>1, <2>0 DEF ExitType
    <3>3. complete_mmio_emulation(x, enter) = y  BY <2>2 DEF complete_mmio_emulation
    <3> HIDE DEF v
    <3>4. /\ y \in ExitType /\ y.pc = "next" /\ y.elr = "old" /\ y.trap = "dabt"
          /\ y.area = "unprot" /\ y.last.ec = "dabt" /\ ~y.host_call /\ ~y.ripas
      BY <3>2, AdvanceIs
    <3> HIDE DEF y
    <3>5. Completed(x, enter) = y  BY <3>3, <3>4, <2>2, <1>2, <1>4, <1>5 DEF Completed
    <3>6. ResumedRight(y)  BY <3>4, ResumedArms, AbortArms DEF AtNext
    <3>7. QED  BY <3>4, <3>5, <3>6, <2>0, <1>6
  <2>3. CASE ~enter.sea /\ ~enter.mmio
    <3>1. Completed(x, enter) = x  BY <2>0, <2>3, <1>2, <1>3, <1>4, <1>5 DEF Completed
    <3>2. ResumedRight(x)  BY <1>8, ResumedArms, AbortArms DEF DataAbortOpen, AtRetry
    <3>3. QED  BY <3>1, <3>2, <2>0, <1>6
  <2>4. QED  BY <2>1, <2>2, <2>3, <1>1
<1>9. CASE RipasOpen(x)
  <2> DEFINE y == [x EXCEPT !.x0 = "result", !.ripas = FALSE]
  <2>0. /\ ~HostCallAborts(x, pg) /\ ~enter.sea /\ ~enter.mmio /\ x.ripas
    BY <1>1, <1>9 DEF RipasOpen, HostCallAborts
  <2>1. /\ y \in ExitType /\ AtNext(y) /\ y.x0 = "result" /\ y.trap = "ripas"
        /\ ~y.host_call /\ ~y.ripas /\ y.last.ec = "smc"
    BY <1>9 DEF RipasOpen, AtNext, ExitType
  <2>2. complete_set_ripas(x) = y  BY <2>0 DEF complete_set_ripas
  <2> HIDE DEF y
  <2>3. Completed(x, enter) = y  BY <2>0, <2>1, <2>2, <1>2, <1>3, <1>5 DEF Completed
  <2>4. ResumedRight(y)  BY <2>1, ResumedArms
  <2>5. QED  BY <2>0, <2>1, <2>3, <2>4, <1>6
<1>10. CASE HostCallOpen(x)
  <2>1. ~enter.sea /\ ~enter.mmio  BY <1>1, <1>10 DEF HostCallOpen
  <2>2. ~x.ripas /\ x.last.ec = "smc"  BY <1>10 DEF HostCallOpen
  <2>3. Completed(x, enter) = x  BY <2>1, <2>2, <1>2, <1>3, <1>4, <1>5 DEF Completed
  <2>4. QED  BY <2>3, <1>10, EntryTail DEF Entered
<1>11. QED  BY <1>7, <1>8, <1>9, <1>10 DEF Open

\* A pending SError is taken out of the REC when the realm runs; nothing else changes.
LEMMA SErrorTaken ==
  ASSUME NEW x \in ExitType, Settled(x)
  PROVE  [x EXCEPT !.serror = FALSE] \in ExitType /\ Settled([x EXCEPT !.serror = FALSE])
<1> DEFINE y == [x EXCEPT !.serror = FALSE]
<1>1. /\ y \in ExitType /\ y.last = x.last /\ y.host_call = x.host_call /\ y.ripas = x.ripas
      /\ y.pc = x.pc /\ y.elr = x.elr /\ y.x0 = x.x0 /\ y.rt = x.rt /\ y.trap = x.trap
      /\ y.area = x.area /\ y.buf = x.buf
  BY DEF ExitType
<1> HIDE DEF y
<1>2. ResumedRight(y)  BY <1>1, ResumedSame DEF Settled
<1>3. Settled(y)  BY <1>1, <1>2 DEF Settled
<1>4. QED  BY <1>1, <1>3 DEF y

\* The list registers that gic_validate_state lets through.
LEMMA ValidatedUsable ==
  ASSUME NEW lrs \in Seq(LrShape), gic_validate_state(lrs)
  PROVE  LrsUsable(lrs)
<1>1. DOMAIN lrs = 1..Len(lrs) /\ Len(lrs) \in Nat  OBVIOUS
<1>2. ASSUME NEW i \in DOMAIN lrs, lrs[i].valid PROVE LrOk(lrs[i])
  BY <1>2 DEF gic_validate_state
<1>3. ASSUME NEW i \in DOMAIN lrs, NEW j \in DOMAIN lrs, lrs[i].valid, lrs[j].valid, i < j
      PROVE  lrs[j].vintid # lrs[i].vintid
  <2>1. j \in (i + 1)..Len(lrs)  BY <1>1, <1>3
  <2>2. QED  BY <2>1, <1>3 DEF gic_validate_state
<1>4. ASSUME NEW i \in DOMAIN lrs, NEW j \in DOMAIN lrs, lrs[i].valid, lrs[j].valid, i # j
      PROVE  lrs[j].vintid # lrs[i].vintid
  <2>1. i < j \/ j < i  BY <1>1, <1>4
  <2>2. QED  BY <2>1, <1>3, <1>4
<1>5. QED  BY <1>2, <1>4 DEF LrsUsable


-----------------------------------------------------------------------------
(***************************************************************************)
(* Steps of one PE on the values of the PE and of one REC.                 *)
(***************************************************************************)
Frame == page' \in PageStates /\ due' \in [REC -> BOOLEAN] /\ told' \in [REC -> BOOLEAN]

\* NoRec is the REC of a PE exactly when it is at the host.
LEMMA AtHostIs ==
  ASSUME RunInv, NEW p \in PE
  PROVE  /\ pe[p].at = "host" <=> pe[p].rec = NoRec
         /\ pe[p].at # "host" => pe[p].rec \in REC
         /\ pe[p] \in PeType
BY Config DEF RunInv, HostOk, Types

\* A PE that runs a REC goes on running it.
LEMMA RunsOn ==
  ASSUME RunInv, Frame, NEW p \in PE, pe[p].at # "host", NEW r \in REC, r = pe[p].rec,
         NEW c \in PeType, NEW x \in RecType, RunOk(r, c, x),
         pe' = [pe EXCEPT ![p] = c], rec' = [rec EXCEPT ![r] = x]
  PROVE  RunInv'
<1>0. Types  BY DEF RunInv
<1>1. /\ Types' /\ pe'[p] = c /\ rec'[r] = x
      /\ \A q \in PE : q # p => pe'[q] = pe[q]
      /\ \A s \in REC : s # r => rec'[s] = rec[s]
  BY <1>0 DEF Types, Frame
<1>2. \A q \in PE : pe'[q].rec = pe[q].rec  BY <1>1 DEF RunOk
<1>3. \A q \in PE : q # p => pe[q].rec # r  BY Config DEF RunInv
<1>4. \A q \in PE : pe'[q].at = "host" => HostOk(pe'[q])
  BY <1>1 DEF RunInv, RunOk
<1>5. ASSUME NEW q \in PE, pe'[q].at # "host"
      PROVE  pe'[q].rec \in REC /\ RunOk(pe'[q].rec, pe'[q], rec'[pe'[q].rec])
  <2>1. CASE q = p  BY <2>1, <1>1 DEF RunOk
  <2>2. CASE q # p
    <3>1. pe'[q] = pe[q] /\ pe[q].rec \in REC /\ RunOk(pe[q].rec, pe[q], rec[pe[q].rec])
      BY <2>2, <1>1, <1>5 DEF RunInv
    <3>2. rec'[pe[q].rec] = rec[pe[q].rec]  BY <3>1, <2>2, <1>1, <1>3
    <3>3. QED  BY <3>1, <3>2
  <2>3. QED  BY <2>1, <2>2
<1>6. ASSUME NEW s \in REC, ~Running(s)' PROVE IdleOk(s, rec'[s])
  <2>1. ~Running(s) /\ s # r  BY <1>2, <1>6 DEF Running
  <2>2. QED  BY <2>1, <1>1 DEF RunInv
<1>7. \A q, q1 \in PE : pe'[q].rec = pe'[q1].rec /\ pe'[q].rec # NoRec => q = q1
  BY <1>2 DEF RunInv
<1>8. QED  BY <1>1, <1>4, <1>5, <1>6, <1>7 DEF RunInv

\* A PE goes back to the host; the REC is free again.
LEMMA GoesBack ==
  ASSUME RunInv, Frame, NEW p \in PE, pe[p].at # "host", NEW r \in REC, r = pe[p].rec,
         NEW c \in PeType, NEW x \in RecType, c.at = "host", HostOk(c), IdleOk(r, x),
         pe' = [pe EXCEPT ![p] = c], rec' = [rec EXCEPT ![r] = x]
  PROVE  RunInv'
<1>0. Types  BY DEF RunInv
<1>1. /\ Types' /\ pe'[p] = c /\ rec'[r] = x
      /\ \A q \in PE : q # p => pe'[q] = pe[q]
      /\ \A s \in REC : s # r => rec'[s] = rec[s]
  BY <1>0 DEF Types, Frame
<1>2. pe'[p].rec = NoRec  BY <1>1 DEF HostOk
<1>3. \A q \in PE : q # p => pe[q].rec # r  BY Config DEF RunInv
<1>4. \A q \in PE : pe'[q].at = "host" => HostOk(pe'[q])
  BY <1>1 DEF RunInv
<1>5. ASSUME NEW q \in PE, pe'[q].at # "host"
      PROVE  pe'[q].rec \in REC /\ RunOk(pe'[q].rec, pe'[q], rec'[pe'[q].rec])
  <2>1. q # p  BY <1>1, <1>5
  <2>2. pe'[q] = pe[q] /\ pe[q].rec \in REC /\ RunOk(pe[q].rec, pe[q], rec[pe[q].rec])
    BY <2>1, <1>1, <1>5 DEF RunInv
  <2>3. rec'[pe[q].rec] = rec[pe[q].rec]  BY <2>1, <2>2, <1>1, <1>3
  <2>4. QED  BY <2>2, <2>3
<1>6. ASSUME NEW s \in REC, ~Running(s)' PROVE IdleOk(s, rec'[s])
  <2>1. CASE s = r  BY <2>1, <1>1
  <2>2. CASE s # r
    <3>1. ~Running(s)  BY <2>2, <1>1, <1>6 DEF Running
    <3>2. QED  BY <3>1, <2>2, <1>1 DEF RunInv
  <2>3. QED  BY <2>1, <2>2
<1>7. \A q, q1 \in PE : pe'[q].rec = pe'[q1].rec /\ pe'[q].rec # NoRec => q = q1
  BY <1>1, <1>2 DEF RunInv
<1>8. QED  BY <1>1, <1>4, <1>5, <1>6, <1>7 DEF RunInv

\* A PE starts to run a REC that nobody runs.
LEMMA Starts ==
  ASSUME RunInv, Frame, NEW p \in PE, pe[p].at = "host", NEW r \in REC, ~Running(r),
         NEW c \in PeType, NEW x \in RecType, RunOk(r, c, x),
         pe' = [pe EXCEPT ![p] = c], rec' = [rec EXCEPT ![r] = x]
  PROVE  RunInv'
<1>0. Types  BY DEF RunInv
<1>1. /\ Types' /\ pe'[p] = c /\ rec'[r] = x
      /\ \A q \in PE : q # p => pe'[q] = pe[q]
      /\ \A s \in REC : s # r => rec'[s] = rec[s]
  BY <1>0 DEF Types, Frame
<1>2. pe'[p].rec = r /\ pe'[p].at # "host"  BY <1>1 DEF RunOk
<1>3. \A q \in PE : pe[q].rec # r  BY DEF Running
<1>4. \A q \in PE : pe'[q].at = "host" => HostOk(pe'[q])
  BY <1>1, <1>2 DEF RunInv
<1>5. ASSUME NEW q \in PE, pe'[q].at # "host"
      PROVE  pe'[q].rec \in REC /\ RunOk(pe'[q].rec, pe'[q], rec'[pe'[q].rec])
  <2>1. CASE q = p  BY <2>1, <1>1, <1>2
  <2>2. CASE q # p
    <3>1. pe'[q] = pe[q] /\ pe[q].rec \in REC /\ RunOk(pe[q].rec, pe[q], rec[pe[q].rec])
      BY <2>2, <1>1, <1>5 DEF RunInv
    <3>2. rec'[pe[q].rec] = rec[pe[q].rec]  BY <3>1, <1>1, <1>3
    <3>3. QED  BY <3>1, <3>2
  <2>3. QED  BY <2>1, <2>2
<1>6. ASSUME NEW s \in REC, ~Running(s)' PROVE IdleOk(s, rec'[s])
  <2>1. s # r  BY <1>2, <1>6 DEF Running
  <2>2. \A q \in PE : pe[q].rec # s
    <3>1. SUFFICES ASSUME NEW q \in PE, pe[q].rec = s PROVE FALSE  OBVIOUS
    <3>2. q # p  BY <3>1, AtHostIs, Config
    <3>3. QED  BY <3>1, <3>2, <1>1, <1>6 DEF Running
  <2>3. ~Running(s)  BY <2>2 DEF Running
  <2>4. QED  BY <2>1, <2>3, <1>1 DEF RunInv
<1>7. \A q, q1 \in PE : pe'[q].rec = pe'[q1].rec /\ pe'[q].rec # NoRec => q = q1
  BY <1>1, <1>2, <1>3 DEF RunInv
<1>8. QED  BY <1>1, <1>4, <1>5, <1>6, <1>7 DEF RunInv

\* A PE stays at the host; a REC that nobody runs may change.
LEMMA StaysAtHost ==
  ASSUME RunInv, Frame, NEW p \in PE, pe[p].at = "host", NEW c \in PeType, c.at = "host",
         HostOk(c), pe' = [pe EXCEPT ![p] = c],
         \/ rec' = rec
         \/ \E r \in REC : \E x \in RecType :
              ~Running(r) /\ IdleOk(r, x) /\ rec' = [rec EXCEPT ![r] = x]
  PROVE  RunInv'
<1>1. /\ pe' \in [PE -> PeType] /\ rec' \in [REC -> RecType] /\ pe'[p] = c
      /\ \A q \in PE : q # p => pe'[q] = pe[q]
      /\ \A s \in REC : Running(s) => rec'[s] = rec[s]
      /\ \A s \in REC : ~Running(s) => IdleOk(s, rec'[s])
  BY DEF RunInv, Types
<1>2. Types'  BY <1>1 DEF Types, Frame
<1>3. \A q \in PE : pe'[q].rec = pe[q].rec  BY <1>1 DEF HostOk, RunInv
<1>4. \A q \in PE : pe'[q].at = "host" => HostOk(pe'[q])
  BY <1>1 DEF RunInv
<1>5. ASSUME NEW q \in PE, pe'[q].at # "host"
      PROVE  pe'[q].rec \in REC /\ RunOk(pe'[q].rec, pe'[q], rec'[pe'[q].rec])
  <2>1. pe'[q] = pe[q]  BY <1>1, <1>5
  <2>2. pe[q].rec \in REC /\ RunOk(pe[q].rec, pe[q], rec[pe[q].rec]) /\ Running(pe[q].rec)
    BY <2>1, <1>5 DEF RunInv, Running
  <2>3. QED  BY <2>1, <2>2, <1>1
<1>6. \A s \in REC : Running(s)' <=> Running(s)  BY <1>3 DEF Running
<1>7. \A q, q1 \in PE : pe'[q].rec = pe'[q1].rec /\ pe'[q].rec # NoRec => q = q1
  BY <1>3 DEF RunInv
<1>8. QED  BY <1>1, <1>2, <1>4, <1>5, <1>6, <1>7 DEF RunInv


-----------------------------------------------------------------------------
(***************************************************************************)
(* The host's side: calls and entries.                                     *)
(***************************************************************************)
LEMMA CallIs ==
  ASSUME NEW call \in NsCalls
  PROVE  /\ call \in CallType
         /\ call.hint \in BOOLEAN /\ call.sm \in BOOLEAN /\ call.zcr \in Nat /\ (call.sm => CpuSme)
BY RecRunAssumption DEF Configured, CallType

LEMMA HintIs ==
  ASSUME NEW ctx \in CtxType, NEW old, NsShape(ctx, old), ~ctx.saved, NEW call \in CallType
  PROVE  /\ simd_update_smc_sve_hint(ctx, call.hint) \in CtxType
         /\ NsShape(simd_update_smc_sve_hint(ctx, call.hint), call)
         /\ ~simd_update_smc_sve_hint(ctx, call.hint).saved
<1>1. call.hint \in BOOLEAN  BY DEF CallType
<1>2. CASE ctx.sve
  <2> DEFINE n == [ctx EXCEPT !.hint = call.hint]
  <2>1. /\ n \in CtxType /\ n.owner = ctx.owner /\ n.init = ctx.init /\ n.sve = ctx.sve
        /\ n.sme = ctx.sme /\ n.zcr = ctx.zcr /\ n.hint = call.hint /\ n.saved = ctx.saved
    BY <1>1 DEF CtxType
  <2>2. simd_update_smc_sve_hint(ctx, call.hint) = n  BY <1>2 DEF simd_update_smc_sve_hint
  <2> HIDE DEF n
  <2>3. QED  BY <2>1, <2>2 DEF NsShape
<1>3. CASE ~ctx.sve
  BY <1>3, Config DEF simd_update_smc_sve_hint, NsShape
<1>4. QED  BY <1>2, <1>3

LEMMA NsSmcIs ==
  ASSUME RunInv, NEW p \in PE, pe[p].at = "host", NEW call \in NsCalls
  PROVE  /\ NsSmc(p, call) \in PeType /\ NsSmc(p, call).at = "host" /\ HostOk(NsSmc(p, call))
         /\ NsSmc(p, call).call = call
<1>1. PICK c \in PeType : c = pe[p]  BY AtHostIs
<1>2. HostOk(c)  BY <1>1 DEF RunInv
<1> DEFINE live == [vregs |-> Vregs(Host), sm |-> call.sm, zcr |-> call.zcr]
           simd == [live |-> live, saved |-> c.simd.saved, ok |-> c.simd.ok /\ ~c.simd.saved]
           hint == simd_update_smc_sve_hint(c.nsctx, call.hint)
           n == [c EXCEPT !.call = call, !.nsctx = hint, !.simd = simd]
<1>3. NsSmc(p, call) = n  BY <1>1 DEF NsSmc, PeType
<1>4. call \in CallType  BY CallIs
<1>5. c.nsctx \in CtxType /\ c.simd \in SimdType  BY DEF PeType
<1>6. hint \in CtxType /\ NsShape(hint, call) /\ ~hint.saved
  BY <1>2, <1>4, <1>5, HintIs DEF HostOk
<1>7. live \in LiveType /\ HostLive(live, call)
  BY CallIs, OwnerHas DEF LiveType, VregsType, Vregs, HostLive, SimdOf
<1> HIDE DEF live, hint
<1>8. simd \in SimdType /\ simd.ok /\ ~simd.saved /\ simd.live = live
  BY <1>2, <1>5, <1>7 DEF SimdType, HostOk
<1> HIDE DEF simd
<1>9. /\ n \in PeType /\ n.at = c.at /\ n.rec = c.rec /\ n.heap = c.heap /\ n.sys = c.sys
      /\ n.pmu = c.pmu /\ n.keys = c.keys /\ n.simd = simd /\ n.call = call /\ n.nsctx = hint
  BY <1>4, <1>6, <1>8 DEF PeType
<1> HIDE DEF n
<1>10. HostOk(n)  BY <1>2, <1>6, <1>7, <1>8, <1>9 DEF HostOk
<1>11. QED  BY <1>1, <1>3, <1>9, <1>10

LEMMA NsSmcFpuKeeps ==
  ASSUME RunInv, NEW p \in PE, NEW call \in NsCalls, NsSmcFpu(p, call)
  PROVE  RunInv'
<1>1. pe[p].at = "host"  BY DEF NsSmcFpu
<1>2. PICK c : c = NsSmc(p, call)  OBVIOUS
<1>3. c \in PeType /\ c.at = "host" /\ HostOk(c) /\ c.call = call  BY <1>1, <1>2, NsSmcIs
<1> DEFINE c1 == SaveCtx(c.nsctx, c.simd.live)
           s1 == SwitchIn(SIMD_FPU_ALLOW(SwitchOut(c.simd, c.nsctx)), c1)
           n == [c EXCEPT !.nsctx = Restored(c1), !.simd = s1]
<1>4. pe' = [pe EXCEPT ![p] = n] /\ rec' = rec /\ UNCHANGED <<page, due, told>>
  BY <1>2 DEF NsSmcFpu
<1>5. call \in CallType  BY CallIs
<1>6. c.simd \in SimdType /\ c.nsctx \in CtxType  BY <1>3 DEF PeType
<1>7. /\ s1 \in SimdType /\ s1.ok /\ ~s1.saved /\ HostLive(s1.live, call)
      /\ Restored(c1) \in CtxType /\ NsShape(Restored(c1), call) /\ ~Restored(c1).saved
  BY <1>3, <1>5, <1>6, HostFpu DEF HostOk
<1> HIDE DEF c1, s1
<1>8. /\ n \in PeType /\ n.at = "host" /\ n.rec = c.rec /\ n.heap = c.heap /\ n.sys = c.sys
      /\ n.pmu = c.pmu /\ n.keys = c.keys /\ n.simd = s1 /\ n.call = call
      /\ n.nsctx = Restored(c1)
  BY <1>3, <1>7 DEF PeType
<1> HIDE DEF n
<1>9. HostOk(n)  BY <1>3, <1>7, <1>8 DEF HostOk
<1>10. Frame  BY <1>4 DEF Frame, RunInv, Types
<1>11. QED  BY <1>1, <1>4, <1>8, <1>9, <1>10, StaysAtHost

\* A free REC stays well when its list registers or its open exit change.
LEMMA IdleChanges ==
  ASSUME NEW r \in REC, NEW x \in RecType, IdleOk(r, x), NEW lrs \in Seq(LrShape),
         NEW e \in ExitType, Open(e)
  PROVE  /\ [x EXCEPT !.lrs = lrs] \in RecType /\ IdleOk(r, [x EXCEPT !.lrs = lrs])
         /\ [x EXCEPT !.lrs = lrs, !.exit = e] \in RecType
         /\ IdleOk(r, [x EXCEPT !.lrs = lrs, !.exit = e])
<1> DEFINE y == [x EXCEPT !.lrs = lrs]
           z == [x EXCEPT !.lrs = lrs, !.exit = e]
<1>1. /\ y \in RecType /\ y.sys = x.sys /\ y.pmu = x.pmu /\ y.keys = x.keys /\ y.ns = x.ns
      /\ y.active = x.active /\ y.cptr = x.cptr /\ y.ctx = x.ctx /\ y.exit = x.exit
  BY DEF RecType
<1>2. /\ z \in RecType /\ z.sys = x.sys /\ z.pmu = x.pmu /\ z.keys = x.keys /\ z.ns = x.ns
      /\ z.active = x.active /\ z.cptr = x.cptr /\ z.ctx = x.ctx /\ z.exit = e
  BY DEF RecType
<1> HIDE DEF y, z
<1>3. IdleOk(r, y) /\ IdleOk(r, z)  BY <1>1, <1>2 DEF IdleOk, OwnBanks
<1>4. QED  BY <1>1, <1>2, <1>3 DEF y, z

LEMMA FreeRec ==
  ASSUME RunInv, NEW r \in REC, ~Running(r)
  PROVE  /\ rec[r] \in RecType /\ IdleOk(r, rec[r])
         /\ rec[r].exit \in ExitType /\ Open(rec[r].exit) /\ rec[r].lrs \in Seq(LrShape)
BY DEF RunInv, Types, IdleOk, RecType

LEMMA RefusedKeeps ==
  ASSUME RunInv, NEW p \in PE, NEW r \in REC, NEW enter \in Enters, NEW lrs \in LrLists,
         NEW call \in NsCalls, RecEnterRefused(p, r, enter, lrs, call)
  PROVE  RunInv'
<1>1. pe[p].at = "host" /\ ~Running(r)  BY DEF RecEnterRefused
<1>2. NsSmc(p, call) \in PeType /\ NsSmc(p, call).at = "host" /\ HostOk(NsSmc(p, call))
  BY <1>1, NsSmcIs
<1>3. PICK l : l = IF gic_validate_state(lrs) THEN lrs ELSE rec[r].lrs  OBVIOUS
<1>4. lrs \in Seq(LrShape)  BY RecRunAssumption DEF Configured
<1>5. l \in Seq(LrShape)  BY <1>1, <1>3, <1>4, FreeRec
<1>6. /\ pe' = [pe EXCEPT ![p] = NsSmc(p, call)] /\ UNCHANGED <<page, due, told>>
      /\ rec' = [rec EXCEPT ![r] = [rec[r] EXCEPT !.lrs = l]]
  BY <1>3 DEF RecEnterRefused, RunInv, Types, RecType
<1>7. [rec[r] EXCEPT !.lrs = l] \in RecType /\ IdleOk(r, [rec[r] EXCEPT !.lrs = l])
  BY <1>1, <1>5, FreeRec, IdleChanges
<1>8. Frame  BY <1>6 DEF Frame, RunInv, Types
<1>9. QED  BY <1>1, <1>2, <1>6, <1>7, <1>8, StaysAtHost

LEMMA AbortedKeeps ==
  ASSUME RunInv, NEW p \in PE, NEW r \in REC, NEW enter \in Enters, NEW lrs \in LrLists,
         NEW call \in NsCalls, RecEnterAborted(p, r, enter, lrs, call)
  PROVE  RunInv'
<1>1. /\ pe[p].at = "host" /\ ~Running(r) /\ ~SeaRefused(rec[r].exit, enter)
      /\ ~MmioRefused(rec[r].exit, enter) /\ HostCallAborts(rec[r].exit, page)
  BY DEF RecEnterAborted, Refused
<1>2. NsSmc(p, call) \in PeType /\ NsSmc(p, call).at = "host" /\ HostOk(NsSmc(p, call))
  BY <1>1, NsSmcIs
<1>3. lrs \in Seq(LrShape) /\ enter \in [sea : BOOLEAN, mmio : BOOLEAN]
  BY RecRunAssumption DEF Configured
<1>4. PICK e : e = Completed(rec[r].exit, enter)  OBVIOUS
<1>5. page \in PageStates  BY DEF RunInv, Types
<1>6. e = rec[r].exit  BY <1>1, <1>3, <1>4, <1>5, FreeRec, EntryCompletes
<1>7. /\ pe' = [pe EXCEPT ![p] = NsSmc(p, call)] /\ UNCHANGED <<page, due>>
      /\ told' = [told EXCEPT ![r] = FALSE]
      /\ rec' = [rec EXCEPT ![r] = [rec[r] EXCEPT !.lrs = lrs, !.exit = e]]
  BY <1>4 DEF RecEnterAborted, RunInv, Types, RecType
<1>8. /\ [rec[r] EXCEPT !.lrs = lrs, !.exit = e] \in RecType
      /\ IdleOk(r, [rec[r] EXCEPT !.lrs = lrs, !.exit = e])
  BY <1>1, <1>3, <1>6, FreeRec, IdleChanges
<1>9. Frame  BY <1>7 DEF Frame, RunInv, Types
<1>10. QED  BY <1>1, <1>2, <1>7, <1>8, <1>9, StaysAtHost


\* A PE that enters the REC r: the host's banks are saved, the REC's loaded.
EntryPe(n, r, lrs) ==
  [restore_realm_state(save_ns_state(n, r), r, lrs) EXCEPT !.at = "loop", !.rec = r, !.heap = TRUE]

LEMMA BanksIn ==
  ASSUME NEW r \in REC, NEW n \in PeType, HostOk(n), NEW lrs \in Seq(LrShape),
         rec[r] \in RecType, OwnBanks(r, rec[r])
  PROVE  LET c == EntryPe(n, r, lrs)
         IN  /\ c \in PeType /\ c.at = "loop" /\ c.rec = r /\ c.heap /\ RunBanks(r, c)
             /\ c.lrs = lrs /\ c.simd = n.simd /\ c.nsctx = n.nsctx /\ c.call = n.call
<1>1. PICK x \in RecType : x = rec[r]  OBVIOUS
<1>2. x.sys = r /\ x.pmu = r /\ x.ctl \in BOOLEAN  BY <1>1 DEF OwnBanks, RecType
<1>3. n.sys = Host /\ n.pmu = Host /\ n.keys = RmmData  BY DEF HostOk
<1> DEFINE saved == [sys |-> n.sys, pmu |-> IF r \in PmuRec THEN n.pmu ELSE n.ns_data.pmu]
           a == [n EXCEPT !.ns_data = saved]
           b == [[a EXCEPT !.sys = x.sys, !.ctl = x.ctl] EXCEPT !.lrs = lrs]
           d == IF r \in PmuRec THEN [b EXCEPT !.pmu = x.pmu] ELSE b
           c == [[d EXCEPT !.vse = FALSE] EXCEPT !.at = "loop", !.rec = r, !.heap = TRUE]
<1>4. restore_realm_state(save_ns_state(n, r), r, lrs) = [d EXCEPT !.vse = FALSE]
  BY <1>1 DEF restore_realm_state, save_ns_state, restore_sysreg_state, pmu_restore_state,
     gic_restore_state, PeType
<1>5. saved \in [sys : Owner, pmu : Owner] /\ saved.sys = Host /\ (r \in PmuRec => saved.pmu = Host)
  BY <1>3 DEF PeType
<1> HIDE DEF saved
<1>6. /\ a \in PeType /\ a.ns_data = saved /\ a.pmu = Host /\ a.keys = RmmData
      /\ a.simd = n.simd /\ a.nsctx = n.nsctx /\ a.call = n.call
  BY <1>3, <1>5 DEF PeType
<1> HIDE DEF a
<1>7. /\ b \in PeType /\ b.ns_data = saved /\ b.pmu = Host /\ b.keys = RmmData /\ b.sys = r
      /\ b.lrs = lrs /\ b.simd = n.simd /\ b.nsctx = n.nsctx /\ b.call = n.call
  BY <1>2, <1>6, OwnerHas DEF PeType
<1> HIDE DEF b
<1>8. /\ d \in PeType /\ d.ns_data = saved /\ d.keys = RmmData /\ d.sys = r
      /\ d.pmu = (IF r \in PmuRec THEN r ELSE Host)
      /\ d.lrs = lrs /\ d.simd = n.simd /\ d.nsctx = n.nsctx /\ d.call = n.call
  BY <1>2, <1>7, OwnerHas DEF PeType
<1> HIDE DEF d
<1>9. /\ c \in PeType /\ c.ns_data = saved /\ c.keys = RmmData /\ c.sys = r /\ c.at = "loop"
      /\ c.rec = r /\ c.heap /\ c.pmu = (IF r \in PmuRec THEN r ELSE Host)
      /\ c.lrs = lrs /\ c.simd = n.simd /\ c.nsctx = n.nsctx /\ c.call = n.call
  BY <1>8 DEF PeType
<1> HIDE DEF c
<1>10. RunBanks(r, c)  BY <1>5, <1>9 DEF RunBanks
<1>11. EntryPe(n, r, lrs) = c  BY <1>4 DEF EntryPe, c
<1>12. QED  BY <1>9, <1>10, <1>11

LEMMA EnterKeeps ==
  ASSUME RunInv, NEW p \in PE, NEW r \in REC, NEW enter \in Enters, NEW lrs \in LrLists,
         NEW call \in NsCalls, RecEnterRun(p, r, enter, lrs, call)
  PROVE  RunInv'
<1>1. /\ pe[p].at = "host" /\ ~Running(r) /\ ~SeaRefused(rec[r].exit, enter)
      /\ ~MmioRefused(rec[r].exit, enter) /\ ~HostCallAborts(rec[r].exit, page)
      /\ gic_validate_state(lrs)
  BY DEF RecEnterRun, Refused
<1>2. PICK n : n = NsSmc(p, call)  OBVIOUS
<1>3. n \in PeType /\ n.at = "host" /\ HostOk(n) /\ n.call = call  BY <1>1, <1>2, NsSmcIs
<1>4. lrs \in Seq(LrShape) /\ enter \in [sea : BOOLEAN, mmio : BOOLEAN]
  BY RecRunAssumption DEF Configured
<1>5. PICK x \in RecType : x = rec[r] /\ IdleOk(r, x)  BY <1>1, FreeRec
<1>6. PICK e : e = Entered(x.exit, enter, page)  OBVIOUS
<1>7. page \in PageStates  BY DEF RunInv, Types
<1>8. e \in ExitType /\ Settled(e)
  BY <1>1, <1>4, <1>5, <1>6, <1>7, FreeRec, EntryCompletes
<1> DEFINE c == EntryPe(n, r, lrs)
           y == [x EXCEPT !.exit = e, !.lrs = lrs, !.ns = TRUE, !.active = "ns"]
<1>9. /\ pe' = [pe EXCEPT ![p] = c] /\ rec' = [rec EXCEPT ![r] = y]
      /\ UNCHANGED <<page, due, told>>
  <2>1. pe' = [pe EXCEPT ![p] = c] /\ UNCHANGED <<page, due, told>>
    BY <1>2 DEF RecEnterRun, EntryPe
  <2>2. rec' = [rec EXCEPT ![r] = [rec[r] EXCEPT
                  !.exit = Entered(rec[r].exit, enter, page),
                  !.lrs = lrs, !.ns = TRUE, !.active = "ns"]]
    <3>1. rec \in [REC -> RecType]  BY DEF RunInv, Types
    <3>2. QED  BY <3>1 DEF RecEnterRun, Entered
  <2>3. QED  BY <2>1, <2>2, <1>5, <1>6
<1>10. OwnBanks(r, x) /\ OwnBanks(r, rec[r]) /\ rec[r] \in RecType  BY <1>5 DEF IdleOk
<1>11. /\ c \in PeType /\ c.at = "loop" /\ c.rec = r /\ c.heap /\ RunBanks(r, c)
       /\ c.lrs = lrs /\ c.simd = n.simd /\ c.nsctx = n.nsctx /\ c.call = n.call
  BY <1>3, <1>4, <1>10, BanksIn
<1> HIDE DEF c
<1>12. /\ y \in RecType /\ y.exit = e /\ y.ns /\ y.active = "ns" /\ y.cptr = x.cptr
       /\ y.ctx = x.ctx /\ y.sys = x.sys /\ y.pmu = x.pmu /\ y.keys = x.keys
  BY <1>4, <1>8 DEF RecType
<1> HIDE DEF y
<1>13. RunSimd(r, c, y)
  BY <1>3, <1>5, <1>11, <1>12 DEF RunSimd, IdleOk, HostOk
<1>14. LrsUsable(c.lrs)  BY <1>1, <1>4, <1>11, ValidatedUsable
<1>15. RunOk(r, c, y)
  BY <1>8, <1>10, <1>11, <1>12, <1>13, <1>14 DEF RunOk, RunExit, OwnBanks
<1>16. Frame  BY <1>9 DEF Frame, RunInv, Types
<1>17. QED  BY <1>1, <1>9, <1>11, <1>12, <1>15, <1>16, Starts

-----------------------------------------------------------------------------
(***************************************************************************)
(* The run loop.                                                           *)
(***************************************************************************)
LEMMA RunningPe ==
  ASSUME RunInv, NEW p \in PE, pe[p].at # "host"
  PROVE  /\ pe[p] \in PeType /\ pe[p].rec \in REC /\ rec[pe[p].rec] \in RecType
         /\ RunOk(pe[p].rec, pe[p], rec[pe[p].rec]) /\ TIMER_ASSERTED(p) \in BOOLEAN
<1>1. pe[p] \in PeType /\ pe[p].rec \in REC /\ rec[pe[p].rec] \in RecType
      /\ RunOk(pe[p].rec, pe[p], rec[pe[p].rec])
  BY DEF RunInv, Types
<1>2. TIMER_ASSERTED(p) \in BOOLEAN  BY DEF TIMER_ASSERTED
<1>3. QED  BY <1>1, <1>2

\* RunOk only looks at these fields.
LEMMA RunSame ==
  ASSUME NEW r \in REC, NEW c \in PeType, NEW x \in RecType, RunOk(r, c, x),
         NEW d \in PeType, NEW y \in RecType,
         d.rec = c.rec, d.heap = c.heap, d.sys = c.sys, d.pmu = c.pmu, d.ns_data = c.ns_data,
         d.simd = c.simd, d.nsctx = c.nsctx, d.call = c.call,
         y.ns = x.ns, y.active = x.active, y.cptr = x.cptr, y.ctx = x.ctx, y.sys = x.sys,
         y.pmu = x.pmu, y.keys = x.keys,
         d.at # "host", c.at # "save", d.at # "save",
         d.keys = (IF d.at = "realm" THEN r ELSE RmmData),
         d.at \in {"loop", "realm"} => LrsUsable(d.lrs),
         RunExit(d, y)
  PROVE  RunOk(r, d, y)
<1>1. RunBanks(r, d)  BY DEF RunOk, RunBanks
<1>2. RunSimd(r, d, y)  BY DEF RunOk, RunSimd
<1>3. OwnBanks(r, y)  BY DEF RunOk, OwnBanks
<1>4. QED  BY <1>1, <1>2, <1>3 DEF RunOk

LEMMA LoopKeeps ==
  ASSUME RunInv, NEW p \in PE, check_pending_timers(p)
  PROVE  RunInv'
<1>1. pe[p].at = "loop"  BY DEF check_pending_timers
<1>2. PICK c \in PeType : c = pe[p]  BY <1>1, RunningPe
<1>3. PICK r \in REC : r = pe[p].rec  BY <1>1, RunningPe
<1>4. PICK x \in RecType : x = rec[r]  BY <1>1, <1>3, RunningPe
<1>5. PICK t \in BOOLEAN : t = TIMER_ASSERTED(p)  BY <1>1, RunningPe
<1>6. RunOk(r, c, x) /\ Settled(x.exit) /\ LrsUsable(c.lrs)
  BY <1>1, <1>2, <1>3, <1>4, RunningPe DEF RunOk, RunExit
<1>7. UNCHANGED <<page, due, told>>  BY DEF check_pending_timers
<1>8. Frame  BY <1>7 DEF Frame, RunInv, Types
<1>9. x.exit \in ExitType /\ x.keys = r /\ c.keys = RmmData
  BY <1>1, <1>2, <1>6 DEF RecType, RunOk, OwnBanks, RunBanks
<1>10. CASE LoopEntersRealm(p)
  <2> DEFINE e == [x.exit EXCEPT !.serror = FALSE]
             y == [x EXCEPT !.cntmask = t, !.exit = e]
             v == c.vse \/ x.exit.serror
             d == [c EXCEPT !.vse = v, !.keys = x.keys, !.at = "realm"]
  <2>1. rec' = [rec EXCEPT ![r] = y]
    BY <1>1, <1>3, <1>4, <1>5, <1>10 DEF check_pending_timers, RecType, RunInv, Types
  <2>2. pe' = [pe EXCEPT ![p] = d]
    BY <1>1, <1>2, <1>3, <1>4, <1>10 DEF check_pending_timers, pauth_restore_realm_keys,
       activate_events, PeType, RunInv, Types
  <2>3. e \in ExitType /\ Settled(e)  BY <1>6, <1>9, SErrorTaken
  <2> HIDE DEF e
  <2>4. v \in BOOLEAN  OBVIOUS
  <2> HIDE DEF v
  <2>5. /\ d \in PeType /\ d.rec = c.rec /\ d.heap = c.heap /\ d.sys = c.sys /\ d.pmu = c.pmu
        /\ d.ns_data = c.ns_data /\ d.simd = c.simd /\ d.nsctx = c.nsctx /\ d.call = c.call
        /\ d.at = "realm" /\ d.keys = r /\ d.lrs = c.lrs
    BY <2>4, <1>9, OwnerHas DEF PeType
  <2>6. /\ y \in RecType /\ y.ns = x.ns /\ y.active = x.active /\ y.cptr = x.cptr
        /\ y.ctx = x.ctx /\ y.sys = x.sys /\ y.pmu = x.pmu /\ y.keys = x.keys /\ y.exit = e
    BY <2>3 DEF RecType
  <2> HIDE DEF d, y
  <2>7. RunExit(d, y)  BY <2>3, <2>5, <2>6 DEF RunExit
  <2>8. c.at = "loop"  BY <1>1, <1>2
  <2>9. RunOk(r, d, y)  BY <2>5, <2>6, <2>7, <2>8, <1>6, RunSame
  <2>10. QED  BY <2>1, <2>2, <2>5, <2>6, <2>9, <1>1, <1>3, <1>8, RunsOn
<1>11. CASE ~LoopEntersRealm(p)
  <2> DEFINE y == [x EXCEPT !.cntmask = t]
             d == [c EXCEPT !.at = "leave"]
  <2>1. rec' = [rec EXCEPT ![r] = y] /\ pe' = [pe EXCEPT ![p] = d]
    BY <1>1, <1>2, <1>3, <1>4, <1>5, <1>11 DEF check_pending_timers, RecType, PeType, RunInv, Types
  <2>2. /\ d \in PeType /\ d.rec = c.rec /\ d.heap = c.heap /\ d.sys = c.sys /\ d.pmu = c.pmu
        /\ d.ns_data = c.ns_data /\ d.simd = c.simd /\ d.nsctx = c.nsctx /\ d.call = c.call
        /\ d.at = "leave" /\ d.keys = c.keys
    BY DEF PeType
  <2>3. /\ y \in RecType /\ y.ns = x.ns /\ y.active = x.active /\ y.cptr = x.cptr
        /\ y.ctx = x.ctx /\ y.sys = x.sys /\ y.pmu = x.pmu /\ y.keys = x.keys /\ y.exit = x.exit
    BY DEF RecType
  <2> HIDE DEF d, y
  <2>4. RunExit(d, y)  BY <2>2, <2>3, <1>6, SettledOpen DEF RunExit
  <2>5. c.at = "loop"  BY <1>1, <1>2
  <2>6. RunOk(r, d, y)  BY <2>2, <2>3, <2>4, <2>5, <1>6, <1>9, RunSame
  <2>7. QED  BY <2>1, <2>2, <2>3, <2>6, <1>1, <1>3, <1>8, RunsOn
<1>12. QED  BY <1>10, <1>11


-----------------------------------------------------------------------------
(***************************************************************************)
(* The realm exits: the handler leaves the exit of the REC in order and    *)
(* the SIMD registers with one owner.                                      *)
(***************************************************************************)
LEMMA RunRealmKeeps ==
  ASSUME RunInv, NEW p \in PE, pe[p].at = "realm", NEW res, ExitOk(res),
         NEW s \in SimdType, NEW ns \in CtxType, NEW y \in RecType,
         RunRealm(p, res, s, ns, y),
         NEW r \in REC, r = pe[p].rec,
         y.ns = rec[r].ns, y.sys = rec[r].sys, y.pmu = rec[r].pmu,
         \A d \in PeType : \A z \in RecType :
           (d.at # "save" /\ d.simd = s /\ d.nsctx = ns /\ d.call = pe[p].call
              /\ z.active = y.active /\ z.cptr = y.cptr /\ z.ctx = y.ctx) => RunSimd(r, d, z)
  PROVE  RunInv'
<1>1. PICK c \in PeType : c = pe[p]  BY RunningPe
<1>2. PICK x \in RecType : x = rec[r]  BY RunningPe
<1>3. RunOk(r, c, x) /\ c.at = "realm"  BY <1>1, <1>2, RunningPe
<1>4. c.keys = r /\ LrsUsable(c.lrs)  BY <1>3 DEF RunOk, RunBanks
<1>5. UNCHANGED <<page, due, told>>  BY DEF RunRealm
<1>6. Frame  BY <1>5 DEF Frame, RunInv, Types
<1>7. res.rec \in ExitType /\ res.to_realm \in BOOLEAN  BY DEF ExitOk
<1> DEFINE at == IF res.to_realm THEN "loop" ELSE "leave"
           d == [c EXCEPT !.keys = RmmData, !.at = at, !.simd = s, !.nsctx = ns]
           z == [y EXCEPT !.keys = c.keys, !.exit = res.rec]
<1>8. pe' = [pe EXCEPT ![p] = d]
  BY <1>1 DEF RunRealm, pauth_restore_rmm_keys, PeType, RunInv, Types
<1>9. rec' = [rec EXCEPT ![r] = z]
  BY <1>1 DEF RunRealm, pauth_save_realm_keys, RecType, RunInv, Types
<1>10. at \in {"loop", "leave"} /\ (at = "loop" <=> res.to_realm)  OBVIOUS
<1> HIDE DEF at
<1>11. /\ d \in PeType /\ d.rec = c.rec /\ d.heap = c.heap /\ d.sys = c.sys /\ d.pmu = c.pmu
       /\ d.ns_data = c.ns_data /\ d.simd = s /\ d.nsctx = ns /\ d.call = c.call
       /\ d.at = at /\ d.keys = RmmData /\ d.lrs = c.lrs
  BY <1>10, OwnerHas DEF PeType
<1>12. /\ z \in RecType /\ z.ns = y.ns /\ z.active = y.active /\ z.cptr = y.cptr
       /\ z.ctx = y.ctx /\ z.sys = y.sys /\ z.pmu = y.pmu /\ z.keys = r /\ z.exit = res.rec
  BY <1>4, <1>7, OwnerHas DEF RecType
<1> HIDE DEF d, z
<1>13. RunSimd(r, d, z)  BY <1>1, <1>10, <1>11, <1>12
<1>14. RunExit(d, z)  BY <1>10, <1>11, <1>12 DEF RunExit, ExitOk
<1>15. RunBanks(r, d)  BY <1>3, <1>10, <1>11 DEF RunOk, RunBanks
<1>16. OwnBanks(r, z) /\ z.ns /\ d.at # "host" /\ d.rec = r /\ d.heap
  BY <1>2, <1>3, <1>10, <1>11, <1>12 DEF RunOk, OwnBanks
<1>17. RunOk(r, d, z)  BY <1>4, <1>11, <1>13, <1>14, <1>15, <1>16 DEF RunOk
<1>18. QED  BY <1>6, <1>8, <1>9, <1>11, <1>12, <1>17, RunsOn

\* RunSimd only looks at these fields, before the way back.
LEMMA SimdSame ==
  ASSUME NEW r, NEW c, NEW x, RunSimd(r, c, x), c.at # "save", NEW d, NEW z,
         d.at # "save", d.simd = c.simd, d.nsctx = c.nsctx, d.call = c.call,
         z.active = x.active, z.cptr = x.cptr, z.ctx = x.ctx
  PROVE  RunSimd(r, d, z)
BY DEF RunSimd

LEMMA PlainExitKeeps ==
  ASSUME RunInv, NEW p \in PE, pe[p].at = "realm", NEW res, ExitOk(res), handle_realm_exit(p, res)
  PROVE  RunInv'
<1>1. PICK r \in REC : r = pe[p].rec  BY RunningPe
<1>2. PICK c \in PeType : c = pe[p]  BY RunningPe
<1>3. PICK x \in RecType : x = rec[r]  BY <1>1, RunningPe
<1>4. RunSimd(r, c, x) /\ c.at = "realm"  BY <1>1, <1>2, <1>3, RunningPe DEF RunOk
<1>5. c.simd \in SimdType /\ c.nsctx \in CtxType  BY DEF PeType
<1>6. RunRealm(p, res, c.simd, c.nsctx, x)  BY <1>1, <1>2, <1>3 DEF handle_realm_exit
<1>7. \A d \in PeType : \A z \in RecType :
        (d.at # "save" /\ d.simd = c.simd /\ d.nsctx = c.nsctx /\ d.call = pe[p].call
           /\ z.active = x.active /\ z.cptr = x.cptr /\ z.ctx = x.ctx) => RunSimd(r, d, z)
  BY <1>2, <1>4, SimdSame
<1>8. QED  BY <1>1, <1>3, <1>5, <1>6, <1>7, RunRealmKeeps

\* An RSI call that uses the FPU: whichever context is live is live again.
LEMMA RsiFpuKeeps ==
  ASSUME RunInv, NEW p \in PE, pe[p].at = "realm", NEW exit \in BOOLEAN, RsiFpu(p, exit)
  PROVE  RunInv'
<1>1. PICK r \in REC : r = pe[p].rec  BY RunningPe
<1>2. PICK c \in PeType : c = pe[p]  BY RunningPe
<1>3. PICK x \in RecType : x = rec[r]  BY <1>1, RunningPe
<1>4. RunOk(r, c, x) /\ RunSimd(r, c, x) /\ c.at = "realm"
  BY <1>1, <1>2, <1>3, RunningPe DEF RunOk
<1>5. c.simd \in SimdType /\ c.nsctx \in CtxType /\ c.call \in CallType /\ x.ctx \in CtxType
      /\ x.exit \in ExitType
  BY DEF PeType, RecType
<1>6. PICK res : res = RsiAnswered(x.exit, exit)  OBVIOUS
<1>7. ExitOk(res)  BY <1>4, <1>5, <1>6, RsiAnsweredOk DEF RunOk, RunExit
<1>8. CASE x.active = "rec"
  <2> DEFINE c1 == SaveCtx(x.ctx, c.simd.live)
             s == SwitchIn(SIMD_FPU_ALLOW(SwitchOut(c.simd, x.ctx)), c1)
             y == [x EXCEPT !.ctx = Restored(c1)]
  <2>1. RunRealm(p, res, s, c.nsctx, y)
    BY <1>1, <1>2, <1>3, <1>6, <1>8 DEF RsiFpu, Exit
  <2>2. /\ ~x.ctx.saved /\ x.cptr /\ RealmLive(c.simd.live, r, c.call)
        /\ HostSaved(c.nsctx, c.call) /\ c.nsctx.saved
        /\ c.simd.ok /\ ~c.simd.saved /\ NsShape(c.nsctx, c.call) /\ RecShape(x.ctx, r)
    BY <1>4, <1>8 DEF RunSimd
  <2>3. /\ s \in SimdType /\ s.ok /\ ~s.saved /\ RealmLive(s.live, r, c.call)
        /\ Restored(c1) \in CtxType /\ RecShape(Restored(c1), r) /\ ~Restored(c1).saved
    BY <2>2, <1>5, RealmFpu
  <2> HIDE DEF c1, s
  <2>4. /\ y \in RecType /\ y.ns = x.ns /\ y.sys = x.sys /\ y.pmu = x.pmu /\ y.active = "rec"
        /\ y.cptr = x.cptr /\ y.ctx = Restored(c1)
    BY <2>3, <1>8 DEF RecType
  <2> HIDE DEF y
  <2>5. ASSUME NEW d \in PeType, NEW z \in RecType, d.at # "save", d.simd = s, d.nsctx = c.nsctx,
               d.call = pe[p].call, z.active = y.active, z.cptr = y.cptr, z.ctx = y.ctx
        PROVE  RunSimd(r, d, z)
    BY <2>2, <2>3, <2>4, <2>5, <1>2 DEF RunSimd
  <2>6. QED  BY <2>1, <2>3, <2>4, <2>5, <1>1, <1>3, <1>5, <1>7, RunRealmKeeps
<1>9. CASE x.active # "rec"
  <2> DEFINE c1 == SaveCtx(c.nsctx, c.simd.live)
             s == SwitchIn(SIMD_FPU_ALLOW(SwitchOut(c.simd, c.nsctx)), c1)
  <2>1. RunRealm(p, res, s, Restored(c1), x)
    BY <1>1, <1>2, <1>3, <1>6, <1>9 DEF RsiFpu, Exit
  <2>2. /\ x.ctx.saved /\ ~x.cptr /\ HostLive(c.simd.live, c.call) /\ ~c.nsctx.saved
        /\ x.active = "ns"
        /\ c.simd.ok /\ ~c.simd.saved /\ NsShape(c.nsctx, c.call) /\ RecShape(x.ctx, r)
    BY <1>4, <1>9 DEF RunSimd
  <2>3. /\ s \in SimdType /\ s.ok /\ ~s.saved /\ HostLive(s.live, c.call)
        /\ Restored(c1) \in CtxType /\ NsShape(Restored(c1), c.call) /\ ~Restored(c1).saved
    BY <2>2, <1>5, HostFpu
  <2> HIDE DEF c1, s
  <2>4. ASSUME NEW d \in PeType, NEW z \in RecType, d.at # "save", d.simd = s,
               d.nsctx = Restored(c1), d.call = pe[p].call, z.active = x.active,
               z.cptr = x.cptr, z.ctx = x.ctx
        PROVE  RunSimd(r, d, z)
    BY <2>2, <2>3, <2>4, <1>2 DEF RunSimd
  <2>5. QED  BY <2>1, <2>3, <2>4, <1>1, <1>3, <1>7, RunRealmKeeps
<1>10. QED  BY <1>8, <1>9

\* A use of SIMD: an undefined instruction, or the realm takes the registers.
LEMMA SimdKeeps ==
  ASSUME RunInv, NEW p \in PE, pe[p].at = "realm", NEW ec \in {"FPU", "SVE", "SME"},
         handle_simd_exception(p, ec)
  PROVE  RunInv'
<1>1. PICK r \in REC : r = pe[p].rec  BY RunningPe
<1>2. PICK c \in PeType : c = pe[p]  BY RunningPe
<1>3. PICK x \in RecType : x = rec[r]  BY <1>1, RunningPe
<1>4. RunOk(r, c, x) /\ RunSimd(r, c, x) /\ c.at = "realm"
  BY <1>1, <1>2, <1>3, RunningPe DEF RunOk
<1>5. c.simd \in SimdType /\ c.nsctx \in CtxType /\ c.call \in CallType /\ x.ctx \in CtxType
      /\ x.exit \in ExitType
  BY DEF PeType, RecType
<1>6. Settled(x.exit) /\ Exit(p) = x.exit  BY <1>1, <1>3, <1>4 DEF RunOk, RunExit, Exit
<1>7. CASE SimdUndef(r, ec)
  <2>1. handle_realm_exit(p, Back(Inject(Trapped(x.exit, "undef", ""))))
    BY <1>1, <1>6, <1>7 DEF handle_simd_exception
  <2>2. ExitOk(Back(Inject(Trapped(x.exit, "undef", ""))))  BY <1>5, <1>6, UndefOk
  <2>3. QED  BY <2>1, <2>2, PlainExitKeeps
<1>8. CASE ~SimdUndef(r, ec)
  <2> DEFINE s1 == SwitchIn(SwitchOut(c.simd, c.nsctx), x.ctx)
             n1 == SaveCtx(c.nsctx, c.simd.live)
             s == [s1 EXCEPT !.ok = @ /\ x.active = "ns"]
             y == [x EXCEPT !.active = "rec", !.cptr = TRUE, !.ctx = Restored(x.ctx)]
             res == Back(Trapped(x.exit, "simd", ""))
  <2>1. RunRealm(p, res, s, n1, y)
    BY <1>1, <1>2, <1>3, <1>6, <1>8 DEF handle_simd_exception
  <2>2. x.active # "rec"
    <3>1. SimdTraps(r, ec)  BY <1>1 DEF handle_simd_exception
    <3>2. x.active = "rec" => x.cptr  BY <1>4 DEF RunSimd
    <3>3. QED  BY <3>1, <3>2, <1>3, <1>8 DEF SimdTraps, SimdUndef
  <2>3. /\ x.ctx.saved /\ HostLive(c.simd.live, c.call) /\ ~c.nsctx.saved /\ x.active = "ns"
        /\ c.simd.ok /\ ~c.simd.saved /\ NsShape(c.nsctx, c.call) /\ RecShape(x.ctx, r)
    BY <2>2, <1>4 DEF RunSimd
  <2>4. /\ s1 \in SimdType /\ s1.ok /\ ~s1.saved /\ RealmLive(s1.live, r, c.call)
        /\ n1 \in CtxType /\ n1.saved /\ NsShape(n1, c.call) /\ HostSaved(n1, c.call)
        /\ Restored(x.ctx) \in CtxType /\ RecShape(Restored(x.ctx), r) /\ ~Restored(x.ctx).saved
    BY <2>3, <1>5, RealmTakesSimd
  <2> HIDE DEF s1, n1
  <2>5. s \in SimdType /\ s.ok /\ ~s.saved /\ s.live = s1.live  BY <2>3, <2>4 DEF SimdType
  <2>6. /\ y \in RecType /\ y.ns = x.ns /\ y.sys = x.sys /\ y.pmu = x.pmu /\ y.active = "rec"
        /\ y.cptr /\ y.ctx = Restored(x.ctx)
    BY <2>4 DEF RecType
  <2>7. ExitOk(res)  BY <1>5, <1>6, InterruptOk
  <2> HIDE DEF s, y, res
  <2>8. ASSUME NEW d \in PeType, NEW z \in RecType, d.at # "save", d.simd = s, d.nsctx = n1,
               d.call = pe[p].call, z.active = y.active, z.cptr = y.cptr, z.ctx = y.ctx
        PROVE  RunSimd(r, d, z)
    BY <2>3, <2>4, <2>5, <2>6, <2>8, <1>2 DEF RunSimd
  <2>9. s \in SimdType /\ n1 \in CtxType /\ y \in RecType  BY <2>4, <2>5, <2>6
  <2>10. y.ns = rec[r].ns /\ y.sys = rec[r].sys /\ y.pmu = rec[r].pmu  BY <2>6, <1>3
  <2>11. QED  BY <2>1, <2>7, <2>8, <2>9, <2>10, <1>1, RunRealmKeeps
<1>9. QED  BY <1>7, <1>8


\* Every exit of the realm.
LEMMA ExitKeeps ==
  ASSUME RunInv, NEW p \in PE, RealmExit(p) \/ RealmIrq(p)
  PROVE  RunInv'
<1>1. pe[p].at = "realm"  BY DEF RealmExit, RealmIrq
<1>2. PICK e \in ExitType : e = Exit(p)  BY <1>1, RunningPe DEF Exit, RecType
<1>3. Settled(e)  BY <1>1, <1>2, RunningPe DEF Exit, RunOk, RunExit
<1>4. page \in PageStates  BY DEF RunInv, Types
<1>5. ASSUME NEW res, handle_realm_exit(p, res), ExitOk(res) PROVE RunInv'
  BY <1>1, <1>5, PlainExitKeeps
<1>6. CASE RealmIrq(p)
  BY <1>2, <1>3, <1>5, <1>6, InterruptOk DEF RealmIrq, handle_exception_irq_lel
<1>7. CASE handle_exception_sync(p)
  <2>1. ASSUME NEW a \in Aborts, NEW hpfar \in BOOLEAN,
               \/ handle_realm_exit(p, handle_data_abort(e, a, hpfar))
               \/ handle_realm_exit(p, handle_instruction_abort(e, a))
        PROVE  RunInv'
    <3>1. a \in AbortShape  BY RecRunAssumption DEF Configured
    <3>2. ExitOk(handle_data_abort(e, a, hpfar)) /\ ExitOk(handle_instruction_abort(e, a))
      BY <3>1, <1>3, DataAbortOk, InstructionAbortOk
    <3>3. QED  BY <3>2, <2>1, <1>5
  <2>2. ASSUME NEW s \in Sysregs, handle_realm_exit(p, handle_sysreg_access_trap(e, s))
        PROVE  RunInv'
    <3>1. s \in SysregShape /\ (s.reg = "icc" => s.wr)  BY RecRunAssumption DEF Configured
    <3>2. ExitOk(handle_sysreg_access_trap(e, s))  BY <3>1, <1>3, SysregOk
    <3>3. QED  BY <3>2, <2>2, <1>5
  <2>3. ASSUME handle_realm_exit(p, Out(Last(advance_pc(Trapped(e, "wfx", "")), LastEc("wfx"))))
        PROVE  RunInv'
    BY <2>3, <1>3, <1>5, WfxOk
  <2>4. ASSUME handle_realm_exit(p, Back(Inject(Trapped(e, "undef", "")))) PROVE RunInv'
    BY <2>4, <1>3, <1>5, UndefOk
  <2>5. QED  BY <2>1, <2>2, <2>3, <2>4, <1>2, <1>7 DEF handle_exception_sync
<1>8. CASE handle_realm_rsi(p)
  <2>1. /\ ExitOk(RsiAnswered(e, FALSE)) /\ ExitOk(RsiAnswered(e, TRUE))
        /\ ExitOk(RsiStage2Abort(e)) /\ ExitOk(RsiIpaStateSet(e))
        /\ ExitOk(handle_rsi_host_call(e, page))
    BY <1>3, <1>4, RsiAnsweredOk, RsiAbortOk, RipasOk, HostCallOk
  <2>2. QED  BY <2>1, <1>2, <1>5, <1>8 DEF handle_realm_rsi
<1>9. ASSUME NEW exit \in BOOLEAN, RsiFpu(p, exit) PROVE RunInv'
  BY <1>1, <1>9, RsiFpuKeeps
<1>10. ASSUME NEW ec \in Simds, handle_simd_exception(p, ec) PROVE RunInv'
  <2>1. ec \in {"FPU", "SVE", "SME"}  BY RecRunAssumption DEF Configured
  <2>2. QED  BY <2>1, <1>1, <1>10, SimdKeeps
<1>11. CASE handle_realm_exit(p, Out(Trapped(e, "fiq", "")))
  BY <1>3, <1>5, <1>11, InterruptOk
<1>12. ASSUME NEW aet \in {"UER", "CE"}, RealmSError(p, aet) PROVE RunInv'
  BY <1>2, <1>3, <1>5, <1>12, SErrorOk DEF RealmSError
<1>13. QED
  BY <1>2, <1>6, <1>7, <1>8, <1>9, <1>10, <1>11, <1>12 DEF RealmExit

-----------------------------------------------------------------------------
(***************************************************************************)
(* The way back.                                                           *)
(***************************************************************************)
LEMMA GiveBackKeeps ==
  ASSUME RunInv, NEW p \in PE, report_timer_state_to_ns(p)
  PROVE  RunInv'
<1>0. pe[p].at = "leave" /\ GiveBackSimd(p) /\ UNCHANGED <<page, due, told>>
  BY DEF report_timer_state_to_ns
<1>1. PICK r \in REC : r = pe[p].rec  BY <1>0, RunningPe
<1>2. PICK c \in PeType : c = pe[p]  BY <1>0, RunningPe
<1>3. PICK x \in RecType : x = rec[r]  BY <1>0, <1>1, RunningPe
<1>4. RunOk(r, c, x) /\ RunSimd(r, c, x) /\ c.at = "leave"
  BY <1>0, <1>1, <1>2, <1>3, RunningPe DEF RunOk
<1>5. c.simd \in SimdType /\ c.nsctx \in CtxType /\ c.call \in CallType /\ x.ctx \in CtxType
  BY DEF PeType, RecType
<1>6. PICK t \in BOOLEAN : t = ReportedLevel(p)  BY <1>0, RunningPe DEF ReportedLevel
<1>7. Frame  BY <1>0 DEF Frame, RunInv, Types
<1>8. PICK s : s = IF x.active = "rec" THEN SwitchIn(SwitchOut(c.simd, x.ctx), c.nsctx) ELSE c.simd
  OBVIOUS
<1>9. PICK ns : ns = IF x.active = "rec" THEN Restored(c.nsctx) ELSE c.nsctx  OBVIOUS
<1>10. PICK ctx : ctx = IF x.active = "rec" THEN SaveCtx(x.ctx, c.simd.live) ELSE x.ctx  OBVIOUS
<1>11. /\ s \in SimdType /\ s.ok /\ ~s.saved /\ HostLive(s.live, c.call)
       /\ ns \in CtxType /\ NsShape(ns, c.call) /\ ~ns.saved
       /\ ctx \in CtxType /\ RecShape(ctx, r) /\ ctx.saved
  <2>1. CASE x.active = "rec"
    <3>1. /\ ~x.ctx.saved /\ RealmLive(c.simd.live, r, c.call)
          /\ HostSaved(c.nsctx, c.call) /\ c.nsctx.saved
          /\ c.simd.ok /\ ~c.simd.saved /\ NsShape(c.nsctx, c.call) /\ RecShape(x.ctx, r)
      BY <2>1, <1>4 DEF RunSimd
    <3>2. /\ s = SwitchIn(SwitchOut(c.simd, x.ctx), c.nsctx) /\ ns = Restored(c.nsctx)
          /\ ctx = SaveCtx(x.ctx, c.simd.live)
      BY <2>1, <1>8, <1>9, <1>10
    <3>3. QED  BY <3>1, <3>2, <1>5, HostGetsSimd
  <2>2. CASE x.active # "rec"
    <3>1. s = c.simd /\ ns = c.nsctx /\ ctx = x.ctx  BY <2>2, <1>8, <1>9, <1>10
    <3>2. QED  BY <3>1, <2>2, <1>4, <1>5 DEF RunSimd
  <2>3. QED  BY <2>1, <2>2
<1> DEFINE d == [c EXCEPT !.at = "save", !.seen = t, !.simd = s, !.nsctx = ns]
           y == [x EXCEPT !.active = "none", !.cptr = FALSE, !.ctx = ctx]
<1>12. pe' = [pe EXCEPT ![p] = d]
  BY <1>0, <1>1, <1>2, <1>3, <1>6, <1>8, <1>9 DEF GiveBackSimd
<1>13. rec' = [rec EXCEPT ![r] = y]
  BY <1>0, <1>1, <1>2, <1>3, <1>10 DEF GiveBackSimd
<1>14. /\ d \in PeType /\ d.rec = c.rec /\ d.heap = c.heap /\ d.sys = c.sys /\ d.pmu = c.pmu
       /\ d.ns_data = c.ns_data /\ d.simd = s /\ d.nsctx = ns /\ d.call = c.call
       /\ d.at = "save" /\ d.keys = c.keys
  BY <1>11 DEF PeType
<1>15. /\ y \in RecType /\ y.ns = x.ns /\ y.active = "none" /\ ~y.cptr /\ y.ctx = ctx
       /\ y.sys = x.sys /\ y.pmu = x.pmu /\ y.keys = x.keys /\ y.exit = x.exit
  BY <1>11 DEF RecType
<1> HIDE DEF d, y
<1>16. RunSimd(r, d, y)  BY <1>11, <1>14, <1>15 DEF RunSimd
<1>17. RunBanks(r, d) /\ OwnBanks(r, y) /\ RunExit(d, y)
  BY <1>4, <1>14, <1>15 DEF RunOk, RunBanks, OwnBanks, RunExit
<1>18. RunOk(r, d, y)  BY <1>4, <1>14, <1>15, <1>16, <1>17 DEF RunOk
<1>19. QED  BY <1>0, <1>1, <1>7, <1>12, <1>13, <1>14, <1>15, <1>18, RunsOn

\* The REC gets its banks, the host gets its own.
LEMMA BanksOut ==
  ASSUME NEW r \in REC, NEW c \in PeType, NEW x \in RecType, RunOk(r, c, x), c.at = "save",
         NEW t \in BOOLEAN
  PROVE  LET d == [restore_ns_state(c, r) EXCEPT
                     !.at = "host", !.rec = NoRec, !.heap = FALSE, !.irq = FALSE, !.seen = FALSE]
             y == [pmu_save_state(gic_save_state(save_sysreg_state(x, c, t), c), c, r)
                     EXCEPT !.ns = FALSE]
         IN  d \in PeType /\ d.at = "host" /\ HostOk(d) /\ y \in RecType /\ IdleOk(r, y)
<1>1. /\ c.sys = r /\ c.ns_data.sys = Host /\ c.keys = RmmData
      /\ IF r \in PmuRec THEN c.pmu = r /\ c.ns_data.pmu = Host ELSE c.pmu = Host
  BY DEF RunOk, RunBanks
<1>2. /\ c.simd.ok /\ ~c.simd.saved /\ HostLive(c.simd.live, c.call) /\ NsShape(c.nsctx, c.call)
      /\ ~c.nsctx.saved /\ x.active = "none" /\ ~x.cptr /\ RecShape(x.ctx, r) /\ x.ctx.saved
  BY DEF RunOk, RunSimd
<1>3. Open(x.exit) /\ x.sys = r /\ x.pmu = r /\ x.keys = r
  BY DEF RunOk, RunExit, OwnBanks
<1> DEFINE a == [c EXCEPT !.sys = c.ns_data.sys, !.ctl = FALSE]
           b == IF r \in PmuRec THEN [a EXCEPT !.pmu = c.ns_data.pmu] ELSE a
           e == [[b EXCEPT !.lrs = <<>>] EXCEPT
                   !.ns_data = [sys |-> Zeroed, pmu |-> Zeroed], !.vse = FALSE]
           d == [e EXCEPT !.at = "host", !.rec = NoRec, !.heap = FALSE, !.irq = FALSE,
                          !.seen = FALSE]
<1>4. restore_ns_state(c, r) = e
  BY DEF restore_ns_state, restore_sysreg_state, pmu_restore_state, gic_restore_state
<1>5. /\ a \in PeType /\ a.sys = Host /\ a.pmu = c.pmu /\ a.keys = RmmData
      /\ a.simd = c.simd /\ a.nsctx = c.nsctx /\ a.call = c.call
  BY <1>1, OwnerHas DEF PeType
<1> HIDE DEF a
<1>6. /\ b \in PeType /\ b.sys = Host /\ b.pmu = Host /\ b.keys = RmmData
      /\ b.simd = c.simd /\ b.nsctx = c.nsctx /\ b.call = c.call
  BY <1>1, <1>5, OwnerHas DEF PeType
<1> HIDE DEF b
<1>7. /\ e \in PeType /\ e.sys = Host /\ e.pmu = Host /\ e.keys = RmmData
      /\ e.simd = c.simd /\ e.nsctx = c.nsctx /\ e.call = c.call
  <2>1. <<>> \in Seq(LrShape) /\ [sys |-> Zeroed, pmu |-> Zeroed] \in [sys : Owner, pmu : Owner]
    BY OwnerHas
  <2>2. QED  BY <2>1, <1>6 DEF PeType
<1> HIDE DEF e
<1>8. /\ d \in PeType /\ d.sys = Host /\ d.pmu = Host /\ d.keys = RmmData /\ d.at = "host"
      /\ d.rec = NoRec /\ ~d.heap /\ d.simd = c.simd /\ d.nsctx = c.nsctx /\ d.call = c.call
  BY <1>7 DEF PeType
<1> HIDE DEF d
<1>9. HostOk(d)  BY <1>2, <1>8 DEF HostOk
<1> DEFINE u == [[x EXCEPT !.sys = c.sys, !.ctl = c.ctl, !.asserted = t] EXCEPT !.lrs = c.lrs]
           v == IF r \in PmuRec THEN [u EXCEPT !.pmu = c.pmu] ELSE u
           y == [v EXCEPT !.ns = FALSE]
<1>10. pmu_save_state(gic_save_state(save_sysreg_state(x, c, t), c), c, r) = v
  BY DEF pmu_save_state, gic_save_state, save_sysreg_state
<1>11. /\ u \in RecType /\ u.sys = r /\ u.pmu = r /\ u.keys = r /\ u.active = x.active
       /\ u.cptr = x.cptr /\ u.ctx = x.ctx /\ u.exit = x.exit
  BY <1>1, <1>3, OwnerHas DEF RecType, PeType
<1> HIDE DEF u
<1>12. /\ v \in RecType /\ v.sys = r /\ v.pmu = r /\ v.keys = r /\ v.active = x.active
       /\ v.cptr = x.cptr /\ v.ctx = x.ctx /\ v.exit = x.exit
  BY <1>1, <1>11, OwnerHas DEF RecType
<1> HIDE DEF v
<1>13. /\ y \in RecType /\ y.sys = r /\ y.pmu = r /\ y.keys = r /\ y.active = x.active /\ ~y.ns
       /\ y.cptr = x.cptr /\ y.ctx = x.ctx /\ y.exit = x.exit
  BY <1>12 DEF RecType
<1> HIDE DEF y
<1>14. IdleOk(r, y)  BY <1>2, <1>3, <1>13 DEF IdleOk, OwnBanks
<1>15. QED  BY <1>4, <1>8, <1>9, <1>10, <1>13, <1>14 DEF d, y

LEMMA SaveKeeps ==
  ASSUME RunInv, NEW p \in PE, NEW fault \in NsFaults, save_realm_state(p, fault)
  PROVE  RunInv'
<1>0. pe[p].at = "save"  BY DEF save_realm_state
<1>1. PICK r \in REC : r = pe[p].rec  BY <1>0, RunningPe
<1>2. PICK c \in PeType : c = pe[p]  BY <1>0, RunningPe
<1>3. PICK x \in RecType : x = rec[r]  BY <1>0, <1>1, RunningPe
<1>4. RunOk(r, c, x)  BY <1>0, <1>1, <1>2, <1>3, RunningPe
<1>5. PICK t \in BOOLEAN : t = TIMER_ASSERTED(p)  BY <1>0, RunningPe
<1> DEFINE d == [restore_ns_state(c, r) EXCEPT
                   !.at = "host", !.rec = NoRec, !.heap = FALSE, !.irq = FALSE, !.seen = FALSE]
           y == [pmu_save_state(gic_save_state(save_sysreg_state(x, c, t), c), c, r)
                   EXCEPT !.ns = FALSE]
<1>6. d \in PeType /\ d.at = "host" /\ HostOk(d) /\ y \in RecType /\ IdleOk(r, y)
  BY <1>0, <1>2, <1>4, BanksOut
<1>7. pe' = [pe EXCEPT ![p] = d] /\ page' = page /\ due' = due
      /\ told' = [told EXCEPT ![r] = IF fault THEN @ ELSE c.seen]
  BY <1>1, <1>2 DEF save_realm_state
<1>8. rec' = [rec EXCEPT ![r] = y]  BY <1>1, <1>2, <1>3, <1>5 DEF save_realm_state
<1> HIDE DEF d, y
<1>9. Frame
  <2>1. c.seen \in BOOLEAN  BY DEF PeType
  <2>2. QED  BY <2>1, <1>7 DEF Frame, RunInv, Types
<1>10. QED  BY <1>0, <1>1, <1>6, <1>7, <1>8, <1>9, GoesBack


-----------------------------------------------------------------------------
(***************************************************************************)
(* What happens next to the RMM.                                           *)
(***************************************************************************)
\* The PE changes in fields that no bank depends on, and its REC stays as it is.
LEMMA PeOnly ==
  ASSUME RunInv, Frame, NEW p \in PE, pe[p].at \in {"loop", "realm"}, NEW d \in PeType,
         d.at = pe[p].at, d.rec = pe[p].rec, d.heap = pe[p].heap, d.sys = pe[p].sys,
         d.pmu = pe[p].pmu, d.keys = pe[p].keys, d.ns_data = pe[p].ns_data,
         d.simd = pe[p].simd, d.nsctx = pe[p].nsctx, d.call = pe[p].call, LrsUsable(d.lrs),
         pe' = [pe EXCEPT ![p] = d], rec' = rec
  PROVE  RunInv'
<1>1. PICK r \in REC : r = pe[p].rec  BY RunningPe
<1>2. PICK c \in PeType : c = pe[p]  BY RunningPe
<1>3. PICK x \in RecType : x = rec[r]  BY <1>1, RunningPe
<1>4. RunOk(r, c, x)  BY <1>1, <1>2, <1>3, RunningPe
<1>5. rec' = [rec EXCEPT ![r] = x]  BY <1>3 DEF RunInv, Types
<1>6. c.keys = IF c.at = "realm" THEN r ELSE RmmData  BY <1>4 DEF RunOk, RunBanks
<1>7. RunExit(d, x)  BY <1>2, <1>4 DEF RunOk, RunExit
<1>8. RunOk(r, d, x)
  <2>1. d.rec = c.rec /\ d.heap = c.heap /\ d.sys = c.sys /\ d.pmu = c.pmu
        /\ d.ns_data = c.ns_data /\ d.simd = c.simd /\ d.nsctx = c.nsctx /\ d.call = c.call
    BY <1>2
  <2>2. d.at # "host" /\ c.at # "save" /\ d.at # "save"  BY <1>2
  <2>3. d.keys = IF d.at = "realm" THEN r ELSE RmmData  BY <1>2, <1>6
  <2>4. QED  BY <2>1, <2>2, <2>3, <1>4, <1>7, RunSame
<1>9. QED  BY <1>1, <1>5, <1>8, RunsOn

LEMMA RunningLrs ==
  ASSUME RunInv, NEW p \in PE, pe[p].at \in {"loop", "realm"}
  PROVE  LrsUsable(pe[p].lrs)
BY RunningPe DEF RunOk

LEMMA HostIrqKeeps ==
  ASSUME RunInv, NEW p \in PE, HostIrq(p)
  PROVE  RunInv'
<1>1. pe[p].at \in {"loop", "realm"}  BY DEF HostIrq
<1>2. PICK c \in PeType : c = pe[p]  BY <1>1, RunningPe
<1>3. Frame /\ rec' = rec  BY DEF HostIrq, Frame, RunInv, Types
<1> DEFINE d == [c EXCEPT !.irq = TRUE]
<1>4. pe' = [pe EXCEPT ![p] = d]  BY <1>2 DEF HostIrq
<1>5. /\ d \in PeType /\ d.at = c.at /\ d.rec = c.rec /\ d.heap = c.heap /\ d.sys = c.sys
      /\ d.pmu = c.pmu /\ d.keys = c.keys /\ d.ns_data = c.ns_data /\ d.simd = c.simd
      /\ d.nsctx = c.nsctx /\ d.call = c.call /\ d.lrs = c.lrs
  BY DEF PeType
<1> HIDE DEF d
<1>6. LrsUsable(d.lrs)  BY <1>1, <1>2, <1>5, RunningLrs
<1>7. QED  BY <1>1, <1>2, <1>3, <1>4, <1>5, <1>6, PeOnly

LEMMA SetsTimerKeeps ==
  ASSUME RunInv, NEW p \in PE, NEW ctl \in TimerCtls, RealmSetsTimer(p, ctl)
  PROVE  RunInv'
<1>1. pe[p].at \in {"loop", "realm"}  BY DEF RealmSetsTimer
<1>2. PICK c \in PeType : c = pe[p]  BY <1>1, RunningPe
<1>3. ctl \in BOOLEAN  BY RecRunAssumption DEF Configured
<1>4. Frame /\ rec' = rec  BY DEF RealmSetsTimer, Frame, RunInv, Types
<1> DEFINE d == [c EXCEPT !.ctl = ctl]
<1>5. pe' = [pe EXCEPT ![p] = d]  BY <1>2 DEF RealmSetsTimer
<1>6. /\ d \in PeType /\ d.at = c.at /\ d.rec = c.rec /\ d.heap = c.heap /\ d.sys = c.sys
      /\ d.pmu = c.pmu /\ d.keys = c.keys /\ d.ns_data = c.ns_data /\ d.simd = c.simd
      /\ d.nsctx = c.nsctx /\ d.call = c.call /\ d.lrs = c.lrs
  BY <1>3 DEF PeType
<1> HIDE DEF d
<1>7. LrsUsable(d.lrs)  BY <1>1, <1>2, <1>6, RunningLrs
<1>8. QED  BY <1>1, <1>2, <1>4, <1>5, <1>6, <1>7, PeOnly

\* Acknowledging an interrupt takes a list register out of use.
LEMMA LrRetired ==
  ASSUME NEW lrs \in Seq(LrShape), LrsUsable(lrs), NEW i \in DOMAIN lrs
  PROVE  LET new == [lrs EXCEPT ![i] = [lrs[i] EXCEPT !.valid = FALSE]]
         IN  new \in Seq(LrShape) /\ LrsUsable(new)
<1> DEFINE v == [lrs[i] EXCEPT !.valid = FALSE]
           new == [lrs EXCEPT ![i] = v]
<1>0. PICK lr \in LrShape : lr = lrs[i]  OBVIOUS
<1>1. v \in LrShape /\ ~v.valid  BY <1>0 DEF LrShape
<1> HIDE DEF v
<1>2. new \in Seq(LrShape) /\ DOMAIN new = DOMAIN lrs  BY <1>1
<1>3. \A j \in DOMAIN new : new[j].valid => j # i /\ new[j] = lrs[j]  BY <1>1, <1>2
<1> HIDE DEF new
<1>4. LrsUsable(new)  BY <1>2, <1>3 DEF LrsUsable
<1>5. QED  BY <1>2, <1>4 DEF new, v

LEMMA AcknowledgeKeeps ==
  ASSUME RunInv, NEW p \in PE, NEW i \in DOMAIN pe[p].lrs, RealmAcknowledges(p, i)
  PROVE  RunInv'
<1>1. pe[p].at \in {"loop", "realm"}  BY DEF RealmAcknowledges
<1>2. PICK c \in PeType : c = pe[p]  BY <1>1, RunningPe
<1>3. Frame /\ rec' = rec  BY DEF RealmAcknowledges, Frame, RunInv, Types
<1> DEFINE new == [c.lrs EXCEPT ![i] = [c.lrs[i] EXCEPT !.valid = FALSE]]
           d == [c EXCEPT !.lrs = new]
<1>4. pe' = [pe EXCEPT ![p] = d]  BY <1>2 DEF RealmAcknowledges
<1>5. new \in Seq(LrShape) /\ LrsUsable(new)
  <2>1. c.lrs \in Seq(LrShape)  BY DEF PeType
  <2>2. LrsUsable(c.lrs)  BY <1>1, <1>2, RunningLrs
  <2>3. i \in DOMAIN c.lrs  BY <1>2
  <2>4. QED  BY <2>1, <2>2, <2>3, LrRetired
<1> HIDE DEF new
<1>6. /\ d \in PeType /\ d.at = c.at /\ d.rec = c.rec /\ d.heap = c.heap /\ d.sys = c.sys
      /\ d.pmu = c.pmu /\ d.keys = c.keys /\ d.ns_data = c.ns_data /\ d.simd = c.simd
      /\ d.nsctx = c.nsctx /\ d.call = c.call /\ d.lrs = new
  BY <1>5 DEF PeType
<1> HIDE DEF d
<1>7. QED  BY <1>1, <1>2, <1>3, <1>4, <1>5, <1>6, PeOnly

LEMMA TakesSErrorKeeps ==
  ASSUME RunInv, NEW p \in PE, RealmTakesSError(p)
  PROVE  RunInv'
<1>1. pe[p].at \in {"loop", "realm"}  BY DEF RealmTakesSError
<1>2. PICK c \in PeType : c = pe[p]  BY <1>1, RunningPe
<1>3. Frame /\ rec' = rec  BY DEF RealmTakesSError, Frame, RunInv, Types
<1> DEFINE d == [c EXCEPT !.vse = FALSE]
<1>4. pe' = [pe EXCEPT ![p] = d]  BY <1>2 DEF RealmTakesSError
<1>5. /\ d \in PeType /\ d.at = c.at /\ d.rec = c.rec /\ d.heap = c.heap /\ d.sys = c.sys
      /\ d.pmu = c.pmu /\ d.keys = c.keys /\ d.ns_data = c.ns_data /\ d.simd = c.simd
      /\ d.nsctx = c.nsctx /\ d.call = c.call /\ d.lrs = c.lrs
  BY DEF PeType
<1> HIDE DEF d
<1>6. LrsUsable(d.lrs)  BY <1>1, <1>2, <1>5, RunningLrs
<1>7. QED  BY <1>1, <1>2, <1>3, <1>4, <1>5, <1>6, PeOnly

LEMMA OutsideKeeps ==
  ASSUME RunInv, Frame, pe' = pe, rec' = rec
  PROVE  RunInv'
BY DEF RunInv, Types, Frame, Running


-----------------------------------------------------------------------------
(***************************************************************************)
(* The invariant holds.                                                    *)
(***************************************************************************)
LEMMA HostAtFirst == HostPe \in PeType /\ HostPe.at = "host" /\ HostOk(HostPe)
<1> DEFINE v == Vregs(Host)
           ns == NsCtx
           live == [vregs |-> v, sm |-> FALSE, zcr |-> 0]
           s == [live |-> live, saved |-> FALSE, ok |-> TRUE]
<1>1. v \in VregsType /\ v.q = Host /\ v.z = Host /\ v.p = Host
  BY OwnerHas DEF Vregs, VregsType
<1>2. /\ ns \in CtxType /\ ns.owner = "NWD" /\ ns.init /\ ~ns.saved /\ ns.hint = FALSE
      /\ ns.sve = CpuSve /\ ns.sme = CpuSme /\ ns.zcr = g_simd_cfg.sve_vq
  <2>1. validate_simd_config(g_simd_cfg)
    BY Config DEF validate_simd_config, g_simd_cfg
  <2>2. ns = [owner |-> "NWD", init |-> TRUE, saved |-> FALSE, hint |-> FALSE,
              sve |-> CpuSve, sme |-> CpuSme, zcr |-> g_simd_cfg.sve_vq, ns_zcr |-> 0,
              svcr |-> FALSE, vregs |-> v]
    BY <2>1 DEF NsCtx, simd_context_init, validate_simd_config, g_simd_cfg
  <2>3. g_simd_cfg.sve_vq \in Nat  BY Config
  <2> HIDE DEF v, ns
  <2>4. QED  BY <2>2, <2>3, <1>1, Config DEF CtxType
<1> HIDE DEF v, ns
<1>3. live \in LiveType /\ s \in SimdType  BY <1>1 DEF LiveType, SimdType
<1>4. QuietCall \in CallType /\ QuietCall.hint = FALSE /\ QuietCall.sm = FALSE
      /\ QuietCall.zcr = 0
  BY DEF QuietCall, CallType
<1>5. HostLive(live, QuietCall)  BY <1>1, <1>4 DEF HostLive, SimdOf
<1>6. NsShape(ns, QuietCall)  BY <1>2, <1>4 DEF NsShape
<1>7. HostPe = [at |-> "host", rec |-> NoRec, sys |-> Host, pmu |-> Host, keys |-> RmmData,
                ns_data |-> [sys |-> Zeroed, pmu |-> Zeroed], lrs |-> <<>>, ctl |-> FALSE,
                vse |-> FALSE, heap |-> FALSE, irq |-> FALSE, seen |-> FALSE, nsctx |-> ns,
                call |-> QuietCall, simd |-> s]
  BY DEF HostPe, ns, v
<1> HIDE DEF live
<1>8. s.live = live /\ ~s.saved /\ s.ok  OBVIOUS
<1> HIDE DEF s
<1>9. <<>> \in Seq(LrShape)  OBVIOUS
<1>10. /\ HostPe \in PeType /\ HostPe.at = "host" /\ HostPe.rec = NoRec /\ ~HostPe.heap
       /\ HostPe.sys = Host /\ HostPe.pmu = Host /\ HostPe.keys = RmmData
       /\ HostPe.simd = s /\ HostPe.nsctx = ns /\ HostPe.call = QuietCall
  BY <1>2, <1>3, <1>4, <1>7, <1>9, OwnerHas DEF PeType
<1>11. QED  BY <1>2, <1>5, <1>6, <1>8, <1>10 DEF HostOk

LEMMA RecAtFirst ==
  ASSUME NEW r \in REC
  PROVE  FreshRec(r) \in RecType /\ IdleOk(r, FreshRec(r))
<1> DEFINE v == Vregs(r)
           k == simd_context_init("REL1", RecCfg(r), r)
<1>1. v \in VregsType /\ v.q = r /\ v.z = r /\ v.p = r
  BY OwnerHas DEF Vregs, VregsType
<1>2. k \in CtxType /\ k.saved /\ RecShape(k, r)
  <2>1. RecCfg(r).sve_vq \in Nat  BY Config
  <2>2. validate_simd_config(RecCfg(r))
    BY Config DEF validate_simd_config, RecCfg, g_simd_cfg
  <2>3. k = [owner |-> "REL1", init |-> TRUE, saved |-> TRUE, hint |-> FALSE,
             sve |-> r \in SveRec, sme |-> FALSE, zcr |-> RecCfg(r).sve_vq, ns_zcr |-> 0,
             svcr |-> FALSE, vregs |-> v]
    BY <2>2 DEF simd_context_init, validate_simd_config, RecCfg
  <2> HIDE DEF k, v
  <2>4. k \in CtxType  BY <2>1, <2>3, <1>1 DEF CtxType
  <2>5. QED  BY <2>3, <2>4, <1>1 DEF RecShape
<1> HIDE DEF v, k
<1>3. NoAbort \in LastType  BY DEF NoAbort, LastType
<1>4. NewRec \in ExitType  BY <1>3 DEF NewRec, ExitType, Pc, Traps, Areas
<1>5. Open(NewRec)
  <2>1. NewRec.trap = "start" /\ NewRec.pc = "at" /\ NewRec.rt = "old" /\ NewRec.last = NoAbort
        /\ ~NewRec.host_call /\ ~NewRec.ripas
    BY DEF NewRec
  <2>2. ResumedRight(NewRec)  BY <2>1 DEF ResumedRight, AtRetry
  <2>3. NoAbort.ec = "none"  BY DEF NoAbort
  <2>4. QED  BY <2>1, <2>2, <2>3 DEF Open, NothingOpen
<1>6. FreshRec(r) = [exit |-> NewRec, ns |-> FALSE, active |-> "none", cptr |-> FALSE, ctx |-> k,
                     sys |-> r, pmu |-> r, keys |-> r, lrs |-> <<>>, ctl |-> FALSE,
                     asserted |-> FALSE, cntmask |-> FALSE]
  BY DEF FreshRec, k
<1>7. <<>> \in Seq(LrShape)  OBVIOUS
<1>8. FreshRec(r) \in RecType  BY <1>2, <1>4, <1>6, <1>7, OwnerHas DEF RecType
<1>9. QED  BY <1>2, <1>5, <1>6, <1>8 DEF IdleOk, OwnBanks

LEMMA RunInit == Init => RunInv
<1> SUFFICES ASSUME Init PROVE RunInv  OBVIOUS
<1>1. page \in PageStates  BY RecRunAssumption DEF Init, Configured
<1>2. Types  BY <1>1, HostAtFirst, RecAtFirst DEF Init, Types
<1>3. \A p \in PE : pe[p] = HostPe  BY DEF Init
<1>4. \A p \in PE : pe[p].at = "host" /\ pe[p].rec = NoRec /\ HostOk(pe[p])
  BY <1>3, HostAtFirst DEF HostOk
<1>5. \A r \in REC : IdleOk(r, rec[r])  BY RecAtFirst DEF Init
<1>6. QED  BY <1>2, <1>4, <1>5 DEF RunInv

LEMMA RunStep == RunInv /\ [Next]_vars => RunInv'
<1> SUFFICES ASSUME RunInv, [Next]_vars PROVE RunInv'  OBVIOUS
<1>1. ASSUME NEW p \in PE, smc_rec_enter(p) PROVE RunInv'
  BY <1>1, RefusedKeeps, AbortedKeeps, EnterKeeps DEF smc_rec_enter
<1>2. ASSUME NEW p \in PE, rec_run_loop(p) PROVE RunInv'
  BY <1>2, LoopKeeps, GiveBackKeeps, SaveKeeps DEF rec_run_loop
<1>3. ASSUME NEW p \in PE, NEW call \in NsCalls, NsSmcFpu(p, call) PROVE RunInv'
  BY <1>3, NsSmcFpuKeeps
<1>4. ASSUME NEW p \in PE, RealmExit(p) \/ RealmIrq(p) PROVE RunInv'
  BY <1>4, ExitKeeps
<1>5. ASSUME NEW p \in PE, HostIrq(p) \/ RealmTakesSError(p) PROVE RunInv'
  BY <1>5, HostIrqKeeps, TakesSErrorKeeps
<1>6. ASSUME NEW p \in PE, NEW ctl \in TimerCtls, RealmSetsTimer(p, ctl) PROVE RunInv'
  BY <1>6, SetsTimerKeeps
<1>7. ASSUME NEW p \in PE, NEW i \in DOMAIN pe[p].lrs, RealmAcknowledges(p, i) PROVE RunInv'
  BY <1>7, AcknowledgeKeeps
<1>8. ASSUME NEW r \in REC, TimerFires(r) PROVE RunInv'
  <2>1. Frame /\ pe' = pe /\ rec' = rec  BY <1>8 DEF TimerFires, Frame, RunInv, Types
  <2>2. QED  BY <2>1, OutsideKeeps
<1>9. CASE PageChanges
  <2>1. page' \in PageStates  BY <1>9, RecRunAssumption DEF PageChanges, Configured
  <2>2. Frame /\ pe' = pe /\ rec' = rec  BY <2>1, <1>9 DEF PageChanges, Frame, RunInv, Types
  <2>3. QED  BY <2>2, OutsideKeeps
<1>10. CASE UNCHANGED vars
  <2>1. Frame /\ pe' = pe /\ rec' = rec  BY <1>10 DEF vars, Frame, RunInv, Types
  <2>2. QED  BY <2>1, OutsideKeeps
<1>11. QED
  BY <1>1, <1>2, <1>3, <1>4, <1>5, <1>6, <1>7, <1>8, <1>9, <1>10 DEF Next

(***************************************************************************)
(* Every reachable state of REC entry and the run loop has its types, one  *)
(* owner per register bank, one PE per REC, and an exit that is either     *)
(* settled or open in one of the four ways smc_rec_enter can complete.     *)
(***************************************************************************)
THEOREM RunInvAlways == Spec => []RunInv
BY RunInit, RunStep, PTL DEF Spec

(***************************************************************************)
(* What an exit left open is completed exactly once, and completely,       *)
(* whatever the host asks for and whichever traps the realm runs into.     *)
(***************************************************************************)
THEOREM ExitsCompletedOnceAlways == Spec => []ExitsCompletedOnce
<1>1. RunInv => ExitsCompletedOnce
  BY RunningPe DEF ExitsCompletedOnce, Exit, RunOk, RunExit, Settled
<1>2. QED  BY <1>1, RunInvAlways, PTL

(***************************************************************************)
(* A realm that executes has its own contents in every bank it can use,    *)
(* and the host finds its own when a command returns.                      *)
(***************************************************************************)
THEOREM RegistersIsolatedAlways == Spec => []RegistersIsolated
<1>1. ASSUME RunInv PROVE RegistersIsolated
  <2> SUFFICES ASSUME NEW p \in PE
               PROVE  LET c == pe[p]
                          r == c.rec
                      IN
                      /\ c.at = "realm" =>
                           /\ c.sys = r /\ c.keys = r
                           /\ r \in PmuRec => c.pmu = r
                           /\ rec[r].cptr => /\ SimdOf(r, c.simd.live, r \in SveRec)
                                             /\ r \in SveRec => c.simd.live.zcr = RealmVq
                      /\ c.at = "host" =>
                           /\ c.sys = Host /\ c.pmu = Host /\ c.keys = RmmData
                           /\ ~c.simd.saved
                           /\ SimdOf(Host, c.simd.live, CpuSve /\ (~c.call.hint \/ c.call.sm))
                           /\ {c.simd.live.vregs.z, c.simd.live.vregs.p} \subseteq {Host, Zeroed}
                           /\ c.simd.live.sm = c.call.sm /\ c.simd.live.zcr = c.call.zcr
    BY DEF RegistersIsolated
  <2>1. PICK c : c = pe[p]  OBVIOUS
  <2>2. PICK r : r = c.rec  OBVIOUS
  <2>3. CASE c.at = "realm"
    <3>1. RunOk(r, c, rec[r])  BY <1>1, <2>1, <2>2, <2>3, RunningPe
    <3>2. c.sys = r /\ c.keys = r /\ (r \in PmuRec => c.pmu = r)
      BY <3>1, <2>3 DEF RunOk, RunBanks
    <3>3. rec[r].cptr => /\ SimdOf(r, c.simd.live, r \in SveRec)
                         /\ r \in SveRec => c.simd.live.zcr = RealmVq
      BY <3>1 DEF RunOk, RunSimd, RealmLive
    <3>4. QED  BY <3>2, <3>3, <2>1, <2>2, <2>3
  <2>4. CASE c.at = "host"
    <3>1. HostOk(c)  BY <1>1, <2>1, <2>4 DEF RunInv
    <3>2. QED  BY <3>1, <2>1, <2>4 DEF HostOk, HostLive
  <2>5. QED  BY <2>1, <2>3, <2>4
<1>2. QED  BY <1>1, RunInvAlways, PTL

(***************************************************************************)
(* The assertions of simd_context_switch, rec_run_loop and the heap hold:  *)
(* nothing is saved twice or restored twice, and a REC that nobody runs is *)
(* left as the next entry expects it.                                      *)
(***************************************************************************)
THEOREM RunAssertsHoldAlways == Spec => []RunAssertsHold
<1>1. ASSUME RunInv PROVE RunAssertsHold
  <2>1. ASSUME NEW p \in PE PROVE pe[p].simd.ok /\ (pe[p].heap <=> pe[p].at # "host")
    <3>1. CASE pe[p].at = "host"
      <4>1. HostOk(pe[p])  BY <1>1, <3>1 DEF RunInv
      <4>2. QED  BY <4>1, <3>1 DEF HostOk
    <3>2. CASE pe[p].at # "host"
      <4>1. RunOk(pe[p].rec, pe[p], rec[pe[p].rec])  BY <1>1, <3>2, RunningPe
      <4>2. QED  BY <4>1, <3>2 DEF RunOk, RunSimd
    <3>3. QED  BY <3>1, <3>2
  <2>2. ASSUME NEW r \in REC, ~Running(r)
        PROVE  ~rec[r].ns /\ rec[r].active = "none" /\ ~rec[r].cptr /\ rec[r].ctx.saved
    <3>1. IdleOk(r, rec[r])  BY <1>1, <2>2 DEF RunInv
    <3>2. QED  BY <3>1 DEF IdleOk
  <2>3. QED  BY <2>1, <2>2 DEF RunAssertsHold
<1>2. QED  BY <1>1, RunInvAlways, PTL

(***************************************************************************)
(* The list registers a realm runs with are never UNPREDICTABLE, whatever  *)
(* lists the host hands in and however many interrupts are acknowledged.   *)
(***************************************************************************)
THEOREM LrsPredictableAlways == Spec => []LrsPredictable
<1>1. ASSUME RunInv PROVE LrsPredictable
  <2>1. \A p \in PE : pe[p].at = "realm" => LrsUsable(pe[p].lrs)  BY <1>1, RunningLrs
  <2>2. QED  BY <2>1 DEF LrsUsable, LrsPredictable
<1>2. QED  BY <1>1, RunInvAlways, PTL
=============================================================================
