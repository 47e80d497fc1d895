------------------------------- MODULE Exits -------------------------------
(***************************************************************************)
(* What an exit from a realm does to its REC (core/exit.c, core/sysregs.c, *)
(* core/inject_exp.c, rsi/host_call.c) and what the next entry does to     *)
(* complete it (rmi/run.c), as operators on a REC.                         *)
(*                                                                         *)
(* Addresses and values are reduced to what the next instruction of the    *)
(* realm can tell: pc is "at" the instruction that trapped, "next" to it,  *)
(* or at the exception "vector"; x0 and rt (the destination of a trapped   *)
(* load) are what they were, or who wrote them.  trap is the cause of the  *)
(* last exit; only the properties read it, and `buf`, the host call's      *)
(* buffer in realm memory.                                                 *)
(***************************************************************************)
EXTENDS Naturals

NoAbort == [ec |-> "none", isv |-> FALSE, wr |-> FALSE, unprot |-> FALSE, xzr |-> FALSE]

\* A REC after smc_rec_create, as far as exits and entries go.
NewRec ==
  [pc |-> "at", elr |-> "old", x0 |-> "old", rt |-> "old", last |-> NoAbort,
   host_call |-> FALSE, ripas |-> FALSE, serror |-> FALSE, trap |-> "start", area |-> "", buf |-> "none"]

\* write_elr_el2(read_elr_el2() + 4)
advance_pc(rec) == [rec EXCEPT !.pc = IF @ = "at" THEN "next" ELSE "beyond"]

\* An exception injected into the realm: elr_el1 is the pc and the pc the vector.
\* inject_sync_idabort, inject_sync_idabort_rec and realm_inject_undef_abort.
Inject(rec) == [rec EXCEPT !.elr = rec.pc, !.pc = "vector"]

\* A result: the REC and whether to go back to the realm without an exit to the host.
Back(rec) == [rec |-> rec, to_realm |-> TRUE]
Out(rec)  == [rec |-> rec, to_realm |-> FALSE]

\* The realm runs into a trap: its registers are as its own code left them.
Trapped(rec, trap, area) ==
  [rec EXCEPT !.pc = "at", !.elr = "old", !.x0 = "old", !.rt = "old", !.buf = "none",
              !.trap = trap, !.area = area]

Smc(rec, trap) == [Trapped(rec, trap, "") EXCEPT !.x0 = "fid"]

\* last_run_info at a synchronous exit to the host.  ISV is kept only if the host sees it.
Last(rec, last) == [rec EXCEPT !.last = last]

LastEc(ec) == [NoAbort EXCEPT !.ec = ec]

-----------------------------------------------------------------------------
(***************************************************************************)
(* handle_data_abort of a trapped access a: ext the kind of external abort *)
(* ("no", "UER", "UEO"), area where the address is, isv whether there is a *)
(* syndrome, wr, xzr and aarch32.  HPFAR_EL2 is not defined for an         *)
(* external abort: whether the address that is kept is an unprotected one  *)
(* is anybody's guess.                                                     *)
(***************************************************************************)
handle_data_abort(rec, a, hpfar) ==
  LET r    == Trapped(rec, "dabt", IF a.ext = "no" THEN a.area ELSE "ext")
      last == [ec |-> "dabt", isv |-> FALSE, wr |-> a.wr, xzr |-> a.xzr,
               unprot |-> IF a.ext # "no" THEN hpfar ELSE a.area = "unprot"]
  IN  CASE a.ext = "UER" -> Out(Last(Inject(r), last))
        [] a.ext = "UEO" -> Out(Last(r, last))
        [] a.ext = "no" /\ a.area \in {"outside", "empty"} -> Back(Inject(r))
        [] a.ext = "no" /\ (a.area = "par" \/ a.aarch32) /\ a.area \notin {"outside", "empty"} ->
             Out(Last(r, last))
        [] OTHER -> Out(Last(r, [last EXCEPT !.isv = a.isv]))

handle_instruction_abort(rec, a) ==
  LET r == Trapped(rec, "iabt", IF a.ext = "no" THEN a.area ELSE "ext")
  IN  CASE a.ext = "UER" -> Out(Last(Inject(r), LastEc("iabt")))
        [] a.ext = "UEO" -> Out(Last(r, LastEc("iabt")))
        [] a.ext = "no" /\ a.area # "par" -> Back(Inject(r))
        [] OTHER -> Out(Last(r, LastEc("iabt")))

\* handle_sysreg_access_trap: only writes of the interrupt registers go to the host;
\* identification registers are emulated and the rest reads as zero.
handle_sysreg_access_trap(rec, s) ==
  LET r == Trapped(rec, "sysreg", s.reg)
      v == [r EXCEPT !.rt = IF s.wr \/ s.xzr THEN @ ELSE s.reg]
  IN  IF s.reg = "icc"
      THEN Out(Last(advance_pc(r), [LastEc("sysreg") EXCEPT !.wr = s.wr, !.xzr = s.xzr]))
      ELSE Back(advance_pc(v))

\* An RSI call that the RMM answers (exit = FALSE) or answers and reports.
RsiAnswered(rec, exit) ==
  LET r == advance_pc([Smc(rec, "rsi") EXCEPT !.x0 = "result"])
  IN  IF exit THEN Out(Last(r, LastEc("smc"))) ELSE Back(r)

\* emulate_stage2_data_abort from an RSI call: the pc stays, the realm will call again.
RsiStage2Abort(rec) == Out(Last(Smc(rec, "rsi_abort"), LastEc("smc")))

\* handle_rsi_ipa_state_set: the host is asked, the answer is written at the next entry.
RsiIpaStateSet(rec) ==
  Out(Last(advance_pc([Smc(rec, "ripas") EXCEPT !.ripas = TRUE]), LastEc("smc")))

(***************************************************************************)
(* handle_rsi_host_call with an acceptable address: `page` is what the     *)
(* walk finds there.                                                       *)
(***************************************************************************)
handle_rsi_host_call(rec, page) ==
  CASE page = "empty"    -> RsiAnswered(rec, FALSE)                \* RSI_ERROR_INPUT
    [] page = "unmapped" -> RsiStage2Abort(rec)
    [] page = "mapped"   -> Out(Last(advance_pc([Smc(rec, "host_call") EXCEPT
                                                   !.host_call = TRUE, !.buf = "args"]),
                                     LastEc("smc")))

\* SErrors are reported; the fatal ones for the realm are injected as well.
handle_exception_serror_lel(rec, aet) ==
  Out(Last([Trapped(rec, "serror", "") EXCEPT !.serror = @ \/ aet \in {"UEU", "UER"}],
           LastEc("serror")))

-----------------------------------------------------------------------------
(***************************************************************************)
(* The steps of smc_rec_enter, in its order.  `enter` is what the host     *)
(* asks for: [sea, mmio, trap_wfx ...].                                    *)
(***************************************************************************)
SeaRefused(rec, enter) == enter.sea /\ (rec.last.ec # "dabt" \/ ~rec.last.unprot)

complete_sea_insertion(rec, enter) == IF enter.sea THEN Inject(rec) ELSE rec

MmioRefused(rec, enter) ==
  enter.mmio /\ ~enter.sea /\ (rec.last.ec # "dabt" \/ ~rec.last.isv)

\* Mutant of complete_mmio_emulation: the flag works although a SEA was injected.
complete_mmio_emulationAlways(rec, enter) ==
  IF enter.mmio
  THEN advance_pc([rec EXCEPT !.rt = IF rec.last.wr \/ rec.last.xzr THEN @ ELSE "host"])
  ELSE rec

complete_mmio_emulation(rec, enter) ==
  IF enter.mmio /\ ~enter.sea
  THEN advance_pc([rec EXCEPT !.rt = IF rec.last.wr \/ rec.last.xzr THEN @ ELSE "host"])
  ELSE rec

complete_set_ripas(rec) ==
  IF rec.ripas THEN [rec EXCEPT !.x0 = "result", !.ripas = FALSE] ELSE rec

complete_sysreg_emulation(rec) ==
  IF rec.last.ec = "sysreg" /\ ~rec.last.wr /\ ~rec.last.xzr THEN [rec EXCEPT !.rt = "host"]
  ELSE rec

\* complete_host_call when the walk does not abort.  On an EMPTY page the buffer is
\* not written and X0 keeps the function identifier.
complete_host_call(rec, page) ==
  IF ~rec.host_call THEN rec
  ELSE [rec EXCEPT !.host_call = FALSE,
                   !.x0 = IF page = "mapped" THEN "result" ELSE @,
                   !.buf = IF page = "mapped" THEN "answer" ELSE "skipped"]

reset_last_run_info(rec) == [rec EXCEPT !.last = NoAbort]

HostCallAborts(rec, page) == rec.host_call /\ page = "unmapped"

-----------------------------------------------------------------------------
(***************************************************************************)
(* What the realm may find when it runs on after a trap.                   *)
(***************************************************************************)
AtRetry(rec)    == rec.pc = "at" /\ rec.rt = "old"
AtNext(rec)     == rec.pc = "next" /\ rec.elr = "old"
AtVector(rec)   == rec.pc = "vector" /\ rec.elr = "at" /\ rec.rt = "old"

AbortResumedRight(rec) ==
  CASE rec.area = "par" -> AtRetry(rec)
    [] rec.area \in {"outside", "empty"} -> AtVector(rec)
    [] rec.area = "unprot" -> AtVector(rec) \/ (rec.trap = "dabt" /\ (AtRetry(rec) \/ AtNext(rec)))
    [] rec.area = "ext" -> rec.pc \in {"at", "vector"} /\ rec.rt = "old"

ResumedRight(rec) ==
  CASE rec.trap \in {"start", "irq", "fiq", "serror", "simd"} -> AtRetry(rec)
    [] rec.trap = "undef"            -> AtVector(rec)
    [] rec.trap = "wfx"              -> AtNext(rec) /\ rec.rt = "old"
    [] rec.trap \in {"dabt", "iabt"} -> AbortResumedRight(rec)
    [] rec.trap = "sysreg"           -> AtNext(rec) /\ rec.rt # "host"
    [] rec.trap \in {"rsi", "ripas"} -> AtNext(rec) /\ rec.x0 = "result"
    [] rec.trap = "rsi_abort"        -> AtRetry(rec) /\ rec.x0 = "fid"
    [] rec.trap = "host_call"        -> /\ AtNext(rec)
                                        /\ \/ rec.x0 = "result" /\ rec.buf = "answer"
                                           \/ rec.x0 = "fid" /\ rec.buf = "skipped"
=============================================================================
