-------------------------------- MODULE Boot --------------------------------
(***************************************************************************)
(* From reset to the first command: what EL3 passes to the RMM is checked  *)
(* step by step (lib/rmm_el3_ifc), the platform sets up its console, its   *)
(* regions and its DRAM layout (plat/), and every later entry of a PE      *)
(* takes the warm boot path (head.S).  The DRAM layout is what turns       *)
(* addresses into indices of the granule array and back, by a binary       *)
(* search over the banks.                                                  *)
(*                                                                         *)
(* Addresses of the DRAM manifest are bytes, Width bits wide; the regions  *)
(* of the runtime are in pages.  A failed check is reported to EL3, which  *)
(* does not return.                                                        *)
(***************************************************************************)
EXTENDS XlatRegions

CONSTANTS
  MaxCpus,        \* MAX_CPUS
  Width,          \* the width of an address
  PaWidth,        \* arch_feat_get_pa_width()
  Page,           \* GRANULE_SIZE
  MaxBanks,       \* PLAT_ARM_MAX_DRAM_BANKS
  MaxGranules,    \* RMM_MAX_GRANULES
  Image,          \* the regions of the image and the shared buffer, ascending
  LowVaSize,      \* PLAT_CMN_VIRT_ADDR_SPACE_SIZE
  LowMaxPa,
  UartPages,      \* where the console may be
  Addresses,      \* bases of banks
  Sizes           \* sizes of banks

VARIABLES
  cold,           \* cold_boot_flag
  pe,             \* PE -> "off", "cold" (plat_setup), "up" (rmm_handler), "failed"
  step,           \* where plat_setup is
  ifc,            \* [initialized, manifest]: of rmm_el3_ifc, and manifest_processed
  regions,        \* static_regions
  dram            \* arm_dram, filled bank by bank: sequence of [base, size, start]

bootVars == <<cold, pe, step, ifc, regions, dram>>

Wrap(n) == n % (2 ^ Width)
NONE == -1        \* UINT64_MAX
ShiftPages(n) == n \div Page

Init ==
  /\ cold = TRUE
  /\ pe = [c \in 0..(MaxCpus - 1) |-> "off"]
  /\ step = "reset"
  /\ ifc = [initialized |-> FALSE, manifest |-> FALSE]
  /\ regions = <<>>
  /\ dram = <<>>

Fail(c) == pe' = [pe EXCEPT ![c] = "failed"]

-----------------------------------------------------------------------------
(***************************************************************************)
(* rmm_entry on the PE with the cold boot flag set, up to                  *)
(* plat_cmn_init_el3_ifc: x0 the CPU, x1 the version (its minor number),   *)
(* x2 the number of CPUs, x3 the shared buffer with the manifest.          *)
(***************************************************************************)
ArgsValid(x0, x1, x2, x3) ==
  /\ x0 < MaxCpus
  /\ x1 >= 3
  /\ x2 <= MaxCpus
  /\ x0 < x2
  /\ x3 = "buffer"

rmm_el3_ifc_init(c, x1, x2, x3, manifestMinor) ==
  /\ cold /\ pe[c] = "off" /\ step = "reset"
  /\ cold' = FALSE
  /\ IF ~ArgsValid(c, x1, x2, x3)
     THEN Fail(c) /\ UNCHANGED <<ifc, step>>
     ELSE IF manifestMinor < 3
     THEN Fail(c) /\ ifc' = [ifc EXCEPT !.initialized = TRUE] /\ UNCHANGED step
     ELSE /\ ifc' = [initialized |-> TRUE, manifest |-> TRUE]
          /\ pe' = [pe EXCEPT ![c] = "cold"]
          /\ step' = "console"
  /\ UNCHANGED <<regions, dram>>

\* The console list: none, or one console whose checksum, name and driver are right or not.
rmm_el3_ifc_get_console_list_pa(c, present, good, uart) ==
  /\ pe[c] = "cold" /\ step = "console" /\ ifc.manifest
  /\ IF good
     THEN /\ step' = "setup"
          /\ regions' = <<[va |-> IF present THEN uart ELSE 0, pa |-> IF present THEN uart ELSE 0,
                           size |-> 1, gran |-> 1, transient |-> FALSE]>>
          /\ UNCHANGED pe
     ELSE Fail(c) /\ UNCHANGED <<step, regions>>
  /\ UNCHANGED <<cold, ifc, dram>>

\* plat_cmn_setup: the platform's region goes before or behind the common ones.
plat_cmn_setup(c) ==
  /\ pe[c] = "cold" /\ step = "setup"
  /\ LET all == IF regions[1].va < Image[1].va THEN regions \o Image ELSE Image \o regions
     IN  IF validate_mmap_regions(all, LowVaSize, LowMaxPa)
         THEN step' = "dram" /\ regions' = all /\ UNCHANGED pe
         ELSE Fail(c) /\ UNCHANGED <<step, regions>>
  /\ UNCHANGED <<cold, ifc, dram>>

-----------------------------------------------------------------------------
(***************************************************************************)
(* rmm_el3_ifc_get_dram_data_validated_pa, one bank at a time, and         *)
(* arm_set_dram_layout with it: the sums are taken modulo 2^Width.         *)
(***************************************************************************)
EndOf(b) == Wrap(b.base + b.size - 1)

LastEnd == IF dram = <<>> THEN 0 ELSE EndOf(dram[Len(dram)])

NumGranules ==
  IF dram = <<>> THEN 0
  ELSE dram[Len(dram)].start + ShiftPages(dram[Len(dram)].size)

\* Mutant of BankValid: the order of the banks is not checked.
BankValidAnyOrder(base, size) ==
  base # 0 /\ size # 0 /\ base % Page = 0 /\ size % Page = 0
  /\ Wrap(base + size - 1) < 2 ^ PaWidth

BankValid(base, size) ==
  /\ base # 0 /\ size # 0 /\ base % Page = 0 /\ size % Page = 0
  /\ base >= LastEnd
  /\ Wrap(base + size - 1) < 2 ^ PaWidth

DramBank(c, base, size) ==
  /\ pe[c] = "cold" /\ step = "dram" /\ Len(dram) < MaxBanks
  /\ IF BankValid(base, size)
     THEN /\ dram' = Append(dram, [base |-> base, size |-> size, start |-> NumGranules])
          /\ UNCHANGED pe
     ELSE Fail(c) /\ UNCHANGED dram
  /\ UNCHANGED <<cold, step, ifc, regions>>

\* The rest of plat_setup and rmm_main; the count of banks and the checksum are right or not.
DramDone(c, good) ==
  /\ pe[c] = "cold" /\ step = "dram"
  /\ IF good /\ dram # <<>> /\ NumGranules <= MaxGranules
     THEN pe' = [pe EXCEPT ![c] = "up"] /\ step' = "done"
     ELSE Fail(c) /\ UNCHANGED step
  /\ UNCHANGED <<cold, ifc, regions, dram>>

(***************************************************************************)
(* rmm_entry with the flag clear: plat_warmboot_setup, rmm_warmboot_main.  *)
(* EL3 turns on another PE after the first has completed its boot.         *)
(***************************************************************************)
rmm_warmboot_main(c) ==
  /\ ~cold /\ step = "done" /\ pe[c] = "off"
  /\ pe' = [pe EXCEPT ![c] = "up"]
  /\ UNCHANGED <<cold, step, ifc, regions, dram>>

PowerOff(c) ==
  /\ step = "done" /\ pe[c] = "up"
  /\ pe' = [pe EXCEPT ![c] = "off"]
  /\ UNCHANGED <<cold, step, ifc, regions, dram>>

Next ==
  \E c \in 0..(MaxCpus - 1) :
    \/ \E x1 \in {2, 3}, x2 \in 0..(MaxCpus + 1), x3 \in {"null", "buffer"}, minor \in {2, 3} :
         rmm_el3_ifc_init(c, x1, x2, x3, minor)
    \/ \E present, good \in BOOLEAN, uart \in UartPages :
         rmm_el3_ifc_get_console_list_pa(c, present, good, uart)
    \/ plat_cmn_setup(c)
    \/ \E base \in Addresses, size \in Sizes : DramBank(c, base, size)
    \/ \E good \in BOOLEAN : DramDone(c, good)
    \/ rmm_warmboot_main(c) \/ PowerOff(c)

-----------------------------------------------------------------------------
(***************************************************************************)
(* plat_granule_addr_to_idx and plat_granule_idx_to_addr: binary searches  *)
(* over the banks l to r.                                                  *)
(***************************************************************************)
Middle(l, r) == l + ((r - l) \div 2)

RECURSIVE SearchAddr(_, _, _)
SearchAddr(addr, l, r) ==
  LET i == Middle(l, r)
      b == dram[i + 1]
  IN  IF l > r THEN NONE
      ELSE IF addr < b.base THEN IF i = 0 THEN NONE ELSE SearchAddr(addr, l, i - 1)
      ELSE IF addr > EndOf(b) THEN SearchAddr(addr, i + 1, r)
      ELSE b.start + ShiftPages(addr - b.base)

plat_granule_addr_to_idx(addr) ==
  IF addr % Page # 0 THEN NONE ELSE SearchAddr(addr, 0, Len(dram) - 1)

RECURSIVE SearchIdx(_, _, _)
SearchIdx(idx, l, r) ==
  LET i == Middle(l, r)
      b == dram[i + 1]
  IN  IF l > r THEN NONE
      ELSE IF idx < b.start THEN IF i = 0 THEN NONE ELSE SearchIdx(idx, l, i - 1)
      ELSE IF idx > b.start + ShiftPages(b.size) - 1 THEN SearchIdx(idx, i + 1, r)
      ELSE b.base + (idx - b.start) * Page

plat_granule_idx_to_addr(idx) == SearchIdx(idx, 0, Len(dram) - 1)

(***************************************************************************)
(* Once a PE runs commands, the two searches are inverse to each other:    *)
(* every index of the granule array has one address, every page of a bank  *)
(* has the index that leads back to it, and no other address has one.      *)
(* That holds for the manifests whose banks do not run past the end of the *)
(* address space: the end of such a bank wraps and passes the check        *)
(* against the PA range.                                                   *)
(***************************************************************************)
NoBankWraps == \A i \in DOMAIN dram : dram[i].base + dram[i].size <= 2 ^ Width

GranuleIndexExact ==
  (step = "done" /\ NoBankWraps) =>
    /\ \A idx \in 0..(NumGranules - 1) :
         /\ plat_granule_idx_to_addr(idx) # NONE
         /\ plat_granule_addr_to_idx(plat_granule_idx_to_addr(idx)) = idx
    /\ \A addr \in 0..(2 ^ Width - 1) :
         LET idx  == plat_granule_addr_to_idx(addr)
             page == addr % Page = 0 /\ \E i \in DOMAIN dram :
                       dram[i].base <= addr /\ addr < dram[i].base + dram[i].size
         IN  /\ (idx # NONE) = page
             /\ page => idx < NumGranules /\ plat_granule_idx_to_addr(idx) = addr
=============================================================================
