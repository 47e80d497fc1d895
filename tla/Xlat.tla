-------------------------------- MODULE Xlat --------------------------------
(***************************************************************************)
(* The RMM's own translation tables (lib/xlat) on one PE, and the slot     *)
(* buffers on top of them (lib/slot_buf).  A list of memory regions is     *)
(* validated, the tables are built from it, the MMU is configured for the  *)
(* two halves of the address space and enabled, and from then on granules  *)
(* are mapped into the slots and unmapped again, through a cached pointer  *)
(* to the last level table.  A PE that is turned off and on again goes     *)
(* through the same calls.                                                 *)
(*                                                                         *)
(* Addresses count pages; virtual ones are relative to the base of the     *)
(* context, which is the high half.  Levels go from BaseLevel to 3.        *)
(***************************************************************************)
EXTENDS XlatRegions, FiniteSets

CONSTANTS
  BaseLevel,      \* cfg->base_level
  MinBlockLevel,  \* XLAT_MIN_BLOCK_LVL()
  NumTables,      \* cfg->tables_num
  MaxPa,          \* xlat_arch_get_max_supported_pa()
  Lists,          \* the region lists: sequences of [va, pa, size, gran, transient]
  Granules        \* the pages that are mapped into the slots

VARIABLES
  mm,             \* cfg->mmap
  cfg,            \* whether cfg->initialized
  tbls,           \* [tt, next, initialized]: the tables and next_table
  mmu,            \* [t0sz, t1sz, ttbr0, ttbr1, on]: whether the registers are set
  llt,            \* llt_info_cache: [table, level, base], table 0 for NULL
  tlb,            \* the TLB: the translations it holds
  slot            \* what the RMM has mapped in a slot: page -> pa, or Unmapped

vars == <<mm, cfg, tbls, mmu, llt, tlb, slot>>

Unmapped == -1

VaSize == Entries ^ (4 - BaseLevel)

Pages == 0..(VaSize - 1)

-----------------------------------------------------------------------------
(***************************************************************************)
(* xlat_tables_core.c.  An entry is invalid, transient, a table or a leaf  *)
(* (a block, or a page at level 3); TRANSIENT_DESC counts as invalid when  *)
(* regions are mapped.  The tables are numbered; table 1 is the base.      *)
(***************************************************************************)
Invalid == [type |-> "invalid"]
Transient == [type |-> "transient"]
Table(n) == [type |-> "table", table |-> n]
Leaf(pa) == [type |-> "leaf", pa |-> pa]

xlat_desc(r, pa) == IF r.transient THEN Transient ELSE Leaf(pa)

Covered(r, va, level) ==
  r.va <= va /\ r.va + r.size >= va + XLAT_BLOCK_SIZE(level)

\* Mutant of BlockAllowed: the alignment of the physical address is not looked at.
BlockAllowedUnaligned(r, pa, level) ==
  level >= MinBlockLevel /\ r.gran >= XLAT_BLOCK_SIZE(level)

BlockAllowed(r, pa, level) ==
  /\ pa % XLAT_BLOCK_SIZE(level) = 0
  /\ level >= MinBlockLevel
  /\ r.gran >= XLAT_BLOCK_SIZE(level)

xlat_tables_map_region_action(r, type, pa, va, level) ==
  LET free == type \in {"invalid", "transient"} IN
  IF Covered(r, va, level)
  THEN IF level = 3 THEN IF free THEN "write" ELSE "none"
       ELSE IF type = "table" THEN "recurse"
       ELSE IF ~free THEN "none"
       ELSE IF BlockAllowed(r, pa, level) THEN "write" ELSE "create"
  ELSE IF r.va >= va + XLAT_BLOCK_SIZE(level) /\ r.va + r.size <= va THEN "none"
  ELSE IF level = 3 THEN "panic"
       ELSE IF free THEN "create"
       ELSE IF type = "table" THEN "recurse" ELSE "panic"

(***************************************************************************)
(* xlat_tables_map_region from entry idx of table n on.  The result has    *)
(* the tables, the next free one, and the end of what was mapped; panic    *)
(* stands for running out of tables and for the impossible cases.          *)
(***************************************************************************)
\* xlat_tables_find_start_va and xlat_tables_va_to_index: where a region starts in a table
\* of `level` for the addresses from va on.
StartIndex(r, va, level) == IF r.va > va THEN (r.va - va) \div XLAT_BLOCK_SIZE(level) ELSE 0

RECURSIVE MapFrom(_, _, _, _, _, _)
MapFrom(st, r, n, base, level, idx) ==
  LET size == XLAT_BLOCK_SIZE(level)
      va   == base + idx * size
      pa   == r.pa + va - r.va
      act  == xlat_tables_map_region_action(r, st.tt[n][idx].type, pa, va, level)
      new  == st.next
      \* the state after the entry
      s1   == CASE act = "write" -> [st EXCEPT !.tt[n][idx] = xlat_desc(r, pa),
                                               !.end = va + size - 1]
                [] act = "create" /\ new <= NumTables ->
                     MapFrom([st EXCEPT !.tt[n][idx] = Table(new), !.next = new + 1],
                             r, new, va, level + 1,
                             StartIndex(r, va, level + 1))
                [] act = "recurse" ->
                     MapFrom(st, r, st.tt[n][idx].table, va, level + 1,
                             StartIndex(r, va, level + 1))
                [] act = "none" -> [st EXCEPT !.end = va + size - 1]
                [] OTHER -> [st EXCEPT !.panic = TRUE]
  IN  IF idx >= Entries \/ st.panic THEN st
      ELSE IF s1.panic \/ s1.end # va + size - 1 \/ r.va + r.size <= va + size
      THEN s1
      ELSE MapFrom(s1, r, n, base, level, idx + 1)

xlat_tables_map_region(st, r) ==
  MapFrom(st, r, 1, 0, BaseLevel, StartIndex(r, 0, BaseLevel))

RECURSIVE MapAll(_, _)
MapAll(st, list) ==
  IF list = <<>> \/ st.panic THEN st
  ELSE LET s1 == xlat_tables_map_region(st, Head(list))
       IN  MapAll([s1 EXCEPT !.panic = @ \/ s1.end # Head(list).va + Head(list).size - 1],
                  Tail(list))

EmptyTables ==
  [tt |-> [n \in 1..NumTables |-> [i \in 0..(Entries - 1) |-> Invalid]],
   next |-> 2, end |-> 0, panic |-> FALSE]

xlat_init_tables_ctx(list) == MapAll(EmptyTables, list)

-----------------------------------------------------------------------------
(***************************************************************************)
(* find_xlat_last_table: the table that decides about a page, its level    *)
(* and the first page it covers; xlat_get_tte_ptr: the entry of a page in  *)
(* such a table, if it is in the table's range.                            *)
(***************************************************************************)
Index(va, base, level) == (va - base) \div XLAT_BLOCK_SIZE(level)

RECURSIVE LastTable(_, _, _, _, _)
LastTable(tt, va, n, level, base) ==
  LET i == Index(va, base, level) IN
  IF level = 3 \/ tt[n][i].type # "table" THEN [table |-> n, level |-> level, base |-> base]
  ELSE LastTable(tt, va, tt[n][i].table, level + 1, base + i * XLAT_BLOCK_SIZE(level))

find_xlat_last_table(tt, va) == LastTable(tt, va, 1, BaseLevel, 0)

InTable(l, va) == va >= l.base /\ Index(va, l.base, l.level) < Entries

\* What the hardware finds for a page: the entry, as a leaf for this one page, whose
\* address below the size of the block comes from the page.
Walk(tt, va) ==
  LET l    == find_xlat_last_table(tt, va)
      d    == tt[l.table][Index(va, l.base, l.level)]
      size == XLAT_BLOCK_SIZE(l.level)
  IN  IF d.type = "leaf" THEN Leaf(d.pa - (d.pa % size) + ((va - l.base) % size)) ELSE d

-----------------------------------------------------------------------------
NoMmu == [t0sz |-> FALSE, t1sz |-> FALSE, ttbr0 |-> FALSE, ttbr1 |-> FALSE, on |-> FALSE]
NoLlt == [table |-> 0, level |-> 0, base |-> 0]

Init ==
  /\ mm \in Lists
  /\ cfg = "no"
  /\ tbls = [tt |-> EmptyTables.tt, next |-> 1, initialized |-> FALSE]
  /\ mmu = NoMmu
  /\ llt = NoLlt
  /\ tlb = {}
  /\ slot = [va \in Pages |-> Unmapped]

(***************************************************************************)
(* xlat_high_va_setup, also when the PE comes up again: both calls then    *)
(* return -EALREADY.  A failure ends the boot.                             *)
(***************************************************************************)
xlat_ctx_cfg_init ==
  /\ ~mmu.on /\ cfg = "no"
  /\ cfg' = IF validate_mmap_regions(mm, VaSize, MaxPa) THEN "initialized" ELSE "failed"
  /\ UNCHANGED <<mm, tbls, mmu, llt, tlb, slot>>

xlat_ctx_init ==
  /\ ~mmu.on /\ cfg = "initialized" /\ ~tbls.initialized
  /\ LET st == xlat_init_tables_ctx(mm) IN
     IF st.panic THEN cfg' = "failed" /\ UNCHANGED tbls
     ELSE /\ tbls' = [tt |-> st.tt, next |-> st.next, initialized |-> TRUE]
          /\ UNCHANGED cfg
  /\ UNCHANGED <<mm, mmu, llt, tlb, slot>>

xlat_arch_write_mmu_cfg(high) ==
  [mmu EXCEPT !.t0sz = @ \/ ~high, !.t1sz = @ \/ high,
              !.ttbr0 = @ \/ ~high, !.ttbr1 = @ \/ high]

\* xlat_arch_setup_mmu_cfg: the low half has tables of its own, made in the same way.
WriteMmuCfg(high) ==
  /\ ~mmu.on /\ (high => tbls.initialized)
  /\ mmu' = xlat_arch_write_mmu_cfg(high)
  /\ UNCHANGED <<mm, cfg, tbls, llt, tlb, slot>>

Slots == UNION {r.va..(r.va + r.size - 1) :
                r \in {mm[i] : i \in {j \in DOMAIN mm : mm[j].transient}}}

\* The MMU is enabled and slot_buf_finish_warmboot_init looks up the table of SLOT_NS.
EnableMmu ==
  /\ ~mmu.on /\ mmu.ttbr0 /\ mmu.ttbr1 /\ Slots # {}
  /\ mmu' = [mmu EXCEPT !.on = TRUE]
  /\ llt' = IF llt.table # 0 THEN llt
            ELSE find_xlat_last_table(tbls.tt, CHOOSE va \in Slots : \A w \in Slots : va <= w)
  /\ UNCHANGED <<mm, cfg, tbls, tlb, slot>>

(***************************************************************************)
(* buffer_map_internal and buffer_unmap_internal.  The entry must be free, *)
(* or in use; unmapping invalidates the TLB entry before it returns.       *)
(***************************************************************************)
Tte(va) == tbls.tt[llt.table][Index(va, llt.base, llt.level)]

SetTte(va, d) == [tbls EXCEPT !.tt[llt.table][Index(va, llt.base, llt.level)] = d]

xlat_map_memory_page_with_attrs(va, pa) ==
  /\ mmu.on /\ InTable(llt, va) /\ Tte(va) = Transient /\ pa <= MaxPa
  /\ tbls' = SetTte(va, Leaf(pa))
  /\ slot' = [slot EXCEPT ![va] = pa]
  /\ UNCHANGED <<mm, cfg, mmu, llt, tlb>>

\* Mutant of TlbAfterUnmap: nothing is invalidated.
TlbAfterUnmapStale(va) == tlb

TlbAfterUnmap(va) == {e \in tlb : e.va # va}

xlat_unmap_memory_page(va) ==
  /\ mmu.on /\ slot[va] # Unmapped
  /\ InTable(llt, va) /\ Tte(va).type = "leaf"
  /\ tbls' = SetTte(va, Transient)
  /\ tlb' = TlbAfterUnmap(va)
  /\ slot' = [slot EXCEPT ![va] = Unmapped]
  /\ UNCHANGED <<mm, cfg, mmu, llt>>

\* The hardware caches a translation it has walked.
TlbFill(va) ==
  /\ mmu.on /\ Walk(tbls.tt, va).type = "leaf" /\ {e \in tlb : e.va = va} = {}
  /\ tlb' = tlb \cup {[va |-> va, pa |-> Walk(tbls.tt, va).pa]}
  /\ UNCHANGED <<mm, cfg, tbls, mmu, llt, slot>>

\* The PE is turned off: no slot is in use then.  Its registers and its TLB are lost.
PowerCycle ==
  /\ mmu.on /\ \A va \in Pages : slot[va] = Unmapped
  /\ mmu' = NoMmu /\ tlb' = {}
  /\ UNCHANGED <<mm, cfg, tbls, llt, slot>>

Next ==
  \/ xlat_ctx_cfg_init \/ xlat_ctx_init
  \/ \E high \in BOOLEAN : WriteMmuCfg(high)
  \/ EnableMmu
  \/ \E va \in Slots, pa \in Granules : xlat_map_memory_page_with_attrs(va, pa)
  \/ \E va \in Pages : xlat_unmap_memory_page(va) \/ TlbFill(va)
  \/ PowerCycle

-----------------------------------------------------------------------------
(***************************************************************************)
(* The tables say what the regions and the slots say: a page of a region   *)
(* is translated to its place in the region, a slot to the granule mapped  *)
(* in it, and everything else to nothing; no leaf is larger than the       *)
(* granularity of its region; and each table is used once.                 *)
(***************************************************************************)
RegionOf(va) == {i \in DOMAIN mm : mm[i].va <= va /\ va < mm[i].va + mm[i].size}

Wanted(va) ==
  IF slot[va] # Unmapped THEN Leaf(slot[va])
  ELSE IF RegionOf(va) = {} THEN Invalid
  ELSE LET r == mm[CHOOSE i \in RegionOf(va) : TRUE]
       IN  IF r.transient THEN Transient ELSE Leaf(r.pa + va - r.va)

XlatExact ==
  tbls.initialized =>
    /\ \A va \in Pages : Cardinality(RegionOf(va)) <= 1 /\ Walk(tbls.tt, va) = Wanted(va)
    /\ \A va \in Pages : \A i \in RegionOf(va) :
         XLAT_BLOCK_SIZE(find_xlat_last_table(tbls.tt, va).level) <= mm[i].gran
    /\ \A n \in 2..(tbls.next - 1) :
         Cardinality({e \in (1..NumTables) \X (0..(Entries - 1)) :
                        tbls.tt[e[1]][e[2]] = Table(n)}) = 1

(***************************************************************************)
(* An access through a slot reaches the granule that is mapped in it, and  *)
(* none when nothing is, whatever the TLB has kept; and when the MMU is on *)
(* both halves are configured.                                             *)
(***************************************************************************)
SlotAccessExact ==
  /\ \A e \in tlb : Walk(tbls.tt, e.va) = Leaf(e.pa)
  /\ mmu.on => mmu.t0sz /\ mmu.t1sz /\ mmu.ttbr0 /\ mmu.ttbr1
=============================================================================
