---------------------------- MODULE XlatRegions ----------------------------
(***************************************************************************)
(* The lists of memory regions the translation library accepts             *)
(* (lib/xlat/src/xlat_contexts.c).  Addresses count pages; virtual ones    *)
(* are relative to the base of the context.  A region is a record with its *)
(* va, pa, size and granularity, and whether it is transient: its pages    *)
(* are then mapped later.                                                  *)
(***************************************************************************)
EXTENDS Integers, Sequences

CONSTANT Entries  \* XLAT_TABLE_ENTRIES

XLAT_BLOCK_SIZE(level) == Entries ^ (3 - level)

EndPa(r) == r.pa + r.size - 1

\* "No overlaps with PAs of previous regions" looks at the two ends of the new region.
PaOverlap(r, q) ==
  /\ ~r.transient /\ ~q.transient
  /\ \/ EndPa(r) >= q.pa /\ EndPa(r) <= EndPa(q)
     \/ r.pa >= q.pa /\ r.pa <= EndPa(q)

VaOverlap(r, prev) == r.va <= prev.va + prev.size - 1

(***************************************************************************)
(* validate_mmap_regions.  A region starts at or after the base of the     *)
(* context and ends inside it; the regions ascend.                         *)
(***************************************************************************)
validate_mmap_regions(list, vaSize, maxPa) ==
  /\ list # <<>>
  /\ \A i \in DOMAIN list :
       LET r == list[i] IN
       /\ r.va >= 0
       /\ r.gran \in {XLAT_BLOCK_SIZE(l) : l \in 0..3}
       /\ r.pa <= EndPa(r)
       /\ r.va + r.size <= vaSize
       /\ EndPa(r) <= maxPa
       /\ i > 1 => /\ r.va >= list[i - 1].va
                   /\ ~VaOverlap(r, list[i - 1])
                   /\ \A j \in 1..(i - 1) : ~PaOverlap(r, list[j])
=============================================================================
