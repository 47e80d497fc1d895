------------------------------ MODULE MCUnits ------------------------------
(***************************************************************************)
(* The components that share no state with the rest, in one run: the       *)
(* region identifiers, the realm tags, the access permission table, PSCI,  *)
(* the heap, the translation tables with the slot buffers, the boot and    *)
(* the attestation token.  A behaviour is a behaviour of one of them,      *)
(* named by mode; the variables of the others keep their first values.     *)
(***************************************************************************)
EXTENDS CsmRegionId, Apt, Psci, Attest, Integers, Sequences

CONSTANTS NULL, v1, v2, v3

VARIABLES
  mode,
  tags, next_index, tagCounter, assigned,
  ctx, heap, live,
  mm, cfg, tbls, mmu, llt, tlb, slot,
  cold, bootPe, step, ifc, regions, dram

\* Four realms for three slots and 3-bit tags: the list holds a tag the fallback produces
\* as well, and the counter goes round.
Tags == INSTANCE RealmTag WITH
          Rd <- 1..4, MaxRealms <- 3, DefaultTags <- <<1, 5, 6>>, Pattern <- 6, Width <- 8,
          MaxTries <- 4, counter <- tagCounter

\* Access permission table: three slots, so that a region is taken from the middle of a packed
\* list and the moved one after it; ranges that overlap and one that wraps round.
MCRequest == {[base |-> b, size |-> 2] : b \in {0, 1, 5}}

\* PSCI: two vCPUs of one realm on two PEs, and one of another realm that a host may name as
\* the target by mistake.
MCRealmOf == [r \in REC |-> IF r = v3 THEN 2 ELSE 1]
MCIdxOf == [r \in REC |-> IF r = v2 THEN 1 ELSE 0]

\* A heap of a few blocks, a size_t of five bits, buffers too small and misaligned.
Heaps == INSTANCE Heap WITH
           HdrSize <- 4, Align <- 2, Width <- 32, Counts <- {0, 1, 2},
           Sizes <- {1, 3, 5, 16, 31},
           Buffers <- {[len |-> 5, skew |-> 0], [len |-> 28, skew |-> 1]}

\* Three levels of two entries, blocks at level 2; lists of two regions, good and bad.
Region(va, pa, size, gran) ==
  [va |-> va, pa |-> pa, size |-> size, gran |-> gran, transient |-> FALSE]

SlotRegion(va, size) == [va |-> va, pa |-> 0, size |-> size, gran |-> 1, transient |-> TRUE]

RegionLists ==
  {<<Region(v, p, s, g), SlotRegion(t, 2)>> :
     v \in {-1, 0, 1}, p \in {0, 1, 2, 4}, s \in {1, 2, 4, 5}, g \in 1..4, t \in {4, 6}}
  \cup
  {<<Region(v, p, 2, g), Region(w, q, z, 4)>> :
     v \in {0, 2}, p \in {0, 2}, g \in {1, 4}, w \in {1, 3, 4}, q \in {0, 1, 4}, z \in {2, 4}}

Tables == INSTANCE Xlat WITH
            Entries <- 2, BaseLevel <- 1, MinBlockLevel <- 2, NumTables <- 6, MaxPa <- 7,
            Lists <- RegionLists, Granules <- {3, 4}

\* Three banks in a space of sixteen pages of which eight have physical addresses.
Booting == INSTANCE Boot WITH
             Entries <- 2, MaxCpus <- 2, Width <- 5, PaWidth <- 4, Page <- 2, MaxBanks <- 3,
             MaxGranules <- 5, pe <- bootPe,
             Image <- <<Region(2, 2, 1, 1), Region(3, 3, 1, 1), Region(4, 4, 2, 1),
                        Region(7, 9, 1, 1)>>,
             LowVaSize <- 10, LowMaxPa <- 15, UartPages <- {0, 1, 4, 6, 8, 9},
             Addresses <- {0, 2, 3, 4, 6, 8, 10, 12, 14, 16, 30}, Sizes <- {0, 1, 2, 4, 6}

tagVars == <<tags, next_index, tagCounter, assigned>>
heapVars == <<ctx, heap, live>>
tableVars == <<mm, cfg, tbls, mmu, llt, tlb, slot>>
bootingVars == <<cold, bootPe, step, ifc, regions, dram>>
unitVars ==
  <<mode, vars, tagVars, aptVars, psciVars, heapVars, tableVars, bootingVars, attVars>>

MCInit ==
  /\ mode \in {"ids", "tags", "apt", "psci", "heap", "tables", "boot", "token"}
  /\ Init /\ Tags!Init /\ AptInit /\ PsciInit /\ Heaps!Init /\ Tables!Init /\ Booting!Init /\ AttestInit
  /\ mode # "tables" => mm = CHOOSE l \in RegionLists : TRUE

MCNext ==
  /\ \/ mode = "ids" /\ Next
     \/ mode # "ids" /\ UNCHANGED vars
  /\ \/ mode = "tags" /\ Tags!Next
     \/ mode # "tags" /\ UNCHANGED tagVars
  /\ \/ mode = "apt" /\ AptNext
     \/ mode # "apt" /\ UNCHANGED aptVars
  /\ \/ mode = "psci" /\ PsciNext
     \/ mode # "psci" /\ UNCHANGED psciVars
  /\ \/ mode = "heap" /\ Heaps!Next
     \/ mode # "heap" /\ UNCHANGED heapVars
  /\ \/ mode = "tables" /\ Tables!Next
     \/ mode # "tables" /\ UNCHANGED tableVars
  /\ \/ mode = "boot" /\ Booting!Next
     \/ mode # "boot" /\ UNCHANGED bootingVars
  /\ \/ mode = "token" /\ AttestNext
     \/ mode # "token" /\ UNCHANGED attVars
  /\ UNCHANGED mode

MCSpec == MCInit /\ [][MCNext]_unitVars

\* RealmTag: a tag names one realm, a realm has one tag, and no realm is turned away while a
\* slot is free.
TagsExact == Tags!TagsNameRealms /\ Tags!AssignNeverGivesUp

\* Heap: the lists of memory_alloc.c agree with each other and with what the clients hold.
HeapExact == Heaps!HeapExact

\* Xlat: the translation tables say what the regions and the slots say.
XlatExact == Tables!XlatExact

\* Xlat: an access through a slot reaches the granule that is mapped in it.
SlotAccessExact == Tables!SlotAccessExact

\* Boot: address to index and index to address are inverse to each other.
GranuleIndexExact == Booting!GranuleIndexExact
=============================================================================
