-------------------------------- MODULE Rtt --------------------------------
(***************************************************************************)
(* The stage-2 translation tables of one realm, entry by entry: the tree   *)
(* under its root table, the reference count of each table, the commands   *)
(* of runtime/rmi/rtt.c that change entries, the RIPAS request that passes *)
(* between realm and host, and the TLB of the PEs that run the realm.      *)
(*                                                                         *)
(* A command walks down hand over hand and changes entries while it holds  *)
(* the lock of the last table it reached (and, to fold or destroy, of the  *)
(* table below), so no other command can be between it and those entries:  *)
(* each command is one step here.  Rmm has the locks of the walk and the   *)
(* granules of the tables.  A refused command changes nothing and is a     *)
(* stuttering step.  Addresses are in pages.  The realm shares no memory;  *)
(* Csm has the commands that write another realm's tables.                 *)
(***************************************************************************)
EXTENDS Integers, FiniteSets, FiniteSetsExt, Functions

CONSTANTS
  S2TTES_PER_S2TT,   \* entries of a table
  StartLevel,        \* s2_starting_level of the realm
  RttArgs,           \* [addr, level] of RTT_CREATE, RTT_FOLD and RTT_DESTROY
  DataArgs,          \* [addr, pa] of DATA_CREATE and DATA_CREATE_UNKNOWN
  NsArgs,            \* [addr, level, pa, attr] of RTT_MAP_UNPROTECTED
  RipasArgs,         \* [base, top, ripas, cd] of RSI_IPA_STATE_SET
  InitArgs,          \* [base, top] of RTT_INIT_RIPAS
  TlbCapacity        \* translations the TLB may hold at once

S2TT_PAGE_LEVEL == 3

S2TT_MIN_BLOCK_LEVEL == 1

ASSUME RttAssumption ==
  /\ S2TTES_PER_S2TT \in Nat \ {0, 1}
  /\ S2TTES_PER_S2TT % 2 = 0
  /\ StartLevel \in 0..S2TT_MIN_BLOCK_LEVEL
  /\ TlbCapacity \in Nat
  /\ RttArgs \subseteq [addr : Nat, level : Int]
  /\ DataArgs \subseteq [addr : Nat, pa : Nat]
  /\ NsArgs \subseteq [addr : Nat, level : Int, pa : Nat, attr : Nat]
  /\ RipasArgs \subseteq [base : Nat, top : Nat, ripas : {"empty", "ram", "destroyed"}, cd : BOOLEAN]
  /\ InitArgs \subseteq [base : Nat, top : Nat]

Levels == StartLevel..S2TT_PAGE_LEVEL

\* Pages that one entry of a table at this level covers: S2TTES_PER_S2TT times more at each level up.
MapSize ==
  [level \in Levels |->
     CASE level = S2TT_PAGE_LEVEL -> 1
       [] level = 2 -> S2TTES_PER_S2TT
       [] level = 1 -> S2TTES_PER_S2TT * S2TTES_PER_S2TT
       [] level = 0 -> S2TTES_PER_S2TT * (S2TTES_PER_S2TT * S2TTES_PER_S2TT)]

s2tte_map_size(level) == MapSize[level]

IpaSize == S2TTES_PER_S2TT * s2tte_map_size(StartLevel)

ParSize == IpaSize \div 2

Ipas == 0..(IpaSize - 1)

addr_in_par(addr) == addr < ParSize

(***************************************************************************)
(* Entry <<l, i>> covers the i-th range of its level; it belongs to table  *)
(* <<l, i \div S2TTES_PER_S2TT>> and, when it is a table entry, points to  *)
(* table <<l + 1, i>>.                                                     *)
(***************************************************************************)
Positions(per) == UNION {{<<l, i>> : i \in 0..((IpaSize \div (per * s2tte_map_size(l))) - 1)} : l \in Levels}

Entries == Positions(1)

Tables == Positions(S2TTES_PER_S2TT)

Entry(addr, level) == <<level, addr \div s2tte_map_size(level)>>

TableOf(e) == <<e[1], e[2] \div S2TTES_PER_S2TT>>

Below(e) == <<e[1] + 1, e[2]>>

EntriesOf(t) == {<<t[1], (t[2] * S2TTES_PER_S2TT) + k>> : k \in 0..(S2TTES_PER_S2TT - 1)}

First(t) == <<t[1], t[2] * S2TTES_PER_S2TT>>

Base(e) == e[2] * s2tte_map_size(e[1])

Covers(e) == Base(e)..(Base(e) + s2tte_map_size(e[1]) - 1)

(***************************************************************************)
(* Entries: HIPAS, RIPAS (empty where the entry has none, as RTT_READ_ENTRY*)
(* reports it), output address, and the attributes a host chose for a      *)
(* non-secure mapping.                                                     *)
(***************************************************************************)
S2tte(h, r, pa, attr) == [hipas |-> h, ripas |-> r, pa |-> pa, attr |-> attr]

unassigned(r) == S2tte("unassigned", r, 0, 0)

unassigned_ns == S2tte("unassigned_ns", "empty", 0, 0)

assigned(r, pa) == S2tte("assigned", r, pa, 0)

assigned_ns(pa, attr) == S2tte("assigned_ns", "empty", pa, attr)

TableTte == S2tte("table", "empty", 0, 0)

Absent == S2tte("absent", "empty", 0, 0)

s2tte_has_ripas(e) == e.hipas \in {"unassigned", "assigned"}

\* s2tte_is_live: the entry has an output address.
s2tte_is_live(e) == e.hipas \in {"assigned", "assigned_ns", "table"}

is_assigned_ram(e) == e.hipas = "assigned" /\ e.ripas = "ram"

\* The entry translates: a page or block descriptor that is valid for the hardware.
Valid(e) == is_assigned_ram(e) \/ e.hipas = "assigned_ns"

VARIABLES
  tte,       \* the entries of all tables; Absent where there is no table
  ref,       \* reference counts of the tables
  data,      \* granules in state DATA
  tlb,       \* cached translations [level, idx, pa]
  state,     \* rd.state
  running,   \* the REC's reference count is not zero
  req        \* rec.set_ripas

vars == <<tte, ref, data, tlb, state, running, req>>

NoRequest == [base |-> 0, top |-> 0, addr |-> 0, ripas |-> "empty", change_destroyed |-> FALSE]

\* init_s2_starting_level: the root table of a realm just created.
Init ==
  /\ tte = [e \in Entries |-> IF e[1] # StartLevel THEN Absent
                              ELSE IF addr_in_par(Base(e)) THEN unassigned("empty") ELSE unassigned_ns]
  /\ ref = [t \in Tables |-> 0]
  /\ data = {}
  /\ tlb = {}
  /\ state = "NEW"
  /\ running = FALSE
  /\ req = NoRequest

(***************************************************************************)
(* The walk: the deepest level not below the wanted one with a table for   *)
(* the address.                                                            *)
(***************************************************************************)
s2tt_walk(addr, level) ==
  CHOOSE l \in StartLevel..level :
    /\ l = level \/ tte[Entry(addr, l)].hipas # "table"
    /\ \A k \in StartLevel..(l - 1) : tte[Entry(addr, k)].hipas = "table"

IsAligned(addr, level) == addr % s2tte_map_size(level) = 0

validate_map_addr(addr, level) == addr < IpaSize /\ IsAligned(addr, level)

validate_rtt_structure_cmds(addr, level) ==
  /\ level \in (StartLevel + 1)..S2TT_PAGE_LEVEL
  /\ validate_map_addr(addr, level - 1)

validate_rtt_map_cmds(addr, level) ==
  /\ level \in S2TT_MIN_BLOCK_LEVEL..S2TT_PAGE_LEVEL
  /\ validate_map_addr(addr, level)

\* TLB invalidation by IPA: every cached translation of one of the pages goes.
stage2_tlbi_ipa(pages) ==
  tlb' = {x \in tlb : Covers(<<x.level, x.idx>>) \cap pages = {}}

s2tt_invalidate_block(addr) == stage2_tlbi_ipa({addr})

s2tt_invalidate_pages_in_block(addr) == stage2_tlbi_ipa(addr..(addr + s2tte_map_size(2) - 1))

(***************************************************************************)
(* smc_rtt_create: the entry is spread over a new table.  An assigned      *)
(* block was counted in the parent and hands that count to the table       *)
(* entry; each of its pieces is counted in the new table.                  *)
(***************************************************************************)
\* s2tt_init_*: the k-th entry of the table at this level that replaces entry e.
Piece(e, level, k) ==
  IF e.hipas \in {"assigned", "assigned_ns"} THEN [e EXCEPT !.pa = @ + (k * s2tte_map_size(level))] ELSE e

\* Mutant of smc_rtt_create: a non-secure block is taken for a counted one.
smc_rtt_createNsCounted(addr, level) ==
  LET e == Entry(addr, level - 1)
      t == Below(e)
  IN
  /\ validate_rtt_structure_cmds(addr, level)
  /\ s2tt_walk(addr, level - 1) = level - 1
  /\ tte[e].hipas # "table"
  /\ tte' = [x \in Entries |-> IF x = e THEN TableTte
                               ELSE IF TableOf(x) = t THEN Piece(tte[e], level, x[2] - First(t)[2])
                               ELSE tte[x]]
  /\ ref' = IF tte[e].hipas \in {"assigned", "assigned_ns"}
            THEN [ref EXCEPT ![t] = S2TTES_PER_S2TT]
            ELSE [ref EXCEPT ![TableOf(e)] = @ + 1]
  /\ IF Valid(tte[e]) THEN s2tt_invalidate_block(addr) ELSE UNCHANGED tlb
  /\ UNCHANGED <<data, state, running, req>>

smc_rtt_create(addr, level) ==
  LET e == Entry(addr, level - 1)
      t == Below(e)
  IN
  /\ validate_rtt_structure_cmds(addr, level)
  /\ s2tt_walk(addr, level - 1) = level - 1
  /\ tte[e].hipas # "table"
  /\ tte' = [x \in Entries |-> IF x = e THEN TableTte
                               ELSE IF TableOf(x) = t THEN Piece(tte[e], level, x[2] - First(t)[2])
                               ELSE tte[x]]
  /\ ref' = IF tte[e].hipas = "assigned"
            THEN [ref EXCEPT ![t] = S2TTES_PER_S2TT]
            ELSE [ref EXCEPT ![TableOf(e)] = @ + 1]
  /\ IF Valid(tte[e]) THEN s2tt_invalidate_block(addr) ELSE UNCHANGED tlb
  /\ UNCHANGED <<data, state, running, req>>

(***************************************************************************)
(* smc_rtt_fold: a table whose entries are all the same is replaced by one *)
(* entry of its parent.                                                    *)
(***************************************************************************)
\* table_is_uniform_block for one of the unassigned kinds.
IsUniform(t) ==
  /\ tte[First(t)].hipas \in {"unassigned", "unassigned_ns"}
  /\ \A x \in EntriesOf(t) : tte[x] = tte[First(t)]

\* All entries are of one assigned kind and map an aligned, contiguous block with the same attributes.
table_maps_block(t, h) ==
  LET e0 == tte[First(t)] IN
  /\ e0.hipas = h
  /\ IsAligned(e0.pa, t[1] - 1)
  /\ \A x \in EntriesOf(t) : tte[x] = Piece(e0, t[1], x[2] - First(t)[2])

CanFold(t) ==
  \/ ref[t] = 0 /\ IsUniform(t)
  \/ ref[t] = 0 /\ table_maps_block(t, "assigned_ns") /\ t[1] > S2TT_MIN_BLOCK_LEVEL
  \/ ref[t] = S2TTES_PER_S2TT /\ t[1] > S2TT_MIN_BLOCK_LEVEL /\ table_maps_block(t, "assigned")

\* The entry e of a parent becomes n and the table below it is gone; what was counted there is not.
ReplaceTable(e, n) ==
  /\ tte' = [x \in Entries |-> IF x = e THEN n ELSE IF TableOf(x) = Below(e) THEN Absent ELSE tte[x]]
  /\ ref' = IF ref[Below(e)] = 0 THEN [ref EXCEPT ![TableOf(e)] = @ - 1]
                                  ELSE [ref EXCEPT ![Below(e)] = 0]

\* Mutant of smc_rtt_fold: only the first page of the range is invalidated.
smc_rtt_foldOnePage(addr, level) ==
  LET e == Entry(addr, level - 1)
      n == tte[First(Below(e))]
  IN
  /\ validate_rtt_structure_cmds(addr, level)
  /\ s2tt_walk(addr, level - 1) = level - 1
  /\ tte[e].hipas = "table"
  /\ CanFold(Below(e))
  /\ ReplaceTable(e, n)
  /\ s2tt_invalidate_block(addr)
  /\ UNCHANGED <<data, state, running, req>>

smc_rtt_fold(addr, level) ==
  LET e == Entry(addr, level - 1)
      n == tte[First(Below(e))]
  IN
  /\ validate_rtt_structure_cmds(addr, level)
  /\ s2tt_walk(addr, level - 1) = level - 1
  /\ tte[e].hipas = "table"
  /\ CanFold(Below(e))
  /\ ReplaceTable(e, n)
  /\ IF Valid(n) THEN s2tt_invalidate_pages_in_block(addr) ELSE s2tt_invalidate_block(addr)
  /\ UNCHANGED <<data, state, running, req>>

(***************************************************************************)
(* smc_rtt_destroy: a table that refers to no granule is taken away; what  *)
(* its entries said is lost, which a realm sees as DESTROYED.              *)
(***************************************************************************)
smc_rtt_destroy(addr, level) ==
  LET e == Entry(addr, level - 1) IN
  /\ validate_rtt_structure_cmds(addr, level)
  /\ s2tt_walk(addr, level - 1) = level - 1
  /\ tte[e].hipas = "table"
  /\ ref[Below(e)] = 0
  /\ ReplaceTable(e, IF addr_in_par(addr) THEN unassigned("destroyed") ELSE unassigned_ns)
  /\ IF addr_in_par(addr) THEN s2tt_invalidate_block(addr) ELSE s2tt_invalidate_pages_in_block(addr)
  /\ UNCHANGED <<data, state, running, req>>

(***************************************************************************)
(* map_unmap_ns: a non-secure mapping holds no reference on its table.     *)
(***************************************************************************)
smc_rtt_map_unprotected(a) ==
  LET e == Entry(a.addr, a.level) IN
  /\ validate_rtt_map_cmds(a.addr, a.level)
  /\ IsAligned(a.pa, a.level)              \* host_ns_s2tte_is_valid
  /\ ~addr_in_par(a.addr)
  /\ s2tt_walk(a.addr, a.level) = a.level
  /\ tte[e] = unassigned_ns
  /\ tte' = [tte EXCEPT ![e] = assigned_ns(a.pa, a.attr)]
  /\ UNCHANGED <<ref, data, tlb, state, running, req>>

smc_rtt_unmap_unprotected(addr, level) ==
  LET e == Entry(addr, level) IN
  /\ validate_rtt_map_cmds(addr, level)
  /\ ~addr_in_par(addr)
  /\ s2tt_walk(addr, level) = level
  /\ tte[e].hipas = "assigned_ns"
  /\ tte' = [tte EXCEPT ![e] = unassigned_ns]
  /\ s2tt_invalidate_block(addr)
  /\ UNCHANGED <<ref, data, state, running, req>>

(***************************************************************************)
(* data_create and smc_data_destroy, at page level in the protected half.  *)
(***************************************************************************)
PageReached(addr) == s2tt_walk(addr, S2TT_PAGE_LEVEL) = S2TT_PAGE_LEVEL

Page(addr) == tte[Entry(addr, S2TT_PAGE_LEVEL)]

\* Any command that maps data asks for a page of the protected half,
validate_data_create_unknown(addr) == addr_in_par(addr) /\ validate_map_addr(addr, S2TT_PAGE_LEVEL)

\* and one that maps measured content for a NEW realm, too.
validate_data_create == state = "NEW"

\* Mutant of data_create: the granule's state is not looked at.
data_createAnyState(a, r) ==
  /\ validate_data_create_unknown(a.addr)
  /\ PageReached(a.addr)
  /\ Page(a.addr).hipas = "unassigned"
  /\ tte' = [tte EXCEPT ![Entry(a.addr, S2TT_PAGE_LEVEL)] = assigned(r, a.pa)]
  /\ ref' = [ref EXCEPT ![TableOf(Entry(a.addr, S2TT_PAGE_LEVEL))] = @ + 1]
  /\ data' = data \cup {a.pa}
  /\ UNCHANGED <<tlb, state, running, req>>

\* The granule is DELEGATED, the page unassigned.
data_create(a, r) ==
  /\ a.pa \notin data
  /\ validate_data_create_unknown(a.addr)
  /\ PageReached(a.addr)
  /\ Page(a.addr).hipas = "unassigned"
  /\ tte' = [tte EXCEPT ![Entry(a.addr, S2TT_PAGE_LEVEL)] = assigned(r, a.pa)]
  /\ ref' = [ref EXCEPT ![TableOf(Entry(a.addr, S2TT_PAGE_LEVEL))] = @ + 1]
  /\ data' = data \cup {a.pa}
  /\ UNCHANGED <<tlb, state, running, req>>

\* Measured content: a NEW realm only, and the page becomes RAM.
smc_data_create(a) == validate_data_create /\ data_create(a, "ram")

\* Unknown content: at any time, and the page keeps its RIPAS.
smc_data_create_unknown(a) == data_create(a, Page(a.addr).ripas)

smc_data_destroy(addr) ==
  LET e == Entry(addr, S2TT_PAGE_LEVEL) IN
  /\ addr_in_par(addr)
  /\ PageReached(addr)
  /\ tte[e].hipas = "assigned"
  /\ tte' = [tte EXCEPT ![e] = unassigned(IF @.ripas = "ram" THEN "destroyed" ELSE @.ripas)]
  /\ ref' = [ref EXCEPT ![TableOf(e)] = @ - 1]
  /\ data' = data \ {tte[e].pa}
  /\ IF is_assigned_ram(tte[e]) THEN stage2_tlbi_ipa({addr}) ELSE UNCHANGED tlb
  /\ UNCHANGED <<state, running, req>>

(***************************************************************************)
(* Loops over the entries of the last table reached, from the one for an   *)
(* address to the end of the table or the top of the range, that stop at   *)
(* the first entry which is not in good.                                   *)
(***************************************************************************)
Steps(base, top, level, good) ==
  LET e == Entry(base, level) IN
  Max({n \in 0..(S2TTES_PER_S2TT - (e[2] % S2TTES_PER_S2TT)) :
        /\ base + (n * s2tte_map_size(level)) <= top
        /\ \A k \in 0..(n - 1) : tte[<<level, e[2] + k>>] \in good})

\* The first n entries from the one for base.
Run(base, level, n) == {<<level, Entry(base, level)[2] + k>> : k \in 0..(n - 1)}

smc_rtt_init_ripas(a) ==
  LET level == s2tt_walk(a.base, S2TT_PAGE_LEVEL)
      n     == Steps(a.base, a.top, level, {unassigned("empty"), unassigned("ram")})
  IN
  /\ a.base < a.top
  /\ a.top < IpaSize
  /\ addr_in_par(a.base) /\ addr_in_par(a.top - 1)
  /\ state = "NEW"
  /\ IsAligned(a.base, level)
  /\ n > 0
  /\ tte' = [x \in Entries |-> IF x \in Run(a.base, level, n) THEN unassigned("ram") ELSE tte[x]]
  /\ UNCHANGED <<ref, data, tlb, state, running, req>>

(***************************************************************************)
(* smc_rtt_set_ripas: the REC is not running, the range starts where the   *)
(* last call stopped and does not pass the end of what the realm asked.    *)
(***************************************************************************)
\* Mutant of MayChange: a destroyed entry is changed without the realm's consent to that.
MayChangeDestroyed(e) == s2tte_has_ripas(e)

\* update_ripas does not refuse the entry.
MayChange(e) == s2tte_has_ripas(e) /\ (e.ripas = "destroyed" => req.change_destroyed)

\* update_ripas asks for an invalidation.
NeedsTlbi(e) == e.hipas = "assigned" /\ req.ripas = "empty" /\ e.ripas # "empty"

smc_rtt_set_ripas(base, top) ==
  LET level == s2tt_walk(base, S2TT_PAGE_LEVEL)
      n     == Steps(base, top, level, {x \in Range(tte) : MayChange(x)})
      run   == Run(base, level, n)
  IN
  /\ ~running
  /\ base < top
  /\ base = req.addr /\ top <= req.top
  /\ IsAligned(base, level)
  /\ n > 0
  /\ tte' = [x \in Entries |-> IF x \in run THEN [tte[x] EXCEPT !.ripas = req.ripas] ELSE tte[x]]
  /\ stage2_tlbi_ipa({Base(x) : x \in {y \in run : NeedsTlbi(tte[y])}})
  /\ req' = [req EXCEPT !.addr = base + (n * s2tte_map_size(level))]
  /\ UNCHANGED <<ref, data, state, running>>

(***************************************************************************)
(* Two scans of the last table of a walk, which only read.                 *)
(***************************************************************************)
\* Mutant of s2tt_skip_non_live_entries: non-secure mappings are not seen as live.
s2tt_skip_non_live_entriesNs(addr, level) ==
  LET e    == Entry(addr, level)
      left == S2TTES_PER_S2TT - (e[2] % S2TTES_PER_S2TT)
      Live(k) == tte[<<level, e[2] + k>>].hipas \in {"assigned", "table"}
  IN IF Live(0) THEN addr
     ELSE Base(e) + (Min({k \in 1..left : k = left \/ Live(k)}) * s2tte_map_size(level))

\* The address, for the host to go on at, of the first live entry from the one for addr on.
s2tt_skip_non_live_entries(addr, level) ==
  LET e    == Entry(addr, level)
      left == S2TTES_PER_S2TT - (e[2] % S2TTES_PER_S2TT)
      Live(k) == s2tte_is_live(tte[<<level, e[2] + k>>])
  IN IF Live(0) THEN addr
     ELSE Base(e) + (Min({k \in 1..left : k = left \/ Live(k)}) * s2tte_map_size(level))

\* Mutant of realm_ipa_get_ripas: an entry is compared with a RIPAS only when it is assigned.
realm_ipa_get_ripasAssigned(start, end) ==
  LET level   == s2tt_walk(start, S2TT_PAGE_LEVEL)
      e       == Entry(start, level)
      Same(x) == s2tte_has_ripas(x) /\ (x.hipas = "assigned" => x.ripas = tte[e].ripas)
      n       == Steps(Base(e), end + s2tte_map_size(level) - 1, level, {x \in Range(tte) : Same(x)})
  IN [ripas |-> tte[e].ripas, top |-> Min({end, Base(e) + (n * s2tte_map_size(level))})]

\* RSI_IPA_STATE_GET: the RIPAS at start and how far, at most to end, it extends in this table.
realm_ipa_get_ripas(start, end) ==
  LET level   == s2tt_walk(start, S2TT_PAGE_LEVEL)
      e       == Entry(start, level)
      Same(x) == s2tte_has_ripas(x) /\ x.ripas = tte[e].ripas
      n       == Steps(Base(e), end + s2tte_map_size(level) - 1, level, {x \in Range(tte) : Same(x)})
  IN [ripas |-> tte[e].ripas, top |-> Min({end, Base(e) + (n * s2tte_map_size(level))})]

(***************************************************************************)
(* The realm's side.  smc_rec_enter answers the request that is pending    *)
(* (complete_set_ripas); handle_rsi_ipa_state_set makes one and exits.     *)
(***************************************************************************)
complete_set_ripas ==
  req' = IF req.base = req.top THEN req ELSE [req EXCEPT !.base = 0, !.top = 0]

smc_rec_enter ==
  /\ ~running
  /\ state = "ACTIVE"
  /\ complete_set_ripas
  /\ running' = TRUE
  /\ UNCHANGED <<tte, ref, data, tlb, state>>

\* Mutant of handle_rsi_ipa_state_set: the progress of the last request is kept.
handle_rsi_ipa_state_setKeepsAddr(a) ==
  /\ running
  /\ a.ripas \in {"empty", "ram"}
  /\ a.base < a.top /\ a.top <= ParSize
  /\ req' = [base |-> a.base, top |-> a.top, addr |-> req.addr, ripas |-> a.ripas, change_destroyed |-> a.cd]
  /\ running' = FALSE
  /\ UNCHANGED <<tte, ref, data, tlb, state>>

handle_rsi_ipa_state_set(a) ==
  /\ running
  /\ a.ripas \in {"empty", "ram"}
  /\ a.base < a.top /\ a.top <= ParSize
  /\ req' = [base |-> a.base, top |-> a.top, addr |-> a.base, ripas |-> a.ripas, change_destroyed |-> a.cd]
  /\ running' = FALSE
  /\ UNCHANGED <<tte, ref, data, tlb, state>>

\* Any other exit to the host.
RecExit ==
  /\ running
  /\ running' = FALSE
  /\ UNCHANGED <<tte, ref, data, tlb, state, req>>

smc_realm_activate ==
  /\ state = "NEW"
  /\ state' = "ACTIVE"
  /\ UNCHANGED <<tte, ref, data, tlb, running, req>>

(***************************************************************************)
(* The hardware: a PE that runs the realm caches a translation whenever it *)
(* likes, and forgets one whenever it likes.                               *)
(***************************************************************************)
TlbFill(e) ==
  /\ state = "ACTIVE"
  /\ Valid(tte[e])
  /\ Cardinality(tlb) < TlbCapacity
  /\ tlb' = tlb \cup {[level |-> e[1], idx |-> e[2], pa |-> tte[e].pa]}
  /\ UNCHANGED <<tte, ref, data, state, running, req>>

TlbEvict ==
  /\ \E x \in tlb : tlb' = tlb \ {x}
  /\ UNCHANGED <<tte, ref, data, state, running, req>>

Next ==
  \/ \E a \in RttArgs : smc_rtt_create(a.addr, a.level)
  \/ \E a \in RttArgs : smc_rtt_fold(a.addr, a.level)
  \/ \E a \in RttArgs : smc_rtt_destroy(a.addr, a.level)
  \/ \E addr \in Ipas, level \in Levels : smc_rtt_unmap_unprotected(addr, level)
  \/ \E a \in NsArgs : smc_rtt_map_unprotected(a)
  \/ \E a \in DataArgs : smc_data_create(a)
  \/ \E a \in DataArgs : smc_data_create_unknown(a)
  \/ \E addr \in Ipas : smc_data_destroy(addr)
  \/ \E a \in InitArgs : smc_rtt_init_ripas(a)
  \/ \E base \in Ipas, top \in Ipas : smc_rtt_set_ripas(base, top)
  \/ \E a \in RipasArgs : handle_rsi_ipa_state_set(a)
  \/ smc_rec_enter
  \/ RecExit
  \/ smc_realm_activate
  \/ \E e \in Entries : TlbFill(e)
  \/ TlbEvict

Spec == Init /\ [][Next]_vars

(***************************************************************************)
(* Properties.                                                             *)
(***************************************************************************)
\* The entry that decides about a page.
Leaf(p) == tte[Entry(p, s2tt_walk(p, S2TT_PAGE_LEVEL))]

\* What the tables say about a page, whatever the level they say it at.
PageView(p) ==
  LET l == s2tt_walk(p, S2TT_PAGE_LEVEL)
      e == tte[Entry(p, l)]
  IN Piece(e, S2TT_PAGE_LEVEL, p % s2tte_map_size(l))

\* Types; entries with a RIPAS are in the protected half only, non-secure ones outside it only.
TypeOK ==
  /\ \A e \in Entries :
       /\ tte[e].hipas \in {"absent", "table"} \cup
            (IF addr_in_par(Base(e)) THEN {"unassigned", "assigned"} ELSE {"unassigned_ns", "assigned_ns"})
       /\ tte[e].ripas \in {"empty", "ram", "destroyed"}
       /\ (tte[e].hipas = "absent") <=> (s2tt_walk(Base(e), e[1]) # e[1])
  /\ ref \in [Tables -> 0..S2TTES_PER_S2TT]
  /\ Cardinality(tlb) <= TlbCapacity
  /\ state \in {"NEW", "ACTIVE"} /\ running \in BOOLEAN

(***************************************************************************)
(* The reference count of a table is the number of its entries that point  *)
(* to a granule of the realm: a child table or data.  RTT_DESTROY and      *)
(* RTT_FOLD decide by the count alone that nothing is lost; creation,      *)
(* unfolding and folding move counts between two tables.                   *)
(***************************************************************************)
RttRefcountsExact ==
  \A t \in Tables :
    ref[t] = Cardinality({x \in EntriesOf(t) : tte[x].hipas \in {"assigned", "table"}})

(***************************************************************************)
(* The granules in state DATA are those that the tables map, each at one   *)
(* page, through any history of blocks split and folded.                   *)
(***************************************************************************)
DataMappedOnce ==
  LET backed == {p \in 0..(ParSize - 1) : Leaf(p).hipas = "assigned"} IN
  /\ data = {PageView(p).pa : p \in backed}
  /\ Cardinality(data) = Cardinality(backed)

(***************************************************************************)
(* No cached translation of a page outlives its entry: after DATA_DESTROY, *)
(* a RIPAS change, an unmap or a fold, a page translation in the TLB still *)
(* says what the tables say.                                               *)
(***************************************************************************)
PageTlbFresh ==
  \A x \in tlb : x.level = S2TT_PAGE_LEVEL => Valid(Leaf(x.idx)) /\ PageView(x.idx).pa = x.pa

(***************************************************************************)
(* The same of translations of any size: RTT_DESTROY of an unprotected     *)
(* table is to "invalidate the TLB for the entire range mapped by the RTT".*)
(***************************************************************************)
TlbFresh ==
  \A x \in tlb : \A p \in Covers(<<x.level, x.idx>>) :
    Valid(Leaf(p)) /\ PageView(p).pa = x.pa + p - Base(<<x.level, x.idx>>)

(***************************************************************************)
(* The part of its request that the realm is told is done has the RIPAS it *)
(* asked for, or was destroyed by the host since.                          *)
(***************************************************************************)
RipasDoneIsDone ==
  req.base < req.top =>
    /\ req.base <= req.addr /\ req.addr <= req.top
    /\ \A p \in req.base..(req.addr - 1) : Leaf(p).ripas \in {req.ripas, "destroyed"}

(***************************************************************************)
(* A host that goes on at the address DATA_DESTROY, RTT_DESTROY or         *)
(* RTT_UNMAP_UNPROTECTED returns misses nothing: no page it skips is       *)
(* mapped, and it never stays where there is nothing to do.                *)
(***************************************************************************)
SkipMissesNothing ==
  \A addr \in Ipas, want \in Levels :
    LET level == s2tt_walk(addr, want)
        top   == s2tt_skip_non_live_entries(addr, level)
    IN /\ \A p \in addr..(top - 1) : ~s2tte_is_live(Leaf(p))
       /\ top = addr => s2tte_is_live(tte[Entry(addr, level)])

(***************************************************************************)
(* RSI_IPA_STATE_GET answers for a range that starts where the realm asked *)
(* and all of whose pages have the RIPAS it returns, in blocks and pages.  *)
(***************************************************************************)
RipasAnswerExact ==
  \A start \in 0..(ParSize - 1), end \in 1..ParSize :
    start < end =>
      LET answer == realm_ipa_get_ripas(start, end) IN
      /\ start < answer.top /\ answer.top <= end
      /\ \A p \in start..(answer.top - 1) : Leaf(p).ripas = answer.ripas

(***************************************************************************)
(* Both scans over the entries of a table, for the next live entry and for *)
(* the end of a RIPAS range, stop where they must: across levels, from the *)
(* middle of an entry, and at the end of the table or of the range.        *)
(***************************************************************************)
ScansExact == SkipMissesNothing /\ RipasAnswerExact

(***************************************************************************)
(* The tree implements the flat address space: RTT_CREATE and RTT_FOLD     *)
(* change nothing a realm or a host can see in it, a page becomes RAM only *)
(* by a measured command or at the realm's own request, and a granule is   *)
(* never behind two pages.                                                 *)
(***************************************************************************)
Ipa == INSTANCE RealmIpa WITH
  NumPages     <- IpaSize,
  NumProtected <- ParSize,
  view         <- [p \in Ipas |-> PageView(p)]

ImplementsRealmIpa == Ipa!Spec
=============================================================================
