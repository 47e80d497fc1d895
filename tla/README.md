# TLA+ model of the Realm Management Monitor with confidential shared memory

The repository is TF-RMM, the monitor that runs at R-EL2 of an Arm CCA system, extended
with *confidential shared memory* (CSM): a realm may share regions of its protected
memory with other realms. This directory holds TLA+ modules that model the parts of the
monitor that keep state across commands and are reached by several processing elements
(PEs) at once, TLC configurations that check them on small instances, and proofs that
TLAPS checks for every value of the constants. `PROJECT.json` maps every definition to
the lines it models and lists runs, mutants, hazards, findings and theorems.

Three kinds of actor meet in the code. The *host* (Non-secure world) issues RMI
commands, on any PE, in any order, with any arguments. *Realms* issue RSI calls while a
PE runs one of their RECs (virtual CPUs). *EL3* and Secure software own the granule
protection table. The monitor has no scheduler of its own: a PE enters it with a
command, runs to completion and leaves. Concurrency is between PEs, and everything
shared is protected by a bit lock per granule, by reference counts, or by one of a few
spinlocks.

## Inventory

### State and operations

| Component | State | Operations that change it |
|---|---|---|
| Granule array (`lib/granule`) | per granule: lock bit, state, 10-bit reference count | lock, unlock, transition, get, put, find-lock-two |
| Delegation (`rmi/granule.c`) | granule state, EL3's protection table | GRANULE_DELEGATE, GRANULE_UNDELEGATE |
| Realm (`rmi/realm.c`) | RD: state, rec_count, VMID, root tables, APT address | REALM_CREATE, REALM_ACTIVATE, REALM_DESTROY |
| VMIDs (`lib/arch/vmid.c`) | bitmap | reserve, free |
| REC (`rmi/rec.c`, `rmi/run.c`) | owner, index, auxiliary granules, runnable, pending requests | REC_CREATE, REC_DESTROY, REC_ENTER, PSCI_COMPLETE |
| Stage 2 tables (`rmi/rtt.c`, `lib/s2tt`) | entries (HIPAS, RIPAS), counts of live entries | RTT_CREATE, FOLD, DESTROY, DATA_*, MAP/UNMAP_UNPROTECTED, INIT/SET_RIPAS |
| CSM (`rsi/shared_memory.c`, `rmi/apt.c`, parts of `rmi/rtt.c`) | access permission table (APT) of each realm, mapped pages | RSI_CSM_CREATE, SHARE, RESERVE, ATTACH, DETACH_AND_FREE, REVOKE, DESTROY; APT_CREATE, APT_DESTROY; propagation of DATA_CREATE and DATA_DESTROY |
| APT (`apt.h`, `apt_helpers.c`) | records, used and enabled masks, packed lists and their inverse | add, remove, share, reset, conflict check |
| Realm tags (`core/realm_tag.c`) | table, list index, counter | assign, remove, lookups |
| Region identifiers (`core/csm_id.c`) | table, counter | assign, remove |
| PSCI, host call, RIPAS requests (`runtime/rsi`) | request pending in the REC | the RSI call, its completion at the next entry or by RMI_PSCI_COMPLETE |
| Entries, exits, run loop (`rmi/run.c`, `core/run.c`, `core/exit.c`) | registers of the REC, `last_run_info` | REC_ENTER, every exception of a realm |
| SIMD, GIC, timers, PMU, keys (`lib/arch`, `lib/gic`, `core/timers.c`) | contexts of host and REC, flags of who is live | save, restore, trap, mask |
| Attestation, measurement (`rsi/realm_attest.c`, `lib/attestation`, `lib/measurement`) | token state of a REC, measurements of a realm, platform token | token init and continue, extend, set-up at boot |
| Heap (`lib/allocator`) | two lists of blocks in a buffer | calloc, free, assign to a PE |
| Translation tables of the RMM, slot buffers (`lib/xlat`, `lib/slot_buf`) | regions, tables, MMU registers, mapped slots of a PE | build, enable, map, unmap |
| Boot and platform (`core/init.c`, `head.S`, `plat/`, `lib/rmm_el3_ifc`) | cold boot flag, manifest, DRAM layout | cold boot, warm boot |

### How the parts interact

* **Calls through granules.** An RD points to its root tables and its APT, a REC to its
  RD and its auxiliary granules, a table entry to a table or a data granule, an APT
  record to the RD of another realm. Commands follow these pointers under locks: RD,
  then table, then table below (hand over hand); granules the host names in one command
  are locked in address order.
* **References instead of locks.** REC_ENTER and REC_DESTROY rely on reference counts
  where they hold no lock.
* **Between realms.** RSI_CSM_* and the propagation lock the RDs and APTs of two realms
  and change the tables of both.
* **Across the world switch.** A REC's registers are on the PE or in the REC; what an exit
  leaves open is completed by the next entry, on any PE, with flags the host chooses.
* **Global registries.** VMIDs, realm tags and region identifiers are reserved before the
  object that uses them is locked, and released after.

### What is hard here

Interleavings of commands on two PEs that name the same granule in different roles;
error paths that must return several locks and reservations; windows between two
critical sections of one command (propagation, revoke, apt_destroy, rec_destroy's last
put); stale records that outlive what they name (APT slots, `rd->apt_pa`, tags that are
looked up before the lock); circular waits; counters that wrap; work that is cut in two by
an exit to the host (host call, RIPAS request, PSCI request, a token half signed); one
set of vector registers that host, realm and RMM share; a timer that fires between two
reads of its level; a PE that goes through its set-up a second time. The hazards section of
`PROJECT.json` names each of them at its line, with the property that would catch it.

### What makes each part correct

* Granules: the content is what the state says; a DELEGATED granule is scrubbed; EL3's
  table agrees; counts are exact and stay in their field; a granule changes state only
  in the hands of its lock's holder and unreferenced.
* Realms and RECs: no VMID is leaked or shared; a REC that runs keeps its RD and its
  auxiliary granules; RECs of a realm have different MPIDRs.
* Locks: no circular wait; no lock left behind on any path.
* Tables: a count is the number of granules its table refers to; every data granule is behind one
  page; what the tree says of a page changes only by a command for that page or at the realm's
  request; no translation outlives its entry.
* CSM: identifiers name one region each; a borrowed region shares no page with another region of its
  borrower; no call keeps a lock. Two more that the code does not keep (see Findings): two realms map one granule only while
  a region is shared with both, and no realm maps a granule that went back to the host.
* Entries and exits: an exit is completed exactly once; registers are never mixed up; host
  interrupts and realm timers reach the host.
* vCPU power: a vCPU that is off or waits does not run, and PSCI answers tell the truth.
* Libraries: heap lists exact; tables say what the regions say; a slot reaches the granule
  mapped in it; index and address of a granule are inverse; a token is one token.
* Registries: identifiers unique, non-zero, and assignment fails only when it must.

## The modules

| Module | Models | Remarks |
|---|---|---|
| `Granule` | granule array, find-lock-two, delegation, EL3 as environment | declares the variables of the object life cycle |
| `Realm` | REALM_CREATE, ACTIVATE, DESTROY, VMIDs | extends `Granule` |
| `Rec` | REC_CREATE, REC_DESTROY, REC_ENTER with CPU_OFF and SYSTEM_OFF | extends `Realm` |
| `RttTable` | granules and locks of RTT_CREATE and RTT_DESTROY | extends `Rec` |
| `Rmm` | composition: any PE runs any of the commands; properties | extends `RttTable` |
| `RmmProofs` | locks; the object invariant; one lemma per step; the theorems | |
| `RealmIpa` | abstract: a realm's address space as a flat map, and who may change what in it | no code of its own; `Rtt` implements it |
| `Rtt`, `RttProofs` | entries of one realm's stage 2 tables, all RTT and DATA commands, RIPAS requests, TLB | property `ImplementsRealmIpa` |
| `Apt`, `AptProofs` | one realm's access permission table | the operations as the CSM calls use them |
| `CsmRegionId`, `CsmRegionIdProofs` | registry of region identifiers | |
| `RealmTag` | registry of realm tags | uses `Bitwise` for the fallback pattern, so not proved about |
| `Csm`, `CsmProofs` | the CSM calls, APT commands and data propagation over several realms and PEs | uses registries and APT by what their modules show of them |
| `Simd` | the SIMD context layer | operators on values, used by `RecRun` |
| `Exits` | what an exit does to a REC and what the next entry completes | operators on values, used by `RecRun` |
| `RecRun`, `RecRunProofs` | REC_ENTER to its return: checks, completions, run loop, exits, register banks, GIC, timers | the one module with fairness |
| `VcpuPower` | abstract: vCPUs that are on or off, requests and answers | no code of its own; `Psci` implements it |
| `Psci`, `PsciProofs` | PSCI calls and RMI_PSCI_COMPLETE next to entries and exits | property `PowerSpec` |
| `Heap` | allocator of the crypto library | |
| `XlatRegions`, `Xlat` | the RMM's own translation tables and the slot buffers | recursive, so not proved about |
| `Boot` | cold and warm boot, boot manifest, granule address maps | recursive, so not proved about |
| `Attest`, `AttestProofs` | attestation set-up, measurements, the token of a REC | |
| `MC*` | small instances for TLC; `MCUnits` runs eight independent modules, `MCRmmModes` three instances, `MCCsmModes` four and `MCRecRun` two, told apart by `mode` | |

### Object life cycle (`Granule` … `Rmm`)

`gs`, `ref` and `lk` are the three fields of a granule descriptor, `mem` the content of
the granule reduced to the fields the properties need, `gpt` EL3's table, `vmids` the
bitmap, and `pe` the command each PE is in, its step and its C locals. Physical
addresses are the numbers 1..NumGranules, because the order of locking depends on them.

*Grain.* A command is cut at every point where it waits for another lock while it holds
one, and at every point between two critical sections. A critical section under a
single lock touches only what the lock protects and is one step that needs the lock to
be free (the usual reduction: acquire moves right, release moves left). The lock-free
accesses are steps of their own: `RecDestroyPut`, `RecEnterPut`, `vmid_reserve`,
`vmid_free`. One path of the code breaks the reduction, the error path of
REC_CREATE that unlocks auxiliary granules it does not hold; `RecCreateAux` models what
the store does to the lock bit, and the run `rmm_aux_unlock` reports it. It needs two auxiliary
granules; the other runs have at most one, and so do not depend on it.

*Errors.* A command that is refused before it has changed anything is a stuttering step
and has no action. A refusal after a lock, a reservation or a state change has an action
(`RealmCreateFailed`, `RecCreateRefused`, `RecCreateFreeAux`, `RttCreateFailed`, …).

*Not in these modules.* The validation of numeric realm parameters is the choice of the
inputs. Entries of translation tables are reduced to the set of tables below a root
table, and a table below the root has no entries of its own. EL3 never refuses to take
back a granule the RMM holds (the code panics there).

### Stage 2 tables (`Rtt`, `RealmIpa`)

`tte` is the entry at every position of the tree, `Absent` where no table is; `ref` the
count of every table, `data` the granules in state DATA, `tlb` translations that a PE has
cached, `req` the fields of `rec->set_ripas`, `running` the REC's reference. Addresses are
numbers of pages.

*Grain.* Every command is one step. It walks hand over hand and decides and writes while it
holds the lock of the last table reached (FOLD and DESTROY of the table below too), so
another command either has passed this table before or waits above it; SET_RIPAS and
INIT_RIPAS also hold the RD, and SET_RIPAS the REC with a zero reference. The order of lock
and unlock on the root level is in `Rmm`. The short time between "break" and "make" inside one
command is therefore not visible to other commands; to the hardware it is an entry that
does not translate.

*TLB.* Hardware is environment: it may cache a valid entry of an active realm at any time and forget it at
any time. TLBI by IPA removes what covers one of the addresses, of any size. The
ranges invalidated are those the code passes.

*Refinement.* `RealmIpa` knows pages only. Its `view` is what the leaf of the walk says of a
page, a block's address advanced by the page's offset. RTT_CREATE and successful or refused RTT_FOLD are stuttering
steps of it, DATA_* and SET_RIPAS steps of `Give`, `Take`, `ChangeRipas`; `ChangeRipas` says that a
page changes only inside what the realm asked for, in order, and a destroyed one only with
its consent, and `Populate` and `Give` that a host makes pages RAM only before activation.

*Left out.* Level -1 tables (LPA2), starting level 2, RECs beyond the first, the measurement, and sharing
with other realms (`Csm`). `IpaSize` is two root entries; with a concatenated root there are more.

### Confidential shared memory (`Csm`)

`master` and `slave` are the records of the APTs by granule, `aptg` the state of these granules, `rd`
and `apt_pa` the realms, `s2` the page-level entries of each realm, `gs` the state of the data granules,
`ids` and `tag` the registries, `lk` the locks of the RDs and of the APTs, `pe` the calls in progress. A realm is named by the
granule of its RD, as `shares[].slave_rd_pa` and `master_rd_pa` name it: a realm created again in that granule is whom they name then.

What the code does not guard, the model does not guard either:

* RESERVE does not look for an earlier reservation of the same sharing. REVOKE, DETACH and APT_DESTROY remove the
  first entry of a region only, so the second stays.
* ATTACH takes any slot number. It tests neither the used bit nor the owner's share; the record of a slot outlives its region.
* Any tag that no realm holds may be drawn, one that was removed included (the counter of `realm_tag.c` wraps and compares with live tags
  only; `RealmTag` has the draw itself). A share that names a removed tag fits the next realm that gets it.
* APT_DESTROY leaves `rd->apt_pa` set; the granule may become another realm's APT, and both realms then find it.
  APT_CREATE of a NEW realm that has an APT replaces it, and the old granule stays an APT without a realm.
* APT_CREATE of a realm that is not NEW returns an error, but its granule has become an
  empty APT by then.
* REALM_DESTROY needs empty tables and no REC, and touches neither the tag nor the APT nor the shares that name the realm.
* The results of `realm_tag_assign` and `apt_add_slave` are ignored; a realm may be without a tag.

What is left out or coarser than the code:

* `Slots` are the slots of the table. ATTACH does not compare the number in x1 with the size of the table; a read beyond it is outside the model.
* An RD's granule becomes an RD again or nothing; that it may become any other object is in `Rmm`, which does not know shares.
* A step that takes an RD and then its APT waits for both at once. In the code the PE holds the RD while it spins on the APT;
  such a wait counts as one for the RD here.
* Tables reach down to the page level; their locks are taken and given back inside a step, and their reference counts are left out: in the code
  `map_ipa_to_pa` takes a reference also when the entry was assigned already, so the count drifts from the entries.
  `smc_data_destroy` gives the RD back before the walk, so its step does not need the RD.
* Whether the owner's page is RAM is a free choice of every attach. All regions have `RegionPages` pages.
* A failed assertion stops the PE with its locks (`Panic`). Seen in the model: a second
  APT_DESTROY (`assert(g_apt != NULL)`), CSM calls without an APT (`assert(apt != NULL)`),
  a RESERVE whose owner is gone (`rd_null`), the second unlock of a table in ATTACH after a failed walk that follows a good one,
  and DATA_DESTROY through an entry whose granule is no longer DATA.
  Because of these, and of the circular wait below, the Csm runs do not check for deadlock.

A PE may also wait for itself: a share or a stale `apt_pa` may lead a call that holds its own RD and APT back to one of them. The PE then spins for ever; `NoCircularWait` is
about two PEs and does not count this.

### Entries, exits and the run loop (`RecRun`, `Exits`, `Simd`)

`pe` holds the registers of each PE as *whose they are*: `sys` for the registers
`save_sysreg_state` handles, `pmu`, `keys`, the vector registers in `simd.live`. `rec` is
`struct rec` with its SIMD context. A REC's progress is what its next instruction can
tell: pc at the trapped instruction, next to it, beyond it or at the exception vector; x0
and the destination of a trapped load by who wrote them. `due` and `told` are the environment's
clock and what the host was last told of the timer.

*Grain.* A PE in the RMM is alone with its REC, so an entry up to the loop is one step, an
exit with its handler another. The way back is two steps because the timer is read in both.
The loop's wait for the timer interrupt to leave the CPU interface is part of the step.

*Contents.* The SIMD layer is modelled with SVE and with SME of the Normal world; a save under a
shorter vector length cuts the registers off, leaving streaming mode zeroes them, loading FPU registers zeroes
the upper parts. So `RegistersIsolated` fails if a length is set too late or a hint is trusted
too long.

*Host call.* `complete_rsi_host_call` walks the buffer's page again. `ExitsCompletedOnce` says that the call is answered in the buffer and in X0
together or, when the page has become EMPTY, in neither: X0 is still the function identifier. That the comment promises something else for this case is
`HostCallAnswered`, which the run `rec_host_call` refutes.

*Builds.* The timers are those of `timers.c`. The OpenCCA variant differs in three places that the
model does not have: it masks by rewriting CNTV_CTL_EL0 from the REC's saved value, skips the check
after a SIMD trap, and traps the virtual memory registers (HCR_EL2.TVM) until the realm's caches are on; the handlers in
`sysregs.c:241-267` perform the access themselves and let the realm run on. `ENABLE_OPENCCA_PERF` is off: with it the realm's counters are saved into `rec->ns->pmu`.

### vCPU power (`Psci`, `VcpuPower`)

`pe` is where a PE is in an entry or a completion, `ref` and `lock` the REC granule's
protection, `rec` the runnable and pending flags and whether the registers are the vCPU's own or
the ones `psci_reset_rec` has set. The refinement mapping makes a vCPU *fresh* between its reset
and its first instruction; `VcpuPower` forbids that anything but the start itself ends this, so a
late save of old registers over the reset ones would be a step it does not have. RECs are created with
consecutive indices, as `smc_rec_create` enforces. The function identifier's upper half is zero.

### Libraries and boot (`Heap`, `Xlat`, `Boot`, `Attest`)

These share no state with the rest and run on one PE each: a heap belongs to one REC, a PE has
its own high tables and slots, boot is sequential until the first PE is up, a token belongs to one
REC. Faults are choices: EL3's arguments and manifest, signing that fails, pages that are taken
away, a PE that is turned off and comes up again. `Heap` keeps the pointers of both lists. `Xlat` builds the
tables by the recursion of the code and compares them page by page with the regions. `Boot` takes
banks at every address of a 5-bit space. `Attest` names a byte of a token by the challenge and the
measurements the token was made from. Signing is inside the RMM (`ATTEST_EL3_TOKEN_SIGN` off, the default).

### Registries and APT

Every operation runs under one spinlock, or the lock of the APT's granule, and is one
step. Loops that draw identifiers are modelled by the first draw that is acceptable;
`FailsOnlyWhenFull` and `AssignNeverGivesUp` check the bound of the loop. The counter's
width, the table's size and the built-in list are constants; addresses wrap at
`AddressSpace` as `unsigned long` does.

## Runs

| Run | Bounds | Distinct states | Shows |
|---|---|---|---|
| `rmm` | 2 PEs, 5 granules, 2 VMIDs, `RefcountMax` 2; a host of RECs with an auxiliary granule each, a host of realms with two root tables, and a host that creates three RECs in a realm that has room for two | 1 254 000 | counts exact, content matches state, EL3 agrees, a running REC stays whole, indices unique, VMIDs exact, asserts of `granule_lock` hold, no circular wait, no lock left behind, state changes only by the holder |
| `rmm_aux_unlock` | 2 auxiliary granules | | finding |
| `csm` | 2 PEs, 2 realms, 2 APT granules, 2 region identifiers, 2 tags, 3 pages, regions of 2 pages, 2 slots, 1 share. Mode *sharing*: calls interleave, data at one page; *overlap*: calls interleave, the borrower owns regions as well; *sequential*: data is created and destroyed; *realms*: realms are destroyed and created again, either may own and borrow | 674 000 | identifiers exact, borrowed regions disjoint, locks exact |
| `csm_wait`, `csm_dangling`, `csm_isolation` | smallest instances that show it | | findings |
| `rtt` | 3 levels of 2 entries, pages 0–3 protected and 4–7 not, TLB of one translation | | counts exact, every granule behind one page, page translations fresh, RIPAS requests and scans exact, refinement of `RealmIpa` |
| `rtt_tlb` | the same | | finding |
| `rec_run` | mode *exits*: 1 PE, 1 REC, every exit, timer, host call page; mode *simd*: 2 PEs, an SVE realm and one with a PMU, vector lengths 1 and 2, host calls with hint and in streaming mode, three list registers | 198 000 | exits completed once, registers isolated, SIMD assertions hold, list registers predictable, interrupts and timers reach the host |
| `rec_timer`, `rec_host_call` | mode *exits* | | findings |
| `units` | identifiers: 3 slots, 6 identifiers; tags: 4 realms, 3 slots; APT: 3 slots of each kind, 2 shares, 6 addresses, three ranges that overlap or wrap; PSCI: 2 PEs, 2 RECs of one realm and 1 of another; heap of 28 bytes, 5-bit sizes; tables: 3 levels of 2 entries, 432 region lists; boot: 2 CPUs, 3 banks, 5-bit addresses; token of 3 bytes, 2 signing rounds, page of 4, 3-bit registers | 443 000 | registries, packed lists, share counts, borrowed regions disjoint over wrapping addresses, refinement of `VcpuPower`, heap, tables, slots, granule indices, tokens exact |

Why the bounds are enough for what they are asked. Two PEs are what every hazard listed
needs: each is an interleaving of two commands, and the locks exclude a third from the
same granule. The granules of a run are fewer than the roles the arguments ask for, so
that every granule is wanted as RD, table, REC or auxiliary granule, in both
address orders. `RefcountMax` 2 lets two RECs of a realm exist at once and puts the limit of the RD's count next to a pending put; the third set of
REC parameters asks for a REC at the limit, and for an index that has been given away.
Three slots are the smallest table in which the swap-and-pop of the packed list moves an
entry that is removed later. Two values beyond the table size make the counters wrap
over live identifiers. In `csm` two identifiers and
two slots are what an overlap of two regions needs, in one APT as owned and borrowed, three pages what an overlap that is not an equality needs. One share per region
suffices because a second borrower would be a third realm. The modes keep the product small: where calls interleave, realms stay;
where realms come and go, one call follows the other, with the APT granules and tags of former realms still about. The expected violations use one region of one page.

In `rtt` two entries per table are enough for a table to be uniform, mixed and partly filled,
three levels for a block to be split twice, and for a walk to stop above, at and below the level
asked. The data arguments allow the one order of granules that folds and one that
conflicts. Deadlock is not checked there because a host may have used up the arguments.

In `rec_run` one REC is enough for exits, because an entry sees only what the exits of its own REC have
left; two RECs on two PEs are enough for registers, because a PE holds at most the host's and one
REC's contents and a REC may move. In the PSCI mode of `units` the third REC is the wrong target. In `units` a heap of 28
bytes holds three blocks, so that a free meets free neighbours on neither, one or both sides; three banks make the
binary search go both ways; a token of three bytes in pieces of one and two has a first, middle and last
piece. Deadlock is not checked in `csm` and `units`, where a boot that has failed or a PE after a failed assertion
really stops.

### Fairness

Only `RecRun` states fairness; the other specifications are `Init /\ [][Next]_vars`. The bit
lock is not fair (a PE may spin for ever while others take the lock in turn), so
starvation freedom cannot be expected of the commands; what can be expected, that no
set of PEs waits for itself, is the invariant `NoCircularWait`.

`RmmFairness`: a PE in the run loop goes on (weak fairness; no step of the loop waits
for anyone), and a physical interrupt that comes up again and again while the realm executes is
taken (strong fairness: the realm may trap into the RMM in between, where interrupts are masked, but IRQs are
routed to EL2 whenever it executes). That is all `InterruptReturns` needs.
`TimerArrives` also needs a host that keeps its side (`HostFairness`): it enters the REC again, has
interrupts of its own, and maps the page of a pending host call. Without the last the REC never runs and
its timer is nobody's business; without the host's interrupts a realm that never exits would keep
a timer that fired in the window of the finding below to itself.

Each property of a passing run has a mutant, a plausible bug of the mapped code, under
which TLC finds it violated; the mutants stand before the definitions they replace.

## Findings

* `rmm_aux_unlock`: RMI_REC_CREATE unlocks, on its error path, auxiliary granules that it
  has unlocked before (`rec.c`). With assertions this panics; without, it clears the lock
  bit of whoever holds it. The other error path, a refused REC, is right.
* `rtt_tlb`: RTT_DESTROY of an unprotected level 2 table invalidates the range of one level 2
  block although its comment says the entire range of the table; the other blocks stay in
  the TLB. RTT_FOLD of a level 2 table uses the same range.
* `csm_wait`: propagation locks owner then borrower, RESERVE and ATTACH lock borrower then
  owner: two PEs wait for each other.
* `csm_isolation`: after a REVOKE the borrower attaches its former slot again and maps the owner's pages: the record survives, and ATTACH asks neither for
  the used bit nor for the share. A second reservation of one sharing, and a tag that comes back to another realm, lead to the same.
* `csm_dangling`: the propagation of DATA_CREATE may run after the DATA_DESTROY of the same
  page and its propagation, and leaves a freed granule mapped in the peer.
* `rec_timer`: the level of the realm's timer is read for the host before it is saved in the REC. A timer that fires
  in between is saved as asserted, not reported, and no change at the next entry, although the comment in the loop says
  that any change is reported. The interrupt is late, not lost (`TimerArrives`).

* `rec_host_call`: when the page of a host call is EMPTY at the second walk the comment says RSI_SUCCESS is returned; the
  realm finds its function identifier in X0.

Found by reading, without a run of their own:

* RSI_CSM_CREATE passes `skip_master_check` and accepts overlapping regions of one owner, although the propagation stops at the first with "map_addr is in
  exactly one master region" (`rtt.c`). The borrowers of the second region then miss what happens to the page. The comment's other half, "exactly one slave region", is
  `BorrowedRegionsDisjoint` and holds.
* RSI_CSM_ATTACH indexes `slave_memory` with x1 as it is.
* An SError injected with HCR_EL2.VSE is lost when the realm exits before it takes it.
* `complete_sea_insertion` decides by the fault address of the last exit, also after an external abort, for which it is not defined.
* An entry that is given up because of a host call's page returns zeroed list registers and timers to the host.
* `handle_psci` switches on 32 bits of X0, `psci_complete_request` on 64, and asserts in the default case.
* `psci_complete_request`'s comment reads a reference count that is not zero as "running"; it may also be an entry about to be refused.
  `VcpuPower` allows the answer "already on" for such a vCPU.
* A REC admitted before SYSTEM_OFF on another PE may still run once.
* With `ATTEST_EL3_TOKEN_SIGN` on, `attest_get_realm_signing_key` fails always, so no token can be made.
* `buffer_alloc_free_with_heap` asserts `verify_chain(heap)`, which returns 0 when the chain is right; the option is never set.
* `validate_mmap_regions` looks only at the ends of a region when it compares physical ranges.
* OpenCCA maps the high tables non-global with an ASID per CPU and invalidates with ASID 0; `SLOT_APT` shares its number with a slot of token signing.
* The commands that map and unmap accept level 1 whatever the starting level; with starting level 2 the walk's assertion fails. `RttAssumption` has a starting level of 0 or 1.
* A DRAM bank that runs past 2^64 passes the check against the PA range; `GranuleIndexExact` excludes it (`NoBankWraps`).

## Proofs

Every theorem is `Spec => []P` or `Spec => A` for all values of the constants that satisfy the
named assumptions, which TLC evaluates in the runs. `PROJECT.json` lists the theorems, each with the property of a
run that it states; those without one are the inductive invariants and types behind them.

### Assumptions

| Assumption | Says | Because |
|---|---|---|
| `PEAssumption`, `VmidAssumption`, `SizesAssumption` | finitely many PEs, placeholders are not values, sizes are numbers | finite hardware |
| `RealmParamsAssumption`, `RootsFitAssumption`, `RecParamsAssumption`, `AuxListAssumption` | arguments name granules of the array | `find_granule` refuses others |
| `RttParamsAssumption` | a table has at most `RefcountMax` live entries | `COMPILER_ASSERT(RTT_REFCOUNT_MAX <= REFCOUNT_MAX)` |
| `AptAssumption`, `SizeAssumption`, `NoRdAssumption` | sizes are positive, a counter has more values than the table slots | constants of the code |
| `PsciAssumption` | indices of the RECs of a realm are consecutive and unique | `smc_rec_create` compares with `rec_count`; uniqueness is `RecIndicesUniqueAlways` |
| `RttAssumption` | a table has an even number of entries, at least two; the starting level is 0 or 1; arguments are numbers | 512 entries per granule; level -1 and starting level 2 are left out of `Rtt` |
| `CsmAssumption` | placeholders are not values; APT granules are no RDs; a region fits the address space and there is a slot | constants of the code |
| `TokenAssumption` | a token is not empty; offsets and lengths fit a register | a CBOR token has a header; registers of 64 bits |
| `RecRunAssumption` (`Configured`) | SVE realms only on SVE CPUs, their vector length at most the CPU's; the host is in streaming mode only with SME; interrupt registers trap for writes | `validate_realm_params`; the architecture; the assertion in `handle_icc_el1_sysreg_trap` |

### Object life cycle: `RmmProofs`

The invariant is `RmmInv == OInv /\ IdleForgets /\ VmidsExact`,
where `OInv` is the conjunction of

* `LInv`: the locks a PE holds are those its step accounts for. REALM_CREATE
  computes them from an address and a count, so its locals need types and `i <= num`. Alone it
  gives `LocksAccountedAlways`.
* `Types` and `Contents`: an unlocked granule holds what its state says; a locked one what the
  step of its holder says, as half-built and half-freed objects exist only in a holder's hands.
* `CommandsOk`: for every PE, what its step knows: which granules it holds, in which state, and how
  many of a row it has converted or freed (`RootsFreed`, `AuxFreed`, `ConvertedAux`). A
  walk that has left the RD's lock behind needs `Pinned`: whoever destroys that realm has its first
  table still to count, and waits for it.
* `Owned`: what an RD, a table or a REC points to exists and belongs to nobody else. This is what
  makes a free safe: the granule given back is in no other object.
* `RefcountsExact`, `RefcountFits`, `RecIndicesUnique`, `GptAgrees`, which are needed for each other
  (a count of zero is what a destroy tests, so exactness gives `Owned` after it).

The module states the invariant and the facts about a state, has one
lemma per step of a command, puts them together and derives
`ContentMatchesState`, `RefcountsExact`, `RefcountFits`, `RunningRecIntact`, `GranuleLockAsserts`,
`VmidsExact`, `GptAgrees`, `RecIndicesUnique`, `TypeOK` and the action property `StateChangesOwned`.

`NoCircularWaitAlways` is a rank argument: `Rank` orders the granules by address, with tables above all
others. Whoever waits for a lock that is taken holds only locks of lower rank. If a set of PEs
waited for itself, the one that waits for the highest rank would wait for a PE of the set that
waits for a higher one still.

The theorems are about the model's grain. RMI_REC_CREATE's faulty error path (`rmm_aux_unlock`) is covered,
with any number of auxiliary granules: the granules it unlocks again are REC_AUX, and no command keeps
the lock of such a granule from one step of the model to the next (`RecCreateAuxFails` shows that no lock
changes). Inside a step that lock is held for a moment, and
there a build without assertions loses it; the theorems do not speak of that window.

### Stage 2 tables: `RttProofs`

`RttInv` is the conjunction of

* `Tree`: an entry is absent exactly where its parent is no table, and entries have their types. The walk then ends at
  the one leaf above a page, so `View`, what the leaf says of a page, is a function of the entries alone.
* `Kinds`: entries with a RIPAS are in the protected half, others outside it, and only mapped entries have an address.
* `CountsExact` (`RttRefcountsExact`): `RTT_FOLD` and `RTT_DESTROY` decide by the count. Without
  exactness a table that is reported empty, or full of one kind, need not be.
* `DataExact`: the pages that are assigned have different granules, and these are the granules in state DATA.
  `DataMappedOnce` compares cardinalities, which is not inductive by itself: a step needs to know that the
  map from pages to granules is injective.
* `TlbPages`: a cached page translation is that of a page-level entry. `PageTlbFresh` is about what the walk
  says, which would also hold if a fold left it behind a block; the next unfold would then need more.
* `ReqOK`, `RipasDone`: a request is inside the protected half and empty before activation; what is reported done is done.

The commands fall into three kinds. Structural ones (create, fold, destroy of a table) replace a table by an entry or the
reverse: `View` of the pages below is the same or, for a destroy, "destroyed" or unassigned. Commands for
one entry change `View` of the pages it covers. SET_RIPAS and INIT_RIPAS change a row of entries
of one table. Each has one lemma for the tree (`View` before and after), and the other parts follow from it. The counts need how
many entries of a table a step changes (the row of a fold has all of them), the arithmetic of levels
is in lemmas about quotients and `MapSize` at the start of the module.

`ScansHold` is a theorem about two operators in every state with `RttInv`: the first live entry of a row is the minimum of a
set of positions, and what `realm_ipa_get_ripas` passes has one RIPAS.

`RttImplementsRealmIpa` maps `view` to `View` of every page, the other variables to themselves. RTT_CREATE and
RTT_FOLD stutter, RTT_DESTROY and RTT_UNMAP_UNPROTECTED are `Discard`, DATA_CREATE is `Give`, DATA_DESTROY `Take`, SET_RIPAS `ChangeRipas`,
INIT_RIPAS `Populate`, RTT_MAP_UNPROTECTED `MapNs`; the realm's request, entry, exit and activation are `Ask`, `Enter`, `Leave` and `Activate`. `Give` needs `DataExact` (the granule is behind no other page), `ChangeRipas` needs `ReqOK` and the row lemma.

### Confidential shared memory: `CsmProofs`

Proved for any sets of PEs, realms, APT granules, identifiers, tags and data granules, with realms that are owner and borrower at once, and with
no assumption on what borrowers ask for: sharings are reserved twice, stale slots attached, tags and APT granules come back, realms are created again.

`RegistryInv == CsmTypes /\ IdsInv /\ LocksInv /\ BorrowedRegionsDisjoint` is inductive (`CsmRegistry`).

* `CsmTypes` types the locals of each call (`Named`), stale ones included: a slot record names a region and its owner or nothing at all.
* `IdsInv`: `RegionIdsExact` is not inductive, because between the removal of a region and the release of its identifier the
  call holds no lock. `IdsInv` adds that an APT granule that is DELEGATED holds no region and that the
  identifier to be released belongs to no region and to no other such call.
* `LocksInv`: every lock a PE has is that of its realm's RD or of the APT that realm finds, exactly at the steps of `Holding`. The difficulty is that `Locks` is computed from
  `apt_pa` and the state of the APT granule, which other calls change: each does so only under locks that the holder would have.
* `BorrowedRegionsDisjoint` needs both: RESERVE decides in the critical section in which it enters the slot, under locks on the
  APT that `LocksInv` gives it, and CREATE compares with the borrowed regions. That two realms may find one APT granule does not matter, since the lock is the granule's.

From it follow `CsmTypeCorrect` (`TypeOK`), `RegionIds`, `BorrowedDisjoint` and `LocksBalanced`.

### Attestation token: `AttestProofs`

`TokenInv` adds to `TokenExact` how the fields of the context belong together: a context that signs or is signed holds the token of the
last INIT, with nothing copied; one copied from has as many bytes copied as the realm has received and the
rest to go; any other has no signed token. `ArgsInPage` shows that the check on offset and length of CONTINUE excludes a
sum that wraps, for any width of the registers.

### Entries and exits: `RecRunProofs`

`RunInv` says of every PE and every REC in which of three situations it is: at the host (`HostOk`), run by nobody
(`IdleOk`), or together (`RunOk`); and that two PEs never have the same REC. Its parts:

* *Banks* (`OwnBanks`, `RunBanks`): whose contents each bank, `g_ns_data` and the REC hold, by the
  point of the way in or out. `RegistersIsolated` alone is not inductive: it says nothing of
  what will be restored.
* *SIMD* (`RunSimd`): either the host's registers are live and the REC's context is saved, or the realm's are live and
  the host's context holds what it gets back (`HostSaved`): the SVE part only unless the hint said it
  is not needed, ZCR_EL2 and streaming mode always. `Parked` is needed without SVE, where
  nothing writes predicates or ZCR_EL2 and so nothing restores them.
* *Exits* (`RunExit`): in the loop and in the realm the exit is `Settled`; on the way out and in an idle REC it is
  `Open`, in one of four ways. Each handler yields `Settled` or `Open` (`ExitOk`), and
  `EntryCompletes` shows that whatever flags the host sets and the checks accept, the four
  completions in their order settle each kind of open exit. `ExitsCompletedOnce` needs the
  open kinds because what a completion does depends on `last_run_info`, which outlives the run.
* *List registers* (`LrsUsable`): what `gic_validate_state` accepts, for lists of any length.

From it follow `ExitsCompletedOnce`, `RegistersIsolated`, `RunAssertsHold` and `LrsPredictable`.

### vCPU power: `PsciProofs`

`PsciImplementsVcpuPower` is the refinement `Spec => PowerSpec`, step by step: entries refused and
checks passed are stutters, starts, calls and completions steps of `VcpuPower`. The simulation needs
`PInv`: at most one PE between lock and put of a REC, with the count telling; a vCPU that executes or leaves has
its own registers, so the save on the way out never hits freshly reset ones; a pending request names
another REC of its realm. That an index below `rec_count` names a REC is `IndexNamesRec`, by a pigeonhole argument.

### APT and registries: `AptProofs`, `CsmRegionIdProofs`

* `IInv == Types /\ PackedListExact /\ SlaveRegionsDisjoint /\ NonEmpty`: disjointness needs the
  packed lists because the conflict check sees only what they list, and `NonEmpty` because an
  empty range passes every check. `ListNotFull` shows that `enable_push_*` stays in its array.
  `AllCounted` (`share_count` is the number of share slots in use, and no slave has two) gives `SharesExact` and, with
  `IInv`, the types.
* `UniqueIdsAlways` and `TypeCorrect` from `TypeOK /\ UniqueIds`; `FailsOnlyWhenFullAlways` by a
  pigeonhole argument (the draws of one loop are MaxRegionIds different identifiers, and with a
  free slot fewer are live); `RegistrationStableAlways`, an action property.

### Only model-checked

* Liveness (`InterruptReturns`, `TimerArrives`) and ENABLED: outside the installed TLAPS.
* `TagsExact`, `XlatExact`, `SlotAccessExact`, `GranuleIndexExact`: their modules use `Bitwise` or `RECURSIVE`, with which tlapm loses
  its SMT backend, and what a recursive function computes needs induction with an operator parameter.
* `HeapExact`: the two lists are what a walk along the pointers meets. That a step keeps them is an induction along the walk,
  again with an operator parameter.
* The findings: what they violate is violated for the constants of the run, and the theorems do not speak of it
  (`NoCircularWaitAlways` is about the object commands, not the CSM calls; `TlbPages` about page translations, not blocks).
  `SharedPagesJustified` and `NoDanglingWhenIdle` would be theorems of a code that tests slot and share in ATTACH, removes every entry of a region, never
  lends to a tag's next holder, and propagates under the locks of the creation.

## Not modelled, and the plan

`PROJECT.json` lists every component with the reason. Left out for good: console, C
library, test harnesses, CBOR and cryptography, register masks, memory attributes, logs. EL3
token signing is left out because the code as it is cannot make a request (see above). The numeric checks
of realm parameters are choices of the inputs.

What further work would do, in this order:

1. `Rtt` at the grain of the table locks: two commands of two PEs below the root; `map_ipa_to_pa`,
   which takes a reference even when the entry was assigned.
2. `Csm` with RD granules that become other objects, and with the registry `RealmTag` in place of the free choice of a tag.
3. `RealmParams`: number of root tables and IPA widths against reference definitions.
