-------------------------------- MODULE Psci --------------------------------
(***************************************************************************)
(* PSCI for realms (rsi/psci.c) and its completion by the host (rmi/rec.c, *)
(* smc_psci_complete), next to the entries and exits that may run on other *)
(* PEs at the same time.  A REC is protected in two ways: by its granule   *)
(* lock, and while a PE runs it, by a reference count that is raised under *)
(* the lock and dropped without it.                                        *)
(*                                                                         *)
(* A PE is at "host"; at "check" in smc_rec_enter, with the reference; at  *)
(* "realm"; at "leave" from the end of an exit's handler until the realm's *)
(* registers are saved and the reference is dropped; or at "complete" in   *)
(* smc_psci_complete, with both locks.                                     *)
(***************************************************************************)
EXTENDS Integers, FiniteSets

CONSTANTS
  PE, REC, Nobody,
  RealmOf,        \* rec->realm_info.g_rd, a function on REC
  IdxOf,          \* rec->rec_idx, a function on REC
  Startable       \* the RECs created with REC_PARAMS_FLAG_RUNNABLE

VARIABLES
  pe,             \* [at, rec, target, status]
  rec,            \* struct rec: [runnable, pending, regs, x0]
  ref, lock,      \* the reference count and the lock of a REC's granule
  system_off      \* the realms in state REALM_SYSTEM_OFF

psciVars == <<pe, rec, ref, lock, system_off>>

ASSUME PsciAssumption ==
  /\ Nobody \notin PE \cup REC
  /\ IdxOf \in [REC -> Nat] /\ RealmOf \in [REC -> Nat]
  /\ Startable \subseteq REC
  /\ IsFiniteSet(REC)
  \* RECs are created with consecutive indices, each index once (Rmm, RecIndicesUnique)
  /\ \A r, q \in REC : RealmOf[r] = RealmOf[q] /\ IdxOf[r] = IdxOf[q] => r = q
  /\ \A r \in REC : \A i \in 0..IdxOf[r] : \E q \in REC : RealmOf[q] = RealmOf[r] /\ IdxOf[q] = i

rec_count(rd) == Cardinality({r \in REC : RealmOf[r] = rd})

AtHost == [at |-> "host", rec |-> Nobody, target |-> Nobody, status |-> "none"]

(***************************************************************************)
(* A call of the realm in its registers: fid is X0, with an upper half of  *)
(* zero, idx is mpidr_to_rec_idx(X1).  regs says whose contents the other  *)
(* registers are: the vCPU's own, or the ones psci_reset_rec sets.         *)
(***************************************************************************)
NoCall == [fid |-> "none", idx |-> 0]

PsciInit ==
  /\ pe = [p \in PE |-> AtHost]
  /\ rec = [r \in REC |-> [runnable |-> r \in Startable, pending |-> FALSE, regs |-> "own",
                           call |-> NoCall, answer |-> "none"]]
  /\ ref = [r \in REC |-> 0]
  /\ lock = [r \in REC |-> Nobody]
  /\ system_off = {}

-----------------------------------------------------------------------------
(***************************************************************************)
(* smc_rec_enter up to the checks.  find_lock_unused_granule wants a       *)
(* reference count of zero; the lock is given up again before the checks.  *)
(***************************************************************************)
RecEnter(p, r) ==
  /\ pe[p].at = "host" /\ lock[r] = Nobody /\ ref[r] = 0
  /\ ref' = [ref EXCEPT ![r] = 1]
  /\ pe' = [pe EXCEPT ![p] = [@ EXCEPT !.at = "check", !.rec = r]]
  /\ UNCHANGED <<rec, lock, system_off>>

\* Mutant of MayRun: a pending request does not keep the REC from running.
MayRunPending(r) == rec[r].runnable /\ RealmOf[r] \notin system_off

MayRun(r) ==
  /\ RealmOf[r] \notin system_off
  /\ rec[r].runnable
  /\ ~rec[r].pending

RecEnterChecks(p) ==
  LET r == pe[p].rec IN
  /\ pe[p].at = "check"
  /\ IF MayRun(r)
     THEN /\ pe' = [pe EXCEPT ![p].at = "realm"]
          /\ rec' = [rec EXCEPT ![r].regs = "own"]
          /\ UNCHANGED ref
     ELSE /\ pe' = [pe EXCEPT ![p] = AtHost]
          /\ ref' = [ref EXCEPT ![r] = 0]
          /\ UNCHANGED rec
  /\ UNCHANGED <<lock, system_off>>

\* save_realm_state and atomic_granule_put_release.
RecLeave(p) ==
  /\ pe[p].at = "leave"
  /\ pe' = [pe EXCEPT ![p] = AtHost]
  /\ rec' = [rec EXCEPT ![pe[p].rec].regs = "own"]
  /\ ref' = [ref EXCEPT ![pe[p].rec] = 0]
  /\ UNCHANGED <<lock, system_off>>

-----------------------------------------------------------------------------
(***************************************************************************)
(* handle_psci: what the call leaves in the REC, and whether it exits to   *)
(* the host.  answer keeps the answer to a request; the calls that are     *)
(* answered at once are not told apart.                                    *)
(***************************************************************************)
Answered(r) == [rec[r] EXCEPT !.call = NoCall, !.answer = "none"]
Requested(r, call) == [rec[r] EXCEPT !.call = call, !.pending = TRUE]

ToRealm(p, new) ==
  /\ rec' = [rec EXCEPT ![pe[p].rec] = new]
  /\ UNCHANGED <<pe, ref, lock, system_off>>

ToHost(p, new) ==
  /\ rec' = [rec EXCEPT ![pe[p].rec] = new]
  /\ pe' = [pe EXCEPT ![p].at = "leave"]
  /\ UNCHANGED <<ref, lock>>

\* psci_version and psci_features.
psci_query(p) == ToRealm(p, Answered(pe[p].rec))

psci_cpu_suspend(p) == ToHost(p, Answered(pe[p].rec)) /\ UNCHANGED system_off

psci_cpu_off(p) ==
  /\ ToHost(p, [Answered(pe[p].rec) EXCEPT !.runnable = FALSE])
  /\ UNCHANGED system_off

psci_cpu_on(p, call, inpar) ==
  LET r == pe[p].rec IN
  IF ~inpar THEN ToRealm(p, Answered(r))
  ELSE IF call.idx >= rec_count(RealmOf[r]) THEN ToRealm(p, Answered(r))
  ELSE IF call.idx = IdxOf[r] THEN ToRealm(p, Answered(r))
  ELSE ToHost(p, Requested(r, call)) /\ UNCHANGED system_off

psci_affinity_info(p, call, level) ==
  LET r == pe[p].rec IN
  IF level # 0 THEN ToRealm(p, Answered(r))
  ELSE IF call.idx >= rec_count(RealmOf[r]) THEN ToRealm(p, Answered(r))
  ELSE IF call.idx = IdxOf[r] THEN ToRealm(p, Answered(r))
  ELSE ToHost(p, Requested(r, call)) /\ UNCHANGED system_off

\* The realm's state is set under the lock of its RD.  The registers are left alone.
psci_system_off_reset(p) ==
  /\ ToHost(p, rec[pe[p].rec])
  /\ system_off' = system_off \cup {RealmOf[pe[p].rec]}

handle_psci(p) ==
  /\ pe[p].at = "realm"
  /\ \/ psci_query(p)
     \/ psci_cpu_suspend(p)
     \/ psci_cpu_off(p)
     \/ \E idx \in 0..Cardinality(REC), inpar \in BOOLEAN :
          psci_cpu_on(p, [fid |-> "cpu_on", idx |-> idx], inpar)
     \/ \E idx \in 0..Cardinality(REC), level \in 0..1 :
          psci_affinity_info(p, [fid |-> "affinity_info", idx |-> idx], level)
     \/ psci_system_off_reset(p)

\* Any other exit to the host.
OtherExit(p) ==
  /\ pe[p].at = "realm"
  /\ ToHost(p, rec[pe[p].rec]) /\ UNCHANGED system_off

-----------------------------------------------------------------------------
(***************************************************************************)
(* smc_psci_complete: both granules are locked (two different ones), then  *)
(* the request is completed and the locks are given up.                    *)
(***************************************************************************)
PsciCompleteLocks(p, calling, target, status) ==
  /\ pe[p].at = "host" /\ calling # target
  /\ lock[calling] = Nobody /\ lock[target] = Nobody
  /\ lock' = [lock EXCEPT ![calling] = p, ![target] = p]
  /\ pe' = [pe EXCEPT ![p] = [at |-> "complete", rec |-> calling, target |-> target,
                              status |-> status]]
  /\ UNCHANGED <<rec, ref, system_off>>

\* Mutant of TargetOn: only the flag is looked at.
TargetOnUncounted(t) == rec[t].runnable

TargetOn(t) == ref[t] # 0 \/ rec[t].runnable

complete_psci_cpu_on(t, status) ==
  IF TargetOn(t) THEN "already_on" ELSE IF status = "denied" THEN "denied" ELSE "success"

complete_psci_affinity_info(t) == IF TargetOn(t) THEN "on" ELSE "off"

StatusAllowed(fid, status) ==
  status \in IF fid = "cpu_on" THEN {"success", "denied"} ELSE {"success"}

\* The answer reaches the REC, whatever is returned to the host.
Completed(c, t, status) ==
  LET a == IF rec[c].call.fid = "cpu_on" THEN complete_psci_cpu_on(t, status)
           ELSE complete_psci_affinity_info(t)
  IN  [rec EXCEPT ![c] = [@ EXCEPT !.call = NoCall, !.answer = a, !.pending = FALSE],
                  ![t] = IF a = "success"
                         THEN [@ EXCEPT !.regs = "reset", !.runnable = TRUE] ELSE @]

\* The conditions under which a completion is refused with RMI_ERROR_INPUT.
CompleteRefused(c, t, status) ==
  \/ ref[c] # 0
  \/ ~rec[c].pending
  \/ RealmOf[c] # RealmOf[t]
  \/ rec[c].call.idx # IdxOf[t]
  \/ ~StatusAllowed(rec[c].call.fid, status)

psci_complete_request(p) ==
  LET c == pe[p].rec
      t == pe[p].target
      s == pe[p].status
  IN
  /\ pe[p].at = "complete"
  /\ lock' = [lock EXCEPT ![c] = Nobody, ![t] = Nobody]
  /\ pe' = [pe EXCEPT ![p] = AtHost]
  /\ rec' = IF CompleteRefused(c, t, s) THEN rec ELSE Completed(c, t, s)
  /\ UNCHANGED <<ref, system_off>>

PsciNext ==
  \E p \in PE :
    \/ \E r \in REC : RecEnter(p, r)
    \/ RecEnterChecks(p)
    \/ RecLeave(p)
    \/ handle_psci(p) \/ OtherExit(p)
    \/ \E c, t \in REC, s \in {"success", "denied", "other"} : PsciCompleteLocks(p, c, t, s)
    \/ psci_complete_request(p)

PsciSpec == PsciInit /\ [][PsciNext]_psciVars

-----------------------------------------------------------------------------
(***************************************************************************)
(* The promise: with the following mapping the module implements           *)
(* VcpuPower.  A vCPU runs from the checks of its entry to the end of the  *)
(* handler of its exit.  A request stands between the exit and the         *)
(* completion, and the target it names is the REC of the index.            *)
(***************************************************************************)
Peer(r, idx) == CHOOSE t \in REC : RealmOf[t] = RealmOf[r] /\ IdxOf[t] = idx

PowerBar == [r \in REC |-> IF ~rec[r].runnable THEN "off"
                           ELSE IF rec[r].regs = "reset" THEN "fresh" ELSE "on"]

RunningBar == {r \in REC : \E p \in PE : pe[p].at = "realm" /\ pe[p].rec = r}

RequestBar == [r \in REC |-> IF rec[r].pending
                             THEN [kind |-> rec[r].call.fid, target |-> Peer(r, rec[r].call.idx)]
                             ELSE [kind |-> "none", target |-> Nobody]]

AnswerBar == [r \in REC |-> rec[r].answer]

Power == INSTANCE VcpuPower WITH
  power <- PowerBar, running <- RunningBar, request <- RequestBar, answer <- AnswerBar,
  stopped <- system_off

PowerSpec == Power!Spec
=============================================================================
