---------------------------- MODULE PsciProofs -----------------------------
(***************************************************************************)
(* PSCI and its completion by the host keep the promise of VcpuPower, for  *)
(* every number of PEs, realms and RECs.                                   *)
(*                                                                         *)
(* The step simulation needs three facts about a reachable state: at most  *)
(* one PE is between the entry and the exit of a REC, and the reference    *)
(* count says whether there is one; a REC that executes, or leaves, has    *)
(* its own registers; and a request that is pending names another REC of   *)
(* the same realm.                                                         *)
(***************************************************************************)
EXTENDS Psci, FiniteSetTheorems, TLAPS

PeType == [at : {"host", "check", "realm", "leave", "complete"}, rec : REC \cup {Nobody},
           target : REC \cup {Nobody}, status : {"none", "success", "denied", "other"}]

CallType == [fid : {"none", "cpu_on", "affinity_info"}, idx : Nat]

RecType == [runnable : BOOLEAN, pending : BOOLEAN, regs : {"own", "reset"}, call : CallType,
            answer : {"none", "success", "already_on", "denied", "on", "off"}]

Types ==
  /\ pe \in [PE -> PeType]
  /\ rec \in [REC -> RecType]
  /\ ref \in [REC -> {0, 1}]

\* p is between smc_rec_enter's lock and its put.
Inside(p) == pe[p].at \in {"check", "realm", "leave"}

Located ==
  \A p \in PE :
    /\ Inside(p) => pe[p].rec \in REC /\ ref[pe[p].rec] = 1
    /\ pe[p].at = "complete" => pe[p].rec \in REC /\ pe[p].target \in REC /\ pe[p].rec # pe[p].target
    /\ \A q \in PE : Inside(p) /\ Inside(q) /\ pe[p].rec = pe[q].rec => p = q

OwnRegisters ==
  \A p \in PE : pe[p].at \in {"realm", "leave"} => rec[pe[p].rec].regs = "own"

RunsAllowed ==
  \A p \in PE : pe[p].at = "realm" => rec[pe[p].rec].runnable /\ ~rec[pe[p].rec].pending

IsTarget(r, idx, t) == t \in REC /\ t # r /\ RealmOf[t] = RealmOf[r] /\ IdxOf[t] = idx

RequestsNamePeers ==
  \A r \in REC : rec[r].pending =>
    /\ rec[r].call.fid \in {"cpu_on", "affinity_info"}
    /\ \E t \in REC : IsTarget(r, rec[r].call.idx, t)

PInv == Types /\ Located /\ OwnRegisters /\ RunsAllowed /\ RequestsNamePeers

-----------------------------------------------------------------------------
\* An index below rec_count names a REC of the realm: mpidr_to_rec_idx and the bound
\* check of psci_cpu_on and psci_affinity_info suffice.
LEMMA IndexNamesRec ==
  ASSUME NEW r \in REC, NEW idx \in Nat, idx < rec_count(RealmOf[r])
  PROVE  \E t \in REC : RealmOf[t] = RealmOf[r] /\ IdxOf[t] = idx
<1> DEFINE S == {q \in REC : RealmOf[q] = RealmOf[r]}
<1>1. IsFiniteSet(S) /\ idx < Cardinality(S) /\ Cardinality(S) \in Nat
  <2>1. IsFiniteSet(S)  BY PsciAssumption, FS_Subset
  <2>2. Cardinality(S) \in Nat  BY <2>1, FS_CardinalityType
  <2>3. QED  BY <2>1, <2>2 DEF rec_count
<1>2. CASE \E q \in S : IdxOf[q] >= idx
  <2>1. PICK q \in S : IdxOf[q] >= idx  BY <1>2
  <2>2. q \in REC /\ IdxOf[q] \in Nat /\ idx \in 0..IdxOf[q]  BY <2>1, PsciAssumption
  <2>3. QED  BY <2>1, <2>2, PsciAssumption
<1>3. CASE \A q \in S : IdxOf[q] < idx
  <2> DEFINE f == [q \in S |-> IdxOf[q]]
  <2>1. f \in [S -> 0..(idx - 1)]  BY <1>3, PsciAssumption
  <2>2. IsFiniteSet(0..(idx - 1)) /\ Cardinality(0..(idx - 1)) = idx
    BY FS_Interval
  <2> HIDE DEF f
  <2>3. \E x, y \in S : x # y /\ f[x] = f[y]
    BY <1>1, <2>1, <2>2, FS_PigeonHole
  <2>4. QED  BY <2>3, PsciAssumption DEF f
<1>4. QED  BY <1>2, <1>3, PsciAssumption

\* A step of p that leaves the REC alone or gives it contents of the right type.
LEMMA EnterKeeps ==
  ASSUME PInv, NEW p \in PE, NEW r \in REC, RecEnter(p, r)
  PROVE  PInv'
<1>1. Types'
  <2>1. pe[p] \in PeType  BY DEF PInv, Types
  <2>2. [pe[p] EXCEPT !.at = "check", !.rec = r] \in PeType  BY <2>1 DEF PeType
  <2>3. QED  BY <2>2 DEF PInv, Types, RecEnter
<1>2. \A q \in PE : Inside(q) => pe[q].rec # r  BY DEF PInv, Located, RecEnter
<1>3. Located'  BY <1>2 DEF PInv, Types, Located, Inside, RecEnter, PeType
<1>4. OwnRegisters' /\ RunsAllowed'
  BY DEF PInv, Types, OwnRegisters, RunsAllowed, RecEnter, PeType
<1>5. RequestsNamePeers'  BY DEF PInv, RequestsNamePeers, RecEnter, IsTarget
<1>6. QED  BY <1>1, <1>3, <1>4, <1>5 DEF PInv

LEMMA ChecksKeep ==
  ASSUME PInv, NEW p \in PE, RecEnterChecks(p)
  PROVE  PInv'
<1> DEFINE r == pe[p].rec
<1>0. r \in REC /\ ref[r] = 1 /\ pe[p].at = "check"
  BY DEF PInv, Located, Inside, RecEnterChecks
<1>1. CASE MayRun(r)
  <2>1. /\ pe' = [pe EXCEPT ![p].at = "realm"] /\ rec' = [rec EXCEPT ![r].regs = "own"]
        /\ UNCHANGED <<ref, lock, system_off>>
    BY <1>1 DEF RecEnterChecks
  <2>2. rec[r].runnable /\ ~rec[r].pending  BY <1>1 DEF MayRun
  <2>3. Types'
    <3>1. pe[p] \in PeType /\ rec[r] \in RecType  BY <1>0 DEF PInv, Types
    <3>2. [pe[p] EXCEPT !.at = "realm"] \in PeType  BY <3>1 DEF PeType
    <3>3. [rec[r] EXCEPT !.regs = "own"] \in RecType  BY <3>1 DEF RecType
    <3>4. QED  BY <2>1, <3>2, <3>3, <1>0 DEF PInv, Types
  <2>4. Located'  BY <2>1, <1>0 DEF PInv, Types, Located, Inside, PeType
  <2>5. OwnRegisters' /\ RunsAllowed'
    BY <2>1, <2>2, <1>0 DEF PInv, Types, OwnRegisters, RunsAllowed, PeType, RecType
  <2>6. RequestsNamePeers'
    BY <2>1, <1>0 DEF PInv, Types, RequestsNamePeers, IsTarget, RecType
  <2>7. QED  BY <2>3, <2>4, <2>5, <2>6 DEF PInv
<1>2. CASE ~MayRun(r)
  <2>1. /\ pe' = [pe EXCEPT ![p] = AtHost] /\ ref' = [ref EXCEPT ![r] = 0] /\ rec' = rec
    BY <1>2 DEF RecEnterChecks
  <2>2. Types'  BY <2>1, <1>0 DEF PInv, Types, PeType, AtHost
  <2>3. Located'  BY <2>1, <1>0 DEF PInv, Types, Located, Inside, PeType, AtHost
  <2>4. OwnRegisters' /\ RunsAllowed'
    BY <2>1, <1>0 DEF PInv, Types, OwnRegisters, RunsAllowed, AtHost
  <2>5. RequestsNamePeers'  BY <2>1 DEF PInv, RequestsNamePeers, IsTarget
  <2>6. QED  BY <2>2, <2>3, <2>4, <2>5 DEF PInv
<1>3. QED  BY <1>1, <1>2

LEMMA LeaveKeeps ==
  ASSUME PInv, NEW p \in PE, RecLeave(p)
  PROVE  PInv'
<1> DEFINE r == pe[p].rec
<1>0. r \in REC /\ ref[r] = 1 /\ pe[p].at = "leave"
  BY DEF PInv, Located, Inside, RecLeave
<1>1. /\ pe' = [pe EXCEPT ![p] = AtHost] /\ ref' = [ref EXCEPT ![r] = 0]
      /\ rec' = [rec EXCEPT ![r].regs = "own"]
  BY DEF RecLeave
<1>2. Types'
  <2>1. pe' \in [PE -> PeType] /\ ref' \in [REC -> {0, 1}]  BY <1>1, <1>0 DEF PInv, Types, PeType, AtHost
  <2>2. rec[r] \in RecType  BY <1>0 DEF PInv, Types
  <2>3. [rec[r] EXCEPT !.regs = "own"] \in RecType  BY <2>2 DEF RecType
  <2>4. rec' \in [REC -> RecType]  BY <1>1, <1>0, <2>3 DEF PInv, Types
  <2>5. QED  BY <2>1, <2>4 DEF Types
<1>3. Located'  BY <1>1, <1>0 DEF PInv, Types, Located, Inside, PeType, AtHost
<1>4. OwnRegisters' /\ RunsAllowed'
  BY <1>1, <1>0 DEF PInv, Types, OwnRegisters, RunsAllowed, AtHost, RecType
<1>5. RequestsNamePeers'  BY <1>1, <1>0 DEF PInv, Types, RequestsNamePeers, IsTarget, RecType
<1>6. QED  BY <1>2, <1>3, <1>4, <1>5 DEF PInv

\* What the handler of a call may leave in the REC of the calling PE.
Handled(r, new) ==
  /\ new \in RecType /\ new.regs = "own"
  /\ new.pending => /\ new.call.fid \in {"cpu_on", "affinity_info"}
                    /\ \E t \in REC : IsTarget(r, new.call.idx, t)

LEMMA ToRealmKeeps ==
  ASSUME PInv, NEW p \in PE, pe[p].at = "realm", NEW new, Handled(pe[p].rec, new),
         new.runnable, ~new.pending, ToRealm(p, new)
  PROVE  PInv'
<1>0. pe[p].rec \in REC /\ rec' = [rec EXCEPT ![pe[p].rec] = new] /\ UNCHANGED <<pe, ref>>
  BY DEF PInv, Located, Inside, ToRealm
<1>1. Types'  BY <1>0 DEF PInv, Types, Handled
<1>2. Located'  BY <1>0 DEF PInv, Located, Inside
<1>3. OwnRegisters' /\ RunsAllowed'
  BY <1>0 DEF PInv, Types, OwnRegisters, RunsAllowed, Handled
<1>4. RequestsNamePeers'  BY <1>0 DEF PInv, Types, RequestsNamePeers, IsTarget
<1>5. QED  BY <1>1, <1>2, <1>3, <1>4 DEF PInv

LEMMA ToHostKeeps ==
  ASSUME PInv, NEW p \in PE, pe[p].at = "realm", NEW new, Handled(pe[p].rec, new),
         ToHost(p, new)
  PROVE  PInv'
<1>0. /\ pe[p].rec \in REC /\ rec' = [rec EXCEPT ![pe[p].rec] = new] /\ ref' = ref
      /\ pe' = [pe EXCEPT ![p].at = "leave"]
  BY DEF PInv, Located, Inside, ToHost
<1>1. Types'  BY <1>0 DEF PInv, Types, Handled, PeType
<1>2. Located'  BY <1>0 DEF PInv, Types, Located, Inside, PeType
<1>3. OwnRegisters'  BY <1>0 DEF PInv, Types, OwnRegisters, Handled, PeType
<1>4. RunsAllowed'
  <2> SUFFICES ASSUME NEW q \in PE, pe'[q].at = "realm"
               PROVE  rec'[pe'[q].rec].runnable /\ ~rec'[pe'[q].rec].pending
    BY DEF RunsAllowed
  <2>1. q # p /\ pe'[q] = pe[q]  BY <1>0 DEF PInv, Types, PeType
  <2>2. pe[q].rec \in REC /\ pe[q].rec # pe[p].rec  BY <2>1 DEF PInv, Located, Inside
  <2>3. QED  BY <1>0, <2>1, <2>2 DEF PInv, Types, RunsAllowed
<1>5. RequestsNamePeers'  BY <1>0 DEF PInv, Types, RequestsNamePeers, IsTarget, Handled
<1>6. QED  BY <1>1, <1>2, <1>3, <1>4, <1>5 DEF PInv

LEMMA LocksKeep ==
  ASSUME PInv, NEW p \in PE, NEW c \in REC, NEW t \in REC,
         NEW s \in {"success", "denied", "other"}, PsciCompleteLocks(p, c, t, s)
  PROVE  PInv'
<1>1. Types'  BY DEF PInv, Types, PsciCompleteLocks, PeType
<1>2. Located'  BY DEF PInv, Types, Located, Inside, PsciCompleteLocks, PeType
<1>3. OwnRegisters' /\ RunsAllowed'
  BY DEF PInv, Types, OwnRegisters, RunsAllowed, PsciCompleteLocks, PeType
<1>4. RequestsNamePeers'  BY DEF PInv, RequestsNamePeers, PsciCompleteLocks, IsTarget
<1>5. QED  BY <1>1, <1>2, <1>3, <1>4 DEF PInv

\* What a completion that is not refused does to the two RECs: the caller, which nobody
\* runs, is answered; the target changes only when it is off and nobody runs it.
LEMMA CompletedShape ==
  ASSUME PInv, NEW c \in REC, NEW t \in REC, c # t, NEW s \in {"success", "denied", "other"},
         ~CompleteRefused(c, t, s), rec' = Completed(c, t, s)
  PROVE  /\ rec' \in [REC -> RecType]
         /\ \A r \in REC : r \notin {c, t} => rec'[r] = rec[r]
         /\ ref[c] = 0 /\ rec[c].pending /\ IsTarget(c, rec[c].call.idx, t)
         /\ ~rec'[c].pending /\ rec'[c].runnable = rec[c].runnable /\ rec'[c].regs = rec[c].regs
         /\ rec'[t].pending = rec[t].pending /\ rec'[t].call = rec[t].call
         /\ rec'[t].answer = rec[t].answer
         /\ \/ /\ rec[c].call.fid = "cpu_on" /\ rec'[c].answer = "success"
               /\ ref[t] = 0 /\ ~rec[t].runnable
               /\ rec'[t].regs = "reset" /\ rec'[t].runnable
            \/ /\ rec[c].call.fid = "affinity_info" /\ rec'[c].answer = "off"
               /\ ref[t] = 0 /\ ~rec[t].runnable /\ rec'[t] = rec[t]
            \/ rec'[c].answer \in {"already_on", "denied", "on"} /\ rec'[t] = rec[t]
<1>1. /\ ref[c] = 0 /\ rec[c].pending /\ RealmOf[c] = RealmOf[t] /\ rec[c].call.idx = IdxOf[t]
      /\ StatusAllowed(rec[c].call.fid, s) /\ rec[c].call.fid \in {"cpu_on", "affinity_info"}
  BY DEF CompleteRefused, PInv, Types, RequestsNamePeers
<1> DEFINE a == IF rec[c].call.fid = "cpu_on" THEN complete_psci_cpu_on(t, s)
                ELSE complete_psci_affinity_info(t)
<1>2. \/ rec[c].call.fid = "cpu_on" /\ a = "success" /\ ~TargetOn(t)
      \/ rec[c].call.fid = "affinity_info" /\ a = "off" /\ ~TargetOn(t)
      \/ a \in {"already_on", "denied", "on"}
  BY <1>1 DEF complete_psci_cpu_on, complete_psci_affinity_info
<1>3. rec' = [rec EXCEPT ![c] = [@ EXCEPT !.call = NoCall, !.answer = a, !.pending = FALSE],
                         ![t] = IF a = "success"
                                THEN [@ EXCEPT !.regs = "reset", !.runnable = TRUE] ELSE @]
  BY DEF Completed
<1>4. a \in {"success", "off", "already_on", "denied", "on"}  BY <1>2
<1> HIDE DEF a
<1>5. rec[c] \in RecType /\ rec[t] \in RecType /\ rec \in [REC -> RecType]  BY DEF PInv, Types
<1>6. rec'[c] = [rec[c] EXCEPT !.call = NoCall, !.answer = a, !.pending = FALSE]
  BY <1>3, <1>5
<1>7. rec'[t] = IF a = "success" THEN [rec[t] EXCEPT !.regs = "reset", !.runnable = TRUE] ELSE rec[t]
  BY <1>3, <1>5
<1>8. rec'[c] \in RecType /\ rec'[c].answer = a /\ ~rec'[c].pending
      /\ rec'[c].runnable = rec[c].runnable /\ rec'[c].regs = rec[c].regs
  <2>1. NoCall \in CallType  BY DEF NoCall, CallType
  <2>2. QED  BY <2>1, <1>4, <1>5, <1>6 DEF RecType
<1>9. /\ rec'[t] \in RecType /\ rec'[t].pending = rec[t].pending /\ rec'[t].call = rec[t].call
      /\ rec'[t].answer = rec[t].answer
      /\ a = "success" => rec'[t].regs = "reset" /\ rec'[t].runnable
      /\ a # "success" => rec'[t] = rec[t]
  BY <1>5, <1>7 DEF RecType
<1>10. DOMAIN rec' = REC /\ \A r \in REC : r \notin {c, t} => rec'[r] = rec[r]  BY <1>3, <1>5
<1>11. rec' \in [REC -> RecType]
  <2>1. rec' = [r \in REC |-> rec'[r]]  BY <1>3, <1>5
  <2>2. \A r \in REC : rec[r] \in RecType  BY <1>5
  <2>3. \A r \in REC : rec'[r] \in RecType  BY <2>2, <1>8, <1>9, <1>10
  <2>4. QED  BY <2>1, <2>3
<1>12. (ref[t] = 0 /\ ~rec[t].runnable) \/ TargetOn(t)  BY DEF TargetOn
<1>13. IsTarget(c, rec[c].call.idx, t)  BY <1>1 DEF IsTarget
<1>14. \/ /\ rec[c].call.fid = "cpu_on" /\ rec'[c].answer = "success"
          /\ ref[t] = 0 /\ ~rec[t].runnable
          /\ rec'[t].regs = "reset" /\ rec'[t].runnable
       \/ /\ rec[c].call.fid = "affinity_info" /\ rec'[c].answer = "off"
          /\ ref[t] = 0 /\ ~rec[t].runnable /\ rec'[t] = rec[t]
       \/ rec'[c].answer \in {"already_on", "denied", "on"} /\ rec'[t] = rec[t]
  BY <1>2, <1>8, <1>9, <1>12
<1>15. QED  BY <1>1, <1>8, <1>9, <1>10, <1>11, <1>13, <1>14

LEMMA CompleteKeeps ==
  ASSUME PInv, NEW p \in PE, psci_complete_request(p)
  PROVE  PInv'
<1> DEFINE c == pe[p].rec
           t == pe[p].target
           s == pe[p].status
<1>0. c \in REC /\ t \in REC /\ c # t /\ pe[p].at = "complete"
  BY DEF PInv, Located, psci_complete_request
<1>1. pe' = [pe EXCEPT ![p] = AtHost] /\ ref' = ref  BY DEF psci_complete_request
<1>2. Located'  BY <1>0, <1>1 DEF PInv, Types, Located, Inside, PeType, AtHost
<1>3. pe' \in [PE -> PeType] /\ ref' \in [REC -> {0, 1}]  BY <1>1 DEF PInv, Types, PeType, AtHost
<1>4. CASE CompleteRefused(c, t, s)
  <2>1. rec' = rec  BY <1>4 DEF psci_complete_request
  <2>2. QED  BY <2>1, <1>1, <1>2, <1>3
             DEF PInv, Types, OwnRegisters, RunsAllowed, RequestsNamePeers, IsTarget, AtHost
<1>5. CASE ~CompleteRefused(c, t, s)
  <2>1. rec' = Completed(c, t, s)  BY <1>5 DEF psci_complete_request
  <2>2. s \in {"success", "denied", "other"}
    BY <1>5 DEF CompleteRefused, StatusAllowed
  <2> HIDE DEF c, t, s
  <2>3. Types'  BY <2>1, <2>2, <1>0, <1>3, <1>5, CompletedShape DEF Types
  <2>4. ASSUME NEW q \in PE, pe'[q].at \in {"realm", "leave"}
        PROVE  /\ pe[q] = pe'[q] /\ pe[q].rec \in REC
               /\ rec'[pe[q].rec].regs = rec[pe[q].rec].regs
               /\ rec'[pe[q].rec].runnable = rec[pe[q].rec].runnable
               /\ rec'[pe[q].rec].pending = rec[pe[q].rec].pending
    <3>1. pe[q] = pe'[q]  BY <2>4, <1>1 DEF PInv, Types, AtHost
    <3>2. pe[q].rec \in REC /\ ref[pe[q].rec] = 1  BY <3>1, <2>4 DEF PInv, Located, Inside
    <3>3. QED  BY <3>1, <3>2, <2>1, <2>2, <1>0, <1>5, CompletedShape
  <2>5. OwnRegisters' /\ RunsAllowed'
    BY <2>4 DEF PInv, OwnRegisters, RunsAllowed
  <2>6. RequestsNamePeers'
    <3> SUFFICES ASSUME NEW r \in REC, rec'[r].pending
                 PROVE  /\ rec'[r].call.fid \in {"cpu_on", "affinity_info"}
                        /\ \E u \in REC : IsTarget(r, rec'[r].call.idx, u)
      BY DEF RequestsNamePeers, IsTarget
    <3>1. rec[r].pending /\ rec'[r].call = rec[r].call
      BY <2>1, <2>2, <1>0, <1>5, CompletedShape
    <3>2. QED  BY <3>1 DEF PInv, RequestsNamePeers
  <2>7. QED  BY <2>3, <2>5, <2>6, <1>2 DEF PInv
<1>6. QED  BY <1>4, <1>5

-----------------------------------------------------------------------------
\* The handlers leave a REC that PInv allows.
LEMMA HandlersAllowed ==
  ASSUME PInv, NEW p \in PE, pe[p].at = "realm", NEW r, r = pe[p].rec
  PROVE  /\ r \in REC /\ rec[r] \in RecType /\ rec[r].runnable /\ ~rec[r].pending
         /\ rec[r].regs = "own"
         /\ Answered(r) \in RecType /\ Handled(r, Answered(r)) /\ Answered(r).runnable
         /\ ~Answered(r).pending
         /\ Handled(r, [Answered(r) EXCEPT !.runnable = FALSE])
         /\ Handled(r, rec[r])
<1>1. /\ r \in REC /\ rec[r] \in RecType /\ rec[r].runnable /\ ~rec[r].pending
      /\ rec[r].regs = "own"
  BY DEF PInv, Types, Located, Inside, RunsAllowed, OwnRegisters
<1>2. NoCall \in CallType  BY DEF NoCall, CallType
<1>3. /\ Answered(r) \in RecType /\ Answered(r).runnable /\ ~Answered(r).pending
      /\ Answered(r).regs = "own"
  BY <1>1, <1>2 DEF Answered, RecType
<1>4. /\ [Answered(r) EXCEPT !.runnable = FALSE] \in RecType
      /\ ~[Answered(r) EXCEPT !.runnable = FALSE].pending
      /\ [Answered(r) EXCEPT !.runnable = FALSE].regs = "own"
  BY <1>3 DEF RecType
<1>5. QED  BY <1>1, <1>3, <1>4 DEF Handled

LEMMA RequestsAllowed ==
  ASSUME PInv, NEW p \in PE, pe[p].at = "realm", NEW r, r = pe[p].rec,
         NEW fid \in {"cpu_on", "affinity_info"}, NEW idx \in Nat,
         ~(idx >= rec_count(RealmOf[r])), idx # IdxOf[r],
         NEW call, call = [fid |-> fid, idx |-> idx]
  PROVE  /\ Handled(r, Requested(r, call))
         /\ Requested(r, call).pending /\ Requested(r, call).call = call
         /\ Requested(r, call).runnable = rec[r].runnable /\ Requested(r, call).regs = rec[r].regs
         /\ Requested(r, call).answer = rec[r].answer
         /\ \E t \in REC : IsTarget(r, idx, t)
<1>1. r \in REC /\ rec[r] \in RecType /\ rec[r].regs = "own"  BY HandlersAllowed
<1>2. rec_count(RealmOf[r]) \in Nat
  <2>1. IsFiniteSet({q \in REC : RealmOf[q] = RealmOf[r]})  BY PsciAssumption, FS_Subset
  <2>2. QED  BY <2>1, FS_CardinalityType DEF rec_count
<1>3. idx < rec_count(RealmOf[r])  BY <1>2
<1>4. PICK t \in REC : RealmOf[t] = RealmOf[r] /\ IdxOf[t] = idx  BY <1>1, <1>3, IndexNamesRec
<1>5. IsTarget(r, idx, t)  BY <1>4 DEF IsTarget
<1>6. call \in CallType /\ call.fid = fid /\ call.idx = idx  BY DEF CallType
<1>7. /\ Requested(r, call) \in RecType /\ Requested(r, call).regs = rec[r].regs
      /\ Requested(r, call).pending /\ Requested(r, call).call = call
      /\ Requested(r, call).runnable = rec[r].runnable
      /\ Requested(r, call).answer = rec[r].answer
  BY <1>1, <1>6 DEF Requested, RecType
<1>8. QED  BY <1>1, <1>5, <1>6, <1>7 DEF Handled

\* A call either goes back to the realm with an answer, or leaves with one of three results.
LEMMA CallCases ==
  ASSUME PInv, NEW p \in PE, handle_psci(p) \/ OtherExit(p), NEW r, r = pe[p].rec
  PROVE  /\ pe[p].at = "realm"
         /\ \/ ToRealm(p, Answered(r))
            \/ ToHost(p, Answered(r)) /\ UNCHANGED system_off
            \/ ToHost(p, [Answered(r) EXCEPT !.runnable = FALSE]) /\ UNCHANGED system_off
            \/ ToHost(p, rec[r]) /\ system_off' = system_off \cup {RealmOf[r]}
            \/ ToHost(p, rec[r]) /\ UNCHANGED system_off
            \/ \E fid \in {"cpu_on", "affinity_info"}, idx \in Nat :
                 /\ ~(idx >= rec_count(RealmOf[r])) /\ idx # IdxOf[r]
                 /\ ToHost(p, Requested(r, [fid |-> fid, idx |-> idx])) /\ UNCHANGED system_off
<1>1. pe[p].at = "realm"  BY DEF handle_psci, OtherExit
<1>2. 0..Cardinality(REC) \subseteq Nat  OBVIOUS
<1>3. CASE psci_query(p)  BY <1>1, <1>3 DEF psci_query
<1>4. CASE psci_cpu_suspend(p)  BY <1>1, <1>4 DEF psci_cpu_suspend
<1>5. CASE psci_cpu_off(p)  BY <1>1, <1>5 DEF psci_cpu_off
<1>6. ASSUME NEW idx \in 0..Cardinality(REC), NEW inpar \in BOOLEAN,
             psci_cpu_on(p, [fid |-> "cpu_on", idx |-> idx], inpar)
      PROVE  \/ ToRealm(p, Answered(r))
             \/ /\ ~(idx >= rec_count(RealmOf[r])) /\ idx # IdxOf[r]
                /\ ToHost(p, Requested(r, [fid |-> "cpu_on", idx |-> idx]))
                /\ UNCHANGED system_off
  BY <1>6 DEF psci_cpu_on
<1>7. ASSUME NEW idx \in 0..Cardinality(REC), NEW level \in 0..1,
             psci_affinity_info(p, [fid |-> "affinity_info", idx |-> idx], level)
      PROVE  \/ ToRealm(p, Answered(r))
             \/ /\ ~(idx >= rec_count(RealmOf[r])) /\ idx # IdxOf[r]
                /\ ToHost(p, Requested(r, [fid |-> "affinity_info", idx |-> idx]))
                /\ UNCHANGED system_off
  BY <1>7 DEF psci_affinity_info
<1>8. CASE psci_system_off_reset(p)  BY <1>1, <1>8 DEF psci_system_off_reset
<1>9. CASE OtherExit(p)  BY <1>1, <1>9 DEF OtherExit
<1>10. ASSUME NEW fid \in {"cpu_on", "affinity_info"}, NEW idx \in 0..Cardinality(REC),
              /\ ~(idx >= rec_count(RealmOf[r])) /\ idx # IdxOf[r]
              /\ ToHost(p, Requested(r, [fid |-> fid, idx |-> idx])) /\ UNCHANGED system_off
       PROVE  \E f \in {"cpu_on", "affinity_info"}, i \in Nat :
                 /\ ~(i >= rec_count(RealmOf[r])) /\ i # IdxOf[r]
                 /\ ToHost(p, Requested(r, [fid |-> f, idx |-> i])) /\ UNCHANGED system_off
  BY <1>2, <1>10, Zenon
<1>11. QED  BY <1>1, <1>3, <1>4, <1>5, <1>6, <1>7, <1>8, <1>9, <1>10, Zenon DEF handle_psci

\* The facts above are kept by every step.
LEMMA PInvInductive ==
  ASSUME PInv, [PsciNext]_psciVars
  PROVE  PInv'
<1>1. ASSUME NEW p \in PE, handle_psci(p) \/ OtherExit(p) PROVE PInv'
  <2> DEFINE r == pe[p].rec
  <2>1. pe[p].at = "realm"  BY <1>1, CallCases
  <2>2. CASE ToRealm(p, Answered(r))  BY <2>1, <2>2, HandlersAllowed, ToRealmKeeps
  <2>3. ASSUME NEW new, Handled(r, new), ToHost(p, new) PROVE PInv'
    BY <2>1, <2>3, ToHostKeeps
  <2>4. ASSUME NEW fid \in {"cpu_on", "affinity_info"}, NEW idx \in Nat,
               ~(idx >= rec_count(RealmOf[r])), idx # IdxOf[r],
               ToHost(p, Requested(r, [fid |-> fid, idx |-> idx]))
        PROVE  PInv'
    <3>1. Handled(r, Requested(r, [fid |-> fid, idx |-> idx]))  BY <2>1, <2>4, RequestsAllowed
    <3>2. QED  BY <3>1, <2>3, <2>4
  <2>5. /\ Handled(r, Answered(r)) /\ Handled(r, rec[r])
        /\ Handled(r, [Answered(r) EXCEPT !.runnable = FALSE])
    BY <2>1, HandlersAllowed
  <2> HIDE DEF r
  <2>6. QED  BY <1>1, <2>2, <2>3, <2>4, <2>5, CallCases, Zenon DEF r
<1>2. CASE UNCHANGED psciVars
  BY <1>2 DEF psciVars, PInv, Types, Located, Inside, OwnRegisters, RunsAllowed, RequestsNamePeers,
              IsTarget
<1>3. QED
  BY <1>1, <1>2, EnterKeeps, ChecksKeep, LeaveKeeps, LocksKeep, CompleteKeeps DEF PsciNext

LEMMA PInvInitially == PsciInit => PInv
<1> SUFFICES ASSUME PsciInit PROVE PInv  OBVIOUS
<1>1. AtHost \in PeType  BY DEF AtHost, PeType
<1>2. NoCall \in CallType  BY DEF NoCall, CallType
<1>3. \A r \in REC : [runnable |-> r \in Startable, pending |-> FALSE, regs |-> "own",
                      call |-> NoCall, answer |-> "none"] \in RecType
  BY <1>2 DEF RecType
<1>4. Types  BY <1>1, <1>3 DEF PsciInit, Types
<1>5. \A p \in PE : pe[p].at = "host"  BY DEF PsciInit, AtHost
<1>6. \A r \in REC : ~rec[r].pending  BY DEF PsciInit
<1>7. QED  BY <1>4, <1>5, <1>6
           DEF PInv, Located, Inside, OwnRegisters, RunsAllowed, RequestsNamePeers

-----------------------------------------------------------------------------
\* The peer of a request is the REC its index names.
LEMMA PeerIs ==
  ASSUME NEW r \in REC, NEW idx, NEW t, IsTarget(r, idx, t)
  PROVE  Peer(r, idx) = t
BY PsciAssumption DEF Peer, IsTarget

\* A PE that enters or leaves the realm changes the set of running vCPUs by its REC.
LEMMA RunningChanges ==
  ASSUME PInv, NEW p \in PE, NEW at, pe' = [pe EXCEPT ![p].at = at], Inside(p)
  PROVE  /\ pe[p].rec \in REC
         /\ at = "realm" => RunningBar' = RunningBar \cup {pe[p].rec}
         /\ at # "realm" => RunningBar' = RunningBar \ {pe[p].rec}
         /\ pe[p].at = "realm" <=> pe[p].rec \in RunningBar
<1>1. pe[p].rec \in REC  BY DEF PInv, Located
<1>2. /\ \A q \in PE : q # p => pe'[q] = pe[q]
      /\ pe'[p].at = at /\ pe'[p].rec = pe[p].rec
  BY DEF PInv, Types, PeType
<1>3. \A q \in PE : q # p /\ pe[q].at = "realm" => pe[q].rec # pe[p].rec
  BY DEF PInv, Located, Inside
<1>4. at = "realm" => RunningBar' = RunningBar \cup {pe[p].rec}
  BY <1>1, <1>2, <1>3 DEF RunningBar
<1>5. at # "realm" => RunningBar' = RunningBar \ {pe[p].rec}
  BY <1>1, <1>2, <1>3 DEF RunningBar
<1>6. QED  BY <1>1, <1>3, <1>4, <1>5 DEF RunningBar

\* Nothing that the abstract specification sees.
LEMMA Stutters ==
  ASSUME PowerBar' = PowerBar, RunningBar' = RunningBar, RequestBar' = RequestBar,
         AnswerBar' = AnswerBar, system_off' = system_off
  PROVE  [Power!Next]_(Power!vars)
BY DEF Power!vars

LEMMA EnterSimulates ==
  ASSUME PInv, NEW p \in PE, NEW r \in REC, RecEnter(p, r)
  PROVE  [Power!Next]_(Power!vars)
<1>1. RunningBar' = RunningBar  BY DEF PInv, Types, PeType, RecEnter, RunningBar
<1>2. UNCHANGED <<rec, system_off>>  BY DEF RecEnter
<1>3. QED  BY <1>1, <1>2, Stutters DEF PowerBar, RequestBar, AnswerBar

LEMMA LocksSimulate ==
  ASSUME PInv, NEW p \in PE, NEW c \in REC, NEW t \in REC,
         NEW s \in {"success", "denied", "other"}, PsciCompleteLocks(p, c, t, s)
  PROVE  [Power!Next]_(Power!vars)
<1>1. RunningBar' = RunningBar  BY DEF PInv, Types, PeType, PsciCompleteLocks, RunningBar
<1>2. UNCHANGED <<rec, system_off>>  BY DEF PsciCompleteLocks
<1>3. QED  BY <1>1, <1>2, Stutters DEF PowerBar, RequestBar, AnswerBar

LEMMA ChecksSimulate ==
  ASSUME PInv, NEW p \in PE, RecEnterChecks(p)
  PROVE  [Power!Next]_(Power!vars)
<1> DEFINE r == pe[p].rec
<1>0. r \in REC /\ pe[p].at = "check" /\ Inside(p) /\ rec[r] \in RecType
  BY DEF PInv, Types, Located, Inside, RecEnterChecks
<1>1. CASE MayRun(r)
  <2>1. /\ pe' = [pe EXCEPT ![p].at = "realm"] /\ rec' = [rec EXCEPT ![r].regs = "own"]
        /\ system_off' = system_off
    BY <1>1 DEF RecEnterChecks
  <2>2. rec[r].runnable /\ ~rec[r].pending /\ RealmOf[r] \notin system_off  BY <1>1 DEF MayRun
  <2>3. RunningBar' = RunningBar \cup {r} /\ r \notin RunningBar  BY <2>1, <1>0, RunningChanges
  <2>4. /\ \A q \in REC : q # r => rec'[q] = rec[q]
        /\ rec'[r].regs = "own" /\ rec'[r].runnable = rec[r].runnable
        /\ rec'[r].pending = rec[r].pending /\ rec'[r].call = rec[r].call
        /\ rec'[r].answer = rec[r].answer
    BY <2>1, <1>0 DEF PInv, Types, RecType
  <2>5. RequestBar' = RequestBar /\ AnswerBar' = AnswerBar
    BY <2>4 DEF RequestBar, AnswerBar
  <2>6. PowerBar[r] # "off" /\ PowerBar' = [PowerBar EXCEPT ![r] = "on"]
    BY <2>2, <2>4, <1>0 DEF PowerBar
  <2>7. RequestBar[r] = Power!NoRequest  BY <2>2, <1>0 DEF RequestBar, Power!NoRequest
  <2> HIDE DEF r
  <2>8. Power!Start(r)
    BY <2>1, <2>2, <2>3, <2>5, <2>6, <2>7 DEF Power!Start
  <2>9. QED  BY <2>8, <1>0 DEF Power!Next
<1>2. CASE ~MayRun(r)
  <2>1. pe' = [pe EXCEPT ![p] = AtHost] /\ UNCHANGED <<rec, system_off>>
    BY <1>2 DEF RecEnterChecks
  <2>2. RunningBar' = RunningBar  BY <2>1, <1>0 DEF PInv, Types, RunningBar, AtHost
  <2>3. QED  BY <2>1, <2>2, Stutters DEF PowerBar, RequestBar, AnswerBar
<1>3. QED  BY <1>1, <1>2

LEMMA LeaveSimulates ==
  ASSUME PInv, NEW p \in PE, RecLeave(p)
  PROVE  [Power!Next]_(Power!vars)
<1> DEFINE r == pe[p].rec
<1>0. r \in REC /\ pe[p].at = "leave" /\ rec[r] \in RecType /\ rec[r].regs = "own"
  BY DEF PInv, Types, Located, Inside, OwnRegisters, RecLeave
<1>1. /\ pe' = [pe EXCEPT ![p] = AtHost] /\ rec' = [rec EXCEPT ![r].regs = "own"]
      /\ system_off' = system_off
  BY DEF RecLeave
<1>2. rec' = rec
  <2>1. [rec[r] EXCEPT !.regs = "own"] = rec[r]  BY <1>0 DEF RecType
  <2>2. QED  BY <2>1, <1>0, <1>1 DEF PInv, Types
<1>3. RunningBar' = RunningBar  BY <1>0, <1>1 DEF PInv, Types, RunningBar, AtHost
<1>4. QED  BY <1>1, <1>2, <1>3, Stutters DEF PowerBar, RequestBar, AnswerBar

\* What the mapping shows of a handler that leaves `new` in the REC r.
LEMMA HandlerSeen ==
  ASSUME PInv, NEW r \in REC, NEW new \in RecType, rec' = [rec EXCEPT ![r] = new]
  PROVE  /\ PowerBar' = [PowerBar EXCEPT ![r] = IF ~new.runnable THEN "off"
                                                ELSE IF new.regs = "reset" THEN "fresh" ELSE "on"]
         /\ RequestBar' = [RequestBar EXCEPT ![r] =
               IF new.pending THEN [kind |-> new.call.fid, target |-> Peer(r, new.call.idx)]
               ELSE [kind |-> "none", target |-> Nobody]]
         /\ AnswerBar' = [AnswerBar EXCEPT ![r] = new.answer]
<1>1. rec'[r] = new /\ \A q \in REC : q # r => rec'[q] = rec[q]  BY DEF PInv, Types
<1>2. PowerBar' = [PowerBar EXCEPT ![r] = IF ~new.runnable THEN "off"
                                          ELSE IF new.regs = "reset" THEN "fresh" ELSE "on"]
  <2>1. PowerBar'[r] = IF ~new.runnable THEN "off" ELSE IF new.regs = "reset" THEN "fresh" ELSE "on"
    BY <1>1 DEF PowerBar
  <2>2. \A q \in REC : q # r => PowerBar'[q] = PowerBar[q]  BY <1>1 DEF PowerBar
  <2>3. PowerBar = [q \in REC |-> PowerBar[q]] /\ PowerBar' = [q \in REC |-> PowerBar'[q]]
    BY DEF PowerBar
  <2>4. QED  BY <2>1, <2>2, <2>3
<1>3. RequestBar' = [RequestBar EXCEPT ![r] =
               IF new.pending THEN [kind |-> new.call.fid, target |-> Peer(r, new.call.idx)]
               ELSE [kind |-> "none", target |-> Nobody]]
  <2> DEFINE seen == IF new.pending THEN [kind |-> new.call.fid, target |-> Peer(r, new.call.idx)]
                     ELSE [kind |-> "none", target |-> Nobody]
  <2>1. RequestBar'[r] = seen  BY <1>1 DEF RequestBar, Peer
  <2>2. \A q \in REC : q # r => RequestBar'[q] = RequestBar[q]  BY <1>1 DEF RequestBar
  <2>3. RequestBar = [q \in REC |-> RequestBar[q]] /\ RequestBar' = [q \in REC |-> RequestBar'[q]]
    BY DEF RequestBar
  <2> HIDE DEF seen
  <2>4. RequestBar' = [RequestBar EXCEPT ![r] = seen]  BY <2>1, <2>2, <2>3
  <2>5. QED  BY <2>4 DEF seen
<1>4. AnswerBar' = [AnswerBar EXCEPT ![r] = new.answer]
  <2>1. AnswerBar'[r] = new.answer /\ \A q \in REC : q # r => AnswerBar'[q] = AnswerBar[q]
    BY <1>1 DEF AnswerBar
  <2>2. AnswerBar = [q \in REC |-> AnswerBar[q]] /\ AnswerBar' = [q \in REC |-> AnswerBar'[q]]
    BY DEF AnswerBar
  <2>3. QED  BY <2>1, <2>2
<1>5. QED  BY <1>2, <1>3, <1>4

LEMMA CallsSimulate ==
  ASSUME PInv, NEW p \in PE, handle_psci(p) \/ OtherExit(p)
  PROVE  [Power!Next]_(Power!vars)
<1> DEFINE r == pe[p].rec
<1>0. /\ pe[p].at = "realm" /\ Inside(p) /\ r \in REC /\ rec[r] \in RecType
      /\ rec[r].runnable /\ ~rec[r].pending /\ rec[r].regs = "own"
      /\ Answered(r) \in RecType /\ Handled(r, [Answered(r) EXCEPT !.runnable = FALSE])
  BY CallCases, HandlersAllowed DEF Inside
<1>1. r \in RunningBar  BY <1>0 DEF RunningBar
<1>2. ASSUME NEW new, ToHost(p, new)
      PROVE  RunningBar' = RunningBar \ {r} /\ rec' = [rec EXCEPT ![r] = new]
  <2>1. pe' = [pe EXCEPT ![p].at = "leave"] /\ rec' = [rec EXCEPT ![r] = new]  BY <1>2 DEF ToHost
  <2>2. /\ "leave" # "realm" => RunningBar' = RunningBar \ {pe[p].rec}
    BY <2>1, <1>0, RunningChanges
  <2>3. QED  BY <2>1, <2>2
<1>3. /\ Answered(r).runnable /\ ~Answered(r).pending /\ Answered(r).regs = "own"
      /\ Answered(r).answer = "none"
  BY <1>0 DEF Answered, RecType
<1>4. /\ PowerBar[r] = "on" /\ RequestBar[r] = [kind |-> "none", target |-> Nobody]
      /\ AnswerBar[r] = rec[r].answer
      /\ [PowerBar EXCEPT ![r] = "on"] = PowerBar
      /\ [RequestBar EXCEPT ![r] = [kind |-> "none", target |-> Nobody]] = RequestBar
      /\ [AnswerBar EXCEPT ![r] = rec[r].answer] = AnswerBar
  BY <1>0 DEF PowerBar, RequestBar, AnswerBar
<1>5. ASSUME rec' = [rec EXCEPT ![r] = Answered(r)], system_off' = system_off,
             RunningBar' \in {RunningBar, RunningBar \ {r}}
      PROVE  Power!Call(r)
  <2>1. /\ PowerBar' = PowerBar /\ RequestBar' = RequestBar
        /\ AnswerBar' = [AnswerBar EXCEPT ![r] = "none"]
    <3> DEFINE new == Answered(r)
    <3>1. new \in RecType /\ new.runnable /\ ~new.pending /\ new.regs = "own" /\ new.answer = "none"
      BY <1>0, <1>3
    <3>2. rec' = [rec EXCEPT ![r] = new]  BY <1>5
    <3>0. r \in REC  BY <1>0
    <3> HIDE DEF new, r
    <3>3. /\ PowerBar' = [PowerBar EXCEPT ![r] = "on"]
          /\ RequestBar' = [RequestBar EXCEPT ![r] = [kind |-> "none", target |-> Nobody]]
          /\ AnswerBar' = [AnswerBar EXCEPT ![r] = "none"]
      <4>1. /\ PowerBar' = [PowerBar EXCEPT ![r] = IF ~new.runnable THEN "off"
                                                 ELSE IF new.regs = "reset" THEN "fresh" ELSE "on"]
            /\ RequestBar' = [RequestBar EXCEPT ![r] =
                  IF new.pending THEN [kind |-> new.call.fid, target |-> Peer(r, new.call.idx)]
                  ELSE [kind |-> "none", target |-> Nobody]]
            /\ AnswerBar' = [AnswerBar EXCEPT ![r] = new.answer]
        BY <3>0, <3>1, <3>2, HandlerSeen, Zenon
      <4>2. QED  BY <4>1, <3>1
    <3>4. QED  BY <3>3, <1>4
  <2> HIDE DEF r
  <2>2. QED  BY <2>1, <1>1, <1>5 DEF Power!Call
<1>6. CASE ToRealm(p, Answered(r))
  <2>1. RunningBar' = RunningBar /\ rec' = [rec EXCEPT ![r] = Answered(r)] /\ system_off' = system_off
    BY <1>6 DEF ToRealm, RunningBar
  <2>2. QED  BY <2>1, <1>0, <1>5 DEF Power!Next
<1>7. CASE ToHost(p, Answered(r)) /\ UNCHANGED system_off
  <2>1. Power!Call(r)  BY <1>2, <1>5, <1>7
  <2>2. QED  BY <2>1, <1>0 DEF Power!Next
<1>8. CASE ToHost(p, [Answered(r) EXCEPT !.runnable = FALSE]) /\ UNCHANGED system_off
  <2> DEFINE new == [Answered(r) EXCEPT !.runnable = FALSE]
  <2>1. new \in RecType /\ ~new.runnable /\ ~new.pending /\ new.answer = "none"
    BY <1>0, <1>3 DEF RecType
  <2>2. rec' = [rec EXCEPT ![r] = new] /\ RunningBar' = RunningBar \ {r}  BY <1>2, <1>8
  <2> HIDE DEF new
  <2>3. /\ PowerBar' = [PowerBar EXCEPT ![r] = "off"] /\ RequestBar' = RequestBar
        /\ AnswerBar' = [AnswerBar EXCEPT ![r] = "none"]
    BY <2>1, <2>2, <1>0, <1>4, HandlerSeen
  <2> HIDE DEF r
  <2>4. Power!TurnOff(r)  BY <2>2, <2>3, <1>1, <1>8 DEF Power!TurnOff
  <2>5. QED  BY <2>4, <1>0 DEF Power!Next
<1>9. ASSUME ToHost(p, rec[r])
      PROVE  /\ PowerBar' = PowerBar /\ RequestBar' = RequestBar /\ AnswerBar' = AnswerBar
             /\ RunningBar' = RunningBar \ {r}
  BY <1>0, <1>2, <1>4, <1>9, HandlerSeen
<1>10. CASE ToHost(p, rec[r]) /\ system_off' = system_off \cup {RealmOf[r]}
  <2> HIDE DEF r
  <2>1. Power!StopRealm(r)  BY <1>1, <1>9, <1>10 DEF Power!StopRealm
  <2>2. QED  BY <2>1, <1>0 DEF Power!Next
<1>11. CASE ToHost(p, rec[r]) /\ UNCHANGED system_off
  <2> HIDE DEF r
  <2>1. Power!Pause(r)  BY <1>1, <1>9, <1>11 DEF Power!Pause
  <2>2. QED  BY <2>1, <1>0 DEF Power!Next
<1>12. ASSUME NEW fid \in {"cpu_on", "affinity_info"}, NEW idx \in Nat,
              ~(idx >= rec_count(RealmOf[r])), idx # IdxOf[r],
              ToHost(p, Requested(r, [fid |-> fid, idx |-> idx])), UNCHANGED system_off
       PROVE  [Power!Next]_(Power!vars)
  <2> DEFINE call == [fid |-> fid, idx |-> idx]
             new == Requested(r, call)
  <2>1. /\ new \in RecType /\ new.pending /\ new.call = call /\ new.runnable /\ new.regs = "own"
        /\ new.answer = rec[r].answer /\ \E t \in REC : IsTarget(r, idx, t)
    BY <1>0, <1>12, RequestsAllowed DEF Handled
  <2>2. PICK t \in REC : IsTarget(r, idx, t)  BY <2>1
  <2>3. rec' = [rec EXCEPT ![r] = new] /\ RunningBar' = RunningBar \ {r}  BY <1>2, <1>12
  <2>4. call.fid = fid /\ call.idx = idx /\ Peer(r, idx) = t  BY <2>2, <1>0, PeerIs
  <2> HIDE DEF new, call
  <2>5. /\ PowerBar' = PowerBar /\ AnswerBar' = AnswerBar
        /\ RequestBar' = [RequestBar EXCEPT ![r] = [kind |-> fid, target |-> t]]
    <3>0. r \in REC  BY <1>0
    <3> HIDE DEF r
    <3>1. /\ PowerBar' = [PowerBar EXCEPT ![r] = IF ~new.runnable THEN "off"
                                                ELSE IF new.regs = "reset" THEN "fresh" ELSE "on"]
          /\ RequestBar' = [RequestBar EXCEPT ![r] =
                IF new.pending THEN [kind |-> new.call.fid, target |-> Peer(r, new.call.idx)]
                ELSE [kind |-> "none", target |-> Nobody]]
          /\ AnswerBar' = [AnswerBar EXCEPT ![r] = new.answer]
      BY <3>0, <2>1, <2>3, HandlerSeen, Zenon
    <3>2. new.call.fid = fid /\ Peer(r, new.call.idx) = t  BY <2>1, <2>4
    <3>3. QED  BY <3>1, <3>2, <2>1, <1>4
  <2> HIDE DEF r
  <2>6. Power!Ask(r, fid, t)  BY <2>2, <2>3, <2>5, <1>1, <1>12 DEF Power!Ask, IsTarget
  <2>7. QED  BY <2>6, <1>0 DEF Power!Next
<1>13. QED  BY <1>6, <1>7, <1>8, <1>10, <1>11, <1>12, CallCases

LEMMA CompleteSimulates ==
  ASSUME PInv, NEW p \in PE, psci_complete_request(p)
  PROVE  [Power!Next]_(Power!vars)
<1> DEFINE c == pe[p].rec
           t == pe[p].target
           s == pe[p].status
<1>0. c \in REC /\ t \in REC /\ c # t /\ pe[p].at = "complete"
  BY DEF PInv, Located, psci_complete_request
<1>1. pe' = [pe EXCEPT ![p] = AtHost] /\ system_off' = system_off  BY DEF psci_complete_request
<1>2. RunningBar' = RunningBar  BY <1>0, <1>1 DEF PInv, Types, RunningBar, AtHost
<1>3. CASE CompleteRefused(c, t, s)
  <2>1. rec' = rec  BY <1>3 DEF psci_complete_request
  <2>2. QED  BY <2>1, <1>1, <1>2, Stutters DEF PowerBar, RequestBar, AnswerBar
<1>4. CASE ~CompleteRefused(c, t, s)
  <2>1. rec' = Completed(c, t, s)  BY <1>4 DEF psci_complete_request
  <2>2. s \in {"success", "denied", "other"}  BY <1>4 DEF CompleteRefused, StatusAllowed
  <2> HIDE DEF c, t, s
  <2>3. /\ rec' \in [REC -> RecType]
        /\ \A r \in REC : r \notin {c, t} => rec'[r] = rec[r]
        /\ ref[c] = 0 /\ rec[c].pending /\ IsTarget(c, rec[c].call.idx, t)
        /\ ~rec'[c].pending /\ rec'[c].runnable = rec[c].runnable /\ rec'[c].regs = rec[c].regs
        /\ rec'[t].pending = rec[t].pending /\ rec'[t].call = rec[t].call
        /\ rec'[t].answer = rec[t].answer
    BY <2>1, <2>2, <1>0, <1>4, CompletedShape
  <2>4. /\ AnswerBar' = [AnswerBar EXCEPT ![c] = rec'[c].answer]
        /\ RequestBar' = [RequestBar EXCEPT ![c] = Power!NoRequest]
    BY <2>3, <1>0 DEF AnswerBar, RequestBar, Power!NoRequest
  <2>5. /\ rec'[t] = rec[t] => PowerBar' = PowerBar
        /\ rec'[t].runnable /\ rec'[t].regs = "reset" => PowerBar' = [PowerBar EXCEPT ![t] = "fresh"]
        /\ ~rec[t].runnable => PowerBar[t] = "off"
    <3>1. \A r \in REC : r # t => PowerBar'[r] = PowerBar[r]  BY <2>3 DEF PowerBar
    <3>2. rec'[t] = rec[t] => PowerBar'[t] = PowerBar[t]  BY <1>0 DEF PowerBar
    <3>3. rec'[t].runnable /\ rec'[t].regs = "reset" => PowerBar'[t] = "fresh"  BY <1>0 DEF PowerBar
    <3>4. ~rec[t].runnable => PowerBar[t] = "off"  BY <1>0 DEF PowerBar
    <3>5. PowerBar = [r \in REC |-> PowerBar[r]] /\ PowerBar' = [r \in REC |-> PowerBar'[r]]
      BY DEF PowerBar
    <3> HIDE DEF c, t
    <3>6. QED  BY <3>1, <3>2, <3>3, <3>4, <3>5, <1>0
  <2>6. RequestBar[c] = [kind |-> rec[c].call.fid, target |-> t]
    BY <2>3, <1>0, PeerIs DEF RequestBar
  <2>7. RequestBar[c].kind = rec[c].call.fid /\ RequestBar[c].target = t  BY <2>6
  <2>8. ref[t] = 0 => t \notin RunningBar  BY <1>0 DEF PInv, Located, Inside, RunningBar
  <2>9. CASE /\ rec[c].call.fid = "cpu_on" /\ rec'[c].answer = "success"
             /\ ref[t] = 0 /\ ~rec[t].runnable
             /\ rec'[t].regs = "reset" /\ rec'[t].runnable
    <3>1. Power!TurnOn(c)
      BY <2>4, <2>5, <2>7, <2>8, <2>9, <1>1, <1>2 DEF Power!TurnOn
    <3>2. QED  BY <3>1, <1>0 DEF Power!Next
  <2>10. CASE /\ rec[c].call.fid = "affinity_info" /\ rec'[c].answer = "off"
              /\ ref[t] = 0 /\ ~rec[t].runnable /\ rec'[t] = rec[t]
    <3>1. Power!AnswerOff(c)
      BY <2>4, <2>5, <2>7, <2>8, <2>10, <1>1, <1>2 DEF Power!AnswerOff
    <3>2. QED  BY <3>1, <1>0 DEF Power!Next
  <2>11. CASE rec'[c].answer \in {"already_on", "denied", "on"} /\ rec'[t] = rec[t]
    <3>1. RequestBar[c] # Power!NoRequest
      <4>1. rec[c].call.fid # "none"  BY <2>3, <1>0 DEF PInv, RequestsNamePeers
      <4>2. QED  BY <4>1, <2>7 DEF Power!NoRequest
    <3>2. Power!Decline(c)
      BY <3>1, <2>4, <2>5, <2>11, <1>1, <1>2 DEF Power!Decline
    <3>3. QED  BY <3>2, <1>0 DEF Power!Next
  <2>12. QED
    BY <2>1, <2>2, <2>9, <2>10, <2>11, <1>0, <1>4, CompletedShape
<1>5. QED  BY <1>3, <1>4

\* RMI_REC_ENTER, the PSCI calls and RMI_PSCI_COMPLETE, in every interleaving, do what
\* VcpuPower allows: a vCPU that is off or waits does not run, only itself turns it off,
\* only a granted request of a peer turns it on, with fresh registers, and an answer is true.
THEOREM PsciImplementsVcpuPower == PsciSpec => PowerSpec
<1>1. PsciInit => Power!Init
  BY DEF PsciInit, AtHost, Power!Init, Power!NoRequest, PowerBar, RunningBar, RequestBar, AnswerBar
<1>2. PInv /\ [PsciNext]_psciVars => [Power!Next]_(Power!vars)
  <2> SUFFICES ASSUME PInv, [PsciNext]_psciVars PROVE [Power!Next]_(Power!vars)  OBVIOUS
  <2>1. CASE UNCHANGED psciVars
    BY <2>1, Stutters DEF psciVars, PowerBar, RunningBar, RequestBar, AnswerBar
  <2>2. QED
    BY <2>1, EnterSimulates, ChecksSimulate, LeaveSimulates, CallsSimulate, LocksSimulate,
       CompleteSimulates DEF PsciNext
<1>3. PInv /\ [PsciNext]_psciVars => PInv'  BY PInvInductive
<1>4. QED  BY <1>1, <1>2, <1>3, PInvInitially, PTL DEF PsciSpec, PowerSpec, Power!Spec
=============================================================================
