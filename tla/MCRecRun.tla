------------------------------ MODULE MCRecRun ------------------------------
(***************************************************************************)
(* Two systems in one run.  In mode "exits" a REC without SVE meets every  *)
(* exit of the realm, every timing of the timer and every state of the     *)
(* host call page.  In mode "simd" two PEs run an SVE realm and a realm    *)
(* with a PMU and use the SIMD registers in every order.                   *)
(***************************************************************************)
EXTENDS RecRun

CONSTANTS p1, p2, r1, r2

VARIABLE mode

(* The accesses of the realm: every kind of data abort, external aborts of  *)
(* both severities, a load to XZR and an access from AArch32.               *)
MCAbort(ext, area, isv, wr, xzr, aarch32) ==
  [ext |-> ext, area |-> area, isv |-> isv, wr |-> wr, xzr |-> xzr, aarch32 |-> aarch32]
MCAborts ==
  {MCAbort("no", a, i, w, FALSE, FALSE) :
     a \in {"outside", "empty", "par", "unprot"}, i \in BOOLEAN, w \in BOOLEAN}
  \cup {MCAbort(e, "par", FALSE, FALSE, FALSE, FALSE) : e \in {"UER", "UEO"}}
  \cup {MCAbort("no", "unprot", TRUE, FALSE, TRUE, FALSE),
        MCAbort("no", "unprot", TRUE, FALSE, FALSE, TRUE)}
MCSysregs ==
  {[reg |-> "icc", wr |-> TRUE, xzr |-> FALSE], [reg |-> "id", wr |-> FALSE, xzr |-> FALSE],
   [reg |-> "other", wr |-> FALSE, xzr |-> FALSE], [reg |-> "other", wr |-> TRUE, xzr |-> TRUE]}
MCEnters == [sea : BOOLEAN, mmio : BOOLEAN]
MCNoFlags == {[sea |-> FALSE, mmio |-> FALSE]}

Lr(v) == [valid |-> TRUE, res0 |-> FALSE, vintid |-> v]

MCLrs == {<<Lr(1), Lr(2), Lr(1)>>, <<Lr(1)>>, <<Lr(0)>>}
MCCalls == {[hint |-> TRUE, sm |-> FALSE, zcr |-> 2], [hint |-> FALSE, sm |-> TRUE, zcr |-> 1]}

One == INSTANCE RecRun WITH
  PE <- {p1}, REC <- {r2}, SveRec <- {}, Aborts <- MCAborts, Sysregs <- MCSysregs, Simds <- {},
  Events <- Causes \ {"rsi_fpu"}, Pages <- PageStates, Enters <- MCEnters, NsCalls <- {QuietCall},
  LrLists <- {<<>>}, TimerCtls <- BOOLEAN, NsFaults <- {FALSE}

ASSUME OneConfigured == One!Configured

MCInit == mode \in {"exits", "simd"} /\ Init

MCNext ==
  /\ \/ mode = "exits" /\ One!Next
     \/ mode = "simd" /\ Next
  /\ UNCHANGED mode

MCSpec ==
  /\ MCInit
  /\ [][MCNext]_<<mode, vars>>
  /\ mode = "exits" => One!RmmFairness /\ One!HostFairness

\* The liveness properties of RecRun, in mode "exits".
InterruptReturns == mode = "exits" => One!HostInterruptReturns
TimerArrives == mode = "exits" => One!TimerReachesHost

\* TimerLevelReported, in mode "exits".
TimerReported == [][mode = "exits" => One!EntryKnowsLevel]_vars
=============================================================================
