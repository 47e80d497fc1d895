------------------------------ MODULE RealmIpa -----------------------------
(***************************************************************************)
(* What a realm and its host are promised about one realm's address space: *)
(* a flat map from pages to what backs them, with no tables, levels or     *)
(* blocks in it.  Rtt, where the map is a tree of tables, implements it;   *)
(* its structural commands (RTT_CREATE, RTT_FOLD) and every refused        *)
(* command leave the map as it is.  An action that may touch many pages    *)
(* says what may happen to each of them.                                   *)
(***************************************************************************)
EXTENDS Integers

CONSTANTS
  NumPages,      \* size of the address space in pages
  NumProtected   \* size of its protected lower part

Pages == 0..(NumPages - 1)

Protected == 0..(NumProtected - 1)

VARIABLES
  view,       \* page -> [hipas, ripas, pa, attr]
  state,      \* NEW or ACTIVE
  running,    \* a PE is inside the REC
  req         \* the RIPAS change the realm has asked for

vars == <<view, state, running, req>>

NoMapping(h, r) == [hipas |-> h, ripas |-> r, pa |-> 0, attr |-> 0]

NoRequest == [base |-> 0, top |-> 0, addr |-> 0, ripas |-> "empty", change_destroyed |-> FALSE]

Init ==
  /\ view = [p \in Pages |-> NoMapping(IF p \in Protected THEN "unassigned" ELSE "unassigned_ns", "empty")]
  /\ state = "NEW"
  /\ running = FALSE
  /\ req = NoRequest

\* The pages a step changes; S in the actions below.
Changed == {p \in Pages : view'[p] # view[p]}

\* Pages of a NEW realm become RAM: the measured initial layout.
Populate(S) ==
  /\ state = "NEW"
  /\ \A p \in S :
       view[p] = NoMapping("unassigned", "empty") /\ view'[p] = NoMapping("unassigned", "ram")
  /\ UNCHANGED <<state, running, req>>

\* A page gets a granule that is behind no other page; only in a NEW realm may that make it RAM.
Give(S, p) ==
  /\ view[p].hipas = "unassigned" /\ view'[p].hipas = "assigned"
  /\ view'[p].ripas \in {view[p].ripas} \cup (IF state = "NEW" THEN {"ram"} ELSE {})
  /\ \A q \in Protected : view[q].hipas = "assigned" => view[q].pa # view'[p].pa
  /\ S = {p}
  /\ UNCHANGED <<state, running, req>>

\* The granule is taken back; if the realm could use its content, the page says that it is lost.
Take(S, p) ==
  /\ view[p].hipas = "assigned"
  /\ view'[p] = NoMapping("unassigned", IF view[p].ripas = "ram" THEN "destroyed" ELSE view[p].ripas)
  /\ S = {p}
  /\ UNCHANGED <<state, running, req>>

\* Pages are given up: protected ones only if no granule is behind them.
Discard(S) ==
  /\ \A p \in S :
       IF p \in Protected
       THEN view[p].hipas = "unassigned" /\ view'[p] = NoMapping("unassigned", "destroyed")
       ELSE view'[p] = NoMapping("unassigned_ns", "empty")
  /\ UNCHANGED <<state, running, req>>

\* Unprotected pages that are not mapped get consecutive addresses of one mapping.
MapNs(S) ==
  /\ \A p \in S : view[p].hipas = "unassigned_ns" /\ view'[p].hipas = "assigned_ns"
  /\ \A p, q \in S :
       view'[p].pa - p = view'[q].pa - q /\ view'[p].attr = view'[q].attr
  /\ UNCHANGED <<state, running, req>>

\* The host carries out the next part of the change the realm has asked for.
ChangeRipas(S) ==
  LET part == req.addr..(req'.addr - 1) IN
  /\ ~running
  /\ req.addr < req'.addr /\ req'.addr <= req.top
  /\ req' = [req EXCEPT !.addr = req'.addr]
  /\ S \subseteq part
  /\ \A p \in part :
       /\ view[p].ripas = "destroyed" => req.change_destroyed
       /\ view'[p] = [view[p] EXCEPT !.ripas = req.ripas]
  /\ UNCHANGED <<state, running>>

\* The realm asks for part of its protected pages, and leaves to the host.
Ask ==
  /\ running /\ ~running'
  /\ req'.base < req'.top /\ req'.top <= NumProtected
  /\ req'.addr = req'.base /\ req'.ripas # "destroyed"
  /\ UNCHANGED <<view, state>>

\* The realm is entered: its request, if any, is answered and over.
Enter ==
  /\ state = "ACTIVE" /\ ~running /\ running'
  /\ req' = [req EXCEPT !.base = 0, !.top = 0]
  /\ UNCHANGED <<view, state>>

Leave ==
  /\ running /\ ~running'
  /\ UNCHANGED <<view, state, req>>

Activate ==
  /\ state = "NEW" /\ state' = "ACTIVE"
  /\ UNCHANGED <<view, running, req>>

Next ==
  \/ \E S \in {Changed} :
       \/ \E p \in S : Give(S, p) \/ Take(S, p)
       \/ Populate(S) \/ Discard(S) \/ MapNs(S) \/ ChangeRipas(S)
  \/ Ask \/ Enter \/ Leave \/ Activate

Spec == Init /\ [][Next]_vars
=============================================================================
