----------------------------- MODULE VcpuPower ------------------------------
(***************************************************************************)
(* What the RMM promises about the vCPUs of realms, whatever the host does *)
(* with RMI_REC_ENTER and RMI_PSCI_COMPLETE.  A vCPU is off, fresh (turned *)
(* on and not started, its registers still the ones it was turned on       *)
(* with) or on.  A vCPU that is turned off or waits for an answer does not *)
(* run.  Only the vCPU itself turns itself off, only an answer to a vCPU   *)
(* of the same realm that asked for it turns a vCPU on, and the answer     *)
(* tells the truth.                                                        *)
(***************************************************************************)
CONSTANTS REC, Nobody, RealmOf

VARIABLES
  power,      \* "off", "fresh" or "on", for each vCPU
  running,    \* the vCPUs that run
  request,    \* what a vCPU waits for: NoRequest or [kind, target]
  answer,     \* the last answer a vCPU was given
  stopped     \* the realms that have been turned off

NoRequest == [kind |-> "none", target |-> Nobody]

Init ==
  /\ power \in [REC -> {"off", "on"}]
  /\ running = {}
  /\ request = [r \in REC |-> NoRequest]
  /\ answer = [r \in REC |-> "none"]
  /\ stopped = {}

Start(r) ==
  /\ power[r] # "off" /\ r \notin running /\ request[r] = NoRequest /\ RealmOf[r] \notin stopped
  /\ running' = running \cup {r}
  /\ power' = [power EXCEPT ![r] = "on"]
  /\ UNCHANGED <<request, answer, stopped>>

Pause(r) ==
  /\ r \in running
  /\ running' = running \ {r}
  /\ UNCHANGED <<power, request, answer, stopped>>

TurnOff(r) ==
  /\ r \in running
  /\ running' = running \ {r}
  /\ power' = [power EXCEPT ![r] = "off"]
  /\ answer' = [answer EXCEPT ![r] = "none"]
  /\ UNCHANGED <<request, stopped>>

Ask(r, kind, t) ==
  /\ r \in running /\ t # r /\ RealmOf[t] = RealmOf[r]
  /\ running' = running \ {r}
  /\ request' = [request EXCEPT ![r] = [kind |-> kind, target |-> t]]
  /\ UNCHANGED <<power, answer, stopped>>

\* A call that is answered at once: the last answer is overwritten.
Call(r) ==
  /\ r \in running
  /\ answer' = [answer EXCEPT ![r] = "none"]
  /\ running' \in {running, running \ {r}}
  /\ UNCHANGED <<power, request, stopped>>

\* The two answers a vCPU may rely on, and the ones that promise nothing.
TurnOn(r) ==
  LET t == request[r].target IN
  /\ request[r].kind = "cpu_on" /\ t \notin running /\ power[t] = "off"
  /\ power' = [power EXCEPT ![t] = "fresh"]
  /\ answer' = [answer EXCEPT ![r] = "success"]
  /\ request' = [request EXCEPT ![r] = NoRequest]
  /\ UNCHANGED <<running, stopped>>

AnswerOff(r) ==
  LET t == request[r].target IN
  /\ request[r].kind = "affinity_info" /\ t \notin running /\ power[t] = "off"
  /\ answer' = [answer EXCEPT ![r] = "off"]
  /\ request' = [request EXCEPT ![r] = NoRequest]
  /\ UNCHANGED <<power, running, stopped>>

Decline(r) ==
  /\ request[r] # NoRequest
  /\ answer' \in {[answer EXCEPT ![r] = a] : a \in {"already_on", "denied", "on"}}
  /\ request' = [request EXCEPT ![r] = NoRequest]
  /\ UNCHANGED <<power, running, stopped>>

StopRealm(r) ==
  /\ r \in running
  /\ stopped' = stopped \cup {RealmOf[r]}
  /\ running' = running \ {r}
  /\ UNCHANGED <<power, request, answer>>

Next ==
  \E r \in REC :
    \/ Start(r) \/ Pause(r) \/ Call(r) \/ TurnOff(r) \/ StopRealm(r)
    \/ TurnOn(r) \/ AnswerOff(r) \/ Decline(r)
    \/ \E kind \in {"cpu_on", "affinity_info"}, t \in REC : Ask(r, kind, t)

vars == <<power, running, request, answer, stopped>>

Spec == Init /\ [][Next]_vars
=============================================================================
