----------------------------- MODULE MCRmmModes -----------------------------
(***************************************************************************)
(* Three hosts for one system: in mode "rec" the host creates, enters and  *)
(* destroys RECs with an auxiliary granule, in mode "recs" it asks for     *)
(* more RECs of one realm than fit (without auxiliary granules, to have    *)
(* room for them), in mode "realm" it creates realms with two tables at    *)
(* the starting level and further tables below them.                       *)
(***************************************************************************)
EXTENDS MCRmm

VARIABLE mode

RecHost == INSTANCE Rmm WITH
  RealmParams <- RecRealmParams, RecParams <- RecRecParams, RttParams <- NoParams
RecsHost == INSTANCE Rmm WITH
  RealmParams <- RecsRealmParams, RecParams <- RecsRecParams, RttParams <- NoParams, MaxRecAux <- 0
RealmHost == INSTANCE Rmm WITH
  RealmParams <- RealmRealmParams, RecParams <- NoParams, RttParams <- RealmRttParams

MCInit == mode \in {"rec", "recs", "realm"} /\ Init

MCNext ==
  /\ \/ mode = "rec" /\ RecHost!Next
     \/ mode = "recs" /\ RecsHost!Next
     \/ mode = "realm" /\ RealmHost!Next
  /\ UNCHANGED mode

MCSpec == MCInit /\ [][MCNext]_<<mode, vars>>
=============================================================================
