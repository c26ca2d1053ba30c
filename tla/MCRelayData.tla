----------------------------- MODULE MCRelayData -----------------------------
(* Instances of RelayData for TLC: few users and realms, one entity name. *)
EXTENDS RelayData

(* Nothing the next handler does depends on what the last one sent. *)
WithoutOutbox == <<userVars, realmVars, storeVars>>

EndPoints == Permutations(EndPoint)

Public == {0}
Seconds == {1, 2}
NoTime == {0}
Nothing == {}

(* A file of an earlier version, which has no expiry, and one of an earlier *)
(* run with some time left: alone or side by side.                          *)
Left(ext, expiry) ==
    [realm |-> 0, name |-> CHOOSE n \in EntityName : TRUE,
     ext |-> ext, expiry |-> expiry, data |-> CHOOSE d \in Data : TRUE]
Old == {Left("entity", 0), Left("e", 2)}
==============================================================================
