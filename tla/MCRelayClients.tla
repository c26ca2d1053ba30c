--------------------------- MODULE MCRelayClients ---------------------------
(* Instances of RelayClients for TLC, without the data commands. *)
EXTENDS RelayClients

(* Two states that differ in the last handler's packets only are one: the  *)
(* packets are part of view by then.                                       *)
WithoutOutbox == <<userVars, realmVars, storeVars, view>>

(* For the properties of users alone: child realms known to a client do    *)
(* not bear on the users it knows.                                         *)
WithoutKids ==
    <<userVars, realmVars, storeVars,
      [e \in EndPoint |-> <<view[e].number, view[e].realm, view[e].users,
                             view[e].surprises \ {"{", "}"}>>]>>

EndPoints == Permutations(EndPoint)

Nobody == {}
AnyNumber == RealmNumber \cup {NoRealm}
SomeNumbers == {NoRealm, 0, 1}

=============================================================================
