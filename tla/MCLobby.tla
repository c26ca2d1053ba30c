------------------------------ MODULE MCLobby ------------------------------
(* Instances of Lobby for TLC: two tasks, few things begun. *)
EXTENDS Lobby

CONSTANTS a, b, c

WithoutOutbox ==
    <<userVars, realmVars, storeVars, connections, page, begun, task, early,
      since>>

EndPoints == Permutations(EndPoint)
Tasks == {[startMode |-> "whenAllIndicateReady", realmVisibility |-> "setupOnly"],
          [startMode |-> "whenHostConfirms", realmVisibility |-> "always"]}
Nothing == {}
Entities == {"realmSummary", "realmDetails"}
Seconds == {1}
OnlyLobby == {LobbyRealm}
=============================================================================
