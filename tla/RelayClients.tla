---------------------------- MODULE RelayClients ----------------------------
(***************************************************************************)
(* The relay server together with what its clients believe.  A client      *)
(* (Javascript/WSRelayClient/src/WebSocketRelayClient.ts) keeps its own    *)
(* number and the number of its realm, and passes each notice on to the    *)
(* application, which keeps lists of the users and child realms it has     *)
(* been told of.                                                           *)
(*                                                                         *)
(* A socket delivers in order, and what a client believes never changes    *)
(* what the server does, so view[e] is kept as of the moment e has read    *)
(* everything sent to it so far; a notice that surprises it on the way is  *)
(* remembered.                                                             *)
(***************************************************************************)
EXTENDS RelayServer

VARIABLE view    \* what the client at each end point believes

clientVars == <<vars, view>>

NewView == [number |-> NoUser, realm |-> NoRealm, users |-> {}, kids |-> {},
            surprises |-> {}]

(* A notice is a surprise if it names a user or a child realm that the     *)
(* client should know and does not, or the other way round.                *)
Surprises(v, m) ==
    LET known == CASE m.symbol \in {"+", "-"} -> m.number \in v.users
                   [] m.symbol \in {"*", "!"} -> m.number \in v.users \cup {v.number}
                   [] m.symbol \in {"{", "}"} -> m.number \in v.kids
                   [] OTHER -> TRUE
    IN  IF known = (m.symbol \in {"+", "{"}) THEN {m.symbol} ELSE {}

(* handleSocketMessage, and an application that starts its lists again     *)
(* when it is assigned a realm.                                            *)
Hear(v, m) ==
    LET w == [v EXCEPT !.surprises = @ \cup Surprises(v, m)]
    IN  CASE m.symbol = "#" -> [w EXCEPT !.number = m.number]
          [] m.symbol \in {"^", "&"} ->
                [w EXCEPT !.realm = m.number, !.users = {}, !.kids = {}]
          [] m.symbol = "=" -> [w EXCEPT !.users = m.numbers]
          [] m.symbol = "+" -> [w EXCEPT !.users = @ \cup {m.number}]
          [] m.symbol = "-" -> [w EXCEPT !.users = @ \ {m.number}]
          [] m.symbol = "{" -> [w EXCEPT !.kids = @ \cup {m.number}]
          [] m.symbol = "}" -> [w EXCEPT !.kids = @ \ {m.number}]
          [] OTHER -> w

InitClients == Init /\ view = [e \in EndPoint |-> NewView]

(* A connection that has ended leaves no client; the next one on the same  *)
(* end point is a new WebSocketRelayClient.                                *)
Listen == view' = [e \in EndPoint |->
                     IF userID'[e] = NoUser THEN NewView
                     ELSE FoldLeft(Hear, view[e], outbox'[e])]

NextClients == Next /\ Listen

SpecClients == InitClients /\ [][NextClients]_clientVars

-----------------------------------------------------------------------------
(* Once a client has read what was sent to it, it knows its own number,    *)
(* and if it is in a realm, the number of that realm and exactly who else  *)
(* is in it: "=", "+" and "-" add up whatever the order of the moves.      *)
(* (A client that leaves with "^-1" is told nothing and is not spoken of.) *)
UserViewAgrees ==
    \A e \in Connected :
      /\ view[e].number = userID[e]
      /\ userRealm[e] # NoRealm =>
           /\ view[e].realm = userRealm[e]
           /\ view[e].users = {userID[x] : x \in Members(e) \ {e}}

(* No client is told twice that a user came or went, and none receives a   *)
(* broadcast from a user it has not been told of: the game's handler       *)
(* looks the sender up in its list and throws if it is not there.          *)
UserNoticesAreNews ==
    \A e \in EndPoint : view[e].surprises \cap {"+", "-", "*", "!"} = {}

(* Among disciplined clients, "{" and "}" add up to the child realms of    *)
(* the client's realm.                                                     *)
RealmViewAgrees ==
    \A e \in Connected :
      userRealm[e] # NoRealm => view[e].kids = realmChildren[userRealm[e]]

(* Among disciplined clients, no client is told twice that a child realm   *)
(* was created or destroyed.                                               *)
RealmNoticesAreNews ==
    \A e \in EndPoint : view[e].surprises \cap {"{", "}"} = {}
=============================================================================
