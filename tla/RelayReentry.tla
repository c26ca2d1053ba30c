---------------------------- MODULE RelayReentry ----------------------------
(***************************************************************************)
(* The relay server (Application Server/WSRelay/(mono)/Server.cs) on       *)
(* sockets that fail.  A Send that fails disconnects its target on the     *)
(* spot (Common/WebSockets/(mono)/Clients/WebSocketClient.cs): the handler *)
(* Server_ClientDisconnected runs inside the handler that sent, on the     *)
(* same thread and under the same lock, and may send and fail in its turn. *)
(* A handler that throws is cut off at its own try block, and the one      *)
(* around it goes on.                                                      *)
(*                                                                         *)
(* stack holds the handlers under way, the innermost first; each is the    *)
(* list of what it has still to do.  What a handler does between two       *)
(* sends is one step.  Realms are objects here, as a handler, a user or a  *)
(* child may hold on to a realm that its number no longer leads to.        *)
(* Texts and notices are left out: only who is written to matters.         *)
(***************************************************************************)
EXTENDS Integers, Sequences, FiniteSets, SequencesExt

CONSTANTS
    EndPoint,          \* an end point is used again only when its user is gone
    Object,            \* bound on the Realm objects in memory
    Null,              \* no Realm object, no user
    RealmNumber        \* the numbers of realms: those of "^n" and "&n", and
                       \* those that the queue gives to "^" and "&"

NoRealm == -1

ASSUME ReentryAssumption ==
    /\ RealmNumber \subseteq Nat
    /\ Null \notin Object \cup EndPoint

VARIABLES
    clients,             \* WebSocketServer.webSocketClients
    users,               \* usersByEndPoint and usersByID
    userRealm,           \* User.Realm
    realmsByID,
    realm,               \* the Realm objects
    failed,              \* 1 once a Send has failed, until then 0
    stack                \* the handlers under way

realmVars == <<userRealm, realmsByID, realm>>
socketVars == <<clients, failed>>
vars == <<socketVars, users, realmVars, stack>>

Unused == [id |-> NoRealm, parent |-> Null, children |-> {}, users |-> <<>>]

-----------------------------------------------------------------------------
(* What a handler has to do. *)

Change(e, target, child) ==
    [op |-> "change", user |-> e, target |-> target, child |-> child]
Enter(e, target, child, old) ==
    [op |-> "enter", user |-> e, target |-> target, child |-> child, old |-> old]
NewChild(target, old) == [op |-> "newchild", target |-> target, old |-> old]
Cleanup(r) == [op |-> "cleanup", old |-> r]
Destroy(r) == [op |-> "destroy", old |-> r]
Forget(e) == [op |-> "forget", user |-> e]
Send(e) == [op |-> "send", user |-> e]

(* foreach over the users of r but one: the list as it was at the start,   *)
(* and the position of the next.                                           *)
Loop(r, list, except) ==
    [op |-> "loop", old |-> r, list |-> list, next |-> 1, except |-> except]

(* Server_ClientDisconnected *)
Disconnection(e) == <<Change(e, NoRealm, FALSE), Forget(e)>>

Idle == stack = <<>>
Todo == Head(Head(stack))
Doing(op) == ~Idle /\ Todo.op = op

(* The innermost handler does ops in place of the first thing on its list; *)
(* with nothing left it returns to the one around it.                      *)
Instead(ops) ==
    LET rest == ops \o Tail(Head(stack))
    IN  IF rest = <<>> THEN Tail(stack) ELSE <<rest>> \o Tail(stack)
Go(ops) == stack' = Instead(ops)

(* An exception ends the innermost handler: its catch block only logs. *)
Throw == stack' = Tail(stack)

(* Server.Send, WebSocketServer.Send and WebSocketClient.Send to x, and    *)
(* then ops.  A user or a client that is not listed is an exception; a     *)
(* socket that fails is taken off the list, and its disconnection handled  *)
(* first.                                                                  *)
DeliverStillListed(x, ops) ==
    /\ \/ /\ x \in users \cap clients
          /\ Go(ops)
          /\ UNCHANGED socketVars
       \/ /\ x \in users \cap clients
          /\ failed' = 1
          /\ stack' = <<Disconnection(x)>> \o Instead(ops)
          /\ UNCHANGED clients
       \/ /\ x \notin users \cap clients
          /\ Throw
          /\ UNCHANGED socketVars
    /\ UNCHANGED <<users, realmVars>>
Deliver(x, ops) ==
    /\ \/ /\ x \in users \cap clients
          /\ Go(ops)
          /\ UNCHANGED socketVars
       \/ /\ x \in users \cap clients
          /\ failed' = 1
          /\ clients' = clients \ {x}
          /\ stack' = <<Disconnection(x)>> \o Instead(ops)
       \/ /\ x \notin users \cap clients
          /\ Throw
          /\ UNCHANGED socketVars
    /\ UNCHANGED <<users, realmVars>>

-----------------------------------------------------------------------------
(* The objects the program can still reach, given new values of the        *)
(* variables: they are in every set that holds those that are referred to  *)
(* and, with each of its members, its parent and children.  The others are *)
(* garbage, and their places are free.                                     *)
HeldByStack(s) ==
    {r \in Object : \E i \in DOMAIN s : \E o \in ToSet(s[i]) :
                       "old" \in DOMAIN o /\ o.old = r}
Held(byID, s) ==
    ((ToSet(byID) \cup ToSet(userRealm)) \ {Null}) \cup HeldByStack(s)
Links(objects, r) == (objects[r].children \cup {objects[r].parent}) \ {Null}
Live(byID, objects, s) ==
    LET held   == Held(byID, s)
        closed == {S \in SUBSET Object :
                      /\ held \subseteq S
                      /\ \A r \in S : Links(objects, r) \subseteq S}
    IN  {r \in Object : \A S \in closed : r \in S}
Kept(byID, objects, s) ==
    LET live == Live(byID, objects, s)
    IN  [r \in Object |-> IF r \in live THEN objects[r] ELSE Unused]

-----------------------------------------------------------------------------
(* The steps of ChangeRealm and of the handlers around it. *)

WithoutFirst(list, e) == Tail(list)
Without(list, e) == RemoveFirst(list, e)

(* Up to the removal from the old realm, and the list to tell of it. *)
LeaveOld ==
    /\ Doing("change")
    /\ LET e     == Todo.user
           old   == userRealm[e]
           stays == Todo.target = IF old = Null THEN NoRealm ELSE realm[old].id
           enter == Enter(e, Todo.target, Todo.child /\ old # Null, old)
       IN  \/ /\ stays
              /\ Go(<<>>)
              /\ UNCHANGED <<userRealm, realm>>
           \/ /\ ~stays /\ old = Null
              /\ Go(<<enter>>)
              /\ UNCHANGED <<userRealm, realm>>
           \/ /\ ~stays /\ old # Null
              /\ LET left == Without(realm[old].users, e)
                 IN  /\ realm' = [realm EXCEPT ![old].users = left]
                     /\ Go(<<Loop(old, left, Null), enter>>)
              /\ userRealm' = [userRealm EXCEPT ![e] = Null]
    /\ UNCHANGED <<socketVars, users, realmsByID>>

(* What comes after the notices of the new realm: the old one is told of   *)
(* its child, or destroyed if it is left empty.                            *)
Afterwards(m) == IF m.child THEN NewChild(m.target, m.old) ELSE Cleanup(m.old)

(* To the user: the answer, the children of the realm and its users.  The  *)
(* first stands for all but the last: when it fails, the next one throws.  *)
Answers(e) == <<Send(e), Send(e)>>

(* A new Realm with its first user. *)
NewRealmOfNumber(n, parent, e) ==
    [id |-> n, parent |-> IF parent = Null THEN Null ELSE realm[parent].id,
     children |-> {}, users |-> <<e>>]
NewRealmDetached(n, parent, e) ==
    [id |-> n, parent |-> Null, children |-> {}, users |-> <<e>>]
NewRealm(n, parent, e) ==
    [id |-> n, parent |-> parent, children |-> {}, users |-> <<e>>]

(* e joins realm number n: a realm on the list, or a new object. *)
EnterNew ==
    /\ Doing("enter")
    /\ LET e      == Todo.user
           n      == Todo.target
           parent == IF Todo.child THEN Todo.old ELSE Null
           kept   == Kept(realmsByID, realm, stack)
       IN  \/ /\ n = NoRealm
              /\ Go(<<Afterwards(Todo)>>)
              /\ UNCHANGED realmVars
           \/ /\ n # NoRealm
              /\ realmsByID[n] # Null
              /\ LET r      == realmsByID[n]
                     others == realm[r].users
                 IN  /\ realm' = [realm EXCEPT ![r].users = Append(@, e)]
                     /\ userRealm' = [userRealm EXCEPT ![e] = r]
                     /\ Go(Answers(e)
                             \o [i \in DOMAIN others |-> Send(others[i])]
                             \o <<Afterwards(Todo)>>)
              /\ UNCHANGED realmsByID
           \/ /\ n # NoRealm
              /\ realmsByID[n] = Null
              /\ \E r \in Object :
                   /\ kept[r] = Unused
                   /\ realm' = [s \in Object |->
                        IF s = r THEN NewRealm(n, parent, e)
                        ELSE IF s = parent
                        THEN [kept[s] EXCEPT !.children = @ \cup {r}]
                        ELSE kept[s]]
                   /\ realmsByID' = [realmsByID EXCEPT ![n] = r]
                   /\ userRealm' = [userRealm EXCEPT ![e] = r]
              /\ Go(Answers(e) \o <<Afterwards(Todo)>>)
    /\ UNCHANGED <<socketVars, users>>

(* The users of the old realm are told of the new child; after "&-1" there *)
(* is none, and the first notice throws.                                   *)
TellNewChild ==
    /\ Doing("newchild")
    /\ LET told == realm[Todo.old].users
       IN  IF Todo.target = NoRealm /\ told # <<>> THEN Throw
           ELSE Go(<<Loop(Todo.old, told, Null)>>)
    /\ UNCHANGED <<socketVars, users, realmVars>>

(* One turn of a foreach: MoveNext throws if the list has changed. *)
LoopTurn ==
    /\ Doing("loop")
    /\ LET list == Todo.list
           i    == Todo.next
           turn == [Todo EXCEPT !.next = i + 1]
       IN  \/ /\ \/ /\ realm[Todo.old].users # list
                    /\ Throw
                 \/ /\ realm[Todo.old].users = list
                    /\ i > Len(list)
                    /\ Go(<<>>)
                 \/ /\ realm[Todo.old].users = list
                    /\ i <= Len(list) /\ list[i] = Todo.except
                    /\ Go(<<turn>>)
              /\ UNCHANGED <<socketVars, users, realmVars>>
           \/ /\ realm[Todo.old].users = list
              /\ i <= Len(list) /\ list[i] # Todo.except
              /\ Deliver(list[i], <<turn>>)

SendTurn == Doing("send") /\ Deliver(Todo.user, <<>>)

(* Neither users nor child realms are left. *)
DesertedLeaf(r) == realm[r].children = {}
Deserted(r) == realm[r].users = <<>> /\ realm[r].children = {}

(* The condition of the while loop, and its body up to the "}" notices. *)
CleanupTurn ==
    /\ Doing("cleanup")
    /\ LET r     == Todo.old
           up    == realm[r].parent
           empty == r # Null /\ Deserted(r)
       IN  \/ /\ ~empty
              /\ Go(<<>>)
              /\ UNCHANGED realm
           \/ /\ empty /\ up = Null
              /\ Go(<<Destroy(r)>>)
              /\ UNCHANGED realm
           \/ /\ empty /\ up # Null
              /\ realm' = [realm EXCEPT ![up].children = @ \ {r}]
              /\ Go(<<Loop(up, realm[up].users, Null), Destroy(r)>>)
    /\ UNCHANGED <<socketVars, users, userRealm, realmsByID>>

(* The rest of the body: the number is free, and the parent is next. *)
DestroyTurnSame ==
    /\ Doing("destroy")
    /\ LET r    == Todo.old
           byID == [realmsByID EXCEPT ![realm[r].id] = Null]
           next == Instead(<<Cleanup(r)>>)
       IN  /\ realmsByID' = byID
           /\ realm' = Kept(byID, realm, next)
           /\ stack' = next
    /\ UNCHANGED <<socketVars, users, userRealm>>
DestroyTurn ==
    /\ Doing("destroy")
    /\ LET r    == Todo.old
           byID == [realmsByID EXCEPT ![realm[r].id] = Null]
           next == Instead(<<Cleanup(realm[r].parent)>>)
       IN  /\ realmsByID' = byID
           /\ realm' = Kept(byID, realm, next)
           /\ stack' = next
    /\ UNCHANGED <<socketVars, users, userRealm>>

(* The rest of Server_ClientDisconnected, after ChangeRealm. *)
ForgetTurn ==
    /\ Doing("forget")
    /\ users' = users \ {Todo.user}
    /\ Go(<<>>)
    /\ UNCHANGED <<socketVars, realmVars>>

-----------------------------------------------------------------------------
(* The events that start a handler, when no other runs. *)

Start(ops) == Idle /\ stack' = <<ops>>

(* HttpUpgradeCompleted and Server_ClientConnected.  A failure of its one  *)
(* Send is not noticed: the client does not raise its events yet.          *)
ClientConnected(e) ==
    /\ Idle
    /\ e \notin clients \cup users
    /\ clients' = clients \cup {e}
    /\ users' = users \cup {e}
    /\ UNCHANGED <<failed, realmVars, stack>>

(* A client closes its socket, or reading from it fails. *)
ClientDisconnected(e) ==
    /\ e \in clients
    /\ clients' = clients \ {e}
    /\ Start(Disconnection(e))
    /\ UNCHANGED <<users, failed, realmVars>>

(* There is a place for the object that a text may make. *)
Room == \E r \in Object : Kept(realmsByID, realm, stack)[r] = Unused

(***************************************************************************)
(* Texts of a user: "^n" and "&n"; "^" and "&" with n a number of the      *)
(* queue.  A text that waited for the lock while the client of its user    *)
(* was disconnected is handled all the same: what counts is that the user  *)
(* is still registered.                                                    *)
(***************************************************************************)
Join(e, n, child) ==
    /\ e \in users
    /\ Start(<<Change(e, n, child)>>)
    /\ UNCHANGED <<socketVars, users, realmVars>>

(* "*" and "!": to the users of the sender's realm, or all but the sender. *)
Broadcast(e, except) ==
    /\ userRealm[e] # Null
    /\ Start(<<Loop(userRealm[e], realm[userRealm[e]].users, except)>>)
    /\ UNCHANGED <<socketVars, users, realmVars>>

(* "@n", ":n" and the answer to "<": one Send to one registered user x.    *)
SendToOne(e, x) ==
    /\ userRealm[e] # Null
    /\ x \in users
    /\ Start(<<Send(x)>>)
    /\ UNCHANGED <<socketVars, users, realmVars>>

-----------------------------------------------------------------------------
Init == /\ clients = {}
        /\ failed = 0
        /\ users = {}
        /\ userRealm = [e \in EndPoint |-> Null]
        /\ realmsByID = [n \in RealmNumber |-> Null]
        /\ realm = [r \in Object |-> Unused]
        /\ stack = <<>>

Handle == \/ LeaveOld \/ EnterNew \/ TellNewChild \/ LoopTurn \/ SendTurn
          \/ CleanupTurn \/ DestroyTurn \/ ForgetTurn

Event ==
    \E e \in EndPoint :
        \/ ClientConnected(e)
        \/ ClientDisconnected(e)
        \/ /\ Room
           /\ \E n \in RealmNumber \cup {NoRealm}, child \in BOOLEAN :
                 Join(e, n, child)
        \/ \E except \in {Null, e} : Broadcast(e, except)
        \/ \E x \in EndPoint : SendToOne(e, x)

Next == Handle \/ Event

(* A handler that has started runs: its thread holds the lock. *)
Spec == Init /\ [][Next]_vars /\ WF_vars(Handle)

-----------------------------------------------------------------------------
(* What holds, most of it in the middle of nested handlers too.            *)

(* Lists, dictionaries and the fields of Realm objects hold what they may, *)
(* after handlers cut off anywhere (Server.cs:269-381).                    *)
TypeOK ==
    /\ clients \subseteq EndPoint
    /\ users \subseteq EndPoint
    /\ userRealm \in [EndPoint -> Object \cup {Null}]
    /\ realmsByID \in [RealmNumber -> Object \cup {Null}]
    /\ \A r \in Object : /\ realm[r].id \in RealmNumber \cup {NoRealm}
                         /\ realm[r].parent \in Object \cup {Null}
                         /\ realm[r].children \subseteq Object
                         /\ ToSet(realm[r].users) \subseteq EndPoint
    /\ failed \in {0, 1}

(* User.Realm and Realm.Users are two records of one fact, written by      *)
(* handlers that are cut off at any Send (ChangeRealm, Server.cs:289-314): *)
(* they agree all the same.                                                *)
Membership ==
    /\ \A r \in Object : IsInjective(realm[r].users)
    /\ \A e \in EndPoint, r \in Object :
          userRealm[e] = r <=> e \in ToSet(realm[r].users)

(* The handlers on the stack that disconnect e. *)
Disconnecting(e) == {i \in DOMAIN stack : Forget(e) \in ToSet(stack[i])}

(* A user may be found out by several failing Sends, in nested handlers,   *)
(* and by its own closing: it is disconnected once, as its client is taken *)
(* off the list first (WebSocketServer.cs:317-322).                        *)
DisconnectsOnce ==
    \A e \in EndPoint : Disconnecting(e) # {} =>
        /\ Cardinality(Disconnecting(e)) = 1
        /\ e \in users \ clients

(* The links between realms: children point back to their parents, and a   *)
(* number on the list leads to a realm of that number, whatever handlers   *)
(* have been cut off between the two sides of a link.                      *)
RealmsAgree ==
    /\ \A r, c \in Object : c \in realm[r].children => realm[c].parent = r
    /\ \A n \in RealmNumber :
          realmsByID[n] # Null => realm[realmsByID[n]].id = n

(* As long as no Send fails, the server between two handlers is the one of *)
(* RelayServer: the users are the listed clients, and the realm of a user  *)
(* is on the list of realms.                                               *)
SoundWithoutFailures ==
    Idle /\ failed = 0 =>
        /\ users = clients
        /\ \A e \in users : userRealm[e] # Null =>
              realmsByID[realm[userRealm[e]].id] = userRealm[e]

(* Handlers that disconnect users inside of handlers that disconnect users *)
(* come to an end, and the lock is free again, although any Send of any of *)
(* them may fail: no bound on failures ends the nesting.                   *)
HandlersEnd == []<>Idle

(* What the comment at Server.cs:345 says of the cleanup, of the list: a   *)
(* realm is taken off it when it has no users and no child realms left.    *)
DestroysDeserted ==
    [][\A n \in RealmNumber :
          realmsByID[n] # Null /\ realmsByID'[n] = Null
            => Deserted(realmsByID[n])]_vars
=============================================================================
