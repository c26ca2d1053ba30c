----------------------------- MODULE RelayServer -----------------------------
(***************************************************************************)
(* The relay server (Application Server/WSRelay/(mono)/Server.cs): users,  *)
(* realms, the tree of child realms, the recycled numbers and the notices  *)
(* it writes to its clients.                                               *)
(*                                                                         *)
(* The web socket server raises all of its events under one lock, so one   *)
(* action models one whole handler.  Every Send of a handler reaches the   *)
(* socket here; sockets that fail in the middle of a handler are the       *)
(* subject of another module.                                              *)
(***************************************************************************)
EXTENDS EntityManager, Sequences, FiniteSets, SequencesExt

CONSTANTS
    EndPoint,          \* remote end points; one stands also for its User object
    PublicRealmCount,  \* Settings.PublicRealmCount: numbers below it are public
    MaxRealmID,        \* bound on the realm numbers in use
    MaxReclaimable,    \* bound on the queue when numbers are queued repeatedly
    JoinNumber,        \* numbers clients write in "^n" and "&n"
    Disciplined        \* clients only name realms as MayJoin says

NoRealm == -1          \* user.Realm = null, and the target of a disconnection
NoUser == -1           \* an end point that is not in usersByEndPoint
RealmNumber == 0 .. MaxRealmID
Private(r) == r >= PublicRealmCount

ASSUME RelayAssumption ==
    /\ PublicRealmCount \in Nat
    /\ MaxRealmID \in Nat
    /\ PublicRealmCount <= MaxRealmID + 1
    /\ MaxReclaimable \in Nat
    /\ JoinNumber \subseteq RealmNumber \cup {NoRealm}
    /\ Disciplined \in BOOLEAN

VARIABLES
    userID,              \* usersByEndPoint and usersByID: the number of each user
    reclaimableUserIDs,
    nextUserID,
    userRealm,           \* User.Realm
    realms,              \* the keys of realmsByID
    realmParent,         \* Realm.Parent
    realmChildren,       \* Realm.ChildRealms
    realmUsers,          \* Realm.Users, in order of arrival
    reclaimableRealmIDs,
    nextRealmID,
    outbox               \* what the last handler sent to each end point, in order

userVars  == <<userID, reclaimableUserIDs, nextUserID>>
realmVars == <<userRealm, realms, realmParent, realmChildren, realmUsers,
               reclaimableRealmIDs, nextRealmID>>
vars == <<userVars, realmVars, outbox, storeVars>>

Connected == {e \in EndPoint : userID[e] # NoUser}

-----------------------------------------------------------------------------
(* Messages: the packets of the protocol with one number, and "=". *)

Packet(symbol, n) == [symbol |-> symbol, number |-> n]
UsersPresent(ids) == [symbol |-> "=", numbers |-> ids]
DataPacket(r, k, d) == [symbol |-> "<", realm |-> r, name |-> k, data |-> d]

Silence == [x \in EndPoint |-> <<>>]
SendTo(X, packet) == [x \in EndPoint |-> IF x \in X THEN <<packet>> ELSE <<>>]

-----------------------------------------------------------------------------
(* ChangeRealm(user, targetRealmID, createChildRealm), piece by piece. *)

(* A child realm is only created by a user who is in a realm. *)
AsChild(e, child) == child /\ userRealm[e] # NoRealm

Creates(target) == target # NoRealm /\ target \notin realms

RealmsAfter(target) ==
    IF Creates(target) THEN realms \cup {target} ELSE realms

ParentAlways(e, target, child) ==
    IF target # NoRealm /\ AsChild(e, child)
    THEN [realmParent EXCEPT ![target] = userRealm[e]]
    ELSE realmParent
ParentAfter(e, target, child) ==
    IF Creates(target) /\ AsChild(e, child)
    THEN [realmParent EXCEPT ![target] = userRealm[e]]
    ELSE realmParent

ChildrenAfter(e, target, child) ==
    IF Creates(target) /\ AsChild(e, child)
    THEN [realmChildren EXCEPT ![userRealm[e]] = @ \cup {target}]
    ELSE realmChildren

(* The user leaves the list of the old realm and joins the end of the new. *)
UsersNotRemoved(e, target) ==
    [r \in RealmNumber |-> IF r = target THEN Append(realmUsers[r], e)
                           ELSE realmUsers[r]]
UsersAfter(e, target) ==
    [r \in RealmNumber |->
        IF r = userRealm[e] THEN RemoveFirst(realmUsers[r], e)
        ELSE IF r = target THEN Append(realmUsers[r], e)
        ELSE realmUsers[r]]

(* The members of realm r once the user has moved; nobody is in NoRealm. *)
MembersAfter(e, target, r) ==
    IF r = NoRealm THEN {} ELSE ToSet(UsersAfter(e, target)[r])

(***************************************************************************)
(* The realms the final while loop destroys.  It starts at the old realm   *)
(* and climbs as long as the realm has neither users nor children; the     *)
(* step before has taken the realm below out of the list of children.  So  *)
(* the set is the fixed point: the old realm when it is an empty leaf, and *)
(* each empty realm all of whose children (at least one) are destroyed.    *)
(***************************************************************************)
DestroysOnlyOld(e, target, child, D) ==
    D = {r \in RealmsAfter(target) : /\ ~AsChild(e, child)
                                     /\ r = userRealm[e]
                                     /\ UsersAfter(e, target)[r] = <<>>
                                     /\ realmChildren[r] = {}}
DestroysOccupied(e, target, child, D) ==
    LET kids == ChildrenAfter(e, target, child)
    IN  IF AsChild(e, child) THEN D = {}
        ELSE D = {r \in RealmsAfter(target) :
                     /\ kids[r] \subseteq D
                     /\ r = userRealm[e] \/ kids[r] \cap D # {}}
Destroys(e, target, child, D) ==
    LET users == UsersAfter(e, target)
        kids  == ChildrenAfter(e, target, child)
    IN  IF AsChild(e, child) THEN D = {}
        ELSE D = {r \in RealmsAfter(target) :
                     /\ users[r] = <<>>
                     /\ kids[r] \subseteq D
                     /\ r = userRealm[e] \/ kids[r] \cap D # {}}

(***************************************************************************)
(* The private numbers of D in the order the loop enqueues them: at(r) is  *)
(* the iteration that destroys r, and the next one is its parent's.        *)
(***************************************************************************)
ReclaimedPublic(D, parent) == Bijection(1 .. Cardinality(D), D)
Reclaimed(D, parent) ==
    LET F == {r \in D : Private(r)}
    IN  {q \in Bijection(1 .. Cardinality(F), F) :
           \E at \in [D -> 1 .. Cardinality(D)] :
             /\ \A r \in D : parent[r] \in D => at[parent[r]] = at[r] + 1
             /\ \A i, j \in DOMAIN q : i < j => at[q[i]] < at[q[j]]}

(* What the handler writes to x, in the order of the code. *)
LeaveOnlyOffline(e, target, x) ==
    IF target = NoRealm /\ x \in MembersAfter(e, target, userRealm[e])
    THEN <<Packet("-", userID[e])>> ELSE <<>>
LeaveToNewRealm(e, target, x) ==
    IF x \in MembersAfter(e, target, target)
    THEN <<Packet("-", userID[e])>> ELSE <<>>
LeaveNotices(e, target, x) ==
    IF x \in MembersAfter(e, target, userRealm[e])
    THEN <<Packet("-", userID[e])>> ELSE <<>>

ChildList(e, target, child) ==
    LET kids == SetToSeq(ChildrenAfter(e, target, child)[target])
    IN  [i \in DOMAIN kids |-> Packet("{", kids[i])]

JoinNotices(e, target, child, x) ==
    LET others == MembersAfter(e, target, target) \ {e}
    IN  IF target = NoRealm THEN <<>>
        ELSE IF x = e
        THEN <<Packet(IF AsChild(e, child) THEN "&" ELSE "^", target)>>
               \o ChildList(e, target, child)
               \o <<UsersPresent({userID[y] : y \in others})>>
        ELSE IF x \in others THEN <<Packet("+", userID[e])>> ELSE <<>>

NewChildToNewRealm(e, target, child, x) ==
    IF AsChild(e, child) /\ x \in MembersAfter(e, target, target)
    THEN <<Packet("{", target)>> ELSE <<>>
NewChildNotices(e, target, child, x) ==
    IF /\ AsChild(e, child)
       /\ target # NoRealm     \* else newRealm.ID throws; nothing is sent
       /\ x \in MembersAfter(e, target, userRealm[e])
    THEN <<Packet("{", target)>> ELSE <<>>

DestroyToAll(e, target, child, D, x) ==
    LET list == SetToSeq(D)
    IN  [i \in DOMAIN list |-> Packet("}", list[i])]
DestroyNotices(e, target, child, D, x) ==
    LET seen == {r \in D : x \in MembersAfter(e, target,
                                    ParentAfter(e, target, child)[r])}
        list == SetToSeq(seen)
    IN  [i \in DOMAIN list |-> Packet("}", list[i])]

Notices(e, target, child, D) ==
    [x \in EndPoint |-> LeaveNotices(e, target, x)
                          \o JoinNotices(e, target, child, x)
                          \o NewChildNotices(e, target, child, x)
                          \o DestroyNotices(e, target, child, D, x)]

(* The early return: the user is already in the target realm (or in none). *)
StayInRealm(queue) ==
    /\ reclaimableRealmIDs' = queue
    /\ outbox' = Silence
    /\ UNCHANGED <<userRealm, realms, realmParent, realmChildren, realmUsers,
                   files>>

(* The move itself.  queue is reclaimableRealmIDs as the caller left it. *)
MoveToRealm(e, target, child, queue) ==
    \E D \in SUBSET RealmsAfter(target) :
      /\ Destroys(e, target, child, D)
      /\ userRealm' = [userRealm EXCEPT ![e] = target]
      /\ realms' = RealmsAfter(target) \ D
      /\ realmUsers' = UsersAfter(e, target)
      /\ realmParent' = [r \in RealmNumber |->
            IF r \in D THEN NoRealm ELSE ParentAfter(e, target, child)[r]]
      /\ realmChildren' = [r \in RealmNumber |->
            IF r \in D THEN {} ELSE ChildrenAfter(e, target, child)[r] \ D]
      /\ \E freed \in Reclaimed(D, ParentAfter(e, target, child)) :
            reclaimableRealmIDs' = queue \o freed
      /\ files' = files \ RealmFiles({r \in D : Private(r)})
      /\ outbox' = Notices(e, target, child, D)

ChangeRealm(e, target, child, queue) ==
    IF userRealm[e] = target THEN StayInRealm(queue)
    ELSE MoveToRealm(e, target, child, queue)

-----------------------------------------------------------------------------
(* A number, "making an attempt to keep it low": the oldest in the queue,  *)
(* else the next one.                                                      *)
LowNumber(queue, next) == IF queue # <<>> THEN Head(queue) ELSE next
RestPeeked(queue) == queue
Rest(queue) == IF queue # <<>> THEN Tail(queue) ELSE queue
NextAfter(queue, next) == IF queue # <<>> THEN next ELSE next + 1

(* Server_ClientConnected *)
ClientConnected(e) ==
    LET id == LowNumber(reclaimableUserIDs, nextUserID)
    IN  /\ userID[e] = NoUser
        /\ userID' = [userID EXCEPT ![e] = id]
        /\ reclaimableUserIDs' = Rest(reclaimableUserIDs)
        /\ nextUserID' = NextAfter(reclaimableUserIDs, nextUserID)
        /\ outbox' = SendTo({e}, Packet("#", id))
        /\ UNCHANGED <<realmVars, storeVars>>

(* Server_ClientDisconnected *)
ClientDisconnected(e) ==
    /\ userID[e] # NoUser
    /\ ChangeRealm(e, NoRealm, FALSE, reclaimableRealmIDs)
    /\ userID' = [userID EXCEPT ![e] = NoUser]
    /\ reclaimableUserIDs' = Append(reclaimableUserIDs, userID[e])
    /\ UNCHANGED <<nextUserID, nextRealmID, now>>

(***************************************************************************)
(* What a disciplined client names: a public realm or one that is live in  *)
(* "^n", a public realm that is not live in "&n".  The server checks       *)
(* nothing of this; a client that read a number some time ago may write it *)
(* when the realm is gone.                                                 *)
(***************************************************************************)
MayJoin(n, child) ==
    \/ ~Disciplined
    \/ n \in RealmNumber /\ ~Private(n) /\ (child => n \notin realms)
    \/ n \in realms /\ ~child

(* "^n" and "&n" *)
JoinNumbered(e, n, child) ==
    /\ userID[e] # NoUser
    /\ MayJoin(n, child)
    /\ Private(n) /\ n \notin realms => Len(reclaimableRealmIDs) < MaxReclaimable
    /\ ChangeRealm(e, n, child, reclaimableRealmIDs)
    /\ UNCHANGED <<userVars, nextRealmID, now>>

(* "^" and "&" *)
CreateRealm(e, child) ==
    /\ userID[e] # NoUser
    /\ LowNumber(reclaimableRealmIDs, nextRealmID) <= MaxRealmID
    /\ ChangeRealm(e, LowNumber(reclaimableRealmIDs, nextRealmID), child,
                   Rest(reclaimableRealmIDs))
    /\ nextRealmID' = NextAfter(reclaimableRealmIDs, nextRealmID)
    /\ UNCHANGED <<userVars, now>>

-----------------------------------------------------------------------------
(* The commands of Server_ClientSendText that need a realm.  Outside of a  *)
(* realm they do nothing.                                                  *)

Members(e) == ToSet(realmUsers[userRealm[e]])

(* "*" *)
SendToAll(e) ==
    /\ userRealm[e] # NoRealm
    /\ outbox' = SendTo(Members(e), Packet("*", userID[e]))
    /\ UNCHANGED <<userVars, realmVars, storeVars>>

(* "!" *)
SendExcept(e) ==
    /\ userRealm[e] # NoRealm
    /\ outbox' = SendTo(Members(e) \ {e}, Packet("!", userID[e]))
    /\ UNCHANGED <<userVars, realmVars, storeVars>>

(* "@n": to the user with number n, in whatever realm; nextUserID stands   *)
(* for a number nobody has.                                                *)
SendToUser(e, n) ==
    /\ userRealm[e] # NoRealm
    /\ outbox' = SendTo({x \in Connected : userID[x] = n}, Packet("@", userID[e]))
    /\ UNCHANGED <<userVars, realmVars, storeVars>>

(* ":n": to the first user of realm n. *)
SendToRealm(e, n) ==
    /\ userRealm[e] # NoRealm
    /\ outbox' = IF n \in realms /\ realmUsers[n] # <<>>
                 THEN SendTo({Head(realmUsers[n])}, Packet("@", userID[e]))
                 ELSE Silence
    /\ UNCHANGED <<userVars, realmVars, storeVars>>

(* "<r,k"; r is the sender's realm when it is left out. *)
LoadEntity(e, r, k) ==
    /\ userRealm[e] # NoRealm
    /\ files' = AfterLoad(r, k)
    /\ outbox' = SendTo({e}, DataPacket(r, k, LoadedData(r, k)))
    /\ UNCHANGED <<userVars, realmVars, now>>

(* ">k,t d" *)
SaveEntity(e, k, t, d) ==
    /\ userRealm[e] # NoRealm
    /\ files' = AfterSave(userRealm[e], k, t, d)
    /\ outbox' = Silence
    /\ UNCHANGED <<userVars, realmVars, now>>

-----------------------------------------------------------------------------
Nowhere == [e \in EndPoint |-> NoRealm]
NoUsers == [e \in EndPoint |-> NoUser]
NoLinks == [r \in RealmNumber |-> NoRealm]
NoChildren == [r \in RealmNumber |-> {}]
EmptyLists == [r \in RealmNumber |-> <<>>]

(* A new Server object, in the directory the constructor has upgraded. *)
Init == /\ userID = NoUsers
        /\ reclaimableUserIDs = <<>>
        /\ nextUserID = 0
        /\ userRealm = Nowhere
        /\ realms = {}
        /\ realmParent = NoLinks
        /\ realmChildren = NoChildren
        /\ realmUsers = EmptyLists
        /\ reclaimableRealmIDs = <<>>
        /\ nextRealmID = PublicRealmCount
        /\ outbox = Silence
        /\ InitStore

(* The process stops, every connection with it, and a new one starts: the  *)
(* directory is all that is left, and the constructor upgrades it.         *)
Restart == /\ userID' = NoUsers
           /\ reclaimableUserIDs' = <<>>
           /\ nextUserID' = 0
           /\ userRealm' = Nowhere
           /\ realms' = {}
           /\ realmParent' = NoLinks
           /\ realmChildren' = NoChildren
           /\ realmUsers' = EmptyLists
           /\ reclaimableRealmIDs' = <<>>
           /\ nextRealmID' = PublicRealmCount
           /\ outbox' = Silence
           /\ files' = Upgraded(files)
           /\ UNCHANGED now

PassTime == /\ Tick
            /\ outbox' = Silence
            /\ UNCHANGED <<userVars, realmVars, files>>

Next == \/ \E e \in EndPoint : ClientConnected(e) \/ ClientDisconnected(e)
        \/ \E e \in EndPoint, n \in JoinNumber, child \in BOOLEAN :
              JoinNumbered(e, n, child)
        \/ \E e \in EndPoint, child \in BOOLEAN : CreateRealm(e, child)
        \/ \E e \in EndPoint : SendToAll(e) \/ SendExcept(e)
        \/ \E e \in EndPoint, n \in 0 .. nextUserID : SendToUser(e, n)
        \/ \E e \in EndPoint, n \in RealmNumber : SendToRealm(e, n)
        \/ \E e \in EndPoint, r \in RealmNumber, k \in EntityName :
              LoadEntity(e, r, k)
        \/ \E e \in EndPoint, k \in EntityName, t \in Lifetime,
              d \in Data \cup {NoData} : SaveEntity(e, k, t, d)
        \/ PassTime
        \/ Restart

Spec == Init /\ [][Next]_vars

-----------------------------------------------------------------------------
(* Properties. *)

(* The shape of the server's state: what each dictionary, list, queue and  *)
(* counter of Server.cs may hold.  Only a live realm has a parent,         *)
(* children or users.                                                      *)
TypeOK ==
    /\ userID \in [EndPoint -> Nat \cup {NoUser}]
    /\ reclaimableUserIDs \in Seq(Nat)
    /\ nextUserID \in Nat
    /\ userRealm \in [EndPoint -> realms \cup {NoRealm}]
    /\ realms \subseteq RealmNumber
    /\ realmParent \in [RealmNumber -> realms \cup {NoRealm}]
    /\ realmChildren \in [RealmNumber -> SUBSET realms]
    /\ realmUsers \in [RealmNumber -> Seq(EndPoint)]
    /\ \A r \in RealmNumber \ realms : /\ realmParent[r] = NoRealm
                                      /\ realmChildren[r] = {}
                                      /\ realmUsers[r] = <<>>
    /\ reclaimableRealmIDs \in Seq(RealmNumber)
    /\ nextRealmID \in PublicRealmCount .. MaxRealmID + 1
    /\ DirectoryOK

(* Every number handed out so far is either the number of exactly one      *)
(* connected user or waits exactly once in the queue: no number is given   *)
(* to two users ("unique across the server"), none is lost, however        *)
(* connections, disconnections and reuse interleave.                       *)
UserNumbers ==
    /\ \A e, x \in Connected : userID[e] = userID[x] => e = x
    /\ IsInjective(reclaimableUserIDs)
    /\ \A e \in Connected : userID[e] \notin ToSet(reclaimableUserIDs)
    /\ {userID[e] : e \in Connected} \cup ToSet(reclaimableUserIDs)
         = 0 .. nextUserID - 1

(* User.Realm and Realm.Users, two records of one fact, agree: a user is   *)
(* listed once, in the realm it points to and in no other, and a user that *)
(* has gone is listed nowhere.                                             *)
Membership ==
    /\ \A r \in RealmNumber : IsInjective(realmUsers[r])
    /\ \A r \in RealmNumber, e \in EndPoint :
          e \in ToSet(realmUsers[r]) <=> userRealm[e] = r
    /\ \A e \in EndPoint : userRealm[e] # NoRealm => e \in Connected

(* Realm.Parent and Realm.ChildRealms, again two records of one fact,      *)
(* agree, and the cleanup never destroys a realm below which one is live.  *)
RealmLinks ==
    \A r, p \in RealmNumber : r \in realmChildren[p] <=> realmParent[r] = p

(* No realm is its own ancestor: the cleanup loop, which climbs from       *)
(* parent to parent, ends.                                                 *)
Acyclic ==
    \A S \in SUBSET realms : S # {} => \E r \in S : realmParent[r] \notin S

RealmTree == RealmLinks /\ Acyclic

(* Among disciplined clients every private number handed out so far is     *)
(* live or waits once in the queue, never both: "^" cannot hand out a      *)
(* number that is in use, and none is lost.                                *)
RealmNumbers ==
    /\ IsInjective(reclaimableRealmIDs)
    /\ ToSet(reclaimableRealmIDs) \cap realms = {}
    /\ ToSet(reclaimableRealmIDs) \cup {r \in realms : Private(r)}
         = PublicRealmCount .. nextRealmID - 1

(* Among disciplined clients a live realm has a user in it or below it:    *)
(* the last one to leave takes the whole empty branch down.                *)
NoDeadRealm ==
    \A r \in realms : realmUsers[r] # <<>> \/ realmChildren[r] # {}

(* "If omitted, creates a new realm": the realm a bare "^" or "&" takes    *)
(* its sender to did not exist before.                                     *)
CreatedRealmIsNew ==
    [][\A e \in EndPoint :
          userRealm'[e] \in realms =>
             ~ \E child \in BOOLEAN : CreateRealm(e, child)]_vars

(* "If omitted, then the data is stored permanently": a load of an entity  *)
(* that was saved without a time returns it.                               *)
PermanentDataIsFound ==
    [][\A e \in EndPoint, r \in RealmNumber, k \in EntityName :
          LoadEntity(e, r, k) =>
             \A f \in GetFile(r, k) :
                f.expiry = 0 => outbox'[e] = <<DataPacket(r, k, f.data)>>]_vars

(* "Remove realm data": when a private realm is destroyed, nothing saved   *)
(* in it is left for the realm that will reuse its number.                 *)
DestroyedRealmKeepsNoData ==
    [][\A r \in realms \ realms' :
          Private(r) /\ ~Restart =>
             \A k \in EntityName : GetFile(r, k)' = {}]_vars
=============================================================================
