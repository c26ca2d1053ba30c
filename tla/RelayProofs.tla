----------------------------- MODULE RelayProofs -----------------------------
(***************************************************************************)
(* The invariants of RelayServer, proved for any number of end points and  *)
(* realms.  They need each other: a realm is destroyed only if no user     *)
(* points to it (Membership) and no live realm has it as its parent        *)
(* (RealmLinks), and both are needed for the types.  So the inductive      *)
(* invariant is their conjunction.  Then: the realm data implements        *)
(* TimedStore.  At the end: the frames that the server's packets become on *)
(* their way to a page, for the modules over RelayLink.                    *)
(***************************************************************************)
EXTENDS RelayData, RelayLink, QueueLemmas, FiniteSetTheorems

IInv == TypeOK /\ UserNumbers /\ Membership /\ RealmTree

USE DEF NoRealm, NoUser

(* The queue of a destruction: the private realms of D, each once. *)
LEMMA ReclaimedDistinct ==
    ASSUME NEW D \in SUBSET RealmNumber, NEW parent,
           NEW q \in Reclaimed(D, parent)
    PROVE  /\ q \in Seq(RealmNumber)
           /\ IsInjective(q)
           /\ ToSet(q) = {r \in D : Private(r)}
<1> DEFINE F == {r \in D : Private(r)}
           n == Cardinality(F)
<1>1. n \in Nat
  <2>1. IsFiniteSet(RealmNumber)
    BY RelayAssumption, FS_Interval DEF RealmNumber
  <2>2. F \in SUBSET RealmNumber
    OBVIOUS
  <2>3. IsFiniteSet(F)
    BY <2>1, <2>2, FS_Subset
  <2> QED BY <2>3, FS_CardinalityType
<1>2. q \in Bijection(1 .. n, F)
  BY DEF Reclaimed
<1> HIDE DEF F, n
<1>3. /\ q \in [1 .. n -> F]
      /\ IsInjective(q)
      /\ \A r \in F : \E i \in 1 .. n : q[i] = r
  BY <1>2 DEF Bijection, Injection, Surjection
<1>4. q \in Seq(F)
  BY <1>1, <1>3, SeqDef
<1>5. F \subseteq RealmNumber
  BY DEF F
<1>6. q \in Seq(RealmNumber)
  BY <1>4, <1>5, SeqMonotonic
<1>7. DOMAIN q = 1 .. n
  BY <1>3
<1>8. ToSet(q) = F
  BY <1>3, <1>7 DEF ToSet
<1> QED BY <1>3, <1>6, <1>8 DEF F

(* The lists of users after a move: the mover has changed lists, everybody *)
(* else is where User.Realm says.                                          *)
LEMMA UsersMoved ==
    ASSUME TypeOK, Membership,
           NEW e \in EndPoint, NEW target \in RealmNumber \cup {NoRealm},
           userRealm[e] # target
    PROVE  /\ UsersAfter(e, target) \in [RealmNumber -> Seq(EndPoint)]
           /\ \A r \in RealmNumber : IsInjective(UsersAfter(e, target)[r])
           /\ \A r \in RealmNumber, x \in EndPoint :
                 x \in ToSet(UsersAfter(e, target)[r])
                   <=> IF x = e THEN r = target ELSE userRealm[x] = r
<1> SUFFICES ASSUME NEW r \in RealmNumber
             PROVE  /\ UsersAfter(e, target)[r] \in Seq(EndPoint)
                    /\ IsInjective(UsersAfter(e, target)[r])
                    /\ \A x \in EndPoint :
                          x \in ToSet(UsersAfter(e, target)[r])
                            <=> IF x = e THEN r = target ELSE userRealm[x] = r
  BY DEF UsersAfter
<1>1. /\ realmUsers[r] \in Seq(EndPoint)
      /\ IsInjective(realmUsers[r])
      /\ \A x \in EndPoint : x \in ToSet(realmUsers[r]) <=> userRealm[x] = r
  BY DEF TypeOK, Membership
<1>2. CASE r = userRealm[e]
  <2>1. UsersAfter(e, target)[r] = RemoveFirst(realmUsers[r], e)
    BY <1>2 DEF UsersAfter
  <2> QED BY <2>1, <1>1, <1>2, RemoveFirstOfDistinct
<1>3. CASE r # userRealm[e] /\ r = target
  <2>1. UsersAfter(e, target)[r] = Append(realmUsers[r], e)
    BY <1>3 DEF UsersAfter
  <2>2. e \notin ToSet(realmUsers[r])
    BY <1>1, <1>3
  <2> QED BY <2>1, <2>2, <1>1, <1>3, AppendOfNew
<1>4. CASE r # userRealm[e] /\ r # target
  <2>1. UsersAfter(e, target)[r] = realmUsers[r]
    BY <1>4 DEF UsersAfter
  <2> QED BY <2>1, <1>1, <1>4
<1> QED BY <1>2, <1>3, <1>4

(* The links after the creation of a realm, before any is destroyed. *)
LEMMA LinksAfterCreation ==
    ASSUME TypeOK, RealmTree,
           NEW e \in EndPoint, NEW target \in RealmNumber \cup {NoRealm},
           NEW child \in BOOLEAN, userRealm[e] # target
    PROVE  /\ ParentAfter(e, target, child)
                \in [RealmNumber -> RealmsAfter(target) \cup {NoRealm}]
           /\ ChildrenAfter(e, target, child)
                \in [RealmNumber -> SUBSET RealmsAfter(target)]
           /\ \A r \in RealmNumber \ RealmsAfter(target) :
                 /\ ParentAfter(e, target, child)[r] = NoRealm
                 /\ ChildrenAfter(e, target, child)[r] = {}
           /\ \A r, p \in RealmNumber :
                 r \in ChildrenAfter(e, target, child)[p]
                   <=> ParentAfter(e, target, child)[r] = p
           /\ \A S \in SUBSET RealmsAfter(target) :
                 S # {} => \E r \in S : ParentAfter(e, target, child)[r] \notin S
<1> DEFINE P == ParentAfter(e, target, child)
           C == ChildrenAfter(e, target, child)
           R == RealmsAfter(target)
           h == userRealm[e]
<1>1. /\ realms \subseteq RealmNumber
      /\ realmParent \in [RealmNumber -> realms \cup {NoRealm}]
      /\ realmChildren \in [RealmNumber -> SUBSET realms]
      /\ \A r \in RealmNumber \ realms :
            realmParent[r] = NoRealm /\ realmChildren[r] = {}
      /\ h \in realms \cup {NoRealm}
  BY DEF TypeOK
<1>2. \A r \in RealmNumber : r # NoRealm
  BY DEF RealmNumber
<1>3. \A r, p \in RealmNumber : r \in realmChildren[p] <=> realmParent[r] = p
  BY DEF RealmTree, RealmLinks
<1>4. \A S \in SUBSET realms : S # {} => \E r \in S : realmParent[r] \notin S
  BY DEF RealmTree, Acyclic
<1>5. realms \subseteq R
  BY DEF RealmsAfter
<1>6. CASE Creates(target) /\ AsChild(e, child)
  <2>1. /\ target \in RealmNumber
        /\ target \notin realms
        /\ R = realms \cup {target}
        /\ h \in realms
    BY <1>6, <1>1 DEF Creates, AsChild, RealmsAfter
  <2>2. /\ P = [realmParent EXCEPT ![target] = h]
        /\ C = [realmChildren EXCEPT ![h] = @ \cup {target}]
    BY <1>6 DEF ParentAfter, ChildrenAfter
  <2> HIDE DEF P, C, R, h
  <2>3. P \in [RealmNumber -> R \cup {NoRealm}] /\ C \in [RealmNumber -> SUBSET R]
    BY <2>1, <2>2, <1>1
  <2>4. \A r \in RealmNumber \ R : P[r] = NoRealm /\ C[r] = {}
    BY <2>1, <2>2, <1>1
  <2>5. ASSUME NEW r \in RealmNumber, NEW p \in RealmNumber
        PROVE  r \in C[p] <=> P[r] = p
    <3>1. CASE r = target
      BY <3>1, <2>1, <2>2, <1>1
    <3>2. CASE r # target
      BY <3>2, <2>1, <2>2, <1>1, <1>3
    <3> QED BY <3>1, <3>2
  <2>6. ASSUME NEW S \in SUBSET R, S # {}
        PROVE  \E r \in S : P[r] \notin S
    <3>1. CASE S \ {target} = {}
      <4>1. target \in S /\ P[target] = h /\ h \notin S
        BY <3>1, <2>6, <2>1, <2>2, <1>1
      <4> QED BY <4>1
    <3>2. CASE S \ {target} # {}
      <4>1. PICK r \in S \ {target} : realmParent[r] \notin S \ {target}
        BY <3>2, <2>1, <1>4
      <4>2. P[r] = realmParent[r] /\ P[r] # target
        BY <4>1, <2>1, <2>2, <1>1, <1>2
      <4> QED BY <4>1, <4>2
    <3> QED BY <3>1, <3>2
  <2> QED BY <2>3, <2>4, <2>5, <2>6 DEF P, C, R
<1>7. CASE ~(Creates(target) /\ AsChild(e, child))
  <2>1. P = realmParent /\ C = realmChildren
    BY <1>7 DEF ParentAfter, ChildrenAfter
  <2> HIDE DEF P, C
  <2>2. ASSUME NEW S \in SUBSET R, S # {}
        PROVE  \E r \in S : P[r] \notin S
    <3>1. CASE S \cap realms = {}
      <4>1. PICK r \in S : TRUE
        BY <2>2
      <4>2. r \in RealmNumber \ realms
        BY <4>1, <3>1, <1>1 DEF RealmsAfter, Creates
      <4>3. NoRealm \notin S
        BY <1>1, <1>2 DEF RealmsAfter, Creates
      <4> QED BY <4>2, <4>3, <2>1, <1>1
    <3>2. CASE S \cap realms # {}
      <4>1. PICK r \in S \cap realms : realmParent[r] \notin S \cap realms
        BY <3>2, <1>4
      <4>2. realmParent[r] \notin S
        BY <4>1, <1>1, <1>2 DEF RealmsAfter, Creates
      <4> QED BY <4>1, <4>2, <2>1
    <3> QED BY <3>1, <3>2
  <2>3. P \in [RealmNumber -> R \cup {NoRealm}] /\ C \in [RealmNumber -> SUBSET R]
    BY <2>1, <1>1, <1>5
  <2>4. \A r \in RealmNumber \ R : P[r] = NoRealm /\ C[r] = {}
    BY <2>1, <1>1, <1>5
  <2>5. \A r, p \in RealmNumber : r \in C[p] <=> P[r] = p
    BY <2>1, <1>3
  <2> QED BY <2>2, <2>3, <2>4, <2>5 DEF P, C
<1> QED BY <1>6, <1>7

-----------------------------------------------------------------------------
(* The part of the invariant that ChangeRealm maintains. *)
RoomsOK ==
    /\ userRealm \in [EndPoint -> realms \cup {NoRealm}]
    /\ realms \subseteq RealmNumber
    /\ realmParent \in [RealmNumber -> realms \cup {NoRealm}]
    /\ realmChildren \in [RealmNumber -> SUBSET realms]
    /\ realmUsers \in [RealmNumber -> Seq(EndPoint)]
    /\ \A r \in RealmNumber \ realms : /\ realmParent[r] = NoRealm
                                      /\ realmChildren[r] = {}
                                      /\ realmUsers[r] = <<>>
    /\ reclaimableRealmIDs \in Seq(RealmNumber)
    /\ \A r \in RealmNumber : IsInjective(realmUsers[r])
    /\ \A r \in RealmNumber, e \in EndPoint :
          e \in ToSet(realmUsers[r]) <=> userRealm[e] = r
    /\ RealmTree

(* A move from one realm to another keeps the rooms in order: what it      *)
(* destroys has no users, and only children that it destroys as well.      *)
LEMMA MoveKeepsRooms ==
    ASSUME TypeOK, Membership, RealmTree,
           NEW e \in EndPoint, NEW target \in RealmNumber \cup {NoRealm},
           NEW child \in BOOLEAN, NEW queue \in Seq(RealmNumber),
           userRealm[e] # target, MoveToRealm(e, target, child, queue)
    PROVE  /\ RoomsOK'
           /\ userRealm' = [userRealm EXCEPT ![e] = target]
           /\ files' \subseteq files
<1> DEFINE U == UsersAfter(e, target)
           P == ParentAfter(e, target, child)
           C == ChildrenAfter(e, target, child)
           R == RealmsAfter(target)
<1>1. PICK D \in SUBSET R :
         /\ Destroys(e, target, child, D)
         /\ userRealm' = [userRealm EXCEPT ![e] = target]
         /\ realms' = R \ D
         /\ realmUsers' = U
         /\ realmParent' = [r \in RealmNumber |-> IF r \in D THEN NoRealm ELSE P[r]]
         /\ realmChildren' = [r \in RealmNumber |-> IF r \in D THEN {} ELSE C[r] \ D]
         /\ \E freed \in Reclaimed(D, P) : reclaimableRealmIDs' = queue \o freed
         /\ files' \subseteq files
  BY DEF MoveToRealm
<1>2. /\ U \in [RealmNumber -> Seq(EndPoint)]
      /\ \A r \in RealmNumber : IsInjective(U[r])
      /\ \A r \in RealmNumber, x \in EndPoint :
            x \in ToSet(U[r]) <=> IF x = e THEN r = target ELSE userRealm[x] = r
  BY UsersMoved
<1>3. /\ P \in [RealmNumber -> R \cup {NoRealm}]
      /\ C \in [RealmNumber -> SUBSET R]
      /\ \A r \in RealmNumber \ R : P[r] = NoRealm /\ C[r] = {}
      /\ \A r, p \in RealmNumber : r \in C[p] <=> P[r] = p
      /\ \A S \in SUBSET R : S # {} => \E r \in S : P[r] \notin S
  BY LinksAfterCreation
<1>4. \A r \in D : U[r] = <<>> /\ C[r] \subseteq D
  BY <1>1 DEF Destroys
<1>5. /\ R \subseteq RealmNumber
      /\ realms \subseteq R
      /\ target # NoRealm => target \in R
      /\ userRealm \in [EndPoint -> realms \cup {NoRealm}]
      /\ NoRealm \notin RealmNumber
  BY DEF TypeOK, RealmsAfter, Creates, RealmNumber
<1>6. \A r \in RealmNumber \ R : U[r] = <<>>
  BY <1>5 DEF TypeOK, UsersAfter, RealmsAfter, Creates, RealmNumber
<1> HIDE DEF U, P, C, R
<1>7. \A r \in D, x \in EndPoint : IF x = e THEN r # target ELSE userRealm[x] # r
  BY <1>2, <1>4, <1>5, EmptyQueue
<1>8. userRealm' \in [EndPoint -> realms' \cup {NoRealm}]
  BY <1>1, <1>5, <1>7
<1>9. realmParent' \in [RealmNumber -> realms' \cup {NoRealm}]
  <2> SUFFICES ASSUME NEW r \in RealmNumber, r \notin D
               PROVE  P[r] \in (R \ D) \cup {NoRealm}
    BY <1>1
  <2>1. P[r] \notin D
    BY <1>3, <1>4, <1>5
  <2> QED BY <2>1, <1>3
<1>10. realmChildren' \in [RealmNumber -> SUBSET realms']
  BY <1>1, <1>3
<1>11. \A r \in RealmNumber \ realms' : /\ realmParent'[r] = NoRealm
                                        /\ realmChildren'[r] = {}
                                        /\ realmUsers'[r] = <<>>
  BY <1>1, <1>3, <1>4, <1>6
<1>12. reclaimableRealmIDs' \in Seq(RealmNumber)
  <2>1. PICK freed \in Reclaimed(D, P) : reclaimableRealmIDs' = queue \o freed
    BY <1>1
  <2>2. D \in SUBSET RealmNumber
    BY <1>5
  <2>3. freed \in Seq(RealmNumber)
    BY <2>2, ReclaimedDistinct
  <2> QED BY <2>1, <2>3, ConcatProperties
<1>13. \A r \in RealmNumber, x \in EndPoint :
          x \in ToSet(realmUsers'[r]) <=> userRealm'[x] = r
  BY <1>1, <1>2, <1>5
<1>14. RealmLinks'
  <2> SUFFICES ASSUME NEW r \in RealmNumber, NEW p \in RealmNumber
               PROVE  r \in realmChildren'[p] <=> realmParent'[r] = p
    BY DEF RealmLinks
  <2>1. CASE p \in D
    BY <2>1, <1>1, <1>3, <1>4, <1>5
  <2>2. CASE p \notin D
    BY <2>2, <1>1, <1>3, <1>5
  <2> QED BY <2>1, <2>2
<1>15. Acyclic'
  <2> SUFFICES ASSUME NEW S \in SUBSET (R \ D), S # {}
               PROVE  \E r \in S : realmParent'[r] \notin S
    BY <1>1 DEF Acyclic
  <2>1. PICK r \in S : P[r] \notin S
    BY <1>3
  <2>2. realmParent'[r] = P[r]
    BY <1>1, <1>5
  <2> QED BY <2>1, <2>2
<1>16. realms' \subseteq RealmNumber
  BY <1>1, <1>5
<1>17. realmUsers' \in [RealmNumber -> Seq(EndPoint)]
  BY <1>1, <1>2
<1>18. \A r \in RealmNumber : IsInjective(realmUsers'[r])
  BY <1>1, <1>2
<1>19. (RealmTree)'
  BY <1>14, <1>15 DEF RealmTree
<1>20. RoomsOK'
  BY <1>8, <1>9, <1>10, <1>11, <1>12, <1>13, <1>16, <1>17, <1>18, <1>19
  DEF RoomsOK
<1> QED BY <1>1, <1>20

(* The whole of ChangeRealm, its early return included. *)
LEMMA ChangeKeepsRooms ==
    ASSUME TypeOK, Membership, RealmTree,
           NEW e \in EndPoint, NEW target \in RealmNumber \cup {NoRealm},
           NEW child \in BOOLEAN, NEW queue \in Seq(RealmNumber),
           ChangeRealm(e, target, child, queue)
    PROVE  /\ RoomsOK'
           /\ userRealm' = [userRealm EXCEPT ![e] = target]
           /\ files' \subseteq files
<1>1. CASE userRealm[e] = target
  <2>1. StayInRealm(queue)
    BY <1>1 DEF ChangeRealm
  <2>2. /\ reclaimableRealmIDs' = queue
        /\ UNCHANGED <<userRealm, realms, realmParent, realmChildren,
                       realmUsers, files>>
    BY <2>1 DEF StayInRealm
  <2>3. userRealm' = [userRealm EXCEPT ![e] = target]
    BY <1>1, <2>2 DEF TypeOK
  <2>4. RealmTree'
    BY <2>2 DEF RealmTree, RealmLinks, Acyclic
  <2>5. RoomsOK'
    BY <2>2, <2>4 DEF RoomsOK, TypeOK, Membership
  <2> QED BY <2>2, <2>3, <2>5
<1>2. CASE userRealm[e] # target
  BY <1>2, MoveKeepsRooms DEF ChangeRealm
<1> QED BY <1>1, <1>2

-----------------------------------------------------------------------------
(* The part about user numbers. *)
UsersOK == /\ userID \in [EndPoint -> Nat \cup {NoUser}]
           /\ reclaimableUserIDs \in Seq(Nat)
           /\ nextUserID \in Nat
           /\ UserNumbers

(* A number given out is one that nobody has, and leaves the queue. *)
LEMMA ConnectKeepsNumbers ==
    ASSUME UsersOK, NEW e \in EndPoint, ClientConnected(e)
    PROVE  /\ UsersOK'
           /\ Connected' = Connected \cup {e}
<1> DEFINE id == LowNumber(reclaimableUserIDs, nextUserID)
           rest == Rest(reclaimableUserIDs)
           next == NextAfter(reclaimableUserIDs, nextUserID)
           taken == {userID[x] : x \in Connected}
<1>1. /\ userID \in [EndPoint -> Nat \cup {NoUser}]
      /\ reclaimableUserIDs \in Seq(Nat)
      /\ nextUserID \in Nat
      /\ \A x, y \in Connected : userID[x] = userID[y] => x = y
      /\ IsInjective(reclaimableUserIDs)
      /\ taken \cap ToSet(reclaimableUserIDs) = {}
      /\ taken \cup ToSet(reclaimableUserIDs) = 0 .. nextUserID - 1
  BY DEF UsersOK, UserNumbers
<1>2. /\ userID[e] = NoUser
      /\ userID' = [userID EXCEPT ![e] = id]
      /\ reclaimableUserIDs' = rest
      /\ nextUserID' = next
  BY DEF ClientConnected
<1>3. /\ id \in Nat
      /\ rest \in Seq(Nat)
      /\ next \in Nat
      /\ IsInjective(rest)
      /\ id \notin ToSet(rest)
      /\ id \notin taken
      /\ ToSet(rest) \subseteq ToSet(reclaimableUserIDs)
      /\ taken \cup ToSet(rest) \cup {id} = 0 .. next - 1
  <2>1. CASE reclaimableUserIDs # <<>>
    <3>1. /\ id = Head(reclaimableUserIDs)
          /\ rest = Tail(reclaimableUserIDs)
          /\ next = nextUserID
      BY <2>1 DEF LowNumber, Rest, NextAfter
    <3> HIDE DEF id, rest, next, taken
    <3>2. /\ id \in Nat
          /\ rest \in Seq(Nat)
          /\ IsInjective(rest)
          /\ ToSet(reclaimableUserIDs) = ToSet(rest) \cup {id}
          /\ id \notin ToSet(rest)
      BY <3>1, <2>1, <1>1, DequeueOfDistinct
    <3> QED BY <3>1, <3>2, <1>1
  <2>2. CASE reclaimableUserIDs = <<>>
    <3>1. /\ id = nextUserID
          /\ rest = <<>>
          /\ next = nextUserID + 1
      BY <2>2 DEF LowNumber, Rest, NextAfter
    <3> HIDE DEF id, rest, next, taken
    <3>2. /\ ToSet(rest) = {}
          /\ IsInjective(rest)
          /\ rest \in Seq(Nat)
      BY <3>1, EmptyQueue
    <3>3. taken = 0 .. nextUserID - 1
      BY <1>1, <2>2, EmptyQueue
    <3>4. /\ id \notin taken
          /\ taken \cup {id} = 0 .. next - 1
      BY <3>1, <3>3, <1>1
    <3> QED BY <3>1, <3>2, <3>4, <2>2, <1>1
  <2> QED BY <2>1, <2>2
<1> HIDE DEF id, rest, next
<1>4. Connected' = Connected \cup {e}
  BY <1>1, <1>2, <1>3 DEF Connected
<1>5. {userID'[x] : x \in Connected'} = taken \cup {id}
  BY <1>1, <1>2, <1>4 DEF Connected
<1>6. ASSUME NEW x \in Connected', NEW y \in Connected', userID'[x] = userID'[y]
      PROVE  x = y
  <2>1. ASSUME NEW z \in Connected
        PROVE  z # e /\ userID'[z] = userID[z] /\ userID'[z] # id
    BY <1>1, <1>2, <1>3 DEF Connected
  <2>2. userID'[e] = id
    BY <1>1, <1>2
  <2> QED BY <2>1, <2>2, <1>1, <1>4, <1>6
<1>7. \A x \in Connected' : userID'[x] \notin ToSet(reclaimableUserIDs')
  <2>1. (taken \cup {id}) \cap ToSet(rest) = {}
    BY <1>1, <1>3
  <2> QED BY <2>1, <1>2, <1>5
<1>8. UserNumbers'
  BY <1>2, <1>3, <1>5, <1>6, <1>7 DEF UserNumbers
<1>9. userID' \in [EndPoint -> Nat \cup {NoUser}]
  BY <1>1, <1>2, <1>3
<1> QED BY <1>2, <1>3, <1>4, <1>8, <1>9 DEF UsersOK

(* The number of a user that goes is queued, and was not queued before. *)
LEMMA DisconnectKeepsNumbers ==
    ASSUME UsersOK, NEW e \in EndPoint, ClientDisconnected(e)
    PROVE  /\ UsersOK'
           /\ Connected' = Connected \ {e}
<1> DEFINE id == userID[e]
           queue == Append(reclaimableUserIDs, id)
           taken == {userID[x] : x \in Connected}
<1>1. /\ userID \in [EndPoint -> Nat \cup {NoUser}]
      /\ reclaimableUserIDs \in Seq(Nat)
      /\ nextUserID \in Nat
      /\ \A x, y \in Connected : userID[x] = userID[y] => x = y
      /\ IsInjective(reclaimableUserIDs)
      /\ taken \cap ToSet(reclaimableUserIDs) = {}
      /\ taken \cup ToSet(reclaimableUserIDs) = 0 .. nextUserID - 1
  BY DEF UsersOK, UserNumbers
<1>2. /\ userID[e] # NoUser
      /\ userID' = [userID EXCEPT ![e] = NoUser]
      /\ reclaimableUserIDs' = queue
      /\ nextUserID' = nextUserID
  BY DEF ClientDisconnected
<1>3. e \in Connected /\ id \in taken /\ id \in Nat
  BY <1>1, <1>2 DEF Connected
<1>4. /\ queue \in Seq(Nat)
      /\ IsInjective(queue)
      /\ ToSet(queue) = ToSet(reclaimableUserIDs) \cup {id}
  <2> HIDE DEF id, taken
  <2> QED BY <1>1, <1>3, AppendOfNew
<1> HIDE DEF queue
<1>5. Connected' = Connected \ {e}
  BY <1>1, <1>2 DEF Connected
<1>6. \A x \in Connected' : userID'[x] = userID[x] /\ x \in Connected /\ x # e
  BY <1>1, <1>2, <1>5 DEF Connected
<1>7. {userID'[x] : x \in Connected'} = taken \ {id}
  BY <1>1, <1>3, <1>5, <1>6
<1>8. \A x \in Connected' : userID'[x] \notin ToSet(reclaimableUserIDs')
  <2>1. (taken \ {id}) \cap ToSet(queue) = {}
    BY <1>1, <1>4
  <2> QED BY <2>1, <1>2, <1>7
<1>9. \A x, y \in Connected' : userID'[x] = userID'[y] => x = y
  BY <1>1, <1>6
<1>10. (taken \ {id}) \cup ToSet(queue) = 0 .. nextUserID - 1
  BY <1>1, <1>3, <1>4
<1>11. UserNumbers'
  BY <1>2, <1>4, <1>7, <1>8, <1>9, <1>10 DEF UserNumbers
<1>12. userID' \in [EndPoint -> Nat \cup {NoUser}]
  BY <1>1, <1>2
<1> QED BY <1>1, <1>2, <1>4, <1>5, <1>11, <1>12 DEF UsersOK

-----------------------------------------------------------------------------
(* Every handler leaves a directory with one file per name, and so does    *)
(* the upgrade, of an old directory or of a new one.                       *)
LEMMA FewerFilesOK ==
    ASSUME DirectoryOK, now' \in Nat \ {0}, files' \subseteq files
    PROVE  DirectoryOK'
BY DEF DirectoryOK

LEMMA SaveKeepsDirectory ==
    ASSUME DirectoryOK, NEW e \in EndPoint, NEW k, NEW t \in Int, NEW d, SaveEntity(e, k, t, d)
    PROVE  DirectoryOK'
<1> DEFINE r == userRealm[e]
           new == File(r, k, ExpiryOf(t), d)
<1>1. /\ new.realm = r
      /\ new.name = k
      /\ new.ext = "e"
      /\ new.expiry = ExpiryOf(t)
      /\ new.data = d
  BY DEF File
<1>2. ExpiryOf(t) \in Int
  BY DEF ExpiryOf, DirectoryOK
<1>3. /\ files' = (files \ GetFile(r, k)) \cup (IF d = NoData THEN {} ELSE {new})
      /\ now' = now
  BY DEF SaveEntity, AfterSave
<1> HIDE DEF new, r
<1>4. ASSUME NEW f \in files'
      PROVE  f.ext = "e" /\ f.expiry \in Int /\ f.data # NoData
  BY <1>1, <1>2, <1>3 DEF DirectoryOK
<1>5. ASSUME NEW f \in files', NEW g \in files', SameName(f, g)
      PROVE  f = g
  <2>1. ASSUME NEW h \in files', h # new
        PROVE  h \in files /\ ~SameName(h, new) /\ ~SameName(new, h)
    BY <2>1, <1>1, <1>3 DEF GetFile, SameName, DirectoryOK
  <2> QED BY <2>1, <1>5 DEF DirectoryOK
<1> QED BY <1>3, <1>4, <1>5 DEF DirectoryOK

LEMMA UpgradedFiles ==
    ASSUME NEW dir,
           \A f \in dir : /\ f.ext \in {"e", "entity"}
                          /\ f.expiry \in Int
                          /\ f.data # NoData,
           \A f, g \in dir : SameName(f, g) => f = g
    PROVE  /\ \A f \in Upgraded(dir) : /\ f.ext = "e"
                                       /\ f.expiry \in Int
                                       /\ f.data # NoData
           /\ \A f, g \in Upgraded(dir) : SameName(f, g) => f = g
<1> DEFINE legacy == {f \in dir : f.ext = "entity"}
           up(f) == File(f.realm, f.name, 0, f.data)
           upgraded == {up(f) : f \in legacy}
           kept == {f \in dir \ legacy : \A g \in upgraded : ~SameName(f, g)}
<1>1. Upgraded(dir) = upgraded \cup kept
  BY DEF Upgraded
<1>2. ASSUME NEW f \in legacy
      PROVE  /\ up(f).realm = f.realm
             /\ up(f).name = f.name
             /\ up(f).ext = "e"
             /\ up(f).expiry = 0
             /\ up(f).data = f.data
  BY DEF File
<1>3. \A f, g \in legacy : SameName(up(f), up(g)) => f = g
  BY <1>2 DEF SameName
<1>4. \A f \in legacy : /\ up(f).ext = "e"
                        /\ up(f).expiry \in Int
                        /\ up(f).data # NoData
  BY <1>2
<1> HIDE DEF up
<1>5. \A f \in upgraded \cup kept : /\ f.ext = "e"
                                    /\ f.expiry \in Int
                                    /\ f.data # NoData
  BY <1>4
<1>6. ASSUME NEW f \in upgraded \cup kept, NEW g \in upgraded \cup kept,
             SameName(f, g)
      PROVE  f = g
  <2>1. CASE f \in upgraded /\ g \in upgraded
    BY <2>1, <1>3, <1>6
  <2>2. CASE f \in kept /\ g \in kept
    BY <2>2, <1>6
  <2>3. SameName(g, f)
    BY <1>6 DEF SameName
  <2>4. CASE f \in kept /\ g \in upgraded
    BY <2>4, <1>6
  <2>5. CASE f \in upgraded /\ g \in kept
    BY <2>5, <2>3
  <2> QED BY <2>1, <2>2, <2>4, <2>5
<1> QED BY <1>1, <1>5, <1>6

-----------------------------------------------------------------------------
(* The inductive invariant, part by part. *)
Parts == /\ RoomsOK
         /\ UsersOK
         /\ \A e \in EndPoint : userRealm[e] # NoRealm => e \in Connected
         /\ nextRealmID \in PublicRealmCount .. MaxRealmID + 1
         /\ DirectoryOK

LEMMA PartsOfIInv == IInv <=> Parts
BY DEF Parts, IInv, RoomsOK, UsersOK, TypeOK, Membership

(* A new server has nothing in it. *)
NewServer == /\ userID = NoUsers
             /\ reclaimableUserIDs = <<>>
             /\ nextUserID = 0
             /\ userRealm = Nowhere
             /\ realms = {}
             /\ realmParent = NoLinks
             /\ realmChildren = NoChildren
             /\ realmUsers = EmptyLists
             /\ reclaimableRealmIDs = <<>>
             /\ nextRealmID = PublicRealmCount

LEMMA NewServerIsOK == NewServer /\ DirectoryOK => IInv
<1> SUFFICES ASSUME NewServer, DirectoryOK
             PROVE  IInv
  OBVIOUS
<1>1. Connected = {}
  BY DEF Connected, NewServer, NoUsers
<1>2. RealmTree
  BY DEF RealmTree, RealmLinks, Acyclic, NewServer, NoLinks, NoChildren,
         RealmNumber
<1>3. RoomsOK
  BY <1>2, EmptyQueue DEF RoomsOK, NewServer, Nowhere, NoLinks, NoChildren,
                          EmptyLists, RealmNumber
<1>4. UserNumbers
  BY <1>1, EmptyQueue DEF UserNumbers, NewServer
<1>5. UsersOK
  BY <1>4 DEF UsersOK, NewServer, NoUsers
<1>6. nextRealmID \in PublicRealmCount .. MaxRealmID + 1
  BY RelayAssumption DEF NewServer
<1> QED BY <1>1, <1>3, <1>5, <1>6, PartsOfIInv DEF Parts, NewServer, Nowhere

LEMMA InitIsOK == Init => IInv
<1> SUFFICES ASSUME Init
             PROVE  IInv
  OBVIOUS
<1>1. NewServer
  BY DEF Init, NewServer
<1>2. PICK old \in SUBSET LegacyFile : files = Upgraded(old) /\ now = 1
  BY DEF Init, InitStore
<1>3. DirectoryOK
  <2>1. /\ \A f \in Upgraded(old) : f.ext = "e" /\ f.expiry \in Int /\ f.data # NoData
        /\ \A f, g \in Upgraded(old) : SameName(f, g) => f = g
    BY EntityAssumption, LegacyAssumption, UpgradedFiles
  <2> QED BY <2>1, <1>2 DEF DirectoryOK
<1> QED BY <1>1, <1>3, NewServerIsOK

(* What the steps have in common: the parts they leave alone stay as they  *)
(* are.                                                                    *)
LEMMA PartsStay ==
    ASSUME IInv
    PROVE  /\ UNCHANGED realmVars =>
                  /\ RoomsOK' /\ userRealm' = userRealm
                  /\ nextRealmID' \in PublicRealmCount .. MaxRealmID + 1
           /\ UNCHANGED userVars => UsersOK' /\ Connected' = Connected
           /\ UNCHANGED now /\ files' \subseteq files => DirectoryOK'
           /\ Parts' => IInv'
<1>1. Parts /\ (IInv <=> Parts)' /\ now \in Nat \ {0}
  BY PartsOfIInv, PTL DEF Parts, DirectoryOK
<1>2. ASSUME UNCHANGED realmVars
      PROVE  /\ RoomsOK' /\ userRealm' = userRealm
             /\ nextRealmID' \in PublicRealmCount .. MaxRealmID + 1
  BY <1>1, <1>2 DEF Parts, realmVars, RoomsOK, RealmTree, RealmLinks, Acyclic
<1>3. ASSUME UNCHANGED userVars
      PROVE  UsersOK' /\ Connected' = Connected
  BY <1>1, <1>3 DEF Parts, userVars, UsersOK, UserNumbers, Connected
<1>4. ASSUME UNCHANGED now, files' \subseteq files
      PROVE  DirectoryOK'
  BY <1>1, <1>4, FewerFilesOK DEF Parts
<1> QED BY <1>1, <1>2, <1>3, <1>4

LEMMA OnlyFilesChange ==
    ASSUME IInv, UNCHANGED <<userVars, realmVars>>, DirectoryOK'
    PROVE  IInv'
<1>1. UNCHANGED userVars /\ UNCHANGED realmVars
  OBVIOUS
<1>2. Parts'
  BY <1>1, PartsStay, PartsOfIInv DEF Parts
<1> QED BY <1>2, PartsStay

LEMMA ConnectIsOK ==
    ASSUME IInv, NEW e \in EndPoint, ClientConnected(e)
    PROVE  IInv' /\ Connected' = Connected \cup {e}
<1>1. UNCHANGED realmVars /\ UNCHANGED <<files, now>>
  BY DEF ClientConnected, storeVars
<1>2. UsersOK' /\ Connected' = Connected \cup {e}
  BY ConnectKeepsNumbers, PartsOfIInv DEF Parts
<1>3. Parts'
  BY <1>1, <1>2, PartsStay, PartsOfIInv DEF Parts
<1> QED BY <1>2, <1>3, PartsStay

LEMMA DisconnectIsOK ==
    ASSUME IInv, NEW e \in EndPoint, ClientDisconnected(e)
    PROVE  IInv' /\ Connected' = Connected \ {e}
<1>1. /\ ChangeRealm(e, NoRealm, FALSE, reclaimableRealmIDs)
      /\ UNCHANGED <<nextRealmID, now>>
  BY DEF ClientDisconnected
<1>2. /\ TypeOK /\ Membership /\ RealmTree /\ Parts
      /\ reclaimableRealmIDs \in Seq(RealmNumber)
  BY PartsOfIInv DEF IInv, TypeOK
<1>3. /\ RoomsOK'
      /\ userRealm' = [userRealm EXCEPT ![e] = NoRealm]
      /\ files' \subseteq files
  BY <1>1, <1>2, ChangeKeepsRooms
<1>4. UsersOK' /\ Connected' = Connected \ {e}
  BY <1>2, DisconnectKeepsNumbers DEF Parts
<1>5. \A x \in EndPoint : userRealm'[x] # NoRealm => x \in Connected'
  BY <1>2, <1>3, <1>4 DEF Parts, RoomsOK
<1>6. DirectoryOK'
  BY <1>1, <1>3, PartsStay
<1>7. Parts'
  BY <1>1, <1>2, <1>3, <1>4, <1>5, <1>6 DEF Parts
<1> QED BY <1>4, <1>7, PartsStay

LEMMA ChangeIsOK ==
    ASSUME IInv, NEW e \in EndPoint, userID[e] # NoUser,
           NEW target \in RealmNumber \cup {NoRealm}, NEW child \in BOOLEAN,
           NEW queue \in Seq(RealmNumber), ChangeRealm(e, target, child, queue),
           UNCHANGED <<userVars, now>>,
           nextRealmID' \in PublicRealmCount .. MaxRealmID + 1
    PROVE  /\ IInv'
           /\ userRealm' = [userRealm EXCEPT ![e] = target]
           /\ files' \subseteq files
<1>1. TypeOK /\ Membership /\ RealmTree /\ Parts
  BY PartsOfIInv DEF IInv
<1>2. /\ RoomsOK'
      /\ userRealm' = [userRealm EXCEPT ![e] = target]
      /\ files' \subseteq files
  BY <1>1, ChangeKeepsRooms
<1>3. UsersOK' /\ Connected' = Connected
  BY PartsStay
<1>4. \A x \in EndPoint : userRealm'[x] # NoRealm => x \in Connected'
  BY <1>1, <1>2, <1>3 DEF Parts, RoomsOK, Connected
<1>5. DirectoryOK'
  BY <1>2, PartsStay
<1>6. Parts'
  BY <1>2, <1>3, <1>4, <1>5 DEF Parts
<1> QED BY <1>2, <1>6, PartsStay

LEMMA TalkIsOK ==
    ASSUME IInv, NEW e \in EndPoint,
           \/ SendToAll(e)
           \/ SendExcept(e)
           \/ \E n : SendToUser(e, n)
           \/ \E n : SendToRealm(e, n)
    PROVE  IInv' /\ UNCHANGED <<userVars, realmVars, storeVars>>
<1>1. UNCHANGED <<userVars, realmVars, storeVars>>
  BY DEF SendToAll, SendExcept, SendToUser, SendToRealm
<1>2. DirectoryOK'
  BY <1>1, PartsStay DEF storeVars
<1> QED BY <1>1, <1>2, OnlyFilesChange

LEMMA LoadIsOK ==
    ASSUME IInv, NEW e \in EndPoint, NEW r, NEW k, LoadEntity(e, r, k)
    PROVE  IInv' /\ UNCHANGED <<userVars, realmVars, now>> /\ files' \subseteq files
<1>1. UNCHANGED <<userVars, realmVars, now>> /\ files' \subseteq files
  BY DEF LoadEntity, AfterLoad
<1>2. DirectoryOK'
  BY <1>1, PartsStay
<1> QED BY <1>1, <1>2, OnlyFilesChange

LEMMA SaveIsOK ==
    ASSUME IInv, NEW e \in EndPoint, NEW k, NEW t \in Int, NEW d, SaveEntity(e, k, t, d)
    PROVE  IInv' /\ UNCHANGED <<userVars, realmVars, now>>
<1>1. UNCHANGED <<userVars, realmVars, now>>
  BY DEF SaveEntity
<1>2. DirectoryOK'
  BY SaveKeepsDirectory, PartsOfIInv DEF Parts
<1> QED BY <1>1, <1>2, OnlyFilesChange

(* The number of "^" and "&" is one of a realm. *)
LEMMA LowNumberIsNumber ==
    ASSUME IInv, LowNumber(reclaimableRealmIDs, nextRealmID) <= MaxRealmID
    PROVE  /\ LowNumber(reclaimableRealmIDs, nextRealmID) \in RealmNumber
           /\ Rest(reclaimableRealmIDs) \in Seq(RealmNumber)
           /\ NextAfter(reclaimableRealmIDs, nextRealmID)
                \in PublicRealmCount .. MaxRealmID + 1
<1>1. /\ reclaimableRealmIDs \in Seq(RealmNumber)
      /\ nextRealmID \in PublicRealmCount .. MaxRealmID + 1
  BY DEF IInv, TypeOK
<1>2. CASE reclaimableRealmIDs # <<>>
  BY <1>1, <1>2, HeadTailProperties DEF LowNumber, Rest, NextAfter
<1>3. CASE reclaimableRealmIDs = <<>>
  <2>1. /\ LowNumber(reclaimableRealmIDs, nextRealmID) = nextRealmID
        /\ Rest(reclaimableRealmIDs) = reclaimableRealmIDs
        /\ NextAfter(reclaimableRealmIDs, nextRealmID) = nextRealmID + 1
    BY <1>3, Zenon DEF LowNumber, Rest, NextAfter
  <2>2. nextRealmID <= MaxRealmID
    BY <2>1, Zenon
  <2>3. /\ nextRealmID \in RealmNumber
        /\ nextRealmID + 1 \in PublicRealmCount .. MaxRealmID + 1
    BY <1>1, <2>2, RelayAssumption DEF RealmNumber
  <2> QED BY <1>1, <2>1, <2>3, Zenon
<1> QED BY <1>2, <1>3

LEMMA NextKeepsIInv == IInv /\ [Next]_vars => IInv'
<1> SUFFICES ASSUME IInv, [Next]_vars
             PROVE  IInv'
  OBVIOUS
<1>1. /\ reclaimableRealmIDs \in Seq(RealmNumber)
      /\ nextRealmID \in PublicRealmCount .. MaxRealmID + 1
      /\ DirectoryOK /\ now \in Nat
  BY DEF IInv, TypeOK, DirectoryOK
<1>2. ASSUME NEW e \in EndPoint, NEW n \in JoinNumber, NEW child \in BOOLEAN,
             JoinNumbered(e, n, child)
      PROVE  IInv'
  <2>1. n \in RealmNumber \cup {NoRealm}
    BY RelayAssumption
  <2>2. /\ userID[e] # NoUser
        /\ ChangeRealm(e, n, child, reclaimableRealmIDs)
        /\ UNCHANGED <<userVars, nextRealmID, now>>
    BY <1>2 DEF JoinNumbered
  <2> QED BY <2>1, <2>2, <1>1, ChangeIsOK
<1>3. ASSUME NEW e \in EndPoint, NEW child \in BOOLEAN, CreateRealm(e, child)
      PROVE  IInv'
  <2> DEFINE id == LowNumber(reclaimableRealmIDs, nextRealmID)
             rest == Rest(reclaimableRealmIDs)
             next == NextAfter(reclaimableRealmIDs, nextRealmID)
  <2>1. /\ userID[e] # NoUser
        /\ id <= MaxRealmID
        /\ ChangeRealm(e, id, child, rest)
        /\ nextRealmID' = next
        /\ UNCHANGED <<userVars, now>>
    BY <1>3 DEF CreateRealm
  <2>2. /\ id \in RealmNumber
        /\ rest \in Seq(RealmNumber)
        /\ next \in PublicRealmCount .. MaxRealmID + 1
    BY <2>1, LowNumberIsNumber
  <2> HIDE DEF id, rest, next
  <2> QED BY <2>1, <2>2, ChangeIsOK
<1>4. ASSUME NEW e \in EndPoint, NEW k \in EntityName, NEW t \in Lifetime,
              NEW d \in Data \cup {NoData}, SaveEntity(e, k, t, d)
      PROVE  IInv'
  BY <1>4, EntityAssumption, SaveIsOK
<1>5. CASE PassTime
  <2>1. /\ UNCHANGED <<userVars, realmVars>>
        /\ UNCHANGED files
        /\ now' \in Nat \ {0}
    BY <1>1, <1>5 DEF PassTime, Tick
  <2> QED BY <2>1, <1>1, OnlyFilesChange, FewerFilesOK
<1>6. CASE Restart
  <2>1. NewServer' /\ files' = Upgraded(files) /\ now' = now
    BY <1>6 DEF Restart, NewServer
  <2>2. DirectoryOK'
    <3>1. /\ \A f \in Upgraded(files) : f.ext = "e" /\ f.expiry \in Int /\ f.data # NoData
          /\ \A f, g \in Upgraded(files) : SameName(f, g) => f = g
      BY <1>1, UpgradedFiles DEF DirectoryOK
    <3> QED BY <3>1, <2>1, <1>1 DEF DirectoryOK
  <2>3. (NewServer /\ DirectoryOK => IInv)'
    BY NewServerIsOK, PTL
  <2> QED BY <2>1, <2>2, <2>3
<1>7. CASE UNCHANGED vars
  <2>1. UNCHANGED <<userVars, realmVars>> /\ UNCHANGED <<files, now>>
    BY <1>7 DEF vars, storeVars
  <2> QED BY <2>1, <1>1, OnlyFilesChange, PartsStay
<1> QED BY <1>2, <1>3, <1>4, <1>5, <1>6, <1>7, ConnectIsOK, DisconnectIsOK, TalkIsOK, LoadIsOK
        DEF Next

(* What holds of every reachable state. *)
LEMMA Invariant == Spec => []IInv
<1>1. Init => IInv
  BY InitIsOK
<1>2. IInv /\ [Next]_vars => IInv'
  BY NextKeepsIInv
<1> QED BY <1>1, <1>2, PTL DEF Spec

-----------------------------------------------------------------------------
(* The dictionaries, lists and queues of Server.cs hold what they may hold, *)
(* and a realm that is not live has no parent, children or users.           *)
THEOREM TypeCorrect == Spec => []TypeOK
<1>1. IInv => TypeOK
  BY DEF IInv
<1> QED BY <1>1, Invariant, PTL

(* Server_ClientConnected never gives a number to two users, and            *)
(* Server_ClientDisconnected never loses one.                               *)
THEOREM UserNumbersAreRecycled == Spec => []UserNumbers
<1>1. IInv => UserNumbers
  BY DEF IInv
<1> QED BY <1>1, Invariant, PTL

(* ChangeRealm keeps User.Realm and the lists Realm.Users in agreement.     *)
THEOREM MembershipAgrees == Spec => []Membership
<1>1. IInv => Membership
  BY DEF IInv
<1> QED BY <1>1, Invariant, PTL

(* ChangeRealm keeps Realm.Parent and Realm.ChildRealms in agreement and    *)
(* without a cycle, so that its cleanup loop ends.                          *)
THEOREM RealmsFormTree == Spec => []RealmTree
<1>1. IInv => RealmTree
  BY DEF IInv
<1> QED BY <1>1, Invariant, PTL

-----------------------------------------------------------------------------
(***************************************************************************)
(* Disciplined clients.  A private number is live or waits once in the     *)
(* queue, and every live realm has a user in it or below it.  The second   *)
(* holds because a child realm is always a new one, whose creator enters.  *)
(***************************************************************************)
DisciplinedInv == IInv /\ RealmNumbers /\ NoDeadRealm

(* The cleanup stops at a realm only if a user or a child remains there. *)
LEMMA MoveLeavesNoDeadRealm ==
    ASSUME IInv, NoDeadRealm,
           NEW e \in EndPoint, NEW target \in RealmNumber \cup {NoRealm},
           NEW child \in BOOLEAN, userRealm[e] # target,
           AsChild(e, child) => Creates(target),
           NEW D \in SUBSET RealmsAfter(target), Destroys(e, target, child, D)
    PROVE  \A r \in RealmsAfter(target) \ D :
              \/ UsersAfter(e, target)[r] # <<>>
              \/ ChildrenAfter(e, target, child)[r] \ D # {}
<1> DEFINE U == UsersAfter(e, target)
           C == ChildrenAfter(e, target, child)
           R == RealmsAfter(target)
           h == userRealm[e]
<1> SUFFICES ASSUME NEW r \in R \ D, U[r] = <<>>
             PROVE  C[r] \ D # {}
  OBVIOUS
<1>1. /\ TypeOK /\ Membership /\ RealmTree
      /\ realms \subseteq RealmNumber
      /\ realmChildren \in [RealmNumber -> SUBSET realms]
      /\ h \in realms \cup {NoRealm}
  BY DEF IInv, TypeOK
<1>2. r \in RealmNumber
  BY <1>1 DEF RealmsAfter, Creates
<1>3. r # target
  <2>1. target \in RealmNumber => e \in ToSet(U[target])
    BY <1>1, UsersMoved
  <2> QED BY <2>1, <1>2, EmptyQueue
<1>4. r \in realms
  BY <1>3 DEF RealmsAfter
<1>5. CASE AsChild(e, child)
  <2>1. D = {} /\ h \in realms /\ C = [realmChildren EXCEPT ![h] = @ \cup {target}]
    BY <1>5, <1>1 DEF Destroys, AsChild, ChildrenAfter
  <2>2. CASE r = h
    BY <2>1, <2>2, <1>1
  <2>3. CASE r # h
    <3>1. realmUsers[r] = <<>>
      BY <2>3, <1>2, <1>3 DEF UsersAfter
    <3>2. realmChildren[r] # {}
      BY <3>1, <1>4 DEF NoDeadRealm
    <3> QED BY <3>2, <2>1, <2>3, <1>1, <1>2
  <2> QED BY <2>2, <2>3
<1>6. CASE ~AsChild(e, child)
  <2>1. C = realmChildren
    BY <1>6 DEF ChildrenAfter
  <2>2. D = {x \in R : U[x] = <<>> /\ C[x] \subseteq D /\ (x = h \/ C[x] \cap D # {})}
    BY <1>6 DEF Destroys
  <2>3. CASE r = h
    BY <2>2, <2>3
  <2>4. CASE r # h
    <3>1. realmUsers[r] = <<>>
      BY <2>4, <1>2, <1>3 DEF UsersAfter
    <3>2. C[r] # {}
      BY <3>1, <2>1, <1>4 DEF NoDeadRealm
    <3> HIDE DEF U, C, R, h
    <3> QED BY <3>2, <2>2
  <2> QED BY <2>3, <2>4
<1> QED BY <1>5, <1>6

(* What ChangeRealm does to the numbers: next is the counter afterwards.   *)
LEMMA ChangeKeepsNumbers ==
    ASSUME IInv, NoDeadRealm,
           NEW e \in EndPoint, NEW target \in RealmNumber \cup {NoRealm},
           NEW child \in BOOLEAN, AsChild(e, child) => Creates(target),
           NEW queue \in Seq(RealmNumber), IsInjective(queue),
           ToSet(queue) \cap RealmsAfter(target) = {},
           ChangeRealm(e, target, child, queue)
    PROVE  /\ NoDeadRealm'
           /\ IsInjective(reclaimableRealmIDs')
           /\ ToSet(reclaimableRealmIDs') \cap realms' = {}
           /\ ToSet(reclaimableRealmIDs') \cup {r \in realms' : Private(r)}
                = ToSet(queue) \cup {r \in RealmsAfter(target) : Private(r)}
<1>0. /\ realms \subseteq RealmNumber
      /\ userRealm[e] \in realms \cup {NoRealm}
      /\ RealmsAfter(target) \subseteq RealmNumber
      /\ TypeOK /\ Membership /\ RealmTree
  BY DEF IInv, TypeOK, RealmsAfter, Creates
<1>1. CASE userRealm[e] = target
  <2>1. /\ reclaimableRealmIDs' = queue
        /\ realms' = realms
        /\ realmUsers' = realmUsers
        /\ realmChildren' = realmChildren
    BY <1>1 DEF ChangeRealm, StayInRealm
  <2>2. RealmsAfter(target) = realms
    BY <1>0, <1>1 DEF RealmsAfter, Creates
  <2> QED BY <2>1, <2>2 DEF NoDeadRealm
<1>2. CASE userRealm[e] # target
  <2> DEFINE R == RealmsAfter(target)
             U == UsersAfter(e, target)
             C == ChildrenAfter(e, target, child)
             P == ParentAfter(e, target, child)
  <2>1. PICK D \in SUBSET R :
          /\ Destroys(e, target, child, D)
          /\ realms' = R \ D
          /\ realmUsers' = U
          /\ realmChildren' = [r \in RealmNumber |-> IF r \in D THEN {} ELSE C[r] \ D]
          /\ \E freed \in Reclaimed(D, P) : reclaimableRealmIDs' = queue \o freed
    BY <1>2 DEF ChangeRealm, MoveToRealm
  <2>2. PICK freed \in Reclaimed(D, P) : reclaimableRealmIDs' = queue \o freed
    BY <2>1
  <2>3. D \in SUBSET RealmNumber
    BY <1>0
  <2>4. /\ freed \in Seq(RealmNumber)
        /\ IsInjective(freed)
        /\ ToSet(freed) = {r \in D : Private(r)}
    BY <2>3, ReclaimedDistinct
  <2>5. \A r \in R \ D : U[r] # <<>> \/ C[r] \ D # {}
    BY <2>1, <1>2, MoveLeavesNoDeadRealm
  <2> HIDE DEF R, U, C, P
  <2>6. NoDeadRealm'
    BY <2>1, <2>5, <1>0 DEF NoDeadRealm, R
  <2>7. ToSet(queue) \cap ToSet(freed) = {}
    BY <2>4 DEF R
  <2>8. /\ IsInjective(queue \o freed)
        /\ ToSet(queue \o freed) = ToSet(queue) \cup ToSet(freed)
    BY <2>4, <2>7, ConcatOfDistinct
  <2> QED BY <2>1, <2>2, <2>4, <2>6, <2>8 DEF R
<1> QED BY <1>1, <1>2

(* The number of a bare "^" is that of no live realm, and is now in use.   *)
LEMMA LowNumberIsFree ==
    ASSUME IInv, RealmNumbers,
           LowNumber(reclaimableRealmIDs, nextRealmID) <= MaxRealmID
    PROVE  LET id   == LowNumber(reclaimableRealmIDs, nextRealmID)
               rest == Rest(reclaimableRealmIDs)
               next == NextAfter(reclaimableRealmIDs, nextRealmID)
           IN  /\ id \in RealmNumber \ realms
               /\ rest \in Seq(RealmNumber)
               /\ IsInjective(rest)
               /\ ToSet(rest) \cap (realms \cup {id}) = {}
               /\ ToSet(rest) \cup {r \in realms \cup {id} : Private(r)}
                    = PublicRealmCount .. next - 1
<1> DEFINE id   == LowNumber(reclaimableRealmIDs, nextRealmID)
           rest == Rest(reclaimableRealmIDs)
           next == NextAfter(reclaimableRealmIDs, nextRealmID)
           live == {r \in realms : Private(r)}
<1>1. /\ reclaimableRealmIDs \in Seq(RealmNumber)
      /\ nextRealmID \in PublicRealmCount .. MaxRealmID + 1
      /\ realms \subseteq RealmNumber
      /\ IsInjective(reclaimableRealmIDs)
      /\ ToSet(reclaimableRealmIDs) \cap realms = {}
      /\ ToSet(reclaimableRealmIDs) \cup live = PublicRealmCount .. nextRealmID - 1
  BY DEF IInv, TypeOK, RealmNumbers
<1>2. PublicRealmCount \in Nat /\ MaxRealmID \in Nat
  BY RelayAssumption
<1>3. CASE reclaimableRealmIDs # <<>>
  <2>1. id = Head(reclaimableRealmIDs) /\ rest = Tail(reclaimableRealmIDs) /\ next = nextRealmID
    BY <1>3 DEF LowNumber, Rest, NextAfter
  <2> HIDE DEF id, rest, next
  <2>2. /\ id \in RealmNumber
        /\ rest \in Seq(RealmNumber)
        /\ IsInjective(rest)
        /\ ToSet(reclaimableRealmIDs) = ToSet(rest) \cup {id}
        /\ id \notin ToSet(rest)
    BY <2>1, <1>1, <1>3, DequeueOfDistinct
  <2>3. id >= PublicRealmCount
    BY <2>2, <1>1, <1>2
  <2>4. {r \in realms \cup {id} : Private(r)} = live \cup {id}
    BY <2>3 DEF Private
  <2>5. ToSet(rest) \cup {r \in realms \cup {id} : Private(r)}
          = PublicRealmCount .. next - 1
    BY <2>1, <2>2, <2>4, <1>1
  <2>6. id \notin realms /\ ToSet(rest) \cap (realms \cup {id}) = {}
    BY <2>2, <1>1
  <2> QED BY <2>2, <2>5, <2>6 DEF id, rest, next
<1>4. CASE reclaimableRealmIDs = <<>>
  <2>1. id = nextRealmID /\ rest = <<>> /\ next = nextRealmID + 1
    BY <1>4 DEF LowNumber, Rest, NextAfter
  <2>2. id <= MaxRealmID
    OBVIOUS
  <2> HIDE DEF id, rest, next
  <2>3. ToSet(rest) = {} /\ IsInjective(rest) /\ rest \in Seq(RealmNumber)
    BY <2>1, EmptyQueue
  <2>4. live = PublicRealmCount .. nextRealmID - 1
    BY <1>1, <1>4, EmptyQueue
  <2>5. id \in RealmNumber /\ id >= PublicRealmCount
    BY <2>1, <2>2, <1>1, <1>2 DEF RealmNumber
  <2>6. id \notin realms
    <3>1. id \notin live
      BY <2>1, <2>4, <1>1, <1>2
    <3> QED BY <3>1, <2>5 DEF Private
  <2>7. {r \in realms \cup {id} : Private(r)} = live \cup {id}
    BY <2>5 DEF Private
  <2>8. live \cup {id} = PublicRealmCount .. next - 1
    BY <2>1, <2>4, <1>1, <1>2
  <2> QED BY <2>3, <2>5, <2>6, <2>7, <2>8 DEF id, rest, next
<1> QED BY <1>3, <1>4

LEMMA CreateKeepsNumbers ==
    ASSUME DisciplinedInv, NEW e \in EndPoint, NEW child \in BOOLEAN,
           CreateRealm(e, child)
    PROVE  /\ RealmNumbers'
           /\ NoDeadRealm'
           /\ userRealm'[e] \notin realms
<1> DEFINE id == LowNumber(reclaimableRealmIDs, nextRealmID)
           rest == Rest(reclaimableRealmIDs)
           next == NextAfter(reclaimableRealmIDs, nextRealmID)
<1>1. /\ id <= MaxRealmID
      /\ ChangeRealm(e, id, child, rest)
      /\ nextRealmID' = next
  BY DEF CreateRealm
<1>2. /\ id \in RealmNumber \ realms
      /\ rest \in Seq(RealmNumber)
      /\ IsInjective(rest)
      /\ ToSet(rest) \cap (realms \cup {id}) = {}
      /\ ToSet(rest) \cup {r \in realms \cup {id} : Private(r)}
           = PublicRealmCount .. next - 1
  BY <1>1, LowNumberIsFree DEF DisciplinedInv
<1> HIDE DEF id, rest, next
<1>3. Creates(id) /\ RealmsAfter(id) = realms \cup {id}
  BY <1>2 DEF Creates, RealmsAfter, RealmNumber
<1>4. /\ NoDeadRealm'
      /\ IsInjective(reclaimableRealmIDs')
      /\ ToSet(reclaimableRealmIDs') \cap realms' = {}
      /\ ToSet(reclaimableRealmIDs') \cup {r \in realms' : Private(r)}
           = ToSet(rest) \cup {r \in realms \cup {id} : Private(r)}
  BY <1>1, <1>2, <1>3, ChangeKeepsNumbers DEF DisciplinedInv
<1>5. userRealm'[e] = id
  <2>1. userRealm' = [userRealm EXCEPT ![e] = id]
    BY <1>1, <1>2, ChangeKeepsRooms DEF DisciplinedInv, IInv
  <2> QED BY <2>1 DEF DisciplinedInv, IInv, TypeOK
<1> QED BY <1>1, <1>2, <1>4, <1>5 DEF RealmNumbers

LEMMA StayOrLeaveKeepsNumbers ==
    ASSUME DisciplinedInv, NEW e \in EndPoint,
           NEW target \in RealmNumber \cup {NoRealm}, NEW child \in BOOLEAN,
           AsChild(e, child) => Creates(target),
           Creates(target) => ~Private(target),
           ChangeRealm(e, target, child, reclaimableRealmIDs),
           UNCHANGED nextRealmID
    PROVE  RealmNumbers' /\ NoDeadRealm'
<1>1. /\ reclaimableRealmIDs \in Seq(RealmNumber)
      /\ IsInjective(reclaimableRealmIDs)
      /\ ToSet(reclaimableRealmIDs) \cap realms = {}
      /\ ToSet(reclaimableRealmIDs) \cup {r \in realms : Private(r)}
           = PublicRealmCount .. nextRealmID - 1
  BY DEF DisciplinedInv, IInv, TypeOK, RealmNumbers
<1>2. /\ ToSet(reclaimableRealmIDs) \cap RealmsAfter(target) = {}
      /\ {r \in RealmsAfter(target) : Private(r)} = {r \in realms : Private(r)}
  <2>1. CASE Creates(target)
    <3>1. target \in RealmNumber /\ ~(target >= PublicRealmCount)
      BY <2>1 DEF Creates, Private
    <3>2. target \notin ToSet(reclaimableRealmIDs)
      BY <3>1, <1>1, RelayAssumption DEF RealmNumber
    <3> QED BY <2>1, <3>1, <3>2, <1>1 DEF RealmsAfter, Private
  <2>2. CASE ~Creates(target)
    BY <2>2, <1>1 DEF RealmsAfter
  <2> QED BY <2>1, <2>2
<1>3. /\ NoDeadRealm'
      /\ IsInjective(reclaimableRealmIDs')
      /\ ToSet(reclaimableRealmIDs') \cap realms' = {}
      /\ ToSet(reclaimableRealmIDs') \cup {r \in realms' : Private(r)}
           = ToSet(reclaimableRealmIDs) \cup {r \in RealmsAfter(target) : Private(r)}
  BY <1>1, <1>2, ChangeKeepsNumbers DEF DisciplinedInv
<1> QED BY <1>1, <1>2, <1>3 DEF RealmNumbers

LEMMA NewServerHasNoRealms == NewServer => RealmNumbers /\ NoDeadRealm
<1> SUFFICES ASSUME NewServer
             PROVE  RealmNumbers /\ NoDeadRealm
  OBVIOUS
<1>1. PublicRealmCount .. nextRealmID - 1 = {}
  BY RelayAssumption DEF NewServer
<1> QED BY <1>1, EmptyQueue DEF NewServer, RealmNumbers, NoDeadRealm

LEMMA NextKeepsDisciplinedInv ==
    ASSUME Disciplined
    PROVE  DisciplinedInv /\ [Next]_vars => DisciplinedInv'
<1> SUFFICES ASSUME DisciplinedInv, [Next]_vars
             PROVE  RealmNumbers' /\ NoDeadRealm'
  BY NextKeepsIInv DEF DisciplinedInv
<1>0. (NewServer => RealmNumbers /\ NoDeadRealm)'
  BY NewServerHasNoRealms, PTL
<1>1. ASSUME UNCHANGED realmVars
      PROVE  RealmNumbers' /\ NoDeadRealm'
  BY <1>1 DEF realmVars, DisciplinedInv, RealmNumbers, NoDeadRealm
<1>2. ASSUME NEW e \in EndPoint, ClientDisconnected(e)
      PROVE  RealmNumbers' /\ NoDeadRealm'
  <2>1. /\ ChangeRealm(e, NoRealm, FALSE, reclaimableRealmIDs)
        /\ UNCHANGED nextRealmID
        /\ ~AsChild(e, FALSE)
        /\ ~Creates(NoRealm)
    BY <1>2 DEF ClientDisconnected, AsChild, Creates
  <2> QED BY <2>1, StayOrLeaveKeepsNumbers
<1>3. ASSUME NEW e \in EndPoint, NEW n \in JoinNumber, NEW child \in BOOLEAN,
             JoinNumbered(e, n, child)
      PROVE  RealmNumbers' /\ NoDeadRealm'
  <2>1. /\ ChangeRealm(e, n, child, reclaimableRealmIDs)
        /\ UNCHANGED nextRealmID
        /\ MayJoin(n, child)
    BY <1>3 DEF JoinNumbered
  <2>2. \/ n \in RealmNumber /\ ~Private(n) /\ (child => n \notin realms)
        \/ n \in realms /\ ~child
    BY <2>1, Disciplined DEF MayJoin
  <2>3. n \in RealmNumber \cup {NoRealm}
    BY RelayAssumption
  <2>4. child => Creates(n)
    BY <2>2 DEF Creates, RealmNumber
  <2>5. Creates(n) => ~Private(n)
    BY <2>2 DEF Creates
  <2> QED BY <2>1, <2>3, <2>4, <2>5, StayOrLeaveKeepsNumbers DEF AsChild
<1>4. ASSUME NEW e \in EndPoint, NEW child \in BOOLEAN, CreateRealm(e, child)
      PROVE  RealmNumbers' /\ NoDeadRealm'
  BY <1>4, CreateKeepsNumbers
<1>5. ASSUME NEW e \in EndPoint,
             \/ ClientConnected(e)
             \/ SendToAll(e)
             \/ SendExcept(e)
             \/ \E n \in 0 .. nextUserID : SendToUser(e, n)
             \/ \E n \in RealmNumber : SendToRealm(e, n)
             \/ \E r \in RealmNumber, k \in EntityName : LoadEntity(e, r, k)
             \/ \E k \in EntityName, t \in Lifetime, d \in Data \cup {NoData} :
                   SaveEntity(e, k, t, d)
      PROVE  RealmNumbers' /\ NoDeadRealm'
  <2>1. UNCHANGED realmVars
    BY <1>5 DEF ClientConnected, SendToAll, SendExcept, SendToUser,
                SendToRealm, LoadEntity, SaveEntity
  <2> QED BY <2>1, <1>1
<1>6. CASE PassTime
  BY <1>6, <1>1 DEF PassTime
<1>7. CASE Restart
  <2>1. NewServer'
    BY <1>7 DEF Restart, NewServer
  <2> QED BY <2>1, <1>0
<1>8. CASE UNCHANGED vars
  BY <1>8, <1>1 DEF vars
<1> QED BY <1>2, <1>3, <1>4, <1>5, <1>6, <1>7, <1>8 DEF Next

LEMMA DisciplinedInvariant ==
    ASSUME Disciplined
    PROVE  Spec => []DisciplinedInv
<1>1. Init => DisciplinedInv
  BY InitIsOK, NewServerHasNoRealms DEF DisciplinedInv, Init, NewServer
<1>2. DisciplinedInv /\ [Next]_vars => DisciplinedInv'
  BY Disciplined, NextKeepsDisciplinedInv
<1> QED BY <1>1, <1>2, PTL DEF Spec

(* Among disciplined clients "^", "&" and the cleanup of ChangeRealm        *)
(* recycle private numbers exactly: none is shared and none is lost.        *)
THEOREM RealmNumbersAreRecycled ==
    ASSUME Disciplined
    PROVE  Spec => []RealmNumbers
<1>1. DisciplinedInv => RealmNumbers
  BY DEF DisciplinedInv
<1> QED BY <1>1, Disciplined, DisciplinedInvariant, PTL

(* Among disciplined clients the cleanup of ChangeRealm leaves no empty     *)
(* branch behind.                                                           *)
THEOREM EmptyBranchesAreDestroyed ==
    ASSUME Disciplined
    PROVE  Spec => []NoDeadRealm
<1>1. DisciplinedInv => NoDeadRealm
  BY DEF DisciplinedInv
<1> QED BY <1>1, Disciplined, DisciplinedInvariant, PTL

(* Among disciplined clients a bare "^" or "&" always makes a new realm, as *)
(* the protocol's documentation says.                                       *)
THEOREM CreateMakesNewRealm ==
    ASSUME Disciplined
    PROVE  Spec => CreatedRealmIsNew
<1>1. DisciplinedInv /\ [Next]_vars =>
         [\A e \in EndPoint :
             userRealm'[e] \in realms =>
                ~ \E child \in BOOLEAN : CreateRealm(e, child)]_vars
  BY CreateKeepsNumbers
<1> QED BY <1>1, Disciplined, DisciplinedInvariant, PTL DEF Spec, CreatedRealmIsNew

-----------------------------------------------------------------------------
(***************************************************************************)
(* The realm data of the relay server implements TimedStore, proved for    *)
(* any number of users, realms, names, texts and times and whatever an     *)
(* earlier run or version has left, provided that every entity is saved    *)
(* with a time.  A step that only loses files that have expired is one a   *)
(* load cannot tell; every other step is a save, the passing of time or a  *)
(* coming and going of realms.                                             *)
(***************************************************************************)
TimedOnly == \A t \in Lifetime : t > 0

(* What a load finds is the one file of the name, as long as it is live.   *)
FindsFile(r, k) ==
    /\ GetFile(r, k) = {} => /\ LoadedData(r, k) = NoData
                             /\ DeadlineOf(r, k) = 0
    /\ \A f \in GetFile(r, k) :
          /\ GetFile(r, k) = {f}
          /\ Expired(f) => /\ LoadedData(r, k) = NoData
                           /\ DeadlineOf(r, k) = 0
          /\ ~Expired(f) => /\ LoadedData(r, k) = f.data
                            /\ LoadedData(r, k) # NoData
                            /\ DeadlineOf(r, k) = f.expiry

LoadedOK == \A r \in RealmNumber, k \in EntityName : FindsFile(r, k)

LEMMA LoadsFindTheFile == DirectoryOK => LoadedOK
<1> SUFFICES ASSUME DirectoryOK, NEW r \in RealmNumber, NEW k \in EntityName
             PROVE  FindsFile(r, k)
  BY DEF LoadedOK
<1>1. ASSUME GetFile(r, k) = {}
      PROVE  LoadedData(r, k) = NoData /\ DeadlineOf(r, k) = 0
  BY <1>1 DEF LoadedData, DeadlineOf
<1>2. ASSUME NEW f \in GetFile(r, k)
      PROVE  /\ GetFile(r, k) = {f}
             /\ f.data # NoData
  BY DEF GetFile, DirectoryOK, SameName
<1>3. ASSUME NEW f \in GetFile(r, k), Expired(f)
      PROVE  LoadedData(r, k) = NoData /\ DeadlineOf(r, k) = 0
  BY <1>2, <1>3 DEF LoadedData, DeadlineOf
<1>4. ASSUME NEW f \in GetFile(r, k), ~Expired(f)
      PROVE  LoadedData(r, k) = f.data /\ DeadlineOf(r, k) = f.expiry
  <2>1. (CHOOSE g \in GetFile(r, k) : ~Expired(g)) = f
    BY <1>2, <1>4
  <2>2. (CHOOSE g \in GetFile(r, k) : TRUE) = f
    BY <1>2
  <2>3. f.expiry # 0
    BY <1>4 DEF GetFile, DirectoryOK, Expired
  <2> QED BY <1>2, <1>4, <2>1, <2>2, <2>3 DEF LoadedData, DeadlineOf
<1> QED BY <1>1, <1>2, <1>3, <1>4 DEF FindsFile

LoadsAlike ==
    UNCHANGED <<[key \in Key |-> LoadedData(key[1], key[2])],
                [key \in Key |-> DeadlineOf(key[1], key[2])], now>>

(* When loads find the same as before, realms may come and go.             *)
LEMMA RealmsComeAndGo ==
    ASSUME LoadsAlike, realms' \subseteq RealmNumber
    PROVE  Store!RealmsChange
<1> DEFINE content == [key \in Key |-> LoadedData(key[1], key[2])]
           deadline == [key \in Key |-> DeadlineOf(key[1], key[2])]
           open == {r \in realms : Private(r)}
<1>1. content' = content /\ deadline' = deadline /\ now' = now
  BY DEF LoadsAlike
<1>2. open' \subseteq {r \in RealmNumber : Private(r)}
  BY DEF Private
<1>3. \E lost \in SUBSET {key \in Key : key[1] \in open \ open'} :
        /\ content' = [key \in Key |-> IF key \in lost THEN NoData
                                       ELSE content[key]]
        /\ deadline' = [key \in Key |-> IF key \in lost THEN 0
                                        ELSE deadline[key]]
  <2>1. /\ content = [key \in Key |-> IF key \in {} THEN NoData ELSE content[key]]
        /\ deadline = [key \in Key |-> IF key \in {} THEN 0 ELSE deadline[key]]
    OBVIOUS
  <2> HIDE DEF content, deadline, open
  <2> WITNESS {} \in SUBSET {key \in Key : key[1] \in open \ open'}
  <2> QED BY <1>1, <2>1
<1> QED BY <1>1, <1>2, <1>3 DEF Store!RealmsChange

(* Losing expired files, or none, is a stutter of the abstract store.      *)
LEMMA LosingExpiredFiles ==
    ASSUME LoadedOK, LoadedOK', now' = now, files' \subseteq files,
           \A f \in files \ files' : Expired(f)
    PROVE  LoadsAlike
<1>1. ASSUME NEW r \in RealmNumber, NEW k \in EntityName
      PROVE  /\ LoadedData(r, k)' = LoadedData(r, k)
             /\ DeadlineOf(r, k)' = DeadlineOf(r, k)
  <2> DEFINE Same == /\ LoadedData(r, k)' = LoadedData(r, k)
                     /\ DeadlineOf(r, k)' = DeadlineOf(r, k)
  <2> SUFFICES Same
    OBVIOUS
  <2>1. FindsFile(r, k) /\ FindsFile(r, k)'
    BY DEF LoadedOK
  <2>2. \A f : Expired(f)' <=> Expired(f)
    BY DEF Expired
  <2>3. GetFile(r, k)' = GetFile(r, k) \cap files'
    BY DEF GetFile
  <2>4. CASE GetFile(r, k) = {}
    BY <2>1, <2>3, <2>4 DEF FindsFile
  <2>5. ASSUME NEW f \in GetFile(r, k), f \in files'
        PROVE  Same
    BY <2>1, <2>2, <2>3, <2>5 DEF FindsFile
  <2>6. ASSUME NEW f \in GetFile(r, k), f \notin files'
        PROVE  Same
    <3>1. f \in files /\ Expired(f)
      BY <2>6 DEF GetFile
    <3>2. GetFile(r, k) = {f} /\ GetFile(r, k)' = {}
      BY <2>1, <2>3, <2>6 DEF FindsFile
    <3> QED BY <3>1, <3>2, <2>1 DEF FindsFile
  <2> HIDE DEF Same
  <2> QED BY <2>4, <2>5, <2>6
<1>2. \A key \in Key : key[1] \in RealmNumber /\ key[2] \in EntityName
  BY DEF Key
<1> QED BY <1>1, <1>2 DEF LoadsAlike

(* The expiry of a live file passes exactly when the entity's time does.   *)
LEMMA PassTimeIsPassTime ==
    ASSUME LoadedOK, LoadedOK', DirectoryOK, PassTime
    PROVE  Store!PassTime
<1>1. /\ now < MaxNow /\ now' = now + 1 /\ now \in Nat
      /\ files' = files /\ realms' = realms
  BY DEF PassTime, Tick, realmVars, DirectoryOK
<1>2. ASSUME NEW r \in RealmNumber, NEW k \in EntityName
      PROVE  /\ LoadedData(r, k)' = IF DeadlineOf(r, k) < now' THEN NoData
                                    ELSE LoadedData(r, k)
             /\ DeadlineOf(r, k)' = IF DeadlineOf(r, k) < now' THEN 0
                                    ELSE DeadlineOf(r, k)
  <2> DEFINE Ages == /\ LoadedData(r, k)' = IF DeadlineOf(r, k) < now' THEN NoData
                                            ELSE LoadedData(r, k)
                     /\ DeadlineOf(r, k)' = IF DeadlineOf(r, k) < now' THEN 0
                                            ELSE DeadlineOf(r, k)
  <2> SUFFICES Ages
    OBVIOUS
  <2>1. FindsFile(r, k) /\ FindsFile(r, k)'
    BY DEF LoadedOK
  <2>2. GetFile(r, k)' = GetFile(r, k)
    BY <1>1 DEF GetFile
  <2>3. \A f : Expired(f)' <=> now + 1 > f.expiry
    BY <1>1 DEF Expired
  <2>4. CASE GetFile(r, k) = {}
    BY <2>1, <2>2, <2>4, <1>1 DEF FindsFile
  <2>5. ASSUME NEW f \in GetFile(r, k)
        PROVE  Ages
    <3>1. f.expiry \in Int
      BY DEF GetFile, DirectoryOK
    <3>2. CASE Expired(f)
      <4>1. Expired(f)'
        BY <3>1, <3>2, <1>1 DEF Expired
      <4> QED BY <4>1, <3>2, <2>1, <2>2, <1>1 DEF FindsFile
    <3>3. CASE ~Expired(f)
      <4>1. DeadlineOf(r, k) = f.expiry /\ LoadedData(r, k) = f.data
        BY <3>3, <2>1 DEF FindsFile
      <4>2. CASE f.expiry < now + 1
        <5>1. Expired(f)'
          BY <4>2, <2>3, <3>1
        <5>2. LoadedData(r, k)' = NoData /\ DeadlineOf(r, k)' = 0
          BY <5>1, <2>1, <2>2 DEF FindsFile
        <5> QED BY <5>2, <4>1, <4>2, <1>1
      <4>3. CASE ~(f.expiry < now + 1)
        <5>1. ~Expired(f)'
          BY <4>3, <2>3, <3>1
        <5>2. LoadedData(r, k)' = f.data /\ DeadlineOf(r, k)' = f.expiry
          BY <5>1, <2>1, <2>2 DEF FindsFile
        <5> QED BY <5>2, <4>1, <4>3, <1>1
      <4> QED BY <4>2, <4>3
    <3> QED BY <3>2, <3>3
  <2> HIDE DEF Ages
  <2> QED BY <2>4, <2>5
<1>3. \A key \in Key : key[1] \in RealmNumber /\ key[2] \in EntityName
  BY DEF Key
<1> QED BY <1>1, <1>2, <1>3 DEF Store!PassTime, Store!Over

(* SaveData replaces the one file of the name, whether expired or not.     *)
LEMMA SaveIsSave ==
    ASSUME TimedOnly, LoadedOK, LoadedOK', now \in Nat, NEW e \in EndPoint,
           NEW r \in RealmNumber, r = userRealm[e], NEW k \in EntityName,
           NEW t \in Lifetime, NEW d \in Data \cup {NoData}, SaveEntity(e, k, t, d)
    PROVE  Store!Save(<<r, k>>, t, d)
<1> DEFINE end == IF d = NoData THEN 0 ELSE IF t = 0 THEN Store!Forever ELSE now + t
<1>0. PICK new : new = File(r, k, ExpiryOf(t), d)
  OBVIOUS
<1>1. /\ files' = (files \ GetFile(r, k)) \cup (IF d = NoData THEN {} ELSE {new})
      /\ now' = now /\ realms' = realms
  BY <1>0 DEF SaveEntity, AfterSave, realmVars
<1>2. t > 0 /\ t \in Int
  BY EntityAssumption DEF TimedOnly
<1>3. /\ new.realm = r
      /\ new.name = k
      /\ new.ext = "e"
      /\ new.expiry = now + t
      /\ new.data = d
  BY <1>0, <1>2 DEF File, ExpiryOf
<1>4. LoadedData(r, k)' = d /\ DeadlineOf(r, k)' = end
  <2>1. FindsFile(r, k)'
    BY DEF LoadedOK
  <2>2. GetFile(r, k)' = IF d = NoData THEN {} ELSE {new}
    BY <1>1, <1>3 DEF GetFile
  <2>3. CASE d = NoData
    BY <2>1, <2>2, <2>3 DEF FindsFile
  <2>4. CASE d # NoData
    <3>1. ~Expired(new)'
      BY <1>1, <1>2, <1>3 DEF Expired
    <3>2. LoadedData(r, k)' = new.data /\ DeadlineOf(r, k)' = new.expiry
      BY <3>1, <2>1, <2>2, <2>4 DEF FindsFile
    <3> QED BY <3>2, <2>4, <1>2, <1>3
  <2> QED BY <2>3, <2>4
<1>5. ASSUME NEW r2 \in RealmNumber, NEW k2 \in EntityName, r2 # r \/ k2 # k
      PROVE  /\ LoadedData(r2, k2)' = LoadedData(r2, k2)
             /\ DeadlineOf(r2, k2)' = DeadlineOf(r2, k2)
  <2>1. GetFile(r2, k2)' = GetFile(r2, k2)
    BY <1>1, <1>3, <1>5 DEF GetFile
  <2>2. \A f : Expired(f)' <=> Expired(f)
    BY <1>1 DEF Expired
  <2>3. FindsFile(r2, k2) /\ FindsFile(r2, k2)'
    BY DEF LoadedOK
  <2> QED BY <2>1, <2>2, <2>3 DEF FindsFile
<1>6. \A key \in Key : /\ key[1] \in RealmNumber
                       /\ key[2] \in EntityName
                       /\ key # <<r, k>> => key[1] # r \/ key[2] # k
  BY DEF Key
<1>7. <<r, k>> \in Key /\ <<r, k>>[1] = r /\ <<r, k>>[2] = k
  BY DEF Key
<1> HIDE DEF end
<1>8. [key \in Key |-> LoadedData(key[1], key[2])']
        = [[key \in Key |-> LoadedData(key[1], key[2])] EXCEPT ![<<r, k>>] = d]
  BY <1>4, <1>5, <1>6, <1>7
<1>9. [key \in Key |-> DeadlineOf(key[1], key[2])']
        = [[key \in Key |-> DeadlineOf(key[1], key[2])] EXCEPT ![<<r, k>>] = end]
  BY <1>4, <1>5, <1>6, <1>7
<1> QED BY <1>1, <1>8, <1>9 DEF Store!Save, end

(* A store may start with the files of an earlier run or version in it.    *)
LEMMA InitIsInit ==
    ASSUME Init, DirectoryOK, LoadedOK
    PROVE  Store!Init
<1>1. PICK old \in SUBSET LegacyFile : files = Upgraded(old) /\ now = 1
  BY DEF Init, InitStore
<1>2. \A f \in files : f.data \in Data
  BY <1>1, LegacyAssumption DEF Upgraded, File
<1>3. ASSUME NEW r \in RealmNumber, NEW k \in EntityName
      PROVE  /\ LoadedData(r, k) \in Data \cup {NoData}
             /\ DeadlineOf(r, k) \in Int
             /\ IF LoadedData(r, k) = NoData THEN DeadlineOf(r, k) = 0
                ELSE DeadlineOf(r, k) >= now
  <2> DEFINE Starts ==
        /\ LoadedData(r, k) \in Data \cup {NoData}
        /\ DeadlineOf(r, k) \in Int
        /\ IF LoadedData(r, k) = NoData THEN DeadlineOf(r, k) = 0
           ELSE DeadlineOf(r, k) >= now
  <2> SUFFICES Starts
    OBVIOUS
  <2>1. FindsFile(r, k)
    BY DEF LoadedOK
  <2>2. CASE GetFile(r, k) = {}
    BY <2>1, <2>2 DEF FindsFile
  <2>3. ASSUME NEW f \in GetFile(r, k)
        PROVE  Starts
    <3>1. f \in files /\ f.expiry \in Int
      BY <2>3 DEF GetFile, DirectoryOK
    <3>2. CASE Expired(f)
      BY <2>1, <2>3, <3>2 DEF FindsFile
    <3>3. CASE ~Expired(f)
      <4>1. f.expiry >= now
        BY <1>1, <3>1, <3>3 DEF Expired
      <4> QED BY <1>2, <2>1, <2>3, <3>1, <3>3, <4>1 DEF FindsFile
    <3> QED BY <3>2, <3>3
  <2> HIDE DEF Starts
  <2> QED BY <2>2, <2>3
<1>4. \A key \in Key : key[1] \in RealmNumber /\ key[2] \in EntityName
  BY DEF Key
<1>5. realms = {}
  BY DEF Init
<1> QED BY <1>1, <1>3, <1>4, <1>5 DEF Store!Init

(* The cleanup of ChangeRealm looks for the extension of old files, so it  *)
(* deletes nothing.                                                        *)
LEMMA ChangeKeepsFiles ==
    ASSUME DirectoryOK, NEW e, NEW target, NEW child, NEW queue,
           ChangeRealm(e, target, child, queue)
    PROVE  files' = files
<1>1. \A R : RealmFiles(R) = {}
  BY DEF RealmFiles, DirectoryOK
<1> QED BY <1>1 DEF ChangeRealm, StayInRealm, MoveToRealm

LEMMA StepIsStoreStep ==
    ASSUME TimedOnly, IInv, IInv', LoadedOK, LoadedOK', [Next]_vars
    PROVE  [Store!Next]_(Store!vars)
<1>1. /\ DirectoryOK
      /\ now \in Nat
      /\ realms' \subseteq RealmNumber
      /\ realms \subseteq RealmNumber
      /\ userRealm \in [EndPoint -> realms \cup {NoRealm}]
  BY DEF IInv, TypeOK, DirectoryOK
<1>2. ASSUME files' = files, now' = now
      PROVE  Store!RealmsChange
  BY <1>1, <1>2, LosingExpiredFiles, RealmsComeAndGo
<1>3. ASSUME NEW e \in EndPoint, NEW target, NEW child, NEW queue,
             ChangeRealm(e, target, child, queue), now' = now
      PROVE  Store!RealmsChange
  BY <1>1, <1>2, <1>3, ChangeKeepsFiles
<1>4. ASSUME NEW e \in EndPoint, NEW r \in RealmNumber, NEW k \in EntityName,
             LoadEntity(e, r, k)
      PROVE  Store!RealmsChange
  <2>1. /\ files' = files \ {f \in GetFile(r, k) : Expired(f)}
        /\ now' = now
    BY <1>4 DEF LoadEntity, AfterLoad
  <2> QED BY <1>1, <2>1, LosingExpiredFiles, RealmsComeAndGo
<1>5. ASSUME NEW e \in EndPoint, NEW k \in EntityName, NEW t \in Lifetime,
             NEW d \in Data \cup {NoData}, SaveEntity(e, k, t, d)
      PROVE  Store!Next
  <2>1. PICK r \in RealmNumber : r = userRealm[e]
    BY <1>1, <1>5 DEF SaveEntity
  <2>2. Store!Save(<<r, k>>, t, d)
    BY <2>1, <1>1, <1>5, SaveIsSave
  <2>3. <<r, k>> \in Key
    BY DEF Key
  <2> QED BY <2>2, <2>3 DEF Store!Next
<1>6. ASSUME Restart
      PROVE  Store!RealmsChange
  <2>1. Upgraded(files) = files
    BY <1>1 DEF Upgraded, DirectoryOK
  <2> QED BY <2>1, <1>2, <1>6 DEF Restart
<1>7. ASSUME PassTime
      PROVE  Store!PassTime
  BY <1>1, <1>7, PassTimeIsPassTime
<1>8. ASSUME NEW e \in EndPoint,
             \/ ClientConnected(e)
             \/ SendToAll(e)
             \/ SendExcept(e)
             \/ \E n \in 0 .. nextUserID : SendToUser(e, n)
             \/ \E n \in RealmNumber : SendToRealm(e, n)
      PROVE  Store!RealmsChange
  <2>1. files' = files /\ now' = now
    BY <1>8 DEF ClientConnected, SendToAll, SendExcept, SendToUser,
                SendToRealm, storeVars
  <2> QED BY <2>1, <1>2
<1>9. ASSUME NEW e \in EndPoint,
             \/ ClientDisconnected(e)
             \/ \E n \in JoinNumber, child \in BOOLEAN : JoinNumbered(e, n, child)
             \/ \E child \in BOOLEAN : CreateRealm(e, child)
      PROVE  Store!RealmsChange
  BY <1>3, <1>9 DEF ClientDisconnected, JoinNumbered, CreateRealm
<1>10. ASSUME UNCHANGED vars
       PROVE  Store!RealmsChange
  BY <1>2, <1>10 DEF vars, storeVars
<1>11. Store!RealmsChange \/ Store!PassTime => Store!Next
  BY DEF Store!Next
<1> QED BY <1>4, <1>5, <1>6, <1>7, <1>8, <1>9, <1>10, <1>11 DEF Next

(* LoadData and SaveData implement a store of timed entities: for its time  *)
(* a load returns the text last saved under the key, and nothing afterwards, *)
(* however users, realms, lazy deletions and restarts interleave.           *)
THEOREM DataIsTimed ==
    ASSUME TimedOnly
    PROVE  Spec => StoreIsTimed
<1>1. Init /\ IInv /\ LoadedOK => Store!Init
  BY InitIsInit DEF IInv, TypeOK
<1>2. IInv => LoadedOK
  BY LoadsFindTheFile DEF IInv, TypeOK
<1>3. IInv /\ IInv' /\ LoadedOK /\ LoadedOK' /\ [Next]_vars
        => [Store!Next]_(Store!vars)
  BY TimedOnly, StepIsStoreStep
<1> QED BY <1>1, <1>2, <1>3, Invariant, PTL DEF Spec, StoreIsTimed, Store!Spec

-----------------------------------------------------------------------------
(***************************************************************************)
(* What the server's packets become: the frames that a page reads.         *)
(***************************************************************************)
LEMMA FramesFew ==
    ASSUME NEW text
    PROVE  /\ Frames(<<>>, text) = <<>>
           /\ \A a : Frames(<<a>>, text) = Frame(a, text)
           /\ \A a, b : Frames(<<a, b>>, text) = Frame(a, text) \o Frame(b, text)
<1>1. Frames(<<>>, text) = <<>>
  <2>1. PICK ss : ss = [i \in DOMAIN <<>> |-> Frame(<<>>[i], text)]
    OBVIOUS
  <2>2. ss = <<>>
    BY <2>1
  <2> QED BY <2>1, <2>2, FlattenFew, Zenon DEF Frames
<1>2. ASSUME NEW a
      PROVE  Frames(<<a>>, text) = Frame(a, text)
  <2>1. PICK ps : ps = <<a>>
    OBVIOUS
  <2>2. PICK ss : ss = [i \in DOMAIN ps |-> Frame(ps[i], text)]
    BY Zenon
  <2>3. PICK f : f = Frame(a, text)
    OBVIOUS
  <2>4. DOMAIN ps = {1} /\ ps[1] = a
    BY <2>1
  <2>5. ss = <<f>>
    BY <2>2, <2>3, <2>4
  <2>6. FlattenSeq(<<f>>) = f
    BY FlattenFew
  <2> QED BY <2>1, <2>2, <2>3, <2>5, <2>6, Zenon DEF Frames
<1>3. ASSUME NEW a, NEW b
      PROVE  Frames(<<a, b>>, text) = Frame(a, text) \o Frame(b, text)
  <2>1. PICK ps : ps = <<a, b>>
    OBVIOUS
  <2>2. PICK ss : ss = [i \in DOMAIN ps |-> Frame(ps[i], text)]
    BY Zenon
  <2>3. PICK f : f = Frame(a, text)
    OBVIOUS
  <2>4. PICK g : g = Frame(b, text)
    OBVIOUS
  <2>5. DOMAIN ps = {1, 2} /\ ps[1] = a /\ ps[2] = b
    BY <2>1
  <2>6. ss = <<f, g>>
    BY <2>2, <2>3, <2>4, <2>5
  <2>7. FlattenSeq(<<f, g>>) = f \o g
    BY FlattenFew
  <2> QED BY <2>1, <2>2, <2>3, <2>4, <2>6, <2>7, Zenon DEF Frames
<1> QED BY <1>1, <1>2, <1>3

Said(symbol, id, text) == [symbol |-> symbol, number |-> id, text |-> text]
Listing(ids) == [symbol |-> "=", numbers |-> ids]

LEMMA FrameOf ==
    ASSUME NEW text
    PROVE  /\ \A id : Frame(Packet("#", id), text) = <<Packet("#", id)>>
           /\ \A id : Frame(Packet("^", id), text) = <<Packet("^", id)>>
           /\ \A id : Frame(Packet("+", id), text) = <<Packet("+", id)>>
           /\ \A id : Frame(Packet("-", id), text) = <<Packet("-", id)>>
           /\ \A symbol \in {"@", "!", "*"} : \A id :
                 Frame(Packet(symbol, id), text) = <<Said(symbol, id, text)>>
           /\ \A r, k, d : Frame(DataPacket(r, k, d), text) = <<DataPacket(r, k, d)>>
           /\ Frame(UsersPresent({}), text) = <<>>
           /\ \A ids : ids # {} =>
                 Frame(UsersPresent(ids), text) = <<Listing(InOrder(ids))>>
<1>1. ASSUME NEW symbol, NEW id, symbol \notin {"@", "!", "*", "="}
      PROVE  Frame(Packet(symbol, id), text) = <<Packet(symbol, id)>>
  BY <1>1 DEF Frame, Packet
<1>2. ASSUME NEW symbol \in {"@", "!", "*"}, NEW id
      PROVE  Frame(Packet(symbol, id), text) = <<Said(symbol, id, text)>>
  BY <1>2 DEF Frame, Packet, Said
<1>3. ASSUME NEW r, NEW k, NEW d
      PROVE  Frame(DataPacket(r, k, d), text) = <<DataPacket(r, k, d)>>
  BY DEF Frame, DataPacket
<1>4. Frame(UsersPresent({}), text) = <<>>
  BY DEF Frame, UsersPresent
<1>5. ASSUME NEW ids, ids # {}
      PROVE  Frame(UsersPresent(ids), text) = <<Listing(InOrder(ids))>>
  <2>1. PICK p : p = UsersPresent(ids)
    OBVIOUS
  <2>2. p.symbol = "=" /\ p.numbers = ids
    BY <2>1 DEF UsersPresent
  <2>3. Frame(p, text) = <<[symbol |-> "=", numbers |-> InOrder(p.numbers)]>>
    BY <1>5, <2>2 DEF Frame
  <2> QED BY <2>1, <2>2, <2>3, Zenon DEF Listing
<1>6. \A id : /\ Frame(Packet("#", id), text) = <<Packet("#", id)>>
              /\ Frame(Packet("^", id), text) = <<Packet("^", id)>>
              /\ Frame(Packet("+", id), text) = <<Packet("+", id)>>
              /\ Frame(Packet("-", id), text) = <<Packet("-", id)>>
  BY <1>1
<1> QED BY <1>2, <1>3, <1>4, <1>5, <1>6

LEMMA Pair == \A a, b : <<a>> \o <<b>> = <<a, b>>
<1> SUFFICES ASSUME NEW a, NEW b
             PROVE  <<a>> \o <<b>> = <<a, b>>
  BY Zenon
<1>1. PICK S : S = {a, b}
  BY Zenon
<1>2. PICK s, t, u : s = <<a>> /\ t = <<b>> /\ u = <<a, b>>
  OBVIOUS
<1>3. /\ s \in Seq(S) /\ t \in Seq(S) /\ u \in Seq(S)
      /\ Len(s) = 1 /\ Len(t) = 1 /\ Len(u) = 2
      /\ s[1] = a /\ t[1] = b /\ u[1] = a /\ u[2] = b
  BY <1>1, <1>2
<1>4. PICK v : v = s \o t
  OBVIOUS
<1>5. /\ v \in Seq(S) /\ Len(v) = 2
      /\ v[1] = a /\ v[1 + 1] = b
  <2>1. /\ v \in Seq(S) /\ Len(v) = Len(s) + Len(t)
        /\ \A i \in 1 .. Len(s) : v[i] = s[i]
        /\ \A i \in 1 .. Len(t) : v[Len(s) + i] = t[i]
    BY <1>3, <1>4, ConcatProperties
  <2>2. 1 \in 1 .. 1 /\ 1 + 1 = 2
    OBVIOUS
  <2> QED BY <1>3, <2>1, <2>2
<1>6. \A i \in 1 .. 2 : v[i] = u[i]
  BY <1>3, <1>5
<1>7. v = u
  BY <1>3, <1>5, <1>6, SeqEqual
<1> QED BY <1>2, <1>4, <1>7

(* The numbers of "=" as the page reads them. *)
LEMMA OrderOfRealm ==
    ASSUME NEW ids, ids # {}, NEW r, NEW members,
           userRealm' = [x \in EndPoint |-> userRealm'[x]],
           members = realmUsers'[r], members \in Seq(EndPoint), IsInjective(members),
           \A x \in EndPoint : userID'[x] \in ids => userRealm'[x] = r,
           \A x \in ToSet(members) : userID'[x] \in Nat,
           \A x, y \in ToSet(members) : userID'[x] = userID'[y] => x = y,
           ids \subseteq {userID'[x] : x \in ToSet(members)}
    PROVE  /\ InOrder(ids) \in Seq(Nat) /\ IsInjective(InOrder(ids))
           /\ ToSet(InOrder(ids)) = ids
<1>1. ToSet(members) \subseteq EndPoint
  BY ToSetType
<1>2. \E x \in EndPoint : userID'[x] \in ids
  BY <1>1
<1>3. userRealm'[CHOOSE x \in EndPoint : userID'[x] \in ids] = r
  BY <1>2
<1>4. PICK listed : listed = [i \in DOMAIN members |-> userID'[members[i]]]
  OBVIOUS
<1>5. InOrder(ids) = Chosen(listed, ids)
  <2> DEFINE R == userRealm'[CHOOSE x \in EndPoint : userID'[x] \in ids]
             L == [i \in DOMAIN realmUsers'[R] |-> userID'[realmUsers'[R][i]]]
  <2>1. InOrder(ids) = Chosen(L, ids)
    BY Zenon DEF InOrder, Chosen
  <2>2. R = r
    BY <1>3
  <2> HIDE DEF R
  <2>3. L = listed
    BY <1>4, <2>2
  <2> HIDE DEF L
  <2> QED BY <2>1, <2>3
<1>6. PICK n \in Nat : n = Len(members) /\ DOMAIN members = 1 .. n
  OBVIOUS
<1>7. \A i \in 1 .. n : members[i] \in ToSet(members)
  BY <1>6 DEF ToSet
<1>8. /\ listed \in Seq(Nat) /\ DOMAIN listed = 1 .. n
      /\ \A i \in 1 .. n : listed[i] = userID'[members[i]]
  BY <1>4, <1>6, <1>7
<1>9. IsInjective(listed)
  BY <1>6, <1>7, <1>8 DEF IsInjective
<1>10. ToSet(listed) = {userID'[x] : x \in ToSet(members)}
  BY <1>6, <1>8 DEF ToSet
<1>11. /\ Chosen(listed, ids) \in Seq(Nat) /\ IsInjective(Chosen(listed, ids))
       /\ ToSet(Chosen(listed, ids)) = ToSet(listed) \cap ids
  BY <1>8, <1>9, ChosenOfDistinct
<1> QED BY <1>5, <1>10, <1>11

LEMMA FrameIsList ==
    ASSUME NEW packet, NEW text
    PROVE  List(Frame(packet, text))
<1>1. \A a : List(<<a>>)
  BY SmallLists
<1>2. CASE packet.symbol \in {"@", "!", "*"}
  <2>1. PICK m : m = [symbol |-> packet.symbol, number |-> packet.number, text |-> text]
    OBVIOUS
  <2>2. Frame(packet, text) = <<m>>
    BY <1>2, <2>1 DEF Frame
  <2> QED BY <1>1, <2>2
<1>3. CASE packet.symbol = "="
  <2>1. PICK m : m = [symbol |-> "=", numbers |-> InOrder(packet.numbers)]
    BY Zenon
  <2>2. Frame(packet, text) = IF packet.numbers = {} THEN <<>> ELSE <<m>>
    BY <1>3, <2>1, Zenon DEF Frame
  <2> QED BY <1>1, <2>2, SmallLists
<1>4. CASE packet.symbol \notin {"@", "!", "*", "="}
  <2>1. Frame(packet, text) = <<packet>>
    BY <1>4 DEF Frame
  <2> QED BY <1>1, <2>1
<1> QED BY <1>2, <1>3, <1>4

(* What was written first is read first. *)
LEMMA FramesConcat ==
    ASSUME NEW s, NEW t, List(s), List(t), NEW text
    PROVE  /\ List(Frames(s, text))
           /\ Frames(s \o t, text) = Frames(s, text) \o Frames(t, text)
<1>1. PICK n \in Nat, m \in Nat : /\ n = Len(s) /\ m = Len(t)
                                  /\ DOMAIN s = 1 .. n /\ DOMAIN t = 1 .. m
  BY ListPlaces
<1>2. PICK u : u = s \o t
  OBVIOUS
<1>3. /\ List(u) /\ Len(u) = n + m
      /\ \A i \in 1 .. n : u[i] = s[i]
      /\ \A i \in 1 .. m : u[n + i] = t[i]
  BY <1>1, <1>2, ListConcat
<1>4. DOMAIN u = 1 .. n + m
  BY <1>3, ListPlaces
<1>5. PICK ss : ss = [i \in 1 .. n |-> Frame(s[i], text)]
  BY Zenon
<1>6. PICK tt : tt = [i \in 1 .. m |-> Frame(t[i], text)]
  BY Zenon
<1>7. PICK uu : uu = [i \in 1 .. n + m |-> Frame(u[i], text)]
  BY Zenon
<1>8. /\ List(ss) /\ Len(ss) = n
      /\ \A i \in 1 .. n : ss[i] = Frame(s[i], text)
  <2>1. ss \in Seq({ss[i] : i \in 1 .. n}) /\ Len(ss) = n
        /\ \A i \in 1 .. n : ss[i] = Frame(s[i], text)
    BY <1>5
  <2> QED BY <2>1, ListOf
<1>9. /\ List(tt) /\ Len(tt) = m
      /\ \A i \in 1 .. m : tt[i] = Frame(t[i], text)
  <2>1. tt \in Seq({tt[i] : i \in 1 .. m}) /\ Len(tt) = m
        /\ \A i \in 1 .. m : tt[i] = Frame(t[i], text)
    BY <1>6
  <2> QED BY <2>1, ListOf
<1>10. PICK vv : vv = ss \o tt
  OBVIOUS
<1>11. /\ List(vv) /\ Len(vv) = n + m
       /\ \A i \in 1 .. n : vv[i] = ss[i]
       /\ \A i \in 1 .. m : vv[n + i] = tt[i]
  <2>1. List(ss) /\ Len(ss) = n /\ List(tt) /\ Len(tt) = m
    BY <1>8, <1>9
  <2> QED BY <1>10, <2>1, ListConcat
<1>12. vv = uu
  <2>1. ASSUME NEW i \in 1 .. n + m
        PROVE  vv[i] = Frame(u[i], text)
    <3>1. CASE i \in 1 .. n
      <4>1. u[i] = s[i] /\ vv[i] = ss[i] /\ ss[i] = Frame(s[i], text)
        BY <1>3, <1>8, <1>11, <3>1
      <4> QED BY <4>1, Zenon
    <3>2. CASE i \notin 1 .. n
      <4>1. PICK j \in 1 .. m : i = n + j
        <5>1. i - n \in 1 .. m /\ i = n + (i - n)
          BY <3>2
        <5> QED BY <5>1
      <4>2. u[i] = t[j] /\ vv[i] = tt[j]
        BY <1>3, <1>11, <4>1
      <4> QED BY <1>9, <4>2
    <3> QED BY <3>1, <3>2
  <2>2. DOMAIN vv = 1 .. n + m /\ vv = [i \in 1 .. n + m |-> vv[i]]
    <3>1. DOMAIN vv = 1 .. n + m
      BY <1>11, ListPlaces
    <3>2. vv \in Seq(ToSet(vv))
      BY <1>11 DEF List
    <3> QED BY <1>11, <3>1, <3>2
  <2> QED BY <1>7, <2>1, <2>2, Zenon
<1>13. \A i \in 1 .. n : List(ss[i])
  BY <1>8, FrameIsList
<1>14. \A i \in 1 .. m : List(tt[i])
  BY <1>9, FrameIsList
<1>15. /\ List(FlattenSeq(ss))
       /\ FlattenSeq(ss \o tt) = FlattenSeq(ss) \o FlattenSeq(tt)
  BY <1>8, <1>9, <1>13, <1>14, FlattenConcat
<1>16. /\ Frames(s, text) = FlattenSeq(ss) /\ Frames(t, text) = FlattenSeq(tt)
       /\ Frames(u, text) = FlattenSeq(uu)
  BY <1>1, <1>4, <1>5, <1>6, <1>7, Zenon DEF Frames
<1> QED BY <1>2, <1>10, <1>12, <1>15, <1>16, Zenon

(* Packets that are read as they are. *)
LEMMA FramesPlain ==
    ASSUME NEW s, List(s), NEW text, \A i \in 1 .. Len(s) : Frame(s[i], text) = <<s[i]>>
    PROVE  Frames(s, text) = s
<1>1. PICK n \in Nat : n = Len(s) /\ DOMAIN s = 1 .. n
  BY ListPlaces
<1>2. PICK ss : ss = [i \in 1 .. n |-> Frame(s[i], text)]
  BY Zenon
<1>3. Len(ss) = n /\ \A i \in 1 .. n : ss[i] = <<s[i]>>
  BY <1>1, <1>2
<1>4. FlattenSeq(ss) = s
  BY <1>1, <1>3, FlattenSingles
<1> QED BY <1>1, <1>2, <1>4, Zenon DEF Frames
==============================================================================
