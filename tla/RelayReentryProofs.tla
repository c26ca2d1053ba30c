------------------------- MODULE RelayReentryProofs -------------------------
(***************************************************************************)
(* Proofs about RelayReentry, for any end points, Realm objects, numbers   *)
(* of realms and failures of Sends: the types, Membership, DisconnectsOnce,*)
(* RealmsAgree and SoundWithoutFailures are invariants.                    *)
(*                                                                         *)
(* All five rest on what the handlers under way look like.  StackShape     *)
(* says it of the stack alone; PendingOK, of what a handler has still to   *)
(* do and the state it will find; Quiet, of a server on which no Send has  *)
(* failed yet.                                                             *)
(***************************************************************************)
EXTENDS RelayReentry, QueueLemmas, FiniteSetTheorems

-----------------------------------------------------------------------------
(* What may be on the list of a handler. *)

Target == RealmNumber \cup {NoRealm}

Op == [op : {"change"}, user : EndPoint, target : Target, child : BOOLEAN]
      \cup {o \in [op : {"enter"}, user : EndPoint, target : Target,
                   child : BOOLEAN, old : Object \cup {Null}] :
              o.child => o.old # Null}
      \cup [op : {"newchild"}, target : Target, old : Object]
      \cup [op : {"cleanup"}, old : Object \cup {Null}]
      \cup [op : {"destroy"}, old : Object]
      \cup [op : {"forget"}, user : EndPoint]
      \cup [op : {"send"}, user : EndPoint]
      \cup [op : {"loop"}, old : Object, list : Seq(EndPoint),
            next : Nat \ {0}, except : EndPoint \cup {Null}]

(* One of these takes the place of another; forgetting a user is the last  *)
(* thing its disconnection does.                                           *)
Control ==
    {o \in Op : o.op \in {"change", "enter", "newchild", "cleanup", "destroy"}}
Parting == {o \in Op : o.op = "forget"}

(* What only a text of a user leads to: a disconnection joins no realm and *)
(* writes to nobody but in loops.                                          *)
OfText ==
    {o \in Op : \/ o.op \in {"change", "enter"} /\ (o.target # NoRealm \/ o.child)
                \/ o.op \in {"newchild", "send"}}

AtMostOne(f, K) == \A j, k \in DOMAIN f : f[j] \in K /\ f[k] \in K => j = k

LoopFirst(f) == \A j \in DOMAIN f : f[j].op = "loop" => j = 1

FrameShape(f) ==
    /\ AtMostOne(f, Control)
    /\ AtMostOne(f, Parting)
    /\ LoopFirst(f)

(* Handlers but the outermost are disconnections, each of a user of its    *)
(* own.                                                                    *)
StackShape(s) ==
    /\ s \in Seq(Seq(Op) \ {<<>>})
    /\ \A i \in DOMAIN s :
          /\ FrameShape(s[i])
          /\ ToSet(s[i]) \cap OfText # {} =>
                i = Len(s) /\ ToSet(s[i]) \cap Parting = {}
    /\ \A i, k \in DOMAIN s, e \in EndPoint :
          Forget(e) \in ToSet(s[i]) \cap ToSet(s[k]) => i = k

Pending(s) == UNION {ToSet(s[i]) : i \in DOMAIN s}

-----------------------------------------------------------------------------
(* The inductive invariant. *)

RealmType == [id : Target, parent : Object \cup {Null},
              children : SUBSET Object, users : Seq(EndPoint)]

Types ==
    /\ clients \subseteq users
    /\ users \subseteq EndPoint
    /\ userRealm \in [EndPoint -> Object \cup {Null}]
    /\ realmsByID \in [RealmNumber -> Object \cup {Null}]
    /\ realm \in [Object -> RealmType]
    /\ failed \in {0, 1}

(* A Realm object in use has a number; what a user, the list of realms, a  *)
(* handler or another object refers to is in use.                          *)
InUse(r) == realm[r].id # NoRealm
Referred ==
    /\ \A e \in EndPoint : userRealm[e] # Null => InUse(userRealm[e])
    /\ \A n \in RealmNumber : realmsByID[n] # Null => InUse(realmsByID[n])
    /\ \A r \in Object :
          /\ realm[r].parent # Null => InUse(r) /\ InUse(realm[r].parent)
          /\ realm[r].children # {} => InUse(r)
          /\ realm[r].parent # r

(* What a handler still has to do will find the state it needs. *)
Founded(o) ==
    /\ o.op = "forget" => o.user \in users \ clients
    /\ o.op = "enter" => userRealm[o.user] = Null
    /\ "old" \in DOMAIN o => o.old = Null \/ InUse(o.old)
PendingOK == \A o \in Pending(stack) : Founded(o)

(* Without a failure there is one handler at a time, every user it writes  *)
(* to is there, and the links of a realm on the list lead to realms on the *)
(* list.                                                                   *)
Listed(r) == \E n \in RealmNumber : realmsByID[n] = r
QuietlyFounded(o) ==
    /\ o \in OfText /\ o.op # "newchild" => o.user \in clients
    /\ o.op \in {"enter", "cleanup", "destroy"} => o.old = Null \/ Listed(o.old)
    /\ o.op = "destroy" => Deserted(o.old)
    /\ o.op = "loop" => realm[o.old].users = o.list
Quiet ==
    /\ Len(stack) <= 1
    /\ \A o \in Pending(stack) : QuietlyFounded(o)
    /\ \A e \in users \ clients : Forget(e) \in Pending(stack)
    /\ \A e \in EndPoint : userRealm[e] # Null =>
          /\ Listed(userRealm[e])
          /\ e \in clients \/ stack = <<Disconnection(e)>>
    /\ \A r \in Object : Listed(r) /\ realm[r].parent # Null =>
          /\ Listed(realm[r].parent)
          /\ \/ r \in realm[realm[r].parent].children
             \/ Destroy(r) \in Pending(stack)

Base == Types /\ Referred /\ Membership /\ RealmsAgree
IInv == /\ Base
        /\ StackShape(stack)
        /\ PendingOK
        /\ failed = 0 => Quiet

-----------------------------------------------------------------------------
(* Facts about lists of ops, and about the stack of handlers. *)

(* What handlers put on their lists, and of which kind it is. *)
LEMMA OpsTyped ==
    ASSUME NEW e \in EndPoint, NEW t \in Target, NEW c \in BOOLEAN
    PROVE  /\ Change(e, t, c) \in Control
           /\ Change(e, NoRealm, FALSE) \in Control \ OfText
           /\ Forget(e) \in Parting \ OfText
           /\ Send(e) \in OfText
           /\ Enter(e, t, FALSE, Null) \in Control
           /\ t = NoRealm => Enter(e, t, FALSE, Null) \notin OfText
<1> USE DEF Op, Control, Parting, OfText, Target
<1>1. NoRealm \in Target /\ Null \notin Object
  BY ReentryAssumption
<1>2. /\ Change(e, t, c) \in Control
      /\ Change(e, NoRealm, FALSE) \in Control \ OfText
  BY <1>1 DEF Change
<1>3. Forget(e) \in Parting \ OfText
  BY DEF Forget
<1>4. Send(e) \in OfText
  BY DEF Send
<1>5. /\ Enter(e, t, FALSE, Null) \in Control
      /\ t = NoRealm => Enter(e, t, FALSE, Null) \notin OfText
  BY <1>1 DEF Enter
<1> QED BY <1>2, <1>3, <1>4, <1>5

LEMMA OpsOfRealmTyped ==
    ASSUME NEW e \in EndPoint, NEW t \in Target, NEW c \in BOOLEAN,
           NEW r \in Object
    PROVE  /\ Enter(e, t, c, r) \in Control
           /\ t = NoRealm /\ ~c => Enter(e, t, c, r) \notin OfText
           /\ NewChild(t, r) \in Control \cap OfText
           /\ Destroy(r) \in Control \ OfText
<1> USE DEF Op, Control, OfText, Target
<1>1. Null \notin Object
  BY ReentryAssumption
<1>2. NewChild(t, r) \in Control \cap OfText
  BY DEF NewChild
<1>3. Destroy(r) \in Control \ OfText
  BY DEF Destroy
<1>4. /\ Enter(e, t, c, r) \in Control
      /\ t = NoRealm /\ ~c => Enter(e, t, c, r) \notin OfText
  BY <1>1 DEF Enter
<1> QED BY <1>2, <1>3, <1>4

LEMMA CleanupTyped ==
    ASSUME NEW r \in Object \cup {Null}
    PROVE  Cleanup(r) \in Control \ OfText
BY DEF Op, Control, OfText, Cleanup

LEMMA KindsApart ==
    /\ Control \cap Parting = {} /\ Parting \cap OfText = {}
    /\ Control \subseteq Op /\ Parting \subseteq Op /\ OfText \subseteq Op
BY DEF Control, Parting, OfText

LEMMA LoopTyped ==
    ASSUME NEW r \in Object, NEW list \in Seq(EndPoint),
           NEW x \in EndPoint \cup {Null}
    PROVE  Loop(r, list, x) \in Op \ ((Control \cup Parting) \cup OfText)
BY DEF Op, Control, Parting, OfText, Loop

(* The list of a handler that does ops in place of the first thing on it. *)
Replaced(f, ops) == ops \o Tail(f)

LEMMA ReplacedItems ==
    ASSUME NEW f \in Seq(Op), f # <<>>, NEW ops \in Seq(Op)
    PROVE  LET g == Replaced(f, ops)
           IN  /\ g \in Seq(Op)
               /\ Len(g) = Len(ops) + Len(f) - 1
               /\ \A j \in 1 .. Len(ops) : g[j] = ops[j]
               /\ \A j \in Len(ops) + 1 .. Len(g) : g[j] = f[j - Len(ops) + 1]
               /\ ToSet(g) = ToSet(ops) \cup {f[j] : j \in 2 .. Len(f)}
<1> DEFINE t == Tail(f)
           g == ops \o t
<1>1. /\ t \in Seq(Op)
      /\ Len(t) = Len(f) - 1
      /\ \A j \in 1 .. Len(f) - 1 : t[j] = f[j + 1]
      /\ Len(f) \in Nat /\ Len(f) > 0 /\ Len(ops) \in Nat
  OBVIOUS
<1>2. /\ g \in Seq(Op)
      /\ Len(g) = Len(ops) + Len(t)
      /\ \A j \in 1 .. Len(ops) + Len(t) :
            g[j] = IF j <= Len(ops) THEN ops[j] ELSE t[j - Len(ops)]
  BY <1>1, ConcatProperties
<1> HIDE DEF t, g
<1>3. \A j \in 1 .. Len(ops) : g[j] = ops[j]
  BY <1>1, <1>2
<1>4. ASSUME NEW j \in Len(ops) + 1 .. Len(g)
      PROVE  g[j] = f[j - Len(ops) + 1]
  <2>1. /\ j \in 1 .. Len(ops) + Len(t) /\ ~(j <= Len(ops))
        /\ j - Len(ops) \in 1 .. Len(f) - 1
    BY <1>1, <1>2
  <2>2. g[j] = t[j - Len(ops)]
    BY <2>1, <1>2
  <2> QED BY <2>1, <2>2, <1>1
<1>5. ToSet(g) \subseteq ToSet(ops) \cup {f[j] : j \in 2 .. Len(f)}
  <2> SUFFICES ASSUME NEW j \in 1 .. Len(g)
               PROVE  g[j] \in ToSet(ops) \cup {f[i] : i \in 2 .. Len(f)}
    BY <1>2 DEF ToSet
  <2>1. CASE j <= Len(ops)
    <3>1. j \in DOMAIN ops /\ g[j] = ops[j]
      BY <2>1, <1>1, <1>2
    <3> QED BY <3>1 DEF ToSet
  <2>2. CASE ~(j <= Len(ops))
    <3>1. j \in Len(ops) + 1 .. Len(g) /\ j - Len(ops) + 1 \in 2 .. Len(f)
      BY <2>2, <1>1, <1>2
    <3> QED BY <3>1, <1>4
  <2> QED BY <2>1, <2>2
<1>6. ToSet(ops) \subseteq ToSet(g)
  <2> SUFFICES ASSUME NEW j \in 1 .. Len(ops)
               PROVE  \E i \in DOMAIN g : g[i] = ops[j]
    BY DEF ToSet
  <2> QED BY <1>1, <1>2, <1>3
<1>7. ASSUME NEW j \in 2 .. Len(f)
      PROVE  f[j] \in ToSet(g)
  <2> DEFINE i == j + Len(ops) - 1
  <2>1. i \in Len(ops) + 1 .. Len(g) /\ i - Len(ops) + 1 = j /\ i \in DOMAIN g
    BY <1>1, <1>2
  <2>2. g[i] = f[j]
    BY <2>1, <1>4
  <2> QED BY <2>1, <2>2 DEF ToSet
<1>8. ToSet(g) = ToSet(ops) \cup {f[j] : j \in 2 .. Len(f)}
  BY <1>5, <1>6, <1>7
<1>9. Len(g) = Len(ops) + Len(f) - 1
  BY <1>1, <1>2
<1> QED BY <1>2, <1>3, <1>4, <1>8, <1>9 DEF Replaced, g, t

(* One thing of a kind in place of another: there is still no second. *)
LEMMA ReplacedAtMostOne ==
    ASSUME NEW f \in Seq(Op), f # <<>>, NEW ops \in Seq(Op), NEW K,
           AtMostOne(f, K), AtMostOne(ops, K),
           ToSet(ops) \cap K # {} => f[1] \in K
    PROVE  /\ AtMostOne(Replaced(f, ops), K)
           /\ f[1] \in K => ToSet(Replaced(f, <<>>)) \cap K = {}
<1> DEFINE g == Replaced(f, ops)
<1>1. /\ Len(g) = Len(ops) + Len(f) - 1
      /\ g \in Seq(Op)
      /\ \A j \in 1 .. Len(ops) : g[j] = ops[j]
      /\ \A j \in Len(ops) + 1 .. Len(g) : g[j] = f[j - Len(ops) + 1]
  BY ReplacedItems, Zenon
<1>2. Len(ops) \in Nat /\ Len(f) \in Nat /\ Len(f) > 0
  OBVIOUS
<1> HIDE DEF g
<1>3. ASSUME NEW j \in DOMAIN g, NEW k \in DOMAIN g, g[j] \in K, g[k] \in K
      PROVE  j = k
  <2>0. j \in 1 .. Len(g) /\ k \in 1 .. Len(g)
    BY <1>1
  <2>1. ASSUME NEW i \in 1 .. Len(g), g[i] \in K
        PROVE  \/ i \in 1 .. Len(ops) /\ ops[i] \in K /\ f[1] \in K
               \/ /\ i \in Len(ops) + 1 .. Len(g)
                  /\ i - Len(ops) + 1 \in 2 .. Len(f) /\ f[i - Len(ops) + 1] \in K
    <3>1. CASE i <= Len(ops)
      <4>1. i \in 1 .. Len(ops) /\ ops[i] \in K
        BY <3>1, <2>1, <1>1, <1>2
      <4> QED BY <4>1 DEF ToSet
    <3>2. CASE ~(i <= Len(ops))
      BY <3>2, <2>1, <1>1, <1>2
    <3> QED BY <3>1, <3>2
  <2>2. ~(f[1] \in K /\ \E i \in 2 .. Len(f) : f[i] \in K)
    BY <1>2 DEF AtMostOne
  <2>3. CASE j \in 1 .. Len(ops) /\ ops[j] \in K /\ f[1] \in K
    <3>1. k \in 1 .. Len(ops) /\ ops[k] \in K
      BY <2>0, <2>1, <2>2, <2>3, <1>3
    <3> QED BY <3>1, <2>3 DEF AtMostOne
  <2>4. CASE /\ j \in Len(ops) + 1 .. Len(g)
             /\ j - Len(ops) + 1 \in 2 .. Len(f) /\ f[j - Len(ops) + 1] \in K
    <3>1. k - Len(ops) + 1 \in 2 .. Len(f) /\ f[k - Len(ops) + 1] \in K
      BY <2>0, <2>1, <2>2, <2>4, <1>3
    <3>2. j - Len(ops) + 1 = k - Len(ops) + 1
      BY <3>1, <2>4 DEF AtMostOne
    <3> QED BY <3>2, <2>0, <1>2
  <2> QED BY <2>0, <2>1, <2>3, <2>4, <1>3
<1>4. f[1] \in K => ToSet(Replaced(f, <<>>)) \cap K = {}
  <2>1. ToSet(Replaced(f, <<>>)) = ToSet(<<>>) \cup {f[j] : j \in 2 .. Len(f)}
    <3>1. <<>> \in Seq(Op)
      OBVIOUS
    <3> QED BY <3>1, ReplacedItems, Zenon
  <2>2. f[1] \in K => \A j \in 2 .. Len(f) : f[j] \notin K
    BY <1>2 DEF AtMostOne
  <2> QED BY <2>1, <2>2, EmptyQueue
<1>5. AtMostOne(g, K)
  BY <1>3 DEF AtMostOne
<1> QED BY <1>4, <1>5 DEF g

(* What may take the place of o on the list of a handler. *)
OpsFit(o, ops) ==
    /\ ops \in Seq(Op)
    /\ FrameShape(ops)
    /\ ToSet(ops) \cap Control # {} => o \in Control
    /\ ToSet(ops) \cap Parting = {}
    /\ ToSet(ops) \cap OfText # {} => o \in OfText

LEMMA ReplacedShape ==
    ASSUME NEW f \in Seq(Op), f # <<>>, FrameShape(f), NEW ops, OpsFit(f[1], ops)
    PROVE  FrameShape(Replaced(f, ops))
<1> DEFINE g == Replaced(f, ops)
<1>0. ops \in Seq(Op)
  BY DEF OpsFit
<1>1. AtMostOne(g, Control) /\ AtMostOne(g, Parting)
  <2>1. /\ AtMostOne(f, Control) /\ AtMostOne(f, Parting)
        /\ AtMostOne(ops, Control) /\ AtMostOne(ops, Parting)
        /\ ToSet(ops) \cap Control # {} => f[1] \in Control
        /\ ToSet(ops) \cap Parting # {} => f[1] \in Parting
    BY DEF OpsFit, FrameShape
  <2>2. AtMostOne(g, Control)
    BY <2>1, <1>0, ReplacedAtMostOne, Zenon
  <2>3. AtMostOne(g, Parting)
    BY <2>1, <1>0, ReplacedAtMostOne, Zenon
  <2> QED BY <2>2, <2>3
<1>2. /\ Len(g) = Len(ops) + Len(f) - 1
      /\ g \in Seq(Op)
      /\ \A j \in 1 .. Len(ops) : g[j] = ops[j]
      /\ \A j \in Len(ops) + 1 .. Len(g) : g[j] = f[j - Len(ops) + 1]
  BY <1>0, ReplacedItems, Zenon
<1> HIDE DEF g
<1>3. ASSUME NEW j \in DOMAIN g, g[j].op = "loop"
      PROVE  j = 1
  <2>0. j \in 1 .. Len(g) /\ Len(ops) \in Nat /\ Len(f) \in Nat /\ Len(f) > 0
    BY <1>0, <1>2
  <2>1. CASE j <= Len(ops)
    <3>1. j \in DOMAIN ops /\ ops[j].op = "loop"
      BY <2>0, <2>1, <1>0, <1>2, <1>3
    <3> QED BY <3>1 DEF OpsFit, FrameShape, LoopFirst
  <2>2. CASE ~(j <= Len(ops))
    <3>0. j \in Len(ops) + 1 .. Len(g) /\ j - Len(ops) + 1 \in 2 .. Len(f)
      BY <2>0, <2>2, <1>2
    <3>1. f[j - Len(ops) + 1].op = "loop"
      BY <3>0, <1>2, <1>3
    <3>2. j - Len(ops) + 1 \in DOMAIN f
      BY <3>0, <2>0
    <3>3. j - Len(ops) + 1 = 1
      BY <3>1, <3>2, Zenon DEF FrameShape, LoopFirst
    <3> QED BY <3>0, <3>3
  <2> QED BY <2>1, <2>2
<1> QED BY <1>1, <1>3 DEF FrameShape, LoopFirst, g

(* What is left when the first thing of the innermost handler is done. *)
Rest(s) == {s[1][j] : j \in 2 .. Len(s[1])} \cup UNION {ToSet(s[i]) : i \in 2 .. Len(s)}

LEMMA RestOfStack ==
    ASSUME StackShape(stack), stack # <<>>
    PROVE  /\ stack[1] \in Seq(Op) \ {<<>>}
           /\ Head(stack) = stack[1]
           /\ Todo = stack[1][1]
           /\ Todo \in Pending(stack)
           /\ Todo \in ToSet(stack[1])
           /\ Pending(stack) \subseteq Op
           /\ Pending(stack) = {Todo} \cup Rest(stack)
           /\ Todo \in Parting => Todo \notin Rest(stack)
           /\ Todo \in OfText => Len(stack) = 1
           /\ Len(stack) = 1 =>
                 /\ \A o \in Rest(stack) : o.op # "loop"
                 /\ Todo \in Control => Rest(stack) \cap Control = {}
<1>1. /\ stack \in Seq(Seq(Op) \ {<<>>})
      /\ Len(stack) \in Nat /\ Len(stack) > 0
      /\ \A i \in 1 .. Len(stack) : stack[i] \in Seq(Op) \ {<<>>}
      /\ DOMAIN stack = 1 .. Len(stack)
  BY DEF StackShape
<1>2. /\ stack[1] \in Seq(Op) \ {<<>>}
      /\ Head(stack) = stack[1]
      /\ Todo = stack[1][1]
  BY <1>1 DEF Todo
<1>3. Len(stack[1]) \in Nat /\ Len(stack[1]) > 0 /\ DOMAIN stack[1] = 1 .. Len(stack[1])
  BY <1>2
<1>4. Todo \in ToSet(stack[1])
  BY <1>2, <1>3 DEF ToSet
<1>5. Todo \in Pending(stack)
  BY <1>1, <1>4 DEF Pending
<1>6. Pending(stack) \subseteq Op
  BY <1>1, ToSetType DEF Pending
<1>7. {stack[1][j] : j \in 2 .. Len(stack[1])} \subseteq ToSet(stack[1])
  BY <1>3 DEF ToSet
<1>8. Rest(stack) \subseteq Pending(stack)
  <2>1. \A i \in 1 .. Len(stack) : ToSet(stack[i]) \subseteq Pending(stack)
    BY <1>1 DEF Pending
  <2>2. \A i \in 2 .. Len(stack) : ToSet(stack[i]) \subseteq Pending(stack)
    BY <2>1
  <2>3. ToSet(stack[1]) \subseteq Pending(stack)
    BY <2>1, <1>1
  <2> QED BY <2>2, <2>3, <1>7 DEF Rest
<1>13. Pending(stack) \subseteq {Todo} \cup Rest(stack)
  <2> SUFFICES ASSUME NEW i \in 1 .. Len(stack), NEW o \in ToSet(stack[i]),
                      o # Todo
               PROVE  o \in Rest(stack)
    BY <1>1 DEF Pending
  <2>1. CASE i = 1
    <3>1. PICK j \in 1 .. Len(stack[1]) : o = stack[1][j]
      BY <1>3, <2>1 DEF ToSet
    <3>2. j \in 2 .. Len(stack[1])
      BY <1>2, <1>3, <3>1
    <3> QED BY <3>1, <3>2 DEF Rest
  <2>2. CASE i # 1
    <3>1. i \in 2 .. Len(stack)
      BY <1>1, <2>2
    <3> QED BY <3>1 DEF Rest
  <2> QED BY <2>1, <2>2
<1>9. FrameShape(stack[1])
  BY <1>1 DEF StackShape
<1>10. ASSUME Todo \in Parting
       PROVE  Todo \notin Rest(stack)
  <2>1. PICK e \in EndPoint : Todo = Forget(e)
    BY <1>10 DEF Parting, Op, Forget
  <2>2. \A j \in 2 .. Len(stack[1]) : stack[1][j] # Todo
    BY <1>2, <1>3, <1>9, <1>10 DEF FrameShape, AtMostOne
  <2>3. \A i \in 2 .. Len(stack) : Todo \notin ToSet(stack[i])
    <3> SUFFICES ASSUME NEW i \in 2 .. Len(stack), Todo \in ToSet(stack[i])
                 PROVE  FALSE
      OBVIOUS
    <3>1. 1 \in DOMAIN stack /\ i \in DOMAIN stack /\ i # 1
      BY <1>1
    <3>2. Forget(e) \in ToSet(stack[1]) \cap ToSet(stack[i])
      BY <2>1, <1>4
    <3> QED BY <3>1, <3>2, Zenon DEF StackShape
  <2> QED BY <2>2, <2>3 DEF Rest
<1>11. ASSUME Todo \in OfText
       PROVE  Len(stack) = 1
  BY <1>1, <1>4, <1>11, SMTT(30) DEF StackShape
<1>12. ASSUME Len(stack) = 1
       PROVE  /\ \A o \in Rest(stack) : o.op # "loop"
              /\ Todo \in Control => Rest(stack) \cap Control = {}
  <2>1. Rest(stack) = {stack[1][j] : j \in 2 .. Len(stack[1])}
    BY <1>12 DEF Rest
  <2>2. \A j \in 2 .. Len(stack[1]) : stack[1][j].op # "loop"
    BY <1>3, <1>9 DEF FrameShape, LoopFirst
  <2>3. Todo \in Control => \A j \in 2 .. Len(stack[1]) : stack[1][j] \notin Control
    BY <1>2, <1>3, <1>9 DEF FrameShape, AtMostOne
  <2> QED BY <2>1, <2>2, <2>3
<1> QED BY <1>2, <1>4, <1>5, <1>6, <1>8, <1>10, <1>11, <1>12, <1>13

(* The innermost handler has ended, or is cut off. *)
LEMMA TailShape ==
    ASSUME StackShape(stack), stack # <<>>
    PROVE  /\ StackShape(Tail(stack))
           /\ Pending(Tail(stack)) = UNION {ToSet(stack[i]) : i \in 2 .. Len(stack)}
           /\ Len(Tail(stack)) = Len(stack) - 1
<1> DEFINE s == Tail(stack)
<1>0. /\ stack \in Seq(Seq(Op) \ {<<>>})
      /\ Len(stack) \in Nat /\ Len(stack) > 0
      /\ \A i \in 1 .. Len(stack) : stack[i] \in Seq(Op) \ {<<>>}
      /\ DOMAIN stack = 1 .. Len(stack)
  BY DEF StackShape
<1>1. /\ s \in Seq(Seq(Op) \ {<<>>})
      /\ Len(s) = Len(stack) - 1
      /\ \A i \in 1 .. Len(s) : i + 1 \in 2 .. Len(stack) /\ s[i] = stack[i + 1]
      /\ \A i \in 2 .. Len(stack) : i - 1 \in 1 .. Len(s) /\ s[i - 1] = stack[i]
      /\ DOMAIN s = 1 .. Len(s)
  BY <1>0
<1> HIDE DEF s
<1>6. ASSUME NEW m \in DOMAIN s
      PROVE  m + 1 \in DOMAIN stack /\ s[m] = stack[m + 1]
  BY <1>0, <1>1, SMTT(30)
<1>2. \A i \in DOMAIN s :
        /\ FrameShape(s[i])
        /\ ToSet(s[i]) \cap OfText # {} =>
              i = Len(s) /\ ToSet(s[i]) \cap Parting = {}
  <2> SUFFICES ASSUME NEW i \in DOMAIN s
               PROVE  /\ FrameShape(s[i])
                      /\ ToSet(s[i]) \cap OfText # {} =>
                           i = Len(s) /\ ToSet(s[i]) \cap Parting = {}
    OBVIOUS
  <2>1. i + 1 \in DOMAIN stack /\ s[i] = stack[i + 1]
    BY <1>6
  <2>2. /\ FrameShape(stack[i + 1])
        /\ ToSet(stack[i + 1]) \cap OfText # {} =>
             i + 1 = Len(stack) /\ ToSet(stack[i + 1]) \cap Parting = {}
    BY <2>1, Zenon DEF StackShape
  <2>3. i + 1 = Len(stack) => i = Len(s)
    BY <1>0, <1>1
  <2> QED BY <2>1, <2>2, <2>3
<1>3. ASSUME NEW i \in DOMAIN s, NEW k \in DOMAIN s, NEW e \in EndPoint,
             Forget(e) \in ToSet(s[i]) \cap ToSet(s[k])
      PROVE  i = k
  <2>1. /\ i + 1 \in DOMAIN stack /\ k + 1 \in DOMAIN stack
        /\ Forget(e) \in ToSet(stack[i + 1]) \cap ToSet(stack[k + 1])
    BY <1>6, <1>3
  <2>2. i + 1 = k + 1
    BY <2>1, Zenon DEF StackShape
  <2> QED BY <2>2, <1>1
<1>4. StackShape(s)
  BY <1>1, <1>2, <1>3 DEF StackShape
<1>5. Pending(s) = UNION {ToSet(stack[i]) : i \in 2 .. Len(stack)}
  <2>1. ASSUME NEW o \in Pending(s)
        PROVE  \E i \in 2 .. Len(stack) : o \in ToSet(stack[i])
    <3>1. PICK i \in DOMAIN s : o \in ToSet(s[i])
      BY DEF Pending
    <3> QED BY <3>1, <1>1
  <2>2. ASSUME NEW i \in 2 .. Len(stack)
        PROVE  ToSet(stack[i]) \subseteq Pending(s)
    BY <1>1 DEF Pending
  <2> QED BY <2>1, <2>2
<1> QED BY <1>1, <1>4, <1>5 DEF s

(* The handler goes on with ops. *)
LEMMA InsteadShape ==
    ASSUME StackShape(stack), stack # <<>>, NEW ops, OpsFit(Todo, ops)
    PROVE  /\ StackShape(Instead(ops))
           /\ Pending(Instead(ops)) = ToSet(ops) \cup Rest(stack)
           /\ Len(Instead(ops)) <= Len(stack)
<1> DEFINE f == stack[1]
           g == Replaced(f, ops)
           s == Instead(ops)
<1>1. /\ stack \in Seq(Seq(Op) \ {<<>>})
      /\ Len(stack) \in Nat /\ Len(stack) > 0
      /\ \A i \in 1 .. Len(stack) : stack[i] \in Seq(Op) \ {<<>>}
      /\ DOMAIN stack = 1 .. Len(stack)
      /\ ops \in Seq(Op)
  BY DEF StackShape, OpsFit
<1>2. /\ f \in Seq(Op) /\ f # <<>> /\ Head(stack) = f /\ Todo = f[1]
      /\ Todo \in ToSet(f)
  BY RestOfStack
<1>3. /\ g \in Seq(Op)
      /\ ToSet(g) = ToSet(ops) \cup {f[j] : j \in 2 .. Len(f)}
  BY <1>1, <1>2, ReplacedItems, Zenon
<1>4. FrameShape(g)
  <2>1. FrameShape(f)
    BY <1>1 DEF StackShape
  <2> QED BY <1>2, <2>1, ReplacedShape, Zenon
<1>5. s = IF g = <<>> THEN Tail(stack) ELSE <<g>> \o Tail(stack)
  BY <1>2 DEF Instead, Replaced
<1>6. {f[j] : j \in 2 .. Len(f)} \subseteq ToSet(f)
  BY <1>2 DEF ToSet
<1>7. ToSet(g) \cap OfText # {} => Len(stack) = 1 /\ ToSet(g) \cap Parting = {}
  <2>1. ToSet(g) \cap OfText # {} => ToSet(f) \cap OfText # {}
    BY <1>2, <1>3, <1>6 DEF OpsFit
  <2>2. ToSet(f) \cap OfText # {} => Len(stack) = 1 /\ ToSet(f) \cap Parting = {}
    <3>1. 1 \in DOMAIN stack
      BY <1>1
    <3> QED BY <3>1, Zenon DEF StackShape
  <2> QED BY <2>1, <2>2, <1>3, <1>6 DEF OpsFit
<1>8. \A e \in EndPoint : Forget(e) \in ToSet(g) => Forget(e) \in ToSet(f)
  <2>1. \A e \in EndPoint : Forget(e) \in Parting
    BY OpsTyped, Zenon DEF Target
  <2> QED BY <2>1, <1>3, <1>6 DEF OpsFit
<1> HIDE DEF f, g, s
<1>9. CASE g = <<>>
  <2>1. ToSet(ops) \cup {f[j] : j \in 2 .. Len(f)} = {}
    BY <1>3, <1>9, EmptyQueue
  <2>2. Pending(s) = ToSet(ops) \cup Rest(stack)
    BY <2>1, <1>5, <1>9, TailShape DEF Rest, f
  <2>3. StackShape(s) /\ Len(s) <= Len(stack)
    BY <1>1, <1>5, <1>9, TailShape
  <2> QED BY <2>2, <2>3 DEF s
<1>10. CASE g # <<>>
  <2>1. /\ s \in Seq(Seq(Op) \ {<<>>})
        /\ Len(s) = Len(stack)
        /\ s[1] = g
        /\ \A i \in 2 .. Len(stack) : s[i] = stack[i]
        /\ DOMAIN s = 1 .. Len(s)
    <3> DEFINE t == Tail(stack)
    <3>1. /\ t \in Seq(Seq(Op) \ {<<>>})
          /\ Len(t) = Len(stack) - 1
          /\ \A i \in 1 .. Len(t) : t[i] = stack[i + 1]
      BY <1>1
    <3>2. /\ s \in Seq(Seq(Op) \ {<<>>})
          /\ Len(s) = 1 + Len(t)
          /\ \A i \in 1 .. 1 + Len(t) : s[i] = IF i <= 1 THEN g ELSE t[i - 1]
      <4> HIDE DEF t
      <4>0. <<g>> \in Seq(Seq(Op) \ {<<>>}) /\ Len(<<g>>) = 1 /\ <<g>>[1] = g
        BY <1>3, <1>10
      <4>1. /\ <<g>> \o t \in Seq(Seq(Op) \ {<<>>})
            /\ Len(<<g>> \o t) = Len(<<g>>) + Len(t)
            /\ \A i \in 1 .. Len(<<g>>) + Len(t) :
                 (<<g>> \o t)[i] = IF i <= Len(<<g>>) THEN <<g>>[i] ELSE t[i - Len(<<g>>)]
        BY <4>0, <3>1, ConcatProperties
      <4>2. s = <<g>> \o t
        BY <1>5, <1>10 DEF t
      <4> HIDE DEF s
      <4>3. \A i \in 1 .. 1 + Len(t) : i <= 1 => i = 1
        OBVIOUS
      <4> QED BY <4>0, <4>1, <4>2, <4>3
    <3> HIDE DEF t, s
    <3>3. 1 \in 1 .. 1 + Len(t)
      BY <3>1, <1>1
    <3>4. s[1] = g
      BY <3>2, <3>3
    <3>5. ASSUME NEW i \in 2 .. Len(stack)
          PROVE  s[i] = stack[i]
      <4>1. i \in 1 .. 1 + Len(t) /\ ~(i <= 1) /\ i - 1 \in 1 .. Len(t)
        BY <3>1, <1>1
      <4> QED BY <4>1, <3>1, <3>2
    <3> QED BY <3>1, <3>2, <3>4, <3>5, <1>1
  <2>2. ASSUME NEW i \in DOMAIN s
        PROVE  /\ FrameShape(s[i])
               /\ ToSet(s[i]) \cap OfText # {} =>
                    i = Len(s) /\ ToSet(s[i]) \cap Parting = {}
    <3>1. CASE i = 1
      BY <3>1, <2>1, <1>4, <1>7
    <3>2. CASE i # 1
      <4>1. i \in 2 .. Len(stack) /\ i \in DOMAIN stack /\ s[i] = stack[i]
        BY <3>2, <2>1, <1>1
      <4> QED BY <4>1, <2>1 DEF StackShape
    <3> QED BY <3>1, <3>2
  <2>3. ASSUME NEW i \in DOMAIN s, NEW k \in DOMAIN s, NEW e \in EndPoint,
               Forget(e) \in ToSet(s[i]) \cap ToSet(s[k])
        PROVE  i = k
    <3>1. \A m \in DOMAIN s :
            /\ m \in DOMAIN stack
            /\ Forget(e) \in ToSet(s[m]) => Forget(e) \in ToSet(stack[m])
      <4> SUFFICES ASSUME NEW m \in DOMAIN s
                   PROVE  /\ m \in DOMAIN stack
                          /\ Forget(e) \in ToSet(s[m]) => Forget(e) \in ToSet(stack[m])
        OBVIOUS
      <4>1. CASE m = 1
        BY <4>1, <2>1, <1>1, <1>8 DEF f
      <4>2. CASE m # 1
        <5>1. m \in 2 .. Len(stack)
          BY <4>2, <2>1, <1>1
        <5> QED BY <5>1, <2>1, <1>1
      <4> QED BY <4>1, <4>2
    <3> QED BY <3>1, <2>3, Zenon DEF StackShape
  <2>4. StackShape(s)
    BY <2>1, <2>2, <2>3 DEF StackShape
  <2>5. Pending(s) = ToSet(g) \cup UNION {ToSet(stack[i]) : i \in 2 .. Len(stack)}
    <3>1. ASSUME NEW o \in Pending(s)
          PROVE  o \in ToSet(g) \/ \E i \in 2 .. Len(stack) : o \in ToSet(stack[i])
      <4>1. PICK i \in DOMAIN s : o \in ToSet(s[i])
        BY DEF Pending
      <4>2. i = 1 \/ i \in 2 .. Len(stack)
        BY <2>1, <1>1
      <4> QED BY <4>1, <4>2, <2>1
    <3>2. ASSUME NEW i \in 2 .. Len(stack)
          PROVE  ToSet(stack[i]) \subseteq Pending(s)
      <4>1. i \in DOMAIN s /\ s[i] = stack[i]
        BY <2>1, <1>1
      <4> QED BY <4>1 DEF Pending
    <3>3. ToSet(g) \subseteq Pending(s)
      <4>1. 1 \in DOMAIN s
        BY <2>1, <1>1
      <4> QED BY <4>1, <2>1 DEF Pending
    <3> QED BY <3>1, <3>2, <3>3
  <2>6. Pending(s) = ToSet(ops) \cup Rest(stack)
    BY <2>5, <1>3 DEF Rest, f
  <2> QED BY <2>4, <2>6, <2>1, <1>1 DEF s
<1> QED BY <1>9, <1>10

(* A handler starts inside the others: the disconnection of x. *)
LEMMA PushShape ==
    ASSUME NEW s, StackShape(s), NEW x \in EndPoint, Forget(x) \notin Pending(s)
    PROVE  /\ StackShape(<<Disconnection(x)>> \o s)
           /\ Pending(<<Disconnection(x)>> \o s) =
                {Change(x, NoRealm, FALSE), Forget(x)} \cup Pending(s)
<1> DEFINE d == Disconnection(x)
           t == <<d>> \o s
<1>1. /\ s \in Seq(Seq(Op) \ {<<>>})
      /\ Len(s) \in Nat
      /\ DOMAIN s = 1 .. Len(s)
  BY DEF StackShape
<1>2. /\ Change(x, NoRealm, FALSE) \in Control \ OfText
      /\ Forget(x) \in Parting \ OfText
  BY OpsTyped, Zenon DEF Target
<1>3. /\ d \in Seq(Op) /\ d # <<>> /\ Len(d) = 2
      /\ d[1] = Change(x, NoRealm, FALSE) /\ d[2] = Forget(x)
  <2>1. Change(x, NoRealm, FALSE) \in Op /\ Forget(x) \in Op
    BY <1>2, KindsApart
  <2>2. \A a, b \in Op : /\ <<a, b>> \in Seq(Op) /\ <<a, b>> # <<>>
                         /\ Len(<<a, b>>) = 2 /\ <<a, b>>[1] = a /\ <<a, b>>[2] = b
    OBVIOUS
  <2> QED BY <2>1, <2>2, Zenon DEF Disconnection
<1> HIDE DEF d
<1>4. ToSet(d) = {Change(x, NoRealm, FALSE), Forget(x)}
  <2>1. DOMAIN d = {1, 2}
    BY <1>3
  <2> QED BY <2>1, <1>3 DEF ToSet
<1>5. FrameShape(d)
  <2>1. DOMAIN d = {1, 2}
    BY <1>3
  <2>2. d[2] \notin Control /\ d[1] \notin Parting
    BY <1>2, <1>3, KindsApart
  <2>3. d[2].op # "loop"
    BY <1>3 DEF Forget
  <2> QED BY <2>1, <2>2, <2>3 DEF FrameShape, AtMostOne, LoopFirst
<1>6. ToSet(d) \cap OfText = {}
  BY <1>2, <1>4
<1>7. \A e \in EndPoint : Forget(e) \in ToSet(d) => e = x
  <2>1. \A e \in EndPoint : Forget(e).op = "forget" /\ Forget(e).user = e
    BY DEF Forget
  <2>2. Change(x, NoRealm, FALSE).op = "change"
    BY DEF Change
  <2> QED BY <2>1, <2>2, <1>4
<1>8. /\ t \in Seq(Seq(Op) \ {<<>>})
      /\ Len(t) = Len(s) + 1
      /\ \A i \in 1 .. Len(s) + 1 : t[i] = IF i = 1 THEN d ELSE s[i - 1]
  <2>1. <<d>> \in Seq(Seq(Op) \ {<<>>}) /\ Len(<<d>>) = 1 /\ <<d>>[1] = d
    BY <1>3
  <2>2. /\ t \in Seq(Seq(Op) \ {<<>>})
        /\ Len(t) = Len(<<d>>) + Len(s)
        /\ \A i \in 1 .. Len(<<d>>) + Len(s) :
             t[i] = IF i <= Len(<<d>>) THEN <<d>>[i] ELSE s[i - Len(<<d>>)]
    BY <2>1, <1>1, ConcatProperties
  <2> HIDE DEF t
  <2>3. \A i \in 1 .. Len(s) + 1 : i <= 1 <=> i = 1
    OBVIOUS
  <2> QED BY <2>1, <2>2, <2>3, <1>1
<1> HIDE DEF t
<1>9. ASSUME NEW i \in DOMAIN t
      PROVE  \/ i = 1 /\ t[i] = d
             \/ i # 1 /\ i - 1 \in DOMAIN s /\ t[i] = s[i - 1]
  BY <1>1, <1>8
<1>10. ASSUME NEW i \in DOMAIN t
       PROVE  /\ FrameShape(t[i])
              /\ ToSet(t[i]) \cap OfText # {} =>
                   i = Len(t) /\ ToSet(t[i]) \cap Parting = {}
  <2>1. CASE t[i] = d
    BY <2>1, <1>5, <1>6
  <2>2. CASE i - 1 \in DOMAIN s /\ t[i] = s[i - 1]
    <3>1. /\ FrameShape(s[i - 1])
          /\ ToSet(s[i - 1]) \cap OfText # {} =>
               i - 1 = Len(s) /\ ToSet(s[i - 1]) \cap Parting = {}
      BY <2>2, Zenon DEF StackShape
    <3>2. i - 1 = Len(s) => i = Len(t)
      BY <1>1, <1>8
    <3> QED BY <2>2, <3>1, <3>2
  <2> QED BY <2>1, <2>2, <1>9
<1>11. ASSUME NEW i \in DOMAIN t, NEW k \in DOMAIN t, NEW e \in EndPoint,
              Forget(e) \in ToSet(t[i]) \cap ToSet(t[k])
       PROVE  i = k
  <2>1. \A m \in DOMAIN s : Forget(x) \notin ToSet(s[m])
    BY DEF Pending
  <2>2. CASE i = 1 \/ k = 1
    <3>1. e = x
      BY <2>2, <1>7, <1>9, <1>11
    <3> QED BY <3>1, <2>1, <1>9, <1>11
  <2>3. CASE i # 1 /\ k # 1
    <3>1. i - 1 \in DOMAIN s /\ k - 1 \in DOMAIN s
      BY <2>3, <1>9
    <3>2. Forget(e) \in ToSet(s[i - 1]) \cap ToSet(s[k - 1])
      BY <2>3, <1>9, <1>11
    <3>3. i - 1 = k - 1
      BY <3>1, <3>2, Zenon DEF StackShape
    <3> QED BY <3>3, <1>1, <1>8
  <2> QED BY <2>2, <2>3
<1>12. StackShape(t)
  BY <1>8, <1>10, <1>11 DEF StackShape
<1>13. Pending(t) = {Change(x, NoRealm, FALSE), Forget(x)} \cup Pending(s)
  <2>1. Pending(t) \subseteq ToSet(d) \cup Pending(s)
    <3> SUFFICES ASSUME NEW i \in DOMAIN t, NEW o \in ToSet(t[i])
                 PROVE  o \in ToSet(d) \cup Pending(s)
      BY DEF Pending
    <3> QED BY <1>9 DEF Pending
  <2>2. ToSet(d) \subseteq Pending(t)
    <3>1. 1 \in DOMAIN t /\ t[1] = d
      BY <1>1, <1>8
    <3> QED BY <3>1 DEF Pending
  <2>3. Pending(s) \subseteq Pending(t)
    <3> SUFFICES ASSUME NEW i \in DOMAIN s, NEW o \in ToSet(s[i])
                 PROVE  o \in Pending(t)
      BY DEF Pending
    <3>0. i \in 1 .. Len(s) /\ i + 1 \in 1 .. Len(s) + 1 /\ i + 1 # 1 /\ (i + 1) - 1 = i
      BY <1>1
    <3>1. t[i + 1] = s[i]
      BY <3>0, <1>8
    <3>2. i + 1 \in DOMAIN t
      BY <3>0, <1>8
    <3> QED BY <3>1, <3>2 DEF Pending
  <2> QED BY <2>1, <2>2, <2>3, <1>4
<1> QED BY <1>12, <1>13 DEF t, d

(* An event starts a handler when no other runs. *)
LEMMA StartShape ==
    ASSUME NEW f \in Seq(Op), f # <<>>, FrameShape(f),
           ToSet(f) \cap OfText # {} => ToSet(f) \cap Parting = {}
    PROVE  StackShape(<<f>>) /\ Pending(<<f>>) = ToSet(f)
<1>1. /\ <<f>> \in Seq(Seq(Op) \ {<<>>})
      /\ DOMAIN <<f>> = {1} /\ Len(<<f>>) = 1 /\ <<f>>[1] = f
  OBVIOUS
<1>2. Pending(<<f>>) = ToSet(f)
  BY <1>1 DEF Pending
<1> QED BY <1>1, <1>2 DEF StackShape

-----------------------------------------------------------------------------
(* Facts about the objects that are kept. *)

LEMMA LiveObjects ==
    ASSUME userRealm \in [EndPoint -> Object \cup {Null}],
           NEW byID \in [RealmNumber -> Object \cup {Null}],
           NEW objects \in [Object -> RealmType], NEW s
    PROVE  /\ Live(byID, objects, s) \subseteq Object
           /\ Held(byID, s) \subseteq Live(byID, objects, s)
           /\ \A r \in Live(byID, objects, s) :
                 Links(objects, r) \subseteq Live(byID, objects, s)
<1> DEFINE Closed(S) == /\ Held(byID, s) \subseteq S
                        /\ \A r \in S : Links(objects, r) \subseteq S
<1>1. \A r : r \in Live(byID, objects, s) <=>
                r \in Object /\ \A S \in SUBSET Object : Closed(S) => r \in S
  BY DEF Live
<1>2. Held(byID, s) \subseteq Object
  BY DEF Held, HeldByStack, ToSet
<1>3. \A r \in Object : Links(objects, r) \subseteq Object
  BY DEF Links, RealmType
<1>4. Held(byID, s) \subseteq Live(byID, objects, s)
  BY <1>1, <1>2
<1>5. ASSUME NEW r \in Live(byID, objects, s), NEW x \in Links(objects, r)
      PROVE  x \in Live(byID, objects, s)
  <2>1. x \in Object /\ r \in Object
    BY <1>1, <1>3
  <2>2. ASSUME NEW S \in SUBSET Object, Closed(S)
        PROVE  x \in S
    BY <1>1, <2>2
  <2> HIDE DEF Closed
  <2> QED BY <1>1, <2>1, <2>2
<1> QED BY <1>1, <1>4, <1>5

(* What is kept stays as it is, and what it refers to is kept too. *)
LEMMA KeptObjects ==
    ASSUME userRealm \in [EndPoint -> Object \cup {Null}],
           NEW byID \in [RealmNumber -> Object \cup {Null}],
           NEW objects \in [Object -> RealmType], NEW s,
           NEW kept, kept = Kept(byID, objects, s),
           NEW live, live = Live(byID, objects, s)
    PROVE  /\ kept \in [Object -> RealmType]
           /\ \A r \in Object : kept[r] = IF r \in live THEN objects[r] ELSE Unused
           /\ \A e \in EndPoint : userRealm[e] # Null => userRealm[e] \in live
           /\ \A n \in RealmNumber : byID[n] # Null => byID[n] \in live
           /\ \A i \in DOMAIN s : \A o \in ToSet(s[i]) :
                 "old" \in DOMAIN o /\ o.old \in Object => o.old \in live
           /\ \A r \in live :
                 /\ objects[r].parent # Null => objects[r].parent \in live
                 /\ objects[r].children \subseteq live
<1>1. /\ live \subseteq Object
      /\ Held(byID, s) \subseteq live
      /\ \A r \in live : Links(objects, r) \subseteq live
  BY LiveObjects, Zenon
<1>2. Unused \in RealmType
  BY DEF Unused, RealmType, Target
<1>3. /\ kept \in [Object -> RealmType]
      /\ \A r \in Object : kept[r] = IF r \in live THEN objects[r] ELSE Unused
  BY <1>2 DEF Kept
<1>4. \A e \in EndPoint : userRealm[e] # Null => userRealm[e] \in Held(byID, s)
  BY DEF Held, ToSet
<1>5. \A n \in RealmNumber : byID[n] # Null => byID[n] \in Held(byID, s)
  BY DEF Held, ToSet
<1>6. \A i \in DOMAIN s : \A o \in ToSet(s[i]) :
         "old" \in DOMAIN o /\ o.old \in Object => o.old \in Held(byID, s)
  BY DEF Held, HeldByStack
<1>7. ReentryAssumption
  BY ReentryAssumption
<1>8. ASSUME NEW r \in live
      PROVE  /\ objects[r].parent # Null => objects[r].parent \in live
             /\ objects[r].children \subseteq live
  <2>1. Links(objects, r) \subseteq live /\ objects[r].children \subseteq Object
    BY <1>1 DEF RealmType
  <2> QED BY <2>1, <1>7 DEF Links, ReentryAssumption
<1> QED BY <1>1, <1>3, <1>4, <1>5, <1>6, <1>8

-----------------------------------------------------------------------------
(* Steps that change nothing but the stack. *)

LEMMA DisconnectionFirst ==
    ASSUME NEW e, stack = <<Disconnection(e)>>
    PROVE  Todo = Change(e, NoRealm, FALSE)
<1>1. \A a, b : Head(Head(<< <<a, b>> >>)) = a
  OBVIOUS
<1> QED BY <1>1, Zenon DEF Todo, Disconnection

LEMMA SameState ==
    ASSUME Base, UNCHANGED <<socketVars, users, realmVars>>
    PROVE  /\ Base'
           /\ \A o : Founded(o)' <=> Founded(o)
           /\ \A o : QuietlyFounded(o)' <=> QuietlyFounded(o)
<1> USE DEF socketVars, realmVars
<1>1. Types' /\ Referred'
  BY DEF Base, Types, Referred, InUse
<1>2. Membership' /\ RealmsAgree'
  BY DEF Base, Membership, RealmsAgree
<1>3. \A o : Founded(o)' <=> Founded(o)
  BY DEF Founded, InUse
<1>4. \A o : QuietlyFounded(o)' <=> QuietlyFounded(o)
  BY DEF QuietlyFounded, Listed, Deserted
<1> QED BY <1>1, <1>2, <1>3, <1>4 DEF Base

(* The innermost handler goes on. *)
LEMMA GoKeeps ==
    ASSUME IInv, ~Idle, UNCHANGED <<socketVars, users, realmVars>>,
           NEW ops, Go(ops), OpsFit(Todo, ops),
           Todo.op \notin {"forget", "destroy"},
           \A o \in ToSet(ops) : Founded(o),
           failed = 0 =>
              /\ \A o \in ToSet(ops) : QuietlyFounded(o)
              /\ \A e \in EndPoint : userRealm[e] # Null => e \in clients
    PROVE  IInv'
<1>1. /\ stack # <<>> /\ StackShape(stack) /\ Base /\ PendingOK
      /\ failed = 0 => Quiet
  BY DEF IInv, Idle
<1>2. stack' = Instead(ops)
  BY DEF Go
<1>3. /\ StackShape(stack')
      /\ Pending(stack') = ToSet(ops) \cup Rest(stack)
      /\ Len(stack') <= Len(stack)
  BY <1>1, <1>2, InsteadShape
<1>4. Pending(stack) = {Todo} \cup Rest(stack)
  BY <1>1, RestOfStack
<1>5. /\ Base'
      /\ \A o : Founded(o)' <=> Founded(o)
      /\ \A o : QuietlyFounded(o)' <=> QuietlyFounded(o)
  BY <1>1, SameState
<1>6. PendingOK'
  BY <1>1, <1>3, <1>4, <1>5 DEF PendingOK
<1>7. ASSUME failed' = 0
      PROVE  Quiet'
  <2>0. Quiet /\ failed = 0
    BY <1>1, <1>7 DEF socketVars
  <2>1. Len(stack') <= 1
    BY <1>1, <1>3, <2>0 DEF Quiet, StackShape
  <2>2. \A o \in Pending(stack') : QuietlyFounded(o)'
    BY <1>3, <1>4, <1>5, <2>0 DEF Quiet
  <2>3. ASSUME NEW e \in users \ clients
        PROVE  Forget(e) \in Pending(stack')
    <3>1. Forget(e) \in Pending(stack)
      BY <2>0 DEF Quiet
    <3>2. Forget(e) # Todo
      BY DEF Forget
    <3> QED BY <3>1, <3>2, <1>3, <1>4
  <2>4. \A e \in EndPoint : userRealm[e] # Null => Listed(userRealm[e]) /\ e \in clients
    BY <2>0 DEF Quiet
  <2>5. ASSUME NEW r \in Object, Listed(r), realm[r].parent # Null
        PROVE  /\ Listed(realm[r].parent)
               /\ \/ r \in realm[realm[r].parent].children
                  \/ Destroy(r) \in Pending(stack')
    <3>1. Destroy(r) # Todo
      BY DEF Destroy
    <3> QED BY <3>1, <2>0, <2>5, <1>3, <1>4 DEF Quiet
  <2>6. /\ users' \ clients' = users \ clients /\ userRealm' = userRealm
        /\ realm' = realm /\ clients' = clients
        /\ \A r : Listed(r)' <=> Listed(r)
    BY DEF Listed, socketVars, realmVars
  <2> QED BY <2>1, <2>2, <2>3, <2>4, <2>5, <2>6 DEF Quiet
<1> QED BY <1>3, <1>5, <1>6, <1>7 DEF IInv

(* The innermost handler is cut off.  Without a failure that is only after *)
(* "&-1", in a text's own handler.                                         *)
LEMMA ThrowKeeps ==
    ASSUME IInv, ~Idle, UNCHANGED <<socketVars, users, realmVars>>, Throw,
           failed = 0 =>
              /\ Todo \in OfText \cap Control
              /\ Todo.op \notin {"change", "destroy"}
    PROVE  IInv'
<1>1. /\ stack # <<>> /\ StackShape(stack) /\ Base /\ PendingOK
      /\ failed = 0 => Quiet
  BY DEF IInv, Idle
<1>2. stack' = Tail(stack)
  BY DEF Throw
<1>3. /\ StackShape(stack')
      /\ Pending(stack') \subseteq Rest(stack)
      /\ Len(stack') = Len(stack) - 1
  BY <1>1, <1>2, TailShape DEF Rest
<1>4. Pending(stack) = {Todo} \cup Rest(stack)
  BY <1>1, RestOfStack
<1>5. /\ Base'
      /\ \A o : Founded(o)' <=> Founded(o)
  BY <1>1, SameState
<1>6. PendingOK'
  BY <1>1, <1>3, <1>4, <1>5 DEF PendingOK
<1>7. ASSUME failed' = 0
      PROVE  Quiet'
  <2>0. Quiet /\ failed = 0
    BY <1>1, <1>7 DEF socketVars
  <2>1. /\ Todo \in OfText \cap Control /\ Todo.op \notin {"change", "destroy"}
        /\ Todo \in ToSet(stack[1]) /\ Len(stack) = 1 /\ 1 \in DOMAIN stack
        /\ Rest(stack) \cap Control = {}
    BY <1>1, <2>0, RestOfStack
  <2>2. stack' = <<>> /\ Pending(stack') = {}
    BY <1>2, <1>1, <2>1, SMTT(30) DEF Pending, StackShape
  <2>3. users \subseteq clients
    <3> SUFFICES ASSUME NEW e \in users \ clients PROVE FALSE
      OBVIOUS
    <3>1. Forget(e) \in Pending(stack) /\ e \in EndPoint
      BY <2>0, <1>1 DEF Quiet, Base, Types
    <3>2. Forget(e) \in ToSet(stack[1])
      BY <3>1, <2>1, <1>1 DEF Pending, StackShape
    <3>3. Forget(e) \in Parting
      BY <3>1, OpsTyped, Zenon DEF Target
    <3>4. ToSet(stack[1]) \cap Parting = {}
      BY <2>1, <1>1 DEF StackShape
    <3> QED BY <3>2, <3>3, <3>4
  <2>4. ASSUME NEW e \in EndPoint, userRealm[e] # Null
        PROVE  Listed(userRealm[e]) /\ e \in clients
    <3>1. Todo # Change(e, NoRealm, FALSE)
      BY <2>1 DEF Change
    <3>2. stack # <<Disconnection(e)>>
      BY <3>1, DisconnectionFirst, Zenon
    <3> QED BY <3>2, <2>0, <2>4 DEF Quiet
  <2>5. ASSUME NEW r \in Object, Listed(r), realm[r].parent # Null
        PROVE  /\ Listed(realm[r].parent)
               /\ r \in realm[realm[r].parent].children
    <3>1. Destroy(r) # Todo
      BY <2>1 DEF Destroy
    <3>2. Destroy(r) \in Control
      BY DEF Destroy, Control, Op
    <3> QED BY <3>1, <3>2, <2>0, <2>1, <2>5, <1>4 DEF Quiet
  <2>6. /\ users' \ clients' = users \ clients /\ userRealm' = userRealm
        /\ realm' = realm /\ clients' = clients
        /\ \A r : Listed(r)' <=> Listed(r)
    BY DEF Listed, socketVars, realmVars
  <2> QED BY <2>2, <2>3, <2>4, <2>5, <2>6 DEF Quiet
<1> QED BY <1>3, <1>5, <1>6, <1>7 DEF IInv

(* Users who are in a realm are connected, but for one whose disconnection *)
(* has just begun.                                                         *)
LEMMA QuietMembers ==
    ASSUME IInv, failed = 0, Todo.op # "change"
    PROVE  \A e \in EndPoint : userRealm[e] # Null => e \in clients
<1> SUFFICES ASSUME NEW e \in EndPoint, userRealm[e] # Null
             PROVE  e \in clients
  OBVIOUS
<1>1. Quiet
  BY DEF IInv
<1>2. Todo # Change(e, NoRealm, FALSE)
  BY DEF Change
<1>3. stack # <<Disconnection(e)>>
  BY <1>2, DisconnectionFirst, Zenon
<1> QED BY <1>1, <1>3 DEF Quiet

-----------------------------------------------------------------------------
(* What takes the place of a thing that is done. *)

LEMMA EmptyFits ==
    ASSUME NEW o
    PROVE  OpsFit(o, <<>>) /\ ToSet(<<>>) = {}
<1>1. <<>> \in Seq(Op) /\ DOMAIN <<>> = {}
  OBVIOUS
<1> QED BY <1>1, EmptyQueue DEF OpsFit, FrameShape, AtMostOne, LoopFirst

LEMMA OneFits ==
    ASSUME NEW o, NEW p \in Op, p \notin Parting,
           p \in Control => o \in Control,
           p \in OfText => o \in OfText
    PROVE  OpsFit(o, <<p>>) /\ ToSet(<<p>>) = {p}
<1>1. <<p>> \in Seq(Op) /\ DOMAIN <<p>> = {1} /\ <<p>>[1] = p
  OBVIOUS
<1>2. ToSet(<<p>>) = {p}
  BY <1>1 DEF ToSet
<1> QED BY <1>1, <1>2 DEF OpsFit, FrameShape, AtMostOne, LoopFirst

LEMMA LoopFits ==
    ASSUME NEW o, o \in Control, NEW p \in Op \ ((Control \cup Parting) \cup OfText),
           NEW q \in Control, q \in OfText => o \in OfText
    PROVE  OpsFit(o, <<p, q>>) /\ ToSet(<<p, q>>) = {p, q}
<1>0. q \in Op /\ q \notin Parting
  BY KindsApart
<1>1. /\ <<p, q>> \in Seq(Op) /\ DOMAIN <<p, q>> = {1, 2}
      /\ <<p, q>>[1] = p /\ <<p, q>>[2] = q
  BY <1>0
<1>2. ToSet(<<p, q>>) = {p, q}
  BY <1>1 DEF ToSet
<1>3. q.op # "loop"
  BY DEF Control
<1>4. FrameShape(<<p, q>>)
  BY <1>0, <1>1, <1>3 DEF FrameShape, AtMostOne, LoopFirst
<1> QED BY <1>0, <1>1, <1>2, <1>4 DEF OpsFit

LEMMA SendsFit ==
    ASSUME NEW o, o \in OfText \cap Control, NEW a \in Control,
           NEW sends \in Seq(Op), \A x \in ToSet(sends) : x.op = "send"
    PROVE  /\ OpsFit(o, sends \o <<a>>)
           /\ ToSet(sends \o <<a>>) = ToSet(sends) \cup {a}
<1> DEFINE ops == sends \o <<a>>
           n == Len(sends) + 1
<1>1. /\ a \in Op /\ a \notin Parting /\ a.op # "loop"
      /\ \A x \in ToSet(sends) : x \notin Control \cup Parting /\ x.op # "loop"
  BY DEF Control, Parting
<1>2. /\ ops \in Seq(Op) /\ Len(ops) = n /\ n \in Nat
      /\ \A j \in 1 .. Len(sends) : ops[j] = sends[j]
      /\ ops[n] = a
  <2>1. <<a>> \in Seq(Op) /\ Len(<<a>>) = 1 /\ <<a>>[1] = a
    BY <1>1
  <2>2. /\ ops \in Seq(Op)
        /\ Len(ops) = Len(sends) + Len(<<a>>)
        /\ \A j \in 1 .. Len(sends) + Len(<<a>>) :
             ops[j] = IF j <= Len(sends) THEN sends[j] ELSE <<a>>[j - Len(sends)]
    BY <2>1, ConcatProperties
  <2> HIDE DEF ops
  <2>3. Len(sends) \in Nat
    OBVIOUS
  <2>4. /\ n \in 1 .. Len(sends) + Len(<<a>>) /\ ~(n <= Len(sends)) /\ n - Len(sends) = 1
        /\ \A j \in 1 .. Len(sends) : j \in 1 .. Len(sends) + Len(<<a>>) /\ j <= Len(sends)
    BY <2>1, <2>3
  <2>5. ops[n] = a
    BY <2>1, <2>2, <2>4
  <2>6. \A j \in 1 .. Len(sends) : ops[j] = sends[j]
    BY <2>2, <2>4
  <2> QED BY <2>1, <2>2, <2>3, <2>5, <2>6
<1> HIDE DEF ops
<1>3. \A j \in DOMAIN ops :
         j = n \/ (j \in 1 .. Len(sends) /\ ops[j] \in ToSet(sends))
  <2> SUFFICES ASSUME NEW j \in 1 .. n, j # n
               PROVE  j \in 1 .. Len(sends) /\ ops[j] \in ToSet(sends)
    <3>1. DOMAIN ops = 1 .. n
      BY <1>2
    <3> QED BY <3>1
  <2>1. j \in DOMAIN sends /\ j \in 1 .. Len(sends)
    OBVIOUS
  <2> QED BY <2>1, <1>2 DEF ToSet
<1>4. ToSet(ops) = ToSet(sends) \cup {a}
  <2>1. ToSet(ops) \subseteq ToSet(sends) \cup {a}
    BY <1>2, <1>3 DEF ToSet
  <2>2. \A j \in DOMAIN sends : j \in DOMAIN ops /\ ops[j] = sends[j]
    BY <1>2 DEF n
  <2>3. n \in DOMAIN ops
    BY <1>2 DEF n
  <2> QED BY <2>1, <2>2, <2>3, <1>2 DEF ToSet
<1>5. FrameShape(ops)
  <2>1. \A j \in DOMAIN ops : j = n \/ (ops[j] \notin Control \cup Parting /\ ops[j].op # "loop")
    BY <1>1, <1>3
  <2> QED BY <2>1, <1>1, <1>2 DEF FrameShape, AtMostOne, LoopFirst
<1> QED BY <1>1, <1>2, <1>4, <1>5 DEF OpsFit, ops

-----------------------------------------------------------------------------
(* One lemma for each step. *)

(* A Send that succeeds, fails or throws. *)
LEMMA DeliverKeeps ==
    ASSUME IInv, ~Idle, NEW x \in EndPoint, NEW ops, Deliver(x, ops),
           OpsFit(Todo, ops), Todo.op \notin {"change", "forget", "destroy"},
           \A o \in ToSet(ops) : Founded(o),
           failed = 0 => x \in clients /\ \A o \in ToSet(ops) : QuietlyFounded(o)
    PROVE  IInv'
<1>1. /\ stack # <<>> /\ StackShape(stack) /\ Base /\ PendingOK
      /\ failed = 0 => Quiet
  BY DEF IInv, Idle
<1>2. CASE Go(ops) /\ UNCHANGED socketVars
  <2>1. failed = 0 => \A e \in EndPoint : userRealm[e] # Null => e \in clients
    BY QuietMembers
  <2>2. UNCHANGED <<socketVars, users, realmVars>>
    BY <1>2 DEF Deliver
  <2> QED BY <1>2, <2>1, <2>2, GoKeeps
<1>3. CASE x \notin users \cap clients /\ Throw /\ UNCHANGED socketVars
  <2>1. failed # 0
    BY <1>1, <1>3 DEF Base, Types
  <2>2. UNCHANGED <<socketVars, users, realmVars>>
    BY <1>3 DEF Deliver
  <2> QED BY <1>3, <2>1, <2>2, ThrowKeeps
<1>4. CASE /\ x \in users \cap clients
           /\ failed' = 1
           /\ clients' = clients \ {x}
           /\ stack' = <<Disconnection(x)>> \o Instead(ops)
  <2>1. UNCHANGED <<users, userRealm, realmsByID, realm>>
    BY DEF Deliver, realmVars
  <2>2. /\ StackShape(Instead(ops))
        /\ Pending(Instead(ops)) \subseteq ToSet(ops) \cup Pending(stack)
    <3>1. Rest(stack) \subseteq Pending(stack)
      BY <1>1, RestOfStack
    <3> QED BY <1>1, <3>1, InsteadShape
  <2>3. \A o \in Pending(Instead(ops)) : Founded(o)
    BY <1>1, <2>2 DEF PendingOK
  <2>4. Forget(x) \notin Pending(Instead(ops))
    BY <1>4, <2>3 DEF Founded, Forget
  <2>5. /\ StackShape(stack')
        /\ Pending(stack') =
             {Change(x, NoRealm, FALSE), Forget(x)} \cup Pending(Instead(ops))
    BY <1>4, <2>2, <2>4, PushShape
  <2>6. Base'
    <3>1. Types'
      BY <1>1, <1>4, <2>1 DEF Base, Types
    <3> QED BY <1>1, <2>1, <3>1 DEF Base, Referred, InUse, Membership, RealmsAgree
  <2>7. ASSUME NEW o \in Pending(stack')
        PROVE  Founded(o)'
    <3>1. CASE o \in Pending(Instead(ops))
      BY <1>4, <2>1, <2>3, <3>1 DEF Founded, InUse
    <3>2. CASE o = Change(x, NoRealm, FALSE)
      BY <3>2 DEF Founded, Change
    <3>3. CASE o = Forget(x)
      BY <1>4, <2>1, <3>3 DEF Founded, Forget
    <3> QED BY <2>5, <3>1, <3>2, <3>3
  <2>8. failed' # 0
    BY <1>1, <1>4 DEF Base, Types
  <2> QED BY <2>5, <2>6, <2>7, <2>8 DEF IInv, PendingOK
<1> QED BY <1>2, <1>3, <1>4 DEF Deliver

LEMMA SendTurnKeeps == ASSUME IInv, SendTurn PROVE IInv'
<1>1. /\ ~Idle /\ Todo.op = "send" /\ Deliver(Todo.user, <<>>)
  BY DEF SendTurn, Doing
<1>2. Todo \in Pending(stack) /\ Todo \in Op
  BY <1>1, RestOfStack DEF IInv, Idle
<1>3. Todo.user \in EndPoint /\ Todo \in OfText
  BY <1>1, <1>2 DEF Op, OfText
<1>4. failed = 0 => Todo.user \in clients
  BY <1>1, <1>2, <1>3 DEF IInv, Quiet, QuietlyFounded
<1> QED BY <1>1, <1>3, <1>4, EmptyFits, DeliverKeeps

LEMMA LoopTurnKeeps == ASSUME IInv, LoopTurn PROVE IInv'
<1> DEFINE list == Todo.list
           i == Todo.next
           turn == [Todo EXCEPT !.next = i + 1]
<1>1. ~Idle /\ Todo.op = "loop"
  BY DEF LoopTurn, Doing
<1>2. Todo \in Pending(stack) /\ Todo \in Op
  BY <1>1, RestOfStack DEF IInv, Idle
<1>3. /\ Todo \in [op : {"loop"}, old : Object, list : Seq(EndPoint),
                   next : Nat \ {0}, except : EndPoint \cup {Null}]
  BY <1>1, <1>2 DEF Op
<1>4. /\ turn \in [op : {"loop"}, old : Object, list : Seq(EndPoint),
                   next : Nat \ {0}, except : EndPoint \cup {Null}]
      /\ turn.op = "loop" /\ turn.old = Todo.old /\ turn.list = list
  BY <1>3
<1>5. turn \in Op \ ((Control \cup Parting) \cup OfText)
  <2>1. turn \in Op
    BY <1>4 DEF Op
  <2> QED BY <1>4, <2>1 DEF Control, Parting, OfText
<1>6. OpsFit(Todo, <<turn>>) /\ ToSet(<<turn>>) = {turn}
  <2> HIDE DEF turn
  <2> QED BY <1>5, OneFits
<1>7. Founded(turn)
  <2>1. Founded(Todo) /\ "old" \in DOMAIN Todo
    BY <1>2, <1>3 DEF IInv, PendingOK
  <2>2. Todo.old = Null \/ InUse(Todo.old)
    BY <2>1 DEF Founded
  <2> QED BY <1>4, <2>2 DEF Founded
<1>8. failed = 0 => QuietlyFounded(turn)
  <2>1. failed = 0 => QuietlyFounded(Todo)
    BY <1>2 DEF IInv, Quiet
  <2> HIDE DEF turn
  <2> QED BY <1>1, <1>4, <1>5, <2>1 DEF QuietlyFounded
<1>9. failed = 0 => /\ realm[Todo.old].users = list
                      /\ \A e \in EndPoint : userRealm[e] # Null => e \in clients
  BY <1>1, <1>2, QuietMembers DEF IInv, Quiet, QuietlyFounded
<1> HIDE DEF turn
<1>10. CASE UNCHANGED <<socketVars, users, realmVars>> /\ Throw
            /\ realm[Todo.old].users # list
  BY <1>1, <1>9, <1>10, ThrowKeeps
<1>11. CASE UNCHANGED <<socketVars, users, realmVars>> /\ Go(<<>>)
  BY <1>1, <1>9, <1>11, EmptyFits, GoKeeps
<1>12. CASE UNCHANGED <<socketVars, users, realmVars>> /\ Go(<<turn>>)
  BY <1>1, <1>6, <1>7, <1>8, <1>9, <1>12, GoKeeps
<1>13. CASE /\ realm[Todo.old].users = list
            /\ i <= Len(list)
            /\ Deliver(list[i], <<turn>>)
  <2>1. list[i] \in EndPoint /\ list[i] \in ToSet(list)
    <3>1. i \in DOMAIN list
      BY <1>3, <1>13
    <3> QED BY <1>3, <3>1 DEF ToSet
  <2>2. userRealm[list[i]] = Todo.old /\ Todo.old # Null
    <3>1. Todo.old \in Object /\ Null \notin Object
      BY <1>3, ReentryAssumption
    <3> QED BY <3>1, <2>1, <1>13 DEF IInv, Base, Membership
  <2> QED BY <1>1, <1>6, <1>7, <1>8, <1>9, <1>13, <2>1, <2>2, DeliverKeeps
<1> QED BY <1>10, <1>11, <1>12, <1>13 DEF LoopTurn, turn

LEMMA TellNewChildKeeps == ASSUME IInv, TellNewChild PROVE IInv'
<1>1. ~Idle /\ Todo.op = "newchild"
  BY DEF TellNewChild, Doing
<1>2. Todo \in Pending(stack) /\ Todo \in Op
  BY <1>1, RestOfStack DEF IInv, Idle
<1>3. Todo.old \in Object /\ Todo \in OfText \cap Control
  BY <1>1, <1>2 DEF Op, OfText, Control
<1> DEFINE told == realm[Todo.old].users
           loop == Loop(Todo.old, told, Null)
<1>4. told \in Seq(EndPoint)
  BY <1>3 DEF IInv, Base, Types, RealmType
<1>5. loop \in Op \ ((Control \cup Parting) \cup OfText)
  <2> HIDE DEF told
  <2> QED BY <1>3, <1>4, LoopTyped
<1>6. UNCHANGED <<socketVars, users, realmVars>>
  BY DEF TellNewChild
<1>7. CASE Throw
  BY <1>1, <1>3, <1>6, <1>7, ThrowKeeps
<1>8. CASE Go(<<loop>>)
  <2>1. Founded(loop)
    <3>1. "old" \in DOMAIN Todo
      BY <1>1, <1>2 DEF Op
    <3>2. Todo.old = Null \/ InUse(Todo.old)
      BY <1>2, <3>1, Zenon DEF IInv, PendingOK, Founded
    <3> QED BY <3>2 DEF Founded, Loop
  <2>2. QuietlyFounded(loop)
    BY <1>5 DEF QuietlyFounded, Loop
  <2>3. OpsFit(Todo, <<loop>>) /\ ToSet(<<loop>>) = {loop}
    <3> HIDE DEF loop
    <3> QED BY <1>5, OneFits
  <2>4. failed = 0 => \A e \in EndPoint : userRealm[e] # Null => e \in clients
    BY <1>1, QuietMembers
  <2> HIDE DEF loop
  <2> QED BY <1>1, <1>6, <1>8, <2>1, <2>2, <2>3, <2>4, GoKeeps
<1> QED BY <1>7, <1>8 DEF TellNewChild

LEMMA ForgetTurnKeeps == ASSUME IInv, ForgetTurn PROVE IInv'
<1>1. ~Idle /\ Todo.op = "forget" /\ stack' = Instead(<<>>)
  BY DEF ForgetTurn, Doing, Go
<1>2. /\ stack # <<>> /\ StackShape(stack) /\ Base /\ PendingOK
      /\ failed = 0 => Quiet
  BY <1>1 DEF IInv, Idle
<1>3. /\ Todo \in Pending(stack) /\ Todo \in Op /\ Pending(stack) \subseteq Op
      /\ Pending(stack) = {Todo} \cup Rest(stack)
  BY <1>2, RestOfStack
<1>4. Todo \in Parting /\ Todo \notin Rest(stack)
  <2>1. Todo \in Parting
    BY <1>1, <1>3 DEF Parting
  <2> QED BY <1>2, <2>1, RestOfStack
<1>5. PICK e \in EndPoint : Todo = Forget(e)
  BY <1>1, <1>3 DEF Op, Forget
<1>6. e \in users \ clients
  <2>1. Founded(Forget(e))
    BY <1>2, <1>3, <1>5 DEF PendingOK
  <2> QED BY <2>1 DEF Founded, Forget
<1>7. /\ StackShape(stack') /\ Pending(stack') = Rest(stack)
      /\ Len(stack') <= Len(stack)
  BY <1>1, <1>2, EmptyFits, InsteadShape
<1>8. /\ users' = users \ {e}
      /\ UNCHANGED <<clients, failed, userRealm, realmsByID, realm>>
  <2>1. Forget(e).user = e
    BY DEF Forget
  <2> QED BY <1>5, <2>1 DEF ForgetTurn, socketVars, realmVars
<1>9. Base'
  <2>1. Types'
    BY <1>2, <1>6, <1>8 DEF Base, Types
  <2> QED BY <1>2, <1>8, <2>1 DEF Base, Referred, InUse, Membership, RealmsAgree
<1>10. ASSUME NEW o \in Rest(stack)
       PROVE  Founded(o)'
  <2>1. Founded(o)
    BY <1>2, <1>3 DEF PendingOK
  <2>2. o.op = "forget" => o.user # e
    <3>1. ASSUME o.op = "forget" PROVE o = Forget(o.user)
      BY <1>3, <3>1 DEF Op, Forget
    <3> QED BY <3>1, <1>4, <1>5
  <2> QED BY <1>8, <2>1, <2>2 DEF Founded, InUse
<1>11. ASSUME failed' = 0
       PROVE  Quiet'
  <2>0. Quiet /\ failed = 0
    BY <1>2, <1>8, <1>11
  <2>1. \A x \in EndPoint : userRealm[x] # Null => x \in clients
    BY <1>1, <2>0, QuietMembers
  <2>2. Len(stack') <= 1
    BY <1>2, <1>7, <2>0 DEF Quiet, StackShape
  <2>3. \A o \in Pending(stack') : QuietlyFounded(o)'
    BY <1>3, <1>7, <1>8, <2>0 DEF Quiet, QuietlyFounded, Listed, Deserted
  <2>4. ASSUME NEW x \in users' \ clients'
        PROVE  Forget(x) \in Pending(stack')
    <3>1. x \in users \ clients /\ x # e
      BY <1>8
    <3>2. Forget(x) # Todo
      BY <1>5, <3>1 DEF Forget
    <3> QED BY <3>1, <3>2, <1>3, <1>7, <2>0 DEF Quiet
  <2>5. ASSUME NEW r \in Object, Listed(r), realm[r].parent # Null
        PROVE  /\ Listed(realm[r].parent)
               /\ \/ r \in realm[realm[r].parent].children
                  \/ Destroy(r) \in Pending(stack')
    <3>1. Destroy(r) # Todo
      BY <1>1 DEF Destroy
    <3> QED BY <3>1, <2>0, <2>5, <1>3, <1>7 DEF Quiet
  <2>6. \A r : Listed(r)' <=> Listed(r)
    BY <1>8 DEF Listed
  <2> QED BY <1>8, <2>0, <2>1, <2>2, <2>3, <2>4, <2>5, <2>6 DEF Quiet
<1> QED BY <1>7, <1>9, <1>10, <1>11 DEF IInv, PendingOK

(* What is left of a server without failures when a handler has come to    *)
(* its last change of realms: texts to send, or a user to forget.          *)
LEMMA QuietRest ==
    ASSUME IInv, ~Idle, Todo \in Control, failed = 0 \/ Todo \in OfText
    PROVE  /\ Len(stack) = 1
           /\ Rest(stack) \subseteq Op
           /\ \A o \in Rest(stack) : o.op \in {"send", "forget"}
<1>1. stack # <<>> /\ StackShape(stack)
  BY DEF IInv, Idle
<1>2. Len(stack) = 1
  <2>1. CASE failed = 0
    <3>1. Len(stack) <= 1
      BY <2>1 DEF IInv, Quiet
    <3>2. Len(stack) \in Nat /\ Len(stack) > 0
      BY <1>1 DEF StackShape
    <3>3. \A n \in Nat : n <= 1 /\ n > 0 => n = 1
      OBVIOUS
    <3> QED BY <3>1, <3>2, <3>3, Zenon
  <2>2. CASE Todo \in OfText
    BY <1>1, <2>2, RestOfStack
  <2> QED BY <2>1, <2>2
<1>3. /\ Rest(stack) \subseteq Op
      /\ \A o \in Rest(stack) : o.op # "loop" /\ o \notin Control
  BY <1>1, <1>2, RestOfStack
<1>4. \A o \in Rest(stack) : o.op \in {"send", "forget"}
  BY <1>3 DEF Op, Control
<1> QED BY <1>2, <1>3, <1>4

LEMMA LeaveOldKeeps == ASSUME IInv, LeaveOld PROVE IInv'
<1> DEFINE e     == Todo.user
           old   == userRealm[e]
           stays == Todo.target = IF old = Null THEN NoRealm ELSE realm[old].id
           enter == Enter(e, Todo.target, Todo.child /\ old # Null, old)
           left  == Without(realm[old].users, e)
           loop  == Loop(old, left, Null)
<1>1. ~Idle /\ Todo.op = "change" /\ Todo \in Pending(stack) /\ Todo \in Op
  <2>1. ~Idle /\ Todo.op = "change"
    BY DEF LeaveOld, Doing
  <2> QED BY <2>1, RestOfStack DEF IInv, Idle
<1>2. /\ e \in EndPoint /\ Todo.target \in Target /\ Todo.child \in BOOLEAN
      /\ Todo \in Control
      /\ Todo \notin OfText => Todo.target = NoRealm /\ ~Todo.child
  BY <1>1 DEF Op, Control, OfText
<1>3. /\ stack # <<>> /\ StackShape(stack) /\ Base /\ PendingOK
      /\ failed = 0 => Quiet
      /\ Null \notin Object
  BY <1>1, ReentryAssumption DEF IInv, Idle
<1>4. old \in Object \cup {Null} /\ (old # Null => InUse(old))
  BY <1>2, <1>3 DEF Base, Types, Referred
<1>5. /\ enter \in Control
      /\ enter \in OfText => Todo \in OfText
      /\ enter.op = "enter" /\ enter.user = e /\ enter.old = old
  <2>1. CASE old = Null
    <3>1. enter = Enter(e, Todo.target, FALSE, Null)
      BY <2>1
    <3>2. enter.op = "enter" /\ enter.user = e /\ enter.old = old
      BY <2>1, <3>1 DEF Enter
    <3> HIDE DEF enter
    <3> QED BY <3>1, <3>2, <1>2, OpsTyped
  <2>2. CASE old # Null
    <3>1. enter = Enter(e, Todo.target, Todo.child, old)
      BY <1>2, <2>2
    <3>2. enter.op = "enter" /\ enter.user = e /\ enter.old = old
      BY <3>1 DEF Enter
    <3> HIDE DEF enter
    <3> QED BY <3>1, <3>2, <1>2, <1>4, <2>2, OpsOfRealmTyped
  <2> QED BY <2>1, <2>2
<1>6. failed = 0 => (enter \in OfText => e \in clients)
  <2> HIDE DEF enter
  <2>1. failed = 0 => QuietlyFounded(Todo)
    BY <1>1, <1>3 DEF Quiet
  <2> QED BY <1>1, <1>5, <2>1 DEF QuietlyFounded
<1>7. ASSUME failed = 0, NEW x \in EndPoint, userRealm[x] # Null,
             stays \/ old = Null \/ x # e
      PROVE  x \in clients
  <2>1. ASSUME stack = <<Disconnection(x)>>
        PROVE  FALSE
    <3>1. Todo = Change(x, NoRealm, FALSE)
      BY <2>1, DisconnectionFirst
    <3>2. e = x /\ Todo.target = NoRealm
      BY <3>1 DEF Change
    <3> QED BY <3>2, <1>7, <1>4 DEF InUse
  <2> QED BY <2>1, <1>3, <1>7 DEF Quiet
<1> HIDE DEF enter, left
<1>8. CASE stays /\ Go(<<>>) /\ UNCHANGED <<userRealm, realm>>
  <2>1. UNCHANGED <<socketVars, users, realmVars>>
    BY <1>8 DEF LeaveOld, realmVars
  <2> QED BY <1>1, <1>7, <1>8, <2>1, EmptyFits, GoKeeps
<1>9. CASE ~stays /\ old = Null /\ Go(<<enter>>) /\ UNCHANGED <<userRealm, realm>>
  <2>1. UNCHANGED <<socketVars, users, realmVars>>
    BY <1>9 DEF LeaveOld, realmVars
  <2>2. Founded(enter)
    BY <1>5, <1>9 DEF Founded
  <2>3. failed = 0 => QuietlyFounded(enter)
    BY <1>5, <1>6, <1>9 DEF QuietlyFounded
  <2>4. OpsFit(Todo, <<enter>>) /\ ToSet(<<enter>>) = {enter}
    BY <1>2, <1>5, OneFits, KindsApart
  <2> QED BY <1>1, <1>7, <1>9, <2>1, <2>2, <2>3, <2>4, GoKeeps
<1>10. CASE /\ ~stays /\ old # Null
            /\ realm' = [realm EXCEPT ![old].users = left]
            /\ Go(<<loop, enter>>)
            /\ userRealm' = [userRealm EXCEPT ![e] = Null]
  <2>0. /\ old \in Object /\ InUse(old)
        /\ UNCHANGED <<clients, failed, users, realmsByID>>
    BY <1>4, <1>10 DEF LeaveOld, socketVars
  <2>1. /\ left \in Seq(EndPoint) /\ IsInjective(left)
        /\ ToSet(left) = ToSet(realm[old].users) \ {e}
    <3>1. realm[old].users \in Seq(EndPoint) /\ IsInjective(realm[old].users)
      BY <1>3, <2>0 DEF Base, Types, Membership, RealmType
    <3> QED BY <3>1, RemoveFirstOfDistinct DEF left, Without
  <2>2. loop \in Op \ ((Control \cup Parting) \cup OfText)
    BY <2>0, <2>1, LoopTyped
  <2>3. OpsFit(Todo, <<loop, enter>>) /\ ToSet(<<loop, enter>>) = {loop, enter}
    <3> HIDE DEF loop
    <3> QED BY <1>2, <1>5, <2>2, LoopFits
  <2>4. /\ StackShape(stack')
        /\ Pending(stack') = {loop, enter} \cup Rest(stack)
        /\ Len(stack') <= Len(stack)
    BY <1>3, <1>10, <2>3, InsteadShape DEF Go
  <2>5. \A r \in Object : /\ realm'[r].id = realm[r].id
                          /\ realm'[r].parent = realm[r].parent
                          /\ realm'[r].children = realm[r].children
                          /\ realm'[r].users = IF r = old THEN left ELSE realm[r].users
    BY <1>3, <1>10 DEF Base, Types, RealmType
  <2>6. /\ \A x \in EndPoint : userRealm'[x] = IF x = e THEN Null ELSE userRealm[x]
    BY <1>3, <1>10 DEF Base, Types
  <2>7. Base'
    <3>1. Types'
      <4>1. realm' \in [Object -> RealmType]
        BY <1>3, <1>10, <2>0, <2>1 DEF Base, Types, RealmType
      <4>2. userRealm' \in [EndPoint -> Object \cup {Null}]
        BY <1>3, <1>10 DEF Base, Types
      <4> QED BY <1>3, <2>0, <4>1, <4>2 DEF Base, Types
    <3>2. Referred'
      <4>1. \A r \in Object : realm'[r].id = realm[r].id
        BY <2>5
      <4>2. \A x \in EndPoint : userRealm'[x] # Null => realm'[userRealm'[x]].id # NoRealm
        BY <1>3, <2>6, <4>1 DEF Base, Types, Referred, InUse
      <4>3. \A n \in RealmNumber : realmsByID'[n] # Null => realm'[realmsByID'[n]].id # NoRealm
        BY <1>3, <2>0, <4>1 DEF Base, Types, Referred, InUse
      <4>4. \A r \in Object : realm[r].parent \in Object \cup {Null}
        BY <1>3 DEF Base, Types, RealmType
      <4>5. ASSUME NEW r \in Object
            PROVE  /\ realm'[r].parent # Null =>
                        realm'[r].id # NoRealm /\ realm'[realm'[r].parent].id # NoRealm
                   /\ realm'[r].children # {} => realm'[r].id # NoRealm
                   /\ realm'[r].parent # r
        BY <1>3, <2>5, <4>4 DEF Base, Referred, InUse
      <4> QED BY <4>2, <4>3, <4>5 DEF Referred, InUse
    <3>3. Membership'
      <4>1. \A r \in Object : IsInjective(realm'[r].users)
        BY <1>3, <2>1, <2>5 DEF Base, Membership
      <4>2. ASSUME NEW x \in EndPoint, NEW r \in Object
            PROVE  userRealm'[x] = r <=> x \in ToSet(realm'[r].users)
        <5>1. userRealm[x] = r <=> x \in ToSet(realm[r].users)
          BY <1>3 DEF Base, Membership
        <5> QED BY <5>1, <1>3, <2>1, <2>5, <2>6
      <4> QED BY <4>1, <4>2 DEF Membership
    <3>4. RealmsAgree'
      BY <1>3, <2>0, <2>5 DEF Base, Types, RealmsAgree
    <3> QED BY <3>1, <3>2, <3>3, <3>4 DEF Base
  <2>8. Rest(stack) \subseteq Pending(stack) /\ Pending(stack) \subseteq Op
    BY <1>3, RestOfStack
  <2>9. ASSUME NEW o \in Pending(stack')
        PROVE  Founded(o)'
    <3>1. CASE o = loop
      BY <2>0, <2>5, <3>1 DEF Founded, InUse, Loop
    <3>2. CASE o = enter
      BY <1>2, <1>5, <2>0, <2>5, <2>6, <3>2 DEF Founded, InUse
    <3>3. CASE o \in Rest(stack)
      <4>1. Founded(o) /\ o \in Op
        BY <1>3, <2>8, <3>3 DEF PendingOK
      <4>2. o.op = "enter" => userRealm'[o.user] = Null
        BY <4>1, <2>6 DEF Op, Founded
      <4>3. "old" \in DOMAIN o => o.old = Null \/ InUse(o.old)'
        <5>1. "old" \in DOMAIN o => o.old \in Object \cup {Null}
          BY <4>1 DEF Op
        <5> QED BY <4>1, <5>1, <2>5 DEF Founded, InUse
      <4> QED BY <4>1, <4>2, <4>3, <2>0 DEF Founded
    <3> QED BY <2>4, <3>1, <3>2, <3>3
  <2>10. ASSUME failed' = 0
         PROVE  Quiet'
    <3>0. Quiet /\ failed = 0
      BY <1>3, <2>0, <2>10
    <3>1. \A o \in Rest(stack) : o.op \in {"send", "forget"}
      BY <1>1, <1>2, <3>0, QuietRest
    <3>2. Len(stack') <= 1
      BY <1>3, <2>4, <3>0 DEF Quiet, StackShape
    <3>3. \A r : Listed(r)' <=> Listed(r)
      BY <2>0 DEF Listed
    <3>4. ASSUME NEW o \in Pending(stack')
          PROVE  QuietlyFounded(o)'
      <4>1. CASE o = loop
        BY <2>0, <2>2, <2>5, <4>1 DEF QuietlyFounded, Loop
      <4>2. CASE o = enter
        <5>1. Listed(old)
          BY <1>2, <1>10, <3>0 DEF Quiet
        <5> QED BY <1>5, <1>6, <2>0, <3>0, <3>3, <4>2, <5>1 DEF QuietlyFounded
      <4>3. CASE o \in Rest(stack)
        <5>1. QuietlyFounded(o)
          BY <2>8, <3>0, <4>3 DEF Quiet
        <5> QED BY <2>0, <3>1, <4>3, <5>1 DEF QuietlyFounded
      <4> QED BY <2>4, <4>1, <4>2, <4>3
    <3>5. ASSUME NEW x \in users \ clients
          PROVE  Forget(x) \in Pending(stack')
      <4>1. Forget(x) # Todo
        BY <1>1 DEF Forget
      <4> QED BY <4>1, <1>3, <2>4, <3>0, RestOfStack DEF Quiet
    <3>6. ASSUME NEW x \in EndPoint, userRealm'[x] # Null
          PROVE  Listed(userRealm'[x]) /\ x \in clients
      <4>1. x # e /\ userRealm'[x] = userRealm[x]
        BY <2>6, <3>6
      <4> QED BY <4>1, <1>7, <3>0, <3>6 DEF Quiet
    <3>7. ASSUME NEW r \in Object, Listed(r), realm[r].parent # Null
          PROVE  /\ Listed(realm[r].parent)
                 /\ r \in realm[realm[r].parent].children
      <4>1. Destroy(r).op = "destroy"
        BY DEF Destroy
      <4>2. Destroy(r) \notin Pending(stack)
        BY <4>1, <1>1, <1>3, <3>1, RestOfStack
      <4> QED BY <4>2, <3>0, <3>7 DEF Quiet
    <3>8. \A r \in Object : realm[r].parent \in Object \cup {Null}
      BY <1>3 DEF Base, Types, RealmType
    <3> QED BY <2>0, <2>5, <3>2, <3>3, <3>4, <3>5, <3>6, <3>7, <3>8 DEF Quiet
  <2> QED BY <2>4, <2>7, <2>9, <2>10 DEF IInv, PendingOK
<1> QED BY <1>8, <1>9, <1>10 DEF LeaveOld, enter, left

-----------------------------------------------------------------------------
(* What is left of the objects when the garbage is gone agrees with the    *)
(* users, the list of realms byID and the handlers s as it did before.     *)
Intact(kept, byID, s) ==
    /\ kept \in [Object -> RealmType]
    /\ \A r \in Object : kept[r] = realm[r] \/ kept[r] = Unused
    /\ \A r \in Object : IsInjective(kept[r].users)
    /\ \A e \in EndPoint, r \in Object :
          userRealm[e] = r <=> e \in ToSet(kept[r].users)
    /\ \A e \in EndPoint : userRealm[e] # Null =>
          /\ kept[userRealm[e]] = realm[userRealm[e]]
          /\ kept[userRealm[e]].id # NoRealm
    /\ \A n \in RealmNumber : byID[n] # Null =>
          /\ kept[byID[n]] = realm[byID[n]]
          /\ kept[byID[n]].id = n
    /\ \A i \in DOMAIN s : \A o \in ToSet(s[i]) :
          "old" \in DOMAIN o /\ o.old \in Object => kept[o.old] = realm[o.old]
    /\ \A r, c \in Object : c \in kept[r].children =>
          kept[c].parent = r /\ kept[c].id # NoRealm
    /\ \A r \in Object :
          /\ kept[r].parent # Null =>
                /\ kept[r] = realm[r] /\ kept[r].id # NoRealm
                /\ kept[r].parent \in Object
                /\ kept[kept[r].parent] = realm[kept[r].parent]
                /\ kept[kept[r].parent].id # NoRealm
          /\ kept[r].children # {} => kept[r].id # NoRealm
          /\ kept[r].parent # r

LEMMA Collected ==
    ASSUME Base, NEW byID \in [RealmNumber -> Object \cup {Null}],
           \A n \in RealmNumber : byID[n] # Null => byID[n] = realmsByID[n],
           NEW s, NEW kept, kept = Kept(byID, realm, s)
    PROVE  Intact(kept, byID, s)
<1> DEFINE live == Live(byID, realm, s)
<1>1. /\ userRealm \in [EndPoint -> Object \cup {Null}]
      /\ realm \in [Object -> RealmType] /\ Null \notin Object
      /\ realmsByID \in [RealmNumber -> Object \cup {Null}]
      /\ RealmNumber \subseteq Nat
  BY ReentryAssumption DEF Base, Types
<1>2. /\ kept \in [Object -> RealmType]
      /\ \A r \in Object : kept[r] = IF r \in live THEN realm[r] ELSE Unused
      /\ \A e \in EndPoint : userRealm[e] # Null => userRealm[e] \in live
      /\ \A n \in RealmNumber : byID[n] # Null => byID[n] \in live
      /\ \A i \in DOMAIN s : \A o \in ToSet(s[i]) :
            "old" \in DOMAIN o /\ o.old \in Object => o.old \in live
      /\ \A r \in live :
            /\ realm[r].parent # Null => realm[r].parent \in live
            /\ realm[r].children \subseteq live
  BY <1>1, KeptObjects
<1>3. live \subseteq Object
  BY <1>1, LiveObjects
<1> HIDE DEF live
<1>4. /\ Unused.users = <<>> /\ Unused.children = {} /\ Unused.parent = Null
      /\ Unused.id = NoRealm
  BY DEF Unused
<1>5. Referred /\ Membership /\ RealmsAgree
  BY DEF Base
<1>6. ASSUME NEW r \in Object
      PROVE  IsInjective(kept[r].users)
  BY <1>2, <1>4, <1>5, EmptyQueue DEF Membership
<1>7. ASSUME NEW e \in EndPoint, NEW r \in Object
      PROVE  userRealm[e] = r <=> e \in ToSet(kept[r].users)
  <2>1. userRealm[e] = r <=> e \in ToSet(realm[r].users)
    BY <1>5 DEF Membership
  <2>2. CASE r \in live
    BY <2>1, <2>2, <1>2
  <2>3. CASE r \notin live
    BY <2>1, <2>3, <1>1, <1>2, <1>4, EmptyQueue
  <2> QED BY <2>2, <2>3
<1>8. ASSUME NEW e \in EndPoint, userRealm[e] # Null
      PROVE  /\ kept[userRealm[e]] = realm[userRealm[e]]
             /\ kept[userRealm[e]].id # NoRealm
  BY <1>1, <1>2, <1>5, <1>8 DEF Referred, InUse
<1>9. ASSUME NEW n \in RealmNumber, byID[n] # Null
      PROVE  kept[byID[n]] = realm[byID[n]] /\ kept[byID[n]].id = n
  BY <1>1, <1>2, <1>3, <1>5, <1>9 DEF RealmsAgree
<1>10. ASSUME NEW r \in Object, NEW c \in Object, c \in kept[r].children
       PROVE  kept[c].parent = r /\ kept[c].id # NoRealm
  <2>1. r \in live
    BY <1>2, <1>4, <1>10
  <2>2. c \in live /\ kept[c] = realm[c] /\ c \in realm[r].children
    BY <2>1, <1>2, <1>10
  <2>3. realm[c].parent = r
    BY <2>2, <1>5 DEF RealmsAgree
  <2> QED BY <2>2, <2>3, <1>1, <1>5 DEF Referred, InUse
<1>11. ASSUME NEW r \in Object
       PROVE  /\ kept[r].parent # Null =>
                       /\ kept[r] = realm[r] /\ kept[r].id # NoRealm
                       /\ kept[r].parent \in Object
                       /\ kept[kept[r].parent] = realm[kept[r].parent]
                       /\ kept[kept[r].parent].id # NoRealm
              /\ kept[r].children # {} => kept[r].id # NoRealm
              /\ kept[r].parent # r
  <2>1. CASE r \in live
    <3>1. kept[r] = realm[r]
      BY <1>2, <2>1
    <3>2. realm[r].parent # Null => kept[realm[r].parent] = realm[realm[r].parent]
      BY <1>2, <1>3, <2>1
    <3>3. realm[r].parent \in Object \cup {Null}
      BY <1>1 DEF RealmType
    <3> QED BY <3>1, <3>2, <3>3, <1>5 DEF Referred, InUse
  <2>2. CASE r \notin live
    BY <2>2, <1>1, <1>2, <1>4
  <2> QED BY <2>1, <2>2
<1>12. \A r \in Object : kept[r] = realm[r] \/ kept[r] = Unused
  BY <1>2
<1>13. \A i \in DOMAIN s : \A o \in ToSet(s[i]) :
          "old" \in DOMAIN o /\ o.old \in Object => kept[o.old] = realm[o.old]
  BY <1>2
<1> QED BY <1>2, <1>6, <1>7, <1>8, <1>9, <1>10, <1>11, <1>12, <1>13 DEF Intact

LEMMA CleanupTurnKeeps == ASSUME IInv, CleanupTurn PROVE IInv'
<1> DEFINE r     == Todo.old
           up    == realm[r].parent
           empty == r # Null /\ Deserted(r)
           left  == realm[up].children \ {r}
           told  == realm[up].users
           loop  == Loop(up, told, Null)
<1>1. ~Idle /\ Todo.op = "cleanup" /\ Todo \in Pending(stack) /\ Todo \in Op
  <2>1. ~Idle /\ Todo.op = "cleanup"
    BY DEF CleanupTurn, Doing
  <2> QED BY <2>1, RestOfStack DEF IInv, Idle
<1>2. r \in Object \cup {Null} /\ Todo \in Control /\ "old" \in DOMAIN Todo
  BY <1>1 DEF Op, Control
<1>3. /\ stack # <<>> /\ StackShape(stack) /\ Base /\ PendingOK
      /\ failed = 0 => Quiet
      /\ Null \notin Object
  BY <1>1, ReentryAssumption DEF IInv, Idle
<1>4. r # Null => InUse(r)
  BY <1>1, <1>2, <1>3 DEF PendingOK, Founded
<1>5. failed = 0 => (r # Null => Listed(r))
  BY <1>1, <1>3 DEF Quiet, QuietlyFounded
<1>6. failed = 0 => \A e \in EndPoint : userRealm[e] # Null => e \in clients
  BY <1>1, QuietMembers
<1>7. r # Null => /\ Destroy(r) \in Control \ OfText
                  /\ Destroy(r).op = "destroy" /\ Destroy(r).old = r
  <2>1. Destroy(r).op = "destroy" /\ Destroy(r).old = r
    BY DEF Destroy
  <2>2. r # Null => r \in Object
    BY <1>2
  <2>3. ASSUME NEW x \in Object PROVE Destroy(x) \in Control \ OfText
    BY DEF Destroy, Control, OfText, Op
  <2> QED BY <2>1, <2>2, <2>3
<1>8. UNCHANGED <<clients, failed, users, userRealm, realmsByID>>
  BY DEF CleanupTurn, socketVars
<1>9. CASE Go(<<>>) /\ UNCHANGED realm
  <2>1. UNCHANGED <<socketVars, users, realmVars>>
    BY <1>8, <1>9 DEF socketVars, realmVars
  <2> QED BY <1>1, <1>6, <1>9, <2>1, EmptyFits, GoKeeps
<1>10. CASE empty /\ Go(<<Destroy(r)>>) /\ UNCHANGED realm
  <2>1. UNCHANGED <<socketVars, users, realmVars>>
    BY <1>8, <1>10 DEF socketVars, realmVars
  <2>2. Founded(Destroy(r))
    BY <1>4, <1>7, <1>10 DEF Founded
  <2>3. failed = 0 => QuietlyFounded(Destroy(r))
    BY <1>5, <1>7, <1>10 DEF QuietlyFounded
  <2>4. OpsFit(Todo, <<Destroy(r)>>) /\ ToSet(<<Destroy(r)>>) = {Destroy(r)}
    BY <1>2, <1>7, <1>10, OneFits, KindsApart
  <2> QED BY <1>1, <1>6, <1>10, <2>1, <2>2, <2>3, <2>4, GoKeeps
<1>11. CASE /\ empty /\ up # Null
            /\ realm' = [realm EXCEPT ![up].children = left]
            /\ Go(<<loop, Destroy(r)>>)
  <2>0. r \in Object /\ up \in Object /\ InUse(up) /\ up # r
    BY <1>2, <1>3, <1>11 DEF Base, Types, Referred, RealmType
  <2>1. loop \in Op \ ((Control \cup Parting) \cup OfText)
    <3>1. told \in Seq(EndPoint)
      BY <1>3, <2>0 DEF Base, Types, RealmType
    <3> HIDE DEF told
    <3> QED BY <2>0, <3>1, LoopTyped
  <2>2. OpsFit(Todo, <<loop, Destroy(r)>>)
        /\ ToSet(<<loop, Destroy(r)>>) = {loop, Destroy(r)}
    <3> HIDE DEF loop
    <3> QED BY <1>2, <1>7, <1>11, <2>1, LoopFits
  <2>3. /\ StackShape(stack')
        /\ Pending(stack') = {loop, Destroy(r)} \cup Rest(stack)
        /\ Len(stack') <= Len(stack)
    BY <1>3, <1>11, <2>2, InsteadShape DEF Go
  <2>4. /\ realm' \in [Object -> RealmType]
        /\ \A x \in Object :
             /\ realm'[x].id = realm[x].id
             /\ realm'[x].parent = realm[x].parent
             /\ realm'[x].users = realm[x].users
             /\ realm'[x].children = IF x = up THEN left ELSE realm[x].children
    <3>1. left \in SUBSET Object
      BY <1>3, <2>0 DEF Base, Types, RealmType
    <3>2. realm \in [Object -> RealmType]
      BY <1>3 DEF Base, Types
    <3> HIDE DEF left, up
    <3>3. realm' = [realm EXCEPT ![up].children = left] /\ up \in Object
      BY <1>11, <2>0
    <3> QED BY <3>1, <3>2, <3>3 DEF RealmType
  <2>5. Base'
    <3>1. Types'
      BY <1>3, <1>8, <2>4 DEF Base, Types
    <3>2. Referred'
      BY <1>3, <1>8, <2>4 DEF Base, Types, RealmType, Referred, InUse
    <3>3. Membership'
      BY <1>3, <1>8, <2>4 DEF Base, Membership
    <3>4. RealmsAgree'
      <4>1. left \subseteq realm[up].children
        OBVIOUS
      <4> HIDE DEF left
      <4> QED BY <1>3, <1>8, <2>4, <4>1 DEF Base, Types, RealmsAgree
    <3> QED BY <3>1, <3>2, <3>3, <3>4 DEF Base
  <2>6. Rest(stack) \subseteq Pending(stack) /\ Pending(stack) \subseteq Op
    BY <1>3, RestOfStack
  <2>7. ASSUME NEW o \in Pending(stack')
        PROVE  Founded(o)'
    <3>1. CASE o = loop
      BY <2>0, <2>4, <3>1 DEF Founded, InUse, Loop
    <3>2. CASE o = Destroy(r)
      BY <1>3, <1>4, <1>7, <2>0, <2>4, <3>2 DEF Founded, InUse
    <3>3. CASE o \in Rest(stack)
      <4>1. Founded(o) /\ o \in Op
        BY <1>3, <2>6, <3>3 DEF PendingOK
      <4>2. "old" \in DOMAIN o => o.old = Null \/ InUse(o.old)'
        <5>1. "old" \in DOMAIN o => o.old \in Object \cup {Null}
          BY <4>1 DEF Op
        <5> QED BY <4>1, <5>1, <2>4 DEF Founded, InUse
      <4> QED BY <4>1, <4>2, <1>8 DEF Founded
    <3> QED BY <2>3, <3>1, <3>2, <3>3
  <2>8. ASSUME failed' = 0
        PROVE  Quiet'
    <3>0. Quiet /\ failed = 0
      BY <1>3, <1>8, <2>8
    <3>1. \A o \in Rest(stack) : o.op \in {"send", "forget"}
      BY <1>1, <1>2, <3>0, QuietRest
    <3>2. Len(stack') <= 1
      BY <1>3, <2>3, <3>0 DEF Quiet, StackShape
    <3>3. \A x : Listed(x)' <=> Listed(x)
      BY <1>8 DEF Listed
    <3>4. ASSUME NEW o \in Pending(stack')
          PROVE  QuietlyFounded(o)'
      <4>1. CASE o = loop
        BY <2>0, <2>1, <2>4, <4>1 DEF QuietlyFounded, Loop
      <4>2. CASE o = Destroy(r)
        <5>1. realm'[r].users = <<>> /\ realm'[r].children = {}
          BY <1>11, <2>0, <2>4 DEF Deserted
        <5>2. o.op = "destroy" /\ o.old = r /\ o \notin OfText
          BY <1>3, <1>7, <2>0, <4>2
        <5>3. Deserted(o.old)'
          BY <5>1, <5>2 DEF Deserted
        <5>4. Listed(o.old)'
          BY <1>3, <1>5, <2>0, <3>0, <3>3, <5>2
        <5> QED BY <5>2, <5>3, <5>4 DEF QuietlyFounded
      <4>3. CASE o \in Rest(stack)
        <5>1. QuietlyFounded(o)
          BY <2>6, <3>0, <4>3 DEF Quiet
        <5> QED BY <1>8, <3>1, <4>3, <5>1 DEF QuietlyFounded
      <4> QED BY <2>3, <4>1, <4>2, <4>3
    <3>5. ASSUME NEW x \in users \ clients
          PROVE  Forget(x) \in Pending(stack')
      <4>1. Forget(x) # Todo
        BY <1>1 DEF Forget
      <4> QED BY <4>1, <1>3, <2>3, <3>0, RestOfStack DEF Quiet
    <3>6. \A x \in EndPoint : userRealm[x] # Null => Listed(userRealm[x]) /\ x \in clients
      BY <1>6, <3>0 DEF Quiet
    <3>7. ASSUME NEW x \in Object, Listed(x), realm[x].parent # Null
          PROVE  /\ Listed(realm[x].parent)
                 /\ \/ x \in realm'[realm[x].parent].children
                    \/ Destroy(x) \in Pending(stack')
      <4>1. Destroy(x).op = "destroy"
        BY DEF Destroy
      <4>2. Destroy(x) \notin Pending(stack)
        BY <4>1, <1>1, <1>3, <3>1, RestOfStack
      <4>3. Listed(realm[x].parent) /\ x \in realm[realm[x].parent].children
        BY <4>2, <3>0, <3>7 DEF Quiet
      <4>4. realm[x].parent \in Object
        BY <1>3, <3>7 DEF Base, Types, RealmType
      <4>5. CASE x = r
        BY <4>3, <4>5, <2>3
      <4>6. CASE x # r
        BY <4>3, <4>4, <4>6, <2>4
      <4> QED BY <4>3, <4>5, <4>6
    <3> QED BY <1>8, <2>4, <3>2, <3>3, <3>4, <3>5, <3>6, <3>7 DEF Quiet
  <2> QED BY <2>3, <2>5, <2>7, <2>8 DEF IInv, PendingOK
<1> QED BY <1>9, <1>10, <1>11 DEF CleanupTurn

LEMMA DestroyTurnKeeps == ASSUME IInv, DestroyTurn PROVE IInv'
<1> DEFINE todo == Todo
<1>1. ~Idle /\ todo.op = "destroy" /\ todo \in Pending(stack) /\ todo \in Op
  <2>1. ~Idle /\ todo.op = "destroy"
    BY DEF DestroyTurn, Doing
  <2> QED BY <2>1, RestOfStack DEF IInv, Idle
<1>2. PICK r \in Object : r = todo.old
  BY <1>1 DEF Op
<1>3. /\ stack # <<>> /\ StackShape(stack) /\ Base /\ PendingOK
      /\ failed = 0 => Quiet
      /\ Null \notin Object
      /\ todo \in Control /\ "old" \in DOMAIN todo
  BY <1>1, ReentryAssumption DEF IInv, Idle, Op, Control
<1>4. /\ userRealm \in [EndPoint -> Object \cup {Null}]
      /\ realmsByID \in [RealmNumber -> Object \cup {Null}]
      /\ realm \in [Object -> RealmType]
  BY <1>3 DEF Base, Types
<1>5. PICK up \in Object \cup {Null} : up = realm[r].parent
  BY <1>4 DEF RealmType
<1>6. PICK byID \in [RealmNumber -> Object \cup {Null}] :
         byID = [realmsByID EXCEPT ![realm[r].id] = Null]
  BY <1>4
<1>7. PICK ops : ops = <<Cleanup(up)>>
  OBVIOUS
<1>8. /\ realmsByID' = byID
      /\ stack' = Instead(ops)
      /\ realm' = Kept(byID, realm, Instead(ops))
      /\ UNCHANGED <<clients, failed, users, userRealm>>
  BY <1>2, <1>5, <1>6, <1>7 DEF DestroyTurn, socketVars
<1>9. /\ Cleanup(up) \in Control \ OfText
      /\ Cleanup(up).op = "cleanup" /\ Cleanup(up).old = up
  <2>1. Cleanup(up).op = "cleanup" /\ Cleanup(up).old = up
    BY DEF Cleanup
  <2> QED BY <2>1, <1>5, CleanupTyped
<1>10. OpsFit(todo, ops) /\ ToSet(ops) = {Cleanup(up)}
  BY <1>3, <1>7, <1>9, OneFits, KindsApart
<1>11. /\ StackShape(stack')
       /\ Pending(stack') = {Cleanup(up)} \cup Rest(stack)
       /\ Len(stack') <= Len(stack)
  BY <1>3, <1>8, <1>10, InsteadShape
<1>12. /\ Pending(stack) = {todo} \cup Rest(stack) /\ Pending(stack) \subseteq Op
  BY <1>3, RestOfStack
<1>13. \A n \in RealmNumber :
          byID[n] = IF n = realm[r].id THEN Null ELSE realmsByID[n]
  BY <1>4, <1>6
<1>14. \A n \in RealmNumber : byID[n] # Null => byID[n] = realmsByID[n]
  BY <1>13
<1>15. /\ realm' \in [Object -> RealmType]
       /\ \A x \in Object : IsInjective(realm'[x].users)
       /\ \A e \in EndPoint, x \in Object :
             userRealm[e] = x <=> e \in ToSet(realm'[x].users)
       /\ \A e \in EndPoint : userRealm[e] # Null =>
             /\ realm'[userRealm[e]] = realm[userRealm[e]]
             /\ realm'[userRealm[e]].id # NoRealm
       /\ \A n \in RealmNumber : byID[n] # Null =>
             /\ realm'[byID[n]] = realm[byID[n]]
             /\ realm'[byID[n]].id = n
       /\ \A i \in DOMAIN stack' : \A o \in ToSet(stack'[i]) :
             "old" \in DOMAIN o /\ o.old \in Object => realm'[o.old] = realm[o.old]
       /\ \A x, c \in Object : c \in realm'[x].children =>
             realm'[c].parent = x /\ realm'[c].id # NoRealm
       /\ \A x \in Object :
             /\ realm'[x].parent # Null =>
                   /\ realm'[x] = realm[x] /\ realm'[x].id # NoRealm
                   /\ realm'[x].parent \in Object
                   /\ realm'[realm'[x].parent] = realm[realm'[x].parent]
                   /\ realm'[realm'[x].parent].id # NoRealm
             /\ realm'[x].children # {} => realm'[x].id # NoRealm
             /\ realm'[x].parent # x
  <2>1. PICK kept, s : kept = Kept(byID, realm, s) /\ kept = realm' /\ s = stack'
    BY <1>8
  <2>2. Intact(kept, byID, s)
    BY <1>3, <1>14, <2>1, Collected
  <2> QED BY <2>1, <2>2 DEF Intact
<1>16. RealmNumber \subseteq Nat /\ NoRealm \notin RealmNumber
  BY ReentryAssumption DEF NoRealm
<1>17. Base'
  <2>1. Types'
    BY <1>3, <1>8, <1>15 DEF Base, Types
  <2>2. Referred'
    BY <1>8, <1>15, <1>16 DEF Referred, InUse
  <2>3. Membership' /\ RealmsAgree'
    BY <1>8, <1>15 DEF Membership, RealmsAgree
  <2> QED BY <2>1, <2>2, <2>3 DEF Base
<1>18. ASSUME NEW o \in Pending(stack')
       PROVE  Founded(o)'
  <2>1. "old" \in DOMAIN o => o.old = Null \/ InUse(o.old)
    <3>1. CASE o = Cleanup(up)
      BY <1>3, <1>5, <1>9, <3>1 DEF Base, Referred
    <3>2. CASE o \in Rest(stack)
      BY <1>3, <1>12, <3>2 DEF PendingOK, Founded
    <3> QED BY <1>11, <3>1, <3>2
  <2>2. o \in Op
    BY <1>9, <1>11, <1>12, KindsApart
  <2>3. "old" \in DOMAIN o => o.old \in Object \cup {Null}
    BY <2>2 DEF Op
  <2>4. "old" \in DOMAIN o /\ o.old \in Object => realm'[o.old] = realm[o.old]
    <3>1. PICK i \in DOMAIN stack' : o \in ToSet(stack'[i])
      BY DEF Pending
    <3> QED BY <3>1, <1>15
  <2>5. "old" \in DOMAIN o => o.old = Null \/ InUse(o.old)'
    BY <2>1, <2>3, <2>4 DEF InUse
  <2>6. /\ o.op = "forget" => o.user \in users \ clients
        /\ o.op = "enter" => userRealm[o.user] = Null
    <3>1. CASE o = Cleanup(up)
      BY <1>9, <3>1
    <3>2. CASE o \in Rest(stack)
      BY <1>3, <1>12, <3>2 DEF PendingOK, Founded
    <3> QED BY <1>11, <3>1, <3>2
  <2> QED BY <1>8, <2>5, <2>6 DEF Founded
<1>19. ASSUME failed' = 0
       PROVE  Quiet'
  <2>0. Quiet /\ failed = 0
    BY <1>3, <1>8, <1>19
  <2>1. \A o \in Rest(stack) : o.op \in {"send", "forget"}
    BY <1>1, <1>3, <2>0, QuietRest
  <2>2. Len(stack') <= 1
    BY <1>3, <1>11, <2>0 DEF Quiet, StackShape
  <2>3. QuietlyFounded(todo)
    BY <1>1, <2>0 DEF Quiet
  <2>4. PICK k \in RealmNumber : realmsByID[k] = r
    <3>1. Listed(todo.old)
      BY <1>1, <1>2, <1>3, <2>3 DEF QuietlyFounded
    <3> QED BY <1>2, <3>1 DEF Listed
  <2>5. realm[r].id = k
    BY <1>3, <2>4 DEF Base, RealmsAgree
  <2>6. realm[r].users = <<>> /\ realm[r].children = {}
    BY <1>1, <1>2, <2>3 DEF QuietlyFounded, Deserted
  <2>7. ASSUME NEW x \in Object
        PROVE  Listed(x)' <=> Listed(x) /\ x # r
    <3>1. ASSUME Listed(x), x # r PROVE Listed(x)'
      <4>1. PICK m \in RealmNumber : realmsByID[m] = x
        BY <3>1 DEF Listed
      <4>2. m # k
        BY <2>4, <3>1, <4>1
      <4> QED BY <1>8, <1>13, <2>5, <4>1, <4>2 DEF Listed
    <3>2. ASSUME Listed(x)' PROVE Listed(x) /\ x # r
      <4>1. PICK m \in RealmNumber : byID[m] = x
        BY <1>8, <3>2 DEF Listed
      <4>2. m # k /\ realmsByID[m] = x
        BY <1>3, <1>13, <2>5, <4>1
      <4>3. x = r => realm[x].id = m
        BY <1>3, <4>2 DEF Base, RealmsAgree
      <4> QED BY <2>5, <4>2, <4>3 DEF Listed
    <3> QED BY <3>1, <3>2
  <2>8. ASSUME NEW x \in Object, Listed(x)'
        PROVE  realm'[x] = realm[x]
    <3>1. PICK m \in RealmNumber : byID[m] = x
      BY <1>8, <2>8 DEF Listed
    <3> QED BY <1>3, <1>15, <3>1
  <2>9. ASSUME NEW x \in Object, Listed(x), x # r,
               NEW p, p = realm[x].parent, p # Null
        PROVE  p \in Object /\ Listed(p)' /\ x \in realm[p].children
    <3>1. p \in Object
      BY <1>4, <2>9 DEF RealmType
    <3>2. Destroy(x) \notin Pending(stack)
      <4>1. Destroy(x).op = "destroy" /\ Destroy(x).old = x
        BY DEF Destroy
      <4> QED BY <4>1, <1>2, <1>12, <2>1, <2>9
    <3>3. Listed(p) /\ x \in realm[p].children
      BY <2>0, <2>9, <3>2 DEF Quiet
    <3>4. p # r
      BY <2>6, <3>3
    <3> QED BY <2>7, <3>1, <3>3, <3>4
  <2>10. ASSUME NEW o \in Pending(stack')
         PROVE  QuietlyFounded(o)'
    <3>1. CASE o = Cleanup(up)
      <4>1. ASSUME up # Null PROVE Listed(up)'
        <5>1. up \in Object /\ Listed(r) /\ up # r
          BY <1>3, <1>5, <2>4, <4>1 DEF Listed, Base, Referred
        <5>2. Listed(up)
          BY <1>5, <2>0, <4>1, <5>1 DEF Quiet
        <5> QED BY <2>7, <5>1, <5>2
      <4> QED BY <1>9, <3>1, <4>1 DEF QuietlyFounded
    <3>2. CASE o \in Rest(stack)
      <4>1. QuietlyFounded(o)
        BY <1>12, <2>0, <3>2 DEF Quiet
      <4> QED BY <1>8, <2>1, <3>2, <4>1 DEF QuietlyFounded
    <3> QED BY <1>11, <3>1, <3>2
  <2>11. ASSUME NEW x \in users \ clients
         PROVE  Forget(x) \in Pending(stack')
    <3>1. Forget(x) # todo
      BY <1>1 DEF Forget
    <3> QED BY <3>1, <1>11, <1>12, <2>0 DEF Quiet
  <2>12. ASSUME NEW x \in EndPoint, userRealm[x] # Null
         PROVE  Listed(userRealm[x])' /\ x \in clients
    <3>1. userRealm[x] \in Object /\ x \in ToSet(realm[userRealm[x]].users)
      BY <1>3, <1>4, <2>12 DEF Base, Membership
    <3>2. userRealm[x] # r
      BY <2>6, <3>1, EmptyQueue
    <3>3. x \in clients
      BY <1>1, <2>0, <2>12, QuietMembers
    <3>4. Listed(userRealm[x])
      BY <2>0, <2>12 DEF Quiet
    <3>5. PICK y \in Object : y = userRealm[x]
      BY <3>1
    <3>6. Listed(y)'
      BY <2>7, <3>2, <3>4, <3>5
    <3> QED BY <1>8, <3>3, <3>5, <3>6 DEF Listed
  <2>13. ASSUME NEW x \in Object, Listed(x)', realm'[x].parent # Null
         PROVE  /\ \E n \in RealmNumber : byID[n] = realm'[x].parent
                /\ x \in realm'[realm'[x].parent].children
    <3>1. Listed(x) /\ x # r /\ realm'[x] = realm[x]
      BY <2>7, <2>8, <2>13
    <3>2. PICK p : p = realm[x].parent
      OBVIOUS
    <3>3. p \in Object /\ Listed(p)' /\ x \in realm[p].children
      BY <2>9, <2>13, <3>1, <3>2
    <3>4. realm'[p] = realm[p]
      BY <2>8, <3>3
    <3>5. \E n \in RealmNumber : byID[n] = p
      BY <1>8, <3>3 DEF Listed
    <3> QED BY <3>1, <3>2, <3>3, <3>4, <3>5
  <2>14. ASSUME NEW x \in Object, Listed(x)', realm'[x].parent # Null
         PROVE  \E n \in RealmNumber : realmsByID'[n] = realm'[x].parent
    BY <1>8, <2>13, <2>14
  <2> QED BY <1>8, <2>2, <2>10, <2>11, <2>12, <2>13, <2>14 DEF Quiet, Listed
<1> QED BY <1>11, <1>17, <1>18, <1>19 DEF IInv, PendingOK

(* Who is written to when e joins the realm of others. *)
LEMMA NoticesOfJoin ==
    ASSUME NEW e \in EndPoint, NEW others \in Seq(EndPoint),
           NEW sends,
           sends = Answers(e) \o [i \in DOMAIN others |-> Send(others[i])]
    PROVE  /\ sends \in Seq(Op)
           /\ \A o \in ToSet(sends) :
                 \E x \in {e} \cup ToSet(others) : o = Send(x)
<1> DEFINE told == [i \in DOMAIN others |-> Send(others[i])]
<1>1. \A x \in EndPoint : Send(x) \in Op
  BY DEF Send, Op
<1>2. /\ told \in Seq(Op) /\ Len(told) = Len(others)
      /\ \A i \in 1 .. Len(told) : told[i] = Send(others[i])
  <2>1. \A x : x \in 1 .. Len(others) => others[x] \in EndPoint
    OBVIOUS
  <2>2. told \in [1 .. Len(others) -> Op]
    BY <1>1, <2>1
  <2>3. Len(others) \in Nat
    OBVIOUS
  <2>4. \A i \in 1 .. Len(others) : told[i] = Send(others[i])
    OBVIOUS
  <2>5. \A k \in Nat : \A f \in [1 .. k -> Op] : f \in Seq(Op) /\ Len(f) = k
    OBVIOUS
  <2> HIDE DEF told
  <2>6. told \in Seq(Op) /\ Len(told) = Len(others)
    BY <2>2, <2>3, <2>5, Zenon
  <2> QED BY <2>4, <2>6, Zenon
<1>3. /\ Answers(e) \in Seq(Op) /\ Len(Answers(e)) = 2
      /\ Answers(e)[1] = Send(e) /\ Answers(e)[2] = Send(e)
  <2>1. \A o \in Op : /\ <<o, o>> \in Seq(Op) /\ Len(<<o, o>>) = 2
                      /\ <<o, o>>[1] = o /\ <<o, o>>[2] = o
    OBVIOUS
  <2> QED BY <1>1, <2>1, Zenon DEF Answers
<1> HIDE DEF told
<1>4. /\ sends \in Seq(Op)
      /\ Len(sends) = Len(Answers(e)) + Len(told)
      /\ \A i \in 1 .. Len(Answers(e)) + Len(told) :
            sends[i] = IF i <= Len(Answers(e)) THEN Answers(e)[i]
                       ELSE told[i - Len(Answers(e))]
  <2>1. sends = Answers(e) \o told
    BY Zenon DEF told
  <2>2. \A f, g \in Seq(Op) :
           /\ f \o g \in Seq(Op)
           /\ Len(f \o g) = Len(f) + Len(g)
           /\ \A i \in 1 .. Len(f) + Len(g) :
                 (f \o g)[i] = IF i <= Len(f) THEN f[i] ELSE g[i - Len(f)]
    BY ConcatProperties
  <2>3. PICK f, g, h : /\ f = Answers(e) /\ g = told /\ h = f \o g
                       /\ f \in Seq(Op) /\ g \in Seq(Op)
    BY <1>2, <1>3, Zenon
  <2>4. h = sends
    BY <2>1, <2>3, Zenon
  <2>5. /\ h \in Seq(Op)
        /\ Len(h) = Len(f) + Len(g)
        /\ \A i \in 1 .. Len(f) + Len(g) :
              h[i] = IF i <= Len(f) THEN f[i] ELSE g[i - Len(f)]
    BY <2>2, <2>3
  <2> QED BY <2>3, <2>4, <2>5
<1>5. ASSUME NEW i \in 1 .. Len(sends)
      PROVE  \E x \in {e} \cup ToSet(others) : sends[i] = Send(x)
  <2>0. Len(told) \in Nat /\ i \in 1 .. 2 + Len(told)
    BY <1>2, <1>3, <1>4
  <2>1. CASE i <= 2
    <3>1. i = 1 \/ i = 2
      BY <2>0, <2>1
    <3> QED BY <2>0, <2>1, <3>1, <1>3, <1>4
  <2>2. CASE ~(i <= 2)
    <3>1. /\ i - 2 \in 1 .. Len(told) /\ i - 2 \in DOMAIN others
          /\ sends[i] = told[i - 2]
      BY <2>0, <2>2, <1>2, <1>3, <1>4
    <3>2. others[i - 2] \in ToSet(others)
      BY <3>1 DEF ToSet
    <3> QED BY <3>1, <3>2, <1>2
  <2> QED BY <2>1, <2>2
<1>6. ASSUME NEW o \in ToSet(sends)
      PROVE  \E x \in {e} \cup ToSet(others) : o = Send(x)
  <2>1. PICK i \in DOMAIN sends : o = sends[i]
    BY Zenon DEF ToSet
  <2>2. i \in 1 .. Len(sends)
    BY <1>4, <2>1
  <2> QED BY <1>5, <2>1, <2>2, Zenon
<1> QED BY <1>4, <1>6, Zenon

(* A text has led e, of the old realm old, to its new realm r: what is     *)
(* common to a realm that was there and a new one.                         *)
LEMMA JoinedKeeps ==
    ASSUME IInv, ~Idle, Todo.op = "enter", Todo \in OfText, Base',
           UNCHANGED <<clients, failed, users>>,
           NEW sends \in Seq(Op), NEW after \in Control, NEW r \in Object,
           NEW others \in SUBSET EndPoint,
           \A o \in ToSet(sends) : \E x \in others : o = Send(x),
           after.op \in {"newchild", "cleanup"}, after.old = Todo.old,
           Go(sends \o <<after>>),
           Todo.old \in Object => realm'[Todo.old].id # NoRealm,
           \A x \in EndPoint :
              userRealm'[x] = IF x = Todo.user THEN r ELSE userRealm[x],
           \E m \in RealmNumber : realmsByID'[m] = r,
           \A m \in RealmNumber :
              realmsByID[m] # Null => realmsByID'[m] = realmsByID[m],
           failed = 0 =>
              /\ others \subseteq clients
              /\ \A x \in Object :
                    /\ realm'[x].parent # Null
                    /\ \E m \in RealmNumber : realmsByID'[m] = x
                    => /\ \E m \in RealmNumber : realmsByID'[m] = realm'[x].parent
                       /\ x \in realm'[realm'[x].parent].children
    PROVE  IInv'
<1>1. /\ stack # <<>> /\ StackShape(stack) /\ Base /\ PendingOK
      /\ failed = 0 => Quiet
      /\ Null \notin Object
  BY ReentryAssumption DEF IInv, Idle
<1>2. /\ Todo \in Pending(stack) /\ Todo \in Op /\ Todo \in Control
      /\ Pending(stack) = {Todo} \cup Rest(stack)
  <2>1. Todo \in Pending(stack) /\ Pending(stack) \subseteq Op
        /\ Pending(stack) = {Todo} \cup Rest(stack)
    BY <1>1, RestOfStack
  <2> QED BY <2>1 DEF Control
<1>3. /\ Todo.user \in EndPoint /\ Todo.old \in Object \cup {Null}
  BY <1>2 DEF Op
<1>4. /\ Len(stack) = 1
      /\ Rest(stack) \subseteq Op
      /\ \A o \in Rest(stack) : o.op \in {"send", "forget"}
  BY <1>2, QuietRest
<1>5. /\ "old" \in DOMAIN after /\ after \in Op
      /\ after \in OfText => after.op = "newchild"
  BY DEF Control, Op, OfText
<1>6. ASSUME NEW o \in ToSet(sends)
      PROVE  o.op = "send" /\ o.user \in others /\ ~("old" \in DOMAIN o)
  BY DEF Send
<1>7. /\ OpsFit(Todo, sends \o <<after>>)
      /\ ToSet(sends \o <<after>>) = ToSet(sends) \cup {after}
  BY <1>2, <1>6, SendsFit
<1>8. /\ StackShape(stack')
      /\ Pending(stack') = (ToSet(sends) \cup {after}) \cup Rest(stack)
      /\ Len(stack') <= Len(stack)
  BY <1>1, <1>7, InsteadShape DEF Go
<1>9. ASSUME NEW o \in Pending(stack')
      PROVE  Founded(o)'
  <2>1. CASE o \in ToSet(sends)
    BY <1>6, <2>1 DEF Founded
  <2>2. CASE o = after
    BY <1>3, <2>2 DEF Founded, InUse
  <2>3. CASE o \in Rest(stack)
    <3>1. Founded(o) /\ o \in Op /\ o.op \in {"send", "forget"}
      BY <1>1, <1>2, <1>4, <2>3 DEF PendingOK
    <3>2. ~("old" \in DOMAIN o)
      BY <3>1 DEF Op
    <3> QED BY <3>1, <3>2 DEF Founded
  <2> QED BY <1>8, <2>1, <2>2, <2>3
<1>10. ASSUME failed' = 0
       PROVE  Quiet'
  <2>0. Quiet /\ failed = 0
    BY <1>1, <1>10
  <2>1. QuietlyFounded(Todo)
    BY <1>2, <2>0 DEF Quiet
  <2>2. Len(stack') <= 1
    BY <1>4, <1>8
  <2>3. ASSUME NEW x, Listed(x), x # Null
        PROVE  Listed(x)'
    BY <2>3 DEF Listed
  <2>4. ASSUME NEW o \in Pending(stack')
        PROVE  QuietlyFounded(o)'
    <3>1. CASE o \in ToSet(sends)
      BY <1>6, <2>0, <3>1 DEF QuietlyFounded
    <3>2. CASE o = after
      <4>1. o.old = Null \/ Listed(o.old)'
        <5>1. PICK x : x = Todo.old
          OBVIOUS
        <5>2. x = Null \/ Listed(x)
          BY <2>1, <5>1 DEF QuietlyFounded
        <5>3. x = Null \/ Listed(x)'
          BY <2>3, <5>2
        <5> QED BY <5>1, <5>3, <3>2
      <4> QED BY <1>5, <3>2, <4>1 DEF QuietlyFounded
    <3>3. CASE o \in Rest(stack)
      <4>1. QuietlyFounded(o) /\ o.op \in {"send", "forget"}
        BY <1>2, <1>4, <2>0, <3>3 DEF Quiet
      <4> QED BY <4>1 DEF QuietlyFounded
    <3> QED BY <1>8, <3>1, <3>2, <3>3
  <2>5. ASSUME NEW x \in users \ clients
        PROVE  Forget(x) \in Pending(stack')
    <3>1. Forget(x) # Todo
      BY DEF Forget
    <3> QED BY <3>1, <1>2, <1>8, <2>0 DEF Quiet
  <2>6. ASSUME NEW x \in EndPoint, userRealm'[x] # Null
        PROVE  /\ \E m \in RealmNumber : realmsByID'[m] = userRealm'[x]
               /\ x \in clients
    <3>1. CASE x = Todo.user
      BY <1>2, <2>1, <3>1 DEF QuietlyFounded
    <3>2. CASE x # Todo.user
      <4>1. userRealm'[x] = userRealm[x]
        BY <3>2
      <4>2. Listed(userRealm[x])
        BY <2>0, <2>6, <4>1 DEF Quiet
      <4>3. x \in clients
        BY <2>0, <2>6, <4>1, QuietMembers
      <4> QED BY <2>6, <4>1, <4>2, <4>3 DEF Listed
    <3> QED BY <3>1, <3>2
  <2> QED BY <2>0, <2>2, <2>4, <2>5, <2>6 DEF Quiet, Listed
<1> QED BY <1>8, <1>9, <1>10 DEF IInv, PendingOK

(* The steps that EnterNew has in common for all three kinds of target. *)
LEMMA EnterFacts ==
    ASSUME IInv, EnterNew,
           NEW e, e = Todo.user, NEW n, n = Todo.target, NEW old, old = Todo.old,
           NEW after, after = Afterwards(Todo)
    PROVE  /\ ~Idle /\ Todo.op = "enter" /\ Todo \in Control /\ Todo \in ToSet(stack[1])
           /\ 1 \in DOMAIN stack /\ "old" \in DOMAIN Todo
           /\ e \in EndPoint /\ n \in Target /\ old \in Object \cup {Null}
           /\ Todo.child => old \in Object
           /\ Todo.child \/ n # NoRealm => Todo \in OfText
           /\ userRealm[e] = Null
           /\ old \in Object => realm[old].id # NoRealm
           /\ after \in Control /\ after.op \in {"newchild", "cleanup"}
           /\ after.old = old
           /\ after \in OfText => Todo.child
           /\ failed = 0 =>
                 /\ old \in Object => Listed(old)
                 /\ Todo \in OfText => e \in clients
           /\ UNCHANGED <<clients, failed, users>>
<1>1. /\ ~Idle /\ Todo.op = "enter" /\ UNCHANGED <<clients, failed, users>>
  BY DEF EnterNew, Doing, socketVars
<1>2. /\ stack # <<>> /\ StackShape(stack) /\ PendingOK /\ Null \notin Object
      /\ failed = 0 => Quiet
  BY <1>1, ReentryAssumption DEF IInv, Idle
<1>3. Todo \in Pending(stack) /\ Todo \in Op /\ Todo \in ToSet(stack[1])
  BY <1>2, RestOfStack
<1>4. 1 \in DOMAIN stack
  <2>1. \A s \in Seq(Seq(Op) \ {<<>>}) : s # <<>> => 1 \in DOMAIN s
    OBVIOUS
  <2> QED BY <1>2, <2>1 DEF StackShape
<1>5. Todo \in {o \in [op : {"enter"}, user : EndPoint, target : Target,
                       child : BOOLEAN, old : Object \cup {Null}] :
                  o.child => o.old # Null}
  BY <1>1, <1>3 DEF Op
<1>6. /\ Todo \in Control /\ "old" \in DOMAIN Todo
      /\ e \in EndPoint /\ n \in Target /\ old \in Object \cup {Null}
      /\ Todo.child \in BOOLEAN
      /\ Todo.child => old \in Object
      /\ Todo.child \/ n # NoRealm => Todo \in OfText
  BY <1>1, <1>3, <1>5 DEF Control, OfText
<1>7. userRealm[e] = Null /\ (old \in Object => realm[old].id # NoRealm)
  BY <1>1, <1>2, <1>3, <1>6 DEF PendingOK, Founded, InUse
<1>8. /\ after \in Control /\ after.op \in {"newchild", "cleanup"}
      /\ after.old = old
      /\ after \in OfText => Todo.child
  <2>1. CASE Todo.child
    <3>1. after = NewChild(n, old)
      BY <2>1 DEF Afterwards
    <3>2. after \in Control
      BY <1>6, <2>1, <3>1, OpsOfRealmTyped
    <3> QED BY <2>1, <3>1, <3>2 DEF NewChild
  <2>2. CASE ~Todo.child
    <3>1. after = Cleanup(old)
      BY <2>2 DEF Afterwards
    <3>2. after \in Control \ OfText
      BY <1>6, <3>1, CleanupTyped
    <3> QED BY <3>1, <3>2 DEF Cleanup
  <2> QED BY <2>1, <2>2
<1>9. ASSUME failed = 0
      PROVE  /\ old \in Object => Listed(old)
             /\ Todo \in OfText => e \in clients
  <2>1. QuietlyFounded(Todo)
    BY <1>2, <1>3, <1>9 DEF Quiet
  <2> QED BY <1>1, <1>2, <2>1 DEF QuietlyFounded
<1> QED BY <1>1, <1>3, <1>4, <1>6, <1>7, <1>8, <1>9

(* A disconnection, or "^-1", ends in no realm. *)
LEMMA EnterNoneKeeps ==
    ASSUME IInv, EnterNew, Go(<<Afterwards(Todo)>>), UNCHANGED realmVars
    PROVE  IInv'
<1>1. PICK e, n, old, after : /\ e = Todo.user /\ n = Todo.target /\ old = Todo.old
                              /\ after = Afterwards(Todo)
  OBVIOUS
<1>2. /\ ~Idle /\ Todo.op = "enter" /\ Todo \in Control
      /\ old \in Object \cup {Null}
      /\ Todo.child => Todo \in OfText
      /\ old \in Object => realm[old].id # NoRealm
      /\ after \in Control /\ after.op \in {"newchild", "cleanup"}
      /\ after.old = old
      /\ after \in OfText => Todo.child
      /\ failed = 0 => (old \in Object => Listed(old))
      /\ UNCHANGED <<clients, failed, users>>
  BY <1>1, EnterFacts
<1>3. OpsFit(Todo, <<after>>) /\ ToSet(<<after>>) = {after}
  BY <1>2, OneFits, KindsApart
<1>4. Founded(after)
  BY <1>2 DEF Founded, InUse
<1>5. failed = 0 => QuietlyFounded(after)
  <2>1. after \in OfText => after.op = "newchild"
    BY <1>2 DEF OfText
  <2> QED BY <1>2, <2>1 DEF QuietlyFounded
<1>6. UNCHANGED <<socketVars, users, realmVars>>
  BY <1>2 DEF socketVars
<1>7. failed = 0 => \A x \in EndPoint : userRealm[x] # Null => x \in clients
  BY <1>2, QuietMembers
<1> QED BY <1>1, <1>2, <1>3, <1>4, <1>5, <1>6, <1>7, GoKeeps

(* Before the handler goes on there is nothing left to destroy. *)
LEMMA ParentsListed ==
    ASSUME IInv, failed = 0, ~Idle, Todo \in Control, Todo.op # "destroy",
           NEW x \in Object, Listed(x), NEW p, p = realm[x].parent, p # Null
    PROVE  p \in Object /\ Listed(p) /\ x \in realm[p].children
<1>1. /\ stack # <<>> /\ StackShape(stack) /\ Base /\ Quiet
  BY DEF IInv, Idle
<1>2. p \in Object
  BY <1>1 DEF Base, Types, RealmType
<1>3. Destroy(x) \notin Pending(stack)
  <2>1. Destroy(x).op = "destroy"
    BY DEF Destroy
  <2>2. Pending(stack) = {Todo} \cup Rest(stack)
    BY <1>1, RestOfStack
  <2>3. \A o \in Rest(stack) : o.op \in {"send", "forget"}
    BY QuietRest
  <2> QED BY <2>1, <2>2, <2>3
<1> QED BY <1>1, <1>2, <1>3 DEF Quiet

(* The text leads to a realm on the list. *)
JoinsListed(e, r, sends, after) ==
    /\ realm' = [realm EXCEPT ![r].users = Append(@, e)]
    /\ userRealm' = [userRealm EXCEPT ![e] = r]
    /\ sends = Answers(e)
                 \o [i \in DOMAIN realm[r].users |-> Send(realm[r].users[i])]
    /\ Go(sends \o <<after>>)

LEMMA EnterListedKeeps ==
    ASSUME IInv, EnterNew, NEW e, e = Todo.user, NEW n \in RealmNumber,
           n = Todo.target, NEW r, r = realmsByID[n], r # Null,
           NEW after, after = Afterwards(Todo),
           NEW sends, JoinsListed(e, r, sends, after), UNCHANGED realmsByID
    PROVE  IInv'
<1>1. PICK old : old = Todo.old
  OBVIOUS
<1>2. /\ Null \notin Object /\ RealmNumber \subseteq Nat /\ n # NoRealm
      /\ Base /\ (failed = 0 => Quiet)
  BY ReentryAssumption DEF IInv, NoRealm
<1>3. /\ ~Idle /\ Todo.op = "enter" /\ Todo \in Control
      /\ e \in EndPoint /\ old \in Object \cup {Null}
      /\ Todo \in OfText
      /\ userRealm[e] = Null
      /\ old \in Object => realm[old].id # NoRealm
      /\ after \in Control /\ after.op \in {"newchild", "cleanup"}
      /\ after.old = old
      /\ failed = 0 => e \in clients
      /\ UNCHANGED <<clients, failed, users>>
  BY <1>1, <1>2, EnterFacts
<1>4. /\ userRealm \in [EndPoint -> Object \cup {Null}]
      /\ realmsByID \in [RealmNumber -> Object \cup {Null}]
      /\ realm \in [Object -> RealmType]
      /\ clients \subseteq users /\ users \subseteq EndPoint
      /\ failed \in {0, 1}
  BY <1>2 DEF Base, Types
<1>5. r \in Object /\ realm[r].id = n
  BY <1>2, <1>4 DEF Base, RealmsAgree
<1>6. PICK others \in Seq(EndPoint) : others = realm[r].users
  BY <1>4, <1>5 DEF RealmType
<1>7. IsInjective(others) /\ e \notin ToSet(others)
  BY <1>2, <1>3, <1>5, <1>6 DEF Base, Membership
<1>8. /\ Append(others, e) \in Seq(EndPoint)
      /\ IsInjective(Append(others, e))
      /\ ToSet(Append(others, e)) = ToSet(others) \cup {e}
  BY <1>3, <1>7, AppendOfNew
<1>9. PICK more \in Seq(EndPoint) : more = Append(others, e)
  BY <1>8
<1>10. /\ realm' \in [Object -> RealmType]
       /\ \A x \in Object :
            /\ realm'[x].id = realm[x].id
            /\ realm'[x].parent = realm[x].parent
            /\ realm'[x].children = realm[x].children
            /\ realm'[x].users = IF x = r THEN more ELSE realm[x].users
  <2>1. realm' = [realm EXCEPT ![r].users = more]
    BY <1>6, <1>9 DEF JoinsListed
  <2>2. realm \in [Object -> RealmType] /\ r \in Object /\ more \in Seq(EndPoint)
    BY <1>4, <1>5
  <2>3. realm' \in [Object -> RealmType]
    <3>1. realm[r] \in RealmType
      BY <2>2, Zenon
    <3>2. [realm[r] EXCEPT !.users = more] \in RealmType
      BY <2>2, <3>1 DEF RealmType
    <3>3. realm' = [realm EXCEPT ![r] = [realm[r] EXCEPT !.users = more]]
      BY <2>1, <2>2, Zenon
    <3> QED BY <2>2, <3>2, <3>3, Zenon
  <2>4. \A x \in Object :
           realm'[x] = IF x = r THEN [realm[r] EXCEPT !.users = more] ELSE realm[x]
    BY <2>1, <2>2
  <2>5. /\ [realm[r] EXCEPT !.users = more].id = realm[r].id
        /\ [realm[r] EXCEPT !.users = more].parent = realm[r].parent
        /\ [realm[r] EXCEPT !.users = more].children = realm[r].children
        /\ [realm[r] EXCEPT !.users = more].users = more
    BY <2>2 DEF RealmType
  <2> QED BY <2>3, <2>4, <2>5
<1>11. /\ userRealm' \in [EndPoint -> Object \cup {Null}]
       /\ \A x \in EndPoint : userRealm'[x] = IF x = e THEN r ELSE userRealm[x]
  BY <1>3, <1>4, <1>5 DEF JoinsListed
<1>12. Base'
  <2>1. Types'
    BY <1>3, <1>4, <1>10, <1>11 DEF Types
  <2>2. Referred'
    <3>1. \A x \in EndPoint : userRealm'[x] # Null => realm'[userRealm'[x]].id # NoRealm
      BY <1>2, <1>4, <1>5, <1>10, <1>11 DEF Base, Referred, InUse
    <3>2. \A m \in RealmNumber : realmsByID'[m] # Null => realm'[realmsByID'[m]].id # NoRealm
      BY <1>2, <1>4, <1>10 DEF Base, Referred, InUse
    <3>3. \A x \in Object : realm[x].parent \in Object \cup {Null}
      BY <1>4 DEF RealmType
    <3>4. ASSUME NEW x \in Object
          PROVE  /\ realm'[x].parent # Null =>
                      realm'[x].id # NoRealm /\ realm'[realm'[x].parent].id # NoRealm
                 /\ realm'[x].children # {} => realm'[x].id # NoRealm
                 /\ realm'[x].parent # x
      BY <1>2, <1>10, <3>3 DEF Base, Referred, InUse
    <3> QED BY <3>1, <3>2, <3>4 DEF Referred, InUse
  <2>3. Membership'
    <3>1. \A x \in Object : IsInjective(realm'[x].users)
      BY <1>2, <1>8, <1>9, <1>10 DEF Base, Membership
    <3>2. ASSUME NEW x \in EndPoint, NEW y \in Object
          PROVE  userRealm'[x] = y <=> x \in ToSet(realm'[y].users)
      <4>1. userRealm[x] = y <=> x \in ToSet(realm[y].users)
        BY <1>2 DEF Base, Membership
      <4>2. ToSet(more) = ToSet(others) \cup {e}
        BY <1>8, <1>9
      <4>3. /\ realm'[y].users = IF y = r THEN more ELSE realm[y].users
            /\ userRealm'[x] = IF x = e THEN r ELSE userRealm[x]
        BY <1>10, <1>11
      <4>4. userRealm[e] # y
        BY <1>2, <1>3
      <4>5. CASE y = r
        <5>1. x \in ToSet(more) <=> x \in ToSet(others) \/ x = e
          BY <4>2
        <5>2. userRealm[x] = y <=> x \in ToSet(others)
          BY <4>1, <4>5, <1>6
        <5> QED BY <4>3, <4>5, <5>1, <5>2
      <4>6. CASE y # r
        BY <4>1, <4>3, <4>4, <4>6
      <4> QED BY <4>5, <4>6
    <3> QED BY <3>1, <3>2 DEF Membership
  <2>4. RealmsAgree'
    <3>1. /\ \A x, c \in Object : c \in realm[x].children => realm[c].parent = x
          /\ \A m \in RealmNumber :
                realmsByID[m] # Null => realm[realmsByID[m]].id = m
      BY <1>2 DEF Base, RealmsAgree
    <3>2. \A x \in Object : /\ realm'[x].id = realm[x].id
                            /\ realm'[x].parent = realm[x].parent
                            /\ realm'[x].children = realm[x].children
      BY <1>10
    <3>3. \A x, c \in Object : c \in realm'[x].children => realm'[c].parent = x
      BY <3>1, <3>2
    <3>4. realmsByID' = realmsByID
      BY DEF JoinsListed
    <3>5. \A m \in RealmNumber :
             realmsByID'[m] # Null => realm'[realmsByID'[m]].id = m
      BY <1>4, <3>1, <3>2, <3>4
    <3> QED BY <3>3, <3>5 DEF RealmsAgree
  <2> QED BY <2>1, <2>2, <2>3, <2>4 DEF Base
<1>13. /\ sends \in Seq(Op)
       /\ \A o \in ToSet(sends) : \E x \in {e} \cup ToSet(others) : o = Send(x)
  <2>1. sends = Answers(e) \o [i \in DOMAIN others |-> Send(others[i])]
    BY <1>6, Zenon DEF JoinsListed
  <2> QED BY <1>3, <2>1, NoticesOfJoin
<1>14. PICK told \in SUBSET EndPoint : told = {e} \cup ToSet(others)
  BY <1>3, ToSetType
<1>15. ASSUME failed = 0
       PROVE  /\ told \subseteq clients
              /\ \A x \in Object :
                    /\ realm'[x].parent # Null
                    /\ \E m \in RealmNumber : realmsByID'[m] = x
                    => /\ \E m \in RealmNumber : realmsByID'[m] = realm'[x].parent
                       /\ x \in realm'[realm'[x].parent].children
  <2>1. ASSUME NEW x \in EndPoint, x \in ToSet(others)
        PROVE  x \in clients
    <3>1. userRealm[x] = r
      BY <1>2, <1>5, <1>6, <2>1 DEF Base, Membership
    <3> QED BY <1>2, <1>3, <1>5, <1>15, <3>1, QuietMembers
  <2>2. ASSUME NEW x \in Object, realm'[x].parent # Null,
               \E m \in RealmNumber : realmsByID'[m] = x
        PROVE  /\ \E m \in RealmNumber : realmsByID'[m] = realm'[x].parent
               /\ x \in realm'[realm'[x].parent].children
    <3>1. PICK p : p = realm[x].parent
      OBVIOUS
    <3>2. Listed(x) /\ p # Null /\ realm'[x].parent = p
      BY <1>10, <2>2, <3>1 DEF Listed
    <3>3. p \in Object /\ Listed(p) /\ x \in realm[p].children
      BY <1>3, <1>15, <3>1, <3>2, ParentsListed
    <3> QED BY <1>10, <3>2, <3>3 DEF Listed
  <2>3. told \subseteq clients
    BY <1>3, <1>14, <1>15, <2>1
  <2> QED BY <2>2, <2>3
<1>16. \A o \in ToSet(sends) : \E x \in told : o = Send(x)
  BY <1>13, <1>14
<1>17. Todo.old \in Object => realm'[Todo.old].id # NoRealm
  BY <1>1, <1>3, <1>10
<1>18. Go(sends \o <<after>>) /\ sends \in Seq(Op)
  BY <1>13 DEF JoinsListed
<1>19. /\ \E m \in RealmNumber : realmsByID'[m] = r
       /\ \A m \in RealmNumber :
             realmsByID[m] # Null => realmsByID'[m] = realmsByID[m]
  OBVIOUS
<1>20. /\ after.op \in {"newchild", "cleanup"} /\ after.old = Todo.old
       /\ \A x \in EndPoint :
             userRealm'[x] = IF x = Todo.user THEN r ELSE userRealm[x]
  BY <1>1, <1>3, <1>11
<1> QED BY <1>3, <1>5, <1>12, <1>15, <1>16, <1>17, <1>18, <1>19, <1>20, JoinedKeeps

(* The text makes a realm, a child of parent unless that is Null. *)
JoinsNew(e, n, r, parent, kept, after) ==
    /\ realm' = [s \in Object |->
          IF s = r THEN NewRealm(n, parent, e)
          ELSE IF s = parent THEN [kept[s] EXCEPT !.children = @ \cup {r}]
          ELSE kept[s]]
    /\ realmsByID' = [realmsByID EXCEPT ![n] = r]
    /\ userRealm' = [userRealm EXCEPT ![e] = r]
    /\ Go(Answers(e) \o <<after>>)

LEMMA EnterMadeKeeps ==
    ASSUME IInv, EnterNew, NEW e, e = Todo.user, NEW n \in RealmNumber,
           n = Todo.target, realmsByID[n] = Null,
           NEW after, after = Afterwards(Todo), NEW r \in Object, NEW kept,
           kept = Kept(realmsByID, realm, stack), kept[r] = Unused,
           NEW parent, parent = (IF Todo.child THEN Todo.old ELSE Null),
           JoinsNew(e, n, r, parent, kept, after)
    PROVE  IInv'
<1>1. PICK old : old = Todo.old
  OBVIOUS
<1>2. /\ Null \notin Object /\ RealmNumber \subseteq Nat /\ n # NoRealm
      /\ Base /\ (failed = 0 => Quiet)
      /\ Unused.id = NoRealm
  BY ReentryAssumption DEF IInv, NoRealm, Unused
<1>3. /\ ~Idle /\ Todo.op = "enter" /\ Todo \in Control /\ Todo \in ToSet(stack[1])
      /\ 1 \in DOMAIN stack /\ "old" \in DOMAIN Todo
      /\ e \in EndPoint /\ old \in Object \cup {Null}
      /\ Todo.child => old \in Object
      /\ Todo \in OfText
      /\ userRealm[e] = Null
      /\ old \in Object => realm[old].id # NoRealm
      /\ after \in Control /\ after.op \in {"newchild", "cleanup"}
      /\ after.old = old
      /\ failed = 0 => (old \in Object => Listed(old)) /\ e \in clients
      /\ UNCHANGED <<clients, failed, users>>
  BY <1>1, <1>2, EnterFacts
<1>4. /\ userRealm \in [EndPoint -> Object \cup {Null}]
      /\ realmsByID \in [RealmNumber -> Object \cup {Null}]
      /\ realm \in [Object -> RealmType]
      /\ clients \subseteq users /\ users \subseteq EndPoint
      /\ failed \in {0, 1}
  BY <1>2 DEF Base, Types
<1>5. Intact(kept, realmsByID, stack)
  BY <1>2, <1>4, Collected
<1>6. /\ kept \in [Object -> RealmType]
      /\ \A x \in Object : kept[x].id # NoRealm => x # r
      /\ \A x \in Object : IsInjective(kept[x].users)
      /\ \A x \in EndPoint, y \in Object :
            userRealm[x] = y <=> x \in ToSet(kept[y].users)
      /\ \A x \in EndPoint : userRealm[x] # Null =>
            kept[userRealm[x]].id # NoRealm
      /\ \A m \in RealmNumber : realmsByID[m] # Null =>
            /\ kept[realmsByID[m]] = realm[realmsByID[m]]
            /\ kept[realmsByID[m]].id = m
      /\ \A x, c \in Object : c \in kept[x].children =>
            kept[c].parent = x /\ kept[c].id # NoRealm
      /\ \A x \in Object :
            /\ kept[x].parent # Null =>
                  /\ kept[x].id # NoRealm
                  /\ kept[x].parent \in Object
                  /\ kept[kept[x].parent].id # NoRealm
            /\ kept[x].children # {} => kept[x].id # NoRealm
            /\ kept[x].parent # x
  BY <1>2, <1>5 DEF Intact
<1>7. old \in Object => kept[old] = realm[old] /\ kept[old].id # NoRealm
  BY <1>1, <1>3, <1>5 DEF Intact
<1>8. /\ parent \in Object \cup {Null} /\ parent # r
      /\ parent # Null => parent = old /\ parent \in Object /\ kept[parent].id # NoRealm
  BY <1>1, <1>2, <1>3, <1>6, <1>7
<1>9. /\ realm' \in [Object -> RealmType]
      /\ \A x \in Object :
           /\ realm'[x].id = IF x = r THEN n ELSE kept[x].id
           /\ realm'[x].parent = IF x = r THEN parent ELSE kept[x].parent
           /\ realm'[x].children = IF x = r THEN {}
                                   ELSE IF x = parent THEN kept[x].children \cup {r}
                                   ELSE kept[x].children
           /\ realm'[x].users = IF x = r THEN <<e>> ELSE kept[x].users
  <2>1. PICK fresh : fresh = NewRealm(n, parent, e)
    OBVIOUS
  <2>2. /\ fresh \in RealmType
        /\ fresh.id = n /\ fresh.parent = parent /\ fresh.children = {}
        /\ fresh.users = <<e>>
    <3>1. <<e>> \in Seq(EndPoint)
      BY <1>3
    <3>2. n \in Target
      BY DEF Target
    <3> QED BY <2>1, <3>1, <3>2, <1>8 DEF NewRealm, RealmType
  <2>3. ASSUME NEW x \in Object, NEW more, more = [kept[x] EXCEPT !.children = @ \cup {r}]
        PROVE  /\ more \in RealmType
               /\ more.id = kept[x].id /\ more.parent = kept[x].parent
               /\ more.users = kept[x].users
               /\ more.children = kept[x].children \cup {r}
    <3>1. kept[x] \in RealmType
      BY <1>6
    <3> QED BY <2>3, <3>1 DEF RealmType
  <2>4. realm' = [s \in Object |->
          IF s = r THEN fresh
          ELSE IF s = parent THEN [kept[s] EXCEPT !.children = @ \cup {r}]
          ELSE kept[s]]
    BY <2>1, Zenon DEF JoinsNew
  <2>5. ASSUME NEW x \in Object
        PROVE  /\ realm'[x] \in RealmType
               /\ realm'[x].id = IF x = r THEN n ELSE kept[x].id
               /\ realm'[x].parent = IF x = r THEN parent ELSE kept[x].parent
               /\ realm'[x].children = IF x = r THEN {}
                                       ELSE IF x = parent THEN kept[x].children \cup {r}
                                       ELSE kept[x].children
               /\ realm'[x].users = IF x = r THEN <<e>> ELSE kept[x].users
    <3>1. CASE x = r
      <4>1. realm'[x] = fresh
        BY <2>4, <3>1
      <4> QED BY <2>2, <3>1, <4>1
    <3>2. CASE x # r /\ x = parent
      <4>1. PICK more : more = [kept[x] EXCEPT !.children = @ \cup {r}]
        OBVIOUS
      <4>2. realm'[x] = more
        BY <2>4, <3>2, <4>1
      <4>3. /\ more \in RealmType
            /\ more.id = kept[x].id /\ more.parent = kept[x].parent
            /\ more.users = kept[x].users
            /\ more.children = kept[x].children \cup {r}
        BY <2>3, <4>1
      <4> QED BY <3>2, <4>2, <4>3
    <3>3. CASE x # r /\ x # parent
      <4>1. realm'[x] = kept[x] /\ kept[x] \in RealmType
        BY <1>6, <2>4, <3>3
      <4> QED BY <3>3, <4>1
    <3> QED BY <3>1, <3>2, <3>3
  <2>6. realm' = [s \in Object |-> realm'[s]]
    BY <2>4
  <2> QED BY <2>5, <2>6
<1>10. /\ realm'[r].id = n /\ realm'[r].parent = parent
       /\ realm'[r].children = {} /\ realm'[r].users = <<e>>
  <2>1. /\ realm'[r].id = IF r = r THEN n ELSE kept[r].id
        /\ realm'[r].parent = IF r = r THEN parent ELSE kept[r].parent
        /\ realm'[r].children = IF r = r THEN {}
                                ELSE IF r = parent THEN kept[r].children \cup {r}
                                ELSE kept[r].children
        /\ realm'[r].users = IF r = r THEN <<e>> ELSE kept[r].users
    BY <1>9, Zenon
  <2> QED BY <2>1, Zenon
<1>11. \A x \in Object : x # r =>
          /\ realm'[x].id = kept[x].id
          /\ realm'[x].parent = kept[x].parent
          /\ realm'[x].users = kept[x].users
          /\ kept[x].children \subseteq realm'[x].children
          /\ realm'[x].children \subseteq kept[x].children \cup {r}
          /\ x # parent => realm'[x].children = kept[x].children
  <2> SUFFICES ASSUME NEW x \in Object, x # r
               PROVE  /\ realm'[x].id = kept[x].id
                      /\ realm'[x].parent = kept[x].parent
                      /\ realm'[x].users = kept[x].users
                      /\ kept[x].children \subseteq realm'[x].children
                      /\ realm'[x].children \subseteq kept[x].children \cup {r}
                      /\ x # parent => realm'[x].children = kept[x].children
    BY Zenon
  <2>1. /\ realm'[x].id = kept[x].id
        /\ realm'[x].parent = kept[x].parent
        /\ realm'[x].children = IF x = parent THEN kept[x].children \cup {r}
                                ELSE kept[x].children
        /\ realm'[x].users = kept[x].users
    BY <1>9, Zenon
  <2>2. CASE x = parent
    <3>1. realm'[x].children = kept[x].children \cup {r}
      BY <2>1, <2>2, Zenon
    <3> QED BY <2>1, <2>2, <3>1, Zenon
  <2>3. CASE x # parent
    <3>1. realm'[x].children = kept[x].children
      BY <2>1, <2>3, Zenon
    <3> QED BY <2>1, <3>1, Zenon
  <2> QED BY <2>2, <2>3, Zenon
<1>12. parent \in Object => r \in realm'[parent].children
  <2>1. \A x \in Object : x # r /\ x = parent => r \in realm'[x].children
    <3> SUFFICES ASSUME NEW x \in Object, x # r, x = parent
                 PROVE  r \in realm'[x].children
      BY Zenon
    <3>1. realm'[x].children = IF x = r THEN {}
                               ELSE IF x = parent THEN kept[x].children \cup {r}
                               ELSE kept[x].children
      BY <1>9, Zenon
    <3>2. realm'[x].children = kept[x].children \cup {r}
      BY <3>1, Zenon
    <3> QED BY <3>2, Zenon
  <2> QED BY <1>8, <2>1
<1>13. /\ userRealm' \in [EndPoint -> Object \cup {Null}]
       /\ \A x \in EndPoint : userRealm'[x] = IF x = e THEN r ELSE userRealm[x]
       /\ realmsByID' \in [RealmNumber -> Object \cup {Null}]
       /\ \A m \in RealmNumber : realmsByID'[m] = IF m = n THEN r ELSE realmsByID[m]
  BY <1>3, <1>4 DEF JoinsNew
<1>14. /\ ToSet(<<e>>) = {e} /\ IsInjective(<<e>>)
  <2>1. DOMAIN <<e>> = {1} /\ <<e>>[1] = e
    OBVIOUS
  <2> QED BY <2>1 DEF ToSet, IsInjective
<1>15. Base'
  <2>1. Types'
    BY <1>3, <1>4, <1>9, <1>13 DEF Types
  <2>2. Referred'
    <3>1. ASSUME NEW x \in EndPoint, userRealm'[x] # Null
          PROVE  realm'[userRealm'[x]].id # NoRealm
      <4>1. CASE x = e
        BY <1>2, <1>10, <1>11, <1>13, <4>1
      <4>2. CASE x # e
        <5>1. PICK y : y = userRealm[x]
          OBVIOUS
        <5>2. y \in Object /\ kept[y].id # NoRealm /\ userRealm'[x] = y
          BY <1>4, <1>6, <1>13, <3>1, <4>2, <5>1
        <5> QED BY <1>6, <1>10, <1>11, <5>2
      <4> QED BY <4>1, <4>2
    <3>2. ASSUME NEW m \in RealmNumber, realmsByID'[m] # Null
          PROVE  realm'[realmsByID'[m]].id # NoRealm
      <4>1. CASE m = n
        BY <1>2, <1>10, <1>11, <1>13, <4>1
      <4>2. CASE m # n
        <5>1. PICK y : y = realmsByID[m]
          OBVIOUS
        <5>2. y \in Object /\ kept[y].id # NoRealm /\ realmsByID'[m] = y
          BY <1>2, <1>4, <1>6, <1>13, <3>2, <4>2, <5>1 DEF NoRealm
        <5> QED BY <1>6, <1>10, <1>11, <5>2
      <4> QED BY <4>1, <4>2
    <3>3. ASSUME NEW x \in Object
          PROVE  /\ realm'[x].parent # Null =>
                      realm'[x].id # NoRealm /\ realm'[realm'[x].parent].id # NoRealm
                 /\ realm'[x].children # {} => realm'[x].id # NoRealm
                 /\ realm'[x].parent # x
      <4>1. CASE x = r
        <5>1. realm'[x].parent = parent /\ realm'[x].id = n /\ realm'[x].children = {}
          BY <1>10, <1>11, <4>1
        <5>2. parent # Null => realm'[parent].id # NoRealm
          BY <1>8, <1>10, <1>11
        <5> QED BY <1>2, <1>8, <4>1, <5>1, <5>2
      <4>2. CASE x # r
        <5>1. realm'[x].parent = kept[x].parent /\ realm'[x].id = kept[x].id
          BY <1>10, <1>11, <4>2
        <5>2. PICK p : p = kept[x].parent
          OBVIOUS
        <5>3. p # Null => kept[x].id # NoRealm /\ realm'[p].id # NoRealm
          BY <1>6, <1>10, <1>11, <5>2
        <5>4. realm'[x].children # {} => kept[x].id # NoRealm
          BY <1>2, <1>6, <1>8, <1>10, <1>11, <4>2
        <5> QED BY <1>6, <5>1, <5>2, <5>3, <5>4
      <4> QED BY <4>1, <4>2
    <3> QED BY <3>1, <3>2, <3>3 DEF Referred, InUse
  <2>3. Membership'
    <3>1. \A x \in Object : IsInjective(realm'[x].users)
      BY <1>6, <1>10, <1>11, <1>14
    <3>2. ASSUME NEW x \in EndPoint, NEW y \in Object
          PROVE  userRealm'[x] = y <=> x \in ToSet(realm'[y].users)
      <4>1. userRealm[x] = y <=> x \in ToSet(kept[y].users)
        BY <1>6
      <4>2. userRealm[x] # r
        BY <1>2, <1>6
      <4>3. CASE y = r
        <5>1. realm'[y].users = <<e>>
          BY <1>10, <1>11, <4>3
        <5> QED BY <1>13, <1>14, <4>2, <4>3, <5>1
      <4>4. CASE y # r
        <5>1. realm'[y].users = kept[y].users
          BY <1>10, <1>11, <4>4
        <5> QED BY <1>2, <1>3, <1>13, <4>1, <4>4, <5>1
      <4> QED BY <4>3, <4>4
    <3> QED BY <3>1, <3>2 DEF Membership
  <2>4. RealmsAgree'
    <3>1. ASSUME NEW x \in Object, NEW c \in Object, c \in realm'[x].children
          PROVE  realm'[c].parent = x
      <4>1. x # r
        BY <1>10, <1>11, <3>1
      <4>2. CASE c = r
        <5>1. r \notin kept[x].children
          BY <1>6
        <5>2. x = parent
          BY <1>10, <1>11, <3>1, <4>1, <4>2, <5>1
        <5> QED BY <1>10, <1>11, <4>2, <5>2
      <4>3. CASE c # r
        <5>1. c \in kept[x].children
          BY <1>10, <1>11, <3>1, <4>1, <4>3
        <5> QED BY <1>6, <1>10, <1>11, <4>3, <5>1
      <4> QED BY <4>2, <4>3
    <3>2. ASSUME NEW m \in RealmNumber, realmsByID'[m] # Null
          PROVE  realm'[realmsByID'[m]].id = m
      <4>1. CASE m = n
        BY <1>10, <1>11, <1>13, <4>1
      <4>2. CASE m # n
        <5>1. PICK y : y = realmsByID[m]
          OBVIOUS
        <5>2. y \in Object /\ kept[y].id = m /\ m # NoRealm /\ realmsByID'[m] = y
          BY <1>2, <1>4, <1>6, <1>13, <3>2, <4>2, <5>1 DEF NoRealm
        <5> QED BY <1>6, <1>10, <1>11, <5>2
      <4> QED BY <4>1, <4>2
    <3> QED BY <3>1, <3>2 DEF RealmsAgree
  <2> QED BY <2>1, <2>2, <2>3, <2>4 DEF Base
<1>16. /\ Answers(e) \in Seq(Op)
       /\ \A o \in ToSet(Answers(e)) : \E x \in {e} : o = Send(x)
  <2>1. Send(e) \in Op
    BY <1>3 DEF Send, Op
  <2>2. \A o \in Op : <<o, o>> \in Seq(Op) /\ DOMAIN <<o, o>> = {1, 2}
                      /\ <<o, o>>[1] = o /\ <<o, o>>[2] = o
    OBVIOUS
  <2> QED BY <2>1, <2>2 DEF Answers, ToSet
<1>17. ASSUME failed = 0
       PROVE  /\ {e} \subseteq clients
              /\ \A x \in Object :
                    /\ realm'[x].parent # Null
                    /\ \E m \in RealmNumber : realmsByID'[m] = x
                    => /\ \E m \in RealmNumber : realmsByID'[m] = realm'[x].parent
                       /\ x \in realm'[realm'[x].parent].children
  <2>1. ASSUME NEW p \in Object, Listed(p)
        PROVE  /\ \E m \in RealmNumber : realmsByID'[m] = p
               /\ p # r /\ kept[p] = realm[p]
    <3>1. PICK m \in RealmNumber : realmsByID[m] = p
      BY <2>1 DEF Listed
    <3>2. m # n /\ m # NoRealm
      BY <1>2, <3>1 DEF NoRealm
    <3> QED BY <1>2, <1>6, <1>13, <3>1, <3>2
  <2>2. ASSUME NEW x \in Object, NEW p, p = realm'[x].parent, p # Null,
               \E m \in RealmNumber : realmsByID'[m] = x
        PROVE  (\E m \in RealmNumber : realmsByID'[m] = p) /\ x \in realm'[p].children
    <3>1. CASE x = r
      <4>1. p = parent
        BY <1>10, <1>11, <2>2, <3>1
      <4>2. p = old /\ p \in Object /\ Listed(p)
        BY <1>3, <1>8, <1>17, <2>2, <4>1
      <4> QED BY <1>12, <2>1, <3>1, <4>1, <4>2
    <3>2. CASE x # r
      <4>1. Listed(x)
        BY <1>13, <2>2, <3>2 DEF Listed
      <4>2. p = realm[x].parent
        BY <1>10, <1>11, <2>1, <2>2, <3>2, <4>1
      <4>3. p \in Object /\ Listed(p) /\ x \in realm[p].children
        BY <1>3, <1>17, <2>2, <4>1, <4>2, ParentsListed
      <4> QED BY <1>10, <1>11, <2>1, <4>3
    <3> QED BY <3>1, <3>2
  <2> QED BY <1>3, <1>17, <2>2
<1>18. /\ {e} \in SUBSET EndPoint
       /\ after.op \in {"newchild", "cleanup"} /\ after.old = Todo.old
       /\ \A x \in EndPoint :
             userRealm'[x] = IF x = Todo.user THEN r ELSE userRealm[x]
       /\ \E m \in RealmNumber : realmsByID'[m] = r
       /\ \A m \in RealmNumber :
             realmsByID[m] # Null => realmsByID'[m] = realmsByID[m]
  BY <1>1, <1>3, <1>13
<1>19. Todo.old \in Object => realm'[Todo.old].id # NoRealm
  BY <1>1, <1>6, <1>7, <1>10, <1>11
<1>20. Go(Answers(e) \o <<after>>)
  BY DEF JoinsNew
<1> QED BY <1>3, <1>15, <1>16, <1>17, <1>18, <1>19, <1>20, JoinedKeeps

LEMMA EnterNewKeeps == ASSUME IInv, EnterNew PROVE IInv'
<1>1. Todo.target \in Target
  <2>1. PICK e, n, old, after : /\ e = Todo.user /\ n = Todo.target
                                /\ old = Todo.old /\ after = Afterwards(Todo)
    OBVIOUS
  <2> QED BY <2>1, EnterFacts
<1>2. CASE Go(<<Afterwards(Todo)>>) /\ UNCHANGED realmVars
  BY <1>2, EnterNoneKeeps
<1>3. CASE /\ Todo.target # NoRealm /\ realmsByID[Todo.target] # Null
           /\ realm' = [realm EXCEPT ![realmsByID[Todo.target]].users =
                                       Append(@, Todo.user)]
           /\ userRealm' = [userRealm EXCEPT ![Todo.user] = realmsByID[Todo.target]]
           /\ LET others == realm[realmsByID[Todo.target]].users
              IN  Go(Answers(Todo.user) \o [i \in DOMAIN others |-> Send(others[i])]
                       \o <<Afterwards(Todo)>>)
           /\ UNCHANGED realmsByID
  <2>1. PICK e, n, r, after, sends :
           /\ e = Todo.user /\ n = Todo.target /\ r = realmsByID[n]
           /\ after = Afterwards(Todo)
           /\ sends = Answers(e)
                        \o [i \in DOMAIN realm[r].users |-> Send(realm[r].users[i])]
    OBVIOUS
  <2>2. JoinsListed(e, r, sends, after)
    BY <1>3, <2>1, Zenon DEF JoinsListed
  <2>3. n \in RealmNumber
    BY <1>1, <1>3, <2>1 DEF Target
  <2> QED BY <1>3, <2>1, <2>2, <2>3, EnterListedKeeps, Zenon
<1>4. CASE /\ Todo.target # NoRealm /\ realmsByID[Todo.target] = Null
           /\ \E r \in Object :
                /\ Kept(realmsByID, realm, stack)[r] = Unused
                /\ JoinsNew(Todo.user, Todo.target, r,
                            IF Todo.child THEN Todo.old ELSE Null,
                            Kept(realmsByID, realm, stack), Afterwards(Todo))
  <2>1. PICK r, e, n, after, kept, parent :
           /\ r \in Object
           /\ e = Todo.user /\ n = Todo.target /\ after = Afterwards(Todo)
           /\ kept = Kept(realmsByID, realm, stack)
           /\ parent = (IF Todo.child THEN Todo.old ELSE Null)
           /\ kept[r] = Unused
           /\ JoinsNew(e, n, r, parent, kept, after)
    BY <1>4, Zenon
  <2>2. n \in RealmNumber
    BY <1>1, <1>4, <2>1 DEF Target
  <2> QED BY <1>4, <2>1, <2>2, EnterMadeKeeps, Zenon
<1> QED BY <1>2, <1>3, <1>4, Zenon DEF EnterNew, JoinsNew

-----------------------------------------------------------------------------
(* The events. *)

LEMMA IdleFacts ==
    ASSUME IInv, Idle
    PROVE  /\ Base /\ Pending(stack) = {} /\ StackShape(<<>>) /\ Len(stack) = 0
           /\ failed = 0 =>
                 /\ Quiet
                 /\ users = clients
                 /\ \A e \in EndPoint : userRealm[e] # Null => e \in clients
<1>1. Base /\ StackShape(stack) /\ stack = <<>> /\ (failed = 0 => Quiet)
  BY DEF IInv, Idle
<1>2. DOMAIN stack = {} /\ Len(stack) = 0
  BY <1>1
<1>3. Pending(stack) = {}
  BY <1>2 DEF Pending
<1>4. ASSUME NEW e, stack = <<Disconnection(e)>>
      PROVE  FALSE
  <2>1. \A x : << <<x>> >> # <<>> /\ <<x>> # <<>>
    OBVIOUS
  <2> QED BY <1>1, <1>4, <2>1, Zenon
<1>5. ASSUME failed = 0
      PROVE  /\ users = clients
             /\ \A e \in EndPoint : userRealm[e] # Null => e \in clients
  <2>1. users \ clients = {}
    BY <1>1, <1>3, <1>5 DEF Quiet
  <2>2. clients \subseteq users
    BY <1>1 DEF Base, Types
  <2>3. \A e \in EndPoint : userRealm[e] # Null => e \in clients
    BY <1>1, <1>4, <1>5 DEF Quiet
  <2> QED BY <2>1, <2>2, <2>3
<1> QED BY <1>1, <1>2, <1>3, <1>5

(* A text: a handler with one thing to do. *)
LEMMA TextKeeps ==
    ASSUME IInv, UNCHANGED <<socketVars, users, realmVars>>,
           NEW o \in Op, o \notin Parting, Start(<<o>>), Founded(o),
           failed = 0 => QuietlyFounded(o)
    PROVE  IInv'
<1>1. Idle /\ stack' = << <<o>> >>
  BY DEF Start
<1>2. /\ Base /\ Pending(stack) = {}
      /\ failed = 0 =>
            /\ Quiet
            /\ users = clients
            /\ \A e \in EndPoint : userRealm[e] # Null => e \in clients
  BY <1>1, IdleFacts
<1>3. /\ StackShape(stack') /\ Pending(stack') = {o} /\ Len(stack') = 1
  <2>1. <<o>> \in Seq(Op) /\ <<o>> # <<>> /\ DOMAIN <<o>> = {1} /\ <<o>>[1] = o
    OBVIOUS
  <2>2. ToSet(<<o>>) = {o} /\ FrameShape(<<o>>)
    BY <2>1 DEF ToSet, FrameShape, AtMostOne, LoopFirst
  <2>3. PICK f : f = <<o>>
    OBVIOUS
  <2>4. /\ f \in Seq(Op) /\ f # <<>> /\ FrameShape(f) /\ ToSet(f) = {o}
        /\ stack' = <<f>>
    BY <1>1, <2>1, <2>2, <2>3, Zenon
  <2>5. StackShape(<<f>>) /\ Pending(<<f>>) = ToSet(f)
    BY <2>4, StartShape
  <2>6. Len(<<f>>) = 1
    OBVIOUS
  <2> QED BY <2>4, <2>5, <2>6
<1>4. /\ Base'
      /\ Founded(o)' /\ (QuietlyFounded(o)' <=> QuietlyFounded(o))
  BY <1>2, SameState
<1>5. ASSUME failed' = 0
      PROVE  Quiet'
  <2>1. /\ Quiet /\ users = clients /\ QuietlyFounded(o)'
        /\ \A e \in EndPoint : userRealm[e] # Null => e \in clients
    BY <1>2, <1>4, <1>5 DEF socketVars
  <2>2. /\ UNCHANGED <<clients, users, userRealm, realmsByID, realm>>
        /\ \A r : Listed(r)' <=> Listed(r)
    BY DEF socketVars, realmVars, Listed
  <2>3. \A e \in EndPoint : userRealm[e] # Null => Listed(userRealm[e])
    BY <2>1 DEF Quiet
  <2>4. \A r \in Object : Listed(r) /\ realm[r].parent # Null =>
           Listed(realm[r].parent) /\ r \in realm[realm[r].parent].children
    BY <1>2, <2>1 DEF Quiet
  <2> QED BY <1>3, <2>1, <2>2, <2>3, <2>4 DEF Quiet, Listed
<1> QED BY <1>3, <1>4, <1>5 DEF IInv, PendingOK

LEMMA ConnectedKeeps ==
    ASSUME IInv, NEW e \in EndPoint, ClientConnected(e)
    PROVE  IInv'
<1>1. /\ Idle /\ clients' = clients \cup {e} /\ users' = users \cup {e}
      /\ UNCHANGED <<failed, userRealm, realmsByID, realm, stack>>
  BY DEF ClientConnected, realmVars
<1>2. /\ Base /\ Pending(stack) = {}
      /\ failed = 0 =>
            /\ Quiet
            /\ users = clients
            /\ \A x \in EndPoint : userRealm[x] # Null => x \in clients
  BY <1>1, IdleFacts
<1>3. Base'
  <2>1. Types'
    BY <1>1, <1>2 DEF Base, Types
  <2>2. Referred' /\ Membership' /\ RealmsAgree'
    BY <1>1, <1>2 DEF Base, Referred, InUse, Membership, RealmsAgree
  <2> QED BY <2>1, <2>2 DEF Base
<1>4. Pending(stack)' = {} /\ StackShape(stack)'
  BY <1>1, <1>2 DEF IInv
<1>5. ASSUME failed' = 0
      PROVE  Quiet'
  <2>1. /\ Quiet /\ users' = clients'
        /\ \A x \in EndPoint : userRealm[x] # Null => x \in clients'
    BY <1>1, <1>2, <1>5
  <2>2. \A r : Listed(r)' <=> Listed(r)
    BY <1>1 DEF Listed
  <2> QED BY <1>1, <1>4, <2>1, <2>2 DEF Quiet, Listed
<1> QED BY <1>3, <1>4, <1>5 DEF IInv, PendingOK

LEMMA DisconnectedKeeps ==
    ASSUME IInv, NEW e \in EndPoint, ClientDisconnected(e)
    PROVE  IInv'
<1>1. /\ Idle /\ e \in clients /\ clients' = clients \ {e}
      /\ stack' = <<Disconnection(e)>>
      /\ UNCHANGED <<users, failed, userRealm, realmsByID, realm>>
  BY DEF ClientDisconnected, Start, realmVars
<1>2. /\ Base /\ Pending(stack) = {} /\ StackShape(<<>>) /\ stack = <<>>
      /\ failed = 0 =>
            /\ Quiet
            /\ users = clients
            /\ \A x \in EndPoint : userRealm[x] # Null => x \in clients
  BY <1>1, IdleFacts DEF Idle
<1>3. /\ StackShape(stack')
      /\ Pending(stack') = {Change(e, NoRealm, FALSE), Forget(e)}
      /\ Len(stack') = 1
  <2>1. PICK d, s : d = Disconnection(e) /\ s = stack
    OBVIOUS
  <2>2. <<d>> \o <<>> = <<d>> /\ Len(<<d>>) = 1
    OBVIOUS
  <2>3. StackShape(s) /\ Forget(e) \notin Pending(s) /\ s = <<>> /\ Pending(s) = {}
    BY <1>2, <2>1
  <2>4. /\ StackShape(<<Disconnection(e)>> \o s)
        /\ Pending(<<Disconnection(e)>> \o s) =
             {Change(e, NoRealm, FALSE), Forget(e)} \cup Pending(s)
    BY <2>3, PushShape, Zenon
  <2>5. <<Disconnection(e)>> \o s = stack' /\ Len(stack') = 1
    BY <1>1, <2>1, <2>2, <2>3, Zenon
  <2> QED BY <2>3, <2>4, <2>5
<1>4. Base'
  <2>1. Types'
    BY <1>1, <1>2 DEF Base, Types
  <2>2. Referred' /\ Membership' /\ RealmsAgree'
    BY <1>1, <1>2 DEF Base, Referred, InUse, Membership, RealmsAgree
  <2> QED BY <2>1, <2>2 DEF Base
<1>5. Change(e, NoRealm, FALSE) \notin OfText /\ Forget(e) \notin OfText
  BY OpsTyped, Zenon DEF Target
<1>6. Founded(Change(e, NoRealm, FALSE))' /\ Founded(Forget(e))'
  BY <1>1, <1>2 DEF Founded, Change, Forget, Base, Types
<1>7. ASSUME failed' = 0
      PROVE  Quiet'
  <2>1. /\ Quiet /\ users = clients
        /\ \A x \in EndPoint : userRealm[x] # Null => x \in clients' \/ x = e
    BY <1>1, <1>2, <1>7
  <2>2. \A r : Listed(r)' <=> Listed(r)
    BY <1>1 DEF Listed
  <2>3. ASSUME NEW o \in Pending(stack')
        PROVE  QuietlyFounded(o)'
    <3>1. o \notin OfText /\ o.op \in {"change", "forget"}
      <4>1. Change(e, NoRealm, FALSE).op = "change" /\ Forget(e).op = "forget"
        BY DEF Change, Forget
      <4> QED BY <4>1, <1>3, <1>5, Zenon
    <3> QED BY <3>1 DEF QuietlyFounded
  <2>4. \A x \in users' \ clients' : Forget(x) \in Pending(stack')
    BY <1>1, <1>3, <2>1
  <2>5. \A x \in EndPoint : userRealm[x] # Null => Listed(userRealm[x])
    BY <2>1 DEF Quiet
  <2>6. \A x \in EndPoint : userRealm[x] # Null =>
           x \in clients' \/ stack' = <<Disconnection(x)>>
    BY <1>1, <2>1
  <2>7. \A r \in Object : Listed(r) /\ realm[r].parent # Null =>
           Listed(realm[r].parent) /\ r \in realm[realm[r].parent].children
    BY <1>2, <2>1 DEF Quiet
  <2> QED BY <1>1, <1>3, <2>2, <2>3, <2>4, <2>5, <2>6, <2>7 DEF Quiet, Listed
<1> QED BY <1>3, <1>4, <1>6, <1>7 DEF IInv, PendingOK

LEMMA JoinKeeps ==
    ASSUME IInv, NEW e \in EndPoint, NEW n \in RealmNumber \cup {NoRealm},
           NEW child \in BOOLEAN, Join(e, n, child)
    PROVE  IInv'
<1> DEFINE o == Change(e, n, child)
<1>1. /\ Idle /\ e \in users /\ Start(<<o>>)
      /\ UNCHANGED <<socketVars, users, realmVars>>
  BY DEF Join, Start
<1>2. o \in Op /\ o \notin Parting /\ o.op = "change" /\ o.user = e
      /\ ~("old" \in DOMAIN o)
  BY DEF Change, Op, Target, Parting
<1>3. Founded(o)
  BY <1>2 DEF Founded
<1>4. failed = 0 => QuietlyFounded(o)
  BY <1>1, <1>2, IdleFacts DEF QuietlyFounded
<1> QED BY <1>1, <1>2, <1>3, <1>4, TextKeeps

LEMMA SendToOneKeeps ==
    ASSUME IInv, NEW e \in EndPoint, NEW x \in EndPoint, SendToOne(e, x)
    PROVE  IInv'
<1> DEFINE o == Send(x)
<1>1. /\ Idle /\ x \in users /\ Start(<<o>>)
      /\ UNCHANGED <<socketVars, users, realmVars>>
  BY DEF SendToOne, Start
<1>2. o \in Op /\ o \notin Parting /\ o.op = "send" /\ o.user = x
      /\ ~("old" \in DOMAIN o)
  BY DEF Send, Op, Parting
<1>3. Founded(o)
  BY <1>2 DEF Founded
<1>4. failed = 0 => QuietlyFounded(o)
  BY <1>1, <1>2, IdleFacts DEF QuietlyFounded
<1> QED BY <1>1, <1>2, <1>3, <1>4, TextKeeps

LEMMA BroadcastKeeps ==
    ASSUME IInv, NEW e \in EndPoint, NEW except \in {Null, e}, Broadcast(e, except)
    PROVE  IInv'
<1>1. PICK r, list, o : /\ r = userRealm[e] /\ list = realm[r].users
                        /\ o = Loop(r, list, except)
  OBVIOUS
<1>2. /\ Idle /\ r # Null /\ Start(<<o>>)
      /\ UNCHANGED <<socketVars, users, realmVars>>
  BY <1>1 DEF Broadcast, Start
<1>3. Base
  BY <1>2, IdleFacts
<1>4. r \in Object /\ realm[r].id # NoRealm
  BY <1>1, <1>2, <1>3 DEF Base, Types, Referred, InUse
<1>5. list \in Seq(EndPoint)
  BY <1>1, <1>3, <1>4 DEF Base, Types, RealmType
<1>6. o \in Op \ ((Control \cup Parting) \cup OfText)
  BY <1>1, <1>4, <1>5, LoopTyped
<1>7. o.op = "loop" /\ o.old = r /\ o.list = list
  BY <1>1 DEF Loop
<1>8. Founded(o)
  BY <1>4, <1>7 DEF Founded, InUse
<1>9. QuietlyFounded(o)
  BY <1>1, <1>6, <1>7 DEF QuietlyFounded
<1> QED BY <1>2, <1>6, <1>8, <1>9, TextKeeps

-----------------------------------------------------------------------------
(* The theorems. *)

LEMMA InitFits == ASSUME Init PROVE IInv
<1>1. /\ clients = {} /\ failed = 0 /\ users = {} /\ stack = <<>>
      /\ userRealm = [e \in EndPoint |-> Null]
      /\ realmsByID = [n \in RealmNumber |-> Null]
      /\ realm = [r \in Object |-> Unused]
  BY DEF Init
<1>2. /\ Null \notin Object
      /\ \A n \in RealmNumber : n # NoRealm
  BY ReentryAssumption DEF NoRealm
<1>3. /\ Unused.id = NoRealm /\ Unused.parent = Null /\ Unused.children = {}
      /\ Unused.users = <<>> /\ Unused \in RealmType
  <2>1. <<>> \in Seq(EndPoint) /\ NoRealm \in Target
    BY DEF Target
  <2> QED BY <2>1 DEF Unused, RealmType
<1>4. /\ \A e \in EndPoint : userRealm[e] = Null
      /\ \A n \in RealmNumber : realmsByID[n] = Null
      /\ \A r \in Object : /\ realm[r].id = NoRealm /\ realm[r].parent = Null
                           /\ realm[r].children = {} /\ realm[r].users = <<>>
  BY <1>1, <1>3
<1>5. Base
  <2>1. Types
    <3>1. realm \in [Object -> RealmType]
      BY <1>1, <1>3
    <3>2. failed \in {0, 1}
      BY <1>1, <1>2
    <3> QED BY <1>1, <3>1, <3>2 DEF Types
  <2>2. Referred
    BY <1>2, <1>4 DEF Referred, InUse
  <2>3. Membership
    BY <1>2, <1>4, EmptyQueue DEF Membership
  <2>4. RealmsAgree
    BY <1>4 DEF RealmsAgree
  <2> QED BY <2>1, <2>2, <2>3, <2>4 DEF Base
<1>6. /\ stack \in Seq(Seq(Op) \ {<<>>}) /\ DOMAIN stack = {} /\ Len(stack) = 0
  BY <1>1
<1>7. StackShape(stack) /\ Pending(stack) = {}
  BY <1>6 DEF StackShape, Pending
<1>8. Quiet
  BY <1>1, <1>4, <1>6, <1>7 DEF Quiet
<1> QED BY <1>5, <1>7, <1>8 DEF IInv, PendingOK

LEMMA StutterFits == ASSUME IInv, UNCHANGED vars PROVE IInv'
<1>1. /\ UNCHANGED <<clients, failed, users, userRealm, realmsByID, realm, stack>>
  BY DEF vars, socketVars, realmVars
<1>2. Base' /\ \A o : Founded(o)' <=> Founded(o)
  BY <1>1, SameState DEF IInv, socketVars, realmVars
<1>3. \A o : QuietlyFounded(o)' <=> QuietlyFounded(o)
  BY <1>1, SameState DEF IInv, socketVars, realmVars
<1>4. StackShape(stack') /\ PendingOK'
  BY <1>1, <1>2 DEF IInv, PendingOK
<1>5. failed' = 0 => Quiet'
  <2>1. \A r : Listed(r)' <=> Listed(r)
    BY <1>1 DEF Listed
  <2> QED BY <1>1, <1>3, <2>1 DEF IInv, Quiet
<1> QED BY <1>2, <1>4, <1>5 DEF IInv

LEMMA NextKeeps == ASSUME IInv, Next PROVE IInv'
<1>1. CASE Handle
  BY <1>1, LeaveOldKeeps, EnterNewKeeps, TellNewChildKeeps, LoopTurnKeeps,
     SendTurnKeeps, CleanupTurnKeeps, DestroyTurnKeeps, ForgetTurnKeeps, Zenon
  DEF Handle
<1>2. CASE Event
  <2>1. PICK e \in EndPoint :
           \/ ClientConnected(e)
           \/ ClientDisconnected(e)
           \/ /\ Room
              /\ \E n \in RealmNumber \cup {NoRealm}, child \in BOOLEAN :
                    Join(e, n, child)
           \/ \E except \in {Null, e} : Broadcast(e, except)
           \/ \E x \in EndPoint : SendToOne(e, x)
    BY <1>2 DEF Event
  <2>2. CASE \E n \in RealmNumber \cup {NoRealm}, child \in BOOLEAN : Join(e, n, child)
    BY <2>2, JoinKeeps, Zenon
  <2>3. CASE \E except \in {Null, e} : Broadcast(e, except)
    BY <2>3, BroadcastKeeps, Zenon
  <2>4. CASE \E x \in EndPoint : SendToOne(e, x)
    BY <2>4, SendToOneKeeps, Zenon
  <2> QED BY <2>1, <2>2, <2>3, <2>4, ConnectedKeeps, DisconnectedKeeps, Zenon
<1> QED BY <1>1, <1>2 DEF Next

(* What the handlers of the relay server rely on when a Send may fail in   *)
(* the middle of any of them (Server.cs:57-115, 269-381): the shape of the *)
(* nested handlers, and what each finds when it goes on.                   *)
THEOREM InductiveInvariant == Spec => []IInv
<1>1. Init => IInv
  BY InitFits
<1>2. IInv /\ [Next]_vars => IInv'
  BY NextKeeps, StutterFits
<1> QED BY <1>1, <1>2, PTL DEF Spec

(* Lists, dictionaries and the fields of Realm objects hold what they may, *)
(* wherever a handler is cut off (Server.cs:269-381).                      *)
THEOREM TypesKept == Spec => []TypeOK
<1>1. IInv => TypeOK
  <2> SUFFICES ASSUME IInv PROVE TypeOK
    OBVIOUS
  <2>1. Types
    BY DEF IInv, Base
  <2>2. ASSUME NEW r \in Object
        PROVE  /\ realm[r].id \in RealmNumber \cup {NoRealm}
               /\ realm[r].parent \in Object \cup {Null}
               /\ realm[r].children \subseteq Object
               /\ ToSet(realm[r].users) \subseteq EndPoint
    BY <2>1, ToSetType DEF Types, RealmType, Target
  <2> QED BY <2>1, <2>2 DEF Types, TypeOK
<1> QED BY <1>1, InductiveInvariant, PTL

(* A user's realm and the users of a realm agree (ChangeRealm,             *)
(* Server.cs:289-314), in the middle of nested handlers too: the handler   *)
(* that takes a user out of its realm does it before it writes to anybody, *)
(* and the one that puts it into another finds it in none.                 *)
THEOREM MembershipKept == Spec => []Membership
<1>1. IInv => Membership
  BY DEF IInv, Base
<1> QED BY <1>1, InductiveInvariant, PTL

(* A user is disconnected by one handler, and while it is, its client is   *)
(* off the list and the user still registered (WebSocketServer.cs:317-322).*)
THEOREM DisconnectedOnce == Spec => []DisconnectsOnce
<1>1. IInv => DisconnectsOnce
  <2> SUFFICES ASSUME IInv, NEW e \in EndPoint, Disconnecting(e) # {}
               PROVE  /\ Cardinality(Disconnecting(e)) = 1
                      /\ e \in users \ clients
    BY DEF DisconnectsOnce
  <2>1. PICK i \in DOMAIN stack : Forget(e) \in ToSet(stack[i])
    BY DEF Disconnecting
  <2>2. \A k \in DOMAIN stack : Forget(e) \in ToSet(stack[k]) => k = i
    BY <2>1 DEF IInv, StackShape
  <2>3. Disconnecting(e) = {i}
    BY <2>1, <2>2 DEF Disconnecting
  <2>4. Founded(Forget(e))
    BY <2>1 DEF IInv, PendingOK, Pending
  <2>5. e \in users \ clients
    BY <2>4 DEF Founded, Forget
  <2> QED BY <2>3, <2>5, FS_Singleton
<1> QED BY <1>1, InductiveInvariant, PTL

(* A child points back to its parent, and a number on the list leads to a  *)
(* realm of that number, whatever handlers have been cut off between the   *)
(* two sides of a link (Server.cs:318-372).                                *)
THEOREM RealmsKeepAgreeing == Spec => []RealmsAgree
<1>1. IInv => RealmsAgree
  BY DEF IInv, Base
<1> QED BY <1>1, InductiveInvariant, PTL

(* Until a Send fails, the users are the clients of the list and the realm *)
(* of a user is on the list of realms whenever no handler is under way     *)
(* (Server.cs:57-115, 269-381).                                            *)
THEOREM SoundUntilFailure == Spec => []SoundWithoutFailures
<1>1. IInv => SoundWithoutFailures
  <2> SUFFICES ASSUME IInv, Idle, failed = 0
               PROVE  /\ users = clients
                      /\ \A e \in users : userRealm[e] # Null =>
                            realmsByID[realm[userRealm[e]].id] = userRealm[e]
    BY DEF SoundWithoutFailures
  <2>1. Base /\ Quiet /\ users = clients
    BY IdleFacts
  <2>2. ASSUME NEW e \in users, userRealm[e] # Null
        PROVE  realmsByID[realm[userRealm[e]].id] = userRealm[e]
    <3>1. e \in EndPoint
      BY <2>1 DEF Base, Types
    <3>2. PICK n \in RealmNumber : realmsByID[n] = userRealm[e]
      BY <2>1, <2>2, <3>1 DEF Quiet, Listed
    <3>3. realm[userRealm[e]].id = n
      BY <2>1, <2>2, <3>2 DEF Base, RealmsAgree
    <3> QED BY <3>2, <3>3
  <2> QED BY <2>1, <2>2
<1> QED BY <1>1, InductiveInvariant, PTL
=============================================================================
