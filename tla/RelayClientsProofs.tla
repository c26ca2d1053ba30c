-------------------------- MODULE RelayClientsProofs --------------------------
(***************************************************************************)
(* What the clients of the relay believe, proved for any number of end     *)
(* points and realms: once a client has heard what was sent to it, it      *)
(* knows who else is in its realm, and nothing it was told was no news;    *)
(* among disciplined clients the same of child realms.                     *)
(***************************************************************************)
EXTENDS RelayClients, RelayProofs

-----------------------------------------------------------------------------
(***************************************************************************)
(* Hearing a list of packets: the fold of Hear.                            *)
(***************************************************************************)
Heard(v, ms) == FoldLeft(Hear, v, ms)

HearNext(v, m, c) == Hear(v, m)
AnyView(v, i, c) == TRUE
Hearing == INSTANCE FoldLemmas WITH Step <- HearNext, Good <- AnyView

LEMMA HeardIsFold ==
    ASSUME NEW v, NEW ms
    PROVE  Heard(v, ms) = Hearing!Fold(v, ms, 0)
BY DEF Heard, Hearing!Fold, HearNext, FoldLeft, Hearing!FoldLeft,
       MapThenFoldSet, Hearing!MapThenFoldSet, Max, Hearing!Max

Runs(h, v, ms) ==
    /\ h[0] = v
    /\ \A i \in 1 .. Len(ms) : h[i] = Hear(h[i - 1], ms[i])

(* The fold has a run, which ends at its value. *)
LEMMA FoldRuns ==
    ASSUME NEW v, NEW S, NEW ms \in Seq(S)
    PROVE  \E h : Runs(h, v, ms) /\ Heard(v, ms) = h[Len(ms)]
<1>1. \E h : Hearing!Runs(h, v, ms, 0) /\ Hearing!Fold(v, ms, 0) = h[Len(ms)]
  BY Hearing!FoldRuns
<1> QED BY <1>1, HeardIsFold DEF Runs, Hearing!Runs, HearNext

LEMMA HeardNothing ==
    ASSUME NEW v
    PROVE  Heard(v, <<>>) = v
BY HeardIsFold, Hearing!FoldNothing

LEMMA HeardOne ==
    ASSUME NEW v, NEW m
    PROVE  Heard(v, <<m>>) = Hear(v, m)
BY HeardIsFold, Hearing!FoldOne DEF HearNext

(* Lists heard one after the other. *)
LEMMA HeardConcat ==
    ASSUME NEW v, NEW s, NEW t, List(s), List(t)
    PROVE  List(s \o t) /\ Heard(v, s \o t) = Heard(Heard(v, s), t)
<1>1. Hearing!List(s) /\ Hearing!List(t)
  BY DEF List, Hearing!List, ToSet, Hearing!ToSet
<1>2. Hearing!Fold(v, s \o t, 0) = Hearing!Fold(Hearing!Fold(v, s, 0), t, 0)
  BY <1>1, Hearing!FoldConcat
<1>3. Hearing!List(s \o t)
  BY <1>1, Hearing!FoldConcat
<1>4. List(s \o t)
  BY <1>3 DEF List, Hearing!List, ToSet, Hearing!ToSet
<1> QED BY <1>2, <1>4, HeardIsFold

-----------------------------------------------------------------------------
(* Hearing one packet, symbol by symbol. *)

UserSymbols == {"+", "-", "*", "!"}
RealmSymbols == {"{", "}"}
Surprising == UserSymbols \cup RealmSymbols

View == [number : Nat \cup {NoUser}, realm : RealmNumber \cup {NoRealm},
         users : SUBSET Nat, kids : SUBSET RealmNumber,
         surprises : SUBSET Surprising]

LEMMA NewViewTyped == NewView \in View
BY DEF NewView, View

(* w is v with other lists of users and child realms, and with news. *)
Turned(v, w, users, kids, news) ==
    /\ w \in View
    /\ w.number = v.number /\ w.realm = v.realm
    /\ w.users = users /\ w.kids = kids
    /\ w.surprises = v.surprises \cup news

LEMMA HearNumber ==
    ASSUME NEW v \in View, NEW n \in Nat, NEW w, w = Hear(v, Packet("#", n))
    PROVE  /\ w \in View /\ w.number = n
           /\ w.users = v.users /\ w.kids = v.kids /\ w.realm = v.realm
           /\ w.surprises = v.surprises
BY DEF Hear, Surprises, Packet, View

LEMMA HearRealm ==
    ASSUME NEW v \in View, NEW n \in RealmNumber, NEW symbol \in {"^", "&"},
           NEW w, w = Hear(v, Packet(symbol, n))
    PROVE  /\ w \in View /\ w.realm = n /\ w.number = v.number
           /\ w.users = {} /\ w.kids = {}
           /\ w.surprises = v.surprises
BY DEF Hear, Surprises, Packet, View

LEMMA HearPresent ==
    ASSUME NEW v \in View, NEW ids \in SUBSET Nat
    PROVE  Turned(v, Hear(v, UsersPresent(ids)), ids, v.kids, {})
BY DEF Hear, Surprises, UsersPresent, View, Turned

LEMMA HearComing ==
    ASSUME NEW v \in View, NEW n \in Nat, n \notin v.users
    PROVE  Turned(v, Hear(v, Packet("+", n)), v.users \cup {n}, v.kids, {})
BY DEF Hear, Surprises, Packet, View, Turned

LEMMA HearGoing ==
    ASSUME NEW v \in View, NEW n \in Nat, n \in v.users
    PROVE  Turned(v, Hear(v, Packet("-", n)), v.users \ {n}, v.kids, {})
BY DEF Hear, Surprises, Packet, View, Turned

(* A broadcast of somebody the client knows, and what is sent to it alone. *)
LEMMA HearTold ==
    ASSUME NEW v \in View, NEW n \in Nat, NEW symbol \in {"*", "!", "@"},
           symbol = "@" \/ n \in v.users \/ n = v.number
    PROVE  Turned(v, Hear(v, Packet(symbol, n)), v.users, v.kids, {})
BY DEF Hear, Surprises, Packet, View, Turned

LEMMA HearData ==
    ASSUME NEW v \in View, NEW r, NEW k, NEW d
    PROVE  Turned(v, Hear(v, DataPacket(r, k, d)), v.users, v.kids, {})
BY DEF Hear, Surprises, DataPacket, View, Turned

(* A change of the list of child realms, whatever it is called. *)
LEMMA KidsTurned ==
    ASSUME NEW v \in View, NEW news \in SUBSET Surprising, NEW now2 \in SUBSET RealmNumber,
           NEW w, w = [[v EXCEPT !.surprises = @ \cup news] EXCEPT !.kids = now2]
    PROVE  Turned(v, w, v.users, now2, news)
BY DEF Turned, View

RealmNews == SUBSET RealmSymbols

LEMMA NewsApart ==
    ASSUME NEW news \in RealmNews
    PROVE  news \cap UserSymbols = {} /\ news \in SUBSET Surprising
<1>1. \A s \in RealmSymbols : s \notin UserSymbols
  BY Zenon DEF RealmSymbols, UserSymbols
<1> QED BY <1>1, Zenon DEF RealmNews, Surprising

LEMMA NewsAdded ==
    /\ {} \in RealmNews
    /\ \A n1, n2 \in RealmNews : n1 \cup n2 \in RealmNews
BY Zenon DEF RealmNews

Made(r) == Packet("{", r)
Destroyed(r) == Packet("}", r)

LEMMA HearMade ==
    ASSUME NEW v \in View, NEW r \in RealmNumber
    PROVE  \E news \in RealmNews :
              /\ Turned(v, Hear(v, Made(r)), v.users, v.kids \cup {r}, news)
              /\ r \notin v.kids => news = {}
<1>1. PICK m : m = Made(r)
  OBVIOUS
<1>2. m.symbol = "{" /\ m.number = r
  BY <1>1, Zenon DEF Packet, Made
<1>3. /\ m.symbol \notin {"+", "-"} /\ m.symbol \notin {"*", "!"}
      /\ m.symbol \in {"{", "}"} /\ m.symbol \in {"+", "{"}
  BY <1>2, Zenon
<1>4. PICK news : news = Surprises(v, m)
  OBVIOUS
<1>5. r \notin v.kids => news = {}
  BY <1>2, <1>3, <1>4, Zenon DEF Surprises
<1>6. news \in RealmNews
  <2>1. news = {} \/ news = {m.symbol}
    BY <1>4, Zenon DEF Surprises
  <2> QED BY <1>2, <2>1, Zenon DEF RealmNews, RealmSymbols
<1>7. PICK w : w = [v EXCEPT !.surprises = @ \cup news]
  OBVIOUS
<1>8. /\ m.symbol # "#" /\ m.symbol \notin {"^", "&"} /\ m.symbol # "="
      /\ m.symbol # "+" /\ m.symbol # "-"
  BY <1>2, Zenon
<1>9. Hear(v, m) = [w EXCEPT !.kids = @ \cup {r}]
  BY <1>2, <1>4, <1>7, <1>8, Zenon DEF Hear
<1>10. PICK kids : kids = v.kids \cup {r}
  OBVIOUS
<1>11. PICK x : x = Hear(v, m)
  OBVIOUS
<1> HIDE <1>2, <1>3, <1>8
<1>12. kids \in SUBSET RealmNumber /\ news \in SUBSET Surprising
  <2>1. kids \in SUBSET RealmNumber
    BY <1>10 DEF View
  <2> QED BY <1>6, <2>1, NewsApart, Zenon
<1>13. x = [[v EXCEPT !.surprises = @ \cup news] EXCEPT !.kids = kids]
  <2>1. w.kids = v.kids
    BY <1>7 DEF View
  <2>2. [w EXCEPT !.kids = @ \cup {r}] = [w EXCEPT !.kids = w.kids \cup {r}]
    OBVIOUS
  <2> QED BY <1>7, <1>9, <1>10, <1>11, <2>1, <2>2, Zenon
<1>14. Turned(v, x, v.users, kids, news)
  BY <1>12, <1>13, KidsTurned, Zenon
<1> QED BY <1>1, <1>5, <1>6, <1>10, <1>11, <1>14, Zenon

LEMMA HearDestroyed ==
    ASSUME NEW v \in View, NEW r \in RealmNumber
    PROVE  \E news \in RealmNews :
              /\ Turned(v, Hear(v, Destroyed(r)), v.users, v.kids \ {r}, news)
              /\ r \in v.kids => news = {}
<1>1. PICK m : m = Destroyed(r)
  OBVIOUS
<1>2. m.symbol = "}" /\ m.number = r
  BY <1>1, Zenon DEF Packet, Destroyed
<1>3. /\ m.symbol \notin {"+", "-"} /\ m.symbol \notin {"*", "!"}
      /\ m.symbol \in {"{", "}"} /\ m.symbol \notin {"+", "{"}
  BY <1>2, Zenon
<1>4. PICK news : news = Surprises(v, m)
  OBVIOUS
<1>5. r \in v.kids => news = {}
  BY <1>2, <1>3, <1>4, Zenon DEF Surprises
<1>6. news \in RealmNews
  <2>1. news = {} \/ news = {m.symbol}
    BY <1>4, Zenon DEF Surprises
  <2> QED BY <1>2, <2>1, Zenon DEF RealmNews, RealmSymbols
<1>7. PICK w : w = [v EXCEPT !.surprises = @ \cup news]
  OBVIOUS
<1>8. /\ m.symbol # "#" /\ m.symbol \notin {"^", "&"} /\ m.symbol # "="
      /\ m.symbol # "+" /\ m.symbol # "-" /\ m.symbol # "{"
  BY <1>2, Zenon
<1>9. Hear(v, m) = [w EXCEPT !.kids = @ \ {r}]
  BY <1>2, <1>4, <1>7, <1>8, Zenon DEF Hear
<1>10. PICK kids : kids = v.kids \ {r}
  OBVIOUS
<1>11. PICK x : x = Hear(v, m)
  OBVIOUS
<1> HIDE <1>2, <1>3, <1>8
<1>12. kids \in SUBSET RealmNumber /\ news \in SUBSET Surprising
  <2>1. kids \in SUBSET RealmNumber
    BY <1>10 DEF View
  <2> QED BY <1>6, <2>1, NewsApart, Zenon
<1>13. x = [[v EXCEPT !.surprises = @ \cup news] EXCEPT !.kids = kids]
  <2>1. w.kids = v.kids
    BY <1>7 DEF View
  <2>2. [w EXCEPT !.kids = @ \ {r}] = [w EXCEPT !.kids = w.kids \ {r}]
    OBVIOUS
  <2> QED BY <1>7, <1>9, <1>10, <1>11, <2>1, <2>2, Zenon
<1>14. Turned(v, x, v.users, kids, news)
  BY <1>12, <1>13, KidsTurned, Zenon
<1> QED BY <1>1, <1>5, <1>6, <1>10, <1>11, <1>14, Zenon

LEMMA TurnedTwice ==
    ASSUME NEW v, NEW w, NEW x, NEW users, NEW kids, NEW news,
           NEW users2, NEW kids2, NEW news2,
           Turned(v, w, users, kids, news), Turned(w, x, users2, kids2, news2)
    PROVE  Turned(v, x, users2, kids2, news \cup news2)
BY DEF Turned

(***************************************************************************)
(* Hearing of several child realms.  None is a surprise if the list names  *)
(* each once and the client does not know it already.                      *)
(***************************************************************************)
MadeList(k) == [i \in DOMAIN k |-> Made(k[i])]

LEMMA HeardMade ==
    ASSUME NEW v \in View, NEW k \in Seq(RealmNumber)
    PROVE  \E news \in RealmNews :
              /\ Turned(v, Heard(v, MadeList(k)), v.users, v.kids \cup ToSet(k), news)
              /\ IsInjective(k) /\ ToSet(k) \cap v.kids = {} => news = {}
<1>1. PICK n \in Nat : n = Len(k) /\ DOMAIN k = 1 .. n
  OBVIOUS
<1>2. PICK ms : ms = MadeList(k)
  OBVIOUS
<1>3. PICK P : P = {Made(r) : r \in RealmNumber}
  OBVIOUS
<1>4. /\ ms \in Seq(P) /\ Len(ms) = n
      /\ \A i \in 1 .. n : ms[i] = Made(k[i]) /\ k[i] \in RealmNumber
  <2>1. \A i \in 1 .. n : ms[i] = Made(k[i]) /\ k[i] \in RealmNumber
    BY <1>1, <1>2 DEF MadeList
  <2>2. \A i \in 1 .. n : ms[i] \in P
    BY <1>3, <2>1, Zenon
  <2>3. ms = [i \in 1 .. n |-> ms[i]]
    BY <1>1, <1>2 DEF MadeList
  <2>4. ms \in Seq(P) /\ Len(ms) = n
    BY <2>2, <2>3
  <2> QED BY <2>1, <2>4
<1>5. PICK h : Runs(h, v, ms) /\ Heard(v, ms) = h[Len(ms)]
  BY <1>4, FoldRuns
<1> DEFINE Told(i) == {k[j] : j \in 1 .. i}
           New == IsInjective(k) /\ ToSet(k) \cap v.kids = {}
           T == {i \in 0 .. n : \E news \in RealmNews :
                   /\ Turned(v, h[i], v.users, v.kids \cup Told(i), news)
                   /\ New => news = {}}
<1>6. 0 \in T
  <2>1. v.kids \cup Told(0) = v.kids
    OBVIOUS
  <2>2. Turned(v, h[0], v.users, v.kids \cup Told(0), {})
    BY <1>5, <2>1 DEF Runs, Turned
  <2> HIDE DEF New, Told
  <2>3. 0 \in 0 .. n
    OBVIOUS
  <2> QED BY <2>2, <2>3, NewsAdded, Zenon
<1>7. ASSUME NEW i \in 0 .. n - 1, i \in T
      PROVE  i + 1 \in T
  <2>1. PICK news \in RealmNews :
           /\ Turned(v, h[i], v.users, v.kids \cup Told(i), news)
           /\ New => news = {}
    BY <1>7
  <2> HIDE DEF T, New
  <2>2. i + 1 \in 1 .. n /\ i + 1 \in 0 .. n /\ (i + 1) - 1 = i
    OBVIOUS
  <2>3. h[i + 1] = Hear(h[i], Made(k[i + 1])) /\ k[i + 1] \in RealmNumber
    BY <1>4, <1>5, <2>2 DEF Runs
  <2>4. v.kids \cup Told(i + 1) = (v.kids \cup Told(i)) \cup {k[i + 1]}
    <3>1. 1 .. i + 1 = (1 .. i) \cup {i + 1}
      OBVIOUS
    <3> QED BY <3>1, Zenon
  <2>5. PICK had : had = v.kids \cup Told(i)
    OBVIOUS
  <2>6. /\ h[i] \in View /\ h[i].users = v.users
        /\ h[i].kids = had
    BY <2>1, <2>5 DEF Turned
  <2>7. PICK more \in RealmNews :
           /\ Turned(h[i], h[i + 1], v.users, had \cup {k[i + 1]}, more)
           /\ k[i + 1] \notin had => more = {}
    <3> HIDE DEF Told
    <3> QED BY <2>3, <2>6, HearMade, Zenon
  <2>8. New => k[i + 1] \notin had
    <3>1. k[i + 1] \in ToSet(k)
      BY <1>1, <2>2 DEF ToSet
    <3>2. \A j \in 1 .. i : j \in 1 .. n /\ j # i + 1
      OBVIOUS
    <3>3. New => \A j \in 1 .. i : k[j] # k[i + 1]
      BY <1>1, <2>2, <3>2 DEF IsInjective, New
    <3> QED BY <2>5, <3>1, <3>3 DEF New
  <2> HIDE DEF Told
  <2>9. Turned(v, h[i + 1], v.users, v.kids \cup Told(i + 1), news \cup more)
    BY <2>1, <2>4, <2>5, <2>7, TurnedTwice, Zenon
  <2>10. news \cup more \in RealmNews
    BY NewsAdded, Zenon
  <2>11. New => news \cup more = {}
    BY <2>1, <2>7, <2>8
  <2> QED BY <2>2, <2>9, <2>10, <2>11, Zenon DEF T
<1> HIDE DEF T
<1>8. 0 .. n \subseteq T
  BY <1>6, <1>7, UpTo
<1>9. n \in T
  BY <1>8
<1>10. Told(n) = ToSet(k)
  BY <1>1 DEF ToSet
<1> HIDE DEF Told
<1>11. PICK news \in RealmNews :
          /\ Turned(v, h[n], v.users, v.kids \cup Told(n), news)
          /\ New => news = {}
  BY <1>9, Zenon DEF T
<1> QED BY <1>2, <1>4, <1>5, <1>10, <1>11, Zenon DEF New

(* Hearing that several are gone. *)
DestroyedList(k) == [i \in DOMAIN k |-> Destroyed(k[i])]

LEMMA HeardDestroyed ==
    ASSUME NEW v \in View, NEW k \in Seq(RealmNumber)
    PROVE  \E news \in RealmNews :
              /\ Turned(v, Heard(v, DestroyedList(k)), v.users, v.kids \ ToSet(k), news)
              /\ IsInjective(k) /\ ToSet(k) \subseteq v.kids => news = {}
<1>1. PICK n \in Nat : n = Len(k) /\ DOMAIN k = 1 .. n
  OBVIOUS
<1>2. PICK ms : ms = DestroyedList(k)
  OBVIOUS
<1>3. PICK P : P = {Destroyed(r) : r \in RealmNumber}
  OBVIOUS
<1>4. /\ ms \in Seq(P) /\ Len(ms) = n
      /\ \A i \in 1 .. n : ms[i] = Destroyed(k[i]) /\ k[i] \in RealmNumber
  <2>1. \A i \in 1 .. n : ms[i] = Destroyed(k[i]) /\ k[i] \in RealmNumber
    BY <1>1, <1>2 DEF DestroyedList
  <2>2. \A i \in 1 .. n : ms[i] \in P
    BY <1>3, <2>1, Zenon
  <2>3. ms = [i \in 1 .. n |-> ms[i]]
    BY <1>1, <1>2 DEF DestroyedList
  <2>4. ms \in Seq(P) /\ Len(ms) = n
    BY <2>2, <2>3
  <2> QED BY <2>1, <2>4
<1>5. PICK h : Runs(h, v, ms) /\ Heard(v, ms) = h[Len(ms)]
  BY <1>4, FoldRuns
<1> DEFINE Told(i) == {k[j] : j \in 1 .. i}
           New == IsInjective(k) /\ ToSet(k) \subseteq v.kids
           T == {i \in 0 .. n : \E news \in RealmNews :
                   /\ Turned(v, h[i], v.users, v.kids \ Told(i), news)
                   /\ New => news = {}}
<1>6. 0 \in T
  <2>1. v.kids \ Told(0) = v.kids
    OBVIOUS
  <2>2. Turned(v, h[0], v.users, v.kids \ Told(0), {})
    BY <1>5, <2>1 DEF Runs, Turned
  <2> HIDE DEF New, Told
  <2>3. 0 \in 0 .. n
    OBVIOUS
  <2> QED BY <2>2, <2>3, NewsAdded, Zenon
<1>7. ASSUME NEW i \in 0 .. n - 1, i \in T
      PROVE  i + 1 \in T
  <2>1. PICK news \in RealmNews :
           /\ Turned(v, h[i], v.users, v.kids \ Told(i), news)
           /\ New => news = {}
    BY <1>7
  <2> HIDE DEF T, New
  <2>2. i + 1 \in 1 .. n /\ i + 1 \in 0 .. n /\ (i + 1) - 1 = i
    OBVIOUS
  <2>3. h[i + 1] = Hear(h[i], Destroyed(k[i + 1])) /\ k[i + 1] \in RealmNumber
    BY <1>4, <1>5, <2>2 DEF Runs
  <2>4. v.kids \ Told(i + 1) = (v.kids \ Told(i)) \ {k[i + 1]}
    <3>1. 1 .. i + 1 = (1 .. i) \cup {i + 1}
      OBVIOUS
    <3> QED BY <3>1, Zenon
  <2>5. PICK had : had = v.kids \ Told(i)
    OBVIOUS
  <2>6. /\ h[i] \in View /\ h[i].users = v.users
        /\ h[i].kids = had
    BY <2>1, <2>5 DEF Turned
  <2>7. PICK more \in RealmNews :
           /\ Turned(h[i], h[i + 1], v.users, had \ {k[i + 1]}, more)
           /\ k[i + 1] \in had => more = {}
    <3> HIDE DEF Told
    <3> QED BY <2>3, <2>6, HearDestroyed, Zenon
  <2>8. New => k[i + 1] \in had
    <3>1. k[i + 1] \in ToSet(k)
      BY <1>1, <2>2 DEF ToSet
    <3>2. \A j \in 1 .. i : j \in 1 .. n /\ j # i + 1
      OBVIOUS
    <3>3. New => \A j \in 1 .. i : k[j] # k[i + 1]
      BY <1>1, <2>2, <3>2 DEF IsInjective, New
    <3> QED BY <2>5, <3>1, <3>3 DEF New
  <2> HIDE DEF Told
  <2>9. Turned(v, h[i + 1], v.users, v.kids \ Told(i + 1), news \cup more)
    BY <2>1, <2>4, <2>5, <2>7, TurnedTwice, Zenon
  <2>10. news \cup more \in RealmNews
    BY NewsAdded, Zenon
  <2>11. New => news \cup more = {}
    BY <2>1, <2>7, <2>8
  <2> QED BY <2>2, <2>9, <2>10, <2>11, Zenon DEF T
<1> HIDE DEF T
<1>8. 0 .. n \subseteq T
  BY <1>6, <1>7, UpTo
<1>9. n \in T
  BY <1>8
<1>10. Told(n) = ToSet(k)
  BY <1>1 DEF ToSet
<1> HIDE DEF Told
<1>11. PICK news \in RealmNews :
          /\ Turned(v, h[n], v.users, v.kids \ Told(n), news)
          /\ New => news = {}
  BY <1>9, Zenon DEF T
<1> QED BY <1>2, <1>4, <1>5, <1>10, <1>11, Zenon DEF New

LEMMA ListsOfRealms ==
    ASSUME NEW k \in Seq(RealmNumber)
    PROVE  List(MadeList(k)) /\ List(DestroyedList(k))
<1>1. PICK n \in Nat : n = Len(k) /\ DOMAIN k = 1 .. n
  OBVIOUS
<1>2. ASSUME NEW s, s = MadeList(k) \/ s = DestroyedList(k)
      PROVE  List(s)
  <2>1. DOMAIN s = 1 .. n /\ s = [i \in 1 .. n |-> s[i]]
    BY <1>1, <1>2 DEF MadeList, DestroyedList
  <2>2. \A i \in 1 .. n : s[i] \in ToSet(s)
    BY <2>1 DEF ToSet
  <2> QED BY <2>1, <2>2 DEF List
<1> QED BY <1>2

(* The list of a set of realms, in whatever order. *)
LEMMA RealmsWrittenOut ==
    ASSUME NEW S \in SUBSET RealmNumber
    PROVE  /\ SetToSeq(S) \in Seq(RealmNumber)
           /\ IsInjective(SetToSeq(S))
           /\ ToSet(SetToSeq(S)) = S
<1>1. IsFiniteSet(RealmNumber)
  BY RelayAssumption, FS_Interval DEF RealmNumber
<1>2. IsFiniteSet(S)
  BY <1>1, FS_Subset
<1>3. /\ SetToSeq(S) \in Seq(S)
      /\ IsInjective(SetToSeq(S))
      /\ ToSet(SetToSeq(S)) = S
  BY <1>2, SetToSeqOfFinite
<1> QED BY <1>3, SeqMonotonic

-----------------------------------------------------------------------------
(***************************************************************************)
(* What a client should know: who it is, where it is and who is with it,   *)
(* and the child realms of the realm it is in.                             *)
(***************************************************************************)
With(x, place) == {userID[y] : y \in {z \in EndPoint \ {x} : place[z] = place[x]}}

KnowsUsers(x, v) ==
    /\ v.number = userID[x]
    /\ userRealm[x] # NoRealm => v.realm = userRealm[x] /\ v.users = With(x, userRealm)

KnowsKids(x, v) ==
    userRealm[x] # NoRealm => v.kids = realmChildren[userRealm[x]]

(* Where everybody is once e has moved to target. *)
Placed(e, target) == [userRealm EXCEPT ![e] = target]

LEMMA PlacedMembers ==
    ASSUME TypeOK, Membership, NEW e \in EndPoint,
           NEW target \in RealmNumber \cup {NoRealm}, userRealm[e] # target,
           NEW r \in RealmNumber \cup {NoRealm}, NEW x \in EndPoint
    PROVE  x \in MembersAfter(e, target, r)
              <=> r # NoRealm /\ Placed(e, target)[x] = r
<1>1. userRealm \in [EndPoint -> realms \cup {NoRealm}]
  BY DEF TypeOK
<1>2. Placed(e, target)[x] = IF x = e THEN target ELSE userRealm[x]
  BY <1>1 DEF Placed
<1>3. CASE r = NoRealm
  BY <1>3 DEF MembersAfter
<1>4. CASE r # NoRealm
  <2>1. r \in RealmNumber /\ MembersAfter(e, target, r) = ToSet(UsersAfter(e, target)[r])
    BY <1>4 DEF MembersAfter
  <2>2. x \in ToSet(UsersAfter(e, target)[r]) <=> IF x = e THEN r = target ELSE userRealm[x] = r
    BY <2>1, UsersMoved
  <2> QED BY <1>2, <1>4, <2>1, <2>2
<1> QED BY <1>3, <1>4

(* Who is with whom before and after the move. *)
LEMMA Company ==
    ASSUME IInv, NEW e \in Connected, NEW target \in RealmNumber \cup {NoRealm},
           userRealm[e] # target, NEW x \in Connected
    PROVE  LET at == Placed(e, target)
               id == userID[e]
           IN  /\ id \in Nat
               /\ With(x, userRealm) \in SUBSET Nat \/ userRealm[x] = NoRealm
               /\ at[x] = IF x = e THEN target ELSE userRealm[x]
               /\ x # e /\ userRealm[x] # NoRealm /\ userRealm[x] = userRealm[e] =>
                     id \in With(x, userRealm) /\ With(x, at) = With(x, userRealm) \ {id}
               /\ x # e /\ userRealm[x] # NoRealm /\ userRealm[x] = target =>
                     id \notin With(x, userRealm) /\ With(x, at) = With(x, userRealm) \cup {id}
               /\ x # e /\ userRealm[x] # userRealm[e] /\ userRealm[x] # target =>
                     With(x, at) = With(x, userRealm)
<1> DEFINE at == Placed(e, target)
<1>1. /\ userRealm \in [EndPoint -> realms \cup {NoRealm}]
      /\ userID \in [EndPoint -> Nat \cup {NoUser}]
      /\ \A y \in EndPoint : userRealm[y] # NoRealm => y \in Connected
      /\ \A y, z \in Connected : userID[y] = userID[z] => y = z
      /\ Connected \subseteq EndPoint
      /\ \A y \in Connected : userID[y] \in Nat
  BY DEF IInv, TypeOK, Membership, UserNumbers, Connected
<1>2. \A y \in EndPoint : at[y] = IF y = e THEN target ELSE userRealm[y]
  BY <1>1 DEF Placed
<1>3. PICK id : id = userID[e]
  OBVIOUS
<1>4. PICK p : p = at
  OBVIOUS
<1> HIDE DEF at
<1>5. e \in EndPoint /\ x \in EndPoint
  BY <1>1
<1>6. userRealm[x] # NoRealm => With(x, userRealm) \in SUBSET Nat
  BY <1>1, <1>5 DEF With
<1>7. ASSUME x # e, userRealm[x] # NoRealm, userRealm[x] = userRealm[e]
      PROVE  id \in With(x, userRealm) /\ With(x, p) = With(x, userRealm) \ {id}
  <2>1. id \in With(x, userRealm)
    BY <1>3, <1>5, <1>7 DEF With
  <2>2. With(x, p) \subseteq With(x, userRealm) \ {id}
    <3> SUFFICES ASSUME NEW y \in EndPoint \ {x}, p[y] = p[x]
                 PROVE  userID[y] \in With(x, userRealm) \ {id}
      BY DEF With
    <3>1. y # e /\ userRealm[y] = userRealm[x]
      BY <1>2, <1>4, <1>5, <1>7
    <3>2. y \in Connected /\ userID[y] # id
      BY <1>1, <1>3, <1>7, <3>1
    <3> QED BY <3>1, <3>2 DEF With
  <2>3. With(x, userRealm) \ {id} \subseteq With(x, p)
    <3> SUFFICES ASSUME NEW y \in EndPoint \ {x}, userRealm[y] = userRealm[x], userID[y] # id
                 PROVE  userID[y] \in With(x, p)
      BY DEF With
    <3>1. y # e /\ p[y] = p[x]
      BY <1>2, <1>3, <1>4, <1>5, <1>7
    <3> QED BY <3>1 DEF With
  <2> QED BY <2>1, <2>2, <2>3
<1>8. ASSUME x # e, userRealm[x] # NoRealm, userRealm[x] = target
      PROVE  id \notin With(x, userRealm) /\ With(x, p) = With(x, userRealm) \cup {id}
  <2>1. id \notin With(x, userRealm)
    <3> SUFFICES ASSUME NEW y \in EndPoint \ {x}, userRealm[y] = userRealm[x]
                 PROVE  userID[y] # id
      BY DEF With
    <3> QED BY <1>1, <1>3, <1>8
  <2>2. With(x, p) \subseteq With(x, userRealm) \cup {id}
    <3> SUFFICES ASSUME NEW y \in EndPoint \ {x}, p[y] = p[x], y # e
                 PROVE  userID[y] \in With(x, userRealm)
      BY <1>3 DEF With
    <3> QED BY <1>2, <1>4, <1>5, <1>8 DEF With
  <2>3. With(x, userRealm) \cup {id} \subseteq With(x, p)
    <3>1. id \in With(x, p)
      BY <1>2, <1>3, <1>4, <1>5, <1>8 DEF With
    <3>2. ASSUME NEW y \in EndPoint \ {x}, userRealm[y] = userRealm[x]
          PROVE  userID[y] \in With(x, p)
      BY <1>2, <1>4, <1>5, <1>8, <3>2 DEF With
    <3> QED BY <3>1, <3>2 DEF With
  <2> QED BY <2>1, <2>2, <2>3
<1>9. ASSUME x # e, userRealm[x] # userRealm[e], userRealm[x] # target
      PROVE  With(x, p) = With(x, userRealm)
  <2>1. \A y \in EndPoint \ {x} : p[y] = p[x] <=> userRealm[y] = userRealm[x]
    BY <1>2, <1>4, <1>5, <1>9
  <2> QED BY <2>1 DEF With
<1> QED BY <1>1, <1>2, <1>3, <1>4, <1>5, <1>6, <1>7, <1>8, <1>9 DEF at

-----------------------------------------------------------------------------
(***************************************************************************)
(* The four parts of what a move writes to x, each as x hears it.          *)
(***************************************************************************)
LEMMA HeardNoList ==
    ASSUME NEW v \in View
    PROVE  List(<<>>) /\ Turned(v, Heard(v, <<>>), v.users, v.kids, {})
<1>1. Heard(v, <<>>) = v
  BY HeardNothing
<1>2. v.surprises = v.surprises \cup {}
  OBVIOUS
<1> QED BY <1>1, SmallLists, <1>2, Zenon DEF Turned

(* "-" to those the user leaves behind. *)
LEMMA LeaveHeard ==
    ASSUME IInv, NEW e \in Connected, NEW target \in RealmNumber \cup {NoRealm},
           userRealm[e] # target, NEW x \in Connected, NEW v \in View,
           NEW told, told = LeaveNotices(e, target, x)
    PROVE  /\ List(told)
           /\ x # e /\ userRealm[x] # NoRealm /\ userRealm[x] = userRealm[e]
                /\ userID[e] \in v.users =>
                 Turned(v, Heard(v, told), v.users \ {userID[e]}, v.kids, {})
           /\ ~(x # e /\ userRealm[x] # NoRealm /\ userRealm[x] = userRealm[e]) =>
                 Turned(v, Heard(v, told), v.users, v.kids, {})
<1>1. PICK id : id = userID[e]
  OBVIOUS
<1>2. /\ id \in Nat
      /\ Placed(e, target)[x] = IF x = e THEN target ELSE userRealm[x]
      /\ TypeOK /\ Membership
      /\ e \in EndPoint /\ x \in EndPoint /\ userRealm[e] \in RealmNumber \cup {NoRealm}
  <2>1. id \in Nat /\ Placed(e, target)[x] = IF x = e THEN target ELSE userRealm[x]
    BY <1>1, Company
  <2> QED BY <2>1 DEF IInv, TypeOK, Connected
<1>3. x \in MembersAfter(e, target, userRealm[e])
        <=> userRealm[e] # NoRealm /\ Placed(e, target)[x] = userRealm[e]
  BY <1>2, PlacedMembers
<1>4. CASE x # e /\ userRealm[x] # NoRealm /\ userRealm[x] = userRealm[e]
  <2>1. x \in MembersAfter(e, target, userRealm[e])
    BY <1>2, <1>3, <1>4
  <2>2. told = <<Packet("-", id)>>
    BY <1>1, <2>1, Zenon DEF LeaveNotices
  <2>3. Heard(v, told) = Hear(v, Packet("-", id))
    BY <2>2, HeardOne, Zenon
  <2>4. id \in v.users => Turned(v, Heard(v, told), v.users \ {id}, v.kids, {})
    BY <1>2, <2>3, HearGoing, Zenon
  <2> QED BY <1>1, <1>4, <2>2, <2>4, SmallLists, Zenon
<1>5. CASE ~(x # e /\ userRealm[x] # NoRealm /\ userRealm[x] = userRealm[e])
  <2>1. x \notin MembersAfter(e, target, userRealm[e])
    BY <1>2, <1>3, <1>5
  <2>2. told = <<>>
    BY <2>1, Zenon DEF LeaveNotices
  <2> QED BY <1>5, <2>2, HeardNoList, Zenon
<1> QED BY <1>4, <1>5

(* "{" to those the creator of a child realm leaves behind. *)
Fresh(e, target, child, x) ==
    {r \in {target} : /\ AsChild(e, child) /\ target # NoRealm
                      /\ Placed(e, target)[x] = userRealm[e]}

LEMMA NewChildHeard ==
    ASSUME IInv, NEW e \in Connected, NEW target \in RealmNumber \cup {NoRealm},
           userRealm[e] # target, NEW child \in BOOLEAN,
           NEW x \in Connected, NEW v \in View,
           NEW told, told = NewChildNotices(e, target, child, x),
           NEW made, made = Fresh(e, target, child, x)
    PROVE  /\ List(told)
           /\ \E news \in RealmNews :
                 /\ Turned(v, Heard(v, told), v.users, v.kids \cup made, news)
                 /\ made \cap v.kids = {} => news = {}
<1> DEFINE Told == /\ AsChild(e, child) /\ target # NoRealm
                   /\ Placed(e, target)[x] = userRealm[e]
<1>1. /\ TypeOK /\ Membership
      /\ e \in EndPoint /\ x \in EndPoint /\ userRealm[e] \in RealmNumber \cup {NoRealm}
  BY DEF IInv, TypeOK, Connected
<1>2. x \in MembersAfter(e, target, userRealm[e])
        <=> userRealm[e] # NoRealm /\ Placed(e, target)[x] = userRealm[e]
  BY <1>1, PlacedMembers
<1>3. CASE Told
  <2>1. told = <<Made(target)>>
    BY <1>2, <1>3, Zenon DEF NewChildNotices, AsChild, Made
  <2>2. Heard(v, told) = Hear(v, Made(target)) /\ List(told)
    BY <2>1, HeardOne, SmallLists, Zenon
  <2>3. target \in RealmNumber
    BY <1>3
  <2>4. \E news \in RealmNews :
           /\ Turned(v, Heard(v, told), v.users, v.kids \cup {target}, news)
           /\ target \notin v.kids => news = {}
    BY <2>2, <2>3, HearMade, Zenon
  <2>5. made = {target} /\ (made \cap v.kids = {} => target \notin v.kids)
    BY <1>3 DEF Fresh
  <2> QED BY <2>2, <2>4, <2>5, Zenon
<1>4. CASE ~Told
  <2>1. told = <<>>
    BY <1>2, <1>4, Zenon DEF NewChildNotices, AsChild
  <2>2. List(told) /\ Turned(v, Heard(v, told), v.users, v.kids, {})
    BY <2>1, HeardNoList, Zenon
  <2>3. v.kids \cup made = v.kids
    BY <1>4 DEF Fresh
  <2> QED BY <2>2, <2>3, NewsAdded, Zenon
<1> QED BY <1>3, <1>4

(* "}" to the members of the parent of each realm destroyed. *)
Gone(e, target, child, D, x) ==
    {r \in D : /\ Placed(e, target)[x] # NoRealm
               /\ ParentAfter(e, target, child)[r] = Placed(e, target)[x]}

LEMMA DestroyHeard ==
    ASSUME IInv, NEW e \in Connected, NEW target \in RealmNumber \cup {NoRealm},
           userRealm[e] # target, NEW child \in BOOLEAN,
           NEW D \in SUBSET RealmsAfter(target),
           NEW x \in Connected, NEW v \in View,
           NEW told, told = DestroyNotices(e, target, child, D, x),
           NEW gone, gone = Gone(e, target, child, D, x)
    PROVE  /\ List(told)
           /\ \E news \in RealmNews :
                 /\ Turned(v, Heard(v, told), v.users, v.kids \ gone, news)
                 /\ gone \subseteq v.kids => news = {}
<1>1. /\ TypeOK /\ Membership /\ RealmTree
      /\ e \in EndPoint /\ x \in EndPoint
      /\ D \subseteq RealmNumber /\ RealmsAfter(target) \subseteq RealmNumber
  BY DEF IInv, TypeOK, Connected, RealmsAfter, Creates
<1>2. ParentAfter(e, target, child) \in [RealmNumber -> RealmsAfter(target) \cup {NoRealm}]
  BY <1>1, LinksAfterCreation
<1>3. \A r \in D : x \in MembersAfter(e, target, ParentAfter(e, target, child)[r])
                      <=> /\ Placed(e, target)[x] # NoRealm
                          /\ ParentAfter(e, target, child)[r] = Placed(e, target)[x]
  <2> SUFFICES ASSUME NEW r \in D
               PROVE  x \in MembersAfter(e, target, ParentAfter(e, target, child)[r])
                      <=> /\ Placed(e, target)[x] # NoRealm
                          /\ ParentAfter(e, target, child)[r] = Placed(e, target)[x]
    OBVIOUS
  <2>1. PICK p \in RealmNumber \cup {NoRealm} : p = ParentAfter(e, target, child)[r]
    BY <1>1, <1>2
  <2>2. x \in MembersAfter(e, target, p) <=> p # NoRealm /\ Placed(e, target)[x] = p
    BY <1>1, PlacedMembers
  <2> QED BY <2>1, <2>2, Zenon
<1>4. gone = {r \in D : x \in MembersAfter(e, target, ParentAfter(e, target, child)[r])}
  BY <1>3, Zenon DEF Gone
<1>5. PICK list : list = SetToSeq(gone)
  OBVIOUS
<1>6. told = DestroyedList(list)
  BY <1>4, <1>5, Zenon DEF DestroyNotices, DestroyedList, Destroyed
<1>7. gone \in SUBSET RealmNumber
  BY <1>1 DEF Gone
<1>8. list \in Seq(RealmNumber) /\ IsInjective(list) /\ ToSet(list) = gone
  BY <1>5, <1>7, RealmsWrittenOut
<1> QED BY <1>6, <1>8, HeardDestroyed, ListsOfRealms, Zenon

(* What the user itself is told of the realm it joins, and "+" to those    *)
(* it finds there: what that makes of v.                                   *)
JoinTells(e, target, child, x, v, w) ==
    /\ x = e /\ target # NoRealm =>
          /\ w \in View
          /\ w.number = v.number
          /\ w.realm = target
          /\ w.users = With(e, Placed(e, target))
          /\ w.kids = ChildrenAfter(e, target, child)[target]
          /\ w.surprises = v.surprises
    /\ x # e /\ target # NoRealm /\ userRealm[x] = target
         /\ userID[e] \notin v.users =>
          Turned(v, w, v.users \cup {userID[e]}, v.kids, {})
    /\ target = NoRealm \/ (x # e /\ userRealm[x] # target) =>
          Turned(v, w, v.users, v.kids, {})

LEMMA JoinHeard ==
    ASSUME IInv, NEW e \in Connected, NEW target \in RealmNumber \cup {NoRealm},
           userRealm[e] # target, NEW child \in BOOLEAN,
           NEW x \in Connected, NEW v \in View,
           NEW told, told = JoinNotices(e, target, child, x)
    PROVE  List(told) /\ JoinTells(e, target, child, x, v, Heard(v, told))
<1> DEFINE others == MembersAfter(e, target, target) \ {e}
<1>1. PICK id : id = userID[e]
  OBVIOUS
<1>2. /\ id \in Nat
      /\ Placed(e, target)[x] = IF x = e THEN target ELSE userRealm[x]
      /\ Placed(e, target)[e] = target
      /\ TypeOK /\ Membership /\ RealmTree
      /\ e \in EndPoint /\ x \in EndPoint
  <2>1. id \in Nat /\ Placed(e, target)[x] = IF x = e THEN target ELSE userRealm[x]
    BY <1>1, Company
  <2>2. Placed(e, target)[e] = target
    BY Company
  <2> QED BY <2>1, <2>2 DEF IInv, Connected
<1>3. \A y \in EndPoint : y \in others <=> y # e /\ target # NoRealm /\ Placed(e, target)[y] = target
  <2> SUFFICES ASSUME NEW y \in EndPoint
               PROVE  y \in MembersAfter(e, target, target)
                         <=> target # NoRealm /\ Placed(e, target)[y] = target
    OBVIOUS
  <2> QED BY <1>2, PlacedMembers
<1>4. CASE target = NoRealm
  <2>1. told = <<>>
    BY <1>4, Zenon DEF JoinNotices
  <2>2. List(told) /\ Turned(v, Heard(v, told), v.users, v.kids, {})
    BY <2>1, HeardNoList, Zenon
  <2> QED BY <1>4, <2>2, Zenon DEF JoinTells
<1>5. CASE target # NoRealm /\ x # e /\ userRealm[x] = target
  <2>1. x \in others
    BY <1>2, <1>3, <1>5
  <2>2. told = <<Packet("+", id)>>
    BY <1>1, <1>5, <2>1, Zenon DEF JoinNotices
  <2>3. Heard(v, told) = Hear(v, Packet("+", id)) /\ List(told)
    BY <2>2, HeardOne, SmallLists, Zenon
  <2>4. id \notin v.users => Turned(v, Heard(v, told), v.users \cup {id}, v.kids, {})
    BY <1>2, <2>3, HearComing, Zenon
  <2> QED BY <1>1, <1>5, <2>3, <2>4, Zenon DEF JoinTells
<1>6. CASE target # NoRealm /\ x # e /\ userRealm[x] # target
  <2>1. x \notin others
    BY <1>2, <1>3, <1>6
  <2>2. told = <<>>
    BY <1>6, <2>1, Zenon DEF JoinNotices
  <2>3. List(told) /\ Turned(v, Heard(v, told), v.users, v.kids, {})
    BY <2>2, HeardNoList, Zenon
  <2> QED BY <1>6, <2>3, Zenon DEF JoinTells
<1>7. CASE target # NoRealm /\ x = e
  <2>1. PICK kids, symbol, ids : /\ kids = ChildrenAfter(e, target, child)[target]
                                 /\ symbol = IF AsChild(e, child) THEN "&" ELSE "^"
                                 /\ ids = {userID[y] : y \in others}
    OBVIOUS
  <2>2. PICK list : list = SetToSeq(kids)
    OBVIOUS
  <2>3. told = <<Packet(symbol, target)>> \o MadeList(list) \o <<UsersPresent(ids)>>
    BY <1>7, <2>1, <2>2, Zenon DEF JoinNotices, ChildList, MadeList, Made
  <2>4. kids \in SUBSET RealmNumber /\ target \in RealmNumber
    <3>1. ChildrenAfter(e, target, child) \in [RealmNumber -> SUBSET RealmsAfter(target)]
      BY <1>2, LinksAfterCreation
    <3>2. target \in RealmNumber /\ RealmsAfter(target) \subseteq RealmNumber
      BY <1>2, <1>7 DEF TypeOK, RealmsAfter, Creates
    <3> QED BY <2>1, <3>1, <3>2
  <2>5. list \in Seq(RealmNumber) /\ IsInjective(list) /\ ToSet(list) = kids
    BY <2>2, <2>4, RealmsWrittenOut
  <2>6. symbol \in {"^", "&"}
    BY <2>1, Zenon
  <2>7. ids = With(e, Placed(e, target))
    <3>1. others \subseteq EndPoint
      <4>1. target \in RealmNumber /\ MembersAfter(e, target, target) = ToSet(UsersAfter(e, target)[target])
        BY <1>7, <2>4 DEF MembersAfter
      <4>2. UsersAfter(e, target)[target] \in Seq(EndPoint)
        BY <1>2, <4>1, UsersMoved
      <4> QED BY <4>1, <4>2, ToSetType
    <3>2. others = {z \in EndPoint \ {e} : Placed(e, target)[z] = Placed(e, target)[e]}
      <4> HIDE DEF others
      <4>1. e \notin others
        BY DEF others
      <4> QED BY <1>2, <1>3, <1>7, <3>1, <4>1
    <3> HIDE DEF others
    <3> QED BY <2>1, <3>2, Zenon DEF With
  <2>8. ids \in SUBSET Nat
    <3>1. \A y \in EndPoint : Placed(e, target)[y] = IF y = e THEN target ELSE userRealm[y]
      BY <1>2 DEF Placed, TypeOK
    <3>2. \A y \in EndPoint \ {e} : Placed(e, target)[y] = target => userID[y] \in Nat
      BY <1>2, <1>7, <3>1 DEF TypeOK, Membership, Connected
    <3> QED BY <1>2, <2>7, <3>2 DEF With
  <2>9. PICK a : a = Heard(v, <<Packet(symbol, target)>>)
    OBVIOUS
  <2>10. /\ a \in View /\ a.realm = target /\ a.number = v.number
         /\ a.users = {} /\ a.kids = {} /\ a.surprises = v.surprises
    <3>1. a = Hear(v, Packet(symbol, target))
      BY <2>9, HeardOne, Zenon
    <3> QED BY <3>1, <2>4, <2>6, HearRealm
  <2>11. PICK b : b = Heard(a, MadeList(list))
    OBVIOUS
  <2>12. Turned(a, b, {}, kids, {})
    <3>1. ToSet(list) \cap a.kids = {} /\ a.kids \cup ToSet(list) = kids
      BY <2>5, <2>10
    <3>2. \E news \in RealmNews : Turned(a, b, a.users, kids, news) /\ news = {}
      BY <2>5, <2>10, <2>11, <3>1, HeardMade, Zenon
    <3> QED BY <2>10, <3>2, Zenon
  <2>13. PICK c : c = Heard(b, <<UsersPresent(ids)>>)
    OBVIOUS
  <2>14. Turned(b, c, ids, kids, {})
    <3>1. b \in View /\ b.kids = kids
      BY <2>12, Zenon DEF Turned
    <3>2. c = Hear(b, UsersPresent(ids))
      BY <2>13, HeardOne, Zenon
    <3>3. Turned(b, Hear(b, UsersPresent(ids)), ids, b.kids, {})
      BY <2>8, <3>1, HearPresent, Zenon
    <3> QED BY <3>1, <3>2, <3>3, Zenon
  <2>15. Heard(v, told) = c /\ List(told)
    <3>1. List(<<Packet(symbol, target)>>) /\ List(MadeList(list)) /\ List(<<UsersPresent(ids)>>)
      BY <2>5, SmallLists, ListsOfRealms, Zenon
    <3>2. PICK s1, s2, s3 : /\ s1 = <<Packet(symbol, target)>>
                            /\ s2 = MadeList(list)
                            /\ s3 = <<UsersPresent(ids)>>
      OBVIOUS
    <3>3. PICK s4 : s4 = s1 \o s2
      OBVIOUS
    <3>4. List(s1) /\ List(s2) /\ List(s3)
      BY <3>1, <3>2, Zenon
    <3>5. List(s4) /\ Heard(v, s4) = Heard(Heard(v, s1), s2)
      BY <3>3, <3>4, HeardConcat
    <3>6. List(s4 \o s3) /\ Heard(v, s4 \o s3) = Heard(Heard(v, s4), s3)
      BY <3>4, <3>5, HeardConcat
    <3>7. told = s4 \o s3
      BY <2>3, <3>2, <3>3, Zenon
    <3> QED BY <2>9, <2>11, <2>13, <3>2, <3>5, <3>6, <3>7, Zenon
  <2>16. Turned(a, c, ids, kids, {} \cup {})
    BY <2>12, <2>14, TurnedTwice, Zenon
  <2>17. /\ c \in View /\ c.number = v.number /\ c.realm = target
         /\ c.users = ids /\ c.kids = kids /\ c.surprises = v.surprises
    BY <2>10, <2>16 DEF Turned
  <2> QED BY <1>7, <2>1, <2>7, <2>15, <2>17, Zenon DEF JoinTells
<1> QED BY <1>4, <1>5, <1>6, <1>7

LEMMA FourParts ==
    ASSUME NEW v, NEW s1, NEW s2, NEW s3, NEW s4,
           List(s1), List(s2), List(s3), List(s4)
    PROVE  Heard(v, s1 \o s2 \o s3 \o s4) = Heard(Heard(Heard(Heard(v, s1), s2), s3), s4)
<1>1. PICK s12 : s12 = s1 \o s2
  OBVIOUS
<1>2. PICK s123 : s123 = s12 \o s3
  OBVIOUS
<1>3. List(s12) /\ Heard(v, s12) = Heard(Heard(v, s1), s2)
  BY <1>1, HeardConcat
<1>4. List(s123) /\ Heard(v, s123) = Heard(Heard(v, s12), s3)
  BY <1>2, <1>3, HeardConcat
<1>5. Heard(v, s123 \o s4) = Heard(Heard(v, s123), s4)
  BY <1>4, HeardConcat
<1> QED BY <1>1, <1>2, <1>3, <1>4, <1>5, Zenon

(* The child realms of x's realm before and after, and what x is told.    *)
LEMMA KidsMoved ==
    ASSUME IInv, NEW e \in Connected, NEW target \in RealmNumber \cup {NoRealm},
           userRealm[e] # target, NEW child \in BOOLEAN,
           NEW D \in SUBSET RealmsAfter(target), NEW x \in Connected,
           NEW q \in RealmNumber, q = Placed(e, target)[x],
           AsChild(e, child) => Creates(target)
    PROVE  LET made == Fresh(e, target, child, x)
               gone == Gone(e, target, child, D, x)
               kids == ChildrenAfter(e, target, child)[q]
           IN  /\ x # e => kids = realmChildren[q] \cup made
               /\ made \cap realmChildren[q] = {}
               /\ x = e => made = {}
               /\ gone \subseteq kids
               /\ kids \ gone = kids \ D
<1>1. /\ TypeOK /\ Membership /\ RealmTree
      /\ e \in EndPoint /\ x \in EndPoint
      /\ D \subseteq RealmNumber /\ RealmsAfter(target) \subseteq RealmNumber
      /\ q # NoRealm /\ userRealm[e] \in realms \cup {NoRealm}
      /\ realms \subseteq RealmNumber
      /\ realmChildren \in [RealmNumber -> SUBSET realms]
  <2>1. e \in EndPoint /\ x \in EndPoint
    BY DEF Connected
  <2>2. q # NoRealm
    <3>1. \A r \in RealmNumber : r # NoRealm
      BY DEF RealmNumber, NoRealm
    <3> QED BY <3>1
  <2>3. TypeOK /\ Membership /\ RealmTree
    BY DEF IInv
  <2>4. /\ userRealm[e] \in realms \cup {NoRealm}
        /\ realms \subseteq RealmNumber
        /\ realmChildren \in [RealmNumber -> SUBSET realms]
    BY <2>1, <2>3 DEF TypeOK
  <2>5. D \subseteq RealmNumber /\ RealmsAfter(target) \subseteq RealmNumber
    BY <2>4 DEF RealmsAfter, Creates
  <2> QED BY <2>1, <2>2, <2>3, <2>4, <2>5
<1>2. /\ ChildrenAfter(e, target, child) \in [RealmNumber -> SUBSET RealmsAfter(target)]
      /\ \A r, p \in RealmNumber :
            r \in ChildrenAfter(e, target, child)[p]
              <=> ParentAfter(e, target, child)[r] = p
  BY <1>1, LinksAfterCreation
<1>3. PICK gone, kids, made : /\ gone = Gone(e, target, child, D, x)
                        /\ kids = ChildrenAfter(e, target, child)[q]
                        /\ made = Fresh(e, target, child, x)
  OBVIOUS
<1>4. \A r \in D : r \in gone <=> r \in kids
  BY <1>1, <1>2, <1>3 DEF Gone
<1>5. gone \subseteq D
  BY <1>3 DEF Gone
<1>6. gone \subseteq kids /\ kids \ gone = kids \ D
  BY <1>4, <1>5
<1>7. x = e => q = target
  BY <1>1, Company
<1>8. CASE AsChild(e, child)
  <2>1. /\ Creates(target) /\ target \notin realms /\ target # NoRealm
        /\ userRealm[e] \in RealmNumber
    BY <1>1, <1>8 DEF Creates, AsChild
  <2>2. ChildrenAfter(e, target, child)
          = [realmChildren EXCEPT ![userRealm[e]] = @ \cup {target}]
    BY <1>8, <2>1, Zenon DEF ChildrenAfter
  <2>3. q = userRealm[e] => kids = realmChildren[q] \cup {target}
    BY <1>1, <1>3, <2>1, <2>2
  <2>4. q # userRealm[e] => kids = realmChildren[q]
    BY <1>1, <1>3, <2>1, <2>2
  <2>5. target \notin realmChildren[q]
    BY <1>1, <2>1
  <2>6. CASE q = userRealm[e]
    <3>1. x # e /\ made = {target}
      BY <1>3, <1>7, <1>8, <2>1, <2>6 DEF Fresh
    <3> QED BY <1>3, <1>6, <2>3, <2>5, <2>6, <3>1
  <2>7. CASE q # userRealm[e]
    <3>1. made = {}
      BY <1>3, <2>7 DEF Fresh
    <3> QED BY <1>3, <1>6, <2>4, <2>7, <3>1
  <2> QED BY <2>6, <2>7
<1>9. CASE ~AsChild(e, child)
  <2>1. ChildrenAfter(e, target, child) = realmChildren
    BY <1>9, Zenon DEF ChildrenAfter
  <2>2. made = {}
    BY <1>3, <1>9 DEF Fresh
  <2> QED BY <1>3, <1>6, <2>1, <2>2
<1> QED BY <1>8, <1>9

(* The four parts, one after the other. *)
HeardInParts(e, target, child, D, x, v) ==
    \E a, b, c :
      /\ x # e /\ userRealm[x] # NoRealm /\ userRealm[x] = userRealm[e]
           /\ userID[e] \in v.users =>
            Turned(v, a, v.users \ {userID[e]}, v.kids, {})
      /\ ~(x # e /\ userRealm[x] # NoRealm /\ userRealm[x] = userRealm[e]) =>
            Turned(v, a, v.users, v.kids, {})
      /\ a \in View => JoinTells(e, target, child, x, a, b)
      /\ b \in View =>
            \E news \in RealmNews :
              /\ Turned(b, c, b.users, b.kids \cup Fresh(e, target, child, x), news)
              /\ Fresh(e, target, child, x) \cap b.kids = {} => news = {}
      /\ c \in View =>
            \E news \in RealmNews :
              /\ Turned(c, Heard(v, Notices(e, target, child, D)[x]), c.users,
                        c.kids \ Gone(e, target, child, D, x), news)
              /\ Gone(e, target, child, D, x) \subseteq c.kids => news = {}

LEMMA MoveParts ==
    ASSUME IInv, NEW e \in Connected, NEW target \in RealmNumber \cup {NoRealm},
           userRealm[e] # target, NEW child \in BOOLEAN,
           NEW D \in SUBSET RealmsAfter(target),
           NEW x \in Connected, NEW v \in View
    PROVE  HeardInParts(e, target, child, D, x, v)
<1>1. PICK s1, s2, s3, s4 :
         /\ s1 = LeaveNotices(e, target, x)
         /\ s2 = JoinNotices(e, target, child, x)
         /\ s3 = NewChildNotices(e, target, child, x)
         /\ s4 = DestroyNotices(e, target, child, D, x)
  OBVIOUS
<1>2. PICK a, b, c, w : a = Heard(v, s1) /\ b = Heard(a, s2) /\ c = Heard(b, s3) /\ w = Heard(c, s4)
  OBVIOUS
<1>3. /\ List(s1)
      /\ x # e /\ userRealm[x] # NoRealm /\ userRealm[x] = userRealm[e]
           /\ userID[e] \in v.users => Turned(v, a, v.users \ {userID[e]}, v.kids, {})
      /\ ~(x # e /\ userRealm[x] # NoRealm /\ userRealm[x] = userRealm[e]) =>
            Turned(v, a, v.users, v.kids, {})
  BY <1>1, <1>2, LeaveHeard
<1>4. List(s2) /\ (a \in View => JoinTells(e, target, child, x, a, b))
  <2>1. ASSUME NEW u \in View
        PROVE  List(s2) /\ JoinTells(e, target, child, x, u, Heard(u, s2))
    <3>1. s2 = JoinNotices(e, target, child, x)
      BY <1>1
    <3> QED BY <3>1, JoinHeard
  <2>2. List(s2)
    BY <2>1
  <2> QED BY <1>2, <2>1, <2>2, Zenon
<1>5. PICK made : made = Fresh(e, target, child, x)
  OBVIOUS
<1>6. /\ List(s3)
      /\ b \in View =>
           \E news \in RealmNews :
             /\ Turned(b, c, b.users, b.kids \cup made, news)
             /\ made \cap b.kids = {} => news = {}
  <2>1. s3 = NewChildNotices(e, target, child, x)
    BY <1>1
  <2>2. ASSUME NEW u \in View
        PROVE  /\ List(s3)
               /\ \E news \in RealmNews :
                     /\ Turned(u, Heard(u, s3), u.users, u.kids \cup made, news)
                     /\ made \cap u.kids = {} => news = {}
    BY <1>5, <2>1, NewChildHeard
  <2>3. List(s3)
    BY <2>2
  <2> QED BY <1>2, <2>2, <2>3, Zenon
<1>7. PICK gone : gone = Gone(e, target, child, D, x)
  OBVIOUS
<1>8. /\ List(s4)
      /\ c \in View =>
           \E news \in RealmNews :
             /\ Turned(c, w, c.users, c.kids \ gone, news)
             /\ gone \subseteq c.kids => news = {}
  <2>1. s4 = DestroyNotices(e, target, child, D, x)
    BY <1>1
  <2>2. ASSUME NEW u \in View
        PROVE  /\ List(s4)
               /\ \E news \in RealmNews :
                     /\ Turned(u, Heard(u, s4), u.users, u.kids \ gone, news)
                     /\ gone \subseteq u.kids => news = {}
    BY <1>7, <2>1, DestroyHeard, ZenonT(40)
  <2>3. List(s4)
    BY <2>2
  <2> QED BY <1>2, <2>2, <2>3, Zenon
<1>9. w = Heard(v, Notices(e, target, child, D)[x])
  <2>1. x \in EndPoint
    BY DEF Connected
  <2>2. Notices(e, target, child, D)[x] = s1 \o s2 \o s3 \o s4
    BY <1>1, <2>1, Zenon DEF Notices
  <2>3. Heard(v, s1 \o s2 \o s3 \o s4) = Heard(Heard(Heard(Heard(v, s1), s2), s3), s4)
    BY <1>3, <1>4, <1>6, <1>8, FourParts
  <2> QED BY <1>2, <2>2, <2>3, Zenon
<1> QED BY <1>3, <1>4, <1>5, <1>6, <1>7, <1>8, <1>9, Zenon DEF HeardInParts

(***************************************************************************)
(* A move, as any client hears it.                                         *)
(***************************************************************************)
(* v becomes w: it knows who is with it now, and the child realms if it    *)
(* knew them before.                                                       *)
FollowsMove(e, target, child, D, x, v, w) ==
    LET at == Placed(e, target)
    IN  /\ w \in View
        /\ w.number = v.number
        /\ at[x] # NoRealm => w.realm = at[x] /\ w.users = With(x, at)
        /\ \E news \in RealmNews :
              /\ w.surprises = v.surprises \cup news
              /\ KnowsKids(x, v) /\ (AsChild(e, child) => Creates(target)) => news = {}
        /\ KnowsKids(x, v) /\ (AsChild(e, child) => Creates(target)) /\ at[x] # NoRealm =>
              w.kids = ChildrenAfter(e, target, child)[at[x]] \ D

LEMMA MoveIsHeard ==
    ASSUME IInv, NEW e \in Connected, NEW target \in RealmNumber \cup {NoRealm},
           userRealm[e] # target, NEW child \in BOOLEAN,
           NEW D \in SUBSET RealmsAfter(target),
           NEW x \in Connected, NEW v \in View, KnowsUsers(x, v)
    PROVE  FollowsMove(e, target, child, D, x, v,
                       Heard(v, Notices(e, target, child, D)[x]))
<1>1. PICK a, b, c :
        /\ x # e /\ userRealm[x] # NoRealm /\ userRealm[x] = userRealm[e]
             /\ userID[e] \in v.users =>
              Turned(v, a, v.users \ {userID[e]}, v.kids, {})
        /\ ~(x # e /\ userRealm[x] # NoRealm /\ userRealm[x] = userRealm[e]) =>
              Turned(v, a, v.users, v.kids, {})
        /\ a \in View => JoinTells(e, target, child, x, a, b)
        /\ b \in View =>
              \E news \in RealmNews :
                /\ Turned(b, c, b.users, b.kids \cup Fresh(e, target, child, x), news)
                /\ Fresh(e, target, child, x) \cap b.kids = {} => news = {}
        /\ c \in View =>
              \E news \in RealmNews :
                /\ Turned(c, Heard(v, Notices(e, target, child, D)[x]), c.users,
                          c.kids \ Gone(e, target, child, D, x), news)
                /\ Gone(e, target, child, D, x) \subseteq c.kids => news = {}
  <2>1. HeardInParts(e, target, child, D, x, v)
    BY MoveParts
  <2> QED BY <2>1, Zenon DEF HeardInParts
<1>2. PICK w, at, id, gone, made :
         /\ w = Heard(v, Notices(e, target, child, D)[x])
         /\ at = Placed(e, target)
         /\ id = userID[e]
         /\ gone = Gone(e, target, child, D, x)
         /\ made = Fresh(e, target, child, x)
  OBVIOUS
<1>3. /\ x # e /\ userRealm[x] # NoRealm /\ userRealm[x] = userRealm[e]
           /\ id \in v.users => Turned(v, a, v.users \ {id}, v.kids, {})
      /\ ~(x # e /\ userRealm[x] # NoRealm /\ userRealm[x] = userRealm[e]) =>
            Turned(v, a, v.users, v.kids, {})
  BY <1>1, <1>2, Zenon
<1>4. /\ at[x] = IF x = e THEN target ELSE userRealm[x]
      /\ x # e /\ userRealm[x] # NoRealm /\ userRealm[x] = userRealm[e] =>
            id \in With(x, userRealm) /\ With(x, at) = With(x, userRealm) \ {id}
      /\ x # e /\ userRealm[x] # NoRealm /\ userRealm[x] = target =>
            id \notin With(x, userRealm) /\ With(x, at) = With(x, userRealm) \cup {id}
      /\ x # e /\ userRealm[x] # userRealm[e] /\ userRealm[x] # target =>
            With(x, at) = With(x, userRealm)
  BY <1>2, Company
<1>5. userRealm[x] # NoRealm => v.realm = userRealm[x] /\ v.users = With(x, userRealm)
  BY DEF KnowsUsers
<1>6. PICK kids : kids = IF x = e /\ target # NoRealm
                         THEN ChildrenAfter(e, target, child)[target] ELSE v.kids
  OBVIOUS
<1>7. /\ b \in View /\ b.number = v.number /\ b.surprises = v.surprises
      /\ b.kids = kids
      /\ at[x] # NoRealm => b.realm = at[x] /\ b.users = With(x, at)
  <2>1. CASE x = e /\ target # NoRealm
    <3>1. Turned(v, a, v.users, v.kids, {})
      BY <1>3, <2>1
    <3>2. a \in View /\ a.number = v.number /\ a.surprises = v.surprises
      BY <3>1 DEF Turned
    <3>3. JoinTells(e, target, child, x, a, b)
      BY <1>1, <3>2
    <3>4. /\ b \in View /\ b.number = a.number /\ b.realm = target
          /\ b.users = With(e, at)
          /\ b.kids = ChildrenAfter(e, target, child)[target]
          /\ b.surprises = a.surprises
      BY <1>2, <2>1, <3>3, Zenon DEF JoinTells
    <3> QED BY <1>4, <1>6, <2>1, <3>2, <3>4, Zenon
  <2>2. CASE ~(x = e /\ target # NoRealm)
    <3>1. kids = v.kids
      BY <1>6, <2>2
    <3>2. CASE x # e /\ userRealm[x] # NoRealm /\ userRealm[x] = userRealm[e]
      <4>1. Turned(v, a, v.users \ {id}, v.kids, {})
        BY <1>3, <1>4, <1>5, <3>2
      <4>2. a \in View
        BY <4>1 DEF Turned
      <4>3. JoinTells(e, target, child, x, a, b) /\ userRealm[x] # target
        BY <1>1, <3>2, <4>2
      <4>4. Turned(a, b, a.users, a.kids, {})
        BY <3>2, <4>3, Zenon DEF JoinTells
      <4>5. v.users \ {id} = With(x, at) /\ v.realm = at[x]
        BY <1>4, <1>5, <3>2
      <4> QED BY <3>1, <4>1, <4>4, <4>5 DEF Turned
    <3>3. CASE x # e /\ userRealm[x] # NoRealm /\ userRealm[x] = target
      <4>1. Turned(v, a, v.users, v.kids, {})
        BY <1>3, <3>3
      <4>2. a \in View /\ a.users = v.users
        BY <4>1 DEF Turned
      <4>3. JoinTells(e, target, child, x, a, b) /\ id \notin a.users
        BY <1>1, <1>4, <1>5, <3>3, <4>2
      <4>4. Turned(a, b, a.users \cup {id}, a.kids, {})
        BY <1>2, <3>3, <4>3, Zenon DEF JoinTells
      <4>5. v.users \cup {id} = With(x, at) /\ v.realm = at[x]
        BY <1>4, <1>5, <3>3
      <4> QED BY <3>1, <4>1, <4>4, <4>5 DEF Turned
    <3>4. CASE x = e \/ userRealm[x] = NoRealm \/ (userRealm[x] # userRealm[e] /\ userRealm[x] # target)
      <4>1. Turned(v, a, v.users, v.kids, {})
        BY <1>3, <3>4
      <4>2. a \in View
        BY <4>1 DEF Turned
      <4>3. JoinTells(e, target, child, x, a, b)
        BY <1>1, <4>2
      <4>4. target = NoRealm \/ (x # e /\ userRealm[x] # target)
        BY <2>2, <3>4
      <4>5. Turned(a, b, a.users, a.kids, {})
        BY <4>3, <4>4, Zenon DEF JoinTells
      <4>6. at[x] # NoRealm => v.users = With(x, at) /\ v.realm = at[x]
        BY <1>4, <1>5, <2>2, <3>4
      <4> QED BY <3>1, <4>1, <4>5, <4>6 DEF Turned
    <3> QED BY <3>2, <3>3, <3>4
  <2> QED BY <2>1, <2>2
<1>8. PICK n1 \in RealmNews : /\ Turned(b, c, b.users, b.kids \cup made, n1)
                              /\ made \cap b.kids = {} => n1 = {}
  BY <1>1, <1>2, <1>7, Zenon
<1>9. c \in View
  BY <1>8 DEF Turned
<1>10. PICK n2 \in RealmNews : /\ Turned(c, w, c.users, c.kids \ gone, n2)
                               /\ gone \subseteq c.kids => n2 = {}
  BY <1>1, <1>2, <1>9, Zenon
<1>11. Turned(b, w, c.users, c.kids \ gone, n1 \cup n2) /\ c.users = b.users /\ c.kids = b.kids \cup made
  <2>1. c.users = b.users /\ c.kids = b.kids \cup made
    BY <1>8, Zenon DEF Turned
  <2> QED BY <1>8, <1>10, <2>1, TurnedTwice, Zenon
<1>12. /\ w \in View /\ w.number = v.number
       /\ at[x] # NoRealm => w.realm = at[x] /\ w.users = With(x, at)
       /\ w.kids = (kids \cup made) \ gone
       /\ w.surprises = v.surprises \cup (n1 \cup n2)
  BY <1>7, <1>11 DEF Turned
<1>13. ASSUME KnowsKids(x, v), AsChild(e, child) => Creates(target)
       PROVE  /\ n1 \cup n2 = {}
              /\ at[x] # NoRealm => w.kids = ChildrenAfter(e, target, child)[at[x]] \ D
  <2>1. CASE at[x] = NoRealm
    <3>1. made = {}
      BY <1>2, <2>1 DEF Fresh, AsChild
    <3>2. gone = {}
      BY <1>2, <2>1 DEF Gone
    <3> QED BY <1>8, <1>10, <2>1, <3>1, <3>2
  <2>2. CASE at[x] # NoRealm
    <3>1. at[x] \in RealmNumber
      <4>1. userRealm[x] \in RealmNumber \cup {NoRealm}
        BY DEF IInv, TypeOK, Connected
      <4> QED BY <1>4, <2>2, <4>1
    <3>2. PICK all : all = ChildrenAfter(e, target, child)[at[x]]
      OBVIOUS
    <3>3. /\ x # e => all = realmChildren[at[x]] \cup made
          /\ made \cap realmChildren[at[x]] = {}
          /\ x = e => made = {}
          /\ gone \subseteq all
          /\ all \ gone = all \ D
      <4>1. PICK q \in RealmNumber : q = Placed(e, target)[x]
        BY <1>2, <3>1
      <4>2. LET fresh == Fresh(e, target, child, x)
                lost == Gone(e, target, child, D, x)
                now2 == ChildrenAfter(e, target, child)[q]
            IN  /\ x # e => now2 = realmChildren[q] \cup fresh
                /\ fresh \cap realmChildren[q] = {}
                /\ x = e => fresh = {}
                /\ lost \subseteq now2
                /\ now2 \ lost = now2 \ D
        BY <1>13, <4>1, KidsMoved, SMTT(60)
      <4> QED BY <1>2, <3>2, <4>1, <4>2, Zenon
    <3>4. x # e => kids = realmChildren[at[x]]
      BY <1>4, <1>6, <1>13, <2>2 DEF KnowsKids
    <3>5. x = e => kids = all
      BY <1>4, <1>6, <2>2, <3>2
    <3>6. kids \cup made = all /\ made \cap kids = {}
      BY <3>3, <3>4, <3>5
    <3>7. n1 = {} /\ n2 = {}
      BY <1>7, <1>8, <1>10, <1>11, <3>3, <3>6
    <3> QED BY <1>12, <3>2, <3>3, <3>6, <3>7
  <2> QED BY <2>1, <2>2
<1>14. n1 \cup n2 \in RealmNews
  BY NewsAdded, Zenon
<1> QED BY <1>2, <1>12, <1>13, <1>14, Zenon DEF FollowsMove

-----------------------------------------------------------------------------
(***************************************************************************)
(* What is true of every client's view.  The second part is that of        *)
(* disciplined clients.                                                    *)
(***************************************************************************)
ViewOK(x, v) ==
    /\ v \in View
    /\ x \notin Connected => v = NewView
    /\ x \in Connected => KnowsUsers(x, v)
    /\ v.surprises \cap UserSymbols = {}

KidsOK(x, v) == (x \in Connected => KnowsKids(x, v)) /\ v.surprises = {}

LEMMA NewViewOK ==
    ASSUME NEW x, x \notin Connected
    PROVE  ViewOK(x, NewView) /\ KidsOK(x, NewView)
BY NewViewTyped DEF ViewOK, KidsOK, NewView

(* A handler that moves nobody, and whose notice is no surprise. *)
LEMMA QuietStep ==
    ASSUME UNCHANGED userVars, UNCHANGED realmVars, NEW x \in Connected,
           NEW v, ViewOK(x, v), NEW w, Turned(v, w, v.users, v.kids, {})
    PROVE  ViewOK(x, w)' /\ (KidsOK(x, v) => KidsOK(x, w)')
<1>1. /\ Connected' = Connected /\ userRealm' = userRealm
      /\ userID' = userID /\ realmChildren' = realmChildren
  BY DEF userVars, realmVars, Connected
<1>2. /\ w \in View /\ w.number = v.number /\ w.realm = v.realm /\ w.users = v.users
      /\ w.kids = v.kids /\ w.surprises = v.surprises
  BY DEF Turned
<1>3. \A place : With(x, place)' = With(x, place)
  BY <1>1 DEF With
<1>4. ViewOK(x, w)'
  BY <1>1, <1>2 DEF ViewOK, KnowsUsers, With
<1>5. KidsOK(x, v) => KidsOK(x, w)'
  BY <1>1, <1>2 DEF KidsOK, KnowsKids
<1> QED BY <1>4, <1>5

(* Nothing was written to x, or one packet that is no surprise. *)
LEMMA HeardOrNot ==
    ASSUME NEW v \in View, NEW told,
           \/ told = <<>>
           \/ \E p : told = <<p>> /\ Turned(v, Hear(v, p), v.users, v.kids, {})
    PROVE  Turned(v, Heard(v, told), v.users, v.kids, {})
<1>1. CASE told = <<>>
  BY <1>1, HeardNoList, Zenon
<1>2. ASSUME NEW p, told = <<p>>, Turned(v, Hear(v, p), v.users, v.kids, {})
      PROVE  Turned(v, Heard(v, told), v.users, v.kids, {})
  BY <1>2, HeardOne, Zenon
<1> QED BY <1>1, <1>2

(* The whole of ChangeRealm, its early return included.  Only a user that  *)
(* is left in no realm may lose its number in the same handler.            *)
LEMMA ChangeIsHeard ==
    ASSUME IInv, NEW e \in Connected, NEW target \in RealmNumber \cup {NoRealm},
           NEW child \in BOOLEAN, NEW queue \in Seq(RealmNumber),
           ChangeRealm(e, target, child, queue),
           NEW x \in Connected, NEW v, ViewOK(x, v),
           userID'[x] = userID[x],
           \A y \in EndPoint : userID'[y] = userID[y] \/ (y = e /\ target = NoRealm),
           NEW w, w = Heard(v, outbox'[x])
    PROVE  /\ ViewOK(x, w)'
           /\ KidsOK(x, v) /\ (userRealm[e] # target /\ AsChild(e, child) => Creates(target))
                => KidsOK(x, w)'
<1>1. /\ TypeOK /\ Membership /\ RealmTree
      /\ e \in EndPoint /\ x \in EndPoint
      /\ userRealm \in [EndPoint -> realms \cup {NoRealm}]
      /\ userRealm[x] \in RealmNumber \cup {NoRealm}
      /\ v \in View /\ KnowsUsers(x, v) /\ v.surprises \cap UserSymbols = {}
  BY DEF IInv, TypeOK, Connected, ViewOK
<1>2. x \in Connected'
  BY <1>1 DEF Connected
<1>3. PICK told : told = outbox'[x]
  OBVIOUS
<1>4. w = Heard(v, told)
  BY <1>3
<1>5. CASE userRealm[e] = target
  <2>1. StayInRealm(queue)
    BY <1>5 DEF ChangeRealm
  <2>2. told = <<>> /\ userRealm' = userRealm /\ realmChildren' = realmChildren
    BY <1>1, <1>3, <2>1 DEF StayInRealm, Silence
  <2>3. w = v
    BY <1>4, <2>2, HeardNothing, Zenon
  <2>4. userRealm[x] # NoRealm => With(x, userRealm)' = With(x, userRealm)
    <3> SUFFICES ASSUME userRealm[x] # NoRealm
                 PROVE  With(x, userRealm)' = With(x, userRealm)
      OBVIOUS
    <3>1. \A y \in EndPoint \ {x} : userRealm[y] = userRealm[x] => userID'[y] = userID[y]
      BY <1>1, <1>5
    <3> QED BY <2>2, <3>1 DEF With
  <2>5. KnowsUsers(x, v)'
    BY <1>1, <2>2, <2>4 DEF KnowsUsers
  <2>6. ViewOK(x, v)'
    BY <1>1, <1>2, <2>5 DEF ViewOK
  <2>7. KidsOK(x, v) => KidsOK(x, v)'
    BY <2>2 DEF KidsOK, KnowsKids
  <2> QED BY <1>3, <1>4, <2>3, <2>6, <2>7
<1>6. CASE userRealm[e] # target
  <2>1. PICK D \in SUBSET RealmsAfter(target) :
          /\ Destroys(e, target, child, D)
          /\ userRealm' = Placed(e, target)
          /\ realmChildren' = [r \in RealmNumber |->
                IF r \in D THEN {} ELSE ChildrenAfter(e, target, child)[r] \ D]
          /\ outbox' = Notices(e, target, child, D)
    BY <1>6 DEF ChangeRealm, MoveToRealm, Placed
  <2>2. FollowsMove(e, target, child, D, x, v, w)
    BY <1>1, <1>3, <1>4, <1>6, <2>1, MoveIsHeard
  <2>3. PICK at : at = userRealm'
    OBVIOUS
  <2>4. /\ w \in View /\ w.number = v.number
        /\ at[x] # NoRealm => w.realm = at[x] /\ w.users = With(x, at)
    BY <2>1, <2>2, <2>3, Zenon DEF FollowsMove
  <2>5. PICK news \in RealmNews :
           /\ w.surprises = v.surprises \cup news
           /\ KnowsKids(x, v) /\ (AsChild(e, child) => Creates(target)) => news = {}
    BY <2>2, Zenon DEF FollowsMove
  <2>6. w.surprises \cap UserSymbols = {}
    <3>1. news \cap UserSymbols = {}
      BY NewsApart
    <3> QED BY <1>1, <2>5, <3>1, Zenon
  <2>7. at[e] = target /\ \A y \in EndPoint : y # e => at[y] = userRealm[y]
    BY <1>1, <2>1, <2>3 DEF Placed
  <2>8. at[x] # NoRealm => With(x, userRealm)' = With(x, at)
    <3> SUFFICES ASSUME at[x] # NoRealm
                 PROVE  With(x, userRealm)' = With(x, at)
      OBVIOUS
    <3>1. \A y \in EndPoint \ {x} : at[y] = at[x] => userID'[y] = userID[y]
      BY <2>7
    <3> QED BY <2>3, <3>1 DEF With
  <2>9. KnowsUsers(x, w)'
    BY <1>1, <2>3, <2>4, <2>8 DEF KnowsUsers
  <2>10. ViewOK(x, w)'
    BY <1>2, <2>4, <2>6, <2>9 DEF ViewOK
  <2>11. ASSUME KidsOK(x, v), AsChild(e, child) => Creates(target)
         PROVE  KidsOK(x, w)'
    <3>1. KnowsKids(x, v) /\ v.surprises = {}
      BY <2>11 DEF KidsOK
    <3>2. w.surprises = {}
      BY <2>5, <2>11, <3>1
    <3>3. at[x] # NoRealm => w.kids = realmChildren'[at[x]]
      <4> SUFFICES ASSUME at[x] # NoRealm
                   PROVE  w.kids = realmChildren'[at[x]]
        OBVIOUS
      <4>1. w.kids = ChildrenAfter(e, target, child)[at[x]] \ D
        BY <2>1, <2>2, <2>3, <2>11, <3>1, Zenon DEF FollowsMove
      <4>2. at[x] \in RealmNumber
        BY <1>1, <2>7
      <4>3. at[x] \notin D
        <5>1. x \in ToSet(UsersAfter(e, target)[at[x]])
          BY <1>1, <1>6, <2>7, <4>2, UsersMoved
        <5>2. UsersAfter(e, target)[at[x]] # <<>>
          BY <5>1, EmptyQueue
        <5> QED BY <2>1, <5>2 DEF Destroys
      <4> QED BY <2>1, <4>1, <4>2, <4>3
    <3>4. KnowsKids(x, w)'
      BY <2>3, <3>3 DEF KnowsKids
    <3> QED BY <3>2, <3>4 DEF KidsOK
  <2> QED BY <1>3, <1>4, <1>6, <2>10, <2>11
<1> QED BY <1>5, <1>6

(* A new connection: its user learns its number, and nobody else anything. *)
LEMMA ConnectIsHeard ==
    ASSUME IInv, NEW e \in EndPoint, ClientConnected(e),
           NEW x \in EndPoint, userID'[x] # NoUser, NEW v, ViewOK(x, v),
           NEW w, w = Heard(v, outbox'[x])
    PROVE  ViewOK(x, w)' /\ (KidsOK(x, v) => KidsOK(x, w)')
<1>1. /\ userID \in [EndPoint -> Nat \cup {NoUser}]
      /\ userID[e] = NoUser
      /\ \A y \in EndPoint : userRealm[y] # NoRealm => y \in Connected
      /\ UNCHANGED realmVars
  BY DEF IInv, TypeOK, Membership, ClientConnected
<1>2. PICK id : id = LowNumber(reclaimableUserIDs, nextUserID)
  OBVIOUS
<1>3. /\ userID' = [userID EXCEPT ![e] = id]
      /\ outbox' = SendTo({e}, Packet("#", id))
  BY <1>2 DEF ClientConnected
<1>4. id \in Nat
  <2>1. reclaimableUserIDs \in Seq(Nat) /\ nextUserID \in Nat
    BY DEF IInv, TypeOK
  <2> QED BY <1>2, <2>1, HeadTailProperties DEF LowNumber
<1>5. userRealm' = userRealm /\ realmChildren' = realmChildren
  BY <1>1 DEF realmVars
<1>6. userRealm[e] = NoRealm /\ e \notin Connected
  BY <1>1 DEF Connected
<1>7. x \in Connected'
  BY DEF Connected
<1>8. v \in View /\ v.surprises \cap UserSymbols = {}
  BY DEF ViewOK
<1>9. CASE x = e
  <2>1. v = NewView
    BY <1>6, <1>9 DEF ViewOK
  <2>2. outbox'[x] = <<Packet("#", id)>>
    BY <1>3, <1>9, Zenon DEF SendTo
  <2>3. w = Hear(v, Packet("#", id))
    BY <2>2, HeardOne, Zenon
  <2>4. w \in View /\ w.number = id /\ w.surprises = v.surprises
    BY <1>4, <1>8, <2>3, HearNumber
  <2>5. userID'[x] = id /\ userRealm'[x] = NoRealm
    BY <1>1, <1>3, <1>5, <1>6, <1>9
  <2>6. KnowsUsers(x, w)'
    BY <2>4, <2>5 DEF KnowsUsers
  <2>7. ViewOK(x, w)'
    BY <1>7, <1>8, <2>4, <2>6 DEF ViewOK
  <2>8. KidsOK(x, v) => KidsOK(x, w)'
    BY <2>4, <2>5 DEF KidsOK, KnowsKids
  <2> QED BY <2>7, <2>8
<1>10. CASE x # e
  <2>1. outbox'[x] = <<>>
    BY <1>3, <1>10, Zenon DEF SendTo
  <2>2. w = v
    BY <2>1, HeardNothing, Zenon
  <2>3. userID'[x] = userID[x] /\ x \in Connected
    BY <1>1, <1>3, <1>10 DEF Connected
  <2>4. userRealm[x] # NoRealm => With(x, userRealm)' = With(x, userRealm)
    <3> SUFFICES ASSUME userRealm[x] # NoRealm
                 PROVE  With(x, userRealm)' = With(x, userRealm)
      OBVIOUS
    <3>1. \A y \in EndPoint \ {x} : userRealm[y] = userRealm[x] => userID'[y] = userID[y]
      BY <1>1, <1>3, <1>6
    <3> QED BY <1>5, <3>1 DEF With
  <2>5. KnowsUsers(x, v)'
    BY <1>5, <2>3, <2>4 DEF KnowsUsers, ViewOK
  <2>6. ViewOK(x, v)'
    BY <1>7, <1>8, <2>5 DEF ViewOK
  <2>7. KidsOK(x, v) => KidsOK(x, v)'
    BY <1>5, <2>3 DEF KidsOK, KnowsKids
  <2> QED BY <2>2, <2>6, <2>7
<1> QED BY <1>9, <1>10

LEMMA NoRealmIsNoNumber == NoRealm \notin RealmNumber
BY RelayAssumption DEF NoRealm, RealmNumber

(* The broadcasts, the messages and the data commands. *)
LEMMA TalkIsHeard ==
    ASSUME IInv, NEW e \in EndPoint, userRealm[e] # NoRealm,
           UNCHANGED userVars, UNCHANGED realmVars,
           NEW x \in Connected, NEW v, ViewOK(x, v),
           NEW told, told = outbox'[x],
           \/ /\ x \in Members(e)
              /\ told = <<Packet("*", userID[e])>> \/ told = <<Packet("!", userID[e])>>
           \/ told = <<Packet("@", userID[e])>>
           \/ \E r, k, d : told = <<DataPacket(r, k, d)>>
           \/ told = <<>>,
           NEW w, w = Heard(v, told)
    PROVE  ViewOK(x, w)' /\ (KidsOK(x, v) => KidsOK(x, w)')
<1>1. /\ e \in Connected /\ userID[e] \in Nat /\ x \in EndPoint
      /\ userRealm[e] \in RealmNumber
      /\ v \in View /\ KnowsUsers(x, v)
  BY DEF IInv, TypeOK, Membership, Connected, ViewOK
<1>2. ASSUME x \in Members(e)
      PROVE  userID[e] \in v.users \/ userID[e] = v.number
  <2>1. userRealm[x] = userRealm[e]
    BY <1>1, <1>2 DEF IInv, Membership, Members
  <2>2. CASE x = e
    BY <1>1, <2>2 DEF KnowsUsers
  <2>3. CASE x # e
    BY <1>1, <2>1, <2>3 DEF KnowsUsers, With
  <2> QED BY <2>2, <2>3
<1>3. PICK id \in Nat : id = userID[e]
  BY <1>1
<1>4. Turned(v, w, v.users, v.kids, {})
  <2>1. ASSUME NEW symbol \in {"*", "!", "@"}, told = <<Packet(symbol, id)>>,
               symbol = "@" \/ x \in Members(e)
        PROVE  Turned(v, w, v.users, v.kids, {})
    <3>1. symbol = "@" \/ id \in v.users \/ id = v.number
      BY <1>2, <1>3, <2>1, Zenon
    <3>2. Turned(v, Hear(v, Packet(symbol, id)), v.users, v.kids, {})
      BY <1>1, <3>1, HearTold
    <3> QED BY <1>1, <2>1, <3>2, HeardOrNot, Zenon
  <2>2. ASSUME NEW r, NEW k, NEW d, told = <<DataPacket(r, k, d)>>
        PROVE  Turned(v, w, v.users, v.kids, {})
    <3>1. Turned(v, Hear(v, DataPacket(r, k, d)), v.users, v.kids, {})
      BY <1>1, HearData
    <3> QED BY <1>1, <2>2, <3>1, HeardOrNot, Zenon
  <2>3. told = <<>> => Turned(v, w, v.users, v.kids, {})
    BY <1>1, HeardOrNot, Zenon
  <2>4. "*" \in {"*", "!", "@"} /\ "!" \in {"*", "!", "@"} /\ "@" \in {"*", "!", "@"}
    BY Zenon
  <2> QED BY <1>3, <2>1, <2>2, <2>3, <2>4, Zenon
<1> QED BY <1>4, QuietStep

(* Every handler, as a user x that is connected afterwards hears it. *)
LEMMA NextIsHeard ==
    ASSUME IInv, Next,
           NEW x \in EndPoint, userID'[x] # NoUser, NEW v, ViewOK(x, v),
           NEW w, w = Heard(v, outbox'[x])
    PROVE  /\ ViewOK(x, w)'
           /\ Disciplined /\ RealmNumbers /\ KidsOK(x, v) => KidsOK(x, w)'
<1> DEFINE Follows == /\ ViewOK(x, w)'
                      /\ Disciplined /\ RealmNumbers /\ KidsOK(x, v) => KidsOK(x, w)'
<1>0. /\ userID \in [EndPoint -> Nat \cup {NoUser}]
      /\ reclaimableRealmIDs \in Seq(RealmNumber)
      /\ \A y \in EndPoint : userRealm[y] # NoRealm => y \in Connected
  BY DEF IInv, TypeOK, Membership
<1>1. ASSUME NEW e \in EndPoint, ClientConnected(e)
      PROVE  Follows
  BY <1>1, ConnectIsHeard
<1>2. ASSUME NEW e \in EndPoint, ClientDisconnected(e)
      PROVE  Follows
  <2>1. /\ userID[e] # NoUser
        /\ ChangeRealm(e, NoRealm, FALSE, reclaimableRealmIDs)
        /\ userID' = [userID EXCEPT ![e] = NoUser]
    BY <1>2 DEF ClientDisconnected
  <2>2. e \in Connected /\ x # e /\ x \in Connected /\ userID'[x] = userID[x]
    BY <1>0, <2>1 DEF Connected
  <2>3. \A y \in EndPoint : userID'[y] = userID[y] \/ (y = e /\ NoRealm = NoRealm)
    BY <1>0, <2>1
  <2>4. ~AsChild(e, FALSE) /\ NoRealm \in RealmNumber \cup {NoRealm} /\ FALSE \in BOOLEAN
    BY DEF AsChild
  <2>5. /\ ViewOK(x, w)'
        /\ KidsOK(x, v) /\ (userRealm[e] # NoRealm /\ AsChild(e, FALSE) => Creates(NoRealm))
             => KidsOK(x, w)'
    BY <1>0, <2>1, <2>2, <2>3, <2>4, ChangeIsHeard
  <2> QED BY <2>4, <2>5
<1>3. ASSUME NEW e \in Connected, NEW target \in RealmNumber \cup {NoRealm},
             NEW child \in BOOLEAN, NEW queue \in Seq(RealmNumber),
             ChangeRealm(e, target, child, queue), UNCHANGED userVars,
             Disciplined /\ RealmNumbers /\ child => Creates(target)
      PROVE  Follows
  <2>1. userID' = userID /\ x \in Connected
    BY <1>3 DEF userVars, Connected
  <2>2. AsChild(e, child) => child
    BY DEF AsChild
  <2>3. \A y \in EndPoint : userID'[y] = userID[y] \/ (y = e /\ target = NoRealm)
    BY <2>1
  <2>4. userID'[x] = userID[x]
    BY <2>1
  <2>5. /\ ViewOK(x, w)'
        /\ KidsOK(x, v) /\ (userRealm[e] # target /\ AsChild(e, child) => Creates(target))
             => KidsOK(x, w)'
    BY <1>3, <2>1, <2>3, <2>4, ChangeIsHeard
  <2> QED BY <1>3, <2>2, <2>5
<1>4. ASSUME NEW e \in EndPoint, NEW n \in JoinNumber, NEW child \in BOOLEAN,
             JoinNumbered(e, n, child)
      PROVE  Follows
  <2>1. /\ ChangeRealm(e, n, child, reclaimableRealmIDs)
        /\ UNCHANGED userVars
        /\ MayJoin(n, child) /\ userID[e] # NoUser
    BY <1>4 DEF JoinNumbered
  <2>2. e \in Connected /\ n \in RealmNumber \cup {NoRealm}
    BY <2>1, RelayAssumption DEF Connected
  <2>3. Disciplined /\ child => Creates(n)
    BY <2>1, NoRealmIsNoNumber DEF MayJoin, Creates
  <2> QED BY <1>0, <1>3, <2>1, <2>2, <2>3
<1>5. ASSUME NEW e \in EndPoint, NEW child \in BOOLEAN, CreateRealm(e, child)
      PROVE  Follows
  <2>1. PICK id, queue : /\ id = LowNumber(reclaimableRealmIDs, nextRealmID)
                         /\ queue = Rest(reclaimableRealmIDs)
    OBVIOUS
  <2>2. /\ ChangeRealm(e, id, child, queue)
        /\ UNCHANGED userVars
        /\ id <= MaxRealmID /\ userID[e] # NoUser
    BY <1>5, <2>1 DEF CreateRealm
  <2>3. e \in Connected
    BY <2>2 DEF Connected
  <2>4. id \in RealmNumber /\ queue \in Seq(RealmNumber)
    BY <2>1, <2>2, LowNumberIsNumber
  <2>5. RealmNumbers => Creates(id)
    <3> SUFFICES ASSUME RealmNumbers
                 PROVE  Creates(id)
      OBVIOUS
    <3>1. id \in RealmNumber \ realms
      BY <2>1, <2>2, LowNumberIsFree
    <3> QED BY <3>1, NoRealmIsNoNumber DEF Creates
  <2> QED BY <1>3, <2>2, <2>3, <2>4, <2>5
<1>6. ASSUME NEW e \in EndPoint, userRealm[e] # NoRealm,
             UNCHANGED userVars, UNCHANGED realmVars,
             \/ /\ x \in Members(e)
                /\ \/ outbox'[x] = <<Packet("*", userID[e])>>
                   \/ outbox'[x] = <<Packet("!", userID[e])>>
             \/ outbox'[x] = <<Packet("@", userID[e])>>
             \/ \E r, k, d : outbox'[x] = <<DataPacket(r, k, d)>>
             \/ outbox'[x] = <<>>
      PROVE  Follows
  <2>1. x \in Connected
    BY <1>6 DEF userVars, Connected
  <2>2. PICK told : told = outbox'[x]
    OBVIOUS
  <2>3. ViewOK(x, w)' /\ (KidsOK(x, v) => KidsOK(x, w)')
    BY <1>6, <2>1, <2>2, TalkIsHeard
  <2> QED BY <2>3
<1>7. ASSUME NEW e \in EndPoint, SendToAll(e) \/ SendExcept(e)
      PROVE  Follows
  <2>1. /\ userRealm[e] # NoRealm /\ UNCHANGED userVars /\ UNCHANGED realmVars
        /\ \/ outbox' = SendTo(Members(e), Packet("*", userID[e]))
           \/ outbox' = SendTo(Members(e) \ {e}, Packet("!", userID[e]))
    BY <1>7 DEF SendToAll, SendExcept
  <2>2. \/ /\ x \in Members(e)
           /\ \/ outbox'[x] = <<Packet("*", userID[e])>>
              \/ outbox'[x] = <<Packet("!", userID[e])>>
        \/ outbox'[x] = <<>>
    BY <2>1, Zenon DEF SendTo
  <2> QED BY <1>6, <2>1, <2>2
<1>8. ASSUME NEW e \in EndPoint,
             \/ \E n \in 0 .. nextUserID : SendToUser(e, n)
             \/ \E n \in RealmNumber : SendToRealm(e, n)
      PROVE  Follows
  <2>1. /\ userRealm[e] # NoRealm /\ UNCHANGED userVars /\ UNCHANGED realmVars
        /\ \/ \E X : outbox' = SendTo(X, Packet("@", userID[e]))
           \/ outbox' = Silence
    BY <1>8, Zenon DEF SendToUser, SendToRealm
  <2>2. outbox'[x] = <<Packet("@", userID[e])>> \/ outbox'[x] = <<>>
    BY <2>1, Zenon DEF SendTo, Silence
  <2> QED BY <1>6, <2>1, <2>2
<1>9. ASSUME NEW e \in EndPoint,
             \/ \E r \in RealmNumber, k \in EntityName : LoadEntity(e, r, k)
             \/ \E k \in EntityName, t \in Lifetime, d \in Data \cup {NoData} :
                   SaveEntity(e, k, t, d)
      PROVE  Follows
  <2>1. /\ userRealm[e] # NoRealm /\ UNCHANGED userVars /\ UNCHANGED realmVars
        /\ \/ \E r, k, d : outbox' = SendTo({e}, DataPacket(r, k, d))
           \/ outbox' = Silence
    BY <1>9, Zenon DEF LoadEntity, SaveEntity
  <2>2. (\E r, k, d : outbox'[x] = <<DataPacket(r, k, d)>>) \/ outbox'[x] = <<>>
    BY <2>1, Zenon DEF SendTo, Silence
  <2> QED BY <1>6, <2>1, <2>2
<1>10. ASSUME PassTime
       PROVE  Follows
  <2>1. UNCHANGED userVars /\ UNCHANGED realmVars /\ outbox'[x] = <<>>
    BY <1>10 DEF PassTime, Silence
  <2>2. x \in Connected /\ v \in View
    BY <2>1 DEF userVars, Connected, ViewOK
  <2>3. PICK told : told = outbox'[x]
    OBVIOUS
  <2>4. Turned(v, w, v.users, v.kids, {})
    <3>1. Turned(v, Heard(v, told), v.users, v.kids, {})
      BY <2>1, <2>2, <2>3, HeardOrNot
    <3> QED BY <2>3, <3>1, Zenon
  <2> QED BY <2>1, <2>2, <2>4, QuietStep
<1>11. ASSUME Restart
       PROVE  Follows
  BY <1>11 DEF Restart, NoUsers
<1> HIDE DEF Follows
<1>12. Follows
  <2>1. Next
    OBVIOUS
  <2> QED BY <2>1, <1>1, <1>2, <1>4, <1>5, <1>7, <1>8, <1>9, <1>10, <1>11, Zenon DEF Next
<1> QED BY <1>12 DEF Follows

-----------------------------------------------------------------------------
(***************************************************************************)
(* The views of all clients: an invariant that needs the server's, because *)
(* a notice is news only if the lists it adds up to were right before.     *)
(***************************************************************************)
ClientsInv ==
    /\ IInv
    /\ view \in [EndPoint -> View]
    /\ \A x \in EndPoint : ViewOK(x, view[x])

KidsInv == RealmNumbers /\ NoDeadRealm /\ \A x \in EndPoint : KidsOK(x, view[x])

LEMMA InitClientsOK == InitClients => ClientsInv /\ KidsInv
<1> SUFFICES ASSUME InitClients
             PROVE  ClientsInv /\ KidsInv
  OBVIOUS
<1>1. IInv
  BY InitIsOK DEF InitClients
<1>2. RealmNumbers /\ NoDeadRealm
  BY NewServerHasNoRealms DEF InitClients, Init, NewServer
<1>3. view = [x \in EndPoint |-> NewView]
  BY DEF InitClients
<1>4. \A x \in EndPoint : x \notin Connected
  BY DEF InitClients, Init, NoUsers, Connected
<1>5. \A x \in EndPoint : view[x] = NewView /\ ViewOK(x, view[x]) /\ KidsOK(x, view[x])
  BY <1>3, <1>4, NewViewOK
<1>6. view \in [EndPoint -> View]
  BY <1>3, NewViewTyped
<1> QED BY <1>1, <1>2, <1>5, <1>6 DEF ClientsInv, KidsInv

LEMMA NextClientsIsOK ==
    ASSUME ClientsInv, NextClients
    PROVE  ClientsInv' /\ (Disciplined /\ KidsInv => KidsInv')
<1>1. IInv /\ Next /\ IInv'
  BY NextKeepsIInv DEF ClientsInv, NextClients
<1>2. Disciplined /\ KidsInv => RealmNumbers' /\ NoDeadRealm'
  BY <1>1, NextKeepsDisciplinedInv DEF KidsInv, DisciplinedInv
<1>3. view' = [x \in EndPoint |-> IF userID'[x] = NoUser THEN NewView
                                ELSE Heard(view[x], outbox'[x])]
  BY DEF NextClients, Listen, Heard
<1>4. ASSUME NEW x \in EndPoint
      PROVE  /\ ViewOK(x, view[x])'
             /\ Disciplined /\ KidsInv => KidsOK(x, view[x])'
  <2>1. PICK v : v = view[x]
    OBVIOUS
  <2>2. PICK w : w = view'[x]
    OBVIOUS
  <2>3. ViewOK(x, v) /\ (KidsInv => RealmNumbers /\ KidsOK(x, v))
    BY <2>1 DEF ClientsInv, KidsInv
  <2>4. /\ ViewOK(x, w)'
        /\ Disciplined /\ KidsInv => KidsOK(x, w)'
    <3>1. CASE userID'[x] = NoUser
      <4>1. w = NewView
        BY <1>3, <2>2, <3>1
      <4>2. (x \notin Connected)'
        BY <3>1 DEF Connected
      <4>3. (x \notin Connected => ViewOK(x, NewView) /\ KidsOK(x, NewView))'
        BY NewViewOK, PTL
      <4> QED BY <4>1, <4>2, <4>3, NewViewTyped DEF ViewOK, KidsOK
    <3>2. CASE userID'[x] # NoUser
      <4>1. w = Heard(v, outbox'[x])
        BY <1>3, <2>1, <2>2, <3>2
      <4> QED BY <1>1, <2>3, <3>2, <4>1, NextIsHeard
    <3> QED BY <3>1, <3>2
  <2>5. (ViewOK(x, view[x]))'
    BY <2>2, <2>4 DEF ViewOK, KnowsUsers
  <2>6. Disciplined /\ KidsInv => (KidsOK(x, view[x]))'
    BY <2>2, <2>4 DEF KidsOK, KnowsKids
  <2> QED BY <2>5, <2>6
<1>5. view' \in [EndPoint -> View]
  <2>1. \A x \in EndPoint : view'[x] \in View
    BY <1>4 DEF ViewOK
  <2> QED BY <1>3, <2>1
<1>6. ClientsInv'
  BY <1>1, <1>4, <1>5 DEF ClientsInv
<1> QED BY <1>2, <1>4, <1>6 DEF KidsInv

LEMMA ClientsStay ==
    ASSUME UNCHANGED clientVars
    PROVE  (ClientsInv => ClientsInv') /\ (KidsInv => KidsInv')
<1>1. /\ UNCHANGED vars /\ view' = view
      /\ userID' = userID /\ userRealm' = userRealm /\ realmChildren' = realmChildren
      /\ Connected' = Connected
  BY DEF clientVars, vars, userVars, realmVars, Connected
<1>2. IInv => IInv'
  BY <1>1, NextKeepsIInv
<1>3. \A x \in EndPoint : ViewOK(x, view[x]) => ViewOK(x, view[x])'
  BY <1>1 DEF ViewOK, KnowsUsers, With
<1>4. \A x \in EndPoint : KidsOK(x, view[x]) => KidsOK(x, view[x])'
  BY <1>1 DEF KidsOK, KnowsKids
<1>5. RealmNumbers /\ NoDeadRealm => RealmNumbers' /\ NoDeadRealm'
  BY <1>1 DEF vars, realmVars, RealmNumbers, NoDeadRealm
<1>6. ClientsInv => ClientsInv'
  BY <1>1, <1>2, <1>3 DEF ClientsInv
<1> QED BY <1>4, <1>5, <1>6 DEF KidsInv

LEMMA ClientsInvariant == SpecClients => []ClientsInv
<1>1. InitClients => ClientsInv
  BY InitClientsOK
<1>2. ClientsInv /\ [NextClients]_clientVars => ClientsInv'
  BY NextClientsIsOK, ClientsStay
<1> QED BY <1>1, <1>2, PTL DEF SpecClients

LEMMA KidsInvariant ==
    ASSUME Disciplined
    PROVE  SpecClients => [](ClientsInv /\ KidsInv)
<1>1. InitClients => ClientsInv /\ KidsInv
  BY InitClientsOK
<1>2. ClientsInv /\ KidsInv /\ [NextClients]_clientVars => (ClientsInv /\ KidsInv)'
  BY Disciplined, NextClientsIsOK, ClientsStay
<1> QED BY <1>1, <1>2, PTL DEF SpecClients

(* With is what the properties say of the other members of a realm. *)
LEMMA WithIsMembers ==
    ASSUME IInv, NEW e \in EndPoint, userRealm[e] # NoRealm
    PROVE  With(e, userRealm) = {userID[x] : x \in Members(e) \ {e}}
<1>1. /\ userRealm[e] \in RealmNumber
      /\ realmUsers[userRealm[e]] \in Seq(EndPoint)
      /\ \A x \in EndPoint : x \in Members(e) <=> userRealm[x] = userRealm[e]
  BY DEF IInv, TypeOK, Membership, Members
<1>2. Members(e) \subseteq EndPoint
  BY <1>1, ToSetType DEF Members
<1>3. {z \in EndPoint \ {e} : userRealm[z] = userRealm[e]} = Members(e) \ {e}
  BY <1>1, <1>2
<1> QED BY <1>3 DEF With

(* Whatever the moves and their order, once a client has read what was      *)
(* sent to it, it knows its number, its realm and exactly who is with it:   *)
(* what ChangeRealm writes to the mover, to those it leaves and to those it *)
(* joins adds up to Realm.Users, for any number of clients.                 *)
THEOREM ClientsKnowTheirRealm == SpecClients => []UserViewAgrees
<1>1. ASSUME ClientsInv
      PROVE  UserViewAgrees
  <2> SUFFICES ASSUME NEW e \in Connected
               PROVE  /\ view[e].number = userID[e]
                      /\ userRealm[e] # NoRealm =>
                           /\ view[e].realm = userRealm[e]
                           /\ view[e].users = {userID[x] : x \in Members(e) \ {e}}
    BY DEF UserViewAgrees
  <2>1. e \in EndPoint /\ IInv /\ KnowsUsers(e, view[e])
    BY <1>1 DEF ClientsInv, ViewOK, Connected
  <2>2. userRealm[e] # NoRealm => With(e, userRealm) = {userID[x] : x \in Members(e) \ {e}}
    BY <2>1, WithIsMembers
  <2> QED BY <2>1, <2>2 DEF KnowsUsers
<1> QED BY <1>1, ClientsInvariant, PTL

(* No client is told twice that a user came or went, and none receives a    *)
(* broadcast from a user it has not been told of: ChangeRealm has told the  *)
(* members of a realm of everybody who can send to them there.              *)
THEOREM UserNoticesAreNewsAlways == SpecClients => []UserNoticesAreNews
<1>1. ClientsInv => UserNoticesAreNews
  BY DEF ClientsInv, ViewOK, UserNoticesAreNews, UserSymbols
<1> QED BY <1>1, ClientsInvariant, PTL

(* Among disciplined clients, the list of child realms that the joiner is   *)
(* given, and the notices of creation and destruction after it, add up to   *)
(* Realm.ChildRealms.                                                       *)
THEOREM ClientsKnowTheChildRealms ==
    ASSUME Disciplined
    PROVE  SpecClients => []RealmViewAgrees
<1>1. ClientsInv /\ KidsInv => RealmViewAgrees
  BY DEF ClientsInv, KidsInv, KidsOK, KnowsKids, RealmViewAgrees, Connected
<1> QED BY <1>1, Disciplined, KidsInvariant, PTL

(* Among disciplined clients, no client is told twice that a child realm    *)
(* was created, or of the end of one it does not know.                      *)
THEOREM RealmNoticesAreNewsAlways ==
    ASSUME Disciplined
    PROVE  SpecClients => []RealmNoticesAreNews
<1>1. KidsInv => \A e \in EndPoint : view[e].surprises = {}
  BY DEF KidsInv, KidsOK
<1>2. (\A e \in EndPoint : view[e].surprises = {}) => RealmNoticesAreNews
  BY Zenon DEF RealmNoticesAreNews
<1>3. KidsInv => RealmNoticesAreNews
  BY <1>1, <1>2
<1> QED BY <1>3, Disciplined, KidsInvariant, PTL
===============================================================================
