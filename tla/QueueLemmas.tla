----------------------------- MODULE QueueLemmas -----------------------------
(***************************************************************************)
(* Facts about the lists and queues of the relay server: sequences without *)
(* repetition, the set of their elements, and what removing the first      *)
(* occurrence, dequeuing and enqueuing make of them.                       *)
(***************************************************************************)
EXTENDS SequencesExt, Integers, SequenceTheorems, FiniteSetTheorems, TLAPS

(* The elements of a sequence over S are members of S. *)
LEMMA ToSetType ==
    ASSUME NEW S, NEW s \in Seq(S)
    PROVE  ToSet(s) \subseteq S
BY DEF ToSet

LEMMA EmptyQueue ==
    /\ ToSet(<<>>) = {}
    /\ IsInjective(<<>>)
BY DEF ToSet, IsInjective

(* List.Remove on a list without repetition: the element is gone, and      *)
(* everything else is as it was.                                           *)
LEMMA RemoveFirstOfDistinct ==
    ASSUME NEW S, NEW s \in Seq(S), NEW e, IsInjective(s)
    PROVE  /\ RemoveFirst(s, e) \in Seq(S)
           /\ IsInjective(RemoveFirst(s, e))
           /\ ToSet(RemoveFirst(s, e)) = ToSet(s) \ {e}
<1>1. CASE e \notin ToSet(s)
  <2>1. RemoveFirst(s, e) = s
    BY <1>1 DEF RemoveFirst, ToSet
  <2> QED BY <2>1, <1>1
<1>2. CASE e \in ToSet(s)
  <2>1. PICK k \in 1 .. Len(s) : s[k] = e
    BY <1>2 DEF ToSet
  <2>0. Len(s) \in Nat /\ k \in Int
    BY <2>1
  <2>2. {i \in 1 .. Len(s) : s[i] = e} = {k}
    BY <2>1 DEF IsInjective
  <2>3. SelectInSeq(s, LAMBDA v : v = e) = k
    BY <2>2, <2>1 DEF SelectInSeq, Min
  <2> DEFINE a == SubSeq(s, 1, k - 1)
             b == SubSeq(s, k + 1, Len(s))
             t == a \o b
  <2>4. RemoveFirst(s, e) = t
    BY <2>1, <2>3 DEF RemoveFirst, RemoveAt
  <2>5. /\ a \in Seq(S)
        /\ Len(a) = k - 1
        /\ \A i \in 1 .. k - 1 : a[i] = s[i]
    BY <2>1
  <2>6. /\ b \in Seq(S)
        /\ Len(b) = Len(s) - k
        /\ \A i \in 1 .. Len(s) - k : b[i] = s[k + i]
    BY <2>1
  <2>7. /\ t \in Seq(S)
        /\ Len(t) = Len(s) - 1
        /\ \A i \in 1 .. Len(s) - 1 : t[i] = IF i < k THEN s[i] ELSE s[i + 1]
    <3>1. /\ t \in Seq(S)
          /\ Len(t) = Len(a) + Len(b)
          /\ \A i \in 1 .. Len(a) + Len(b) :
                t[i] = IF i <= Len(a) THEN a[i] ELSE b[i - Len(a)]
      BY <2>5, <2>6, ConcatProperties
    <3> HIDE DEF a, b, t
    <3>2. Len(t) = Len(s) - 1
      BY <3>1, <2>5, <2>6, <2>0
    <3>3. ASSUME NEW i \in 1 .. Len(s) - 1
          PROVE  t[i] = IF i < k THEN s[i] ELSE s[i + 1]
      <4>1. /\ i \in 1 .. Len(a) + Len(b)
            /\ i <= Len(a) <=> i < k
            /\ i < k => i \in 1 .. k - 1
            /\ ~(i < k) => i - Len(a) \in 1 .. Len(s) - k
            /\ k + (i - Len(a)) = i + 1
        BY <2>5, <2>6, <2>0, <2>1
      <4>2. CASE i < k
        BY <4>1, <4>2, <3>1, <2>5
      <4>3. CASE ~(i < k)
        BY <4>1, <4>3, <3>1, <2>6
      <4> QED BY <4>2, <4>3
    <3> QED BY <3>1, <3>2, <3>3
  <2> HIDE DEF t
  <2>8. IsInjective(t)
    <3> DEFINE at(i) == IF i < k THEN i ELSE i + 1
    <3>1. ASSUME NEW i \in 1 .. Len(s) - 1
          PROVE  at(i) \in 1 .. Len(s) /\ t[i] = s[at(i)]
      BY <2>7, <2>0
    <3> SUFFICES ASSUME NEW i \in 1 .. Len(s) - 1, NEW j \in 1 .. Len(s) - 1,
                        t[i] = t[j]
                 PROVE  i = j
      BY <2>7, <2>0 DEF IsInjective
    <3>2. at(i) = at(j)
      <4> HIDE DEF at
      <4> QED BY <3>1 DEF IsInjective
    <3> QED BY <3>2, <2>0
  <2>9. ToSet(t) = ToSet(s) \ {e}
    <3>1. ToSet(t) \subseteq ToSet(s) \ {e}
      BY <2>7, <2>1 DEF IsInjective, ToSet
    <3>2. ASSUME NEW x \in ToSet(s) \ {e}
          PROVE  x \in ToSet(t)
      <4>1. PICK i \in 1 .. Len(s) : s[i] = x
        BY DEF ToSet
      <4>2. CASE i < k
        <5>1. i \in DOMAIN t /\ t[i] = x
          BY <4>1, <4>2, <2>7
        <5> QED BY <5>1 DEF ToSet
      <4>3. CASE i > k
        <5>1. i - 1 \in DOMAIN t /\ t[i - 1] = x
          BY <4>1, <4>3, <2>7
        <5> QED BY <5>1 DEF ToSet
      <4>4. i # k
        BY <4>1, <2>1
      <4> QED BY <4>2, <4>3, <4>4, <4>1, <2>0
    <3> QED BY <3>1, <3>2
  <2>10. /\ RemoveFirst(s, e) \in Seq(S)
         /\ IsInjective(RemoveFirst(s, e))
         /\ ToSet(RemoveFirst(s, e)) = ToSet(s) \ {e}
    BY <2>4, <2>7, <2>8, <2>9, Zenon DEF t
  <2> QED BY <2>10
<1> QED BY <1>1, <1>2

(* List.Add and Queue.Enqueue of something new. *)
LEMMA AppendOfNew ==
    ASSUME NEW S, NEW s \in Seq(S), NEW e \in S,
           IsInjective(s), e \notin ToSet(s)
    PROVE  /\ Append(s, e) \in Seq(S)
           /\ IsInjective(Append(s, e))
           /\ ToSet(Append(s, e)) = ToSet(s) \cup {e}
<1> DEFINE t == Append(s, e)
<1>1. /\ t \in Seq(S)
      /\ Len(t) = Len(s) + 1
      /\ \A i \in 1 .. Len(s) : t[i] = s[i]
      /\ t[Len(s) + 1] = e
  BY AppendProperties
<1>2. \A i \in 1 .. Len(s) : s[i] # e
  BY DEF ToSet
<1> HIDE DEF t
<1>3. IsInjective(t)
  BY <1>1, <1>2 DEF IsInjective
<1>4. ToSet(t) = ToSet(s) \cup {e}
  <2>1. ToSet(t) \subseteq ToSet(s) \cup {e}
    BY <1>1 DEF ToSet
  <2>2. ToSet(s) \subseteq ToSet(t)
    BY <1>1 DEF ToSet
  <2>3. e \in ToSet(t)
    <3>1. Len(s) + 1 \in DOMAIN t
      BY <1>1
    <3> QED BY <3>1, <1>1 DEF ToSet
  <2> QED BY <2>1, <2>2, <2>3
<1> QED BY <1>1, <1>3, <1>4 DEF t

(* Queue.Dequeue of a queue without repetition. *)
LEMMA DequeueOfDistinct ==
    ASSUME NEW S, NEW s \in Seq(S), s # <<>>, IsInjective(s)
    PROVE  /\ Head(s) \in S
           /\ Tail(s) \in Seq(S)
           /\ IsInjective(Tail(s))
           /\ ToSet(s) = ToSet(Tail(s)) \cup {Head(s)}
           /\ Head(s) \notin ToSet(Tail(s))
<1> DEFINE t == Tail(s)
           h == Head(s)
<1>1. /\ h \in S
      /\ t \in Seq(S)
      /\ Len(t) = Len(s) - 1
      /\ \A i \in 1 .. Len(s) - 1 : t[i] = s[i + 1]
  BY HeadTailProperties
<1>2. Len(s) \in Nat /\ Len(s) >= 1 /\ h = s[1]
  BY EmptySeq
<1> HIDE DEF t, h
<1>3. IsInjective(t)
  <2> SUFFICES ASSUME NEW i \in 1 .. Len(t), NEW j \in 1 .. Len(t), t[i] = t[j]
               PROVE  i = j
    BY <1>1 DEF IsInjective
  <2>1. /\ i + 1 \in DOMAIN s
        /\ j + 1 \in DOMAIN s
        /\ s[i + 1] = s[j + 1]
    BY <1>1, <1>2
  <2>2. i + 1 = j + 1
    BY <2>1 DEF IsInjective
  <2>3. i \in Int /\ j \in Int
    BY <1>1, <1>2
  <2> QED BY <2>2, <2>3
<1>4. h \notin ToSet(t)
  <2> SUFFICES ASSUME NEW i \in 1 .. Len(t), t[i] = h
               PROVE  FALSE
    BY <1>1 DEF ToSet
  <2>1. /\ i + 1 \in DOMAIN s /\ 1 \in DOMAIN s
        /\ s[i + 1] = s[1]
    BY <1>1, <1>2
  <2>2. i + 1 = 1
    BY <2>1 DEF IsInjective
  <2> QED BY <2>2
<1>5. ToSet(t) \cup {h} \subseteq ToSet(s)
  BY <1>1, <1>2 DEF ToSet
<1>6. ASSUME NEW x \in ToSet(s), x # h
      PROVE  x \in ToSet(t)
  <2>1. PICK i \in 1 .. Len(s) : s[i] = x
    BY DEF ToSet
  <2>2. i - 1 \in DOMAIN t /\ t[i - 1] = x
    BY <2>1, <1>1, <1>2, <1>6
  <2> QED BY <2>2 DEF ToSet
<1>7. ToSet(s) = ToSet(t) \cup {h}
  BY <1>5, <1>6, Zenon
<1> QED BY <1>1, <1>3, <1>4, <1>7, Zenon DEF t, h

(* Enqueuing several new things, each once. *)
LEMMA ConcatOfDistinct ==
    ASSUME NEW S, NEW s \in Seq(S), NEW u \in Seq(S),
           IsInjective(s), IsInjective(u), ToSet(s) \cap ToSet(u) = {}
    PROVE  /\ s \o u \in Seq(S)
           /\ IsInjective(s \o u)
           /\ ToSet(s \o u) = ToSet(s) \cup ToSet(u)
<1> DEFINE t == s \o u
<1>1. /\ t \in Seq(S)
      /\ Len(t) = Len(s) + Len(u)
      /\ \A i \in 1 .. Len(s) + Len(u) :
            t[i] = IF i <= Len(s) THEN s[i] ELSE u[i - Len(s)]
  BY ConcatProperties
<1>2. Len(s) \in Nat /\ Len(u) \in Nat
  OBVIOUS
<1> HIDE DEF t
<1>3. \A i \in 1 .. Len(s), j \in 1 .. Len(u) : s[i] # u[j]
  BY DEF ToSet
<1>4. IsInjective(t)
  <2> SUFFICES ASSUME NEW i \in 1 .. Len(t), NEW j \in 1 .. Len(t), t[i] = t[j]
               PROVE  i = j
    BY <1>1 DEF IsInjective
  <2>1. CASE i <= Len(s) /\ j <= Len(s)
    BY <2>1, <1>1, <1>2 DEF IsInjective
  <2>2. CASE i > Len(s) /\ j > Len(s)
    <3>1. /\ i - Len(s) \in DOMAIN u
          /\ j - Len(s) \in DOMAIN u
          /\ u[i - Len(s)] = u[j - Len(s)]
      BY <2>2, <1>1, <1>2
    <3>2. i - Len(s) = j - Len(s)
      BY <3>1 DEF IsInjective
    <3> QED BY <3>2, <1>1, <1>2
  <2>3. CASE i <= Len(s) /\ j > Len(s)
    <3>1. j - Len(s) \in 1 .. Len(u) /\ s[i] = u[j - Len(s)]
      BY <2>3, <1>1, <1>2
    <3> QED BY <3>1, <2>3, <1>1, <1>2, <1>3
  <2>4. CASE i > Len(s) /\ j <= Len(s)
    <3>1. i - Len(s) \in 1 .. Len(u) /\ s[j] = u[i - Len(s)]
      BY <2>4, <1>1, <1>2
    <3> QED BY <3>1, <2>4, <1>1, <1>2, <1>3
  <2> QED BY <2>1, <2>2, <2>3, <2>4, <1>1, <1>2
<1>5. ToSet(t) = ToSet(s) \cup ToSet(u)
  <2>1. ToSet(t) \subseteq ToSet(s) \cup ToSet(u)
    <3> SUFFICES ASSUME NEW i \in 1 .. Len(t)
                 PROVE  t[i] \in ToSet(s) \cup ToSet(u)
      BY <1>1 DEF ToSet
    <3>1. CASE i <= Len(s)
      BY <3>1, <1>1, <1>2 DEF ToSet
    <3>2. CASE i > Len(s)
      <4>1. i - Len(s) \in DOMAIN u /\ t[i] = u[i - Len(s)]
        BY <3>2, <1>1, <1>2
      <4> QED BY <4>1 DEF ToSet
    <3>3. i \in Int
      BY <1>1, <1>2
    <3> QED BY <3>1, <3>2, <3>3, <1>2
  <2>2. ToSet(s) \subseteq ToSet(t)
    BY <1>1, <1>2 DEF ToSet
  <2>3. ASSUME NEW j \in 1 .. Len(u)
        PROVE  u[j] \in ToSet(t)
    <3>1. /\ Len(s) + j \in 1 .. Len(s) + Len(u)
          /\ ~(Len(s) + j <= Len(s))
          /\ (Len(s) + j) - Len(s) = j
      BY <1>2
    <3>2. Len(s) + j \in DOMAIN t /\ t[Len(s) + j] = u[j]
      BY <3>1, <1>1
    <3> QED BY <3>2 DEF ToSet
  <2>4. ToSet(u) \subseteq ToSet(t)
    BY <2>3 DEF ToSet
  <2> QED BY <2>1, <2>2, <2>4
<1> QED BY <1>1, <1>4, <1>5 DEF t

-----------------------------------------------------------------------------
(***************************************************************************)
(* Induction, stated of a set: what holds at 0 and passes on from each     *)
(* number below n to the next one holds up to n.  The least number that is *)
(* not in T would be the least of the intervals that end at such a number, *)
(* and finite sets are well founded.                                       *)
(***************************************************************************)
LEMMA UpTo ==
    ASSUME NEW n \in Nat, NEW T, 0 \in T,
           \A i \in 0 .. n - 1 : i \in T => i + 1 \in T
    PROVE  0 .. n \subseteq T
<1> SUFFICES ASSUME NEW m \in 0 .. n, m \notin T
             PROVE  FALSE
  OBVIOUS
<1> DEFINE Bad == {0 .. k : k \in {j \in 0 .. n : j \notin T}}
<1>1. IsWellFoundedOn(StrictSubsetOrdering(Nat), FiniteSubsetsOf(Nat))
  BY FS_StrictSubsetOrderingWellFounded
<1>2. Bad \subseteq FiniteSubsetsOf(Nat)
  <2> SUFFICES ASSUME NEW k \in 0 .. n
               PROVE  0 .. k \in FiniteSubsetsOf(Nat)
    OBVIOUS
  <2>1. IsFiniteSet(0 .. k)
    BY FS_Interval
  <2> QED BY <2>1 DEF FiniteSubsetsOf
<1>3. Bad # {}
  OBVIOUS
<1>4. PICK x \in Bad : \A y \in Bad : ~(<<y, x>> \in StrictSubsetOrdering(Nat))
  <2> HIDE DEF Bad
  <2> QED BY <1>1, <1>2, <1>3, WFMin
<1>5. PICK k \in 0 .. n : k \notin T /\ x = 0 .. k
  OBVIOUS
<1>6. k - 1 \in 0 .. n - 1 /\ k - 1 \notin T
  BY <1>5
<1>7. 0 .. (k - 1) \in Bad
  BY <1>6
<1>8. <<0 .. (k - 1), x>> \in StrictSubsetOrdering(Nat)
  BY <1>5, <1>6 DEF StrictSubsetOrdering
<1> QED BY <1>4, <1>7, <1>8

(* A list, of whatever. *)
List(s) == s \in Seq(ToSet(s))

LEMMA ListOf ==
    ASSUME NEW S, NEW s \in Seq(S)
    PROVE  List(s)
<1>1. PICK n \in Nat : n = Len(s) /\ DOMAIN s = 1 .. n
  OBVIOUS
<1>2. s = [i \in 1 .. n |-> s[i]] /\ \A i \in 1 .. n : s[i] \in ToSet(s)
  BY <1>1 DEF ToSet
<1> QED BY <1>2 DEF List

LEMMA SmallLists ==
    /\ List(<<>>)
    /\ \A m : List(<<m>>)
    /\ \A m, n : List(<<m, n>>)
<1>1. <<>> \in Seq({})
  OBVIOUS
<1>2. ASSUME NEW m
      PROVE  <<m>> \in Seq({m})
  OBVIOUS
<1>3. ASSUME NEW m, NEW n
      PROVE  <<m, n>> \in Seq({m, n})
  OBVIOUS
<1> QED BY <1>1, <1>2, <1>3, ListOf

(* The largest element of a set of places of a list. *)
LEMMA MaxOfPlaces ==
    ASSUME NEW n \in Nat, NEW s \in SUBSET (1 .. n), s # {}
    PROVE  Max(s) \in s /\ \A y \in s : y <= Max(s)
<1> DEFINE T == {i \in 0 .. n : \A u \in SUBSET (1 .. i) :
                    u # {} => \E x \in u : \A y \in u : y <= x}
<1>1. 0 \in T
  <2>1. \A u \in SUBSET (1 .. 0) : u = {}
    OBVIOUS
  <2>2. 0 \in 0 .. n
    OBVIOUS
  <2> QED BY <2>1, <2>2, Zenon
<1>2. ASSUME NEW i \in 0 .. n - 1, i \in T
      PROVE  i + 1 \in T
  <2> SUFFICES ASSUME NEW u \in SUBSET (1 .. i + 1), u # {}
               PROVE  \E x \in u : \A y \in u : y <= x
    OBVIOUS
  <2>1. CASE i + 1 \in u
    BY <2>1
  <2>2. CASE i + 1 \notin u
    <3>1. u \in SUBSET (1 .. i)
      BY <2>2
    <3> QED BY <3>1, <1>2
  <2> QED BY <2>1, <2>2
<1> HIDE DEF T
<1>3. 0 .. n \subseteq T
  BY <1>1, <1>2, UpTo
<1>4. n \in T
  BY <1>3
<1>5. \E x \in s : \A y \in s : y <= x
  BY <1>4 DEF T
<1>6. \E x \in s : \A y \in s : x >= y
  BY <1>5
<1> QED BY <1>6 DEF Max

(* How the lists change, place by place. *)
LEMMA ListPlaces ==
    ASSUME NEW s, List(s)
    PROVE  Len(s) \in Nat /\ DOMAIN s = 1 .. Len(s)
BY DEF List

LEMMA ListAppend ==
    ASSUME NEW s, NEW y, List(s)
    PROVE  /\ List(Append(s, y))
           /\ Len(Append(s, y)) = Len(s) + 1
           /\ \A i \in 1 .. Len(s) : Append(s, y)[i] = s[i]
           /\ Append(s, y)[Len(s) + 1] = y
<1>1. ToSet(s) \subseteq ToSet(s) \cup {y}
  OBVIOUS
<1>2. PICK S : s \in Seq(S) /\ y \in S
  BY <1>1, SeqMonotonic DEF List
<1>3. Append(s, y) \in Seq(S)
  BY <1>2
<1>4. List(Append(s, y))
  BY <1>3, ListOf
<1> QED BY <1>2, <1>4, AppendProperties

LEMMA ListConcat ==
    ASSUME NEW s, NEW t, List(s), List(t)
    PROVE  /\ List(s \o t)
           /\ Len(s \o t) = Len(s) + Len(t)
           /\ \A i \in 1 .. Len(s) : (s \o t)[i] = s[i]
           /\ \A i \in 1 .. Len(t) : (s \o t)[Len(s) + i] = t[i]
<1>1. PICK S : s \in Seq(S) /\ t \in Seq(S)
  <2>1. ToSet(s) \subseteq ToSet(s) \cup ToSet(t) /\ ToSet(t) \subseteq ToSet(s) \cup ToSet(t)
    OBVIOUS
  <2>2. s \in Seq(ToSet(s) \cup ToSet(t)) /\ t \in Seq(ToSet(s) \cup ToSet(t))
    BY <2>1, SeqMonotonic DEF List
  <2> QED BY <2>2
<1>2. PICK u : u = s \o t
  OBVIOUS
<1>3. PICK m \in Nat, n \in Nat : m = Len(s) /\ n = Len(t)
  BY <1>1
<1>4. /\ u \in Seq(S) /\ Len(u) = m + n
      /\ \A i \in 1 .. m + n : u[i] = IF i <= m THEN s[i] ELSE t[i - m]
  BY <1>1, <1>2, <1>3, ConcatProperties
<1>5. List(u)
  BY <1>4, ListOf
<1>6. \A i \in 1 .. m : u[i] = s[i]
  BY <1>4
<1>7. ASSUME NEW i \in 1 .. n
      PROVE  u[m + i] = t[i]
  <2>1. m + i \in 1 .. m + n /\ ~(m + i <= m) /\ (m + i) - m = i
    OBVIOUS
  <2> QED BY <1>4, <2>1
<1> QED BY <1>2, <1>3, <1>4, <1>5, <1>6, <1>7

LEMMA ListAssociative ==
    ASSUME NEW s, NEW t, NEW u, List(s), List(t), List(u)
    PROVE  (s \o t) \o u = s \o (t \o u)
<1>1. PICK S : S = ToSet(s) \cup ToSet(t) \cup ToSet(u)
  OBVIOUS
<1>2. ToSet(s) \subseteq S /\ ToSet(t) \subseteq S /\ ToSet(u) \subseteq S
  BY <1>1
<1>3. s \in Seq(S) /\ t \in Seq(S) /\ u \in Seq(S)
  BY <1>2, SeqMonotonic DEF List
<1> QED BY <1>3, ConcatAssociative

LEMMA ListTail ==
    ASSUME NEW s, List(s), s # <<>>
    PROVE  /\ Len(s) \in Nat \ {0} /\ Head(s) = s[1]
           /\ List(Tail(s))
           /\ Len(Tail(s)) = Len(s) - 1
           /\ \A i \in 1 .. Len(s) - 1 : Tail(s)[i] = s[i + 1]
<1>1. s \in Seq(ToSet(s))
  BY DEF List
<1>2. Tail(s) \in Seq(ToSet(s))
  BY <1>1, HeadTailProperties
<1>3. List(Tail(s))
  BY <1>2, ListOf
<1> QED BY <1>1, <1>3, HeadTailProperties

LEMMA ListRemoveAt ==
    ASSUME NEW s, List(s), NEW k \in 1 .. Len(s)
    PROVE  /\ List(RemoveAt(s, k))
           /\ Len(RemoveAt(s, k)) = Len(s) - 1
           /\ \A i \in 1 .. Len(s) - 1 :
                 RemoveAt(s, k)[i] = IF i < k THEN s[i] ELSE s[i + 1]
<1>1. PICK n \in Nat : n = Len(s) /\ s \in Seq(ToSet(s)) /\ DOMAIN s = 1 .. n
  BY ListPlaces DEF List
<1>2. PICK b : b = SubSeq(s, 1, k - 1)
  OBVIOUS
<1>3. PICK c : c = SubSeq(s, k + 1, n)
  OBVIOUS
<1>4. /\ b \in Seq(ToSet(s)) /\ Len(b) = k - 1
      /\ \A i \in 1 .. k - 1 : b[i] = s[i]
  BY <1>1, <1>2, SubSeqProperties
<1>5. /\ c \in Seq(ToSet(s)) /\ Len(c) = n - k
      /\ \A i \in 1 .. n - k : c[i] = s[k + i]
  BY <1>1, <1>3, SubSeqProperties
<1>6. List(b) /\ List(c)
  BY <1>4, <1>5, ListOf
<1>7. PICK u : u = b \o c
  OBVIOUS
<1>8. RemoveAt(s, k) = u
  BY <1>1, <1>2, <1>3, <1>7 DEF RemoveAt
<1>9. /\ List(u) /\ Len(u) = (k - 1) + (n - k)
      /\ \A i \in 1 .. k - 1 : u[i] = b[i]
      /\ \A i \in 1 .. n - k : u[(k - 1) + i] = c[i]
  BY <1>4, <1>5, <1>6, <1>7, ListConcat
<1>10. ASSUME NEW i \in 1 .. n - 1
       PROVE  u[i] = IF i < k THEN s[i] ELSE s[i + 1]
  <2>1. CASE i < k
    BY <1>4, <1>9, <2>1
  <2>2. CASE ~(i < k)
    <3>1. i - (k - 1) \in 1 .. n - k /\ (k - 1) + (i - (k - 1)) = i /\ k + (i - (k - 1)) = i + 1
      BY <2>2
    <3>2. u[i] = c[i - (k - 1)] /\ c[i - (k - 1)] = s[i + 1]
      BY <1>5, <1>9, <3>1
    <3> QED BY <2>2, <3>2
  <2> QED BY <2>1, <2>2
<1> QED BY <1>1, <1>8, <1>9, <1>10

(* The smallest element of a set of places. *)
LEMMA MinOfPlaces ==
    ASSUME NEW n \in Nat, NEW s \in SUBSET (1 .. n), s # {}
    PROVE  Min(s) \in s /\ \A y \in s : Min(s) <= y
<1> DEFINE u == {i \in 1 .. n : \E y \in s : i = n + 1 - y}
<1>1. u \in SUBSET (1 .. n) /\ u # {}
  <2>1. PICK y \in s : TRUE
    OBVIOUS
  <2>2. n + 1 - y \in u
    OBVIOUS
  <2> QED BY <2>2
<1>2. \A y \in s : n + 1 - y \in u
  OBVIOUS
<1>3. PICK m \in s : Max(u) = n + 1 - m
  <2>1. Max(u) \in u
    <3> HIDE DEF u
    <3> QED BY <1>1, MaxOfPlaces
  <2> QED BY <2>1
<1>4. \A y \in u : y <= Max(u)
  <2> HIDE DEF u
  <2> QED BY <1>1, MaxOfPlaces
<1> HIDE DEF u
<1>5. \A y \in s : m <= y
  <2> TAKE y \in s
  <2>1. n + 1 - y <= n + 1 - m
    BY <1>2, <1>3, <1>4
  <2> QED BY <2>1
<1> QED BY <1>5 DEF Min

(* A finite set written out as a list: each element once. *)
LEMMA SetToSeqOfFinite ==
    ASSUME NEW S, IsFiniteSet(S)
    PROVE  /\ SetToSeq(S) \in Seq(S)
           /\ IsInjective(SetToSeq(S))
           /\ ToSet(SetToSeq(S)) = S
<1>1. PICK n \in Nat : n = Cardinality(S) /\ ExistsBijection(1 .. n, S)
  BY FS_CardinalityType
<1>2. \E f \in [1 .. n -> S] : IsInjective(f)
  BY <1>1 DEF ExistsBijection, Bijection, Injection
<1>3. PICK q : q = SetToSeq(S)
  OBVIOUS
<1>4. q \in [1 .. n -> S] /\ IsInjective(q)
  BY <1>1, <1>2, <1>3, Zenon DEF SetToSeq
<1>5. q \in Injection(1 .. n, S)
  BY <1>4 DEF Injection
<1>6. Cardinality(1 .. n) = n
  BY FS_Interval
<1>7. q \in Surjection(1 .. n, S)
  BY <1>1, <1>5, <1>6, FS_Injection
<1>8. \A s \in S : \E i \in 1 .. n : q[i] = s
  BY <1>7 DEF Surjection
<1>9. q \in Seq(S) /\ DOMAIN q = 1 .. n
  BY <1>4
<1>10. ToSet(q) = S
  BY <1>4, <1>8, <1>9 DEF ToSet
<1> QED BY <1>3, <1>4, <1>9, <1>10

-----------------------------------------------------------------------------
(***************************************************************************)
(* Flattening, and how often something is in a sequence.                   *)
(***************************************************************************)
Flattens(h, ss, n) ==
    h = [i \in 1 .. n |-> IF i = 1 THEN ss[i] ELSE h[i - 1] \o ss[i]]

Joins(h, ss, i) ==
    /\ i = 1 => h[i] = ss[i]
    /\ i # 1 => h[i] = h[i - 1] \o ss[i]

LEMMA FlattenStep ==
    ASSUME NEW h, NEW ss, NEW n, Flattens(h, ss, n), NEW i \in 1 .. n
    PROVE  Joins(h, ss, i)
<1> DEFINE f == [k \in 1 .. n |-> IF k = 1 THEN ss[k] ELSE h[k - 1] \o ss[k]]
<1>1. f[i] = IF i = 1 THEN ss[i] ELSE h[i - 1] \o ss[i]
  BY Zenon
<1>2. h = f
  BY Zenon DEF Flattens
<1> HIDE DEF f
<1> QED BY <1>1, <1>2, Zenon DEF Joins

LEMMA FlattenExists ==
    ASSUME NEW ss, NEW n \in Nat
    PROVE  \E h : Flattens(h, ss, n)
<1> DEFINE T == {k \in 0 .. n : \E h : Flattens(h, ss, k)}
<1>1. 0 \in T
  <2> DEFINE h == [i \in 1 .. 0 |-> ss[i]]
  <2>1. Flattens(h, ss, 0)
    <3>1. 1 .. 0 = {}
      OBVIOUS
    <3> QED BY <3>1, Zenon DEF Flattens
  <2> HIDE DEF h
  <2> QED BY <2>1
<1>2. ASSUME NEW k \in 0 .. n - 1, k \in T
      PROVE  k + 1 \in T
  <2>1. PICK h : Flattens(h, ss, k)
    BY <1>2
  <2> DEFINE last == IF k + 1 = 1 THEN ss[k + 1] ELSE h[k] \o ss[k + 1]
             more == [i \in 1 .. k + 1 |-> IF i = k + 1 THEN last ELSE h[i]]
             next == [i \in 1 .. k + 1 |->
                        IF i = 1 THEN ss[i] ELSE more[i - 1] \o ss[i]]
  <2>2. ASSUME NEW i \in 1 .. k + 1
        PROVE  more[i] = next[i]
    <3>1. CASE i = k + 1
      <4>1. i # 1 => i - 1 = k /\ k \in 1 .. k + 1 /\ k # k + 1
        BY <3>1
      <4>2. i # 1 => more[i - 1] = h[k]
        BY <4>1, Zenon
      <4>3. more[i] = last
        BY <3>1, Zenon
      <4>4. next[i] = IF i = 1 THEN ss[i] ELSE more[i - 1] \o ss[i]
        BY Zenon
      <4> HIDE DEF more, next
      <4> QED BY <3>1, <4>2, <4>3, <4>4, Zenon
    <3>2. CASE i # k + 1
      <4>1. i \in 1 .. k /\ (i # 1 => i - 1 \in 1 .. k + 1 /\ i - 1 # k + 1)
        BY <3>2
      <4>2. (i = 1 => h[i] = ss[i]) /\ (i # 1 => h[i] = h[i - 1] \o ss[i])
        <5> HIDE DEF T, more, next, last
        <5>1. Flattens(h, ss, k) /\ i \in 1 .. k
          BY <2>1, <4>1
        <5>2. Joins(h, ss, i)
          BY <5>1, FlattenStep
        <5> QED BY <5>2, Zenon DEF Joins
      <4>3. i # 1 => more[i - 1] = h[i - 1]
        BY <4>1, Zenon
      <4>4. more[i] = h[i]
        BY <3>2, Zenon
      <4>5. next[i] = IF i = 1 THEN ss[i] ELSE more[i - 1] \o ss[i]
        BY Zenon
      <4> HIDE DEF more, next
      <4> QED BY <4>2, <4>3, <4>4, <4>5, Zenon
    <3> QED BY <3>1, <3>2
  <2>3. more = next
    BY <2>2, Zenon
  <2>4. Flattens(more, ss, k + 1)
    BY <2>3, Zenon DEF Flattens
  <2> HIDE DEF more
  <2> QED BY <2>4
<1> HIDE DEF T
<1>3. 0 .. n \subseteq T
  BY <1>1, <1>2, UpTo
<1> QED BY <1>3 DEF T

(* The value of FlattenSeq is where such a sequence of prefixes ends. *)
LEMMA FlattenRuns ==
    ASSUME NEW ss, NEW n \in Nat, Len(ss) = n, n # 0
    PROVE  \E h : Flattens(h, ss, n) /\ FlattenSeq(ss) = h[n]
<1> DEFINE h == CHOOSE f : Flattens(f, ss, n)
<1>1. FlattenSeq(ss) = h[n]
  BY Zenon DEF FlattenSeq, Flattens
<1>2. Flattens(h, ss, n)
  BY FlattenExists, Zenon
<1> HIDE DEF h
<1> QED BY <1>1, <1>2

(* One part, or two. *)
LEMMA FlattenFew ==
    /\ FlattenSeq(<<>>) = <<>>
    /\ \A s : FlattenSeq(<<s>>) = s
    /\ \A s, t : FlattenSeq(<<s, t>>) = s \o t
<1>1. FlattenSeq(<<>>) = <<>>
  BY DEF FlattenSeq
<1>2. ASSUME NEW s
      PROVE  FlattenSeq(<<s>>) = s
  <2>1. PICK ss : ss = <<s>>
    OBVIOUS
  <2>2. Len(ss) = 1 /\ ss[1] = s
    BY <2>1
  <2>0. PICK n \in Nat : n = 1
    OBVIOUS
  <2>7. PICK h : Flattens(h, ss, n) /\ FlattenSeq(ss) = h[n]
    <3>1. Len(ss) = n /\ n # 0
      BY <2>0, <2>2
    <3> QED BY <3>1, FlattenRuns
  <2>3. Flattens(h, ss, 1) /\ FlattenSeq(ss) = h[1]
    BY <2>0, <2>7
  <2>4. Joins(h, ss, 1)
    BY <2>3, FlattenStep
  <2> QED BY <2>1, <2>2, <2>3, <2>4 DEF Joins
<1>3. ASSUME NEW s, NEW t
      PROVE  FlattenSeq(<<s, t>>) = s \o t
  <2>1. PICK ss : ss = <<s, t>>
    OBVIOUS
  <2>2. Len(ss) = 2 /\ ss[1] = s /\ ss[2] = t
    BY <2>1
  <2>0. PICK n \in Nat : n = 2
    OBVIOUS
  <2>7. PICK h : Flattens(h, ss, n) /\ FlattenSeq(ss) = h[n]
    <3>1. Len(ss) = n /\ n # 0
      BY <2>0, <2>2
    <3> QED BY <3>1, FlattenRuns
  <2>3. Flattens(h, ss, 2) /\ FlattenSeq(ss) = h[2]
    BY <2>0, <2>7
  <2>4. Joins(h, ss, 1) /\ Joins(h, ss, 2)
    BY <2>3, FlattenStep
  <2>5. h[1] = s /\ h[2] = h[2 - 1] \o t /\ 2 - 1 = 1
    BY <2>2, <2>4 DEF Joins
  <2>6. h[2] = s \o t
    BY <2>5, Zenon
  <2> QED BY <2>1, <2>3, <2>6
<1> QED BY <1>1, <1>2, <1>3

LEMMA FlattenType ==
    ASSUME NEW S, NEW ss \in Seq(Seq(S))
    PROVE  FlattenSeq(ss) \in Seq(S)
<1>1. PICK n \in Nat : n = Len(ss) /\ DOMAIN ss = 1 .. n
  OBVIOUS
<1>2. CASE n = 0
  <2>1. FlattenSeq(ss) = ss
    BY <1>1, <1>2, Zenon DEF FlattenSeq
  <2> QED BY <1>1, <1>2, <2>1, EmptySeq
<1>3. CASE n # 0
  <2>1. PICK h : Flattens(h, ss, n) /\ FlattenSeq(ss) = h[n]
    BY <1>1, <1>3, FlattenRuns
  <2> DEFINE T == {k \in 0 .. n : k = 0 \/ h[k] \in Seq(S)}
  <2>2. 0 \in T
    OBVIOUS
  <2>3. ASSUME NEW k \in 0 .. n - 1, k \in T
        PROVE  k + 1 \in T
    <3>1. k + 1 \in 1 .. n /\ ss[k + 1] \in Seq(S)
      BY <1>1
    <3>2. /\ k + 1 = 1 => h[k + 1] = ss[k + 1]
          /\ k + 1 # 1 => h[k + 1] = h[(k + 1) - 1] \o ss[k + 1]
      <4> HIDE DEF T
      <4>1. PICK j \in 1 .. n : j = k + 1
        BY <3>1
      <4>2. Joins(h, ss, j)
        BY <2>1, FlattenStep
      <4> QED BY <4>1, <4>2, Zenon DEF Joins
    <3>3. CASE k = 0
      BY <3>1, <3>2, <3>3
    <3>4. CASE k # 0
      <4>1. h[k] \in Seq(S)
        BY <2>3, <3>4
      <4>2. h[k + 1] = h[k] \o ss[k + 1]
        <5>1. k + 1 # 1 /\ (k + 1) - 1 = k
          BY <3>4
        <5> QED BY <3>2, <5>1, Zenon
      <4>3. h[k + 1] \in Seq(S)
        BY <3>1, <4>1, <4>2, ConcatProperties
      <4> QED BY <3>1, <4>3
    <3> QED BY <3>3, <3>4
  <2> HIDE DEF T
  <2>4. 0 .. n \subseteq T
    BY <2>2, <2>3, UpTo
  <2> QED BY <1>3, <2>1, <2>4 DEF T
<1> QED BY <1>2, <1>3

(* Two lists of parts, one after the other. *)
LEMMA FlattenConcat ==
    ASSUME NEW ss, NEW tt, List(ss), List(tt),
           \A i \in 1 .. Len(ss) : List(ss[i]),
           \A i \in 1 .. Len(tt) : List(tt[i])
    PROVE  /\ List(FlattenSeq(ss))
           /\ FlattenSeq(ss \o tt) = FlattenSeq(ss) \o FlattenSeq(tt)
<1>1. PICK n \in Nat, m \in Nat : n = Len(ss) /\ m = Len(tt)
  BY ListPlaces
<1>2. PICK uu : uu = ss \o tt
  OBVIOUS
<1>3. /\ List(uu) /\ Len(uu) = n + m
      /\ \A i \in 1 .. n : uu[i] = ss[i]
      /\ \A i \in 1 .. m : uu[n + i] = tt[i]
  BY <1>1, <1>2, ListConcat
<1>4. FlattenSeq(<<>>) = <<>> /\ List(<<>>)
  BY FlattenFew, SmallLists
<1>5. \A s : List(s) => <<>> \o s = s /\ s \o <<>> = s
  BY ConcatEmptySeq DEF List
<1>6. PICK g : n # 0 => Flattens(g, ss, n) /\ FlattenSeq(ss) = g[n]
  <2>1. CASE n = 0
    BY <2>1
  <2>2. CASE n # 0
    BY <1>1, <2>2, FlattenRuns
  <2> QED BY <2>1, <2>2
<1>7. ASSUME n # 0
      PROVE  \A k \in 1 .. n : List(g[k])
  <2>1. Flattens(g, ss, n)
    BY <1>6, <1>7
  <2> DEFINE T == {k \in 0 .. n : k = 0 \/ List(g[k])}
  <2>2. 0 \in T
    OBVIOUS
  <2>3. ASSUME NEW k \in 0 .. n - 1, k \in T
        PROVE  k + 1 \in T
    <3>1. PICK j \in 1 .. n : j = k + 1 /\ j - 1 = k
      OBVIOUS
    <3>2. Joins(g, ss, j)
      <4> HIDE DEF T
      <4> QED BY <2>1, FlattenStep
    <3>3. List(ss[j])
      BY <1>1
    <3>4. CASE k = 0
      <4>1. g[j] = ss[j]
        BY <3>1, <3>2, <3>4 DEF Joins
      <4> QED BY <3>1, <3>3, <4>1
    <3>5. CASE k # 0
      <4>1. List(g[k])
        BY <2>3, <3>5
      <4>2. g[j] = g[k] \o ss[j]
        <5>1. j # 1
          BY <3>1, <3>5
        <5>2. g[j] = g[j - 1] \o ss[j]
          BY <3>2, <5>1, Zenon DEF Joins
        <5> QED BY <3>1, <5>2, Zenon
      <4>3. List(g[j])
        <5> HIDE DEF T
        <5> QED BY <3>3, <4>1, <4>2, ListConcat
      <4> QED BY <3>1, <4>3
    <3> QED BY <3>4, <3>5
  <2> HIDE DEF T
  <2>4. 0 .. n \subseteq T
    BY <2>2, <2>3, UpTo
  <2> QED BY <2>4 DEF T
<1>8. List(FlattenSeq(ss))
  <2>1. CASE n = 0
    <3>1. ss = <<>>
      BY <1>1, <2>1, EmptySeq DEF List
    <3> QED BY <1>4, <3>1
  <2>2. CASE n # 0
    <3>1. n \in 1 .. n
      BY <2>2
    <3> QED BY <1>6, <1>7, <2>2, <3>1
  <2> QED BY <2>1, <2>2
<1>9. CASE m = 0
  <2>1. tt = <<>>
    BY <1>1, <1>9, EmptySeq DEF List
  <2> QED BY <1>4, <1>5, <1>8, <2>1
<1>10. CASE m # 0
  <2>1. PICK h : Flattens(h, tt, m) /\ FlattenSeq(tt) = h[m]
    BY <1>1, <1>10, FlattenRuns
  <2>2. PICK f : Flattens(f, uu, n + m) /\ FlattenSeq(uu) = f[n + m]
    <3>1. n + m \in Nat /\ n + m # 0
      BY <1>10
    <3>2. PICK k \in Nat : k = n + m /\ k # 0
      BY <3>1
    <3>3. \E f : Flattens(f, uu, k) /\ FlattenSeq(uu) = f[k]
      BY <1>3, <3>2, FlattenRuns
    <3> QED BY <3>2, <3>3
  <2>3. \A i \in 1 .. n + m : Joins(f, uu, i)
    <3>1. PICK k \in Nat : k = n + m
      OBVIOUS
    <3>2. \A i \in 1 .. k : Joins(f, uu, i)
      BY <2>2, <3>1, FlattenStep
    <3> QED BY <3>1, <3>2
  <2>4. ASSUME n # 0
        PROVE  f[n] = g[n]
    <3> DEFINE T == {k \in 0 .. n : k = 0 \/ f[k] = g[k]}
    <3>1. 0 \in T
      OBVIOUS
    <3>2. ASSUME NEW k \in 0 .. n - 1, k \in T
          PROVE  k + 1 \in T
      <4>1. PICK j \in 1 .. n : j = k + 1 /\ j - 1 = k /\ j \in 1 .. n + m
        OBVIOUS
      <4>2. Joins(g, ss, j)
        <5> HIDE DEF T
        <5>1. Flattens(g, ss, n)
          BY <1>6, <2>4
        <5> QED BY <5>1, FlattenStep
      <4>3. Joins(f, uu, j) /\ uu[j] = ss[j]
        BY <1>3, <2>3, <4>1
      <4>4. CASE k = 0
        <5>1. f[j] = uu[j] /\ g[j] = ss[j]
          BY <4>1, <4>2, <4>3, <4>4 DEF Joins
        <5> QED BY <4>1, <4>3, <5>1
      <4>5. CASE k # 0
        <5>1. f[k] = g[k] /\ j # 1
          BY <3>2, <4>1, <4>5
        <5>2. f[j] = f[j - 1] \o uu[j] /\ g[j] = g[j - 1] \o ss[j]
          BY <4>2, <4>3, <5>1, Zenon DEF Joins
        <5>3. f[j] = g[j]
          BY <4>1, <4>3, <5>1, <5>2, Zenon
        <5> QED BY <4>1, <5>3
      <4> QED BY <4>4, <4>5
    <3> HIDE DEF T
    <3>3. 0 .. n \subseteq T
      BY <3>1, <3>2, UpTo
    <3>4. n \in T
      BY <3>3
    <3> QED BY <2>4, <3>4 DEF T
  <2>5. PICK b : b = FlattenSeq(ss)
    OBVIOUS
  <2>6. List(b) /\ (n # 0 => f[n] = b)
    BY <1>6, <1>8, <2>4, <2>5
  <2>7. n = 0 => b = <<>>
    <3> SUFFICES ASSUME n = 0
                 PROVE  b = <<>>
      OBVIOUS
    <3>1. ss = <<>>
      BY <1>1, EmptySeq DEF List
    <3> QED BY <1>4, <2>5, <3>1
  <2> DEFINE U == {k \in 0 .. m : k = 0 \/ (List(h[k]) /\ f[n + k] = b \o h[k])}
  <2>8. 0 \in U
    OBVIOUS
  <2>9. ASSUME NEW k \in 0 .. m - 1, k \in U
        PROVE  k + 1 \in U
    <3>1. PICK j \in 1 .. m : j = k + 1 /\ j - 1 = k
      OBVIOUS
    <3>2. PICK i \in 1 .. n + m : i = n + j /\ i - 1 = n + k
      BY <3>1
    <3>3. Joins(h, tt, j)
      <4> HIDE DEF U
      <4> QED BY <2>1, FlattenStep
    <3>4. Joins(f, uu, i) /\ uu[i] = tt[j] /\ List(tt[j])
      BY <1>1, <1>3, <2>3, <3>2
    <3>5. CASE k = 0
      <4>1. j = 1 /\ h[j] = tt[j]
        BY <3>1, <3>3, <3>5 DEF Joins
      <4>2. CASE n = 0
        <5>1. i = 1
          BY <3>2, <4>1, <4>2
        <5>2. f[i] = tt[j]
          BY <3>4, <5>1, Zenon DEF Joins
        <5>3. b \o h[j] = h[j]
          BY <1>5, <2>7, <3>4, <4>1, <4>2
        <5>4. List(h[j]) /\ f[n + j] = b \o h[j]
          <6> HIDE DEF U
          <6>1. List(h[j]) /\ f[i] = h[j]
            BY <3>4, <4>1, <5>2
          <6>2. f[n + j] = f[i]
            BY <3>2
          <6> QED BY <5>3, <6>1, <6>2, Zenon
        <5> QED BY <3>1, <5>4
      <4>3. CASE n # 0
        <5>1. i # 1 /\ i - 1 = n
          BY <3>2, <3>5, <4>1, <4>3
        <5>2. f[i] = f[i - 1] \o uu[i]
          BY <3>4, <5>1, Zenon DEF Joins
        <5>3. f[i] = b \o h[j]
          BY <2>6, <3>4, <4>1, <4>3, <5>1, <5>2, Zenon
        <5>4. List(h[j]) /\ f[n + j] = f[i]
          BY <3>2, <3>4, <4>1
        <5>5. List(h[j]) /\ f[n + j] = b \o h[j]
          BY <5>3, <5>4, Zenon
        <5> QED BY <3>1, <5>5
      <4> QED BY <4>2, <4>3
    <3>6. CASE k # 0
      <4>1. List(h[k]) /\ f[n + k] = b \o h[k]
        BY <2>9, <3>6
      <4>2. j # 1 /\ i # 1
        BY <3>1, <3>2, <3>6
      <4>3. f[i] = f[i - 1] \o uu[i] /\ h[j] = h[j - 1] \o tt[j]
        BY <3>3, <3>4, <4>2, Zenon DEF Joins
      <4>4. f[i] = (b \o h[k]) \o tt[j] /\ h[j] = h[k] \o tt[j]
        BY <3>1, <3>2, <3>4, <4>1, <4>3, Zenon
      <4>5. (b \o h[k]) \o tt[j] = b \o (h[k] \o tt[j])
        <5> HIDE DEF U
        <5>1. PICK x, y : x = h[k] /\ y = tt[j]
          OBVIOUS
        <5>2. List(x) /\ List(y)
          BY <3>4, <4>1, <5>1
        <5>3. (b \o x) \o y = b \o (x \o y)
          BY <2>6, <5>2, ListAssociative, SMTT(60)
        <5> QED BY <5>1, <5>3
      <4>6. List(h[j])
        <5> HIDE DEF U
        <5> QED BY <3>4, <4>1, <4>4, ListConcat
      <4>7. f[n + j] = b \o h[j]
        BY <3>2, <4>4, <4>5
      <4> QED BY <3>1, <4>6, <4>7
    <3> QED BY <3>5, <3>6
  <2> HIDE DEF U
  <2>10. 0 .. m \subseteq U
    BY <2>8, <2>9, UpTo
  <2>11. f[n + m] = b \o h[m]
    <3>1. m \in U
      BY <2>10
    <3> QED BY <1>10, <3>1 DEF U
  <2> QED BY <1>2, <1>8, <2>1, <2>2, <2>5, <2>11
<1> QED BY <1>9, <1>10

(* Parts of one element each. *)
StartsAs(s, v, k) ==
    v \in Seq(ToSet(s)) /\ Len(v) = k /\ \A i \in 1 .. k : v[i] = s[i]

LEMMA FlattenSingles ==
    ASSUME NEW s, List(s), NEW ss, Len(ss) = Len(s),
           \A i \in 1 .. Len(s) : ss[i] = <<s[i]>>
    PROVE  FlattenSeq(ss) = s
<1>1. PICK n \in Nat : n = Len(s) /\ s \in Seq(ToSet(s)) /\ DOMAIN s = 1 .. n
  BY ListPlaces DEF List
<1>2. CASE n = 0
  <2>1. s = <<>>
    BY <1>1, <1>2, EmptySeq
  <2>2. FlattenSeq(ss) = <<>>
    BY <1>1, <1>2 DEF FlattenSeq
  <2> QED BY <2>1, <2>2
<1>3. CASE n # 0
  <2>1. PICK h : Flattens(h, ss, n) /\ FlattenSeq(ss) = h[n]
    BY <1>1, <1>3, FlattenRuns
  <2> DEFINE T == {k \in 0 .. n : k = 0 \/ StartsAs(s, h[k], k)}
  <2>2. 0 \in T
    OBVIOUS
  <2>3. ASSUME NEW k \in 0 .. n - 1, k \in T
        PROVE  k + 1 \in T
    <3>1. PICK j \in 1 .. n : j = k + 1 /\ j - 1 = k
      OBVIOUS
    <3>2. Joins(h, ss, j)
      <4> HIDE DEF T
      <4> QED BY <2>1, FlattenStep
    <3>3. PICK y : y = s[j] /\ y \in ToSet(s) /\ ss[j] = <<y>>
      BY <1>1 DEF ToSet
    <3>4. CASE k = 0
      <4>1. j = 1
        BY <3>1, <3>4
      <4>2. h[j] = <<y>>
        BY <3>2, <3>3, <4>1, Zenon DEF Joins
      <4>3. PICK v : v = h[j]
        OBVIOUS
      <4>4. v \in Seq(ToSet(s)) /\ Len(v) = 1 /\ v[1] = y
        <5> HIDE DEF T
        <5> QED BY <3>3, <4>2, <4>3
      <4>5. StartsAs(s, h[j], j)
        <5> HIDE DEF T
        <5>1. \A i \in 1 .. 1 : i = 1
          OBVIOUS
        <5> QED BY <3>3, <4>1, <4>3, <4>4, <5>1 DEF StartsAs
      <4> QED BY <3>1, <4>5
    <3>5. CASE k # 0
      <4>1. PICK v : /\ v = h[k] /\ v \in Seq(ToSet(s)) /\ Len(v) = k
                     /\ \A i \in 1 .. k : v[i] = s[i]
        BY <2>3, <3>5 DEF StartsAs
      <4>2. h[j] = h[j - 1] \o ss[j]
        <5>1. j # 1
          BY <3>1, <3>5
        <5> QED BY <3>2, <5>1, Zenon DEF Joins
      <4>3. PICK o : o = <<y>>
        OBVIOUS
      <4>4. h[j] = v \o o
        BY <3>1, <3>3, <4>1, <4>2, <4>3, Zenon
      <4>5. o \in Seq(ToSet(s)) /\ Len(o) = 1 /\ o[1] = y
        BY <3>3, <4>3
      <4>6. PICK w : w = v \o o
        OBVIOUS
      <4>7. /\ w \in Seq(ToSet(s)) /\ Len(w) = k + 1
            /\ \A i \in 1 .. k : w[i] = v[i]
            /\ w[k + 1] = y
        <5> HIDE DEF T
        <5>0. PICK S : S = ToSet(s)
          OBVIOUS
        <5>1. /\ w \in Seq(S) /\ Len(w) = Len(v) + Len(o)
              /\ \A i \in 1 .. Len(v) : w[i] = v[i]
              /\ \A i \in 1 .. Len(o) : w[Len(v) + i] = o[i]
          <6>1. v \in Seq(S) /\ o \in Seq(S)
            BY <4>1, <4>5, <5>0
          <6> QED BY <4>6, <6>1, ConcatProperties
        <5>2. 1 \in 1 .. 1
          OBVIOUS
        <5> QED BY <4>1, <4>5, <5>0, <5>1, <5>2
      <4>8. \A i \in 1 .. j : w[i] = s[i]
        <5> HIDE DEF T
        <5>1. \A i \in 1 .. j : i \in 1 .. k \/ i = k + 1
          BY <3>1
        <5> QED BY <3>1, <3>3, <4>1, <4>7, <5>1
      <4>9. StartsAs(s, h[j], j)
        <5> HIDE DEF T
        <5> QED BY <3>1, <4>4, <4>6, <4>7, <4>8 DEF StartsAs
      <4> QED BY <3>1, <4>9
    <3> QED BY <3>4, <3>5
  <2> HIDE DEF T
  <2>4. 0 .. n \subseteq T
    BY <2>2, <2>3, UpTo
  <2>5. n \in T
    BY <2>4
  <2>6. /\ h[n] \in Seq(ToSet(s)) /\ Len(h[n]) = n /\ \A i \in 1 .. n : h[n][i] = s[i]
    BY <1>3, <2>5 DEF T, StartsAs
  <2>7. h[n] = s
    BY <1>1, <2>6, SeqEqual
  <2> QED BY <2>1, <2>7
<1> QED BY <1>2, <1>3

Places(s, x) == {j \in DOMAIN s : s[j] = x}
CountOf(s, x) == Cardinality(Places(s, x))

LEMMA PlacesFinite ==
    ASSUME NEW S, NEW s \in Seq(S), NEW x
    PROVE  IsFiniteSet(Places(s, x)) /\ CountOf(s, x) \in Nat
<1>1. IsFiniteSet(1 .. Len(s)) /\ DOMAIN s = 1 .. Len(s)
  BY FS_Interval
<1>2. Places(s, x) \in SUBSET (1 .. Len(s))
  BY <1>1 DEF Places
<1>3. IsFiniteSet(Places(s, x))
  BY <1>1, <1>2, FS_Subset
<1> QED BY <1>3, FS_CardinalityType DEF CountOf

LEMMA CountConcat ==
    ASSUME NEW S, NEW s \in Seq(S), NEW t \in Seq(S), NEW x
    PROVE  CountOf(s \o t, x) = CountOf(s, x) + CountOf(t, x)
<1>1. PICK n \in Nat : n = Len(s) /\ DOMAIN s = 1 .. n
  OBVIOUS
<1>2. PICK m \in Nat : m = Len(t) /\ DOMAIN t = 1 .. m
  OBVIOUS
<1>3. PICK u \in Seq(S) : u = s \o t
  BY ConcatProperties
<1>4. /\ DOMAIN u = 1 .. n + m
      /\ \A j \in 1 .. n : u[j] = s[j]
      /\ \A j \in 1 .. m : u[n + j] = t[j]
  <2>1. /\ Len(u) = n + m
        /\ \A j \in 1 .. n + m : u[j] = IF j <= n THEN s[j] ELSE t[j - n]
    BY <1>1, <1>2, <1>3, ConcatProperties
  <2>2. ASSUME NEW j \in 1 .. m
        PROVE  u[n + j] = t[j]
    <3>1. n + j \in 1 .. n + m /\ ~(n + j <= n) /\ (n + j) - n = j
      OBVIOUS
    <3> QED BY <2>1, <3>1
  <2>3. ASSUME NEW j \in 1 .. n
        PROVE  u[j] = s[j]
    <3>1. j \in 1 .. n + m /\ j <= n
      OBVIOUS
    <3> QED BY <2>1, <3>1
  <2>4. DOMAIN u = 1 .. n + m
    BY <2>1
  <2> QED BY <2>2, <2>3, <2>4
<1> DEFINE A == Places(s, x)
           B == Places(t, x)
           C == {j \in n + 1 .. n + m : u[j] = x}
           f == [j \in B |-> n + j]
<1>5. IsFiniteSet(A) /\ IsFiniteSet(B)
  BY PlacesFinite
<1>6. Places(u, x) = A \cup C /\ A \cap C = {}
  BY <1>1, <1>4 DEF Places
<1>7. f \in Bijection(B, C)
  <2>1. f \in [B -> C]
    BY <1>2, <1>4 DEF Places
  <2>2. \A i, j \in B : f[i] = f[j] => i = j
    BY <1>2 DEF Places
  <2>3. ASSUME NEW c \in C
        PROVE  \E j \in B : f[j] = c
    <3>1. c - n \in 1 .. m /\ n + (c - n) = c
      OBVIOUS
    <3>2. t[c - n] = x
      BY <1>4, <3>1
    <3>3. c - n \in B
      BY <1>2, <3>1, <3>2 DEF Places
    <3> QED BY <3>1, <3>3
  <2> HIDE DEF f, B, C
  <2> QED BY <2>1, <2>2, <2>3 DEF Bijection, Injection, Surjection, IsInjective
<1>8. ExistsBijection(B, C)
  <2> HIDE DEF f
  <2> QED BY <1>7 DEF ExistsBijection
<1> HIDE DEF A, B, C, f
<1>9. IsFiniteSet(C) /\ Cardinality(C) = Cardinality(B)
  BY <1>5, <1>8, FS_Bijection
<1>10. Cardinality(A \cup C) = Cardinality(A) + Cardinality(C)
  <2>1. /\ Cardinality(A \cup C) = Cardinality(A) + Cardinality(C) - Cardinality(A \cap C)
        /\ Cardinality(A) \in Nat /\ Cardinality(C) \in Nat
    BY <1>5, <1>9, FS_Union, FS_CardinalityType
  <2>2. Cardinality(A \cap C) = 0
    BY <1>6, FS_EmptySet
  <2> QED BY <2>1, <2>2
<1>11. Cardinality(Places(u, x)) = Cardinality(A) + Cardinality(B)
  BY <1>6, <1>9, <1>10
<1> QED BY <1>3, <1>11 DEF CountOf, A, B

LEMMA CountAppend ==
    ASSUME NEW S, NEW s \in Seq(S), NEW y \in S, NEW x
    PROVE  CountOf(Append(s, y), x) = CountOf(s, x) + (IF y = x THEN 1 ELSE 0)
<1>1. Append(s, y) = s \o <<y>> /\ <<y>> \in Seq(S)
  BY AppendIsConcat
<1>2. CountOf(<<y>>, x) = IF y = x THEN 1 ELSE 0
  <2>1. DOMAIN <<y>> = {1} /\ <<y>>[1] = y
    OBVIOUS
  <2>2. y = x => Places(<<y>>, x) = {1}
    BY <2>1 DEF Places
  <2>3. y # x => Places(<<y>>, x) = {}
    BY <2>1 DEF Places
  <2> QED BY <2>2, <2>3, FS_EmptySet, FS_Singleton DEF CountOf
<1>3. CountOf(s \o <<y>>, x) = CountOf(s, x) + CountOf(<<y>>, x)
  BY <1>1, CountConcat
<1> QED BY <1>1, <1>2, <1>3

LEMMA CountNothing ==
    ASSUME NEW x
    PROVE  CountOf(<<>>, x) = 0
<1>1. Places(<<>>, x) = {}
  BY DEF Places
<1> QED BY <1>1, FS_EmptySet DEF CountOf

(* A list that says nothing but x. *)
LEMMA CountAll ==
    ASSUME NEW n \in Nat, NEW x
    PROVE  CountOf([i \in 1 .. n |-> x], x) = n
<1>1. Places([i \in 1 .. n |-> x], x) = 1 .. n
  BY DEF Places
<1>2. Cardinality(1 .. n) = n
  BY FS_Interval
<1> QED BY <1>1, <1>2 DEF CountOf

LEMMA CountNone ==
    ASSUME NEW n \in Nat, NEW x, NEW y, x # y
    PROVE  CountOf([i \in 1 .. n |-> x], y) = 0
<1>1. Places([i \in 1 .. n |-> x], y) = {}
  BY DEF Places
<1> QED BY <1>1, FS_EmptySet DEF CountOf

(* When x is in at most one part, its count is that of the part. *)
LEMMA CountFlatten ==
    ASSUME NEW S, NEW ss \in Seq(Seq(S)), NEW x, NEW k \in Nat,
           \A i \in DOMAIN ss : i # k => CountOf(ss[i], x) = 0
    PROVE  CountOf(FlattenSeq(ss), x) = IF k \in DOMAIN ss THEN CountOf(ss[k], x) ELSE 0
<1>1. PICK n \in Nat : n = Len(ss) /\ DOMAIN ss = 1 .. n
  OBVIOUS
<1> DEFINE has(i) == IF k \in 1 .. i THEN CountOf(ss[k], x) ELSE 0
<1>2. CASE n = 0
  <2>1. FlattenSeq(ss) = ss /\ ss = <<>>
    BY <1>1, <1>2, EmptySeq DEF FlattenSeq
  <2> QED BY <1>1, <1>2, <2>1, CountNothing
<1>3. CASE n # 0
  <2>1. PICK h : Flattens(h, ss, n) /\ FlattenSeq(ss) = h[n]
    BY <1>1, <1>3, FlattenRuns
  <2> DEFINE T == {i \in 0 .. n : i = 0 \/ (h[i] \in Seq(S) /\ CountOf(h[i], x) = has(i))}
  <2>2. 0 \in T
    OBVIOUS
  <2>3. ASSUME NEW i \in 0 .. n - 1, i \in T
        PROVE  i + 1 \in T
    <3>1. PICK j \in 1 .. n : j = i + 1
      OBVIOUS
    <3>2. ss[j] \in Seq(S) /\ Joins(h, ss, j)
      <4> HIDE DEF T, has
      <4> QED BY <1>1, <2>1, FlattenStep
    <3>3. CountOf(ss[j], x) \in Nat /\ (j # k => CountOf(ss[j], x) = 0)
      <4> HIDE DEF T, has
      <4> QED BY <1>1, <3>2, PlacesFinite
    <3>4. CASE j = 1
      <4>1. h[j] = ss[j]
        BY <3>2, <3>4, Zenon DEF Joins
      <4>2. h[j] \in Seq(S) /\ CountOf(h[j], x) = has(j)
        BY <3>2, <3>3, <3>4, <4>1
      <4> QED BY <3>1, <4>2
    <3>5. CASE j # 1
      <4>1. h[j] = h[j - 1] \o ss[j]
        BY <3>2, <3>5, Zenon DEF Joins
      <4>0. j - 1 = i
        BY <3>1
      <4>2. h[i] \in Seq(S) /\ CountOf(h[i], x) = has(i)
        BY <2>3, <3>1, <3>5
      <4>3. h[j] = h[i] \o ss[j]
        BY <4>0, <4>1, Zenon
      <4>4. h[j] \in Seq(S) /\ CountOf(h[j], x) = CountOf(h[i], x) + CountOf(ss[j], x)
        <5> HIDE DEF T, has
        <5> QED BY <3>2, <4>2, <4>3, ConcatProperties, CountConcat
      <4>5. has(j) = has(i) + CountOf(ss[j], x)
        <5>1. CASE k = j
          <6>1. k \in 1 .. j /\ k \notin 1 .. i
            BY <3>1, <5>1
          <6> QED BY <3>3, <5>1, <6>1
        <5>2. CASE k # j
          <6>1. k \in 1 .. j <=> k \in 1 .. i
            BY <3>1, <5>2
          <6>2. CountOf(ss[j], x) = 0 /\ has(j) = has(i)
            BY <3>3, <5>2, <6>1
          <6>3. has(i) \in Nat
            <7>1. k \in 1 .. i => CountOf(ss[k], x) \in Nat
              <8> SUFFICES ASSUME k \in 1 .. i
                           PROVE  CountOf(ss[k], x) \in Nat
                OBVIOUS
              <8>1. k \in 1 .. n
                BY <3>1
              <8>2. ss[k] \in Seq(S)
                BY <1>1, <8>1
              <8> QED BY <8>2, PlacesFinite
            <7> QED BY <7>1
          <6> QED BY <6>2, <6>3
        <5> QED BY <5>1, <5>2
      <4> QED BY <3>1, <4>2, <4>4, <4>5
    <3> QED BY <3>4, <3>5
  <2> HIDE DEF T
  <2>4. 0 .. n \subseteq T
    BY <2>2, <2>3, UpTo
  <2>5. n \in T
    BY <2>4
  <2> QED BY <1>1, <1>3, <2>1, <2>5 DEF T
<1> QED BY <1>2, <1>3

(* A list that says nothing twice. *)
LEMMA CountOne ==
    ASSUME NEW S, NEW s \in Seq(S), NEW x
    PROVE  /\ x \in ToSet(s) <=> CountOf(s, x) # 0
           /\ CountOf(s, x) \in {0, 1} =>
                 \A i, j \in DOMAIN s : s[i] = x /\ s[j] = x => i = j
           /\ (\A i, j \in DOMAIN s : s[i] = x /\ s[j] = x => i = j) =>
                 CountOf(s, x) \in {0, 1}
<1>1. IsFiniteSet(Places(s, x)) /\ CountOf(s, x) \in Nat
  BY PlacesFinite
<1>2. Places(s, x) = {} <=> CountOf(s, x) = 0
  BY <1>1, FS_EmptySet DEF CountOf
<1>3. x \in ToSet(s) <=> Places(s, x) # {}
  BY DEF Places, ToSet
<1>4. ASSUME CountOf(s, x) = 1, NEW i \in DOMAIN s, NEW j \in DOMAIN s, s[i] = x, s[j] = x
      PROVE  i = j
  <2>1. PICK k : Places(s, x) = {k}
    BY <1>1, <1>4, FS_Singleton DEF CountOf
  <2>2. i \in Places(s, x) /\ j \in Places(s, x)
    BY <1>4 DEF Places
  <2> QED BY <2>1, <2>2
<1>5. ASSUME NEW i \in DOMAIN s, s[i] = x,
             \A k, j \in DOMAIN s : s[k] = x /\ s[j] = x => k = j
      PROVE  CountOf(s, x) = 1
  <2>1. Places(s, x) = {i}
    BY <1>5 DEF Places
  <2> QED BY <2>1, FS_Singleton DEF CountOf
<1>6. Places(s, x) # {} => \E i \in DOMAIN s : s[i] = x
  BY DEF Places
<1>7. CountOf(s, x) = 0 => \A i \in DOMAIN s : s[i] # x
  BY <1>2 DEF Places
<1> QED BY <1>1, <1>2, <1>3, <1>4, <1>5, <1>6, <1>7

(* Of a list without repetition, what is in a set, in the same order. *)
Chosen(s, A) == FlattenSeq([i \in DOMAIN s |-> IF s[i] \in A THEN <<s[i]>> ELSE <<>>])

LEMMA ChosenOfDistinct ==
    ASSUME NEW S, NEW s \in Seq(S), IsInjective(s), NEW A
    PROVE  /\ Chosen(s, A) \in Seq(S)
           /\ IsInjective(Chosen(s, A))
           /\ ToSet(Chosen(s, A)) = ToSet(s) \cap A
<1>1. PICK ss : ss = [i \in DOMAIN s |-> IF s[i] \in A THEN <<s[i]>> ELSE <<>>]
  OBVIOUS
<1>2. PICK n \in Nat : n = Len(s) /\ DOMAIN s = 1 .. n
  OBVIOUS
<1>3. /\ \A i \in 1 .. n : ss[i] = IF s[i] \in A THEN <<s[i]>> ELSE <<>>
      /\ DOMAIN ss = 1 .. n
      /\ \A i \in 1 .. n : s[i] \in S
  BY <1>1, <1>2
<1>4. ASSUME NEW i \in 1 .. n
      PROVE  ss[i] \in Seq(S)
  <2>1. CASE s[i] \in A
    <3>1. PICK y \in S : y = s[i]
      BY <1>3
    <3>2. <<y>> \in Seq(S)
      OBVIOUS
    <3>3. ss[i] = <<y>>
      BY <1>3, <2>1, <3>1
    <3> QED BY <3>2, <3>3, Zenon
  <2>2. CASE s[i] \notin A
    <3>1. ss[i] = <<>>
      BY <1>3, <2>2
    <3> QED BY <3>1, EmptySeq, Zenon
  <2> QED BY <2>1, <2>2
<1>5. ss \in Seq(Seq(S))
  BY <1>1, <1>2, <1>3, <1>4, SeqDef
<1>6. PICK t \in Seq(S) : t = FlattenSeq(ss)
  BY <1>5, FlattenType
<1>7. ASSUME NEW x
      PROVE  /\ CountOf(t, x) \in {0, 1}
             /\ CountOf(t, x) # 0 <=> x \in ToSet(s) \cap A
  <2>1. ASSUME NEW i \in 1 .. n
        PROVE  CountOf(ss[i], x) = IF s[i] = x /\ x \in A THEN 1 ELSE 0
    <3>1. CASE s[i] \in A
      <4>1. PICK y \in S : y = s[i] /\ ss[i] = <<y>>
        BY <1>3, <3>1
      <4>2. CountOf(<<y>>, x) = CountOf(<<>>, x) + (IF y = x THEN 1 ELSE 0)
        <5>0. <<>> \in Seq(S) /\ <<y>> = Append(<<>>, y)
          BY EmptySeq
        <5>1. PICK o \in Seq(S) : o = <<>> /\ <<y>> = Append(o, y)
          BY <5>0, Zenon
        <5>2. CountOf(Append(o, y), x) = CountOf(o, x) + (IF y = x THEN 1 ELSE 0)
          BY CountAppend
        <5> QED BY <5>1, <5>2
      <4>3. CountOf(<<>>, x) = 0
        BY CountNothing
      <4> QED BY <3>1, <4>1, <4>2, <4>3
    <3>2. CASE s[i] \notin A
      BY <1>3, <3>2, CountNothing
    <3> QED BY <3>1, <3>2
  <2>2. CASE x \in ToSet(s) \cap A
    <3>1. PICK k \in 1 .. n : s[k] = x
      BY <1>2, <2>2 DEF ToSet
    <3>2. \A i \in 1 .. n : i # k => s[i] # x
      BY <1>2, <3>1 DEF IsInjective
    <3>3. \A i \in DOMAIN ss : i # k => CountOf(ss[i], x) = 0
      BY <1>3, <2>1, <3>2
    <3>4. CountOf(t, x) = IF k \in DOMAIN ss THEN CountOf(ss[k], x) ELSE 0
      <4>1. k \in Nat
        OBVIOUS
      <4>2. CountOf(FlattenSeq(ss), x) = IF k \in DOMAIN ss THEN CountOf(ss[k], x) ELSE 0
        BY <1>5, <3>3, <4>1, CountFlatten
      <4> QED BY <1>6, <4>2
    <3>5. CountOf(ss[k], x) = 1
      BY <2>1, <2>2, <3>1
    <3> QED BY <1>3, <2>2, <3>4, <3>5
  <2>3. CASE x \notin ToSet(s) \cap A
    <3>1. \A i \in DOMAIN ss : CountOf(ss[i], x) = 0
      BY <1>2, <1>3, <2>1, <2>3 DEF ToSet
    <3>2. PICK k \in Nat : k = 0
      OBVIOUS
    <3>3. CountOf(t, x) = IF k \in DOMAIN ss THEN CountOf(ss[k], x) ELSE 0
      BY <1>5, <1>6, <3>1, CountFlatten
    <3> QED BY <1>3, <2>3, <3>2, <3>3
  <2> QED BY <2>2, <2>3
<1>8. IsInjective(t)
  <2>1. \A i, j \in DOMAIN t : t[i] = t[j] => i = j
    BY <1>7, CountOne
  <2> QED BY <2>1 DEF IsInjective
<1>9. ToSet(t) = ToSet(s) \cap A
  <2>1. \A x : x \in ToSet(t) <=> x \in ToSet(s) \cap A
    BY <1>7, CountOne
  <2> QED BY <2>1
<1> QED BY <1>1, <1>6, <1>8, <1>9 DEF Chosen

(* The list without its first n elements. *)
LEMMA LaterPlaces ==
    ASSUME NEW S, NEW s \in Seq(S), NEW n \in Nat
    PROVE  LET r == SubSeq(s, n + 1, Len(s))
           IN  /\ r \in Seq(S)
               /\ \A i \in 1 .. Len(r) : n + i \in 1 .. Len(s) /\ r[i] = s[n + i]
<1>1. PICK l \in Int : l = Len(s) /\ l >= 0
  OBVIOUS
<1>2. PICK m \in Int : m = n + 1
  OBVIOUS
<1>3. PICK r : r = SubSeq(s, m, l)
  OBVIOUS
<1>4. \A i \in m .. l : s[i] \in S
  <2>1. \A i \in m .. l : i \in 1 .. Len(s)
    BY <1>1, <1>2
  <2> QED BY <2>1
<1>5. /\ r \in Seq(S)
      /\ Len(r) = IF m <= l THEN l - m + 1 ELSE 0
      /\ \A i \in 1 .. l - m + 1 : r[i] = s[m + i - 1]
  BY <1>3, <1>4, SubSeqProperties
<1>6. \A i \in 1 .. Len(r) : /\ i \in 1 .. l - m + 1 /\ m + i - 1 = n + i
                             /\ n + i \in 1 .. Len(s)
  BY <1>1, <1>2, <1>5
<1>7. \A i \in 1 .. Len(r) : r[i] = s[n + i]
  BY <1>5, <1>6
<1> QED BY <1>1, <1>2, <1>3, <1>5, <1>6, <1>7

(* What a function on 1 .. n is. *)
LEMMA ListOfPlaces ==
    ASSUME NEW n \in Nat, NEW f, f = [i \in 1 .. n |-> f[i]]
    PROVE  List(f) /\ Len(f) = n
<1>1. DOMAIN f = 1 .. n
  OBVIOUS
<1>2. f \in Seq({f[i] : i \in 1 .. n}) /\ Len(f) = n
  BY <1>1
<1> QED BY <1>2, ListOf

==============================================================================
