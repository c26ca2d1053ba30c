------------------------------ MODULE FoldLemmas ------------------------------
(***************************************************************************)
(* Folds over a sequence: FoldLeft, whose recursion takes the last place   *)
(* of a set of places away first, is where the run of Step over the        *)
(* sequence ends.  Step's last argument is what stays the same along the   *)
(* way.  Good is what a proof says of the value after i steps.             *)
(***************************************************************************)
EXTENDS QueueLemmas

CONSTANTS Step(_, _, _), Good(_, _, _)

Fold(v, ms, c) == FoldLeft(LAMBDA q, m : Step(q, m, c), v, ms)

Runs(h, v, ms, c) ==
    /\ h[0] = v
    /\ \A i \in 1 .. Len(ms) : h[i] = Step(h[i - 1], ms[i], c)

(* The recursion that defines the fold, on the places up to k. *)
Folds(it, v, ms, c, k) ==
    it = [s \in SUBSET (1 .. k) |->
            IF s = {} THEN v ELSE Step(it[s \ {Max(s)}], ms[Max(s)], c)]

(* What it says of one set of places. *)
FoldsAt(it, v, ms, c, s) ==
    /\ s = {} => it[s] = v
    /\ s # {} => it[s] = Step(it[s \ {Max(s)}], ms[Max(s)], c)

LEMMA FoldStep ==
    ASSUME NEW it, NEW v, NEW ms, NEW c, NEW k, Folds(it, v, ms, c, k),
           NEW s \in SUBSET (1 .. k)
    PROVE  FoldsAt(it, v, ms, c, s)
<1> DEFINE f == [u \in SUBSET (1 .. k) |->
                   IF u = {} THEN v ELSE Step(it[u \ {Max(u)}], ms[Max(u)], c)]
<1>1. f[s] = IF s = {} THEN v ELSE Step(it[s \ {Max(s)}], ms[Max(s)], c)
  OBVIOUS
<1>2. it = f
  BY Zenon DEF Folds
<1> HIDE DEF f
<1> QED BY <1>1, <1>2, Zenon DEF FoldsAt

LEMMA FoldExists ==
    ASSUME NEW v, NEW ms, NEW c, NEW n \in Nat
    PROVE  \E it : Folds(it, v, ms, c, n)
<1> DEFINE T == {k \in 0 .. n : \E it : Folds(it, v, ms, c, k)}
<1>1. 0 \in T
  <2> DEFINE it == [s \in SUBSET (1 .. 0) |-> v]
  <2>1. SUBSET (1 .. 0) = {{}}
    OBVIOUS
  <2>2. Folds(it, v, ms, c, 0)
    BY <2>1 DEF Folds
  <2> HIDE DEF it
  <2> QED BY <2>2
<1>2. ASSUME NEW k \in 0 .. n - 1, k \in T
      PROVE  k + 1 \in T
  <2>1. PICK it : Folds(it, v, ms, c, k)
    BY <1>2
  <2> DEFINE more == [s \in SUBSET (1 .. k + 1) |->
                        IF k + 1 \in s THEN Step(it[s \ {k + 1}], ms[k + 1], c)
                        ELSE it[s]]
             next == [s \in SUBSET (1 .. k + 1) |->
                        IF s = {} THEN v ELSE Step(more[s \ {Max(s)}], ms[Max(s)], c)]
  <2>2. ASSUME NEW s \in SUBSET (1 .. k + 1)
        PROVE  more[s] = next[s]
    <3>1. CASE k + 1 \in s
      <4>1. Max(s) = k + 1
        <5> HIDE DEF more, next
        <5>1. k + 1 \in Nat /\ s # {}
          BY <3>1
        <5>2. Max(s) \in s /\ \A y \in s : y <= Max(s)
          BY <5>1, MaxOfPlaces, Zenon
        <5>3. PICK m : m = Max(s)
          OBVIOUS
        <5>4. m \in 1 .. k + 1 /\ k + 1 <= m
          BY <3>1, <5>2, <5>3, Zenon
        <5>5. m = k + 1
          BY <5>4
        <5> QED BY <5>3, <5>5
      <4>2. PICK u : u = s \ {k + 1}
        OBVIOUS
      <4>3. u \in SUBSET (1 .. k + 1) /\ k + 1 \notin u /\ s # {}
        BY <3>1, <4>2
      <4>4. more[u] = it[u]
        BY <4>3
      <4>5. more[s] = Step(it[u], ms[k + 1], c)
        BY <3>1, <4>2, Zenon
      <4>6. next[s] = Step(more[u], ms[k + 1], c)
        BY <4>1, <4>2, <4>3, Zenon
      <4> QED BY <4>4, <4>5, <4>6, Zenon
    <3>2. CASE k + 1 \notin s
      <4>1. s \in SUBSET (1 .. k)
        BY <3>2
      <4>2. more[s] = it[s]
        BY <3>2
      <4>3. CASE s = {}
        BY <2>1, <4>1, <4>2, <4>3, FoldStep DEF FoldsAt
      <4>4. CASE s # {}
        <5>1. PICK u : u = s \ {Max(s)}
          OBVIOUS
        <5>2. u \in SUBSET (1 .. k) /\ u \in SUBSET (1 .. k + 1) /\ k + 1 \notin u
          BY <3>2, <4>1, <5>1, Zenon
        <5>3. more[u] = it[u]
          BY <5>2, Zenon
        <5>4. it[s] = Step(it[u], ms[Max(s)], c)
          <6>1. it[s] = Step(it[s \ {Max(s)}], ms[Max(s)], c)
            <7> HIDE DEF more, next, T
            <7>1. FoldsAt(it, v, ms, c, s)
              BY <2>1, <4>1, FoldStep, SMT
            <7> QED BY <4>4, <7>1, Zenon DEF FoldsAt
          <6> QED BY <5>1, <6>1, Zenon
        <5>5. next[s] = Step(more[u], ms[Max(s)], c)
          BY <4>4, <5>1, Zenon
        <5> QED BY <4>2, <5>3, <5>4, <5>5, Zenon
      <4> QED BY <4>3, <4>4
    <3> QED BY <3>1, <3>2
  <2>3. more = next
    BY <2>2, Zenon
  <2>4. Folds(more, v, ms, c, k + 1)
    BY <2>3, Zenon DEF Folds
  <2> HIDE DEF more
  <2> QED BY <2>4
<1> HIDE DEF T
<1>3. 0 .. n \subseteq T
  BY <1>1, <1>2, UpTo
<1> QED BY <1>3 DEF T

(* The fold has a run, which ends at its value. *)
LEMMA FoldRuns ==
    ASSUME NEW v, NEW c, NEW S, NEW ms \in Seq(S)
    PROVE  \E h : Runs(h, v, ms, c) /\ Fold(v, ms, c) = h[Len(ms)]
<1>1. PICK n \in Nat : n = Len(ms) /\ DOMAIN ms = 1 .. n
  OBVIOUS
<1> DEFINE it == CHOOSE f : Folds(f, v, ms, c, n)
           h == [i \in 0 .. n |-> it[1 .. i]]
<1>2. Fold(v, ms, c) = it[1 .. n]
  BY <1>1 DEF Fold, FoldLeft, MapThenFoldSet, Folds
<1>3. Folds(it, v, ms, c, n)
  BY FoldExists, Zenon
<1> HIDE DEF it
<1>4. h[0] = v
  <2>1. PICK s : s = 1 .. 0
    OBVIOUS
  <2>2. s = {} /\ s \in SUBSET (1 .. n)
    BY <2>1
  <2>3. it[s] = v
    BY <1>3, <2>2, FoldStep, Zenon DEF FoldsAt
  <2>4. h[0] = it[s]
    BY <2>1
  <2> QED BY <2>3, <2>4, Zenon
<1>5. ASSUME NEW i \in 1 .. n
      PROVE  h[i] = Step(h[i - 1], ms[i], c)
  <2> HIDE DEF h
  <2>1. /\ 1 .. i \in SUBSET (1 .. n) /\ 1 .. i # {}
        /\ i - 1 \in 0 .. n /\ i \in 0 .. n
    <3>1. i \in 1 .. i /\ \A j \in 1 .. i : j \in 1 .. n
      OBVIOUS
    <3>2. i - 1 \in 0 .. n /\ i \in 0 .. n
      OBVIOUS
    <3> QED BY <3>1, <3>2, Zenon
  <2>2. Max(1 .. i) = i
    <3>1. PICK m : m = Max(1 .. i)
      OBVIOUS
    <3>2. m \in 1 .. i /\ \A y \in 1 .. i : y <= m
      BY <2>1, <3>1, MaxOfPlaces, Zenon
    <3>3. m = i
      BY <3>2
    <3> QED BY <3>1, <3>3
  <2>3. (1 .. i) \ {i} = 1 .. (i - 1)
    OBVIOUS
  <2>4. it[1 .. i] = Step(it[1 .. (i - 1)], ms[i], c)
    <3>1. it[1 .. i] = Step(it[(1 .. i) \ {Max(1 .. i)}], ms[Max(1 .. i)], c)
      <4>1. PICK s : s = 1 .. i
        OBVIOUS
      <4>2. it[s] = Step(it[s \ {Max(s)}], ms[Max(s)], c)
        <5>1. s \in SUBSET (1 .. n) /\ s # {}
          BY <2>1, <4>1, Zenon
        <5>2. FoldsAt(it, v, ms, c, s)
          <6> HIDE <2>1, <4>1
          <6> QED BY <1>3, <5>1, FoldStep, SMT
        <5> QED BY <5>1, <5>2, Zenon DEF FoldsAt
      <4> QED BY <4>1, <4>2, Zenon
    <3> QED BY <2>2, <2>3, <3>1, Zenon
  <2>5. h[i] = it[1 .. i] /\ h[i - 1] = it[1 .. (i - 1)]
    BY <2>1, Zenon DEF h
  <2> QED BY <2>4, <2>5, Zenon
<1>6. h[n] = it[1 .. n]
  OBVIOUS
<1>7. Runs(h, v, ms, c)
  BY <1>1, <1>4, <1>5 DEF Runs
<1> HIDE DEF h
<1> QED BY <1>1, <1>2, <1>6, <1>7

(* And so does every run. *)
LEMMA FoldAtEnd ==
    ASSUME NEW v, NEW c, NEW S, NEW ms \in Seq(S), NEW h, Runs(h, v, ms, c)
    PROVE  Fold(v, ms, c) = h[Len(ms)]
<1>1. PICK g : Runs(g, v, ms, c) /\ Fold(v, ms, c) = g[Len(ms)]
  BY FoldRuns
<1>2. PICK n \in Nat : n = Len(ms)
  OBVIOUS
<1> DEFINE T == {i \in 0 .. n : g[i] = h[i]}
<1>3. 0 \in T
  BY <1>1 DEF Runs
<1>4. ASSUME NEW i \in 0 .. n - 1, i \in T
      PROVE  i + 1 \in T
  <2>1. i + 1 \in 1 .. n /\ (i + 1) - 1 = i
    OBVIOUS
  <2>2. /\ g[i + 1] = Step(g[(i + 1) - 1], ms[i + 1], c)
        /\ h[i + 1] = Step(h[(i + 1) - 1], ms[i + 1], c)
    BY <1>1, <1>2, <2>1, Zenon DEF Runs
  <2>3. g[i] = h[i]
    BY <1>4
  <2>4. g[i + 1] = h[i + 1]
    BY <2>1, <2>2, <2>3, Zenon
  <2> QED BY <2>1, <2>4
<1> HIDE DEF T
<1>5. 0 .. n \subseteq T
  BY <1>3, <1>4, UpTo
<1>6. n \in T
  BY <1>5
<1> QED BY <1>1, <1>2, <1>6 DEF T

LEMMA FoldNothing ==
    ASSUME NEW v, NEW c
    PROVE  Fold(v, <<>>, c) = v
<1>1. PICK h : Runs(h, v, <<>>, c) /\ Fold(v, <<>>, c) = h[Len(<<>>)]
  <2>1. <<>> \in Seq({})
    OBVIOUS
  <2> QED BY <2>1, FoldRuns
<1> QED BY <1>1 DEF Runs

LEMMA FoldOne ==
    ASSUME NEW v, NEW m, NEW c
    PROVE  Fold(v, <<m>>, c) = Step(v, m, c)
<1>1. PICK ms : ms = <<m>>
  OBVIOUS
<1>2. ms \in Seq({m}) /\ Len(ms) = 1 /\ ms[1] = m
  BY <1>1
<1>3. PICK h : Runs(h, v, ms, c) /\ Fold(v, ms, c) = h[Len(ms)]
  BY <1>2, FoldRuns
<1>4. h[0] = v /\ h[1] = Step(h[1 - 1], ms[1], c) /\ 1 - 1 = 0
  BY <1>2, <1>3 DEF Runs
<1>5. h[1] = Step(v, m, c)
  BY <1>2, <1>4, Zenon
<1> QED BY <1>1, <1>2, <1>3, <1>5

LEMMA FoldTwo ==
    ASSUME NEW v, NEW m, NEW n, NEW c
    PROVE  Fold(v, <<m, n>>, c) = Step(Step(v, m, c), n, c)
<1>1. PICK ms : ms = <<m, n>>
  OBVIOUS
<1>2. ms \in Seq({m, n}) /\ Len(ms) = 2 /\ ms[1] = m /\ ms[2] = n
  BY <1>1
<1>3. PICK h : Runs(h, v, ms, c) /\ Fold(v, ms, c) = h[Len(ms)]
  BY <1>2, FoldRuns
<1>4. /\ h[0] = v /\ 1 - 1 = 0 /\ 2 - 1 = 1
      /\ h[1] = Step(h[1 - 1], ms[1], c)
      /\ h[2] = Step(h[2 - 1], ms[2], c)
  BY <1>2, <1>3 DEF Runs
<1>5. h[2] = Step(Step(v, m, c), n, c)
  BY <1>2, <1>4, Zenon
<1> QED BY <1>1, <1>2, <1>3, <1>5

(* Two sequences, one after the other. *)
LEMMA FoldConcat ==
    ASSUME NEW v, NEW c, NEW s, NEW t, List(s), List(t)
    PROVE  List(s \o t) /\ Fold(v, s \o t, c) = Fold(Fold(v, s, c), t, c)
<1>0. PICK S : s \in Seq(S) /\ t \in Seq(S)
  <2>1. ToSet(s) \subseteq ToSet(s) \cup ToSet(t) /\ ToSet(t) \subseteq ToSet(s) \cup ToSet(t)
    OBVIOUS
  <2>2. s \in Seq(ToSet(s) \cup ToSet(t)) /\ t \in Seq(ToSet(s) \cup ToSet(t))
    BY <2>1, SeqMonotonic DEF List
  <2> QED BY <2>2
<1>1. PICK g : Runs(g, v, s, c) /\ Fold(v, s, c) = g[Len(s)]
  BY <1>0, FoldRuns
<1>2. PICK w : w = Fold(v, s, c)
  OBVIOUS
<1>3. PICK h : Runs(h, w, t, c) /\ Fold(w, t, c) = h[Len(t)]
  BY <1>0, FoldRuns
<1>4. PICK m \in Nat, n \in Nat : m = Len(s) /\ n = Len(t)
  BY <1>0
<1>5. PICK u : u = s \o t
  OBVIOUS
<1>6. /\ u \in Seq(S) /\ Len(u) = m + n
      /\ \A i \in 1 .. m + n : u[i] = IF i <= m THEN s[i] ELSE t[i - m]
  BY <1>0, <1>4, <1>5, ConcatProperties
<1>7. PICK f : f = [i \in 0 .. m + n |-> IF i <= m THEN g[i] ELSE h[i - m]]
  OBVIOUS
<1>8. /\ \A i \in 0 .. m : f[i] = g[i]
      /\ \A i \in 0 .. m + n : ~(i <= m) => f[i] = h[i - m]
      /\ g[m] = w /\ h[0] = w /\ g[0] = v
  BY <1>1, <1>2, <1>3, <1>4, <1>7 DEF Runs
<1>9. ASSUME NEW i \in 1 .. m + n
      PROVE  f[i] = Step(f[i - 1], u[i], c)
  <2>1. CASE i <= m
    <3>1. i \in 1 .. m /\ i \in 0 .. m /\ i - 1 \in 0 .. m
      BY <2>1
    <3>2. g[i] = Step(g[i - 1], s[i], c)
      BY <1>1, <1>4, <3>1, Zenon DEF Runs
    <3>3. u[i] = s[i]
      BY <1>6, <2>1
    <3>4. f[i] = g[i] /\ f[i - 1] = g[i - 1]
      BY <1>8, <3>1
    <3> QED BY <3>2, <3>3, <3>4, Zenon
  <2>2. CASE ~(i <= m)
    <3>1. i - m \in 1 .. n /\ (i - m) - 1 = (i - 1) - m /\ i \in 0 .. m + n /\ i - 1 \in 0 .. m + n
      BY <2>2
    <3>2. h[i - m] = Step(h[(i - m) - 1], t[i - m], c)
      BY <1>3, <1>4, <3>1, Zenon DEF Runs
    <3>3. u[i] = t[i - m]
      BY <1>6, <2>2
    <3>4. f[i] = h[i - m]
      BY <1>8, <2>2, <3>1
    <3>5. f[i - 1] = h[(i - 1) - m]
      <4>1. CASE i - 1 <= m
        <5>1. i - 1 = m /\ m \in 0 .. m
          BY <2>2, <4>1
        <5>2. f[m] = w /\ (i - 1) - m = 0
          BY <1>8, <5>1
        <5> QED BY <1>8, <5>1, <5>2
      <4>2. CASE ~(i - 1 <= m)
        BY <1>8, <3>1, <4>2
      <4> QED BY <4>1, <4>2
    <3> QED BY <3>1, <3>2, <3>3, <3>4, <3>5, Zenon
  <2> QED BY <2>1, <2>2
<1>10. Runs(f, v, u, c)
  <2>1. f[0] = v
    BY <1>8
  <2> QED BY <1>6, <1>9, <2>1 DEF Runs
<1>11. Fold(v, u, c) = f[m + n]
  BY <1>6, <1>10, FoldAtEnd
<1>12. f[m + n] = h[n]
  <2>1. CASE n = 0
    BY <1>8, <2>1
  <2>2. CASE n # 0
    <3>1. ~(m + n <= m) /\ (m + n) - m = n /\ m + n \in 0 .. m + n
      BY <2>2
    <3> QED BY <1>8, <3>1
  <2> QED BY <2>1, <2>2
<1>13. List(u)
  BY <1>6, ListOf
<1> QED BY <1>2, <1>3, <1>4, <1>5, <1>11, <1>12, <1>13, Zenon

(* What holds at first and is handed on by every step holds at the end. *)
LEMMA FoldInduction ==
    ASSUME NEW v, NEW c, NEW d, NEW S, NEW ms \in Seq(S),
           Good(v, 0, d),
           \A i \in 1 .. Len(ms) : \A q :
              Good(q, i - 1, d) => Good(Step(q, ms[i], c), i, d)
    PROVE  Good(Fold(v, ms, c), Len(ms), d)
<1>1. PICK h : Runs(h, v, ms, c) /\ Fold(v, ms, c) = h[Len(ms)]
  BY FoldRuns
<1>2. PICK n \in Nat : n = Len(ms)
  OBVIOUS
<1> DEFINE T == {i \in 0 .. n : Good(h[i], i, d)}
<1>3. 0 \in T
  <2>1. Good(h[0], 0, d)
    BY <1>1, Zenon DEF Runs
  <2> QED BY <2>1
<1>4. ASSUME NEW i \in 0 .. n - 1, i \in T
      PROVE  i + 1 \in T
  <2>1. PICK j \in 1 .. n : j = i + 1 /\ j - 1 = i
    OBVIOUS
  <2>2. Good(h[i], i, d)
    BY <1>4
  <2>3. h[j] = Step(h[i], ms[j], c)
    BY <1>1, <1>2, <2>1 DEF Runs
  <2>4. Good(h[j], j, d)
    BY <1>2, <2>1, <2>2, <2>3, Zenon
  <2> QED BY <2>1, <2>4
<1> HIDE DEF T
<1>5. 0 .. n \subseteq T
  BY <1>3, <1>4, UpTo
<1>6. n \in T
  BY <1>5
<1>7. Good(h[n], n, d)
  BY <1>6 DEF T
<1> QED BY <1>1, <1>2, <1>7
===============================================================================
