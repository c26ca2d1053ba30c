--------------------------- MODULE PokerTableProofs ---------------------------
(***************************************************************************)
(* The poker game, proved for any end points, realms, shuffles and files   *)
(* left by version 1: a page is a session (TablesOK), the sender of a      *)
(* command is known to whoever reads it, but for an answer to one who has  *)
(* left (SendersKnown), and the lists are those at the table.              *)
(*                                                                         *)
(* The inductive invariant, PInv, is IInv of the relay with the Seat of    *)
(* each end point: what its page lists and waits to send, by where it is   *)
(* (no number, a number, the table), and to whom it may still answer, by   *)
(* what has happened since all was quiet.  First the lemmas about reading: *)
(* what each handler makes of a page (Moves).  Then one lemma for each     *)
(* action, which folds the handlers over what a request sends.             *)
(***************************************************************************)
EXTENDS PokerTable, RelayProofs

-----------------------------------------------------------------------------
(***************************************************************************)
(* The shape of a page, part by part.  Nothing is said of names, texts and *)
(* options.                                                                *)
(***************************************************************************)
Fields == {"name", "users", "box", "dealer", "former", "deck", "hand",
           "community", "pot", "out", "missed", "back"}

UserOK(u) == /\ DOMAIN u = {"id", "name", "chips", "bet", "folded"}
             /\ u.id \in Nat /\ u.chips \in Int /\ u.bet \in Int
             /\ u.folded \in BOOLEAN

(* The list of the users u, of whom no two have the same number. *)
ListOK(u) == /\ List(u)
             /\ \A i \in 1 .. Len(u) : UserOK(u[i])
             /\ \A i, j \in 1 .. Len(u) : u[i].id = u[j].id => i = j
IdSet(u) == {u[i].id : i \in 1 .. Len(u)}

Kinds == {"chips", "pot", "cards", "community"}
Money == {"chips", "pot"}
DataOK(key, data) == key[1] \in Kinds /\ (key[1] \in Money => data \in Seq(Int))

Commands == {"TELL_ME_ABOUT_YOU", "NAME", "CHIPS", "FOLD", "CHECK", "BET", "CLAIM",
             "DEALER", "SHUFFLE", "YOUR_CARDS", "FLOP_CARDS", "TURN_CARD"}
CommandOK(c) == /\ c.command \in Commands
                /\ c.command \in {"CHIPS", "BET"} => c.parameters[1] \in Int

RequestOK(q) ==
    \/ q = JoinRealm(TableRealm)
    \/ q.symbol = "<" /\ q.number = OwnRealm /\ q.name[1] \in Kinds
    \/ q.symbol = ">" /\ q.time = TTL /\ DataOK(q.name, q.data)
    \/ q.symbol = "@" /\ q.number \in Nat /\ CommandOK(q.text)
    \/ q.symbol \in {"!", "*"} /\ CommandOK(q.text)
RequestsOK(o) == List(o) /\ \A i \in 1 .. Len(o) : RequestOK(o[i])

DeckOK(d) == d \in Seq(1 .. CardCount) /\ IsInjective(d)

PageOK(p) == /\ DOMAIN p = Fields
             /\ ListOK(p.users)
             /\ p.dealer # NoUser => p.dealer \in IdSet(p.users)
             /\ DeckOK(p.deck)
             /\ p.pot \in Int
             /\ RequestsOK(p.out)
             /\ p.missed \in BOOLEAN

(* The place of a number in the list. *)
LEMMA IndexIs ==
    ASSUME NEW p, ListOK(p.users), NEW id
    PROVE  /\ IndexOf(p, id) = 0 => id \notin IdSet(p.users)
           /\ IndexOf(p, id) # 0 => /\ IndexOf(p, id) \in 1 .. Len(p.users)
                                    /\ p.users[IndexOf(p, id)].id = id
           /\ id \in IdSet(p.users) => IndexOf(p, id) # 0
<1>1. PICK n \in Nat : n = Len(p.users)
  BY ListPlaces DEF ListOK
<1> DEFINE I == {i \in 1 .. n : p.users[i].id = id}
<1>2. IndexOf(p, id) = IF I # {} THEN Min(I) ELSE 0
  BY <1>1 DEF IndexOf, First, SelectInSeq
<1>3. I # {} <=> id \in IdSet(p.users)
  BY <1>1 DEF IdSet
<1>4. I # {} => Min(I) \in I
  <2>1. I \in SUBSET (1 .. n)
    OBVIOUS
  <2> HIDE DEF I
  <2> QED BY <2>1, MinOfPlaces
<1>5. CASE I = {}
  BY <1>2, <1>3, <1>5
<1>6. CASE I # {}
  <2>1. IndexOf(p, id) \in I
    BY <1>2, <1>4, <1>6
  <2>2. IndexOf(p, id) \in 1 .. n /\ p.users[IndexOf(p, id)].id = id
    BY <2>1
  <2> QED BY <1>1, <1>3, <1>6, <2>2
<1> QED BY <1>5, <1>6

(* The invariant that the runs check. *)
LEMMA PageIsSession == \A p : PageOK(p) => SessionOK(p)
<1> SUFFICES ASSUME NEW p, PageOK(p)
             PROVE  SessionOK(p)
  OBVIOUS
<1>1. ListOK(p.users) /\ DOMAIN p.users = 1 .. Len(p.users)
  BY ListPlaces DEF PageOK, ListOK
<1>2. \A u \in ToSet(p.users) : UserOK(u)
  BY <1>1 DEF ListOK, ToSet
<1>3. p.dealer # NoUser => IndexOf(p, p.dealer) # 0
  BY <1>1, IndexIs DEF PageOK
<1> QED BY <1>1, <1>2, <1>3 DEF SessionOK, PageOK, ListOK, UserOK, DeckOK

-----------------------------------------------------------------------------
(***************************************************************************)
(* What the handlers do to a page that is in order: it stays so, with the  *)
(* same numbers in its list, and writes answers, "@" only to N.            *)
(***************************************************************************)
SameIds(u, v) == Len(v) = Len(u) /\ \A i \in 1 .. Len(u) : v[i].id = u[i].id

AnswersOK(w, N) ==
    /\ RequestsOK(w)
    /\ \A i \in 1 .. Len(w) : /\ w[i].symbol # "^"
                              /\ w[i].symbol = "@" => w[i].number \in N

Answers(p, q, N) == \E w : AnswersOK(w, N) /\ q.out = p.out \o w

Talks(p, q, N) ==
    /\ PageOK(q)
    /\ SameIds(p.users, q.users)
    /\ q.missed = p.missed
    /\ Answers(p, q, N)

LEMMA AnswerNothing ==
    ASSUME NEW N
    PROVE  /\ AnswersOK(<<>>, N)
           /\ \A p, q : PageOK(p) /\ q.out = p.out => Answers(p, q, N)
<1>1. AnswersOK(<<>>, N)
  BY SmallLists DEF AnswersOK, RequestsOK
<1>2. ASSUME NEW p, NEW q, PageOK(p), q.out = p.out
      PROVE  Answers(p, q, N)
  <2>1. p.out = p.out \o <<>>
    BY <1>2, ConcatEmptySeq DEF PageOK, RequestsOK, List
  <2>2. AnswersOK(<<>>, N) /\ q.out = p.out \o <<>>
    BY <1>1, <1>2, <2>1
  <2> QED BY <2>2, Zenon DEF Answers
<1> QED BY <1>1, <1>2

LEMMA RequestsConcat ==
    ASSUME NEW s, NEW t, RequestsOK(s), RequestsOK(t)
    PROVE  RequestsOK(s \o t)
<1>1. PICK u : u = s \o t
  OBVIOUS
<1>2. PICK m \in Nat, n \in Nat : m = Len(s) /\ n = Len(t)
  BY ListPlaces DEF RequestsOK
<1>3. /\ List(u) /\ Len(u) = m + n
      /\ \A i \in 1 .. m : u[i] = s[i]
      /\ \A i \in 1 .. n : u[m + i] = t[i]
  BY <1>1, <1>2, ListConcat DEF RequestsOK
<1>4. ASSUME NEW i \in 1 .. m + n
      PROVE  RequestOK(u[i])
  <2>1. CASE i \in 1 .. m
    BY <1>2, <1>3, <2>1 DEF RequestsOK
  <2>2. CASE i \notin 1 .. m
    <3>1. i - m \in 1 .. n /\ m + (i - m) = i
      BY <2>2
    <3> QED BY <1>2, <1>3, <3>1 DEF RequestsOK
  <2> QED BY <2>1, <2>2
<1> QED BY <1>1, <1>3, <1>4 DEF RequestsOK

LEMMA AnswersConcat ==
    ASSUME NEW N, NEW s, NEW t, AnswersOK(s, N), AnswersOK(t, N)
    PROVE  AnswersOK(s \o t, N)
<1>1. PICK u : u = s \o t
  OBVIOUS
<1>2. PICK m \in Nat, n \in Nat : m = Len(s) /\ n = Len(t)
  BY ListPlaces DEF AnswersOK, RequestsOK
<1>3. /\ Len(u) = m + n
      /\ \A i \in 1 .. m : u[i] = s[i]
      /\ \A i \in 1 .. n : u[m + i] = t[i]
  BY <1>1, <1>2, ListConcat DEF AnswersOK, RequestsOK
<1>4. RequestsOK(u)
  BY <1>1, RequestsConcat DEF AnswersOK
<1>5. ASSUME NEW i \in 1 .. m + n
      PROVE  u[i].symbol # "^" /\ (u[i].symbol = "@" => u[i].number \in N)
  <2>1. CASE i \in 1 .. m
    BY <1>2, <1>3, <2>1 DEF AnswersOK
  <2>2. CASE i \notin 1 .. m
    <3>1. i - m \in 1 .. n /\ m + (i - m) = i
      BY <2>2
    <3> QED BY Zenon, <1>2, <1>3, <3>1 DEF AnswersOK
  <2> QED BY <2>1, <2>2
<1> QED BY <1>1, <1>3, <1>4, <1>5 DEF AnswersOK

(* Answers one after the other. *)
LEMMA AnswersFollow ==
    ASSUME NEW N, NEW p, NEW q, NEW r, PageOK(p),
           Answers(p, q, N), Answers(q, r, N)
    PROVE  Answers(p, r, N)
<1>1. PICK s : AnswersOK(s, N) /\ q.out = p.out \o s
  BY DEF Answers
<1>2. PICK t : AnswersOK(t, N) /\ r.out = q.out \o t
  BY DEF Answers
<1>3. List(p.out) /\ List(s) /\ List(t)
  BY <1>1, <1>2 DEF PageOK, AnswersOK, RequestsOK
<1>4. r.out = p.out \o (s \o t)
  <2>1. PICK o : o = p.out
    OBVIOUS
  <2>3. List(o) /\ List(s) /\ List(t)
    BY <1>3, <2>1
  <2>2. (o \o s) \o t = o \o (s \o t)
    BY <2>3, ListAssociative
  <2> QED BY <1>1, <1>2, <2>1, <2>2, Zenon
<1>5. AnswersOK(s \o t, N)
  BY <1>1, <1>2, AnswersConcat
<1> QED BY <1>4, <1>5, Zenon DEF Answers

LEMMA TalksFollow ==
    ASSUME NEW N, NEW p, NEW q, NEW r, PageOK(p), Talks(p, q, N), Talks(q, r, N)
    PROVE  Talks(p, r, N)
<1>1. Answers(p, r, N)
  BY AnswersFollow DEF Talks
<1>2. SameIds(p.users, r.users)
  BY DEF Talks, SameIds
<1> QED BY <1>1, <1>2 DEF Talks

(* The list box and the names may change as they like. *)
Alike(p, q) == /\ DOMAIN q = DOMAIN p
               /\ q.users = p.users /\ q.dealer = p.dealer /\ q.deck = p.deck
               /\ q.pot = p.pot /\ q.out = p.out /\ q.missed = p.missed

LEMMA AlikeOK ==
    ASSUME NEW p, NEW q, PageOK(p), Alike(p, q)
    PROVE  PageOK(q) /\ \A N : Talks(p, q, N)
<1>1. PageOK(q)
  BY DEF Alike, PageOK
<1>2. \A N : Answers(p, q, N)
  BY AnswerNothing DEF Alike
<1>3. SameIds(p.users, q.users)
  BY DEF Alike, SameIds
<1> QED BY <1>1, <1>2, <1>3 DEF Talks, Alike

LEMMA EditIsAlike ==
    ASSUME NEW p, DOMAIN p = Fields
    PROVE  /\ \A u : Alike(p, EditUser(p, u))
           /\ \A i : Alike(p, Edited(p, i))
<1>1. ASSUME NEW b
      PROVE  Alike(p, [p EXCEPT !.box = b])
  BY DEF Alike, Fields
<1>2. ASSUME NEW u
      PROVE  Alike(p, EditUser(p, u))
  <2>1. \E b : EditUser(p, u) = [p EXCEPT !.box = b]
    BY Zenon DEF EditUser
  <2> QED BY <1>1, <2>1
<1> QED BY <1>2 DEF Edited

(* A page that is in order but for what it writes. *)
LEMMA WritesTalks ==
    ASSUME NEW p, PageOK(p), NEW N, NEW w, AnswersOK(w, N)
    PROVE  Talks(p, Writes(p, w), N)
<1>1. PICK q : q = Writes(p, w)
  OBVIOUS
<1>2. /\ DOMAIN q = Fields
      /\ q.users = p.users /\ q.dealer = p.dealer /\ q.deck = p.deck
      /\ q.pot = p.pot /\ q.missed = p.missed
      /\ q.out = p.out \o w
  BY <1>1 DEF Writes, PageOK, Fields
<1>3. RequestsOK(q.out)
  <2>1. RequestsOK(p.out) /\ RequestsOK(w)
    BY DEF PageOK, AnswersOK
  <2>2. RequestsOK(p.out \o w)
    BY <2>1, RequestsConcat
  <2> QED BY <1>2, <2>2, Zenon
<1>4. Answers(p, q, N)
  BY <1>2, Zenon DEF Answers
<1>5. PageOK(q)
  BY <1>2, <1>3 DEF PageOK
<1>6. SameIds(p.users, q.users)
  BY <1>2 DEF SameIds
<1> QED BY <1>1, <1>2, <1>4, <1>5, <1>6 DEF Talks

(* What one user has changes, but not its number. *)
LEMMA UserChanged ==
    ASSUME NEW l, ListOK(l), NEW i \in 1 .. Len(l), NEW u, UserOK(u), u.id = l[i].id
    PROVE  ListOK([l EXCEPT ![i] = u]) /\ SameIds(l, [l EXCEPT ![i] = u])
<1>1. PICK n \in Nat : n = Len(l) /\ DOMAIN l = 1 .. n
  BY ListPlaces DEF ListOK
<1>2. PICK k : k = [l EXCEPT ![i] = u]
  OBVIOUS
<1>3. /\ DOMAIN k = 1 .. n
      /\ \A j \in 1 .. n : k[j] = IF j = i THEN u ELSE l[j]
      /\ k = [j \in 1 .. n |-> k[j]]
  BY <1>1, <1>2
<1>4. k \in Seq({k[j] : j \in 1 .. n}) /\ Len(k) = n
  BY <1>3
<1>5. List(k)
  BY <1>4, ListOf
<1>6. \A j \in 1 .. n : UserOK(k[j]) /\ k[j].id = l[j].id
  BY <1>1, <1>3 DEF ListOK
<1> QED BY <1>1, <1>2, <1>4, <1>5, <1>6 DEF ListOK, SameIds

(* All users change, but not their numbers. *)
LEMMA UsersChanged ==
    ASSUME NEW l, ListOK(l), NEW k, DOMAIN k = DOMAIN l, k = [j \in DOMAIN k |-> k[j]],
           \A j \in 1 .. Len(l) : UserOK(k[j]) /\ k[j].id = l[j].id
    PROVE  ListOK(k) /\ SameIds(l, k)
<1>1. PICK n \in Nat : n = Len(l) /\ DOMAIN l = 1 .. n
  BY ListPlaces DEF ListOK
<1>4. k \in Seq({k[j] : j \in 1 .. n}) /\ Len(k) = n
  BY <1>1
<1>5. List(k)
  BY <1>4, ListOf
<1> QED BY <1>1, <1>4, <1>5 DEF ListOK, SameIds

(* The page changes its list, its pot, its dealer, and its deck. *)
LEMMA PageChanged ==
    ASSUME NEW p, PageOK(p), NEW q, DOMAIN q = Fields,
           ListOK(q.users), SameIds(p.users, q.users),
           q.dealer \in {p.dealer} \cup IdSet(p.users),
           DeckOK(q.deck), q.pot \in Int, q.out = p.out, q.missed = p.missed
    PROVE  PageOK(q) /\ \A N : Talks(p, q, N)
<1>1. IdSet(q.users) = IdSet(p.users)
  BY DEF SameIds, IdSet
<1>2. PageOK(q)
  BY <1>1 DEF PageOK
<1>3. \A N : Answers(p, q, N)
  BY AnswerNothing
<1> QED BY <1>2, <1>3 DEF Talks

-----------------------------------------------------------------------------
(* The requests that pages write, one by one and in lists. *)
LEMMA OneAnswer ==
    ASSUME NEW N, NEW q, RequestOK(q), q.symbol # "^", q.symbol = "@" => q.number \in N
    PROVE  AnswersOK(<<q>>, N)
<1>1. PICK w : w = <<q>>
  OBVIOUS
<1>2. List(w) /\ Len(w) = 1 /\ w[1] = q
  BY <1>1, SmallLists
<1> QED BY <1>1, <1>2 DEF AnswersOK, RequestsOK

LEMMA TwoAnswers ==
    ASSUME NEW N, NEW q, NEW r, AnswersOK(<<q>>, N), AnswersOK(<<r>>, N)
    PROVE  AnswersOK(<<q, r>>, N)
<1>1. PICK u : u = <<q>>
  OBVIOUS
<1>2. PICK v : v = <<r>>
  OBVIOUS
<1>3. PICK w : w = <<q, r>>
  OBVIOUS
<1>4. u[1] = q /\ v[1] = r /\ Len(u) = 1 /\ Len(v) = 1
  BY <1>1, <1>2
<1>5. List(w) /\ Len(w) = 2 /\ w[1] = q /\ w[2] = r
  BY <1>3, SmallLists
<1>6. AnswersOK(u, N) /\ AnswersOK(v, N)
  BY <1>1, <1>2
<1>7. AnswersOK(w, N)
  BY <1>4, <1>5, <1>6 DEF AnswersOK, RequestsOK
<1> QED BY <1>3, <1>7

LEMMA ToUserIsOK ==
    ASSUME NEW N, NEW n \in Nat, n \in N, NEW c, CommandOK(c)
    PROVE  AnswersOK(<<ToUser(n, c)>>, N)
BY OneAnswer DEF ToUser, RequestOK

LEMMA SaveIsAnswer ==
    ASSUME NEW N, NEW k, NEW d, k[1] \in Kinds, k[1] \in Money => d \in Seq(Int) /\ d # <<>>
    PROVE  AnswersOK(<<Save(k, d)>>, N)
<1>1. DataOK(k, IF d = <<>> THEN NoData ELSE d)
  BY DEF DataOK
<1>2. PICK q : q = Save(k, d)
  OBVIOUS
<1>3. /\ q.symbol = ">" /\ q.time = TTL
      /\ q.name = k /\ q.data = IF d = <<>> THEN NoData ELSE d
  BY <1>2 DEF Save, SaveData
<1>4. RequestOK(q)
  BY <1>1, <1>3 DEF RequestOK
<1> QED BY <1>2, <1>3, <1>4, OneAnswer

LEMMA SaveMyChipsIsAnswer ==
    ASSUME NEW N, NEW p, p.users[Me].chips \in Int
    PROVE  AnswersOK(<<SaveMyChips(p)>>, N)
<1>1. ChipsKey(p.name)[1] = "chips"
  BY DEF ChipsKey
<1>2. <<p.users[Me].chips>> \in Seq(Int) /\ <<p.users[Me].chips>> # <<>>
  OBVIOUS
<1>3. PICK k : k = ChipsKey(p.name)
  OBVIOUS
<1>4. PICK d : d = <<p.users[Me].chips>>
  OBVIOUS
<1>5. k[1] \in Kinds /\ d \in Seq(Int) /\ d # <<>>
  BY <1>1, <1>2, <1>3, <1>4 DEF Kinds
<1>6. AnswersOK(<<Save(k, d)>>, N)
  BY <1>5, SaveIsAnswer
<1> QED BY <1>3, <1>4, <1>6 DEF SaveMyChips

LEMMA SavePotIsAnswer ==
    ASSUME NEW N, NEW p, p.pot \in Int
    PROVE  AnswersOK(<<SavePot(p)>>, N)
<1>1. PotKey[1] = "pot"
  BY DEF PotKey
<1>2. <<p.pot>> \in Seq(Int) /\ <<p.pot>> # <<>>
  OBVIOUS
<1>3. PICK k : k = PotKey
  OBVIOUS
<1>4. PICK d : d = <<p.pot>>
  OBVIOUS
<1>5. k[1] \in Kinds /\ d \in Seq(Int) /\ d # <<>>
  BY <1>1, <1>2, <1>3, <1>4 DEF Kinds
<1>6. AnswersOK(<<Save(k, d)>>, N)
  BY <1>5, SaveIsAnswer
<1> QED BY <1>3, <1>4, <1>6 DEF SavePot

LEMMA SaveCardsIsAnswer ==
    ASSUME NEW N, NEW d
    PROVE  /\ \A name : AnswersOK(<<Save(CardsKey(name), d)>>, N)
           /\ AnswersOK(<<Save(CommunityKey, d)>>, N)
<1>1. ASSUME NEW name
      PROVE  CardsKey(name)[1] = "cards"
  BY DEF CardsKey
<1>2. CommunityKey[1] = "community"
  BY DEF CommunityKey
<1> QED BY <1>1, <1>2, SaveIsAnswer DEF Kinds, Money

LEMMA SavesIsAlike ==
    ASSUME NEW p, PageOK(p), p.users # <<>>, NEW N
    PROVE  Talks(p, SavesChips(p), N) /\ Talks(p, SavesMoney(p), N)
<1>1. p.users[Me].chips \in Int
  <2>1. Len(p.users) \in Nat /\ 1 \in 1 .. Len(p.users)
    BY ListTail DEF PageOK, ListOK
  <2> QED BY <2>1 DEF PageOK, ListOK, UserOK, Me
<1>2. AnswersOK(<<SaveMyChips(p)>>, N)
  BY <1>1, SaveMyChipsIsAnswer
<1>3. AnswersOK(<<SavePot(p)>>, N)
  BY SavePotIsAnswer DEF PageOK
<1>4. AnswersOK(<<SaveMyChips(p), SavePot(p)>>, N)
  BY <1>2, <1>3, TwoAnswers
<1> QED BY <1>2, <1>4, WritesTalks DEF SavesChips, SavesMoney

-----------------------------------------------------------------------------
(* Whatever is rolled, a shuffled deck holds every card once. *)
SwapStep(cards, i, roll) == Swap(cards, CardCount + 1 - i, roll[CardCount + 1 - i])
DeckKept(cards, i, d) == cards \in [1 .. CardCount -> 1 .. CardCount] /\ IsInjective(cards)
Shuffling == INSTANCE FoldLemmas WITH Step <- SwapStep, Good <- DeckKept

LEMMA ShuffledIsOK ==
    ASSUME NEW roll \in Rolls
    PROVE  DeckOK(Shuffled(roll))
<1>1. PICK ms : ms = [i \in 1 .. CardCount |-> i]
  OBVIOUS
<1>2. CardCount \in Nat
  BY PokerAssumption
<1>3. ms \in Seq(1 .. CardCount) /\ Len(ms) = CardCount /\ DeckKept(ms, 0, 0)
  BY <1>1, <1>2 DEF DeckKept, IsInjective
<1>4. Shuffled(roll) = Shuffling!Fold(ms, ms, roll)
  BY <1>1 DEF Shuffled, Shuffling!Fold, SwapStep, FoldLeft, Shuffling!FoldLeft,
       MapThenFoldSet, Shuffling!MapThenFoldSet, Max, Shuffling!Max
<1>5. ASSUME NEW i \in 1 .. Len(ms), NEW cards, DeckKept(cards, i - 1, 0)
      PROVE  DeckKept(SwapStep(cards, ms[i], roll), i, 0)
  <2>1. PICK j \in 1 .. CardCount : j = CardCount + 1 - ms[i]
    BY <1>1, <1>2, <1>3
  <2>2. PICK k \in 1 .. CardCount : k = roll[j]
    <3>1. roll[j] \in 1 .. j
      BY PokerAssumption
    <3> QED BY <1>2, <3>1
  <2>3. SwapStep(cards, ms[i], roll) = Swap(cards, j, k)
    BY <2>1, <2>2 DEF SwapStep
  <2>4. DeckKept(Swap(cards, j, k), i, 0)
    BY <1>5 DEF DeckKept, Swap, IsInjective
  <2> QED BY <2>3, <2>4
<1>6. DeckKept(Shuffling!Fold(ms, ms, roll), Len(ms), 0)
  <2> HIDE DEF DeckKept
  <2> QED BY <1>3, <1>5, Shuffling!FoldInduction
<1>7. PICK deck : deck = Shuffled(roll)
  OBVIOUS
<1>8. deck \in [1 .. CardCount -> 1 .. CardCount] /\ IsInjective(deck)
  BY <1>4, <1>6, <1>7 DEF DeckKept
<1>9. deck \in Seq(1 .. CardCount)
  BY <1>2, <1>8
<1> QED BY <1>7, <1>8, <1>9 DEF DeckOK

LEMMA ClearBetsTalks ==
    ASSUME NEW p, PageOK(p), NEW N
    PROVE  Talks(p, ClearBets(p), N)
<1>1. PICK q : q = ClearBets(p)
  OBVIOUS
<1>2. PICK l : l = p.users
  OBVIOUS
<1>3. ListOK(l) /\ DOMAIN l = 1 .. Len(l)
  BY <1>2, ListPlaces DEF PageOK, ListOK
<1>4. PICK k : k = [i \in DOMAIN l |-> [l[i] EXCEPT !.bet = 0]]
  OBVIOUS
<1>5. /\ DOMAIN q = Fields /\ q.users = k
      /\ q.dealer = p.dealer /\ q.deck = p.deck /\ q.pot = p.pot
      /\ q.out = p.out /\ q.missed = p.missed
  BY <1>1, <1>2, <1>4 DEF ClearBets, PageOK, Fields
<1>6. \A i \in 1 .. Len(l) : UserOK(k[i]) /\ k[i].id = l[i].id
  BY <1>3, <1>4 DEF ListOK, UserOK
<1>7. ListOK(k) /\ SameIds(l, k)
  BY <1>3, <1>4, <1>6, UsersChanged
<1> QED BY <1>1, <1>2, <1>5, <1>7, PageChanged DEF PageOK

(* One user's chips, bet, name or fold, and the pot. *)
LEMMA UserEdited ==
    ASSUME NEW p, PageOK(p), NEW i \in 1 .. Len(p.users), NEW u, UserOK(u),
           u.id = p.users[i].id, NEW q, DOMAIN q = Fields,
           q.users = [p.users EXCEPT ![i] = u], q.pot \in Int,
           q.dealer = p.dealer, q.deck = p.deck, q.out = p.out, q.missed = p.missed,
           NEW N
    PROVE  Talks(p, q, N)
<1>2. PICK l : l = p.users
  OBVIOUS
<1>3. PICK k : k = [l EXCEPT ![i] = u]
  OBVIOUS
<1>4. ListOK(l) /\ i \in 1 .. Len(l) /\ u.id = l[i].id
  BY <1>2 DEF PageOK
<1>5. ListOK(k) /\ SameIds(l, k)
  BY <1>3, <1>4, UserChanged
<1> QED BY <1>2, <1>3, <1>5, PageChanged DEF PageOK

-----------------------------------------------------------------------------
(* handleCommand: the sender id is user i of the list. *)
LEMMA EditedTalks ==
    ASSUME NEW p, NEW q, NEW N, PageOK(p), Talks(p, q, N), NEW i
    PROVE  Talks(p, Edited(q, i), N)
<1>1. Alike(q, Edited(q, i))
  BY EditIsAlike DEF Talks, PageOK
<1>2. Talks(q, Edited(q, i), N)
  BY <1>1, AlikeOK DEF Talks
<1> QED BY <1>2, TalksFollow

LEMMA TellTalks ==
    ASSUME NEW p, PageOK(p), NEW i \in 1 .. Len(p.users)
    PROVE  Talks(p, TellMeAboutYou(p, i), {p.users[i].id})
<1>1. /\ p.users[i].id \in Nat
      /\ p.users[Me].chips \in Int
  <2>1. Len(p.users) \in Nat
    BY ListPlaces DEF PageOK, ListOK
  <2>2. 1 \in 1 .. Len(p.users)
    BY <2>1
  <2> QED BY <2>2 DEF PageOK, ListOK, UserOK, Me
<1>2. PICK n \in Nat : n = p.users[i].id
  BY <1>1
<1>3. PICK c : c = NameCommand(p.name)
  OBVIOUS
<1>4. PICK d : d = Command("CHIPS", <<p.users[Me].chips>>)
  OBVIOUS
<1>5. CommandOK(c)
  BY <1>3 DEF NameCommand, Command, CommandOK, Commands
<1>6. CommandOK(d)
  BY <1>1, <1>4 DEF Command, CommandOK, Commands
<1>7. AnswersOK(<<ToUser(n, c)>>, {n}) /\ AnswersOK(<<ToUser(n, d)>>, {n})
  BY <1>5, <1>6, ToUserIsOK
<1>8. AnswersOK(<<ToUser(n, c), ToUser(n, d)>>, {n})
  BY <1>7, TwoAnswers
<1>9. Talks(p, Writes(p, <<ToUser(n, c), ToUser(n, d)>>), {n})
  BY <1>8, WritesTalks
<1> QED BY <1>2, <1>3, <1>4, <1>9 DEF TellMeAboutYou

LEMMA MoneyTalks ==
    ASSUME NEW p, PageOK(p), NEW i \in 1 .. Len(p.users), NEW N
    PROVE  /\ \A n \in Int : Talks(p, Bet(p, i, n), N)
           /\ Talks(p, Claim(p, i), N)
<1>1. PICK v : v = p.users[i]
  OBVIOUS
<1>2. UserOK(v) /\ p.pot \in Int /\ p.users # <<>>
  <2>1. p.users # <<>>
    BY ListPlaces DEF PageOK, ListOK
  <2> QED BY <1>1, <2>1 DEF PageOK, ListOK
<1>3. ASSUME NEW q, Talks(p, q, N)
      PROVE  Talks(p, Edited(IF i = Me THEN SavesMoney(q) ELSE q, i), N)
  <2>1. PageOK(q) /\ q.users # <<>>
    <3>1. Len(p.users) \in Nat /\ Len(q.users) = Len(p.users)
      BY <1>3, ListPlaces DEF Talks, SameIds, PageOK, ListOK
    <3>2. Len(q.users) # 0
      BY <3>1
    <3>3. q.users # <<>>
      BY <3>2
    <3> QED BY <1>3, <3>3 DEF Talks
  <2>2. Talks(p, SavesMoney(q), N)
    BY <1>3, <2>1, SavesIsAlike, TalksFollow
  <2> QED BY <1>3, <2>2, EditedTalks
<1>4. ASSUME NEW n \in Int
      PROVE  Talks(p, Bet(p, i, n), N)
  <2>1. PICK u : u = [v EXCEPT !.chips = @ - n, !.bet = @ + n]
    OBVIOUS
  <2>2. PICK l : l = p.users
    OBVIOUS
  <2>3. PICK q : q = [p EXCEPT !.users[i].chips = @ - n, !.users[i].bet = @ + n,
                               !.pot = @ + n]
    OBVIOUS
  <2>4. UserOK(u) /\ u.id = p.users[i].id
    BY <1>1, <1>2, <1>4, <2>1 DEF UserOK
  <2>5. /\ DOMAIN q = Fields
        /\ q.users = [[l EXCEPT ![i].chips = @ - n] EXCEPT ![i].bet = @ + n]
        /\ q.pot \in Int
        /\ q.dealer = p.dealer /\ q.deck = p.deck
        /\ q.out = p.out /\ q.missed = p.missed
    BY <1>2, <1>4, <2>2, <2>3 DEF PageOK, Fields
  <2>6. q.users = [l EXCEPT ![i] = u]
    <3>1. DOMAIN l = 1 .. Len(l) /\ i \in 1 .. Len(l) /\ l[i] = v
      BY <1>1, <2>2, ListPlaces DEF PageOK, ListOK
    <3>2. DOMAIN v = {"id", "name", "chips", "bet", "folded"}
      BY <1>2 DEF UserOK
    <3> QED BY <2>1, <2>5, <3>1, <3>2
  <2>7. Talks(p, q, N)
    BY <2>2, <2>4, <2>5, <2>6, UserEdited
  <2>8. Bet(p, i, n) = Edited(IF i = Me THEN SavesMoney(q) ELSE q, i)
    BY <2>3 DEF Bet
  <2> QED BY <1>3, <2>7, <2>8
<1>5. Talks(p, Claim(p, i), N)
  <2>1. PICK u : u = [v EXCEPT !.chips = @ + p.pot, !.bet = 0]
    OBVIOUS
  <2>2. PICK l : l = p.users
    OBVIOUS
  <2>3. PICK q : q = [p EXCEPT !.users[i].chips = @ + p.pot, !.users[i].bet = 0, !.pot = 0]
    OBVIOUS
  <2>4. UserOK(u) /\ u.id = p.users[i].id
    BY <1>1, <1>2, <2>1 DEF UserOK
  <2>5. /\ DOMAIN q = Fields
        /\ q.users = [[l EXCEPT ![i].chips = @ + p.pot] EXCEPT ![i].bet = 0]
        /\ q.pot \in Int
        /\ q.dealer = p.dealer /\ q.deck = p.deck
        /\ q.out = p.out /\ q.missed = p.missed
    BY <1>2, <2>2, <2>3 DEF PageOK, Fields
  <2>6. q.users = [l EXCEPT ![i] = u]
    <3>1. DOMAIN l = 1 .. Len(l) /\ i \in 1 .. Len(l) /\ l[i] = v
      BY <1>1, <2>2, ListPlaces DEF PageOK, ListOK
    <3>2. DOMAIN v = {"id", "name", "chips", "bet", "folded"}
      BY <1>2 DEF UserOK
    <3> QED BY <2>1, <2>5, <3>1, <3>2
  <2>7. Talks(p, q, N)
    BY <2>2, <2>4, <2>5, <2>6, UserEdited
  <2>8. Claim(p, i) = Edited(IF i = Me THEN SavesMoney(q) ELSE q, i)
    BY <2>3 DEF Claim
  <2> QED BY <1>3, <2>7, <2>8
<1> QED BY <1>4, <1>5

WithName(p, i, n) == Edited([p EXCEPT !.users[i].name = n], i)
WithChips(p, i, n) == Edited([p EXCEPT !.users[i].chips = n], i)
WithFold(p, i, b) == Edited([p EXCEPT !.users[i].folded = b], i)

LEMMA FieldTalks ==
    ASSUME NEW p, PageOK(p), NEW i \in 1 .. Len(p.users), NEW N
    PROVE  /\ \A n : Talks(p, WithName(p, i, n), N)
           /\ \A n \in Int : Talks(p, WithChips(p, i, n), N)
           /\ \A b \in BOOLEAN : Talks(p, WithFold(p, i, b), N)
<1>1. PICK v : v = p.users[i]
  OBVIOUS
<1>2. UserOK(v)
  BY <1>1 DEF PageOK, ListOK
<1>3. PICK l : l = p.users
  OBVIOUS
<1>4. i \in 1 .. Len(l) /\ l[i] = v
  BY <1>1, <1>3
<1>5. ASSUME NEW u, UserOK(u), u.id = v.id, NEW q, DOMAIN q = Fields,
             q.users = [l EXCEPT ![i] = u], q.pot = p.pot,
             q.dealer = p.dealer, q.deck = p.deck, q.out = p.out, q.missed = p.missed
      PROVE  Talks(p, Edited(q, i), N)
  <2>1. Talks(p, q, N)
    BY <1>1, <1>3, <1>5, UserEdited DEF PageOK
  <2> QED BY <2>1, EditedTalks
<1>6. ASSUME NEW n
      PROVE  Talks(p, WithName(p, i, n), N)
  <2>1. PICK u : u = [v EXCEPT !.name = n]
    OBVIOUS
  <2>2. UserOK(u) /\ u.id = v.id
    BY <1>2, <2>1 DEF UserOK
  <2>3. PICK q : q = [p EXCEPT !.users[i].name = n]
    OBVIOUS
  <2>4. /\ DOMAIN q = Fields
        /\ q.users = [l EXCEPT ![i] = u] /\ q.pot = p.pot
        /\ q.dealer = p.dealer /\ q.deck = p.deck /\ q.out = p.out /\ q.missed = p.missed
    BY <1>3, <1>4, <2>1, <2>3 DEF PageOK, Fields
  <2> QED BY <1>5, <2>2, <2>3, <2>4 DEF WithName
<1>7. ASSUME NEW n \in Int
      PROVE  Talks(p, WithChips(p, i, n), N)
  <2>1. PICK u : u = [v EXCEPT !.chips = n]
    OBVIOUS
  <2>2. UserOK(u) /\ u.id = v.id
    BY <1>2, <1>7, <2>1 DEF UserOK
  <2>3. PICK q : q = [p EXCEPT !.users[i].chips = n]
    OBVIOUS
  <2>4. /\ DOMAIN q = Fields
        /\ q.users = [l EXCEPT ![i] = u] /\ q.pot = p.pot
        /\ q.dealer = p.dealer /\ q.deck = p.deck /\ q.out = p.out /\ q.missed = p.missed
    BY <1>3, <1>4, <2>1, <2>3 DEF PageOK, Fields
  <2> QED BY <1>5, <2>2, <2>3, <2>4 DEF WithChips
<1>8. ASSUME NEW n \in BOOLEAN
      PROVE  Talks(p, WithFold(p, i, n), N)
  <2>1. PICK u : u = [v EXCEPT !.folded = n]
    OBVIOUS
  <2>2. UserOK(u) /\ u.id = v.id
    BY <1>2, <1>8, <2>1 DEF UserOK
  <2>3. PICK q : q = [p EXCEPT !.users[i].folded = n]
    OBVIOUS
  <2>4. /\ DOMAIN q = Fields
        /\ q.users = [l EXCEPT ![i] = u] /\ q.pot = p.pot
        /\ q.dealer = p.dealer /\ q.deck = p.deck /\ q.out = p.out /\ q.missed = p.missed
    BY <1>3, <1>4, <2>1, <2>3 DEF PageOK, Fields
  <2> QED BY <1>5, <2>2, <2>3, <2>4 DEF WithFold
<1> QED BY <1>6, <1>7, <1>8

LEMMA DealerTalks ==
    ASSUME NEW p, PageOK(p), NEW id, NEW N
    PROVE  Talks(p, Dealer(p, id), N)
<1>1. Alike(p, p)
  BY DEF Alike
<1>2. CASE IndexOf(p, id) = 0
  BY <1>1, <1>2, AlikeOK DEF Dealer
<1>3. CASE IndexOf(p, id) # 0
  <2>1. PICK i \in 1 .. Len(p.users) : i = IndexOf(p, id)
    BY <1>3, IndexIs DEF PageOK
  <2>2. PICK q : q = [p EXCEPT !.dealer = p.users[i].id]
    OBVIOUS
  <2>3. Talks(p, q, N)
    <3>1. /\ DOMAIN q = Fields /\ q.users = p.users /\ q.pot = p.pot
          /\ q.dealer = p.users[i].id /\ q.deck = p.deck
          /\ q.out = p.out /\ q.missed = p.missed
      BY <2>2 DEF PageOK, Fields
    <3>2. q.dealer \in IdSet(p.users) /\ SameIds(p.users, q.users)
      BY <3>1 DEF IdSet, SameIds
    <3> QED BY <3>1, <3>2, PageChanged DEF PageOK
  <2>4. ASSUME NEW r, NEW u, Talks(p, r, N)
        PROVE  Talks(p, EditUser(r, u), N)
    <3>1. Alike(r, EditUser(r, u))
      BY <2>4, EditIsAlike DEF Talks, PageOK
    <3>2. Talks(r, EditUser(r, u), N)
      BY <2>4, <3>1, AlikeOK DEF Talks
    <3> QED BY <2>4, <3>2, TalksFollow
  <2>5. PICK w : w = EditUser(q, p.former[1])
    OBVIOUS
  <2>6. PICK old : old = First(p.users, LAMBDA u : u.id = p.dealer)
    OBVIOUS
  <2>7. SetDealer(p, i) \in {q, Edited(w, i), Edited(Edited(q, old), i), Edited(q, i)}
    BY <2>2, <2>5, <2>6 DEF SetDealer
  <2>8. Talks(p, w, N) /\ Talks(p, Edited(q, old), N)
    BY <2>3, <2>4, <2>5, EditedTalks
  <2>9. Talks(p, SetDealer(p, i), N)
    BY <2>3, <2>7, <2>8, EditedTalks
  <2> QED BY <1>3, <2>1, <2>9 DEF Dealer
<1> QED BY <1>2, <1>3

UnfoldStep(q, j, c) == Edited([q EXCEPT !.users[j].folded = FALSE], j)
Unfolded(q, j, p) == Talks(p, q, {})
Unfolding == INSTANCE FoldLemmas WITH Step <- UnfoldStep, Good <- Unfolded

LEMMA ShuffleTalks ==
    ASSUME NEW p, PageOK(p), NEW i, NEW roll \in Rolls
    PROVE  Talks(p, Shuffle(p, i, roll), {})
<1>1. PICK js : js = [j \in DOMAIN p.users |-> j]
  OBVIOUS
<1>2. PICK n \in Nat : n = Len(p.users) /\ DOMAIN p.users = 1 .. n
  BY ListPlaces DEF PageOK, ListOK
<1>3. js \in Seq(1 .. n) /\ Len(js) = n /\ \A j \in 1 .. n : js[j] = j
  BY <1>1, <1>2
<1>4. PICK q : q = Unfolding!Fold(ClearBets(p), js, 0)
  OBVIOUS
<1>5. Talks(p, q, {})
  <2>1. Unfolded(ClearBets(p), 0, p)
    BY ClearBetsTalks DEF Unfolded
  <2>2. ASSUME NEW j \in 1 .. Len(js), NEW r, Unfolded(r, j - 1, p)
        PROVE  Unfolded(UnfoldStep(r, js[j], 0), j, p)
    <3>1. Talks(p, r, {}) /\ PageOK(r) /\ Len(r.users) = n
      BY <1>2, <2>2 DEF Unfolded, Talks, SameIds
    <3>2. PICK k \in 1 .. n : k = js[j]
      BY <1>3
    <3>3. PICK b \in BOOLEAN : b = FALSE
      OBVIOUS
    <3>4. Talks(r, WithFold(r, k, b), {})
      BY <3>1, FieldTalks
    <3>5. Talks(r, UnfoldStep(r, k, 0), {})
      BY <3>3, <3>4, Zenon DEF UnfoldStep, WithFold
    <3> QED BY <3>1, <3>2, <3>5, TalksFollow DEF Unfolded
  <2>3. Unfolded(q, Len(js), p)
    <3> HIDE DEF Unfolded
    <3> QED BY <1>3, <1>4, <2>1, <2>2, Unfolding!FoldInduction
  <2> QED BY <2>3 DEF Unfolded
<1>6. PICK r : r = [q EXCEPT !.deck = Shuffled(roll), !.hand = <<>>, !.community = <<>>]
  OBVIOUS
<1>7. Talks(p, r, {})
  <2>1. /\ DOMAIN r = Fields /\ r.users = q.users /\ r.pot = q.pot
        /\ r.dealer = q.dealer /\ r.deck = Shuffled(roll)
        /\ r.out = q.out /\ r.missed = q.missed
    BY <1>5, <1>6 DEF Talks, PageOK, Fields
  <2>2. SameIds(q.users, r.users) /\ DeckOK(r.deck)
    BY <2>1, ShuffledIsOK DEF SameIds
  <2>3. Talks(q, r, {})
    BY <1>5, <2>1, <2>2, PageChanged DEF Talks, PageOK
  <2> QED BY <1>5, <2>3, TalksFollow
<1>8. PICK w : w = <<Save(CardsKey(p.name), <<>>)>>
                     \o IF i = Me THEN <<Save(CommunityKey, <<>>)>> ELSE <<>>
  OBVIOUS
<1>9. AnswersOK(w, {})
  <2>1. PICK a : a = <<Save(CardsKey(p.name), <<>>)>>
    OBVIOUS
  <2>2. PICK b : b = IF i = Me THEN <<Save(CommunityKey, <<>>)>> ELSE <<>>
    OBVIOUS
  <2>3. AnswersOK(a, {}) /\ AnswersOK(b, {})
    BY <2>1, <2>2, SaveCardsIsAnswer, AnswerNothing
  <2> QED BY <1>8, <2>1, <2>2, <2>3, AnswersConcat
<1>10. Shuffle(p, i, roll) = Writes(r, w)
  <2>1. Shuffle(p, i, roll) =
          Writes([Unfolding!Fold(ClearBets(p), js, 0) EXCEPT
                    !.deck = Shuffled(roll), !.hand = <<>>, !.community = <<>>], w)
    BY <1>1, <1>8 DEF Shuffle, Unfolding!Fold, UnfoldStep, FoldLeft, Unfolding!FoldLeft,
       MapThenFoldSet, Unfolding!MapThenFoldSet, Max, Unfolding!Max
  <2> QED BY <1>4, <1>6, <2>1, Zenon
<1>11. Talks(r, Writes(r, w), {})
  BY <1>7, <1>9, WritesTalks DEF Talks
<1> QED BY <1>7, <1>10, <1>11, TalksFollow

LEMMA CardsTalk ==
    ASSUME NEW p, PageOK(p), NEW N
    PROVE  /\ \A cards : Talks(p, YourCards(p, cards), N)
           /\ \A i, kept, cards : Talks(p, CommunityCards(p, i, kept, cards), N)
<1>1. ASSUME NEW cards
      PROVE  Talks(p, YourCards(p, cards), N)
  <2>1. PICK q : q = [p EXCEPT !.hand = cards]
    OBVIOUS
  <2>2. Talks(p, q, N) /\ PageOK(q)
    <3>1. Alike(p, q)
      BY <2>1 DEF Alike, PageOK, Fields
    <3> QED BY <3>1, AlikeOK
  <2>3. PICK w : w = <<Save(CardsKey(p.name), cards)>>
    OBVIOUS
  <2>4. AnswersOK(w, N)
    BY <2>3, SaveCardsIsAnswer
  <2>5. Talks(q, Writes(q, w), N)
    BY <2>2, <2>4, WritesTalks
  <2> QED BY <2>1, <2>2, <2>3, <2>5, TalksFollow DEF YourCards
<1>2. ASSUME NEW i, NEW kept, NEW cards
      PROVE  Talks(p, CommunityCards(p, i, kept, cards), N)
  <2>1. PICK r : r = ClearBets(p)
    OBVIOUS
  <2>2. Talks(p, r, N) /\ PageOK(r)
    BY <2>1, ClearBetsTalks DEF Talks
  <2>3. PICK q : q = [r EXCEPT !.community = kept \o cards]
    OBVIOUS
  <2>4. Talks(r, q, N) /\ PageOK(q)
    <3>1. Alike(r, q)
      BY <2>2, <2>3 DEF Alike, PageOK, Fields
    <3> QED BY <2>2, <3>1, AlikeOK
  <2>5. PICK w : w = IF i = Me THEN <<Save(CommunityKey, kept \o cards)>> ELSE <<>>
    OBVIOUS
  <2>6. AnswersOK(w, N)
    BY <2>5, SaveCardsIsAnswer, AnswerNothing
  <2>7. Talks(q, Writes(q, w), N)
    BY <2>4, <2>6, WritesTalks
  <2>8. Talks(p, q, N)
    BY <2>2, <2>4, TalksFollow
  <2> QED BY <2>1, <2>3, <2>5, <2>7, <2>8, TalksFollow DEF CommunityCards
<1> QED BY <1>1, <1>2

(* Talks to more. *)
LEMMA TalksMore ==
    ASSUME NEW p, NEW q, NEW N, Talks(p, q, {}) \/ (\A M : Talks(p, q, M))
    PROVE  Talks(p, q, N)
<1>1. CASE Talks(p, q, {})
  <2>1. PICK w : AnswersOK(w, {}) /\ q.out = p.out \o w
    BY <1>1 DEF Talks, Answers
  <2>2. AnswersOK(w, N)
    BY <2>1 DEF AnswersOK
  <2> QED BY <1>1, <2>1, <2>2 DEF Talks, Answers
<1> QED BY <1>1

EachHeard(p, i, n, roll) ==
    /\ Hears(p, i, "TELL_ME_ABOUT_YOU", n, roll) = TellMeAboutYou(p, i)
    /\ Hears(p, i, "NAME", n, roll) = WithName(p, i, n[1])
    /\ Hears(p, i, "CHIPS", n, roll) = WithChips(p, i, n[1])
    /\ Hears(p, i, "FOLD", n, roll) = WithFold(p, i, TRUE)
    /\ Hears(p, i, "BET", n, roll) = Bet(p, i, n[1])
    /\ Hears(p, i, "CLAIM", n, roll) = Claim(p, i)
    /\ Hears(p, i, "DEALER", n, roll) = Dealer(p, n[1])
    /\ Hears(p, i, "SHUFFLE", n, roll) = Shuffle(p, i, roll)
    /\ Hears(p, i, "YOUR_CARDS", n, roll) = YourCards(p, n)
    /\ Hears(p, i, "FLOP_CARDS", n, roll) = CommunityCards(p, i, <<>>, n)
    /\ Hears(p, i, "TURN_CARD", n, roll) = CommunityCards(p, i, p.community, n)
    /\ Hears(p, i, "CHECK", n, roll) = p

LEMMA HearsEach == \A p, i, n, roll : EachHeard(p, i, n, roll)
BY DEF EachHeard, Hears, WithName, WithChips, WithFold

LEMMA HearsTalks ==
    ASSUME NEW p, PageOK(p), NEW i \in 1 .. Len(p.users), NEW c, CommandOK(c),
           NEW roll \in Rolls
    PROVE  Talks(p, Hears(p, i, c.command, c.parameters, roll), {p.users[i].id})
<1>1. PICK N : N = {p.users[i].id}
  OBVIOUS
<1>2. PICK n : n = c.parameters
  OBVIOUS
<1>3. c.command \in {"CHIPS", "BET"} => n[1] \in Int
  BY <1>2 DEF CommandOK
<1>0. EachHeard(p, i, n, roll)
  BY HearsEach
<1> DEFINE After(command) == Hears(p, i, command, n, roll)
<1>4. Talks(p, After("TELL_ME_ABOUT_YOU"), N)
  BY <1>1, TellTalks, <1>0 DEF EachHeard
<1>5. Talks(p, After("NAME"), N)
  BY FieldTalks, <1>0 DEF EachHeard
<1>6. n[1] \in Int => Talks(p, After("CHIPS"), N) /\ Talks(p, After("BET"), N)
  BY FieldTalks, MoneyTalks, <1>0 DEF EachHeard
<1>7. Talks(p, After("FOLD"), N)
  <2>1. PICK b \in BOOLEAN : b = TRUE
    OBVIOUS
  <2>2. Talks(p, WithFold(p, i, b), N)
    BY FieldTalks
  <2> QED BY <2>1, <2>2, <1>0 DEF EachHeard
<1>8. Talks(p, After("CLAIM"), N)
  BY MoneyTalks, <1>0 DEF EachHeard
<1>9. Talks(p, After("DEALER"), N)
  BY DealerTalks, <1>0 DEF EachHeard
<1>10. Talks(p, After("SHUFFLE"), N)
  BY ShuffleTalks, TalksMore, <1>0 DEF EachHeard
<1>11. /\ Talks(p, After("YOUR_CARDS"), N)
       /\ Talks(p, After("FLOP_CARDS"), N)
       /\ Talks(p, After("TURN_CARD"), N)
  BY CardsTalk, <1>0 DEF EachHeard
<1>12. Talks(p, After("CHECK"), N)
  <2>1. Alike(p, p)
    BY DEF Alike
  <2> QED BY <2>1, AlikeOK, <1>0 DEF EachHeard
<1>13. PICK command \in Commands : command = c.command
  BY DEF CommandOK
<1> HIDE DEF After
<1>14. Talks(p, After(command), N)
  BY <1>3, <1>4, <1>5, <1>6, <1>7, <1>8, <1>9, <1>10, <1>11, <1>12, <1>13 DEF Commands
<1> QED BY <1>1, <1>2, <1>13, <1>14 DEF After

LEMMA HandleCommandTalks ==
    ASSUME NEW p, PageOK(p), NEW id, NEW c, CommandOK(c), NEW roll \in Rolls
    PROVE  LET q == HandleCommand(p, id, c, roll)
           IN  /\ id \in IdSet(p.users) => Talks(p, q, {id})
               /\ id \notin IdSet(p.users) =>
                     Talks([p EXCEPT !.missed = TRUE], q, {})
<1>1. PICK i : i = IndexOf(p, id)
  OBVIOUS
<1>2. CASE i = 0
  <2>1. id \notin IdSet(p.users)
    BY <1>1, <1>2, IndexIs DEF PageOK
  <2>2. PICK r : r = [p EXCEPT !.missed = TRUE]
    OBVIOUS
  <2>3. PageOK(r)
    BY <2>2 DEF PageOK, Fields
  <2>4. Talks(r, r, {})
    <3>1. Alike(r, r)
      BY DEF Alike
    <3> QED BY <2>3, <3>1, AlikeOK
  <2>5. HandleCommand(p, id, c, roll) = r
    BY <1>1, <1>2, <2>2 DEF HandleCommand
  <2> QED BY <2>1, <2>2, <2>4, <2>5
<1>3. CASE i # 0
  <2>1. i \in 1 .. Len(p.users) /\ p.users[i].id = id
    BY <1>1, <1>3, IndexIs DEF PageOK
  <2>2. id \in IdSet(p.users)
    BY <2>1 DEF IdSet
  <2>3. HandleCommand(p, id, c, roll) = Hears(p, i, c.command, c.parameters, roll)
    BY <1>1, <1>3 DEF HandleCommand
  <2> QED BY <2>1, <2>2, <2>3, HearsTalks
<1> QED BY <1>2, <1>3

(* handleData. *)
PlaceOfName(p, name) == First(p.users, LAMBDA u : u.name = name)

LEMMA MyNameIsMine ==
    ASSUME NEW p, PageOK(p), NEW name, PlaceOfName(p, name) = Me
    PROVE  p.users # <<>> /\ 1 \in 1 .. Len(p.users)
<1>1. PICK n \in Nat : n = Len(p.users)
  BY ListPlaces DEF PageOK, ListOK
<1> DEFINE I == {i \in 1 .. n : p.users[i].name = name}
<1>2. I # {} /\ Min(I) = 1
  BY <1>1 DEF PlaceOfName, First, SelectInSeq, Me
<1>3. Min(I) \in I
  <2>1. I \in SUBSET (1 .. n)
    OBVIOUS
  <2> HIDE DEF I
  <2> QED BY <1>2, <2>1, MinOfPlaces
<1> QED BY <1>1, <1>2, <1>3

LEMMA ChipsLoadedTalks ==
    ASSUME NEW p, PageOK(p), NEW name, NEW data \in Seq(Int)
    PROVE  Talks(p, ChipsLoaded(p, name, data), {})
<1>1. Talks(p, p, {})
  <2>1. Alike(p, p)
    BY DEF Alike
  <2> QED BY <2>1, AlikeOK
<1>2. PICK i : i = PlaceOfName(p, name)
  OBVIOUS
<1>3. PICK q : q = IF data = <<>> THEN Writes(p, <<SaveMyChips(p)>>)
                   ELSE [p EXCEPT !.users[Me].chips = data[1]]
  OBVIOUS
<1>4. PICK r : r = Edited(q, Me)
  OBVIOUS
<1>5. PICK w : w = <<ToAllExceptMe(Command("CHIPS", <<q.users[Me].chips>>))>>
  OBVIOUS
<1>6. ChipsLoaded(p, name, data) = IF i # Me THEN p ELSE Writes(r, w)
  BY <1>2, <1>3, <1>4, <1>5 DEF ChipsLoaded, PlaceOfName, First, SelectInSeq
<1>7. CASE i # Me
  BY <1>1, <1>6, <1>7
<1>8. CASE i = Me
  <2>1. p.users # <<>> /\ 1 \in 1 .. Len(p.users)
    BY <1>2, <1>8, MyNameIsMine
  <2>2. Talks(p, q, {})
    <3>1. CASE data = <<>>
      BY <1>3, <2>1, <3>1, SavesIsAlike DEF SavesChips
    <3>2. CASE data # <<>>
      <4>1. PICK n \in Int : n = data[1]
        BY <3>2
      <4>2. PICK v : v = p.users[1]
        OBVIOUS
      <4>3. PICK u : u = [v EXCEPT !.chips = n]
        OBVIOUS
      <4>4. UserOK(v) /\ UserOK(u) /\ u.id = v.id
        BY <2>1, <4>1, <4>2, <4>3 DEF PageOK, ListOK, UserOK
      <4>5. PICK l : l = p.users
        OBVIOUS
      <4>6. q = [p EXCEPT !.users = [l EXCEPT ![1] = u]]
        BY <1>3, <3>2, <4>1, <4>2, <4>3, <4>5 DEF Me
      <4>7. /\ DOMAIN q = Fields
            /\ q.users = [l EXCEPT ![1] = u] /\ q.pot = p.pot
            /\ q.dealer = p.dealer /\ q.deck = p.deck
            /\ q.out = p.out /\ q.missed = p.missed
        BY <4>5, <4>6 DEF PageOK, Fields
      <4> QED BY <2>1, <4>2, <4>4, <4>5, <4>7, UserEdited DEF PageOK
    <3> QED BY <3>1, <3>2
  <2>3. q.users[Me].chips \in Int /\ Talks(p, r, {})
    <3>1. 1 \in 1 .. Len(q.users)
      BY <2>1, <2>2 DEF Talks, SameIds
    <3>2. q.users[Me].chips \in Int
      BY <2>2, <3>1 DEF Talks, PageOK, ListOK, UserOK, Me
    <3> QED BY <1>4, <2>2, <3>2, EditedTalks
  <2>4. AnswersOK(w, {})
    <3>1. PICK c : c = Command("CHIPS", <<q.users[Me].chips>>)
      OBVIOUS
    <3>2. CommandOK(c)
      BY <2>3, <3>1 DEF Command, CommandOK, Commands
    <3>3. PICK m : m = ToAllExceptMe(c)
      OBVIOUS
    <3>4. RequestOK(m) /\ m.symbol = "!"
      BY <3>2, <3>3 DEF ToAllExceptMe, RequestOK
    <3> QED BY <1>5, <3>1, <3>3, <3>4, OneAnswer
  <2>5. Talks(r, Writes(r, w), {})
    BY <2>3, <2>4, WritesTalks DEF Talks
  <2> QED BY <1>6, <1>8, <2>3, <2>5, TalksFollow
<1> QED BY <1>7, <1>8

LEMMA HandleDataTalks ==
    ASSUME NEW p, PageOK(p), NEW key, NEW data,
           key[1] \in Money => data \in Seq(Int)
    PROVE  Talks(p, HandleData(p, key, data), {})
<1>1. PICK q : q = HandleData(p, key, data)
  OBVIOUS
<1>2. CASE key[1] = "chips"
  <2>1. q = ChipsLoaded(p, key[2], data)
    BY <1>1, <1>2 DEF HandleData
  <2> QED BY <1>1, <1>2, <2>1, ChipsLoadedTalks DEF Money
<1>3. CASE key[1] = "pot"
  <2>1. PICK n \in Int : n = IF data = <<>> THEN 0 ELSE data[1]
    BY <1>3 DEF Money
  <2>2. q = [p EXCEPT !.pot = n]
    BY <1>1, <1>3, <2>1 DEF HandleData
  <2>3. /\ DOMAIN q = Fields /\ q.users = p.users /\ q.pot = n
        /\ q.dealer = p.dealer /\ q.deck = p.deck
        /\ q.out = p.out /\ q.missed = p.missed
    BY <2>2 DEF PageOK, Fields
  <2>4. SameIds(p.users, q.users)
    BY <2>3 DEF SameIds
  <2> QED BY <1>1, <2>3, <2>4, PageChanged DEF PageOK
<1>4. CASE key[1] \notin {"chips", "pot"}
  <2>1. q \in {p, [p EXCEPT !.hand = data], [p EXCEPT !.community = data]}
    BY <1>1, <1>4 DEF HandleData
  <2>2. Alike(p, q)
    BY <2>1 DEF Alike, PageOK, Fields
  <2> QED BY <1>1, <2>2, AlikeOK
<1> QED BY <1>2, <1>3, <1>4

-----------------------------------------------------------------------------
(***************************************************************************)
(* The list grows and shrinks.                                             *)
(***************************************************************************)
FirstKept(u, v) == u # <<>> => v # <<>> /\ v[1].id = u[1].id

LEMMA AddUserIsOK ==
    ASSUME NEW p, PageOK(p), NEW u, UserOK(u), u.id \notin IdSet(p.users)
    PROVE  LET q == AddUser(p, u)
           IN  /\ PageOK(q)
               /\ IdSet(q.users) = IdSet(p.users) \cup {u.id}
               /\ FirstKept(p.users, q.users)
               /\ q.users # <<>> /\ (p.users = <<>> => q.users[1] = u)
               /\ q.out = p.out /\ q.missed = p.missed
<1>1. PICK q : q = AddUser(p, u)
  OBVIOUS
<1>2. PICK l : l = p.users
  OBVIOUS
<1>3. PICK k : k = Append(l, u)
  OBVIOUS
<1>4. PICK n \in Nat : n = Len(l)
  BY <1>2, ListPlaces DEF PageOK, ListOK
<1>5. ListOK(l) /\ u.id \notin IdSet(l)
  BY <1>2 DEF PageOK
<1>6. /\ List(k) /\ Len(k) = n + 1
      /\ \A i \in 1 .. n : k[i] = l[i]
      /\ k[n + 1] = u
  BY <1>3, <1>4, <1>5, ListAppend DEF ListOK
<1>7. \A i \in 1 .. n + 1 : i \in 1 .. n \/ i = n + 1
  OBVIOUS
<1>8. ListOK(k)
  <2>1. \A i \in 1 .. n : UserOK(l[i]) /\ l[i].id # u.id
    BY <1>4, <1>5 DEF ListOK, IdSet
  <2>2. \A i \in 1 .. n + 1 : UserOK(k[i])
    BY <1>6, <1>7, <2>1
  <2>3. ASSUME NEW i \in 1 .. n + 1, NEW j \in 1 .. n + 1, k[i].id = k[j].id
        PROVE  i = j
    BY <1>4, <1>5, <1>6, <1>7, <2>1, <2>3 DEF ListOK
  <2> QED BY <1>6, <2>2, <2>3 DEF ListOK
<1>9. IdSet(k) = IdSet(l) \cup {u.id}
  <2>1. IdSet(k) \subseteq IdSet(l) \cup {u.id}
    BY <1>4, <1>6, <1>7 DEF IdSet
  <2>2. u.id \in IdSet(k)
    <3>1. n + 1 \in 1 .. n + 1
      OBVIOUS
    <3> QED BY <1>6, <3>1 DEF IdSet
  <2>3. IdSet(l) \subseteq IdSet(k)
    <3>1. \A i \in 1 .. n : i \in 1 .. n + 1 /\ k[i] = l[i]
      BY <1>6
    <3> QED BY <1>4, <1>6, <3>1 DEF IdSet
  <2> QED BY <2>1, <2>2, <2>3
<1>10. k # <<>> /\ FirstKept(l, k) /\ (l = <<>> => k[1] = u)
  <2>1. k # <<>>
    BY <1>6
  <2>2. l = <<>> => n = 0
    BY <1>4
  <2>3. l # <<>> => n # 0
    BY <1>4, <1>5, ListTail DEF ListOK
  <2> QED BY <1>6, <2>1, <2>2, <2>3 DEF FirstKept
<1>11. /\ DOMAIN q = Fields /\ q.users = k /\ q.pot = p.pot
       /\ q.dealer = p.dealer /\ q.deck = p.deck
       /\ q.out = p.out /\ q.missed = p.missed
  BY <1>1, <1>2, <1>3 DEF AddUser, PageOK, Fields
<1>12. PageOK(q)
  BY <1>2, <1>8, <1>9, <1>11 DEF PageOK
<1> QED BY <1>1, <1>2, <1>9, <1>10, <1>11, <1>12

LEMMA RemoveUserIsOK ==
    ASSUME NEW p, PageOK(p), NEW i \in 1 .. Len(p.users)
    PROVE  LET q == RemoveUser(p, i)
           IN  /\ PageOK(q)
               /\ IdSet(q.users) = IdSet(p.users) \ {p.users[i].id}
               /\ i # 1 => FirstKept(p.users, q.users)
               /\ q.out = p.out /\ q.missed = p.missed
<1>1. PICK q : q = RemoveUser(p, i)
  OBVIOUS
<1>2. PICK l : l = p.users
  OBVIOUS
<1>3. PICK k : k = RemoveAt(l, i)
  OBVIOUS
<1>4. PICK n \in Nat : n = Len(l)
  BY <1>2, ListPlaces DEF PageOK, ListOK
<1>5. ListOK(l) /\ i \in 1 .. n
  BY <1>2, <1>4 DEF PageOK
<1>6. /\ List(k) /\ Len(k) = n - 1
      /\ \A j \in 1 .. n - 1 : k[j] = IF j < i THEN l[j] ELSE l[j + 1]
  BY <1>3, <1>4, <1>5, ListRemoveAt DEF ListOK
<1>7. ListOK(k)
  <2> DEFINE at(j) == IF j < i THEN j ELSE j + 1
  <2>1. \A j \in 1 .. n - 1 : at(j) \in 1 .. n /\ k[j] = l[at(j)]
    BY <1>5, <1>6
  <2>2. \A j, m \in 1 .. n - 1 : at(j) = at(m) => j = m
    BY <1>5
  <2> HIDE DEF at
  <2>3. \A j \in 1 .. n - 1 : UserOK(k[j])
    BY <1>4, <1>5, <2>1 DEF ListOK
  <2>4. ASSUME NEW j \in 1 .. n - 1, NEW m \in 1 .. n - 1, k[j].id = k[m].id
        PROVE  j = m
    <3>1. at(j) = at(m)
      BY <1>4, <1>5, <2>1, <2>4 DEF ListOK
    <3> QED BY <2>2, <3>1
  <2> QED BY <1>6, <2>3, <2>4 DEF ListOK
<1>8. IdSet(k) = IdSet(l) \ {l[i].id}
  <2>1. ASSUME NEW j \in 1 .. n - 1
        PROVE  k[j].id \in IdSet(l) \ {l[i].id}
    <3>1. PICK m \in 1 .. n : m = IF j < i THEN j ELSE j + 1
      BY <1>5
    <3>2. m # i /\ k[j] = l[m]
      BY <1>5, <1>6, <3>1
    <3> QED BY <1>4, <1>5, <3>2 DEF IdSet, ListOK
  <2>2. ASSUME NEW m \in 1 .. n, m # i
        PROVE  l[m].id \in IdSet(k)
    <3>1. PICK j \in 1 .. n - 1 : j = IF m < i THEN m ELSE m - 1
      BY <1>5, <2>2
    <3>2. k[j] = l[m]
      BY <1>5, <1>6, <2>2, <3>1
    <3> QED BY <1>6, <3>2 DEF IdSet
  <2>3. IdSet(k) \subseteq IdSet(l) \ {l[i].id}
    BY <1>6, <2>1 DEF IdSet
  <2>4. IdSet(l) \ {l[i].id} \subseteq IdSet(k)
    BY <1>4, <2>2 DEF IdSet
  <2> QED BY <2>3, <2>4
<1>9. i # 1 => FirstKept(l, k)
  <2>1. i # 1 => n - 1 # 0 /\ 1 \in 1 .. n - 1 /\ 1 < i
    BY <1>5
  <2>2. i # 1 => k # <<>> /\ k[1] = l[1]
    BY <1>6, <2>1
  <2> QED BY <2>2 DEF FirstKept
<1>10. PICK d : d = IF l[i].id = p.dealer THEN NoUser ELSE p.dealer
  OBVIOUS
<1>11. /\ DOMAIN q = Fields /\ q.users = k /\ q.pot = p.pot
       /\ q.dealer = d /\ q.deck = p.deck
       /\ q.out = p.out /\ q.missed = p.missed
  BY <1>1, <1>2, <1>3, <1>10 DEF RemoveUser, PageOK, Fields
<1>12. PageOK(q)
  BY <1>2, <1>7, <1>8, <1>10, <1>11 DEF PageOK
<1> QED BY <1>1, <1>2, <1>8, <1>9, <1>11, <1>12

(* What frames do to the list: how it was before, and how it is.  The      *)
(* numbers of gone have left it, those of come are new.                    *)
Moves(p, q, gone, come, N) ==
    /\ PageOK(q)
    /\ IdSet(q.users) = (IdSet(p.users) \ gone) \cup come
    /\ FirstKept(p.users, q.users)
    /\ q.missed = p.missed
    /\ Answers(p, q, N)

LEMMA TalksMoves ==
    ASSUME NEW p, NEW q, NEW N, Talks(p, q, N)
    PROVE  Moves(p, q, {}, {}, N)
<1>1. IdSet(q.users) = IdSet(p.users)
  BY DEF Talks, SameIds, IdSet
<1>2. FirstKept(p.users, q.users)
  BY ListTail DEF Talks, SameIds, FirstKept, PageOK, ListOK
<1> QED BY <1>1, <1>2 DEF Moves, Talks

(* usersJoined: each is asked about itself. *)
JoinedOne(q, id) ==
    Writes(AddUser(q, NewUser(id)), <<ToUser(id, Command("TELL_ME_ABOUT_YOU", <<>>))>>)

LEMMA JoinedOneMoves ==
    ASSUME NEW p, PageOK(p), NEW id \in Nat, id \notin IdSet(p.users), NEW N, id \in N
    PROVE  Moves(p, JoinedOne(p, id), {}, {id}, N)
<1>1. PICK u : u = NewUser(id)
  OBVIOUS
<1>2. UserOK(u) /\ u.id = id
  <2>1. StartChips \in Int
    BY PokerAssumption
  <2> QED BY <1>1, <2>1 DEF NewUser, UserOK
<1>3. PICK q : q = AddUser(p, u)
  OBVIOUS
<1>4. /\ PageOK(q)
      /\ IdSet(q.users) = IdSet(p.users) \cup {id}
      /\ FirstKept(p.users, q.users)
      /\ q.out = p.out /\ q.missed = p.missed
  BY <1>2, <1>3, AddUserIsOK
<1>5. PICK c : c = Command("TELL_ME_ABOUT_YOU", <<>>)
  OBVIOUS
<1>6. CommandOK(c)
  BY <1>5 DEF Command, CommandOK, Commands
<1>7. AnswersOK(<<ToUser(id, c)>>, N)
  BY <1>6, ToUserIsOK
<1>8. PICK r : r = Writes(q, <<ToUser(id, c)>>)
  OBVIOUS
<1>9. Talks(q, r, N)
  BY <1>4, <1>7, <1>8, WritesTalks
<1>10. /\ r.users = q.users /\ r.missed = p.missed /\ Answers(p, r, N)
  <2>1. r.users = q.users /\ r.missed = p.missed
    BY <1>4, <1>8 DEF Writes, PageOK, Fields
  <2>2. Answers(p, r, N)
    BY <1>4, <1>9 DEF Talks, Answers
  <2> QED BY <2>1, <2>2
<1>11. r = JoinedOne(p, id)
  BY <1>1, <1>3, <1>5, <1>8 DEF JoinedOne
<1> QED BY <1>4, <1>9, <1>10, <1>11 DEF Moves, Talks

JoinStep(q, id, c) == JoinedOne(q, id)
Arrived(q, j, d) == Moves(d.page, q, {}, {d.ids[k] : k \in 1 .. j}, ToSet(d.ids))
Arriving == INSTANCE FoldLemmas WITH Step <- JoinStep, Good <- Arrived

LEMMA UsersJoinedMoves ==
    ASSUME NEW p, PageOK(p), NEW ids \in Seq(Nat), IsInjective(ids),
           ToSet(ids) \cap IdSet(p.users) = {}
    PROVE  Moves(p, UsersJoined(p, ids), {}, ToSet(ids), ToSet(ids))
<1>1. PICK n \in Nat : n = Len(ids) /\ DOMAIN ids = 1 .. n
  OBVIOUS
<1>2. PICK d : d = [page |-> p, ids |-> ids]
  OBVIOUS
<1>3. d.page = p /\ d.ids = ids
  BY <1>2
<1>4. PICK N : N = ToSet(ids)
  OBVIOUS
<1>5. \A k \in 1 .. n : ids[k] \in N /\ ids[k] \in Nat
  BY <1>1, <1>4 DEF ToSet
<1>6. Arrived(p, 0, d)
  <2>1. Alike(p, p)
    BY DEF Alike
  <2>2. Moves(p, p, {}, {}, N)
    BY <2>1, AlikeOK, TalksMoves
  <2>3. {ids[k] : k \in 1 .. 0} = {}
    OBVIOUS
  <2> QED BY <1>3, <1>4, <2>2, <2>3 DEF Arrived
<1>7. ASSUME NEW j \in 1 .. Len(ids), NEW q, Arrived(q, j - 1, d)
      PROVE  Arrived(JoinStep(q, ids[j], 0), j, d)
  <2>1. PICK M : M = {ids[k] : k \in 1 .. j - 1}
    OBVIOUS
  <2>2. Moves(p, q, {}, M, N)
    BY <1>3, <1>4, <1>7, <2>1 DEF Arrived
  <2>3. PICK id \in Nat : id = ids[j]
    OBVIOUS
  <2>4. id \in N /\ id \notin IdSet(p.users)
    BY <1>1, <1>4, <1>5, <2>3
  <2>5. id \notin M
    BY <1>1, <2>1, <2>3 DEF IsInjective
  <2>6. id \notin IdSet(q.users)
    BY <2>2, <2>4, <2>5 DEF Moves
  <2>7. PICK r : r = JoinedOne(q, id)
    OBVIOUS
  <2>8. Moves(q, r, {}, {id}, N)
    BY <2>2, <2>4, <2>6, <2>7, JoinedOneMoves DEF Moves
  <2>9. {ids[k] : k \in 1 .. j} = M \cup {id}
    BY <1>1, <2>1, <2>3
  <2>10. Moves(p, r, {}, M \cup {id}, N)
    <3>1. Answers(p, r, N)
      BY <2>2, <2>8, AnswersFollow DEF Moves
    <3>2. FirstKept(p.users, r.users)
      BY <2>2, <2>8 DEF Moves, FirstKept
    <3> QED BY <2>2, <2>8, <3>1, <3>2 DEF Moves
  <2> QED BY <1>3, <1>4, <2>3, <2>7, <2>9, <2>10 DEF Arrived, JoinStep
<1>8. PICK q : q = Arriving!Fold(p, ids, 0)
  OBVIOUS
<1>9. Arrived(q, n, d)
  <2> HIDE DEF Arrived
  <2> QED BY <1>1, <1>6, <1>7, <1>8, Arriving!FoldInduction
<1>10. UsersJoined(p, ids) = q
  BY <1>8 DEF UsersJoined, Arriving!Fold, JoinStep, JoinedOne, FoldLeft, Arriving!FoldLeft,
     MapThenFoldSet, Arriving!MapThenFoldSet, Max, Arriving!Max
<1>11. {ids[k] : k \in 1 .. n} = ToSet(ids)
  BY <1>1 DEF ToSet
<1> QED BY <1>3, <1>9, <1>10, <1>11 DEF Arrived

LEMMA UserLeftMoves ==
    ASSUME NEW p, PageOK(p), NEW id, p.users # <<>> => p.users[1].id # id
    PROVE  Moves(p, UserLeft(p, id), {id}, {}, {})
<1>1. PICK i : i = IndexOf(p, id)
  OBVIOUS
<1>2. CASE i = 0
  <2>1. id \notin IdSet(p.users)
    BY <1>1, <1>2, IndexIs DEF PageOK
  <2>2. Moves(p, p, {}, {}, {})
    <3>1. Alike(p, p)
      BY DEF Alike
    <3> QED BY <3>1, AlikeOK, TalksMoves
  <2>3. UserLeft(p, id) = p
    BY <1>1, <1>2 DEF UserLeft
  <2> QED BY <2>1, <2>2, <2>3 DEF Moves
<1>3. CASE i # 0
  <2>1. i \in 1 .. Len(p.users) /\ p.users[i].id = id
    BY <1>1, <1>3, IndexIs DEF PageOK
  <2>2. i # 1
    <3>1. p.users # <<>>
      BY <2>1, ListPlaces DEF PageOK, ListOK
    <3> QED BY <2>1, <3>1
  <2>3. PICK q : q = RemoveUser(p, i)
    OBVIOUS
  <2>4. /\ PageOK(q)
        /\ IdSet(q.users) = IdSet(p.users) \ {id}
        /\ FirstKept(p.users, q.users)
        /\ q.out = p.out /\ q.missed = p.missed
    BY <2>1, <2>2, <2>3, RemoveUserIsOK
  <2>5. Answers(p, q, {})
    BY <2>4, AnswerNothing
  <2>6. UserLeft(p, id) = q
    BY <1>1, <1>3, <2>3 DEF UserLeft
  <2> QED BY <2>4, <2>5, <2>6 DEF Moves
<1> QED BY <1>2, <1>3

(* The connection is closed: every second user stays in the list. *)
RemoveStep(q, id, c) == RemoveUser(q, IndexOf(q, id))
Thinned(q, j, d) ==
    /\ PageOK(q) /\ q.missed = d.page.missed
    /\ \A k \in 1 .. Len(d.ids) : k > j => d.ids[k] \in IdSet(q.users)
Thinning == INSTANCE FoldLemmas WITH Step <- RemoveStep, Good <- Thinned

LEMMA OfflineIsOK ==
    ASSUME NEW p, PageOK(p)
    PROVE  PageOK(Offline(p)) /\ Offline(p).missed = p.missed
<1>1. PICK m \in Nat : m = Len(p.users)
  BY ListPlaces DEF PageOK, ListOK
<1>2. PICK n \in Nat : n = (m + 1) \div 2 /\ 2 * n <= m + 1
  OBVIOUS
<1>3. PICK ids : ids = [k \in 1 .. (Len(p.users) + 1) \div 2 |-> p.users[2 * k - 1].id]
  OBVIOUS
<1>4. ids = [k \in 1 .. n |-> p.users[2 * k - 1].id]
  BY <1>1, <1>2, <1>3
<1>5. \A k \in 1 .. n : 2 * k - 1 \in 1 .. m
  BY <1>2
<1>6. \A k \in 1 .. n : ids[k] = p.users[2 * k - 1].id /\ ids[k] \in Nat
  BY <1>1, <1>4, <1>5 DEF PageOK, ListOK, UserOK
<1>7. ids \in Seq(Nat) /\ Len(ids) = n
  BY <1>4, <1>6
<1>8. \A k, l \in 1 .. n : ids[k] = ids[l] => k = l
  <2>1. ASSUME NEW k \in 1 .. n, NEW l \in 1 .. n, ids[k] = ids[l]
        PROVE  2 * k - 1 = 2 * l - 1
    BY Zenon, <1>1, <1>5, <1>6, <2>1 DEF PageOK, ListOK
  <2> QED BY <2>1
<1>9. \A k \in 1 .. n : ids[k] \in IdSet(p.users)
  BY <1>1, <1>5, <1>6 DEF IdSet
<1>10. PICK d : d = [page |-> p, ids |-> ids]
  OBVIOUS
<1>11. d.page = p /\ d.ids = ids
  BY <1>10
<1>12. Thinned(p, 0, d)
  BY <1>7, <1>9, <1>11 DEF Thinned
<1>13. ASSUME NEW j \in 1 .. Len(ids), NEW q, Thinned(q, j - 1, d)
       PROVE  Thinned(RemoveStep(q, ids[j], 0), j, d)
  <2>1. PICK id \in Nat : id = ids[j]
    BY <1>6, <1>7
  <2>2. PageOK(q) /\ q.missed = p.missed /\ id \in IdSet(q.users)
    BY <1>7, <1>11, <1>13, <2>1 DEF Thinned
  <2>3. PICK i \in 1 .. Len(q.users) : i = IndexOf(q, id) /\ q.users[i].id = id
    BY <2>2, IndexIs DEF PageOK
  <2>4. PICK r : r = RemoveUser(q, i)
    OBVIOUS
  <2>5. PageOK(r) /\ IdSet(r.users) = IdSet(q.users) \ {id} /\ r.missed = p.missed
    BY <2>2, <2>3, <2>4, RemoveUserIsOK
  <2>6. ASSUME NEW k \in 1 .. Len(ids), k > j
        PROVE  ids[k] \in IdSet(r.users)
    <3>1. k > j - 1 /\ k # j
      BY <1>7, <2>6
    <3>2. ids[k] \in IdSet(q.users)
      BY <1>11, <1>13, <3>1 DEF Thinned
    <3>3. ids[k] # id
      BY <1>7, <1>8, <2>1, <3>1
    <3> QED BY <2>5, <3>2, <3>3
  <2> QED BY <1>11, <2>1, <2>3, <2>4, <2>5, <2>6 DEF Thinned, RemoveStep
<1>14. PICK q : q = Thinning!Fold(p, ids, 0)
  OBVIOUS
<1>15. Thinned(q, n, d)
  <2> HIDE DEF Thinned
  <2> QED BY <1>7, <1>12, <1>13, <1>14, Thinning!FoldInduction
<1>16. Offline(p) = q
  BY <1>3, <1>14 DEF Offline, Thinning!Fold, RemoveStep, FoldLeft, Thinning!FoldLeft,
     MapThenFoldSet, Thinning!MapThenFoldSet, Max, Thinning!Max
<1> QED BY <1>11, <1>15, <1>16 DEF Thinned

LEMMA AssignRealmNumberTalks ==
    ASSUME NEW p, PageOK(p)
    PROVE  Talks(p, AssignRealmNumber(p), {})
<1>1. ASSUME NEW k, k[1] \in Kinds
      PROVE  AnswersOK(<<LoadData(k, OwnRealm)>>, {})
  <2>1. PICK q : q = LoadData(k, OwnRealm)
    OBVIOUS
  <2>2. q.symbol = "<" /\ q.number = OwnRealm /\ q.name = k
    BY <2>1 DEF LoadData
  <2>3. RequestOK(q)
    BY <1>1, <2>2 DEF RequestOK
  <2> QED BY <2>1, <2>2, <2>3, OneAnswer
<1> DEFINE a == LoadData(ChipsKey(p.name), OwnRealm)
           b == LoadData(PotKey, OwnRealm)
           c == LoadData(CardsKey(p.name), OwnRealm)
           d == LoadData(CommunityKey, OwnRealm)
<1>3. /\ AnswersOK(<<a>>, {}) /\ AnswersOK(<<b>>, {})
      /\ AnswersOK(<<c>>, {}) /\ AnswersOK(<<d>>, {})
  <2>1. /\ ChipsKey(p.name)[1] \in Kinds /\ PotKey[1] \in Kinds
        /\ CardsKey(p.name)[1] \in Kinds /\ CommunityKey[1] \in Kinds
    BY DEF ChipsKey, PotKey, CardsKey, CommunityKey, Kinds
  <2> QED BY <1>1, <2>1
<1> HIDE DEF a, b, c, d
<1>4. AnswersOK(<<a, b>>, {}) /\ AnswersOK(<<c, d>>, {})
  BY <1>3, TwoAnswers
<1>5. PICK s, t : s = <<a, b>> /\ t = <<c, d>>
  OBVIOUS
<1>6. AnswersOK(s \o t, {})
  BY <1>4, <1>5, AnswersConcat
<1>7. s \o t = <<a, b, c, d>>
  <2>1. PICK S : S = {a, b, c, d}
    OBVIOUS
  <2>2. s \in Seq(S) /\ t \in Seq(S) /\ Len(s) = 2 /\ Len(t) = 2
    BY <1>5, <2>1
  <2>3. PICK u : u = s \o t
    OBVIOUS
  <2>4. /\ u \in Seq(S) /\ Len(u) = Len(s) + Len(t)
        /\ \A i \in 1 .. Len(s) + Len(t) :
              u[i] = IF i <= Len(s) THEN s[i] ELSE t[i - Len(s)]
    BY <2>2, <2>3, ConcatProperties
  <2>5. u[1] = a /\ u[2] = b /\ u[3] = c /\ u[4] = d
    BY <1>5, <2>2, <2>4
  <2>6. u = <<u[1], u[2], u[3], u[4]>>
    BY <2>2, <2>4
  <2> QED BY <2>3, <2>5, <2>6
<1>8. AssignRealmNumber(p) = Writes(p, s \o t)
  BY <1>7, Zenon DEF AssignRealmNumber, a, b, c, d
<1> QED BY <1>6, <1>8, WritesTalks

-----------------------------------------------------------------------------
(***************************************************************************)
(* The invariant.  A page is first in its own list; it has one request to  *)
(* join, the first it writes; and once it is at the table its list has the *)
(* numbers of those who are.  Nobody who is written to has left, unless    *)
(* somebody has; everybody who is connected is at the table, unless        *)
(* somebody has just come: so a page hears a stranger only after both.     *)
(***************************************************************************)
Ids == {userID[x] : x \in AtTable}

InPlace(p, id, realm, ids) ==
    /\ id = NoUser => p.out = <<>>
    /\ id # NoUser => p.users # <<>> /\ p.users[1].id = id
    /\ id # NoUser /\ realm = NoRealm => /\ IdSet(p.users) = {id}
                                         /\ p.out # <<>>
                                         /\ p.out[1] = JoinRealm(TableRealm)
    /\ \A i \in 1 .. Len(p.out) : p.out[i].symbol = "^" => i = 1 /\ realm = NoRealm
    /\ realm # NoRealm => realm = TableRealm /\ IdSet(p.users) = ids

WritesTo(p, ids) ==
    \A i \in 1 .. Len(p.out) : p.out[i].symbol = "@" => p.out[i].number \in ids

Both == {"arrival", "departure"}
SinceOK == List(since) /\ Len(since) \in Nat
FileOK(f) == f.name[1] \in Money => f.data \in Seq(Int)
NoKids == \A r \in RealmNumber : realmChildren[r] = {} /\ realmParent[r] = NoRealm
Seat(p, id, realm, ids, s) ==
    /\ PageOK(p)
    /\ InPlace(p, id, realm, ids)
    /\ p.missed => Both \subseteq ToSet(s)
    /\ "departure" \notin ToSet(s) => WritesTo(p, ids \cup {id})
    /\ "arrival" \notin ToSet(s) /\ id # NoUser => realm = TableRealm
SeatOK(e) == Seat(page[e], userID[e], userRealm[e], Ids, since)

PInv == /\ IInv
        /\ NoKids
        /\ \A f \in files : FileOK(f)
        /\ page = [e \in EndPoint |-> page[e]]
        /\ SinceOK
        /\ \A e \in EndPoint : SeatOK(e)

(* A page that hears something, and answers. *)
LEMMA AnswersInPlace ==
    ASSUME NEW p, NEW q, NEW id, NEW realm, NEW ids, NEW N, NEW M, PageOK(p), PageOK(q),
           InPlace(p, id, realm, ids), id # NoUser,
           IdSet(q.users) = IdSet(p.users), FirstKept(p.users, q.users),
           Answers(p, q, N)
    PROVE  /\ InPlace(q, id, realm, ids)
           /\ WritesTo(p, M) /\ N \subseteq M => WritesTo(q, M)
<1>1. PICK w : AnswersOK(w, N) /\ q.out = p.out \o w
  BY DEF Answers
<1>2. PICK m \in Nat, n \in Nat : m = Len(p.out) /\ n = Len(w)
  BY <1>1, ListPlaces DEF PageOK, AnswersOK, RequestsOK
<1>3. /\ Len(q.out) = m + n
      /\ \A i \in 1 .. m : q.out[i] = p.out[i]
      /\ \A i \in 1 .. n : q.out[m + i] = w[i]
  <2>1. PICK o : o = p.out
    OBVIOUS
  <2>2. List(o) /\ List(w)
    BY <1>1, <2>1 DEF PageOK, AnswersOK, RequestsOK
  <2> QED BY <1>1, <1>2, <2>1, <2>2, ListConcat
<1>4. \A i \in 1 .. m + n : i \in 1 .. m \/ (i - m \in 1 .. n /\ m + (i - m) = i)
  OBVIOUS
<1>5. \A i \in 1 .. n : /\ w[i].symbol # "^"
                        /\ w[i].symbol = "@" => w[i].number \in N
  BY <1>1, <1>2 DEF AnswersOK
<1>6. realm = NoRealm => q.out # <<>> /\ q.out[1] = JoinRealm(TableRealm)
  <2>1. SUFFICES ASSUME realm = NoRealm
                 PROVE  q.out # <<>> /\ q.out[1] = JoinRealm(TableRealm)
    OBVIOUS
  <2>2. p.out # <<>> /\ p.out[1] = JoinRealm(TableRealm)
    BY <2>1 DEF InPlace
  <2>3. m # 0
    BY <1>2, <2>2, ListTail DEF PageOK, RequestsOK
  <2>4. m + n # 0 /\ 1 \in 1 .. m
    BY <2>3
  <2> QED BY <1>3, <2>2, <2>4
<1>7. ASSUME NEW i \in 1 .. Len(q.out), q.out[i].symbol = "^"
      PROVE  i = 1 /\ realm = NoRealm
  <2>1. i \in 1 .. m
    <3>1. CASE i - m \in 1 .. n /\ m + (i - m) = i
      BY <1>3, <1>5, <1>7, <3>1
    <3> QED BY <1>3, <1>4, <3>1
  <2> QED BY <1>2, <1>3, <1>7, <2>1 DEF InPlace
<1>8. ASSUME WritesTo(p, M), N \subseteq M, NEW i \in 1 .. Len(q.out),
             q.out[i].symbol = "@"
      PROVE  q.out[i].number \in M
  <2>1. CASE i \in 1 .. m
    BY <1>2, <1>3, <1>8, <2>1 DEF WritesTo
  <2>2. CASE i - m \in 1 .. n /\ m + (i - m) = i
    BY <1>3, <1>5, <1>8, <2>2
  <2> QED BY <1>3, <1>4, <2>1, <2>2
<1>9. InPlace(q, id, realm, ids)
  BY <1>6, <1>7 DEF InPlace, FirstKept
<1> QED BY <1>8, <1>9 DEF WritesTo

(* The server takes the oldest request of a user that is at the table. *)
TakenOf(p) == [p EXCEPT !.out = Tail(@)]

LEMMA TakenInPlace ==
    ASSUME NEW p, PageOK(p), NEW id, id # NoUser, NEW ids, NEW M,
           p.out # <<>>, NEW realm, InPlace(p, id, realm, ids)
    PROVE  LET q == TakenOf(p)
           IN  /\ PageOK(q) /\ q.users = p.users /\ q.missed = p.missed
               /\ realm # NoRealm => InPlace(q, id, realm, ids)
               /\ \A i \in 1 .. Len(q.out) : q.out[i].symbol # "^"
               /\ WritesTo(p, M) => WritesTo(q, M)
               /\ RequestOK(Head(p.out)) /\ Head(p.out) = p.out[1]
               /\ WritesTo(p, M) /\ Head(p.out).symbol = "@" => Head(p.out).number \in M
<1>1. PICK q : q = TakenOf(p)
  OBVIOUS
<1>2. PICK o : o = p.out
  OBVIOUS
<1>3. /\ DOMAIN q = Fields /\ q.users = p.users /\ q.missed = p.missed
      /\ q.dealer = p.dealer /\ q.deck = p.deck /\ q.pot = p.pot
      /\ q.out = Tail(o)
  BY <1>1, <1>2 DEF TakenOf, PageOK, Fields
<1>4. RequestsOK(o) /\ o # <<>>
  BY <1>2 DEF PageOK
<1>16. Len(o) \in Nat \ {0}
  BY <1>4, ListTail DEF RequestsOK
<1>5. PICK n \in Nat : n = Len(o) - 1 /\ n + 1 = Len(o)
  BY <1>16
<1>6. /\ Head(o) = o[1] /\ List(Tail(o)) /\ Len(Tail(o)) = n
      /\ \A i \in 1 .. n : Tail(o)[i] = o[i + 1]
  BY <1>4, <1>5, ListTail DEF RequestsOK
<1>7. \A i \in 1 .. n : i + 1 \in 1 .. n + 1 /\ i + 1 # 1
  OBVIOUS
<1>8. 1 \in 1 .. n + 1
  OBVIOUS
<1>9. RequestsOK(Tail(o))
  BY <1>4, <1>5, <1>6, <1>7 DEF RequestsOK
<1>10. PageOK(q)
  BY <1>3, <1>9 DEF PageOK
<1>11. \A i \in 1 .. Len(q.out) : q.out[i].symbol # "^"
  BY <1>2, <1>3, <1>5, <1>6, <1>7 DEF InPlace
<1>12. realm # NoRealm => InPlace(q, id, realm, ids)
  BY <1>3, <1>11 DEF InPlace
<1>13. WritesTo(p, M) => WritesTo(q, M)
  BY <1>2, <1>3, <1>5, <1>6, <1>7 DEF WritesTo
<1>14. RequestOK(Head(o))
  BY <1>4, <1>5, <1>6, <1>8 DEF RequestsOK
<1>15. WritesTo(p, M) /\ Head(o).symbol = "@" => Head(o).number \in M
  BY <1>2, <1>5, <1>6, <1>8 DEF WritesTo
<1> QED BY <1>1, <1>2, <1>3, <1>6, <1>10, <1>11, <1>12, <1>13, <1>14, <1>15

LEMMA AnswersMore ==
    ASSUME NEW p, NEW q, NEW N, NEW M, N \subseteq M
    PROVE  /\ \A w : AnswersOK(w, N) => AnswersOK(w, M)
           /\ Answers(p, q, N) => Answers(p, q, M)
           /\ Talks(p, q, N) => Talks(p, q, M)
<1>1. \A w : AnswersOK(w, N) => AnswersOK(w, M)
  BY DEF AnswersOK
<1> QED BY <1>1 DEF Answers, Talks

LEMMA SeatAnswers ==
    ASSUME NEW p, NEW q, NEW id, NEW realm, NEW ids, NEW s, NEW N,
           Seat(p, id, realm, ids, s), id # NoUser, Talks(p, q, N),
           N \subseteq ids \cup {id}
    PROVE  Seat(q, id, realm, ids, s)
<1>1. Moves(p, q, {}, {}, N)
  BY TalksMoves
<1>2. /\ PageOK(p) /\ PageOK(q) /\ q.missed = p.missed
      /\ IdSet(q.users) = IdSet(p.users) /\ FirstKept(p.users, q.users)
      /\ Answers(p, q, N) /\ InPlace(p, id, realm, ids)
  BY <1>1 DEF Moves, Seat
<1>3. InPlace(q, id, realm, ids)
  BY <1>2, AnswersInPlace
<1>4. WritesTo(p, ids \cup {id}) => WritesTo(q, ids \cup {id})
  BY <1>2, AnswersInPlace
<1> QED BY <1>2, <1>3, <1>4 DEF Seat

LEMMA SeatTaken ==
    ASSUME NEW p, NEW id, NEW realm, NEW ids, NEW s, Seat(p, id, realm, ids, s),
           id # NoUser, realm # NoRealm, p.out # <<>>
    PROVE  Seat(TakenOf(p), id, realm, ids, s)
<1>1. PageOK(p) /\ InPlace(p, id, realm, ids)
  BY DEF Seat
<1>2. PICK q : q = TakenOf(p)
  OBVIOUS
<1>3. /\ PageOK(q) /\ q.users = p.users /\ q.missed = p.missed
      /\ InPlace(q, id, realm, ids)
      /\ WritesTo(p, ids \cup {id}) => WritesTo(q, ids \cup {id})
  BY <1>1, <1>2, TakenInPlace
<1> QED BY <1>2, <1>3 DEF Seat

LEMMA SeatMissed ==
    ASSUME NEW p, NEW id, NEW realm, NEW ids, NEW s, Seat(p, id, realm, ids, s),
           Both \subseteq ToSet(s)
    PROVE  Seat([p EXCEPT !.missed = TRUE], id, realm, ids, s)
<1>1. PICK q : q = [p EXCEPT !.missed = TRUE]
  OBVIOUS
<1>2. /\ DOMAIN q = Fields /\ q.users = p.users /\ q.missed = TRUE
      /\ q.dealer = p.dealer /\ q.deck = p.deck /\ q.pot = p.pot /\ q.out = p.out
  BY <1>1 DEF Seat, PageOK, Fields
<1>3. PageOK(q) /\ InPlace(q, id, realm, ids)
  BY <1>2 DEF Seat, PageOK, InPlace
<1>4. WritesTo(p, ids \cup {id}) => WritesTo(q, ids \cup {id})
  BY <1>2 DEF WritesTo
<1> QED BY <1>1, <1>2, <1>3, <1>4 DEF Seat

(* Something is begun: since is longer, or all was quiet. *)
LEMMA BeginsKeepsSeats ==
    ASSUME PInv, NEW kind, Begins(kind)
    PROVE  /\ SinceOK' /\ kind \in ToSet(since')
           /\ \A e \in EndPoint :
                 Seat(page[e], userID[e], userRealm[e], Ids, since')
<1>1. CASE Quiet /\ Len(since) <= 1 /\ since' = <<kind>>
  <2>1. List(since') /\ Len(since') = 1 /\ ToSet(since') = {kind}
    <3>1. PICK s : s = <<kind>>
      OBVIOUS
    <3>2. List(s) /\ Len(s) = 1 /\ s[1] = kind /\ DOMAIN s = {1}
      BY <3>1, SmallLists
    <3>3. ToSet(s) = {kind}
      BY <3>2 DEF ToSet
    <3> QED BY <1>1, <3>1, <3>2, <3>3
  <2>2. ASSUME NEW e \in EndPoint
        PROVE  Seat(page[e], userID[e], userRealm[e], Ids, since')
    <3>1. PICK p : p = page[e]
      OBVIOUS
    <3>2. Seat(p, userID[e], userRealm[e], Ids, since) /\ p.out = <<>>
      BY <1>1, <3>1 DEF PInv, SeatOK, Quiet
    <3>3. ~p.missed
      <4>1. SUFFICES ASSUME p.missed
                     PROVE  FALSE
        BY <3>2 DEF Seat, PageOK
      <4>2. Both \subseteq ToSet(since)
        BY <3>2, <4>1 DEF Seat
      <4>3. PICK n \in Nat : n = Len(since) /\ n <= 1 /\ DOMAIN since = 1 .. n
        BY <1>1, ListPlaces DEF PInv, SinceOK
      <4>4. PICK i \in 1 .. n, j \in 1 .. n :
               since[i] = "arrival" /\ since[j] = "departure"
        BY <4>2, <4>3 DEF ToSet, Both
      <4>5. i = j
        BY <4>3
      <4> QED BY <4>4, <4>5
    <3>4. WritesTo(p, Ids \cup {userID[e]})
      BY <3>2 DEF WritesTo
    <3>5. userID[e] # NoUser => userRealm[e] = TableRealm
      BY <3>2 DEF Seat, InPlace
    <3> QED BY <3>1, <3>2, <3>3, <3>4, <3>5 DEF Seat
  <2> QED BY <2>1, <2>2 DEF SinceOK
<1>2. CASE since' = Append(since, kind)
  <2>1. PICK s, t : s = since /\ t = Append(since, kind)
    OBVIOUS
  <2>2. List(s) /\ Len(s) \in Nat
    BY <2>1 DEF PInv, SinceOK
  <2>3. PICK n \in Nat : n = Len(s) /\ DOMAIN s = 1 .. n
    BY <2>2, ListPlaces
  <2>4. /\ List(t) /\ Len(t) = n + 1 /\ t[n + 1] = kind
        /\ \A i \in 1 .. n : t[i] = s[i]
    BY <2>1, <2>2, <2>3, ListAppend
  <2>5. DOMAIN t = 1 .. n + 1
    BY <2>4, ListPlaces
  <2>6. ToSet(s) \subseteq ToSet(t) /\ kind \in ToSet(t)
    <3>1. \A i \in 1 .. n : i \in 1 .. n + 1
      OBVIOUS
    <3>2. n + 1 \in 1 .. n + 1
      OBVIOUS
    <3> QED BY <2>3, <2>4, <2>5, <3>1, <3>2 DEF ToSet
  <2>7. ASSUME NEW e \in EndPoint
        PROVE  Seat(page[e], userID[e], userRealm[e], Ids, t)
    <3>1. Seat(page[e], userID[e], userRealm[e], Ids, s)
      BY <2>1 DEF PInv, SeatOK
    <3> QED BY <2>6, <3>1 DEF Seat
  <2> QED BY <1>2, <2>1, <2>4, <2>6, <2>7 DEF SinceOK
<1> QED BY <1>1, <1>2 DEF Begins

-----------------------------------------------------------------------------
(* The clicks. *)
LEMMA ShiftedTalks ==
    ASSUME NEW p, PageOK(p), NEW n \in Nat
    PROVE  Talks(p, Shifted(p, n), {})
<1>1. PICK d : d = p.deck
  OBVIOUS
<1>2. PICK q : q = Shifted(p, n)
  OBVIOUS
<1>3. /\ DOMAIN q = Fields /\ q.users = p.users /\ q.missed = p.missed
      /\ q.dealer = p.dealer /\ q.deck = SubSeq(d, n + 1, Len(d)) /\ q.pot = p.pot
      /\ q.out = p.out
  BY <1>1, <1>2 DEF Shifted, PageOK, Fields
<1>4. d \in Seq(1 .. CardCount) /\ IsInjective(d)
  BY <1>1 DEF PageOK, DeckOK
<1>5. PICK r : r = SubSeq(d, n + 1, Len(d))
  OBVIOUS
<1>6. DeckOK(r)
  <2>1. /\ r \in Seq(1 .. CardCount)
        /\ \A i \in 1 .. Len(r) : n + i \in 1 .. Len(d) /\ r[i] = d[n + i]
    BY <1>4, <1>5, LaterPlaces
  <2>2. \A i, j \in 1 .. Len(r) : n + i = n + j => i = j
    BY <2>1
  <2>3. IsInjective(r)
    BY <1>4, <2>1, <2>2 DEF IsInjective
  <2> QED BY <2>1, <2>3 DEF DeckOK
<1>7. SameIds(p.users, q.users)
  BY <1>3 DEF SameIds
<1> QED BY <1>2, <1>3, <1>5, <1>6, <1>7, PageChanged DEF PageOK

LEMMA RelayUnchanged ==
    ASSUME PInv, UNCHANGED <<userVars, realmVars>>
    PROVE  /\ Ids' = Ids /\ NoKids' /\ userID' = userID /\ userRealm' = userRealm
BY DEF userVars, realmVars, PInv, NoKids, Ids, AtTable

LEMMA ClicksKeep ==
    ASSUME PInv, NEW e \in EndPoint, NEW button, NEW p, NEW requests,
           Clicks(e, button, p, requests),
           Talks(page[e], p, {}), AnswersOK(requests, IdSet(page[e].users))
    PROVE  PInv'
<1>1. /\ userID[e] # NoUser
      /\ Begins("click")
      /\ page' = [page EXCEPT ![e] = Writes(p, requests)]
      /\ UNCHANGED <<userVars, realmVars>> /\ UNCHANGED <<files, now>>
  BY DEF Clicks, vars, storeVars
<1>2. IInv'
  <2>1. DirectoryOK'
    BY <1>1, PartsStay DEF PInv
  <2> QED BY <1>1, <2>1, OnlyFilesChange DEF PInv
<1>3. Ids' = Ids /\ NoKids' /\ userID' = userID /\ userRealm' = userRealm
  BY <1>1, RelayUnchanged
<1>4. /\ page' = [x \in EndPoint |-> page'[x]]
      /\ page'[e] = Writes(p, requests)
      /\ \A x \in EndPoint : x # e => page'[x] = page[x]
  BY <1>1 DEF PInv
<1>5. /\ SinceOK'
      /\ \A x \in EndPoint : Seat(page[x], userID[x], userRealm[x], Ids, since')
  BY <1>1, BeginsKeepsSeats
<1>6. Talks(page[e], page'[e], IdSet(page[e].users))
  <2>1. PICK N : N = IdSet(page[e].users)
    OBVIOUS
  <2>2. Talks(page[e], p, N) /\ PageOK(p) /\ PageOK(page[e])
    BY AnswersMore DEF Talks, PInv, SeatOK, Seat
  <2>3. Talks(p, Writes(p, requests), N)
    BY <2>1, <2>2, WritesTalks
  <2> QED BY <1>4, <2>1, <2>2, <2>3, TalksFollow
<1>7. IdSet(page[e].users) \subseteq Ids \cup {userID[e]}
  BY <1>1 DEF PInv, SeatOK, Seat, InPlace
<1>8. ASSUME NEW x \in EndPoint
      PROVE  Seat(page'[x], userID[x], userRealm[x], Ids, since')
  BY <1>1, <1>4, <1>5, <1>6, <1>7, SeatAnswers
<1>9. \A x \in EndPoint : SeatOK(x)'
  BY <1>3, <1>8 DEF SeatOK
<1>10. \A f \in files' : FileOK(f)
  BY <1>1 DEF PInv
<1> QED BY <1>2, <1>3, <1>4, <1>5, <1>9, <1>10 DEF PInv

LEMMA SaysIsAnswer ==
    ASSUME NEW command \in Commands, NEW parameters, NEW N,
           command \in {"CHIPS", "BET"} => parameters[1] \in Int
    PROVE  AnswersOK(Says(command, parameters), N)
<1>1. PICK c : c = Command(command, parameters)
  OBVIOUS
<1>2. c.command = command /\ c.parameters = parameters
  BY <1>1 DEF Command
<1>3. CommandOK(c)
  BY <1>2 DEF CommandOK
<1>4. PICK q : q = ToAll(c)
  OBVIOUS
<1>5. RequestOK(q) /\ q.symbol = "*"
  BY <1>3, <1>4 DEF ToAll, RequestOK
<1> QED BY <1>1, <1>4, <1>5, OneAnswer DEF Says

LEMMA DealtIsAnswer ==
    ASSUME NEW p, PageOK(p), NEW requests, NEW n,
           n = Cardinality({i \in DOMAIN p.users : HasCards(p, 2 * i)}),
           requests = [i \in 1 .. n |->
              ToUser(p.users[i].id,
                     Command("YOUR_CARDS", <<p.deck[2 * i - 1], p.deck[2 * i]>>))]
    PROVE  AnswersOK(requests, IdSet(p.users))
<1>1. PICK m \in Nat : m = Len(p.users) /\ DOMAIN p.users = 1 .. m
  BY ListPlaces DEF PageOK, ListOK
<1>2. n \in Nat /\ n <= m
  <2>1. PICK I : I = {i \in DOMAIN p.users : HasCards(p, 2 * i)}
    OBVIOUS
  <2>2. I \subseteq 1 .. m
    BY <1>1, <2>1
  <2>3. IsFiniteSet(1 .. m) /\ Cardinality(1 .. m) = m
    BY FS_Interval
  <2>4. IsFiniteSet(I) /\ Cardinality(I) <= m
    BY <2>2, <2>3, FS_Subset
  <2> QED BY <2>1, <2>4, FS_CardinalityType
<1>3. ASSUME NEW i \in 1 .. n
      PROVE  /\ RequestOK(requests[i]) /\ requests[i].symbol = "@"
             /\ requests[i].number \in IdSet(p.users)
  <2>1. PICK c : c = Command("YOUR_CARDS", <<p.deck[2 * i - 1], p.deck[2 * i]>>)
    OBVIOUS
  <2>2. CommandOK(c)
    BY <2>1 DEF Command, CommandOK, Commands
  <2>3. PICK k : k = p.users[i].id
    OBVIOUS
  <2>4. k \in Nat /\ k \in IdSet(p.users)
    <3>1. i \in 1 .. Len(p.users)
      BY <1>1, <1>2
    <3> QED BY <2>3, <3>1 DEF PageOK, ListOK, UserOK, IdSet
  <2>5. requests[i] = ToUser(k, c)
    BY <2>1, <2>3, Zenon
  <2>6. PICK q : q = ToUser(k, c)
    OBVIOUS
  <2>7. q.symbol = "@" /\ q.number = k /\ q.text = c
    BY <2>6 DEF ToUser
  <2> QED BY <2>2, <2>4, <2>5, <2>6, <2>7 DEF RequestOK
<1>4. List(requests) /\ Len(requests) = n
  <2>1. PICK f : f = requests
    OBVIOUS
  <2>2. f = [i \in 1 .. n |-> f[i]]
    BY <2>1
  <2> QED BY <1>2, <2>1, <2>2, ListOfPlaces
<1> QED BY <1>3, <1>4 DEF AnswersOK, RequestsOK

LEMMA ClickKeepsPInv ==
    ASSUME PInv, NEW e \in EndPoint, Click(e)
    PROVE  PInv'
<1>1. PICK p : p = page[e]
  OBVIOUS
<1>2. PageOK(p)
  BY <1>1 DEF PInv, SeatOK, Seat
<1>3. Talks(p, p, {})
  <2>1. Alike(p, p)
    BY DEF Alike
  <2> QED BY <1>2, <2>1, AlikeOK
<1>4. ASSUME NEW button, NEW command \in Commands, NEW parameters,
             command \in {"CHIPS", "BET"} => parameters[1] \in Int,
             Clicks(e, button, p, Says(command, parameters))
      PROVE  PInv'
  <2>1. PICK requests : requests = Says(command, parameters)
    OBVIOUS
  <2>2. AnswersOK(requests, IdSet(p.users))
    BY <1>4, <2>1, SaysIsAnswer
  <2> QED BY <1>1, <1>3, <1>4, <2>1, <2>2, ClicksKeep
<1>5. CASE \/ ClickFold(e) \/ ClickCheck(e) \/ ClickShuffle(e) \/ ClickPot(e)
  BY <1>1, <1>4, <1>5 DEF Commands, ClickFold, ClickCheck, ClickShuffle, ClickPot
<1>6. CASE ClickBet(e)
  <2>1. PICK n \in BetAmount : Clicks(e, "bet", p, Says("BET", <<n>>))
    BY <1>1, <1>6 DEF ClickBet
  <2>2. <<n>>[1] \in Int
    BY PokerAssumption
  <2> QED BY <1>4, <2>1, <2>2 DEF Commands
<1>7. CASE DoubleClickUser(e)
  <2>1. PICK i \in DOMAIN p.box :
           Clicks(e, "dealer", p, Says("DEALER", <<p.box[i].value>>))
    BY <1>1, <1>7, Zenon DEF DoubleClickUser
  <2> QED BY <1>4, <2>1 DEF Commands
<1>8. CASE ClickDeal(e)
  <2>1. PICK n : n = Cardinality({i \in DOMAIN p.users : HasCards(p, 2 * i)})
    OBVIOUS
  <2>2. PICK requests : requests = [i \in 1 .. n |->
              ToUser(p.users[i].id,
                     Command("YOUR_CARDS", <<p.deck[2 * i - 1], p.deck[2 * i]>>))]
    OBVIOUS
  <2>3. AnswersOK(requests, IdSet(p.users))
    BY <1>2, <2>1, <2>2, DealtIsAnswer
  <2>4. PICK k \in Nat : k = 2 * Len(p.users)
    BY <1>2, ListPlaces DEF PageOK, ListOK
  <2>5. PICK q : q = Shifted(p, k)
    OBVIOUS
  <2>6. Talks(p, q, {})
    BY <1>2, <2>5, ShiftedTalks
  <2>7. Clicks(e, "deal", q, requests)
    BY <1>1, <1>8, <2>1, <2>2, <2>4, <2>5, Zenon DEF ClickDeal
  <2> QED BY <1>1, <2>3, <2>6, <2>7, ClicksKeep
<1>9. CASE ClickFlop(e) \/ ClickTurn(e)
  <2>1. PICK button, command, n : /\ command \in {"FLOP_CARDS", "TURN_CARD"}
                                  /\ n \in {1, 3}
                                  /\ ClickCommunity(e, button, command, n)
    BY <1>9 DEF ClickFlop, ClickTurn
  <2>2. PICK requests : requests = IF HasCards(p, n) THEN Says(command, Top(p, n)) ELSE <<>>
    OBVIOUS
  <2>3. AnswersOK(requests, IdSet(p.users))
    <3>1. AnswersOK(<<>>, IdSet(p.users))
      BY AnswerNothing
    <3>2. command \in Commands /\ command \notin {"CHIPS", "BET"}
      BY <2>1 DEF Commands
    <3>3. AnswersOK(Says(command, Top(p, n)), IdSet(p.users))
      BY <3>2, SaysIsAnswer
    <3> QED BY <2>2, <3>1, <3>3
  <2>4. n \in Nat
    BY <2>1
  <2>5. PICK q : q = Shifted(p, n)
    OBVIOUS
  <2>6. Talks(p, q, {})
    BY <1>2, <2>4, <2>5, ShiftedTalks
  <2>7. Clicks(e, button, q, requests)
    BY <1>1, <2>1, <2>2, <2>5, Zenon DEF ClickCommunity
  <2> QED BY <1>1, <2>3, <2>6, <2>7, ClicksKeep
<1> QED BY <1>5, <1>6, <1>7, <1>8, <1>9 DEF Click

-----------------------------------------------------------------------------
(***************************************************************************)
(* The server takes a request, and the pages read what it writes.          *)
(***************************************************************************)
Reads == INSTANCE FoldLemmas WITH Step <- Handled, Good <- Thinned

Base(e, x) == IF x = e THEN TakenOf(page[e]) ELSE page[x]

ReadBy(e, roll) ==
    [x \in EndPoint |->
       Reads!Fold(Base(e, x), Frames(outbox'[x], TextOf(Head(page[e].out))), roll)]

LEMMA ServedReads ==
    ASSUME PInv, NEW e \in EndPoint, Served(e)
    PROVE  /\ page[e].out # <<>> /\ Serve(e, Head(page[e].out))
           /\ UNCHANGED <<begun, since, dealers>>
           /\ \E roll \in Rolls : page' = ReadBy(e, roll)
<1>1. \E roll \in Rolls : page' = [x \in EndPoint |->
           Reads!Fold(Taken(e)[x], Frames(outbox'[x], TextOf(Head(page[e].out))), roll)]
  BY DEF Served, Route, Reads!Fold, Reads!FoldLeft, FoldLeft, Reads!MapThenFoldSet,
         MapThenFoldSet, Reads!Max, Max
<1>2. \A x \in EndPoint : Taken(e)[x] = Base(e, x)
  BY DEF PInv, Taken, Base, TakenOf
<1>3. page[e].out # <<>> /\ Serve(e, Head(page[e].out))
  BY Zenon DEF Served, Route
<1>4. UNCHANGED <<begun, since, dealers>>
  BY Zenon DEF Served, ghosts
<1> QED BY <1>1, <1>2, <1>3, <1>4, Zenon DEF ReadBy

LEMMA ReadsFew ==
    ASSUME NEW p, NEW roll
    PROVE  /\ Reads!Fold(p, <<>>, roll) = p
           /\ \A m : Reads!Fold(p, <<m>>, roll) = Handled(p, m, roll)
           /\ \A m, n : Reads!Fold(p, <<m, n>>, roll) = Handled(Handled(p, m, roll), n, roll)
BY Reads!FoldNothing, Reads!FoldOne, Reads!FoldTwo

(* handleSocketMessage, frame by frame. *)
LEMMA HandledEach ==
    ASSUME NEW p, NEW roll
    PROVE  /\ \A n : Handled(p, Packet("#", n), roll) = AssignUserNumber(p, n)
           /\ \A n : Handled(p, Packet("^", n), roll) = AssignRealmNumber(p)
           /\ \A n : Handled(p, Packet("+", n), roll) = UsersJoined(p, <<n>>)
           /\ \A n : Handled(p, Packet("-", n), roll) = UserLeft(p, n)
           /\ \A ids : Handled(p, Listing(ids), roll) = UsersJoined(p, ids)
           /\ Handled(p, Closed, roll) = Offline(p)
           /\ \A symbol \in {"@", "!", "*"} : \A n, c :
                 Handled(p, Said(symbol, n, c), roll) = HandleCommand(p, n, c, roll)
           /\ \A r, k, d : Handled(p, DataPacket(r, k, d), roll)
                             = HandleData(p, k, IF d = NoData THEN <<>> ELSE d)
<1>1. ASSUME NEW n
      PROVE  /\ Handled(p, Packet("#", n), roll) = AssignUserNumber(p, n)
             /\ Handled(p, Packet("^", n), roll) = AssignRealmNumber(p)
             /\ Handled(p, Packet("+", n), roll) = UsersJoined(p, <<n>>)
             /\ Handled(p, Packet("-", n), roll) = UserLeft(p, n)
  BY DEF Handled, Packet
<1>2. ASSUME NEW ids
      PROVE  Handled(p, Listing(ids), roll) = UsersJoined(p, ids)
  BY DEF Handled, Listing
<1>3. Handled(p, Closed, roll) = Offline(p)
  BY DEF Handled, Closed
<1>4. ASSUME NEW symbol \in {"@", "!", "*"}, NEW n, NEW c
      PROVE  Handled(p, Said(symbol, n, c), roll) = HandleCommand(p, n, c, roll)
  BY DEF Handled, Said
<1>5. ASSUME NEW r, NEW k, NEW d
      PROVE  Handled(p, DataPacket(r, k, d), roll)
               = HandleData(p, k, IF d = NoData THEN <<>> ELSE d)
  BY DEF Handled, DataPacket
<1> QED BY <1>1, <1>2, <1>3, <1>4, <1>5

LEMMA HandledSaid ==
    ASSUME NEW p, NEW roll, NEW symbol \in {"@", "!", "*"}, NEW n, NEW c, NEW m,
           m = Said(symbol, n, c)
    PROVE  Handled(p, m, roll) = HandleCommand(p, n, c, roll)
BY DEF Handled, Said

LEMMA SaidIsCommand ==
    ASSUME NEW q, RequestOK(q), q.symbol \in {"@", "!", "*"}
    PROVE  CommandOK(q.text)
<1>1. CASE q = JoinRealm(TableRealm)
  BY <1>1 DEF JoinRealm
<1>2. CASE q.symbol = "<" \/ q.symbol = ">"
  BY <1>2
<1> QED BY <1>1, <1>2 DEF RequestOK

(* A page reads nothing, or a command or data, and answers. *)
Replies(x, p, q) ==
    \/ q = p
    \/ Talks(p, q, Ids)
    \/ Both \subseteq ToSet(since) /\ Talks([p EXCEPT !.missed = TRUE], q, Ids)

LEMMA RepliesKeep ==
    ASSUME PInv, NEW e \in EndPoint, userID[e] # NoUser, userRealm[e] # NoRealm,
           page[e].out # <<>>, IInv', UNCHANGED <<userVars, realmVars>>,
           UNCHANGED <<begun, since, dealers>>, \A f \in files' : FileOK(f),
           page' = [x \in EndPoint |-> page'[x]],
           \A x \in EndPoint : Replies(x, Base(e, x), page'[x]),
           \A x \in EndPoint : userID[x] = NoUser => page'[x] = page[x]
    PROVE  PInv'
<1>1. Ids' = Ids /\ NoKids' /\ userID' = userID /\ userRealm' = userRealm
  BY RelayUnchanged
<1>2. ASSUME NEW x \in EndPoint
      PROVE  Seat(page'[x], userID[x], userRealm[x], Ids, since)
  <2>1. Seat(page[x], userID[x], userRealm[x], Ids, since)
    BY DEF PInv, SeatOK
  <2>2. CASE userID[x] = NoUser
    BY <2>1, <2>2
  <2>3. CASE userID[x] # NoUser
    <3>1. PICK p : p = Base(e, x)
      OBVIOUS
    <3>2. Seat(p, userID[x], userRealm[x], Ids, since)
      BY <2>1, <3>1, SeatTaken DEF Base
    <3>3. CASE Talks(p, page'[x], Ids)
      BY <2>3, <3>2, <3>3, SeatAnswers
    <3>4. CASE Both \subseteq ToSet(since) /\ Talks([p EXCEPT !.missed = TRUE], page'[x], Ids)
      <4>1. PICK q : q = [p EXCEPT !.missed = TRUE]
        OBVIOUS
      <4>2. Seat(q, userID[x], userRealm[x], Ids, since)
        BY <3>2, <3>4, <4>1, SeatMissed
      <4> QED BY <2>3, <3>4, <4>1, <4>2, SeatAnswers
    <3> QED BY <3>1, <3>2, <3>3, <3>4 DEF Replies
  <2> QED BY <2>2, <2>3
<1>3. \A x \in EndPoint : SeatOK(x)'
  BY <1>1, <1>2 DEF SeatOK
<1> QED BY <1>1, <1>3 DEF PInv, SinceOK

(* Who e is, once the server takes a request of e. *)
LEMMA TakenFrom ==
    ASSUME PInv, NEW e \in EndPoint, page[e].out # <<>>
    PROVE  /\ userID[e] # NoUser /\ userID[e] \in Nat
           /\ PageOK(page[e]) /\ RequestOK(Head(page[e].out))
           /\ userRealm[e] = NoRealm => Head(page[e].out) = JoinRealm(TableRealm)
           /\ userRealm[e] # NoRealm => /\ Head(page[e].out).symbol # "^"
                                        /\ userRealm[e] = TableRealm
                                        /\ userID[e] \in Ids
           /\ \A x \in EndPoint : /\ PageOK(Base(e, x))
                                  /\ Base(e, x).users = page[x].users
<1>1. PICK p : p = page[e]
  OBVIOUS
<1>2. Seat(p, userID[e], userRealm[e], Ids, since) /\ p.out # <<>>
  BY <1>1 DEF PInv, SeatOK
<1>3. PageOK(p) /\ InPlace(p, userID[e], userRealm[e], Ids) /\ userID[e] # NoUser
  BY <1>2 DEF Seat, InPlace
<1>4. /\ PageOK(TakenOf(p)) /\ TakenOf(p).users = p.users
      /\ RequestOK(Head(p.out)) /\ Head(p.out) = p.out[1]
  BY <1>2, <1>3, TakenInPlace
<1>5. userID[e] \in Nat
  BY <1>3 DEF PInv, IInv, TypeOK
<1>6. userRealm[e] = NoRealm => Head(p.out) = JoinRealm(TableRealm)
  BY <1>3, <1>4 DEF InPlace
<1>7. userRealm[e] # NoRealm => Head(p.out).symbol # "^"
  <2>1. 1 \in 1 .. Len(p.out)
    <3>1. Len(p.out) \in Nat \ {0}
      BY <1>2, <1>3, ListTail DEF PageOK, RequestsOK
    <3> QED BY <3>1
  <2> QED BY <1>3, <1>4, <2>1 DEF InPlace
<1>8. userRealm[e] # NoRealm => userRealm[e] = TableRealm /\ userID[e] \in Ids
  BY <1>3 DEF InPlace, Ids, AtTable
<1>9. \A x \in EndPoint : PageOK(Base(e, x)) /\ Base(e, x).users = page[x].users
  BY <1>1, <1>4 DEF Base, PInv, SeatOK, Seat
<1> QED BY <1>1, <1>3, <1>4, <1>5, <1>6, <1>7, <1>8, <1>9

LEMMA MembersAtTable ==
    ASSUME PInv
    PROVE  /\ ToSet(realmUsers[TableRealm]) = AtTable
           /\ \A x \in AtTable : userID[x] \in Nat
           /\ \A x, y \in EndPoint : userID[x] = userID[y] /\ userID[x] # NoUser => x = y
<1>1. TableRealm \in RealmNumber /\ TableRealm # NoRealm
  BY PokerAssumption, RelayAssumption DEF RealmNumber, NoRealm
<1>2. ToSet(realmUsers[TableRealm]) \subseteq EndPoint
  <2>1. realmUsers[TableRealm] \in Seq(EndPoint)
    BY <1>1 DEF PInv, IInv, TypeOK
  <2> QED BY <2>1, ToSetType
<1>3. \A x \in EndPoint : x \in ToSet(realmUsers[TableRealm]) <=> userRealm[x] = TableRealm
  BY <1>1 DEF PInv, IInv, Membership
<1>4. \A x \in AtTable : userID[x] \in Nat
  BY <1>1 DEF PInv, IInv, Membership, TypeOK, AtTable, Connected
<1>5. \A x, y \in EndPoint : userID[x] = userID[y] /\ userID[x] # NoUser => x = y
  BY DEF PInv, IInv, UserNumbers, Connected
<1> QED BY <1>2, <1>3, <1>4, <1>5 DEF AtTable

(* A command: whoever hears it knows who says it, or both have come and    *)
(* gone.                                                                   *)
LEMMA TalkKeepsPInv ==
    ASSUME PInv, NEW e \in EndPoint, NEW roll \in Rolls, page[e].out # <<>>,
           userRealm[e] # NoRealm, NEW X, NEW symbol \in {"@", "!", "*"},
           IInv', UNCHANGED <<userVars, realmVars, storeVars>>,
           UNCHANGED <<begun, since, dealers>>, page' = ReadBy(e, roll),
           Head(page[e].out).symbol = symbol,
           outbox' = SendTo(X, Packet(symbol, userID[e])),
           \A x \in X : /\ x \in EndPoint /\ userID[x] # NoUser
                        /\ x \in AtTable \/ Both \subseteq ToSet(since)
    PROVE  PInv'
<1>1. PICK id \in Nat : id = userID[e]
  BY TakenFrom
<1>2. PICK c : c = TextOf(Head(page[e].out)) /\ CommandOK(c)
  <2>1. PICK q : q = Head(page[e].out)
    OBVIOUS
  <2>2. RequestOK(q) /\ q.symbol \in {"@", "!", "*"}
    BY <2>1, TakenFrom
  <2>3. CommandOK(q.text)
    BY <2>2, SaidIsCommand
  <2>4. TextOf(q) = q.text
    BY Zenon, <2>2 DEF TextOf
  <2> QED BY <2>1, <2>3, <2>4
<1>3. ASSUME NEW x \in EndPoint
      PROVE  page'[x] = IF x \in X THEN HandleCommand(Base(e, x), id, c, roll)
                        ELSE Base(e, x)
  <2>1. page'[x] = Reads!Fold(Base(e, x), Frames(outbox'[x], c), roll)
    BY <1>2, Zenon DEF ReadBy
  <2>2. CASE x \in X
    <3>1. outbox'[x] = <<Packet(symbol, id)>>
      BY <1>1, <2>2 DEF SendTo
    <3>2. PICK a, m, p : a = Packet(symbol, id) /\ m = Said(symbol, id, c) /\ p = Base(e, x)
      BY Zenon
    <3>3. Frame(a, c) = <<m>>
      BY <3>2, FrameOf, Zenon
    <3>4. Frames(<<a>>, c) = <<m>>
      BY <3>3, FramesFew
    <3>5. Reads!Fold(p, <<m>>, roll) = Handled(p, m, roll)
      BY ReadsFew
    <3>6. Handled(p, m, roll) = HandleCommand(p, id, c, roll)
      BY <3>2, HandledSaid
    <3> QED BY <2>1, <2>2, <3>1, <3>2, <3>4, <3>5, <3>6
  <2>3. CASE x \notin X
    <3>1. outbox'[x] = <<>>
      BY <2>3 DEF SendTo
    <3>2. Frames(outbox'[x], c) = <<>>
      BY <3>1, FramesFew
    <3> QED BY <2>1, <2>3, <3>2, ReadsFew
  <2> QED BY <2>2, <2>3
<1>4. ASSUME NEW x \in EndPoint
      PROVE  Replies(x, Base(e, x), page'[x])
  <2>1. CASE x \notin X
    BY <1>3, <2>1 DEF Replies
  <2>2. CASE x \in X
    <3>1. PICK p : p = Base(e, x)
      OBVIOUS
    <3>2. PICK q : q = HandleCommand(p, id, c, roll)
      OBVIOUS
    <3>3. page'[x] = q
      BY <1>3, <2>2, <3>1, <3>2
    <3>4. PageOK(p) /\ p.users = page[x].users
      BY <3>1, TakenFrom
    <3>5. {id} \subseteq Ids /\ {} \subseteq Ids
      BY <1>1, TakenFrom
    <3>6. CASE id \in IdSet(p.users)
      <4>1. Talks(p, q, {id})
        BY <1>2, <3>2, <3>4, <3>6, HandleCommandTalks
      <4>2. Talks(p, q, Ids)
        BY <3>5, <4>1, AnswersMore
      <4> QED BY <3>1, <3>3, <4>2 DEF Replies
    <3>7. CASE id \notin IdSet(p.users)
      <4>1. Talks([p EXCEPT !.missed = TRUE], q, {})
        BY <1>2, <3>2, <3>4, <3>7, HandleCommandTalks
      <4>2. Talks([p EXCEPT !.missed = TRUE], q, Ids)
        BY <3>5, <4>1, AnswersMore
      <4>3. Both \subseteq ToSet(since)
        <5>1. x \in AtTable => IdSet(p.users) = Ids
          BY <3>4, PokerAssumption DEF PInv, SeatOK, Seat, InPlace, AtTable, RealmNumber
        <5>2. id \in Ids
          BY <1>1, TakenFrom
        <5> QED BY <2>2, <3>7, <5>1, <5>2
      <4> QED BY <3>1, <3>3, <4>2, <4>3 DEF Replies
    <3> QED BY <3>6, <3>7
  <2> QED BY <2>1, <2>2
<1>5. ASSUME NEW x \in EndPoint, userID[x] = NoUser
      PROVE  page'[x] = page[x]
  <2>1. x \notin X /\ x # e
    BY <1>5, TakenFrom
  <2> QED BY <1>3, <2>1 DEF Base
<1>6. \A f \in files' : FileOK(f)
  BY DEF PInv, storeVars
<1>7. page' = [x \in EndPoint |-> page'[x]]
  BY Zenon DEF ReadBy
<1> QED BY <1>4, <1>5, <1>6, <1>7, TakenFrom, RepliesKeep

LEMMA ReadNothing ==
    ASSUME NEW e, NEW x \in EndPoint, NEW roll, page' = ReadBy(e, roll), outbox'[x] = <<>>
    PROVE  page'[x] = Base(e, x)
<1>1. PICK c : c = TextOf(Head(page[e].out))
  OBVIOUS
<1>2. page'[x] = Reads!Fold(Base(e, x), Frames(outbox'[x], c), roll)
  BY <1>1, Zenon DEF ReadBy
<1>3. Frames(outbox'[x], c) = <<>>
  BY FramesFew
<1> QED BY <1>2, <1>3, ReadsFew

LEMMA ReadOne ==
    ASSUME NEW e, NEW x \in EndPoint, NEW roll, page' = ReadBy(e, roll),
           NEW a, NEW m, outbox'[x] = <<a>>,
           Frame(a, TextOf(Head(page[e].out))) = <<m>>
    PROVE  page'[x] = Handled(Base(e, x), m, roll)
<1>1. PICK c : c = TextOf(Head(page[e].out))
  OBVIOUS
<1>2. page'[x] = Reads!Fold(Base(e, x), Frames(outbox'[x], c), roll)
  BY <1>1, Zenon DEF ReadBy
<1>3. Frames(<<a>>, c) = <<m>>
  BY <1>1, FramesFew
<1>4. Reads!Fold(Base(e, x), <<m>>, roll) = Handled(Base(e, x), m, roll)
  BY ReadsFew
<1> QED BY <1>2, <1>3, <1>4

(* The data that a page loads or saves. *)
LEMMA LoadKeepsPInv ==
    ASSUME PInv, NEW e \in EndPoint, NEW roll \in Rolls, page[e].out # <<>>,
           userRealm[e] # NoRealm, NEW r, NEW k, LoadEntity(e, r, k),
           UNCHANGED <<begun, since, dealers>>, page' = ReadBy(e, roll)
    PROVE  PInv'
<1>1. /\ IInv' /\ UNCHANGED <<userVars, realmVars>> /\ files' \subseteq files
      /\ IInv
  BY LoadIsOK DEF PInv
<1>2. PICK d : d = LoadedData(r, k)
  OBVIOUS
<1>3. outbox' = SendTo({e}, DataPacket(r, k, d))
  BY <1>2 DEF LoadEntity
<1>4. PICK data : data = IF d = NoData THEN <<>> ELSE d
  OBVIOUS
<1>5. k[1] \in Money => data \in Seq(Int)
  <2>1. CASE \E f \in GetFile(r, k) : ~Expired(f)
    <3>1. PICK f \in GetFile(r, k) : d = f.data
      BY <1>2, <2>1 DEF LoadedData
    <3>2. f \in files /\ f.name = k
      BY <3>1 DEF GetFile
    <3>3. FileOK(f)
      BY <3>2 DEF PInv
    <3> QED BY <1>4, <3>1, <3>2, <3>3 DEF FileOK
  <2>2. CASE ~ \E f \in GetFile(r, k) : ~Expired(f)
    BY <1>2, <1>4, <2>2 DEF LoadedData
  <2> QED BY <2>1, <2>2
<1>6. ASSUME NEW x \in EndPoint
      PROVE  page'[x] = IF x = e THEN HandleData(Base(e, x), k, data) ELSE Base(e, x)
  <2>1. CASE x = e
    <3>1. PICK a : a = DataPacket(r, k, d)
      OBVIOUS
    <3>2. outbox'[x] = <<a>>
      BY <1>3, <2>1, <3>1 DEF SendTo
    <3>3. Frame(a, TextOf(Head(page[e].out))) = <<a>>
      <4>1. PICK c : c = TextOf(Head(page[e].out))
        OBVIOUS
      <4>2. a.symbol = "<"
        BY <3>1 DEF DataPacket
      <4>3. Frame(a, c) = <<a>>
        BY <4>2 DEF Frame
      <4> QED BY <4>1, <4>3
    <3>4. page'[x] = Handled(Base(e, x), a, roll)
      BY <3>2, <3>3, ReadOne
    <3>5. Handled(Base(e, x), a, roll) = HandleData(Base(e, x), k, data)
      BY <1>4, <3>1 DEF Handled, DataPacket
    <3> QED BY <2>1, <3>4, <3>5
  <2>2. CASE x # e
    <3>1. outbox'[x] = <<>>
      BY <1>3, <2>2 DEF SendTo
    <3> QED BY <2>2, <3>1, ReadNothing
  <2> QED BY <2>1, <2>2
<1>7. ASSUME NEW x \in EndPoint
      PROVE  Replies(x, Base(e, x), page'[x])
  <2>1. PageOK(Base(e, x))
    BY TakenFrom
  <2>2. Talks(Base(e, x), HandleData(Base(e, x), k, data), {})
    BY <1>5, <2>1, HandleDataTalks
  <2>3. Talks(Base(e, x), HandleData(Base(e, x), k, data), Ids)
    BY <2>2, AnswersMore
  <2> QED BY <1>6, <2>3 DEF Replies
<1>8. ASSUME NEW x \in EndPoint, userID[x] = NoUser
      PROVE  page'[x] = page[x]
  <2>1. x # e
    BY <1>8, TakenFrom
  <2> QED BY <1>6, <2>1 DEF Base
<1>9. \A f \in files' : FileOK(f)
  BY <1>1 DEF PInv
<1>10. page' = [x \in EndPoint |-> page'[x]]
  BY Zenon DEF ReadBy
<1> QED BY <1>1, <1>7, <1>8, <1>9, <1>10, TakenFrom, RepliesKeep

LEMMA SaveKeepsPInv ==
    ASSUME PInv, NEW e \in EndPoint, NEW roll \in Rolls, page[e].out # <<>>,
           userRealm[e] # NoRealm, NEW k, NEW d, DataOK(k, d),
           SaveEntity(e, k, TTL, d),
           UNCHANGED <<begun, since, dealers>>, page' = ReadBy(e, roll)
    PROVE  PInv'
<1>1. IInv' /\ UNCHANGED <<userVars, realmVars>>
  <2>1. TTL \in Int /\ IInv
    BY DEF TTL, PInv
  <2> QED BY <2>1, SaveIsOK
<1>2. outbox' = Silence /\ files' = AfterSave(userRealm[e], k, TTL, d)
  BY DEF SaveEntity
<1>3. ASSUME NEW x \in EndPoint
      PROVE  page'[x] = Base(e, x)
  <2>1. outbox'[x] = <<>>
    BY <1>2 DEF Silence
  <2> QED BY <2>1, ReadNothing
<1>4. ASSUME NEW x \in EndPoint
      PROVE  Replies(x, Base(e, x), page'[x])
  BY <1>3 DEF Replies
<1>5. ASSUME NEW x \in EndPoint, userID[x] = NoUser
      PROVE  page'[x] = page[x]
  <2>1. x # e
    BY <1>5, TakenFrom
  <2> QED BY <1>3, <2>1 DEF Base
<1>6. \A f \in files' : FileOK(f)
  <2>1. ASSUME NEW t
        PROVE  FileOK(File(userRealm[e], k, t, d))
    BY DEF FileOK, File, DataOK, PInv
  <2> QED BY <1>2, <2>1 DEF AfterSave, PInv
<1>7. page' = [x \in EndPoint |-> page'[x]]
  BY Zenon DEF ReadBy
<1> QED BY <1>1, <1>4, <1>5, <1>6, <1>7, TakenFrom, RepliesKeep

(* A name that the server does not take: nothing is kept, and no answer.   *)
LEMMA IgnoredKeepsPInv ==
    ASSUME PInv, NEW e \in EndPoint, NEW roll \in Rolls, page[e].out # <<>>,
           userRealm[e] # NoRealm, NEW q, Ignored(q),
           UNCHANGED <<begun, since, dealers>>, page' = ReadBy(e, roll)
    PROVE  PInv'
<1>1. /\ UNCHANGED <<userVars, realmVars>> /\ UNCHANGED <<files, now>>
      /\ outbox' = Silence
  BY DEF Ignored, storeVars
<1>2. IInv'
  <2>1. DirectoryOK'
    BY <1>1, PartsStay DEF PInv
  <2> QED BY <1>1, <2>1, OnlyFilesChange DEF PInv
<1>3. ASSUME NEW x \in EndPoint
      PROVE  page'[x] = Base(e, x)
  <2>1. outbox'[x] = <<>>
    BY <1>1 DEF Silence
  <2> QED BY <2>1, ReadNothing
<1>4. ASSUME NEW x \in EndPoint
      PROVE  Replies(x, Base(e, x), page'[x])
  BY <1>3 DEF Replies
<1>5. ASSUME NEW x \in EndPoint, userID[x] = NoUser
      PROVE  page'[x] = page[x]
  <2>1. x # e
    BY <1>5, TakenFrom
  <2> QED BY <1>3, <2>1 DEF Base
<1>6. \A f \in files' : FileOK(f)
  BY <1>1 DEF PInv
<1>7. page' = [x \in EndPoint |-> page'[x]]
  BY Zenon DEF ReadBy
<1> QED BY <1>1, <1>2, <1>4, <1>5, <1>6, <1>7, TakenFrom, RepliesKeep

-----------------------------------------------------------------------------
(***************************************************************************)
(* The table has no parent and no children, so a move there or back tells  *)
(* of a departure or of an arrival and of nothing else.                    *)
(***************************************************************************)
(* What is written to x when e moves. *)
TellsLeft(e, target, x) ==
    IF x \in MembersAfter(e, target, userRealm[e]) THEN <<Packet("-", userID[e])>> ELSE <<>>
TellsJoined(e, target, x) ==
    LET others == MembersAfter(e, target, target) \ {e}
    IN  IF target = NoRealm THEN <<>>
        ELSE IF x = e
        THEN <<Packet("^", target), UsersPresent({userID[y] : y \in others})>>
        ELSE IF x \in others THEN <<Packet("+", userID[e])>> ELSE <<>>

LEMMA FlatMove ==
    ASSUME PInv, NEW e \in EndPoint, NEW target \in RealmNumber \cup {NoRealm},
           NEW queue, MoveToRealm(e, target, FALSE, queue)
    PROVE  /\ NoKids'
           /\ realmUsers' = UsersAfter(e, target)
           /\ \A x \in EndPoint :
                 outbox'[x] = TellsLeft(e, target, x) \o TellsJoined(e, target, x)
<1>1. PICK D \in SUBSET RealmsAfter(target) :
         /\ realmUsers' = UsersAfter(e, target)
         /\ realmParent' = [r \in RealmNumber |->
               IF r \in D THEN NoRealm ELSE ParentAfter(e, target, FALSE)[r]]
         /\ realmChildren' = [r \in RealmNumber |->
               IF r \in D THEN {} ELSE ChildrenAfter(e, target, FALSE)[r] \ D]
         /\ outbox' = Notices(e, target, FALSE, D)
  BY DEF MoveToRealm
<1>2. /\ ParentAfter(e, target, FALSE) = realmParent
      /\ ChildrenAfter(e, target, FALSE) = realmChildren
  BY DEF ParentAfter, ChildrenAfter, AsChild
<1>3. \A r \in RealmNumber : realmChildren[r] = {} /\ realmParent[r] = NoRealm
  BY DEF PInv, NoKids
<1>4. NoKids'
  BY <1>1, <1>2, <1>3 DEF NoKids
<1>5. D \subseteq RealmNumber
  <2>1. RealmsAfter(target) \subseteq RealmNumber
    BY DEF RealmsAfter, Creates, PInv, IInv, TypeOK
  <2> QED BY <2>1
<1>6. SetToSeq({}) = <<>>
  <2>1. SetToSeq({}) \in Seq({})
    BY FS_EmptySet, SetToSeqOfFinite
  <2>2. PICK s \in Seq({}) : s = SetToSeq({})
    BY <2>1
  <2>3. PICK n \in Nat : n = Len(s) /\ \A i \in 1 .. n : s[i] \in {}
    OBVIOUS
  <2>4. n = 0
    BY <2>3
  <2> QED BY <2>2, <2>3, <2>4, EmptySeq
<1>7. ASSUME NEW x \in EndPoint
      PROVE  outbox'[x] = TellsLeft(e, target, x) \o TellsJoined(e, target, x)
  <2>1. DestroyNotices(e, target, FALSE, D, x) = <<>>
    <3>1. {r \in D : x \in MembersAfter(e, target, ParentAfter(e, target, FALSE)[r])} = {}
      BY <1>2, <1>3, <1>5 DEF MembersAfter
    <3>2. PICK list : list = <<>> /\ list = SetToSeq({})
      BY <1>6
    <3>3. DestroyNotices(e, target, FALSE, D, x)
            = [i \in DOMAIN list |-> Packet("}", list[i])]
      BY <3>1, <3>2, Zenon DEF DestroyNotices
    <3>4. PICK symbol : symbol = "}"
      BY Zenon
    <3>5. [i \in DOMAIN list |-> Packet(symbol, list[i])] = <<>>
      BY <3>2
    <3> QED BY <3>3, <3>4, <3>5, Zenon
  <2>2. NewChildNotices(e, target, FALSE, x) = <<>>
    BY DEF NewChildNotices, AsChild
  <2>3. LeaveNotices(e, target, x) = TellsLeft(e, target, x)
    BY DEF LeaveNotices, TellsLeft
  <2>4. JoinNotices(e, target, FALSE, x) = TellsJoined(e, target, x)
    <3>1. CASE target = NoRealm
      BY <3>1 DEF JoinNotices, TellsJoined
    <3>2. CASE target # NoRealm
      <4>1. ChildList(e, target, FALSE) = <<>>
        <5>1. PICK list : list = <<>> /\ list = SetToSeq({})
          BY <1>6
        <5>2. ChildrenAfter(e, target, FALSE)[target] = {}
          BY <1>2, <1>3, <3>2
        <5>3. ChildList(e, target, FALSE) = [i \in DOMAIN list |-> Packet("{", list[i])]
          BY <5>1, <5>2, Zenon DEF ChildList
        <5>4. PICK symbol : symbol = "{"
          BY Zenon
        <5>5. [i \in DOMAIN list |-> Packet(symbol, list[i])] = <<>>
          BY <5>1
        <5> QED BY <5>3, <5>4, <5>5, Zenon
      <4>2. PICK others : others = MembersAfter(e, target, target) \ {e}
        OBVIOUS
      <4>3. PICK u : u = UsersPresent({userID[y] : y \in others})
        OBVIOUS
      <4>4. AsChild(e, FALSE) = FALSE
        BY DEF AsChild
      <4>5. PICK a : a = Packet("^", target)
        OBVIOUS
      <4>6. <<a>> \o <<>> \o <<u>> = <<a, u>>
        <5>1. <<a>> \in Seq({a}) /\ <<a>> \o <<>> = <<a>>
          BY ConcatEmptySeq
        <5>2. <<a>> \o <<u>> = <<a, u>>
          BY Pair
        <5> QED BY <5>1, <5>2
      <4>7. CASE x = e
        <5>1. JoinNotices(e, target, FALSE, x) = <<a>> \o <<>> \o <<u>>
          BY <3>2, <4>1, <4>2, <4>3, <4>4, <4>5, <4>7 DEF JoinNotices
        <5>2. TellsJoined(e, target, x) = <<a, u>>
          BY <3>2, <4>2, <4>3, <4>5, <4>7 DEF TellsJoined
        <5> QED BY <4>6, <5>1, <5>2
      <4>8. CASE x # e
        BY <3>2, <4>8 DEF JoinNotices, TellsJoined
      <4> QED BY <4>7, <4>8
    <3> QED BY <3>1, <3>2
  <2>5. PICK s, t : s = TellsLeft(e, target, x) /\ t = TellsJoined(e, target, x)
    OBVIOUS
  <2>6. List(s) /\ List(t)
    BY <2>5, SmallLists DEF TellsLeft, TellsJoined
  <2>7. List(s \o t)
    BY <2>6, ListConcat
  <2>8. (s \o t) \o <<>> \o <<>> = s \o t
    BY <2>7, ConcatEmptySeq DEF List
  <2>9. outbox'[x] = s \o t \o <<>> \o <<>>
    BY <1>1, <2>1, <2>2, <2>3, <2>4, <2>5 DEF Notices
  <2> QED BY <2>5, <2>8, <2>9
<1> QED BY <1>1, <1>4, <1>7

LEMMA TableMembers ==
    ASSUME PInv, NEW e \in EndPoint, NEW target \in {TableRealm, NoRealm},
           userRealm[e] # target
    PROVE  /\ TableRealm \in RealmNumber /\ TableRealm # NoRealm
           /\ UsersAfter(e, target)[TableRealm] \in Seq(EndPoint)
           /\ IsInjective(UsersAfter(e, target)[TableRealm])
           /\ MembersAfter(e, target, TableRealm)
                = IF target = TableRealm THEN AtTable \cup {e} ELSE AtTable \ {e}
<1>1. TableRealm \in RealmNumber /\ TableRealm # NoRealm
  BY PokerAssumption, RelayAssumption DEF RealmNumber, NoRealm
<1>2. target \in RealmNumber \cup {NoRealm} /\ TypeOK /\ Membership
  BY <1>1 DEF PInv, IInv
<1>3. PICK s : s = UsersAfter(e, target)[TableRealm]
  OBVIOUS
<1>4. UsersAfter(e, target) \in [RealmNumber -> Seq(EndPoint)]
  BY <1>2, UsersMoved
<1>5. IsInjective(s)
  BY <1>1, <1>2, <1>3, UsersMoved
<1>6. \A x \in EndPoint :
         x \in ToSet(s) <=> IF x = e THEN TableRealm = target ELSE userRealm[x] = TableRealm
  BY <1>1, <1>2, <1>3, UsersMoved
<1>7. s \in Seq(EndPoint)
  BY <1>1, <1>3, <1>4
<1>8. ToSet(s) \subseteq EndPoint
  BY <1>7, ToSetType
<1>9. MembersAfter(e, target, TableRealm) = ToSet(s)
  BY <1>1, <1>3 DEF MembersAfter
<1>10. ToSet(s) = IF target = TableRealm THEN AtTable \cup {e} ELSE AtTable \ {e}
  BY <1>1, <1>6, <1>8 DEF AtTable
<1> QED BY <1>1, <1>3, <1>5, <1>7, <1>9, <1>10

LEMMA JoinOfRelay ==
    ASSUME PInv, NEW e \in EndPoint, userID[e] # NoUser, userRealm[e] = NoRealm,
           JoinNumbered(e, TableRealm, FALSE)
    PROVE  /\ IInv' /\ NoKids' /\ files' \subseteq files
           /\ userID' = userID /\ userRealm' = [userRealm EXCEPT ![e] = TableRealm]
           /\ AtTable' = AtTable \cup {e} /\ Ids' = Ids \cup {userID[e]}
           /\ e \notin AtTable
           /\ realmUsers'[TableRealm] \in Seq(EndPoint)
           /\ IsInjective(realmUsers'[TableRealm])
           /\ ToSet(realmUsers'[TableRealm]) = AtTable \cup {e}
           /\ outbox'[e] = <<Packet("^", TableRealm),
                             UsersPresent({userID[y] : y \in AtTable})>>
           /\ \A x \in EndPoint \ {e} :
                 outbox'[x] = IF x \in AtTable THEN <<Packet("+", userID[e])>> ELSE <<>>
<1>1. /\ ChangeRealm(e, TableRealm, FALSE, reclaimableRealmIDs)
      /\ UNCHANGED <<userVars, nextRealmID, now>>
  BY DEF JoinNumbered
<1>2. /\ TableRealm \in RealmNumber /\ TableRealm # NoRealm /\ userRealm[e] # TableRealm
      /\ reclaimableRealmIDs \in Seq(RealmNumber)
      /\ nextRealmID \in PublicRealmCount .. MaxRealmID + 1
      /\ userRealm = [x \in EndPoint |-> userRealm[x]] /\ IInv
  <2>1. TableRealm \in RealmNumber /\ TableRealm # NoRealm
    BY PokerAssumption, RelayAssumption DEF RealmNumber, NoRealm
  <2>2. IInv /\ TypeOK
    BY DEF PInv, IInv
  <2> QED BY <2>1, <2>2 DEF TypeOK
<1>3. /\ IInv' /\ userRealm' = [userRealm EXCEPT ![e] = TableRealm] /\ files' \subseteq files
  BY <1>1, <1>2, ChangeIsOK
<1>4. MoveToRealm(e, TableRealm, FALSE, reclaimableRealmIDs)
  BY <1>1, <1>2 DEF ChangeRealm
<1>5. /\ NoKids' /\ realmUsers' = UsersAfter(e, TableRealm)
      /\ \A x \in EndPoint :
            outbox'[x] = TellsLeft(e, TableRealm, x) \o TellsJoined(e, TableRealm, x)
  BY <1>2, <1>4, FlatMove
<1>6. userID' = userID
  BY <1>1 DEF userVars
<1>7. e \notin AtTable /\ AtTable' = AtTable \cup {e}
  BY <1>2, <1>3 DEF AtTable
<1>8. Ids' = Ids \cup {userID[e]}
  BY <1>6, <1>7 DEF Ids
<1>9. /\ UsersAfter(e, TableRealm)[TableRealm] \in Seq(EndPoint)
      /\ IsInjective(UsersAfter(e, TableRealm)[TableRealm])
      /\ MembersAfter(e, TableRealm, TableRealm) = AtTable \cup {e}
  BY <1>2, TableMembers
<1>10. ToSet(realmUsers'[TableRealm]) = AtTable \cup {e}
  BY <1>2, <1>5, <1>9 DEF MembersAfter
<1>11. ASSUME NEW x \in EndPoint
       PROVE  outbox'[x] = TellsJoined(e, TableRealm, x)
  <2>1. TellsLeft(e, TableRealm, x) = <<>>
    BY <1>2 DEF TellsLeft, MembersAfter
  <2>2. PICK t : t = TellsJoined(e, TableRealm, x)
    OBVIOUS
  <2>3. List(t)
    BY <2>2, SmallLists DEF TellsJoined
  <2>4. <<>> \o t = t
    BY <2>3, ConcatEmptySeq DEF List
  <2> QED BY <1>5, <2>1, <2>2, <2>4
<1>12. MembersAfter(e, TableRealm, TableRealm) \ {e} = AtTable
  BY <1>7, <1>9
<1>13. outbox'[e] = <<Packet("^", TableRealm), UsersPresent({userID[y] : y \in AtTable})>>
  BY <1>2, <1>11, <1>12 DEF TellsJoined
<1>14. ASSUME NEW x \in EndPoint \ {e}
       PROVE  outbox'[x] = IF x \in AtTable THEN <<Packet("+", userID[e])>> ELSE <<>>
  BY <1>2, <1>11, <1>12 DEF TellsJoined
<1> QED BY <1>3, <1>5, <1>6, <1>7, <1>8, <1>9, <1>10, <1>13, <1>14

LEMMA SeatMoves ==
    ASSUME NEW p, NEW q, NEW gone, NEW come, NEW N, Moves(p, q, gone, come, N), PageOK(p),
           NEW id, id # NoUser, p.users # <<>>, p.users[1].id = id,
           \A i \in 1 .. Len(p.out) : p.out[i].symbol # "^",
           NEW s, p.missed => Both \subseteq ToSet(s),
           NEW ids, ids = (IdSet(p.users) \ gone) \cup come,
           "departure" \notin ToSet(s) => WritesTo(p, ids \cup {id}) /\ N \subseteq ids
    PROVE  Seat(q, id, TableRealm, ids, s)
<1>1. /\ PageOK(q) /\ IdSet(q.users) = ids /\ FirstKept(p.users, q.users)
      /\ q.missed = p.missed /\ Answers(p, q, N)
  BY DEF Moves
<1>2. PICK w : AnswersOK(w, N) /\ q.out = p.out \o w
  BY <1>1 DEF Answers
<1>3. PICK m \in Nat, n \in Nat : m = Len(p.out) /\ n = Len(w)
  BY <1>2, ListPlaces DEF PageOK, AnswersOK, RequestsOK
<1>4. /\ Len(q.out) = m + n
      /\ \A i \in 1 .. m : q.out[i] = p.out[i]
      /\ \A i \in 1 .. n : q.out[m + i] = w[i]
  BY <1>2, <1>3, ListConcat DEF PageOK, AnswersOK, RequestsOK
<1>5. ASSUME NEW i \in 1 .. Len(q.out)
      PROVE  i \in 1 .. m \/ (i - m \in 1 .. n /\ q.out[i] = w[i - m])
  <2>1. i \in 1 .. m + n
    BY <1>4
  <2>2. CASE i \notin 1 .. m
    <3>1. i - m \in 1 .. n /\ m + (i - m) = i
      BY <2>1, <2>2
    <3> QED BY <1>4, <3>1
  <2> QED BY <2>2
<1>6. \A i \in 1 .. Len(q.out) : q.out[i].symbol # "^"
  BY <1>2, <1>3, <1>4, <1>5 DEF AnswersOK
<1>7. "departure" \notin ToSet(s) => WritesTo(q, ids \cup {id})
  <2>1. SUFFICES ASSUME WritesTo(p, ids \cup {id}), N \subseteq ids
                 PROVE  WritesTo(q, ids \cup {id})
    OBVIOUS
  <2> QED BY <1>2, <1>3, <1>4, <1>5, <2>1 DEF WritesTo, AnswersOK
<1>8. TableRealm # NoRealm
  BY PokerAssumption, RelayAssumption DEF RealmNumber, NoRealm
<1>9. InPlace(q, id, TableRealm, ids)
  BY <1>1, <1>6, <1>8 DEF InPlace, FirstKept
<1> QED BY <1>1, <1>7, <1>9 DEF Seat

LEMMA SeatElsewhere ==
    ASSUME NEW p, NEW id, NEW ids, NEW all, NEW s, Seat(p, id, NoRealm, ids, s),
           "departure" \notin ToSet(s) => ids \subseteq all
    PROVE  Seat(p, id, NoRealm, all, s)
<1>1. InPlace(p, id, NoRealm, all)
  BY DEF Seat, InPlace
<1>2. "departure" \notin ToSet(s) => WritesTo(p, all \cup {id})
  BY DEF Seat, WritesTo
<1> QED BY <1>1, <1>2 DEF Seat

(* Who is there and reads the arrival of e. *)
LEMMA JoinKeepsPInv ==
    ASSUME PInv, NEW e \in EndPoint, NEW roll \in Rolls, page[e].out # <<>>,
           userRealm[e] = NoRealm, JoinNumbered(e, TableRealm, FALSE),
           UNCHANGED <<begun, since, dealers>>, page' = ReadBy(e, roll)
    PROVE  PInv'
<1>1. PICK id \in Nat : id = userID[e] /\ id # NoUser
  BY TakenFrom
<1>2. /\ IInv' /\ NoKids' /\ files' \subseteq files
      /\ userID' = userID /\ userRealm' = [userRealm EXCEPT ![e] = TableRealm]
      /\ AtTable' = AtTable \cup {e} /\ Ids' = Ids \cup {id}
      /\ e \notin AtTable
      /\ realmUsers'[TableRealm] \in Seq(EndPoint)
      /\ IsInjective(realmUsers'[TableRealm])
      /\ ToSet(realmUsers'[TableRealm]) = AtTable \cup {e}
      /\ outbox'[e] = <<Packet("^", TableRealm),
                        UsersPresent({userID[y] : y \in AtTable})>>
      /\ \A x \in EndPoint \ {e} :
            outbox'[x] = IF x \in AtTable THEN <<Packet("+", id)>> ELSE <<>>
  BY <1>1, JoinOfRelay
<1>3. /\ \A x, y \in EndPoint : userID[x] = userID[y] /\ userID[x] # NoUser => x = y
      /\ \A x \in AtTable : userID[x] \in Nat
      /\ NoUser \notin Nat /\ AtTable \subseteq EndPoint
  BY MembersAtTable, RelayAssumption DEF AtTable, NoUser
<1>4. id \notin Ids
  BY <1>1, <1>2, <1>3 DEF Ids
<1>5. ASSUME Ids # {}
      PROVE  /\ InOrder(Ids) \in Seq(Nat) /\ IsInjective(InOrder(Ids))
             /\ ToSet(InOrder(Ids)) = Ids
  <2>1. PICK members : members = realmUsers'[TableRealm]
    OBVIOUS
  <2>2. userRealm' = [x \in EndPoint |-> userRealm'[x]]
    BY <1>2 DEF PInv, IInv, TypeOK
  <2>3. ASSUME NEW x \in EndPoint, userID'[x] \in Ids
        PROVE  userRealm'[x] = TableRealm
    BY <1>2, <1>3, <2>3 DEF Ids, AtTable
  <2>4. \A x \in ToSet(members) : userID'[x] \in Nat
    BY <1>1, <1>2, <1>3, <2>1
  <2>5. \A x, y \in ToSet(members) : userID'[x] = userID'[y] => x = y
    BY <1>1, <1>2, <1>3, <2>1, <2>4
  <2>6. Ids \subseteq {userID'[x] : x \in ToSet(members)}
    BY <1>2, <2>1 DEF Ids
  <2> QED BY <1>2, <1>5, <2>1, <2>2, <2>3, <2>4, <2>5, <2>6, OrderOfRealm
<1>6. Seat(page[e], id, NoRealm, Ids, since)
  BY <1>1 DEF PInv, SeatOK
<1>7. PICK p : p = TakenOf(page[e])
  OBVIOUS
<1>8. /\ PageOK(p) /\ p.users = page[e].users /\ p.missed = page[e].missed
      /\ \A i \in 1 .. Len(p.out) : p.out[i].symbol # "^"
      /\ WritesTo(page[e], Ids \cup {id}) => WritesTo(p, Ids \cup {id})
  <2>1. PICK M : M = Ids \cup {id}
    OBVIOUS
  <2>2. PageOK(page[e]) /\ InPlace(page[e], id, NoRealm, Ids)
    BY <1>6 DEF Seat
  <2> QED BY <1>1, <1>7, <2>1, <2>2, TakenInPlace
<1>9. IdSet(p.users) = {id} /\ p.users # <<>> /\ p.users[1].id = id
  BY <1>1, <1>6, <1>8 DEF Seat, InPlace
<1>10. Moves(p, page'[e], {}, Ids, Ids)
  <2>1. PICK c, a, b, u : /\ c = TextOf(Head(page[e].out))
                          /\ a = Packet("^", TableRealm) /\ b = UsersPresent(Ids)
                          /\ u = AssignRealmNumber(p)
    BY Zenon
  <2>2. page'[e] = Reads!Fold(p, Frames(<<a, b>>, c), roll)
    <3>1. page'[e] = Reads!Fold(Base(e, e), Frames(outbox'[e], c), roll)
      BY <2>1, Zenon DEF ReadBy
    <3>2. Base(e, e) = p
      BY <1>7 DEF Base
    <3>3. outbox'[e] = <<a, b>>
      BY <1>2, <2>1, Zenon DEF Ids
    <3> QED BY <3>1, <3>2, <3>3, Zenon
  <2>3. Frame(a, c) = <<a>>
    BY <2>1, FrameOf, Zenon
  <2>4. Handled(p, a, roll) = u
    BY <2>1, HandledEach, Zenon
  <2>5. Frames(<<a, b>>, c) = <<a>> \o Frame(b, c)
    BY <2>3, FramesFew, Zenon
  <2>6. Talks(p, u, {})
    BY <1>8, <2>1, AssignRealmNumberTalks
  <2>7. PageOK(u) /\ Moves(p, u, {}, {}, {})
    BY <2>6, TalksMoves DEF Talks
  <2>8. CASE Ids = {}
    <3>1. Frame(b, c) = <<>>
      BY <2>1, <2>8, FrameOf, Zenon
    <3>2. Frames(<<a, b>>, c) = <<a>>
      <4>1. <<a>> \in Seq({a})
        OBVIOUS
      <4> QED BY <2>5, <3>1, <4>1, ConcatEmptySeq
    <3>3. page'[e] = u
      <4>1. Reads!Fold(p, <<a>>, roll) = Handled(p, a, roll)
        BY ReadsFew
      <4> QED BY <2>2, <2>4, <3>2, <4>1
    <3> QED BY <2>7, <2>8, <3>3
  <2>9. CASE Ids # {}
    <3>1. PICK order : order = InOrder(Ids)
      OBVIOUS
    <3>2. order \in Seq(Nat) /\ IsInjective(order) /\ ToSet(order) = Ids
      BY <1>5, <2>9, <3>1
    <3>3. PICK m : m = Listing(order)
      OBVIOUS
    <3>4. Frame(b, c) = <<m>>
      BY <2>1, <2>9, <3>1, <3>3, FrameOf, Zenon
    <3>5. Frames(<<a, b>>, c) = <<a, m>>
      BY <2>5, <3>4, Pair
    <3>6. Handled(u, m, roll) = UsersJoined(u, order)
      BY <3>3, HandledEach, Zenon
    <3>7. page'[e] = UsersJoined(u, order)
      <4>1. Reads!Fold(p, <<a, m>>, roll) = Handled(Handled(p, a, roll), m, roll)
        BY Reads!FoldTwo
      <4> QED BY <2>2, <2>4, <3>5, <3>6, <4>1
    <3>8. IdSet(u.users) = {id}
      BY <1>9, <2>7 DEF Moves
    <3>9. Moves(u, page'[e], {}, Ids, Ids)
      BY <1>4, <2>7, <3>2, <3>7, <3>8, UsersJoinedMoves
    <3>10. PICK q : q = page'[e]
      OBVIOUS
    <3>11. /\ PageOK(q) /\ IdSet(q.users) = (IdSet(u.users) \ {}) \cup Ids
           /\ FirstKept(u.users, q.users) /\ q.missed = u.missed /\ Answers(u, q, Ids)
      BY <3>9, <3>10 DEF Moves
    <3>12. /\ FirstKept(p.users, u.users) /\ u.missed = p.missed /\ Answers(p, u, {})
      BY <2>7 DEF Moves
    <3>13. Answers(p, u, Ids)
      BY <3>12, AnswersMore
    <3>14. Answers(p, q, Ids)
      BY <1>8, <3>11, <3>13, AnswersFollow
    <3>15. FirstKept(p.users, q.users)
      BY <3>11, <3>12 DEF FirstKept
    <3> QED BY <1>9, <3>8, <3>10, <3>11, <3>12, <3>14, <3>15 DEF Moves
  <2> QED BY <2>8, <2>9
<1>11. Seat(page'[e], id, TableRealm, Ids \cup {id}, since)
  <2>1. PICK all : all = Ids \cup {id}
    OBVIOUS
  <2>2. p.missed => Both \subseteq ToSet(since)
    BY <1>6, <1>8 DEF Seat
  <2>3. all = (IdSet(p.users) \ {}) \cup Ids
    BY <1>9, <2>1
  <2>4. "departure" \notin ToSet(since) => WritesTo(p, all \cup {id}) /\ Ids \subseteq all
    <3>1. all \cup {id} = Ids \cup {id}
      BY <2>1
    <3> QED BY <1>6, <1>8, <2>1, <3>1 DEF Seat
  <2> QED BY <1>1, <1>8, <1>9, <1>10, <2>1, <2>2, <2>3, <2>4, SeatMoves
<1>12. ASSUME NEW x \in AtTable
       PROVE  Seat(page'[x], userID[x], TableRealm, Ids \cup {id}, since)
  <2>1. x \in EndPoint /\ x # e
    BY <1>2, <1>3
  <2>2. PICK r, k : r = page[x] /\ k = userID[x]
    OBVIOUS
  <2>3. Seat(r, k, TableRealm, Ids, since) /\ k \in Ids /\ k # NoUser
    <3>1. userRealm[x] = TableRealm /\ k \in Ids /\ k # NoUser
      BY <1>3, <2>2 DEF AtTable, Ids
    <3> QED BY <2>1, <2>2, <3>1 DEF PInv, SeatOK
  <2>4. page'[x] = UsersJoined(r, <<id>>)
    <3>1. PICK a : a = Packet("+", id)
      OBVIOUS
    <3>2. Frame(a, TextOf(Head(page[e].out))) = <<a>>
      BY <3>1, FrameOf, Zenon
    <3>3. outbox'[x] = <<a>>
      BY <1>2, <2>1, <3>1
    <3>4. page'[x] = Handled(Base(e, x), a, roll)
      BY <2>1, <3>2, <3>3, ReadOne
    <3>5. Base(e, x) = r
      BY <2>1, <2>2 DEF Base
    <3> QED BY <3>1, <3>4, <3>5, HandledEach, Zenon
  <2>5. /\ PageOK(r) /\ IdSet(r.users) = Ids /\ r.users # <<>> /\ r.users[1].id = k
        /\ \A i \in 1 .. Len(r.out) : r.out[i].symbol # "^"
    <3>1. TableRealm # NoRealm
      BY PokerAssumption, RelayAssumption DEF RealmNumber, NoRealm
    <3> QED BY <2>3, <3>1 DEF Seat, InPlace
  <2>6. Moves(r, page'[x], {}, {id}, {id})
    <3>1. PICK one : one = <<id>>
      OBVIOUS
    <3>2. one \in Seq(Nat) /\ IsInjective(one) /\ ToSet(one) = {id}
      BY <1>1, <3>1 DEF IsInjective, ToSet
    <3> QED BY <1>4, <2>4, <2>5, <3>1, <3>2, UsersJoinedMoves
  <2>7. PICK all : all = Ids \cup {id}
    OBVIOUS
  <2>8. all = (IdSet(r.users) \ {}) \cup {id} /\ all \cup {k} = all /\ Ids \cup {k} \subseteq all
    BY <2>3, <2>5, <2>7
  <2>9. "departure" \notin ToSet(since) => WritesTo(r, all \cup {k}) /\ {id} \subseteq all
    BY <2>3, <2>7, <2>8 DEF Seat, WritesTo
  <2>10. r.missed => Both \subseteq ToSet(since)
    BY <2>3 DEF Seat
  <2> QED BY <2>2, <2>3, <2>5, <2>6, <2>7, <2>8, <2>9, <2>10, SeatMoves
<1>13. ASSUME NEW x \in EndPoint \ {e}, x \notin AtTable
       PROVE  page'[x] = page[x] /\ Seat(page[x], userID[x], NoRealm, Ids \cup {id}, since)
              /\ userRealm[x] = NoRealm
  <2>1. Seat(page[x], userID[x], userRealm[x], Ids, since)
    BY DEF PInv, SeatOK
  <2>2. userRealm[x] = NoRealm
    BY <1>13, <2>1 DEF Seat, InPlace, AtTable
  <2>3. outbox'[x] = <<>>
    BY <1>2, <1>13
  <2>4. page'[x] = page[x]
    BY <2>3, ReadNothing DEF Base
  <2> QED BY <2>1, <2>2, <2>4, SeatElsewhere
<1>14. \A x \in EndPoint : SeatOK(x)'
  <2>1. ASSUME NEW x \in EndPoint
        PROVE  Seat(page'[x], userID[x], userRealm'[x], Ids \cup {id}, since)
    <3>1. userRealm'[x] = IF x = e THEN TableRealm ELSE userRealm[x]
      BY <1>2 DEF PInv, IInv, TypeOK
    <3>2. CASE x = e
      BY <1>1, <1>11, <3>1, <3>2
    <3>3. CASE x \in AtTable
      BY <1>2, <1>12, <3>1, <3>3 DEF AtTable
    <3>4. CASE x # e /\ x \notin AtTable
      <4>1. x \in EndPoint \ {e}
        BY <3>4
      <4> QED BY <1>13, <3>1, <3>4, <4>1
    <3> QED BY <3>2, <3>3, <3>4
  <2> QED BY <1>2, <2>1 DEF SeatOK
<1>15. page' = [x \in EndPoint |-> page'[x]]
  BY Zenon DEF ReadBy
<1> QED BY <1>2, <1>14, <1>15 DEF PInv, SinceOK

-----------------------------------------------------------------------------
(* A connection ends, and another begins. *)
LEMMA LeaveReads ==
    ASSUME NEW e \in EndPoint, Leave(e)
    PROVE  /\ ClientDisconnected(e) /\ Begins("departure") /\ UNCHANGED dealers
           /\ \E roll \in Rolls : page' = [x \in EndPoint |->
                 IF x = e THEN [Offline(page[e]) EXCEPT !.out = <<>>]
                 ELSE Reads!Fold(page[x], Frames(outbox'[x], ""), roll)]
<1>1. PICK roll \in Rolls :
         /\ ClientDisconnected(e)
         /\ page' = [x \in EndPoint |->
                 IF x = e THEN [Handled(page[e], Closed, roll) EXCEPT !.out = <<>>]
                 ELSE Reads!Fold(page[x], Frames(outbox'[x], ""), roll)]
  BY Zenon DEF Leave, CloseSocket, Reads!Fold, Reads!FoldLeft, FoldLeft, Reads!MapThenFoldSet,
         MapThenFoldSet, Reads!Max, Max
<1>2. Handled(page[e], Closed, roll) = Offline(page[e])
  BY DEF Handled, Closed
<1> QED BY <1>1, <1>2, Zenon DEF Leave

LEMMA LeaveOfRelay ==
    ASSUME PInv, NEW e \in EndPoint, ClientDisconnected(e)
    PROVE  /\ IInv' /\ NoKids' /\ files' \subseteq files
           /\ userID' = [userID EXCEPT ![e] = NoUser]
           /\ userRealm' = [userRealm EXCEPT ![e] = NoRealm]
           /\ \A x \in EndPoint :
                 outbox'[x] = IF e \in AtTable /\ x \in AtTable \ {e}
                              THEN <<Packet("-", userID[e])>> ELSE <<>>
<1>1. /\ IInv /\ TypeOK /\ Membership /\ RealmTree
      /\ reclaimableRealmIDs \in Seq(RealmNumber)
  BY DEF PInv, IInv, TypeOK
<1>2. /\ ChangeRealm(e, NoRealm, FALSE, reclaimableRealmIDs)
      /\ userID' = [userID EXCEPT ![e] = NoUser]
  BY DEF ClientDisconnected
<1>3. IInv'
  BY <1>1, DisconnectIsOK
<1>4. userRealm' = [userRealm EXCEPT ![e] = NoRealm] /\ files' \subseteq files
  BY <1>1, <1>2, ChangeKeepsRooms
<1>5. userRealm[e] \in {TableRealm, NoRealm} /\ TableRealm # NoRealm
  <2>1. TableRealm # NoRealm
    BY PokerAssumption, RelayAssumption DEF RealmNumber, NoRealm
  <2> QED BY <2>1 DEF PInv, SeatOK, Seat, InPlace
<1>6. CASE userRealm[e] = NoRealm
  <2>1. StayInRealm(reclaimableRealmIDs)
    BY <1>2, <1>6 DEF ChangeRealm
  <2>2. outbox' = Silence /\ UNCHANGED <<realmChildren, realmParent>>
    BY <2>1 DEF StayInRealm
  <2>3. NoKids'
    BY <2>2 DEF NoKids, PInv
  <2>4. e \notin AtTable
    BY <1>5, <1>6 DEF AtTable
  <2>5. \A x \in EndPoint : outbox'[x] = <<>>
    BY <2>2 DEF Silence
  <2> QED BY <1>2, <1>3, <1>4, <2>3, <2>4, <2>5
<1>7. CASE userRealm[e] = TableRealm
  <2>1. MoveToRealm(e, NoRealm, FALSE, reclaimableRealmIDs)
    BY <1>2, <1>5, <1>7 DEF ChangeRealm
  <2>2. /\ NoKids'
        /\ \A x \in EndPoint :
              outbox'[x] = TellsLeft(e, NoRealm, x) \o TellsJoined(e, NoRealm, x)
    BY <2>1, FlatMove
  <2>3. e \in AtTable
    BY <1>7 DEF AtTable
  <2>4. MembersAfter(e, NoRealm, TableRealm) = AtTable \ {e}
    BY <1>5, <1>7, TableMembers
  <2>5. ASSUME NEW x \in EndPoint
        PROVE  outbox'[x] = IF x \in AtTable \ {e}
                            THEN <<Packet("-", userID[e])>> ELSE <<>>
    <3>1. TellsJoined(e, NoRealm, x) = <<>>
      BY DEF TellsJoined
    <3>2. PICK t : t = TellsLeft(e, NoRealm, x)
      OBVIOUS
    <3>3. List(t)
      BY <3>2, SmallLists DEF TellsLeft
    <3>4. t \o <<>> = t
      BY <3>3, ConcatEmptySeq DEF List
    <3>5. t = IF x \in AtTable \ {e} THEN <<Packet("-", userID[e])>> ELSE <<>>
      BY <1>7, <2>4, <3>2 DEF TellsLeft
    <3> QED BY <2>2, <3>1, <3>2, <3>4, <3>5
  <2> QED BY <1>2, <1>3, <1>4, <2>2, <2>3, <2>5
<1> QED BY <1>5, <1>6, <1>7

LEMMA ClosedSeat ==
    ASSUME NEW p, PageOK(p), NEW s, p.missed => Both \subseteq ToSet(s),
           "departure" \in ToSet(s), NEW ids, NEW q, q = [Offline(p) EXCEPT !.out = <<>>]
    PROVE  Seat(q, NoUser, NoRealm, ids, s)
<1>1. PICK o : o = Offline(p)
  OBVIOUS
<1>2. PageOK(o) /\ o.missed = p.missed
  BY <1>1, OfflineIsOK
<1>3. /\ DOMAIN q = Fields /\ q.users = o.users /\ q.dealer = o.dealer
      /\ q.deck = o.deck /\ q.pot = o.pot /\ q.missed = o.missed /\ q.out = <<>>
  BY <1>1, <1>2 DEF PageOK, Fields
<1>4. List(q.out) /\ Len(q.out) = 0
  BY <1>3, SmallLists
<1>5. PageOK(q)
  BY <1>2, <1>3, <1>4 DEF PageOK, RequestsOK
<1>6. InPlace(q, NoUser, NoRealm, ids)
  BY <1>3, <1>4 DEF InPlace
<1> QED BY <1>2, <1>3, <1>5, <1>6 DEF Seat

LEMMA LeaveKeepsPInv ==
    ASSUME PInv, NEW e \in EndPoint, Leave(e)
    PROVE  PInv'
<1>1. PICK roll \in Rolls :
         /\ ClientDisconnected(e) /\ Begins("departure")
         /\ page' = [x \in EndPoint |->
               IF x = e THEN [Offline(page[e]) EXCEPT !.out = <<>>]
               ELSE Reads!Fold(page[x], Frames(outbox'[x], ""), roll)]
  BY Zenon, LeaveReads
<1>2. /\ IInv' /\ NoKids' /\ files' \subseteq files
      /\ userID' = [userID EXCEPT ![e] = NoUser]
      /\ userRealm' = [userRealm EXCEPT ![e] = NoRealm]
      /\ \A x \in EndPoint :
            outbox'[x] = IF e \in AtTable /\ x \in AtTable \ {e}
                         THEN <<Packet("-", userID[e])>> ELSE <<>>
  BY Zenon, <1>1, LeaveOfRelay
<1>3. PICK s : s = since'
  OBVIOUS
<1>4. /\ SinceOK' /\ "departure" \in ToSet(s)
      /\ \A x \in EndPoint : Seat(page[x], userID[x], userRealm[x], Ids, s)
  BY Zenon, <1>1, <1>3, BeginsKeepsSeats
<1>5. PICK id : id = userID[e] /\ id # NoUser
  BY Zenon, <1>1 DEF ClientDisconnected
<1>6. /\ TableRealm # NoRealm
      /\ \A x, y \in EndPoint : userID[x] = userID[y] /\ userID[x] # NoUser => x = y
      /\ \A x \in AtTable : userID[x] \in Nat
      /\ NoUser \notin Nat /\ AtTable \subseteq EndPoint
  BY MembersAtTable, PokerAssumption, RelayAssumption DEF AtTable, NoUser, NoRealm, RealmNumber
<1>7. \A x \in EndPoint : /\ userID'[x] = IF x = e THEN NoUser ELSE userID[x]
                          /\ userRealm'[x] = IF x = e THEN NoRealm ELSE userRealm[x]
  BY <1>2 DEF PInv, IInv, TypeOK
<1>8. AtTable' = AtTable \ {e}
  BY <1>6, <1>7 DEF AtTable
<1>9. Ids' = Ids \ {id}
  <2>1. \A x \in AtTable : x # e => userID[x] # id
    BY <1>5, <1>6
  <2>2. \A x \in AtTable \ {e} : userID'[x] = userID[x]
    BY <1>6, <1>7
  <2> QED BY <1>5, <1>8, <2>1, <2>2 DEF Ids
<1>10. e \notin AtTable => Ids \ {id} = Ids
  BY <1>5, <1>6 DEF Ids
<1>11. ASSUME NEW x \in EndPoint
       PROVE  Seat(page'[x], userID'[x], userRealm'[x], Ids \ {id}, s)
  <2>1. CASE x = e
    <3>1. PICK p : p = page[e]
      OBVIOUS
    <3>2. PageOK(p) /\ (p.missed => Both \subseteq ToSet(s))
      BY <1>4, <3>1 DEF Seat
    <3>3. page'[e] = [Offline(p) EXCEPT !.out = <<>>]
      BY <1>1, <3>1, Zenon
    <3> QED BY <1>4, <1>7, <2>1, <3>2, <3>3, ClosedSeat
  <2>2. CASE x # e /\ e \in AtTable /\ x \in AtTable
    <3>1. PICK p, k : p = page[x] /\ k = userID[x]
      OBVIOUS
    <3>2. Seat(p, k, TableRealm, Ids, s) /\ k # NoUser /\ k # id
      <4>1. userRealm[x] = TableRealm
        BY <2>2 DEF AtTable
      <4>2. k # NoUser /\ k # id
        BY <1>5, <1>6, <2>2, <3>1
      <4> QED BY <1>4, <3>1, <4>1, <4>2
    <3>3. page'[x] = UserLeft(p, id)
      <4>1. PICK a : a = Packet("-", id)
        OBVIOUS
      <4>2. outbox'[x] = <<a>>
        BY <1>2, <1>5, <2>2, <4>1
      <4>3. page'[x] = Reads!Fold(p, Frames(outbox'[x], ""), roll)
        BY <1>1, <2>2, <3>1, Zenon
      <4>4. Frame(a, "") = <<a>>
        BY <4>1, FrameOf, Zenon
      <4>5. Frames(<<a>>, "") = <<a>>
        BY Zenon, <4>4, FramesFew
      <4>6. Reads!Fold(p, <<a>>, roll) = Handled(p, a, roll)
        BY ReadsFew
      <4>7. Handled(p, a, roll) = UserLeft(p, id)
        BY <4>1, HandledEach, Zenon
      <4> QED BY Zenon, <4>2, <4>3, <4>5, <4>6, <4>7
    <3>4. /\ PageOK(p) /\ IdSet(p.users) = Ids /\ p.users # <<>> /\ p.users[1].id = k
          /\ \A i \in 1 .. Len(p.out) : p.out[i].symbol # "^"
          /\ p.missed => Both \subseteq ToSet(s)
      BY <1>6, <3>2 DEF Seat, InPlace
    <3>5. Moves(p, page'[x], {id}, {}, {})
      BY <3>2, <3>3, <3>4, UserLeftMoves
    <3>6. PICK ids : ids = Ids \ {id}
      OBVIOUS
    <3>7. ids = (IdSet(p.users) \ {id}) \cup {}
      BY <3>4, <3>6
    <3>8. Seat(page'[x], k, TableRealm, ids, s)
      BY <1>4, <3>2, <3>4, <3>5, <3>7, SeatMoves
    <3>9. userID'[x] = k /\ userRealm'[x] = TableRealm
      BY <1>7, <2>2, <3>1 DEF AtTable
    <3> QED BY <3>6, <3>8, <3>9
  <2>3. CASE x # e /\ ~ (e \in AtTable /\ x \in AtTable)
    <3>1. PICK p, k, r : p = page[x] /\ k = userID[x] /\ r = userRealm[x]
      OBVIOUS
    <3>2. Seat(p, k, r, Ids, s)
      BY <1>4, <3>1
    <3>3. page'[x] = p
      <4>1. outbox'[x] = <<>>
        BY <1>2, <2>3
      <4>2. page'[x] = Reads!Fold(p, Frames(outbox'[x], ""), roll)
        BY <1>1, <2>3, <3>1, Zenon
      <4>3. Frames(outbox'[x], "") = <<>>
        BY Zenon, <4>1, FramesFew
      <4> QED BY Zenon, <4>2, <4>3, ReadsFew
    <3>4. r = NoRealm \/ r = TableRealm
      BY <3>2 DEF Seat, InPlace
    <3>5. r = TableRealm => Ids \ {id} = Ids
      BY <1>10, <2>3, <3>1 DEF AtTable
    <3>6. Seat(p, k, r, Ids \ {id}, s)
      BY <1>4, <3>2, <3>4, <3>5, SeatElsewhere
    <3> QED BY <1>7, <2>3, <3>1, <3>3, <3>6
  <2> QED BY <2>1, <2>2, <2>3
<1>12. \A x \in EndPoint : SeatOK(x)'
  BY <1>3, <1>9, <1>11 DEF SeatOK
<1>13. page' = [x \in EndPoint |-> page'[x]]
  BY <1>1, Zenon
<1> QED BY <1>2, <1>4, <1>12, <1>13 DEF PInv

(* The page as it is loaded: back is not in the code. *)
Fresh(name, roll, back) == [NewPage(name, roll) EXCEPT !.back = back]

Loads(e, p, roll) ==
    page' = [page EXCEPT ![e] = Reads!Fold(p, Frames(outbox'[e], ""), roll)]

LEMMA ArrivalReads ==
    ASSUME NEW e \in EndPoint, NameSpecified(e)
    PROVE  /\ ClientConnected(e) /\ Begins("arrival")
           /\ \E roll \in Rolls : \E name, back : Loads(e, Fresh(name, roll, back), roll)
<1>1. PICK name \in PlayerName[e], roll \in Rolls :
         Open(e, [NewPage(name, roll) EXCEPT !.back = page[e].name # UnknownName],
              LAMBDA p, m : Handled(p, m, roll))
  BY Zenon DEF NameSpecified
<1>2. PICK back : back = (page[e].name # UnknownName)
  OBVIOUS
<1>3. ClientConnected(e)
  BY Zenon, <1>1 DEF Open, NewSocket
<1>4. Loads(e, Fresh(name, roll, back), roll)
  BY Zenon, <1>1, <1>2 DEF Open, Reads!Fold, Reads!FoldLeft, FoldLeft, Reads!MapThenFoldSet,
         MapThenFoldSet, Reads!Max, Max, Fresh, Loads
<1> QED BY <1>3, <1>4, Zenon DEF NameSpecified

LEMMA BlankIsOK ==
    ASSUME NEW p, NEW roll \in Rolls,
           DOMAIN p = Fields, p.users = <<>>, p.dealer = NoUser,
           p.deck = Shuffled(roll), p.pot = 0, p.out = <<>>, p.missed = FALSE
    PROVE  PageOK(p)
<1>1. DeckOK(p.deck)
  BY ShuffledIsOK
<1>2. List(p.users) /\ Len(p.users) = 0 /\ List(p.out) /\ Len(p.out) = 0
  BY SmallLists
<1>3. ListOK(p.users)
  <2>1. PICK l : l = p.users
    OBVIOUS
  <2>2. ListOK(l)
    BY <1>2, <2>1 DEF ListOK
  <2> QED BY <2>1, <2>2
<1>4. RequestsOK(p.out)
  <2>1. PICK o : o = p.out
    OBVIOUS
  <2>2. RequestsOK(o)
    BY <1>2, <2>1 DEF RequestsOK
  <2> QED BY <2>1, <2>2
<1>5. p.missed \in BOOLEAN
  BY Zenon
<1>6. p.pot \in Int
  OBVIOUS
<1> QED BY <1>1, <1>3, <1>4, <1>5, <1>6 DEF PageOK

LEMMA FirstOfNewPage ==
    ASSUME NEW name, NEW roll \in Rolls, NEW back, NEW id \in Nat, NEW p,
           p = Fresh(name, roll, back),
           NEW ids, NEW s, "arrival" \in ToSet(s)
    PROVE  Seat(AssignUserNumber(p, id), id, NoRealm, ids, s)
<1>1. /\ DOMAIN p = Fields /\ p.users = <<>> /\ p.dealer = NoUser
      /\ p.deck = Shuffled(roll) /\ p.pot = 0 /\ p.out = <<>> /\ p.missed = FALSE
  BY DEF Fresh, NewPage, Fields
<1>2. PageOK(p)
  BY <1>1, BlankIsOK
<1>3. PICK u : u = [NewUser(id) EXCEPT !.name = p.name]
  OBVIOUS
<1>4. UserOK(u) /\ u.id = id
  BY <1>3, PokerAssumption DEF NewUser, UserOK
<1>5. IdSet(p.users) = {}
  BY <1>1 DEF IdSet
<1>6. PICK q : q = AddUser(p, u)
  OBVIOUS
<1>7. /\ PageOK(q) /\ IdSet(q.users) = {id} /\ q.users # <<>> /\ q.users[1] = u
      /\ q.out = <<>> /\ q.missed = FALSE
  BY <1>1, <1>2, <1>4, <1>5, <1>6, AddUserIsOK
<1>8. PICK j : j = JoinRealm(TableRealm)
  OBVIOUS
<1>9. PICK w : w = <<j>>
  OBVIOUS
<1>10. List(w) /\ Len(w) = 1 /\ w[1] = j
  BY <1>9, SmallLists
<1>11. RequestOK(j) /\ j.symbol = "^"
  BY <1>8 DEF RequestOK, JoinRealm
<1>12. PICK f : f = AssignUserNumber(p, id)
  OBVIOUS
<1>13. f = Writes(q, w)
  BY <1>3, <1>6, <1>8, <1>9, <1>12, Zenon DEF AssignUserNumber
<1>14. /\ DOMAIN f = Fields /\ f.users = q.users /\ f.dealer = q.dealer
       /\ f.deck = q.deck /\ f.pot = q.pot /\ f.missed = FALSE
       /\ f.out = <<>> \o w
  BY <1>7, <1>13 DEF Writes, PageOK, Fields
<1>15. f.out = w
  BY <1>10, <1>14, ConcatEmptySeq DEF List
<1>16. PageOK(f)
  <2>1. RequestsOK(w)
    BY <1>10, <1>11 DEF RequestsOK
  <2>2. RequestsOK(f.out)
    BY <1>15, <2>1
  <2> QED BY <1>7, <1>14, <2>2 DEF PageOK
<1>17. \A i \in 1 .. Len(w) : i = 1 /\ w[i].symbol = "^"
  BY <1>10, <1>11
<1>18. InPlace(f, id, NoRealm, ids)
  <2>1. f.users # <<>> /\ f.users[1].id = id /\ IdSet(f.users) = {id}
    BY <1>4, <1>7, <1>14
  <2>2. w # <<>>
    BY <1>9
  <2>3. id # NoUser
    BY DEF NoUser
  <2> QED BY <1>8, <1>10, <1>15, <1>17, <2>1, <2>2, <2>3 DEF InPlace
<1>19. \A all : WritesTo(f, all)
  BY <1>15, <1>17 DEF WritesTo
<1> QED BY <1>12, <1>14, <1>16, <1>18, <1>19 DEF Seat

LEMMA ArrivalKeepsPInv ==
    ASSUME PInv, NEW e \in EndPoint, NameSpecified(e)
    PROVE  PInv'
<1>1. ClientConnected(e) /\ Begins("arrival")
  BY ArrivalReads
<1>2. PICK id \in Nat : id = LowNumber(reclaimableUserIDs, nextUserID)
  <2>1. reclaimableUserIDs \in Seq(Nat) /\ nextUserID \in Nat
    BY DEF PInv, IInv, TypeOK
  <2>2. LowNumber(reclaimableUserIDs, nextUserID) \in Nat
    BY <2>1, HeadTailProperties DEF LowNumber
  <2> QED BY <2>2
<1>3. /\ userID[e] = NoUser /\ userID' = [userID EXCEPT ![e] = id]
      /\ outbox' = SendTo({e}, Packet("#", id))
      /\ UNCHANGED <<realmVars, storeVars>>
  BY <1>1, <1>2 DEF ClientConnected
<1>4. IInv /\ IInv'
  BY <1>1, ConnectIsOK DEF PInv
<1>5. /\ userRealm' = userRealm /\ files' = files
      /\ NoKids'
  BY <1>3 DEF realmVars, storeVars, PInv, NoKids
<1>6. userRealm[e] = NoRealm /\ TableRealm # NoRealm
  BY <1>3, PokerAssumption, RelayAssumption DEF NoRealm, RealmNumber, PInv, IInv,
     Membership, Connected
<1>7. \A x \in EndPoint : userID'[x] = IF x = e THEN id ELSE userID[x]
  BY <1>3 DEF PInv, IInv, TypeOK
<1>8. AtTable' = AtTable /\ Ids' = Ids
  <2>1. AtTable' = AtTable
    BY <1>5 DEF AtTable
  <2>2. \A x \in AtTable : userID'[x] = userID[x]
    BY <1>6, <1>7 DEF AtTable
  <2> QED BY <2>1, <2>2 DEF Ids
<1>9. PICK s : s = since'
  OBVIOUS
<1>10. /\ SinceOK' /\ "arrival" \in ToSet(s)
       /\ \A x \in EndPoint : Seat(page[x], userID[x], userRealm[x], Ids, s)
  BY <1>1, <1>9, BeginsKeepsSeats
<1>11. PICK roll \in Rolls : \E name, back : Loads(e, Fresh(name, roll, back), roll)
  BY ArrivalReads
<1>12. PICK name, back, p : p = Fresh(name, roll, back) /\ Loads(e, p, roll)
  BY <1>11, Zenon
<1>13. page'[e] = AssignUserNumber(p, id)
  <2>1. PICK a : a = Packet("#", id)
    OBVIOUS
  <2>2. outbox'[e] = <<a>>
    BY <1>3, <2>1 DEF SendTo
  <2>3. page'[e] = Reads!Fold(p, Frames(outbox'[e], ""), roll)
    BY <1>12, Zenon DEF PInv, Loads
  <2>4. Frame(a, "") = <<a>>
    BY <2>1, FrameOf, Zenon
  <2>5. Frames(<<a>>, "") = <<a>>
    BY Zenon, <2>4, FramesFew
  <2>6. Reads!Fold(p, <<a>>, roll) = Handled(p, a, roll)
    BY ReadsFew
  <2>7. Handled(p, a, roll) = AssignUserNumber(p, id)
    BY <2>1, HandledEach, Zenon
  <2> QED BY Zenon, <2>2, <2>3, <2>5, <2>6, <2>7
<1>14. /\ \A x \in EndPoint : x # e => page'[x] = page[x]
       /\ page' = [x \in EndPoint |-> page'[x]]
  <2>1. PICK v : page' = [page EXCEPT ![e] = v]
    BY Zenon, <1>12 DEF Loads
  <2> QED BY <2>1 DEF PInv
<1>15. ASSUME NEW x \in EndPoint
       PROVE  Seat(page'[x], userID'[x], userRealm[x], Ids, s)
  <2>1. CASE x = e
    <3>1. Seat(AssignUserNumber(p, id), id, NoRealm, Ids, s)
      BY <1>10, <1>12, FirstOfNewPage
    <3> QED BY <1>6, <1>7, <1>13, <2>1, <3>1
  <2>2. CASE x # e
    BY <1>7, <1>10, <1>14, <2>2
  <2> QED BY <2>1, <2>2
<1>16. \A x \in EndPoint : SeatOK(x)'
  BY <1>5, <1>8, <1>9, <1>15 DEF SeatOK
<1> QED BY <1>4, <1>5, <1>10, <1>14, <1>16 DEF PInv

-----------------------------------------------------------------------------
(* Every step. *)
LEMMA KindsOfRequest ==
    ASSUME NEW q, RequestOK(q)
    PROVE  /\ q.symbol \in {"^", "<", ">", "@", "!", "*"}
           /\ q.symbol = ">" => q.time = TTL /\ DataOK(q.name, q.data)
           /\ q.symbol = "<" => q.number = OwnRealm
<1>1. CASE q = JoinRealm(TableRealm)
  BY <1>1 DEF JoinRealm
<1>2. CASE q.symbol = "<" /\ q.number = OwnRealm
  BY <1>2
<1>3. CASE q.symbol = ">" /\ q.time = TTL /\ DataOK(q.name, q.data)
  BY <1>3
<1>4. CASE q.symbol = "@" \/ q.symbol \in {"!", "*"}
  BY <1>4
<1> QED BY <1>1, <1>2, <1>3, <1>4 DEF RequestOK

(* "@n": from a page whose user n may have left to a user n who may have   *)
(* only just come.                                                         *)
LEMMA WrittenTo ==
    ASSUME PInv, NEW e \in EndPoint, page[e].out # <<>>, userRealm[e] # NoRealm,
           Head(page[e].out).symbol = "@", NEW x \in EndPoint, userID[x] # NoUser,
           userID[x] = Head(page[e].out).number
    PROVE  x \in AtTable \/ Both \subseteq ToSet(since)
<1>1. SUFFICES ASSUME x \notin AtTable
               PROVE  "arrival" \in ToSet(since) /\ "departure" \in ToSet(since)
  BY DEF Both
<1>2. Seat(page[x], userID[x], userRealm[x], Ids, since)
  BY DEF PInv, SeatOK
<1>3. "arrival" \in ToSet(since)
  BY <1>1, <1>2 DEF Seat, AtTable
<1>4. SUFFICES ASSUME "departure" \notin ToSet(since)
               PROVE  FALSE
  BY <1>3
<1>5. PICK p : p = page[e]
  OBVIOUS
<1>6. Seat(p, userID[e], userRealm[e], Ids, since) /\ userID[e] # NoUser /\ userID[e] \in Ids
  BY <1>5, TakenFrom DEF PInv, SeatOK
<1>7. WritesTo(p, Ids)
  <2>1. Ids \cup {userID[e]} = Ids
    BY <1>6
  <2> QED BY <1>4, <1>6, <2>1 DEF Seat
<1>8. PageOK(p) /\ InPlace(p, userID[e], userRealm[e], Ids)
  BY <1>6 DEF Seat
<1>9. Head(p.out).number \in Ids
  BY <1>5, <1>6, <1>7, <1>8, TakenInPlace
<1>10. PICK y \in AtTable : userID[y] = userID[x]
  BY <1>5, <1>9 DEF Ids
<1>11. y \in EndPoint
  BY DEF AtTable
<1>12. x = y
  BY <1>10, <1>11, MembersAtTable
<1> QED BY <1>1, <1>12

LEMMA ServedKeepsPInv ==
    ASSUME PInv, NEW e \in EndPoint, Served(e)
    PROVE  PInv'
<1>1. PICK q : q = Head(page[e].out)
  OBVIOUS
<1>2. /\ page[e].out # <<>> /\ Serve(e, q)
      /\ UNCHANGED <<begun, since, dealers>>
  BY <1>1, ServedReads
<1>3. PICK roll \in Rolls : page' = ReadBy(e, roll)
  BY ServedReads
<1>4. /\ userID[e] # NoUser
      /\ userRealm[e] = NoRealm => q = JoinRealm(TableRealm)
      /\ userRealm[e] # NoRealm => q.symbol # "^" /\ userRealm[e] = TableRealm
      /\ q.symbol \in {"^", "<", ">", "@", "!", "*"}
      /\ q.symbol = ">" => q.time = TTL /\ DataOK(q.name, q.data)
      /\ q.symbol = "<" => q.number = OwnRealm
  BY <1>1, <1>2, TakenFrom, KindsOfRequest
<1>5. CASE userRealm[e] = NoRealm
  <2>1. q.symbol = "^" /\ q.number = TableRealm
    BY <1>4, <1>5 DEF JoinRealm
  <2>2. JoinNumbered(e, TableRealm, FALSE)
    BY <1>2, <2>1 DEF Serve, Ignored
  <2> QED BY <1>2, <1>3, <1>5, <2>2, JoinKeepsPInv
<1>6. CASE userRealm[e] # NoRealm
  <2>1. \/ q.symbol = "@" /\ SendToUser(e, q.number)
        \/ q.symbol = "!" /\ SendExcept(e)
        \/ q.symbol = "*" /\ SendToAll(e)
        \/ q.symbol = ">" /\ SaveEntity(e, q.name, q.time, q.data)
        \/ q.symbol = "<" /\ \E r : LoadEntity(e, r, q.name)
        \/ Ignored(q)
    BY <1>2, <1>4, <1>6 DEF Serve
  <2>2. Members(e) = AtTable /\ IInv
    BY <1>4, <1>6, MembersAtTable DEF Members, PInv
  <2>3. AtTable \subseteq EndPoint /\ \A x \in AtTable : userID[x] # NoUser
    BY MembersAtTable, RelayAssumption DEF AtTable, NoUser
  <2>4. CASE q.symbol = "@" /\ SendToUser(e, q.number)
    <3>1. IInv' /\ UNCHANGED <<userVars, realmVars, storeVars>>
      BY <2>2, <2>4, TalkIsOK
    <3>2. PICK X : X = {x \in Connected : userID[x] = q.number}
      OBVIOUS
    <3>3. outbox' = SendTo(X, Packet("@", userID[e]))
      BY <2>4, <3>2 DEF SendToUser
    <3>4. \A x \in X : /\ x \in EndPoint /\ userID[x] # NoUser
                       /\ x \in AtTable \/ Both \subseteq ToSet(since)
      BY <1>1, <1>2, <1>6, <2>4, <3>2, WrittenTo DEF Connected
    <3>5. PICK symbol \in {"@", "!", "*"} : symbol = "@"
      OBVIOUS
    <3> QED BY <1>1, <1>2, <1>3, <1>6, <2>4, <3>1, <3>3, <3>4, <3>5, TalkKeepsPInv
  <2>5. CASE q.symbol = "!" /\ SendExcept(e)
    <3>1. IInv' /\ UNCHANGED <<userVars, realmVars, storeVars>>
      BY <2>2, <2>5, TalkIsOK
    <3>2. PICK X : X = AtTable \ {e}
      OBVIOUS
    <3>3. outbox' = SendTo(X, Packet("!", userID[e]))
      BY <2>2, <2>5, <3>2 DEF SendExcept
    <3>4. \A x \in X : /\ x \in EndPoint /\ userID[x] # NoUser
                       /\ x \in AtTable \/ Both \subseteq ToSet(since)
      BY <2>3, <3>2
    <3>5. PICK symbol \in {"@", "!", "*"} : symbol = "!"
      OBVIOUS
    <3> QED BY <1>1, <1>2, <1>3, <1>6, <2>5, <3>1, <3>3, <3>4, <3>5, TalkKeepsPInv
  <2>6. CASE q.symbol = "*" /\ SendToAll(e)
    <3>1. IInv' /\ UNCHANGED <<userVars, realmVars, storeVars>>
      BY <2>2, <2>6, TalkIsOK
    <3>2. PICK X : X = AtTable
      OBVIOUS
    <3>3. outbox' = SendTo(X, Packet("*", userID[e]))
      BY <2>2, <2>6, <3>2 DEF SendToAll
    <3>4. \A x \in X : /\ x \in EndPoint /\ userID[x] # NoUser
                       /\ x \in AtTable \/ Both \subseteq ToSet(since)
      BY <2>3, <3>2
    <3>5. PICK symbol \in {"@", "!", "*"} : symbol = "*"
      OBVIOUS
    <3> QED BY <1>1, <1>2, <1>3, <1>6, <2>6, <3>1, <3>3, <3>4, <3>5, TalkKeepsPInv
  <2>7. CASE q.symbol = ">" /\ SaveEntity(e, q.name, q.time, q.data)
    <3>1. PICK k, d : k = q.name /\ d = q.data
      OBVIOUS
    <3>2. DataOK(k, d) /\ SaveEntity(e, k, TTL, d)
      BY <1>4, <2>7, <3>1
    <3> QED BY <1>2, <1>3, <1>6, <3>2, SaveKeepsPInv
  <2>8. CASE q.symbol = "<" /\ \E r : LoadEntity(e, r, q.name)
    <3>1. PICK r, k : k = q.name /\ LoadEntity(e, r, k)
      BY <2>8
    <3> QED BY <1>2, <1>3, <1>6, <3>1, LoadKeepsPInv
  <2>9. CASE Ignored(q)
    BY <1>2, <1>3, <1>6, <2>9, IgnoredKeepsPInv
  <2> QED BY <2>1, <2>4, <2>5, <2>6, <2>7, <2>8, <2>9
<1> QED BY <1>5, <1>6

LEMMA StutterKeepsPInv ==
    ASSUME PInv, UNCHANGED pokerVars
    PROVE  PInv'
<1>1. /\ UNCHANGED <<userVars, realmVars>> /\ UNCHANGED <<files, now>>
      /\ page' = page /\ since' = since
  BY DEF pokerVars, relayVars, ghosts, vars, storeVars
<1>2. IInv'
  <2>1. DirectoryOK'
    BY <1>1, PartsStay DEF PInv
  <2> QED BY <1>1, <2>1, OnlyFilesChange DEF PInv
<1>3. Ids' = Ids /\ NoKids' /\ userID' = userID /\ userRealm' = userRealm
  BY <1>1, RelayUnchanged
<1>4. \A e \in EndPoint : SeatOK(e)'
  BY <1>1, <1>3 DEF PInv, SeatOK
<1> QED BY <1>1, <1>2, <1>3, <1>4 DEF PInv, SinceOK

LEMMA NextKeepsPInv ==
    ASSUME PInv, [PokerNext]_pokerVars
    PROVE  PInv'
<1>1. CASE UNCHANGED pokerVars
  BY <1>1, StutterKeepsPInv
<1>2. CASE PokerNext
  BY <1>2, ArrivalKeepsPInv, LeaveKeepsPInv, ClickKeepsPInv, ServedKeepsPInv DEF PokerNext
<1> QED BY <1>1, <1>2

LEMMA InitIsPInv == PokerInit => PInv
<1> SUFFICES ASSUME PokerInit
             PROVE  PInv
  OBVIOUS
<1>1. Init /\ IInv
  BY InitIsOK DEF PokerInit
<1>2. NoKids
  BY <1>1 DEF Init, NoChildren, NoLinks, NoKids
<1>3. \A f \in files : FileOK(f)
  <2>1. PICK old \in SUBSET LegacyFile : files = Upgraded(old)
    BY <1>1 DEF Init, InitStore
  <2>2. \A f \in old : FileOK(f)
    BY PokerAssumption DEF FileOK, Money
  <2>3. ASSUME NEW g \in old
        PROVE  FileOK(File(g.realm, g.name, 0, g.data))
    BY <2>2 DEF FileOK, File
  <2> QED BY <2>1, <2>2, <2>3 DEF Upgraded
<1>4. PICK roll \in Rolls : page = [e \in EndPoint |-> NewPage(UnknownName, roll)]
  <2>1. (CHOOSE roll \in Rolls : TRUE) \in Rolls
    BY PokerAssumption
  <2> QED BY <2>1, Zenon DEF PokerInit
<1>5. PICK p : p = NewPage(UnknownName, roll)
  OBVIOUS
<1>6. /\ DOMAIN p = Fields /\ p.users = <<>> /\ p.dealer = NoUser
      /\ p.deck = Shuffled(roll) /\ p.pot = 0 /\ p.out = <<>> /\ p.missed = FALSE
  BY <1>5 DEF NewPage, Fields
<1>7. PageOK(p)
  BY <1>6, BlankIsOK
<1>8. ASSUME NEW ids, NEW s
      PROVE  Seat(p, NoUser, NoRealm, ids, s)
  <2>1. Len(p.out) = 0
    BY <1>6, SmallLists
  <2>2. InPlace(p, NoUser, NoRealm, ids)
    BY <1>6, <2>1 DEF InPlace
  <2>3. WritesTo(p, ids \cup {NoUser})
    BY <2>1 DEF WritesTo
  <2> QED BY <1>6, <1>7, <2>2, <2>3 DEF Seat
<1>9. ASSUME NEW e \in EndPoint
      PROVE  SeatOK(e)
  <2>1. page[e] = p /\ userID[e] = NoUser /\ userRealm[e] = NoRealm
    BY <1>1, <1>4, <1>5 DEF Init, NoUsers, Nowhere
  <2> QED BY <1>8, <2>1 DEF SeatOK
<1>10. page = [e \in EndPoint |-> page[e]]
  BY <1>4
<1>11. SinceOK
  <2>1. since = <<>>
    BY DEF PokerInit
  <2> QED BY <2>1, SmallLists DEF SinceOK
<1> QED BY <1>1, <1>2, <1>3, <1>9, <1>10, <1>11 DEF PInv

LEMMA AlwaysPInv == PokerSpec => []PInv
BY InitIsPInv, NextKeepsPInv, PTL DEF PokerSpec

-----------------------------------------------------------------------------
(***************************************************************************)
(* Whatever the players do and in whatever order it arrives, every page    *)
(* has a list of users without two of one number, a dealer that is one of  *)
(* them, and a deck that holds no card twice (Session.ts, Deck.ts).        *)
(***************************************************************************)
THEOREM PagesAreSessions == PokerSpec => []TablesOK
<1>1. PInv => TablesOK
  BY PageIsSession DEF PInv, SeatOK, Seat, TablesOK
<1> QED BY <1>1, AlwaysPInv, PTL

(***************************************************************************)
(* The $first of handleCommand (Session.ts) throws for an unknown sender   *)
(* only while both an arrival and a departure are on their way: a user is  *)
(* announced by "+" or "=" to everyone who hears it, before it is heard,   *)
(* unless it answers one who has left to one who has come with the same    *)
(* number.                                                                 *)
(***************************************************************************)
THEOREM SendersAreKnown == PokerSpec => []SendersKnown
<1>1. PInv => SendersKnown
  BY DEF PInv, SeatOK, Seat, SendersKnown, Both
<1> QED BY <1>1, AlwaysPInv, PTL

(***************************************************************************)
(* What the listings rest on: a page at the table lists exactly the        *)
(* numbers of those who are at the table, itself first, after every step   *)
(* and not only when all is quiet (Session.ts, assignUserNumber,           *)
(* usersJoined, userLeft; Server.cs, ChangeRealm).                         *)
(***************************************************************************)
ListsWhoIsThere ==
    \A e \in AtTable : /\ IdSet(page[e].users) = {userID[x] : x \in AtTable}
                       /\ page[e].users[1].id = userID[e]

THEOREM TableIsListed == PokerSpec => []ListsWhoIsThere
<1>1. PInv => ListsWhoIsThere
  <2> SUFFICES ASSUME PInv, NEW e \in AtTable
               PROVE  /\ IdSet(page[e].users) = {userID[x] : x \in AtTable}
                      /\ page[e].users[1].id = userID[e]
    BY DEF ListsWhoIsThere
  <2>1. e \in EndPoint /\ userRealm[e] = TableRealm /\ userID[e] # NoUser
    BY MembersAtTable, RelayAssumption DEF AtTable, NoUser
  <2>2. TableRealm # NoRealm
    BY PokerAssumption, RelayAssumption DEF RealmNumber, NoRealm
  <2> QED BY <2>1, <2>2 DEF PInv, SeatOK, Seat, InPlace, Ids
<1> QED BY <1>1, AlwaysPInv, PTL

===============================================================================
