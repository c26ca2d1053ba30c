----------------------------- MODULE LobbyProofs -----------------------------
(***************************************************************************)
(* Proofs about the realm lobby of module Lobby: the count a page shows is *)
(* the number of users in the lobby, always.                               *)
(*                                                                         *)
(* A page is in its seat (Seat, below) when its state fits the realm its   *)
(* user is in and what it has written and the server has not taken yet:    *)
(* one that shows the lobby is there, and only a way back is outstanding.  *)
(* Three things are shown of a step of the server, for any packets:        *)
(*   - what a page does with a packet keeps its shape (PageOK), answers    *)
(*     with nothing that moves it but home (Reply), and adds to the count  *)
(*     what the packet says (Hears);                                       *)
(*   - what the packets say together (Tells) is by how much the crowd in   *)
(*     the lobby changes, for each user who is there and stays;            *)
(*   - who comes to the lobby starts at 1 and is told of the others.       *)
(* "&" must not lead to the lobby: the numbers that are used again are     *)
(* private ones (QueueOK).                                                 *)
(***************************************************************************)
EXTENDS Lobby, RelayProofs

-----------------------------------------------------------------------------
(***************************************************************************)
(* The shape of a page, as far as what it does in the lobby depends on it. *)
(* Nothing is said of names, of lists of users and of what it has shown.   *)
(***************************************************************************)
Fields == {"state", "name", "covered", "late", "id", "realm", "count", "realms",
           "timers", "alone", "stale", "summary", "hosted", "sent", "users", "pending",
           "me", "out"}

IsMove(q) == q.symbol \in {"^", "&"}
IsHome(q) == q.symbol = "^" /\ q.number = LobbyRealm

RequestOK(q) ==
    \/ q.symbol = "^" /\ q.number \in RealmNumber
    \/ q.symbol = "&"
    \/ q.symbol \in {"@", ":", "!", "*"}
    \/ q.symbol = ">" /\ q.time = SaveTime
    \/ q.symbol = "<" /\ q.number \in RealmNumber \cup {OwnRealm}
RequestsOK(o) == List(o) /\ \A i \in 1 .. Len(o) : RequestOK(o[i])

SummaryOK(s) == DOMAIN s = {"number", "creator", "count", "running"}
                /\ s.number \in RealmNumber
SummariesOK(l) == List(l) /\ \A i \in 1 .. Len(l) : SummaryOK(l[i])
TimersOK(l) == List(l) /\ \A i \in 1 .. Len(l) : l[i] \in RealmNumber

PageOK(p) == /\ DOMAIN p = Fields
             /\ p.count \in Int
             /\ SummariesOK(p.realms)
             /\ TimersOK(p.timers)
             /\ RequestsOK(p.out)

(***************************************************************************)
(* What a page answers to what it reads: no request that takes it anywhere *)
(* but back to the lobby.                                                  *)
(***************************************************************************)
Reply(q) == RequestOK(q) /\ (IsMove(q) => IsHome(q))
AnswersOK(w) == List(w) /\ \A i \in 1 .. Len(w) : Reply(w[i])
Answers(p, q) == \E w : AnswersOK(w) /\ q.out = p.out \o w

Talks(p, q) == /\ PageOK(q)
               /\ q.count = p.count /\ q.timers = p.timers
               /\ Answers(p, q)

LEMMA AnswerNothing ==
    /\ AnswersOK(<<>>)
    /\ \A p, q : PageOK(p) /\ q.out = p.out => Answers(p, q)
<1>1. AnswersOK(<<>>)
  BY SmallLists DEF AnswersOK
<1>2. ASSUME NEW p, NEW q, PageOK(p), q.out = p.out
      PROVE  Answers(p, q)
  <2>1. p.out = p.out \o <<>>
    BY <1>2, ConcatEmptySeq DEF PageOK, RequestsOK, List
  <2>2. AnswersOK(<<>>) /\ q.out = p.out \o <<>>
    BY <1>1, <1>2, <2>1
  <2> QED BY <2>2, Zenon DEF Answers
<1> QED BY <1>1, <1>2

LEMMA AnswersConcat ==
    ASSUME NEW s, NEW t, AnswersOK(s), AnswersOK(t)
    PROVE  AnswersOK(s \o t)
<1>1. PICK u : u = s \o t
  OBVIOUS
<1>2. PICK m \in Nat, n \in Nat : m = Len(s) /\ n = Len(t)
  BY ListPlaces DEF AnswersOK
<1>3. /\ List(u) /\ Len(u) = m + n
      /\ \A i \in 1 .. m : u[i] = s[i]
      /\ \A i \in 1 .. n : u[m + i] = t[i]
  BY <1>1, <1>2, ListConcat DEF AnswersOK
<1>4. ASSUME NEW i \in 1 .. m + n
      PROVE  Reply(u[i])
  <2>1. CASE i \in 1 .. m
    BY <1>2, <1>3, <2>1 DEF AnswersOK
  <2>2. CASE i \notin 1 .. m
    <3>1. i - m \in 1 .. n /\ m + (i - m) = i
      BY <2>2
    <3> QED BY <1>2, <1>3, <3>1 DEF AnswersOK
  <2> QED BY <2>1, <2>2
<1> QED BY <1>1, <1>3, <1>4 DEF AnswersOK

(* What is written at the end of a list of requests. *)
LEMMA WritesAtEnd ==
    ASSUME NEW o, NEW w, RequestsOK(o), List(w), \A i \in 1 .. Len(w) : RequestOK(w[i])
    PROVE  /\ RequestsOK(o \o w)
           /\ \A i \in 1 .. Len(o \o w) :
                 \/ i \in 1 .. Len(o) /\ (o \o w)[i] = o[i]
                 \/ i > Len(o) /\ \E k \in 1 .. Len(w) : (o \o w)[i] = w[k]
<1>1. PICK u : u = o \o w
  OBVIOUS
<1>2. PICK m \in Nat, n \in Nat : m = Len(o) /\ n = Len(w)
  BY ListPlaces DEF RequestsOK
<1>3. /\ List(u) /\ Len(u) = m + n
      /\ \A i \in 1 .. m : u[i] = o[i]
      /\ \A i \in 1 .. n : u[m + i] = w[i]
  BY <1>1, <1>2, ListConcat DEF RequestsOK
<1>4. ASSUME NEW i \in 1 .. m + n
      PROVE  \/ i \in 1 .. m /\ u[i] = o[i]
             \/ i > m /\ \E k \in 1 .. n : u[i] = w[k]
  <2>1. CASE i \in 1 .. m
    BY <1>3, <2>1
  <2>2. CASE i \notin 1 .. m
    <3>1. i - m \in 1 .. n /\ m + (i - m) = i /\ i > m
      BY <2>2
    <3> QED BY <1>3, <3>1
  <2> QED BY <2>1, <2>2
<1>5. RequestsOK(u)
  BY <1>2, <1>3, <1>4 DEF RequestsOK
<1> QED BY <1>1, <1>2, <1>3, <1>4, <1>5

(* Answers one after the other. *)
LEMMA AnswersFollow ==
    ASSUME NEW p, NEW q, NEW r, PageOK(p), Answers(p, q), Answers(q, r)
    PROVE  Answers(p, r)
<1>1. PICK s : AnswersOK(s) /\ q.out = p.out \o s
  BY DEF Answers
<1>2. PICK t : AnswersOK(t) /\ r.out = q.out \o t
  BY DEF Answers
<1>3. PICK o : o = p.out
  OBVIOUS
<1>4. List(o) /\ List(s) /\ List(t)
  BY <1>1, <1>2, <1>3 DEF PageOK, AnswersOK, RequestsOK
<1>5. (o \o s) \o t = o \o (s \o t)
  BY <1>4, ListAssociative
<1>6. r.out = p.out \o (s \o t)
  BY <1>1, <1>2, <1>3, <1>5, Zenon
<1>7. AnswersOK(s \o t)
  BY <1>1, <1>2, AnswersConcat
<1> QED BY <1>6, <1>7, Zenon DEF Answers

LEMMA TalksFollow ==
    ASSUME NEW p, NEW q, NEW r, PageOK(p), Talks(p, q), Talks(q, r)
    PROVE  Talks(p, r)
BY AnswersFollow DEF Talks

(* Everything else may change. *)
Alike(p, q) == /\ DOMAIN q = DOMAIN p
               /\ q.count = p.count /\ q.realms = p.realms /\ q.timers = p.timers
               /\ q.out = p.out

LEMMA AlikeTalks ==
    ASSUME NEW p, NEW q, PageOK(p), Alike(p, q)
    PROVE  Talks(p, q)
<1>1. PageOK(q)
  BY DEF Alike, PageOK
<1>2. Answers(p, q)
  BY AnswerNothing DEF Alike
<1> QED BY <1>1, <1>2 DEF Talks, Alike

LEMMA WritesTalks ==
    ASSUME NEW p, PageOK(p), NEW w, AnswersOK(w)
    PROVE  Talks(p, Writes(p, w)) /\ Writes(p, w).state = p.state
<1>1. PICK q : q = Writes(p, w)
  OBVIOUS
<1>2. /\ DOMAIN q = Fields
      /\ q.count = p.count /\ q.realms = p.realms /\ q.timers = p.timers
      /\ q.out = p.out \o w /\ q.state = p.state
  BY <1>1 DEF Writes, PageOK, Fields
<1>3. RequestsOK(q.out)
  <2>1. PICK o : o = p.out
    OBVIOUS
  <2>2. RequestsOK(o) /\ List(w) /\ \A i \in 1 .. Len(w) : RequestOK(w[i])
    BY <2>1 DEF PageOK, AnswersOK, Reply
  <2>3. RequestsOK(o \o w)
    BY <2>2, WritesAtEnd
  <2> QED BY <1>2, <2>1, <2>3, Zenon
<1>4. Answers(p, q)
  BY <1>2, Zenon DEF Answers
<1>5. PageOK(q)
  BY <1>2, <1>3 DEF PageOK
<1> QED BY <1>1, <1>2, <1>4, <1>5 DEF Talks

(* The page goes on in the state it is in. *)
Keeps(p, q) == Talks(p, q) /\ q.state = p.state

LEMMA KeepsFollow ==
    ASSUME NEW p, NEW q, NEW r, PageOK(p), Keeps(p, q), Keeps(q, r)
    PROVE  Keeps(p, r)
BY TalksFollow DEF Keeps

LEMMA KeepsItself ==
    ASSUME NEW p, PageOK(p)
    PROVE  Keeps(p, p)
BY AlikeTalks DEF Keeps, Alike

-----------------------------------------------------------------------------
(* The requests of the handlers, one by one and in lists. *)
LEMMA ReplyEach ==
    /\ \A p : Reply(SaveSummary(p)) /\ Reply(SaveDetails(p))
    /\ \A p, c : Reply(ToLobby(p, c))
    /\ \A n, c : Reply(ToUser(n, c))
    /\ \A c : Reply(ToAll(c)) /\ Reply(ToAllExceptMe(c))
    /\ \A k : Reply(LoadData(k, OwnRealm))
    /\ \A k : \A n \in RealmNumber : Reply(LoadData(k, n))
    /\ Reply(JoinRealm(LobbyRealm))
<1>1. \A p : Reply(SaveSummary(p)) /\ Reply(SaveDetails(p))
  BY DEF Reply, RequestOK, IsMove, SaveSummary, SaveDetails, SaveData
<1>2. \A p, c : Reply(ToLobby(p, c))
  BY DEF Reply, RequestOK, IsMove, ToLobby, ToRealm
<1>3. \A n, c : Reply(ToUser(n, c))
  BY DEF Reply, RequestOK, IsMove, ToUser
<1>4. \A c : Reply(ToAll(c)) /\ Reply(ToAllExceptMe(c))
  BY DEF Reply, RequestOK, IsMove, ToAll, ToAllExceptMe
<1>5. \A k : Reply(LoadData(k, OwnRealm))
  BY DEF Reply, RequestOK, IsMove, LoadData
<1>6. \A k : \A n \in RealmNumber : Reply(LoadData(k, n))
  BY DEF Reply, RequestOK, IsMove, LoadData
<1>7. Reply(JoinRealm(LobbyRealm))
  BY LobbyAssumption DEF Reply, RequestOK, IsMove, IsHome, JoinRealm
<1> QED BY <1>1, <1>2, <1>3, <1>4, <1>5, <1>6, <1>7

LEMMA AnswersFew ==
    /\ \A a : Reply(a) => AnswersOK(<<a>>)
    /\ \A a, b : Reply(a) /\ Reply(b) => AnswersOK(<<a, b>>)
    /\ \A a, b, c : Reply(a) /\ Reply(b) /\ Reply(c) => AnswersOK(<<a, b, c>>)
<1>1. ASSUME NEW a, Reply(a)
      PROVE  AnswersOK(<<a>>)
  <2>1. PICK w : w = <<a>>
    OBVIOUS
  <2>2. List(w) /\ Len(w) = 1 /\ w[1] = a
    BY <2>1, SmallLists
  <2> QED BY <1>1, <2>1, <2>2 DEF AnswersOK
<1>2. ASSUME NEW a, NEW b, Reply(a), Reply(b)
      PROVE  AnswersOK(<<a, b>>)
  <2>1. PICK w : w = <<a, b>>
    OBVIOUS
  <2>2. List(w) /\ Len(w) = 2 /\ w[1] = a /\ w[2] = b
    BY <2>1, SmallLists
  <2> QED BY <1>2, <2>1, <2>2 DEF AnswersOK
<1>3. ASSUME NEW a, NEW b, NEW c, Reply(a), Reply(b), Reply(c)
      PROVE  AnswersOK(<<a, b, c>>)
  <2>1. PICK w : w = <<a, b, c>>
    OBVIOUS
  <2>2. w \in Seq({a, b, c}) /\ Len(w) = 3 /\ w[1] = a /\ w[2] = b /\ w[3] = c
    BY <2>1
  <2>3. List(w)
    BY <2>2, ListOf
  <2> QED BY <1>3, <2>1, <2>2, <2>3 DEF AnswersOK
<1> QED BY <1>1, <1>2, <1>3

LEMMA AnswersEach ==
    ASSUME NEW ids, List(ids), NEW c
    PROVE  AnswersOK([i \in DOMAIN ids |-> ToUser(ids[i], c)])
<1>1. PICK n \in Nat : n = Len(ids) /\ DOMAIN ids = 1 .. n
  BY ListPlaces
<1>2. PICK w : w = [i \in DOMAIN ids |-> ToUser(ids[i], c)]
  OBVIOUS
<1>3. DOMAIN w = 1 .. n /\ \A i \in 1 .. n : w[i] = ToUser(ids[i], c)
  BY <1>1, <1>2
<1>4. w \in Seq({w[i] : i \in 1 .. n}) /\ Len(w) = n
  BY <1>1, <1>2, <1>3
<1>5. \A i \in 1 .. n : Reply(w[i])
  BY <1>3, ReplyEach
<1>6. List(w)
  BY <1>4, ListOf
<1> QED BY <1>2, <1>4, <1>5, <1>6 DEF AnswersOK

LEMMA WritesKeeps ==
    ASSUME NEW p, NEW q, PageOK(p), Keeps(p, q), NEW w, AnswersOK(w)
    PROVE  Keeps(p, Writes(q, w))
<1>1. Keeps(q, Writes(q, w))
  BY WritesTalks DEF Keeps, Talks
<1> QED BY <1>1, KeepsFollow

-----------------------------------------------------------------------------
(* The handlers that only talk. *)
LEMMA AdvertiseKeeps ==
    ASSUME NEW p, PageOK(p), NEW host
    PROVE  Keeps(p, Advertise(p, host))
<1>1. PICK n : n = Len(p.users)
  OBVIOUS
<1>2. PICK q : q = [p EXCEPT !.summary.count = n]
  OBVIOUS
<1>3. Keeps(p, q)
  <2>1. Alike(p, q) /\ q.state = p.state
    BY <1>2 DEF Alike, PageOK, Fields
  <2> QED BY <2>1, AlikeTalks DEF Keeps
<1>4. PICK r : r = [q EXCEPT !.sent = n]
  OBVIOUS
<1>5. Keeps(p, r)
  <2>1. PageOK(q)
    BY <1>3 DEF Keeps, Talks
  <2>2. Alike(q, r) /\ r.state = q.state
    BY <1>4, <2>1 DEF Alike, PageOK, Fields
  <2>3. Keeps(q, r)
    BY <2>1, <2>2, AlikeTalks DEF Keeps
  <2> QED BY <1>3, <2>3, KeepsFollow
<1>6. PICK s : s = IF p.sent = n THEN <<>>
                   ELSE <<ToLobby(p, Command("USER_COUNT", <<p.summary.number, n>>))>>
  OBVIOUS
<1>7. AnswersOK(s)
  <2>1. CASE p.sent = n
    BY <1>6, <2>1, AnswerNothing
  <2>2. CASE p.sent # n
    <3>1. PICK a : a = ToLobby(p, Command("USER_COUNT", <<p.summary.number, n>>))
      OBVIOUS
    <3>2. Reply(a)
      BY <3>1, ReplyEach
    <3> QED BY <1>6, <2>2, <3>1, <3>2, AnswersFew, Zenon
  <2> QED BY <2>1, <2>2
<1>8. AnswersOK(<<SaveSummary(q), SaveDetails(q)>>)
  BY ReplyEach, AnswersFew
<1>9. AnswersOK(<<SaveSummary(q), SaveDetails(q)>> \o s)
  BY <1>7, <1>8, AnswersConcat
<1>10. Advertise(p, host) = IF ~host THEN q
                            ELSE Writes(r, <<SaveSummary(q), SaveDetails(q)>> \o s)
  BY <1>1, <1>2, <1>4, <1>6, Zenon DEF Advertise
<1>11. Keeps(p, Writes(r, <<SaveSummary(q), SaveDetails(q)>> \o s))
  BY <1>5, <1>9, WritesKeeps
<1> QED BY <1>3, <1>10, <1>11, Zenon

(* The same after a change of something else. *)
LEMMA AlikeKeeps ==
    ASSUME NEW p, NEW q, PageOK(p), Alike(p, q), q.state = p.state
    PROVE  PageOK(q) /\ Keeps(p, q) /\ \A host : Keeps(p, Advertise(q, host))
<1>1. PageOK(q) /\ Keeps(p, q)
  BY AlikeTalks DEF Keeps, Talks
<1>2. \A host : Keeps(p, Advertise(q, host))
  BY <1>1, AdvertiseKeeps, KeepsFollow
<1> QED BY <1>1, <1>2

LEMMA EditKeeps ==
    ASSUME NEW p, PageOK(p)
    PROVE  /\ \A u : /\ Alike(p, [p EXCEPT !.users = u])
                     /\ [p EXCEPT !.users = u].state = p.state
           /\ \A u : /\ Alike(p, [p EXCEPT !.pending = u])
                     /\ [p EXCEPT !.pending = u].state = p.state
           /\ \A i, v : /\ Alike(p, [p EXCEPT !.users[i].status = v])
                        /\ [p EXCEPT !.users[i].status = v].state = p.state
BY DEF Alike, PageOK, Fields

LEMMA AddMeKeeps ==
    ASSUME NEW p, PageOK(p)
    PROVE  Keeps(p, AddMe(p))
<1>1. PICK u : u = Append(p.users, NewUser(p.id, p.name, p.hosted))
  OBVIOUS
<1>2. PICK q : q = [p EXCEPT !.users = u]
  OBVIOUS
<1>3. Alike(p, q) /\ q.state = p.state
  BY <1>2, EditKeeps
<1>4. AddMe(p) = Advertise(q, p.hosted)
  BY <1>1, <1>2, Zenon DEF AddMe
<1> QED BY <1>3, <1>4, AlikeKeeps

LEMMA UsersJoinedKeeps ==
    ASSUME NEW p, PageOK(p), NEW ids, List(ids), NEW before
    PROVE  Keeps(p, UsersJoined(p, ids, before))
<1>1. CASE before /\ p.summary.running
  <2>1. AnswersOK(<<LoadData("realmDetails", OwnRealm)>>)
    BY ReplyEach, AnswersFew
  <2>2. UsersJoined(p, ids, before) = Writes(p, <<LoadData("realmDetails", OwnRealm)>>)
    BY <1>1, Zenon DEF UsersJoined
  <2> QED BY <2>1, <2>2, WritesKeeps, KeepsItself
<1>2. CASE ~(before /\ p.summary.running)
  <2>1. PICK u : u = p.users \o [i \in DOMAIN ids |-> NewUser(ids[i], Unnamed, FALSE)]
    OBVIOUS
  <2>2. PICK q : q = [p EXCEPT !.users = u]
    OBVIOUS
  <2>3. PICK c : c = Command("GET", <<>>)
    OBVIOUS
  <2>4. PICK w : w = [i \in DOMAIN ids |-> ToUser(ids[i], c)]
    OBVIOUS
  <2>5. UsersJoined(p, ids, before) = Advertise(Writes(q, w), p.hosted)
    BY <1>2, <2>1, <2>2, <2>3, <2>4, Zenon DEF UsersJoined
  <2>6. PageOK(q) /\ Keeps(p, q)
    BY <2>2, EditKeeps, AlikeKeeps
  <2>7. AnswersOK(w)
    BY <2>4, AnswersEach
  <2>8. Keeps(p, Writes(q, w))
    BY <2>6, <2>7, WritesKeeps
  <2>9. Keeps(Writes(q, w), Advertise(Writes(q, w), p.hosted))
    BY <2>8, AdvertiseKeeps DEF Keeps, Talks
  <2> QED BY <2>5, <2>8, <2>9, KeepsFollow
<1> QED BY <1>1, <1>2

LEMMA UserLeftKeeps ==
    ASSUME NEW p, PageOK(p), NEW n
    PROVE  Keeps(p, UserLeft(p, n))
<1>1. PICK i : i = GetUser(p.users, n)
  OBVIOUS
<1>2. PICK u : u = IF i = 0 THEN SubSeq(p.users, 1, Len(p.users) - 1)
                   ELSE RemoveAt(p.users, i)
  OBVIOUS
<1>3. PICK q : q = [p EXCEPT !.users = u]
  OBVIOUS
<1>4. PICK w : w = IF n = p.summary.creator THEN <<JoinRealm(LobbyRealm)>> ELSE <<>>
  OBVIOUS
<1>5. UserLeft(p, n) = Writes(Advertise(q, p.hosted), w)
  BY <1>1, <1>2, <1>3, <1>4, Zenon DEF UserLeft
<1>6. Keeps(p, Advertise(q, p.hosted))
  BY <1>3, EditKeeps, AlikeKeeps
<1>7. AnswersOK(w)
  BY <1>4, ReplyEach, AnswersFew, AnswerNothing
<1> QED BY <1>5, <1>6, <1>7, WritesKeeps

LEMMA CheckGoKeeps ==
    ASSUME NEW p, PageOK(p)
    PROVE  Keeps(p, CheckGo(p))
<1>1. CASE ~p.hosted
  <2>1. PICK no : no = FALSE
    OBVIOUS
  <2>2. Keeps(p, Advertise(p, no))
    BY AdvertiseKeeps
  <2> QED BY <1>1, <2>1, <2>2, Zenon DEF CheckGo
<1>2. CASE p.hosted
  <2>1. PICK r : r = Advertise(p, p.hosted)
    OBVIOUS
  <2>2. PageOK(r) /\ Keeps(p, r)
    BY <2>1, AdvertiseKeeps DEF Keeps, Talks
  <2>3. PICK q : q = [r EXCEPT !.summary.running = TRUE]
    OBVIOUS
  <2>4. Keeps(p, q)
    <3>1. Alike(r, q) /\ q.state = r.state
      BY <2>2, <2>3 DEF Alike, PageOK, Fields
    <3>2. Keeps(r, q)
      BY <2>2, <3>1, AlikeKeeps
    <3> QED BY <2>2, <3>2, KeepsFollow
  <2>5. PICK a, b, c : /\ a = SaveSummary(q)
                       /\ b = ToLobby(p, Command("STARTING", <<p.summary.number>>))
                       /\ c = ToAll(Command("STARTING", <<>>))
    BY Zenon
  <2>6. AnswersOK(<<a, b, c>>)
    BY <2>5, ReplyEach, AnswersFew
  <2>7. CheckGo(p) = Writes(q, <<a, b, c>>)
    BY <1>2, <2>1, <2>3, <2>5, Zenon DEF CheckGo
  <2> QED BY <2>4, <2>6, <2>7, WritesKeeps
<1> QED BY <1>1, <1>2

LEMMA CheckAllReadyKeeps ==
    ASSUME NEW p, PageOK(p)
    PROVE  Keeps(p, CheckAllReady(p))
BY CheckGoKeeps, KeepsItself, Zenon DEF CheckAllReady

-----------------------------------------------------------------------------
(* The handlers of a private realm, which may also start the game. *)
GoesOn(p, q) == Talks(p, q) /\ (q.state = p.state \/ q.state = "completed")

LEMMA KeepsGoesOn ==
    ASSUME NEW p, NEW q, Keeps(p, q)
    PROVE  GoesOn(p, q)
BY DEF Keeps, GoesOn

LEMMA NewCompletedGoesOn ==
    ASSUME NEW p, PageOK(p)
    PROVE  GoesOn(p, NewCompleted(p))
<1>1. PICK i : i = SelectLastInSeq(p.users, LAMBDA u : u.number = p.id)
  BY Zenon
<1>2. PICK q : q = [p EXCEPT !.state = "completed", !.covered = FALSE, !.sent = -1,
                             !.pending = <<>>,
                             !.me = IF i = 0 THEN <<>> ELSE <<p.users[i]>>]
  BY Zenon
<1>3. NewCompleted(p) = q
  BY <1>1, <1>2, Zenon DEF NewCompleted
<1>4. Alike(p, q) /\ q.state = "completed"
  BY <1>2 DEF Alike, PageOK, Fields
<1>5. Talks(p, q)
  BY <1>4, AlikeTalks
<1> QED BY <1>3, <1>4, <1>5 DEF GoesOn

LEMMA StartsFrom ==
    ASSUME NEW p, PageOK(p), NEW u, NEW n
    PROVE  GoesOn(p, NewCompleted([p EXCEPT !.users = u, !.summary.count = n]))
<1>1. PICK q : q = [p EXCEPT !.users = u, !.summary.count = n]
  OBVIOUS
<1>2. Alike(p, q) /\ q.state = p.state
  BY <1>1 DEF Alike, PageOK, Fields
<1>3. PageOK(q) /\ Keeps(p, q)
  BY <1>2, AlikeKeeps
<1>4. GoesOn(q, NewCompleted(q))
  BY <1>3, NewCompletedGoesOn
<1>5. Talks(p, NewCompleted(q))
  BY <1>3, <1>4, TalksFollow DEF Keeps, GoesOn
<1> QED BY <1>1, <1>3, <1>4, <1>5 DEF Keeps, GoesOn

LEMMA PrivateHearsGoesOn ==
    ASSUME NEW p, PageOK(p), NEW sender, NEW c
    PROVE  GoesOn(p, PrivateHears(p, sender, c))
<1>1. PICK s, i, me : /\ s = GetUser(p.users, sender)
                      /\ i = GetUser(p.users, c.parameters[1])
                      /\ me = GetUser(p.users, p.id)
  BY Zenon
<1>2. PICK q : q = PrivateHears(p, sender, c)
  OBVIOUS
<1>3. CASE c.command = "GET" /\ me # 0
  <2>1. PICK a : a = ToUser(sender, Details(p, p.users[me].name, p.users[me].status))
    OBVIOUS
  <2>2. q = Writes(p, <<a>>)
    BY <1>1, <1>2, <1>3, <2>1, Zenon DEF PrivateHears
  <2>3. AnswersOK(<<a>>)
    BY <2>1, ReplyEach, AnswersFew
  <2> QED BY <1>2, <2>2, <2>3, WritesKeeps, KeepsItself, KeepsGoesOn
<1>4. CASE c.command = "MY" /\ s # 0
  <2>1. PICK a, b : a = c.parameters[1] /\ b = c.parameters[2]
    BY Zenon
  <2>2. PICK r : r = [p EXCEPT !.users[s].name = a, !.users[s].status = b]
    OBVIOUS
  <2>3. q = Advertise(r, p.hosted)
    BY <1>1, <1>2, <1>4, <2>1, <2>2, Zenon DEF PrivateHears
  <2>4. Alike(p, r) /\ r.state = p.state
    BY <2>2 DEF Alike, PageOK, Fields
  <2>5. Keeps(p, q)
    BY <2>3, <2>4, AlikeKeeps
  <2> QED BY <1>2, <2>5, KeepsGoesOn
<1>5. CASE c.command = "READY" /\ i # 0
  <2>1. PICK r : r = [p EXCEPT !.users[i].status = "ready"]
    OBVIOUS
  <2>2. q = CheckAllReady(r)
    BY <1>1, <1>2, <1>5, <2>1, Zenon DEF PrivateHears
  <2>3. Alike(p, r) /\ r.state = p.state
    BY <2>1 DEF Alike, PageOK, Fields
  <2>4. PageOK(r) /\ Keeps(p, r)
    BY <2>3, AlikeKeeps
  <2>5. Keeps(r, q)
    BY <2>2, <2>4, CheckAllReadyKeeps
  <2>6. Keeps(p, q)
    BY <2>4, <2>5, KeepsFollow
  <2> QED BY <1>2, <2>6, KeepsGoesOn
<1>6. CASE c.command = "NOT_READY" /\ i # 0
  <2>1. PICK r : r = [p EXCEPT !.users[i].status = "notReady"]
    OBVIOUS
  <2>2. q = r
    BY <1>1, <1>2, <1>6, <2>1, Zenon DEF PrivateHears
  <2>3. Alike(p, r) /\ r.state = p.state
    BY <2>1 DEF Alike, PageOK, Fields
  <2>4. Keeps(p, q)
    BY <2>2, <2>3, AlikeKeeps
  <2> QED BY <1>2, <2>4, KeepsGoesOn
<1>7. CASE c.command = "STARTING"
  <2>1. q = NewCompleted(p)
    BY <1>1, <1>2, <1>7, Zenon DEF PrivateHears
  <2> QED BY <1>2, <2>1, NewCompletedGoesOn
<1>8. CASE /\ ~(c.command = "GET" /\ me # 0) /\ ~(c.command = "MY" /\ s # 0)
           /\ ~(c.command = "READY" /\ i # 0) /\ ~(c.command = "NOT_READY" /\ i # 0)
           /\ c.command # "STARTING"
  <2>1. q = p
    BY <1>1, <1>2, <1>8, Zenon DEF PrivateHears
  <2> QED BY <1>2, <2>1, KeepsItself, KeepsGoesOn
<1> QED BY <1>3, <1>4, <1>5, <1>6, <1>7, <1>8, Zenon

LEMMA PrivateLoadsGoesOn ==
    ASSUME NEW p, PageOK(p), NEW m
    PROVE  GoesOn(p, PrivateLoads(p, m))
<1>1. PICK q : q = PrivateLoads(p, m)
  OBVIOUS
<1>2. CASE m.name # "realmDetails"
  <2>1. q = p
    BY <1>1, <1>2, Zenon DEF PrivateLoads
  <2> QED BY <1>1, <2>1, KeepsItself, KeepsGoesOn
<1>3. CASE m.name = "realmDetails" /\ m.data = NoData
  <2>1. PICK r : r = [p EXCEPT !.users = <<>>]
    OBVIOUS
  <2>2. q = r
    BY <1>1, <1>3, <2>1, Zenon DEF PrivateLoads
  <2>3. Alike(p, r) /\ r.state = p.state
    BY <2>1, EditKeeps
  <2>4. Keeps(p, q)
    BY <2>2, <2>3, AlikeKeeps
  <2> QED BY <1>1, <2>4, KeepsGoesOn
<1>4. CASE m.name = "realmDetails" /\ m.data # NoData
  <2> DEFINE u == Append([i \in DOMAIN m.data |-> [m.data[i] EXCEPT !.status = "notReady"]],
                         [NewUser(p.id, p.name, FALSE) EXCEPT !.status = "ready"])
  <2>1. q = NewCompleted([p EXCEPT !.users = u, !.summary.count = Len(u)])
    BY <1>1, <1>4, Zenon DEF PrivateLoads
  <2> HIDE DEF u
  <2> QED BY <1>1, <2>1, StartsFrom
<1> QED BY <1>2, <1>3, <1>4, Zenon

-----------------------------------------------------------------------------
(* The handlers of a game that has started. *)
LEMMA CompletedAdvertiseKeeps ==
    ASSUME NEW p, NEW q, PageOK(p), Alike(p, q), q.state = p.state
    PROVE  Keeps(p, CompletedAdvertise(q))
<1>1. PICK host : host = (q.me # <<>> /\ q.me[1].host)
  BY Zenon
<1>2. CompletedAdvertise(q) = Advertise(q, host)
  BY <1>1, Zenon DEF CompletedAdvertise
<1> QED BY <1>2, AlikeKeeps

LEMMA CompletedJoinedKeeps ==
    ASSUME NEW p, PageOK(p), NEW ids, List(ids)
    PROVE  Keeps(p, CompletedJoined(p, ids))
<1>1. PICK u : u = p.pending \o [i \in DOMAIN ids |-> NewUser(ids[i], Unnamed, FALSE)]
  OBVIOUS
<1>2. PICK q : q = [p EXCEPT !.pending = u]
  OBVIOUS
<1>3. PICK c : c = Command("GET", <<>>)
  OBVIOUS
<1>4. PICK w : w = [i \in DOMAIN ids |-> ToUser(ids[i], c)]
  OBVIOUS
<1>5. CompletedJoined(p, ids) = Writes(q, w)
  BY <1>1, <1>2, <1>3, <1>4, Zenon DEF CompletedJoined
<1>6. PageOK(q) /\ Keeps(p, q)
  BY <1>2, EditKeeps, AlikeKeeps
<1>7. AnswersOK(w)
  BY <1>4, AnswersEach
<1> QED BY <1>5, <1>6, <1>7, WritesKeeps

LEMMA CompletedLeftKeeps ==
    ASSUME NEW p, PageOK(p), NEW n
    PROVE  Keeps(p, CompletedLeft(p, n))
<1>1. PICK i, u : i = GetUser(p.pending, n) /\ u = GetUser(p.users, n)
  BY Zenon
<1>2. PICK q : q = CompletedLeft(p, n)
  OBVIOUS
<1>3. CASE i # 0
  <2>1. PICK w : w = SplicedFrom(p.pending, i)
    OBVIOUS
  <2>2. PICK r : r = [p EXCEPT !.pending = w]
    OBVIOUS
  <2>3. q = r
    BY <1>1, <1>2, <1>3, <2>1, <2>2, Zenon DEF CompletedLeft
  <2>4. Keeps(p, r)
    BY <2>2, EditKeeps, AlikeKeeps
  <2> QED BY <1>2, <2>3, <2>4
<1>4. CASE i = 0 /\ u # 0
  <2>1. PICK w : w = RemoveAt(p.users, u)
    OBVIOUS
  <2>2. PICK r : r = [p EXCEPT !.users = w]
    OBVIOUS
  <2>3. q = CompletedAdvertise(r)
    BY <1>1, <1>2, <1>4, <2>1, <2>2, Zenon DEF CompletedLeft
  <2>4. Alike(p, r) /\ r.state = p.state
    BY <2>2, EditKeeps
  <2> QED BY <1>2, <2>3, <2>4, CompletedAdvertiseKeeps
<1>5. CASE i = 0 /\ u = 0
  <2>1. q = p
    BY <1>1, <1>2, <1>5, Zenon DEF CompletedLeft
  <2> QED BY <1>2, <2>1, KeepsItself
<1> QED BY <1>3, <1>4, <1>5

LEMMA CompletedHearsKeeps ==
    ASSUME NEW p, PageOK(p), NEW sender, NEW c
    PROVE  Keeps(p, CompletedHears(p, sender, c))
<1>1. PICK i : i = GetUser(p.pending, sender)
  BY Zenon
<1>2. PICK q : q = CompletedHears(p, sender, c)
  OBVIOUS
<1>3. CASE c.command = "GET" /\ p.me # <<>>
  <2>1. PICK a : a = ToUser(sender, Details(p, p.me[1].name, "ready"))
    OBVIOUS
  <2>2. q = Writes(p, <<a>>)
    BY <1>1, <1>2, <1>3, <2>1, Zenon DEF CompletedHears
  <2>3. AnswersOK(<<a>>)
    BY <2>1, ReplyEach, AnswersFew
  <2> QED BY <1>2, <2>2, <2>3, WritesKeeps, KeepsItself
<1>4. CASE c.command = "MY" /\ i # 0
  <2> DEFINE w == SplicedFrom(p.pending, i)
             u == Append(p.users, [p.pending[i] EXCEPT !.name = c.parameters[1],
                                                       !.status = "ready"])
             r == [p EXCEPT !.pending = w, !.users = u]
  <2>1. q = CompletedAdvertise(r)
    BY <1>1, <1>2, <1>4, Zenon DEF CompletedHears
  <2> HIDE DEF w, u
  <2>2. Alike(p, r) /\ r.state = p.state
    BY DEF Alike, PageOK, Fields
  <2> HIDE DEF r
  <2> QED BY <1>2, <2>1, <2>2, CompletedAdvertiseKeeps
<1>5. CASE ~(c.command = "GET" /\ p.me # <<>>) /\ ~(c.command = "MY" /\ i # 0)
  <2>1. q = p
    BY <1>1, <1>2, <1>5, Zenon DEF CompletedHears
  <2> QED BY <1>2, <2>1, KeepsItself
<1> QED BY <1>3, <1>4, <1>5, Zenon

-----------------------------------------------------------------------------
(* The list of realms, which only changes in the lobby. *)
Relists(p, q) == PageOK(q) /\ q.state = p.state /\ q.count = p.count /\ q.out = p.out

LEMMA RelistsItself ==
    ASSUME NEW p, PageOK(p)
    PROVE  Relists(p, p)
BY DEF Relists

LEMMA RealmsChanged ==
    ASSUME NEW p, PageOK(p), NEW l, SummariesOK(l)
    PROVE  Relists(p, [p EXCEPT !.realms = l])
<1>1. PICK q : q = [p EXCEPT !.realms = l]
  OBVIOUS
<1>2. /\ DOMAIN q = Fields /\ q.state = p.state /\ q.count = p.count /\ q.realms = l
      /\ q.timers = p.timers /\ q.out = p.out
  BY <1>1 DEF PageOK, Fields
<1>3. PageOK(q)
  BY <1>2 DEF PageOK
<1> QED BY <1>1, <1>2, <1>3 DEF Relists

LEMMA GetRealmIsPlace ==
    ASSUME NEW p, List(p.realms), NEW n
    PROVE  /\ GetRealm(p, n) \in 0 .. Len(p.realms)
           /\ GetRealm(p, n) > 0 => p.realms[GetRealm(p, n)].number = n
<1>1. PICK l, k : l = p.realms /\ k = Len(l) /\ k \in Nat
  BY ListPlaces
<1> DEFINE Found(i) == /\ i > 0 => l[i].number = n
                       /\ \A j \in i + 1 .. k : l[j].number # n
           s == {j \in 1 .. k : l[j].number = n}
<1>2. \E i \in 0 .. k : Found(i)
  <2>1. CASE s = {}
    <3>1. Found(0)
      <4>1. \A j \in 0 + 1 .. k : j \in 1 .. k
        OBVIOUS
      <4> QED BY <2>1, <4>1
    <3>2. 0 \in 0 .. k
      BY <1>1
    <3> QED BY <3>1, <3>2
  <2>2. CASE s # {}
    <3>1. s \in SUBSET (1 .. k)
      OBVIOUS
    <3>2. Max(s) \in s /\ \A y \in s : y <= Max(s)
      <4> HIDE DEF s
      <4> QED BY <1>1, <2>2, <3>1, MaxOfPlaces
    <3>3. PICK i \in 1 .. k : i = Max(s) /\ l[i].number = n
      BY <3>2
    <3>4. ASSUME NEW j \in i + 1 .. k
          PROVE  l[j].number # n
      <4>1. j \in 1 .. k /\ ~(j <= i)
        BY <1>1, <3>3
      <4>2. j \notin s
        BY <3>2, <3>3, <4>1
      <4> QED BY <4>1, <4>2
    <3>5. Found(i)
      BY <3>3, <3>4
    <3>6. i \in 0 .. k
      BY <3>3
    <3> QED BY <3>5, <3>6
  <2> QED BY <2>1, <2>2
<1>3. GetRealm(p, n) = CHOOSE i \in 0 .. k : Found(i)
  BY <1>1, Zenon DEF GetRealm
<1>4. GetRealm(p, n) \in 0 .. k /\ Found(GetRealm(p, n))
  <2> HIDE DEF Found
  <2> QED BY <1>2, <1>3, Zenon
<1> QED BY <1>1, <1>4

LEMMA RemoveRealmRelists ==
    ASSUME NEW p, PageOK(p), NEW n
    PROVE  Relists(p, RemoveRealm(p, n)) /\ RemoveRealm(p, n).timers = p.timers
<1>1. PICK i, l : i = GetRealm(p, n) /\ l = p.realms
  OBVIOUS
<1>2. PICK k \in Nat : k = Len(l) /\ List(l) /\ \A j \in 1 .. k : SummaryOK(l[j])
  BY <1>1, ListPlaces DEF PageOK, SummariesOK
<1>3. i \in 0 .. k
  BY <1>1, <1>2, GetRealmIsPlace
<1>4. CASE i = 0
  <2>1. RemoveRealm(p, n) = p
    BY <1>1, <1>4, Zenon DEF RemoveRealm
  <2> QED BY <2>1, RelistsItself
<1>5. CASE i # 0
  <2>1. PICK r : r = RemoveAt(l, i)
    OBVIOUS
  <2>2. RemoveRealm(p, n) = [p EXCEPT !.realms = r]
    BY <1>1, <1>5, <2>1, Zenon DEF RemoveRealm
  <2>3. i \in 1 .. k
    BY <1>3, <1>5
  <2>4. /\ List(r) /\ Len(r) = k - 1
        /\ \A j \in 1 .. k - 1 : r[j] = IF j < i THEN l[j] ELSE l[j + 1]
    BY <1>2, <2>1, <2>3, ListRemoveAt
  <2>5. ASSUME NEW j \in 1 .. k - 1
        PROVE  SummaryOK(r[j])
    <3>1. j \in 1 .. k /\ j + 1 \in 1 .. k
      OBVIOUS
    <3> QED BY <1>2, <2>4, <3>1
  <2>6. SummariesOK(r)
    BY <2>4, <2>5 DEF SummariesOK
  <2>7. [p EXCEPT !.realms = r].timers = p.timers
    BY DEF PageOK, Fields
  <2> QED BY <2>2, <2>6, <2>7, RealmsChanged
<1> QED BY <1>4, <1>5

LEMMA RealmEdited ==
    ASSUME NEW p, PageOK(p), NEW i \in 1 .. Len(p.realms), NEW v
    PROVE  /\ Relists(p, [p EXCEPT !.realms[i].count = v])
           /\ [p EXCEPT !.realms[i].count = v].timers = p.timers
           /\ Relists(p, [p EXCEPT !.realms[i].running = v])
           /\ [p EXCEPT !.realms[i].running = v].timers = p.timers
<1>1. PICK l, k : /\ l = p.realms /\ k \in Nat /\ k = Len(l) /\ l \in Seq(ToSet(l))
                  /\ \A j \in 1 .. k : SummaryOK(l[j])
  BY ListPlaces DEF PageOK, SummariesOK, List
<1>2. ASSUME NEW s, SummaryOK(s), NEW r, r = [l EXCEPT ![i] = s]
      PROVE  SummariesOK(r)
  <2>1. /\ r \in Seq(ToSet(l) \cup {s}) /\ Len(r) = k
        /\ \A j \in 1 .. k : r[j] = IF j = i THEN s ELSE l[j]
    <3>1. ToSet(l) \subseteq ToSet(l) \cup {s}
      OBVIOUS
    <3>2. l \in Seq(ToSet(l) \cup {s})
      BY <1>1, <3>1, SeqMonotonic
    <3>3. DOMAIN l = 1 .. k
      BY <1>1
    <3>4. \A j \in 1 .. k : r[j] = IF j = i THEN s ELSE l[j]
      BY <1>1, <1>2, <3>3
    <3>5. r \in Seq(ToSet(l) \cup {s}) /\ Len(r) = k
      BY <1>1, <1>2, <3>2, <3>3
    <3> QED BY <3>4, <3>5
  <2>2. List(r)
    BY <2>1, ListOf
  <2>3. \A j \in 1 .. k : SummaryOK(r[j])
    BY <1>1, <1>2, <2>1
  <2> QED BY <2>1, <2>2, <2>3 DEF SummariesOK
<1>3. i \in 1 .. k /\ SummaryOK(l[i])
  BY <1>1
<1>4. PICK s, t : s = [l[i] EXCEPT !.count = v] /\ t = [l[i] EXCEPT !.running = v]
  OBVIOUS
<1>5. SummaryOK(s) /\ SummaryOK(t)
  BY <1>3, <1>4 DEF SummaryOK
<1>6. PICK r, u : r = [l EXCEPT ![i] = s] /\ u = [l EXCEPT ![i] = t]
  OBVIOUS
<1>7. SummariesOK(r) /\ SummariesOK(u)
  BY <1>2, <1>5, <1>6
<1>8. /\ [p EXCEPT !.realms[i].count = v] = [p EXCEPT !.realms = r]
      /\ [p EXCEPT !.realms[i].running = v] = [p EXCEPT !.realms = u]
  BY <1>1, <1>4, <1>6
<1>9. /\ [p EXCEPT !.realms = r].timers = p.timers
      /\ [p EXCEPT !.realms = u].timers = p.timers
  BY DEF PageOK, Fields
<1> QED BY <1>7, <1>8, <1>9, RealmsChanged

LEMMA SelectHearsRelists ==
    ASSUME NEW p, PageOK(p), NEW c
    PROVE  Relists(p, SelectHears(p, c))
<1>1. PICK n, i, q : n = c.parameters[1] /\ i = GetRealm(p, n) /\ q = SelectHears(p, c)
  OBVIOUS
<1>2. i # 0 => i \in 1 .. Len(p.realms)
  <2>1. i \in 0 .. Len(p.realms) /\ Len(p.realms) \in Nat
    BY <1>1, GetRealmIsPlace, ListPlaces DEF PageOK, SummariesOK
  <2> QED BY <2>1
<1>3. CASE c.command = "USER_COUNT" /\ i # 0
  <2>1. PICK v : v = c.parameters[2]
    OBVIOUS
  <2>2. q = [p EXCEPT !.realms[i].count = v]
    BY <1>1, <1>3, <2>1, Zenon DEF SelectHears
  <2>3. i \in 1 .. Len(p.realms)
    BY <1>2, <1>3
  <2>4. Relists(p, [p EXCEPT !.realms[i].count = v])
    BY <2>3, RealmEdited, Zenon
  <2> QED BY <1>1, <2>2, <2>4, Zenon
<1>4. CASE /\ c.command = "STARTING" /\ c.parameters # <<>> /\ i # 0
           /\ task.realmVisibility = "setupOnly"
  <2>1. q = RemoveRealm(p, n)
    BY <1>1, <1>4, Zenon DEF SelectHears
  <2> QED BY <1>1, <2>1, RemoveRealmRelists
<1>5. CASE /\ c.command = "STARTING" /\ c.parameters # <<>> /\ i # 0
           /\ task.realmVisibility # "setupOnly"
  <2>1. PICK v : v = TRUE
    OBVIOUS
  <2>2. q = [p EXCEPT !.realms[i].running = v]
    BY <1>1, <1>5, <2>1, Zenon DEF SelectHears
  <2>3. i \in 1 .. Len(p.realms)
    BY <1>2, <1>5
  <2>4. Relists(p, [p EXCEPT !.realms[i].running = v])
    BY <2>3, RealmEdited, Zenon
  <2> QED BY <1>1, <2>2, <2>4, Zenon
<1>6. CASE /\ ~(c.command = "USER_COUNT" /\ i # 0)
           /\ ~(c.command = "STARTING" /\ c.parameters # <<>> /\ i # 0)
  <2>1. q = p
    BY <1>1, <1>6, Zenon DEF SelectHears
  <2> QED BY <1>1, <2>1, RelistsItself
<1> QED BY <1>3, <1>4, <1>5, <1>6, Zenon

LEMMA SelectLoadsRelists ==
    ASSUME NEW p, PageOK(p), NEW m, m.realm \in RealmNumber
    PROVE  Relists(p, SelectLoads(p, m))
<1>1. PICK s, l : s = FromJson(m.realm, m.data) /\ l = Append(p.realms, s)
  OBVIOUS
<1>2. SummaryOK(s)
  BY <1>1 DEF FromJson, SummaryOK
<1>3. PICK k \in Nat : k = Len(p.realms) /\ List(p.realms)
  BY ListPlaces DEF PageOK, SummariesOK
<1>4. /\ List(l) /\ Len(l) = k + 1 /\ \A i \in 1 .. k : l[i] = p.realms[i]
      /\ l[k + 1] = s
  BY <1>1, <1>3, ListAppend
<1>5. \A i \in 1 .. k + 1 : i \in 1 .. k \/ i = k + 1
  BY <1>3
<1>6. SummariesOK(l)
  BY <1>2, <1>3, <1>4, <1>5 DEF SummariesOK, PageOK
<1>7. Relists(p, [p EXCEPT !.realms = l])
  BY <1>6, RealmsChanged
<1>8. SelectLoads(p, m) \in {p, [p EXCEPT !.realms = l]}
  BY <1>1, Zenon DEF SelectLoads
<1> QED BY <1>7, <1>8, RelistsItself

-----------------------------------------------------------------------------
(***************************************************************************)
(* The frames that say nothing of the page's own place: what each does to  *)
(* a page in the state it is in.  delta is what it says of the number of   *)
(* users.                                                                  *)
(***************************************************************************)
Opens(m) == m.symbol = "{"
Ordinary(m) ==
    /\ m.symbol # "closed" /\ m.symbol # "#" /\ m.symbol # "^" /\ m.symbol # "&"
    /\ m.symbol = "=" => List(m.numbers)
    /\ Opens(m) => m.number \in RealmNumber
    /\ m.symbol = "<" => m.realm \in RealmNumber

Delta(m) == CASE m.symbol = "=" -> Len(m.numbers)
              [] m.symbol = "+" -> 1
              [] m.symbol = "-" -> -1
              [] OTHER -> 0

InGame == {"private", "completed"}
Hears(p, q, delta) ==
    /\ PageOK(q)
    /\ q.state = p.state \/ (p.state = "private" /\ q.state = "completed")
    /\ p.state = "select" => q.count = p.count + delta
    /\ p.state = "connecting" => q.timers = p.timers
    /\ Answers(p, q)
    /\ p.state \notin InGame => q.out = p.out

LEMMA HearsItself ==
    ASSUME NEW p, PageOK(p)
    PROVE  Hears(p, p, 0)
<1>1. Answers(p, p)
  BY AnswerNothing
<1> QED BY <1>1 DEF Hears, PageOK

LEMMA HearsFollow ==
    ASSUME NEW p, NEW q, NEW r, NEW a \in Int, NEW b \in Int, PageOK(p),
           Hears(p, q, a), Hears(q, r, b)
    PROVE  Hears(p, r, a + b)
<1>1. Answers(p, r)
  BY AnswersFollow DEF Hears
<1>2. p.count \in Int
  BY DEF PageOK
<1> QED BY <1>1, <1>2 DEF Hears, InGame

LEMMA DeltaIsInt ==
    ASSUME NEW m, Ordinary(m)
    PROVE  Delta(m) \in Int
<1>1. m.symbol = "=" => Len(m.numbers) \in Nat
  BY ListPlaces DEF Ordinary
<1> QED BY <1>1 DEF Delta

LEMMA GoesOnHears ==
    ASSUME NEW p, PageOK(p), NEW q, NEW delta,
           \/ p.state = "private" /\ GoesOn(p, q)
           \/ p.state = "completed" /\ Keeps(p, q)
    PROVE  Hears(p, q, delta)
BY DEF Hears, GoesOn, Keeps, Talks, InGame

(* What the list of realms and the timers are about. *)
LEMMA RelistsHears ==
    ASSUME NEW p, PageOK(p), p.state = "select", NEW q, Relists(p, q)
    PROVE  Hears(p, q, 0)
<1>1. Answers(p, q)
  BY AnswerNothing DEF Relists
<1> QED BY <1>1 DEF Hears, Relists, PageOK, InGame

LEMMA SelectCounts ==
    ASSUME NEW p, PageOK(p), p.state = "select", NEW delta \in Int, NEW c,
           c = p.count + delta
    PROVE  /\ Hears(p, [p EXCEPT !.count = c], delta)
           /\ \A a : Hears(p, [p EXCEPT !.count = c, !.alone = a], delta)
<1>1. ASSUME NEW q, DOMAIN q = Fields, q.state = p.state, q.count = c,
             q.realms = p.realms, q.timers = p.timers, q.out = p.out
      PROVE  Hears(p, q, delta)
  <2>1. PageOK(q)
    BY <1>1 DEF PageOK
  <2>2. Answers(p, q)
    BY <1>1, AnswerNothing
  <2> QED BY <1>1, <2>1, <2>2 DEF Hears, InGame
<1>2. PICK q : q = [p EXCEPT !.count = c]
  OBVIOUS
<1>3. /\ DOMAIN q = Fields /\ q.state = p.state /\ q.count = c /\ q.realms = p.realms
      /\ q.timers = p.timers /\ q.out = p.out
  BY <1>2 DEF PageOK, Fields
<1>4. ASSUME NEW a, NEW r, r = [p EXCEPT !.count = c, !.alone = a]
      PROVE  Hears(p, r, delta)
  <2>1. /\ DOMAIN r = Fields /\ r.state = p.state /\ r.count = c /\ r.realms = p.realms
        /\ r.timers = p.timers /\ r.out = p.out
    BY <1>4 DEF PageOK, Fields
  <2> QED BY <1>1, <2>1
<1> QED BY <1>1, <1>2, <1>3, <1>4, Zenon

LEMMA TimerHears ==
    ASSUME NEW p, PageOK(p), p.state = "select", NEW n \in RealmNumber
    PROVE  Hears(p, [p EXCEPT !.timers = Append(@, n)], 0)
<1>1. PICK l : l = Append(p.timers, n)
  OBVIOUS
<1>2. PICK q : q = [p EXCEPT !.timers = l]
  OBVIOUS
<1>3. PICK k \in Nat : k = Len(p.timers) /\ List(p.timers)
  BY ListPlaces DEF PageOK, TimersOK
<1>4. /\ List(l) /\ Len(l) = k + 1 /\ \A i \in 1 .. k : l[i] = p.timers[i]
      /\ l[k + 1] = n
  BY <1>1, <1>3, ListAppend
<1>5. \A i \in 1 .. k + 1 : i \in 1 .. k \/ i = k + 1
  BY <1>3
<1>6. TimersOK(l)
  BY <1>3, <1>4, <1>5 DEF TimersOK, PageOK
<1>7. /\ DOMAIN q = Fields /\ q.state = p.state /\ q.count = p.count
      /\ q.realms = p.realms /\ q.timers = l /\ q.out = p.out
  BY <1>2 DEF PageOK, Fields
<1>8. PageOK(q)
  BY <1>6, <1>7 DEF PageOK
<1>9. Relists(p, q)
  BY <1>7, <1>8 DEF Relists
<1> QED BY <1>1, <1>2, <1>9, RelistsHears

LEMMA InSelectHears ==
    ASSUME NEW p, PageOK(p), p.state = "select", NEW m, Ordinary(m)
    PROVE  Hears(p, InSelect(p, m), Delta(m))
<1>1. PICK symbol, q, delta : symbol = m.symbol /\ q = InSelect(p, m) /\ delta = Delta(m)
  OBVIOUS
<1>2. CASE symbol = "="
  <2>1. PICK a, c : a = FALSE /\ c = p.count + delta
    OBVIOUS
  <2>2. delta = Len(m.numbers) /\ delta \in Int
    <3>1. delta = Len(m.numbers)
      BY <1>1, <1>2 DEF Delta
    <3> QED BY <1>1, <3>1, DeltaIsInt
  <2>3. q = [p EXCEPT !.count = c, !.alone = a]
    BY <1>1, <1>2, <2>1, <2>2, Zenon DEF InSelect
  <2>4. c = p.count + delta
    BY <2>1
  <2>5. Hears(p, [p EXCEPT !.count = c, !.alone = a], delta)
    BY <2>2, <2>4, SelectCounts, Zenon
  <2> QED BY <1>1, <2>3, <2>5, Zenon
<1>3. CASE symbol = "+"
  <2>1. PICK c : c = p.count + 1
    OBVIOUS
  <2>2. q = [p EXCEPT !.count = c]
    BY <1>1, <1>3, <2>1, Zenon DEF InSelect
  <2>3. delta = 1
    BY <1>1, <1>3 DEF Delta
  <2>4. c = p.count + delta /\ delta \in Int
    BY <2>1, <2>3
  <2>5. Hears(p, [p EXCEPT !.count = c], delta)
    BY <2>4, SelectCounts, Zenon
  <2> QED BY <1>1, <2>2, <2>5, Zenon
<1>4. CASE symbol = "-"
  <2>1. PICK c : c = p.count - 1
    OBVIOUS
  <2>2. q = [p EXCEPT !.count = c]
    BY <1>1, <1>4, <2>1, Zenon DEF InSelect
  <2>3. delta = -1
    BY <1>1, <1>4 DEF Delta
  <2>4. c = p.count + delta /\ delta \in Int
    BY <2>1, <2>3 DEF PageOK
  <2>5. Hears(p, [p EXCEPT !.count = c], delta)
    BY <2>4, SelectCounts, Zenon
  <2> QED BY <1>1, <2>2, <2>5, Zenon
<1>5. CASE Opens(m)
  <2>1. q = [p EXCEPT !.timers = Append(@, m.number)]
    BY <1>1, <1>5, Zenon DEF InSelect, Opens
  <2>2. delta = 0
    BY <1>1, <1>5, Zenon DEF Opens, Delta
  <2>3. m.number \in RealmNumber
    BY <1>5 DEF Ordinary
  <2>4. Hears(p, [p EXCEPT !.timers = Append(@, m.number)], 0)
    BY <2>3, TimerHears, Zenon
  <2> QED BY <1>1, <2>1, <2>2, <2>4, Zenon
<1>6. CASE /\ symbol # "=" /\ symbol # "+" /\ symbol # "-" /\ ~Opens(m)
  <2>1. delta = 0
    BY <1>1, <1>6 DEF Delta
  <2>2. Relists(p, RemoveRealm(p, m.number)) /\ Relists(p, SelectHears(p, m.text))
    BY RemoveRealmRelists, SelectHearsRelists
  <2>3. symbol = "<" => Relists(p, SelectLoads(p, m))
    BY <1>1, SelectLoadsRelists DEF Ordinary
  <2>4. \/ q = RemoveRealm(p, m.number)
        \/ q = SelectHears(p, m.text)
        \/ symbol = "<" /\ q = SelectLoads(p, m)
        \/ q = p
    BY <1>1, <1>6, Zenon DEF InSelect, Ordinary, Opens
  <2>5. Relists(p, q)
    BY <2>2, <2>3, <2>4, RelistsItself
  <2> QED BY <1>1, <2>1, <2>5, RelistsHears, Zenon
<1> QED BY <1>2, <1>3, <1>4, <1>5, <1>6

LEMMA InPrivateHears ==
    ASSUME NEW p, PageOK(p), p.state = "private", NEW m, Ordinary(m)
    PROVE  Hears(p, InPrivate(p, m), Delta(m))
<1>1. PICK symbol, q : symbol = m.symbol /\ q = InPrivate(p, m)
  OBVIOUS
<1>2. /\ GoesOn(p, UserLeft(p, m.number)) /\ GoesOn(p, PrivateHears(p, m.number, m.text))
      /\ GoesOn(p, PrivateLoads(p, m)) /\ GoesOn(p, p)
  BY UserLeftKeeps, PrivateHearsGoesOn, PrivateLoadsGoesOn, KeepsItself, KeepsGoesOn
<1>3. PICK one : one = <<m.number>>
  OBVIOUS
<1>4. \A b : GoesOn(p, UsersJoined(p, one, b))
  BY <1>3, SmallLists, UsersJoinedKeeps, KeepsGoesOn
<1>5. symbol = "=" => \A b : GoesOn(p, UsersJoined(p, m.numbers, b))
  BY <1>1, UsersJoinedKeeps, KeepsGoesOn DEF Ordinary
<1>6. \/ \E b : symbol = "=" /\ q = UsersJoined(p, m.numbers, b)
      \/ \E b : q = UsersJoined(p, one, b)
      \/ q = UserLeft(p, m.number)
      \/ q = PrivateHears(p, m.number, m.text)
      \/ q = PrivateLoads(p, m)
      \/ q = p
  BY <1>1, <1>3, Zenon DEF InPrivate, Ordinary
<1>7. GoesOn(p, q)
  BY <1>2, <1>4, <1>5, <1>6, Zenon
<1> QED BY <1>1, <1>7, GoesOnHears

LEMMA InCompletedHears ==
    ASSUME NEW p, PageOK(p), p.state = "completed", NEW m, Ordinary(m)
    PROVE  Hears(p, InCompleted(p, m), Delta(m))
<1>1. PICK symbol, q : symbol = m.symbol /\ q = InCompleted(p, m)
  OBVIOUS
<1>2. /\ Keeps(p, CompletedLeft(p, m.number)) /\ Keeps(p, p)
      /\ Keeps(p, CompletedHears(p, m.number, m.text))
  BY CompletedLeftKeeps, CompletedHearsKeeps, KeepsItself
<1>3. PICK one : one = <<m.number>>
  OBVIOUS
<1>4. Keeps(p, CompletedJoined(p, one))
  BY <1>3, SmallLists, CompletedJoinedKeeps
<1>5. symbol = "=" => Keeps(p, CompletedJoined(p, m.numbers))
  BY <1>1, CompletedJoinedKeeps DEF Ordinary
<1>6. \/ symbol = "=" /\ q = CompletedJoined(p, m.numbers)
      \/ q = CompletedJoined(p, one)
      \/ q = CompletedLeft(p, m.number)
      \/ q = CompletedHears(p, m.number, m.text)
      \/ q = p
  BY <1>1, <1>3, Zenon DEF InCompleted, Ordinary
<1>7. Keeps(p, q)
  BY <1>2, <1>4, <1>5, <1>6, Zenon
<1> QED BY <1>1, <1>7, GoesOnHears

LEMMA HandledHears ==
    ASSUME NEW p, PageOK(p), NEW m, Ordinary(m)
    PROVE  Hears(p, Handled(p, m), Delta(m))
<1>1. Noted(p, m) = p
  BY Zenon DEF Noted, Ordinary
<1>2. CASE p.state = "select"
  BY <1>1, <1>2, InSelectHears, Zenon DEF Handled
<1>3. CASE p.state = "private"
  BY <1>1, <1>3, InPrivateHears, Zenon DEF Handled
<1>4. CASE p.state = "completed"
  BY <1>1, <1>4, InCompletedHears, Zenon DEF Handled
<1>5. CASE p.state \notin {"select", "private", "completed"}
  <2>1. Handled(p, m) = p
    BY <1>1, <1>5, Zenon DEF Handled, InConnecting, InCreate, Ordinary
  <2>2. Answers(p, p)
    BY AnswerNothing
  <2> QED BY <1>5, <2>1, <2>2 DEF Hears
<1> QED BY <1>2, <1>3, <1>4, <1>5

-----------------------------------------------------------------------------
(***************************************************************************)
(* Frames one after the other.  What a list of frames tells of the number  *)
(* of users is the same for every page.                                    *)
(***************************************************************************)
HandledNext(p, m, c) == Handled(p, m)
RenewedNext(p, m, c) == Renewed(p, m)
HearsSo(q, i, p) == Hears(p, q, 0)

Reads == INSTANCE FoldLemmas WITH Step <- HandledNext, Good <- HearsSo
Renews == INSTANCE FoldLemmas WITH Step <- RenewedNext, Good <- HearsSo

ReadBy(p, ms) == Reads!Fold(p, ms, 0)

Tells(ms, delta) ==
    /\ List(ms) /\ delta \in Int
    /\ \A i \in 1 .. Len(ms) : Ordinary(ms[i])
    /\ \A p : PageOK(p) => Hears(p, ReadBy(p, ms), delta)

LEMMA ReadByFolds ==
    /\ \A p, ms : ReadBy(p, ms) = FoldLeft(Handled, p, ms)
    /\ \A p, ms : Renews!Fold(p, ms, 0) = FoldLeft(Renewed, p, ms)
<1>1. \A p, ms : ReadBy(p, ms) = FoldLeft(Handled, p, ms)
  BY Zenon DEF ReadBy, Reads!Fold, HandledNext, FoldLeft, Reads!FoldLeft, MapThenFoldSet,
     Reads!MapThenFoldSet, Max, Reads!Max
<1>2. \A p, ms : Renews!Fold(p, ms, 0) = FoldLeft(Renewed, p, ms)
  BY Zenon DEF Renews!Fold, RenewedNext, FoldLeft, Renews!FoldLeft, MapThenFoldSet,
     Renews!MapThenFoldSet, Max, Renews!Max
<1> QED BY <1>1, <1>2

(* Only onclose tells the two handlers apart. *)
LEMMA RenewedReads ==
    ASSUME NEW p, NEW ms, List(ms), \A i \in 1 .. Len(ms) : Ordinary(ms[i])
    PROVE  Renews!Fold(p, ms, 0) = ReadBy(p, ms)
<1>1. PICK S : ms \in Seq(S)
  BY DEF List
<1>2. PICK h : Reads!Runs(h, p, ms, 0) /\ Reads!Fold(p, ms, 0) = h[Len(ms)]
  BY <1>1, Reads!FoldRuns
<1>3. ASSUME NEW i \in 1 .. Len(ms)
      PROVE  h[i] = RenewedNext(h[i - 1], ms[i], 0)
  <2>1. h[i] = HandledNext(h[i - 1], ms[i], 0)
    BY <1>2, Zenon DEF Reads!Runs
  <2>2. PICK q, m : q = h[i - 1] /\ m = ms[i]
    OBVIOUS
  <2>3. m # Closed
    <3>1. m.symbol # "closed"
      BY <2>2 DEF Ordinary
    <3> QED BY <3>1 DEF Closed
  <2> QED BY <2>1, <2>2, <2>3, Zenon DEF HandledNext, RenewedNext, Renewed
<1>4. Renews!Runs(h, p, ms, 0)
  BY <1>2, <1>3, Zenon DEF Reads!Runs, Renews!Runs
<1>5. Renews!Fold(p, ms, 0) = h[Len(ms)]
  BY <1>1, <1>4, Renews!FoldAtEnd
<1> QED BY <1>2, <1>5 DEF ReadBy

LEMMA ReadsConcat ==
    ASSUME NEW p, NEW s, NEW t, List(s), List(t)
    PROVE  ReadBy(p, s \o t) = ReadBy(ReadBy(p, s), t)
<1>1. Reads!Fold(p, s \o t, 0) = Reads!Fold(Reads!Fold(p, s, 0), t, 0)
  BY Reads!FoldConcat DEF List, Reads!List, ToSet, Reads!ToSet
<1> QED BY <1>1, Zenon DEF ReadBy

LEMMA ReadsFew ==
    /\ \A p : ReadBy(p, <<>>) = p
    /\ \A p, m : ReadBy(p, <<m>>) = Handled(p, m)
<1>1. \A p : ReadBy(p, <<>>) = p
  BY Reads!FoldNothing DEF ReadBy
<1>2. \A p, m : ReadBy(p, <<m>>) = Handled(p, m)
  <2>1. \A p, m : Reads!Fold(p, <<m>>, 0) = HandledNext(p, m, 0)
    BY Reads!FoldOne
  <2> QED BY <2>1, Zenon DEF ReadBy, HandledNext
<1> QED BY <1>1, <1>2

LEMMA TellsNothing == Tells(<<>>, 0)
<1>1. \A p : PageOK(p) => Hears(p, ReadBy(p, <<>>), 0)
  BY ReadsFew, HearsItself
<1> QED BY <1>1, SmallLists DEF Tells

LEMMA TellsOne ==
    ASSUME NEW m, Ordinary(m), NEW delta, delta = Delta(m)
    PROVE  Tells(<<m>>, delta)
<1>1. \A p : PageOK(p) => Hears(p, ReadBy(p, <<m>>), delta)
  BY ReadsFew, HandledHears
<1>2. delta \in Int
  BY DeltaIsInt
<1>3. PICK ms : ms = <<m>>
  OBVIOUS
<1>4. List(ms) /\ Len(ms) = 1 /\ ms[1] = m
  BY <1>3, SmallLists
<1> QED BY <1>1, <1>2, <1>3, <1>4 DEF Tells

LEMMA TellsEach ==
    ASSUME NEW ms, List(ms), \A i \in 1 .. Len(ms) : Ordinary(ms[i]) /\ Delta(ms[i]) = 0
    PROVE  Tells(ms, 0)
<1>1. ASSUME NEW p, PageOK(p)
      PROVE  Hears(p, ReadBy(p, ms), 0)
  <2>1. PICK S : ms \in Seq(S)
    BY DEF List
  <2>2. HearsSo(p, 0, p)
    BY <1>1, HearsItself DEF HearsSo
  <2>3. ASSUME NEW i \in 1 .. Len(ms), NEW q, HearsSo(q, i - 1, p)
        PROVE  HearsSo(HandledNext(q, ms[i], 0), i, p)
    <3>1. PICK m : m = ms[i] /\ Ordinary(m) /\ Delta(m) = 0
      OBVIOUS
    <3>2. Hears(p, q, 0) /\ PageOK(q)
      BY <2>3 DEF HearsSo, Hears
    <3>3. Hears(q, Handled(q, m), 0)
      BY <3>1, <3>2, HandledHears
    <3>4. PICK z \in Int : z = 0 /\ z + z = 0
      OBVIOUS
    <3>5. Hears(p, Handled(q, m), z + z)
      BY <1>1, <3>2, <3>3, <3>4, HearsFollow
    <3> QED BY <3>1, <3>4, <3>5 DEF HearsSo, HandledNext
  <2>4. HearsSo(Reads!Fold(p, ms, 0), Len(ms), p)
    <3> HIDE DEF HearsSo
    <3> QED BY <2>1, <2>2, <2>3, Reads!FoldInduction
  <2> QED BY <2>4 DEF HearsSo, ReadBy
<1> QED BY <1>1 DEF Tells

LEMMA TellsConcat ==
    ASSUME NEW s, NEW t, NEW a, NEW b, Tells(s, a), Tells(t, b)
    PROVE  Tells(s \o t, a + b)
<1>1. List(s) /\ List(t) /\ a \in Int /\ b \in Int
  BY DEF Tells
<1>2. PICK m \in Nat, n \in Nat : m = Len(s) /\ n = Len(t)
  BY <1>1, ListPlaces
<1>3. PICK u : u = s \o t
  OBVIOUS
<1>4. /\ List(u) /\ Len(u) = m + n
      /\ \A i \in 1 .. m : u[i] = s[i]
      /\ \A i \in 1 .. n : u[m + i] = t[i]
  BY <1>1, <1>2, <1>3, ListConcat
<1>5. ASSUME NEW i \in 1 .. m + n
      PROVE  Ordinary(u[i])
  <2>1. CASE i \in 1 .. m
    <3>1. Ordinary(s[i])
      BY <1>2, <2>1 DEF Tells
    <3> QED BY <1>4, <2>1, <3>1
  <2>2. CASE i \notin 1 .. m
    <3>1. PICK k \in 1 .. n : m + k = i
      <4>1. i - m \in 1 .. n /\ m + (i - m) = i
        BY <2>2
      <4> QED BY <4>1
    <3>2. Ordinary(t[k])
      BY <1>2 DEF Tells
    <3>3. u[i] = t[k]
      BY <1>4, <3>1
    <3> QED BY <3>2, <3>3
  <2> QED BY <2>1, <2>2
<1>6. ASSUME NEW p, PageOK(p)
      PROVE  Hears(p, ReadBy(p, u), a + b)
  <2>1. PICK q : q = ReadBy(p, s)
    OBVIOUS
  <2>2. Hears(p, q, a) /\ PageOK(q)
    BY <1>6, <2>1 DEF Tells, Hears
  <2>3. Hears(q, ReadBy(q, t), b)
    BY <2>2 DEF Tells
  <2>4. ReadBy(p, u) = ReadBy(q, t)
    BY <1>1, <1>3, <2>1, ReadsConcat
  <2> QED BY <1>1, <1>6, <2>2, <2>3, <2>4, HearsFollow
<1>7. Tells(u, a + b)
  BY <1>1, <1>4, <1>5, <1>6 DEF Tells
<1> QED BY <1>3, <1>7

-----------------------------------------------------------------------------
(* What the server's packets tell. *)
LEMMA NumbersCount ==
    ASSUME NEW P, NEW id, NEW S, NEW s \in Seq(S), IsInjective(s),
           ToSet(s) = {id[y] : y \in P},
           \A x, y \in P : id[x] = id[y] => x = y
    PROVE  IsFiniteSet(P) /\ Cardinality(P) = Len(s)
<1>1. PICK n \in Nat : n = Len(s) /\ DOMAIN s = 1 .. n
  OBVIOUS
<1>2. PICK f : f = [i \in 1 .. n |-> CHOOSE y \in P : id[y] = s[i]]
  OBVIOUS
<1>3. ASSUME NEW i \in 1 .. n
      PROVE  f[i] \in P /\ id[f[i]] = s[i]
  <2>1. s[i] \in ToSet(s)
    BY <1>1 DEF ToSet
  <2>2. \E y \in P : id[y] = s[i]
    BY <2>1
  <2> QED BY <1>2, <2>2
<1>4. ASSUME NEW y \in P
      PROVE  \E i \in 1 .. n : f[i] = y
  <2>1. id[y] \in ToSet(s)
    OBVIOUS
  <2>2. PICK i \in 1 .. n : s[i] = id[y]
    BY <1>1, <2>1 DEF ToSet
  <2> QED BY <1>3, <2>2
<1>5. ASSUME NEW i \in 1 .. n, NEW j \in 1 .. n, f[i] = f[j]
      PROVE  i = j
  <2>1. s[i] = s[j]
    BY <1>3, <1>5
  <2> QED BY <1>1, <2>1 DEF IsInjective
<1>6. f \in Bijection(1 .. n, P)
  <2>1. f \in [1 .. n -> P]
    BY <1>2, <1>3
  <2> QED BY <1>4, <1>5, <2>1 DEF Bijection, Injection, Surjection, IsInjective
<1>7. IsFiniteSet(1 .. n) /\ Cardinality(1 .. n) = n
  BY FS_Interval
<1>8. ExistsBijection(1 .. n, P)
  BY <1>6 DEF ExistsBijection
<1> QED BY <1>1, <1>7, <1>8, FS_Bijection

LEMMA TellsPacket ==
    ASSUME NEW text
    PROVE  /\ Tells(Frames(<<>>, text), 0)
           /\ \A id : Tells(Frames(<<Packet("+", id)>>, text), 1)
           /\ \A id : Tells(Frames(<<Packet("-", id)>>, text), -1)
           /\ \A symbol \in {"@", "!", "*"} : \A id :
                 Tells(Frames(<<Packet(symbol, id)>>, text), 0)
           /\ \A r \in RealmNumber : \A k, d :
                 Tells(Frames(<<DataPacket(r, k, d)>>, text), 0)
<1>1. Tells(Frames(<<>>, text), 0)
  BY FramesFew, TellsNothing
<1>2. ASSUME NEW id
      PROVE  Tells(Frames(<<Packet("+", id)>>, text), 1)
  <2>1. PICK m : m = Packet("+", id)
    OBVIOUS
  <2>2. Frames(<<m>>, text) = <<m>>
    <3>1. Frame(m, text) = <<m>>
      BY <2>1, FrameOf, Zenon
    <3>2. Frames(<<m>>, text) = Frame(m, text)
      BY FramesFew, Zenon
    <3> QED BY <3>1, <3>2
  <2>3. m.symbol = "+"
    BY <2>1 DEF Packet
  <2>4. Ordinary(m)
    BY <2>3, Zenon DEF Ordinary, Opens
  <2>5. PICK delta : delta = 1 /\ delta = Delta(m)
    BY <2>3 DEF Delta
  <2>6. Tells(<<m>>, delta)
    BY <2>4, <2>5, TellsOne
  <2> QED BY <2>1, <2>2, <2>5, <2>6
<1>3. ASSUME NEW id
      PROVE  Tells(Frames(<<Packet("-", id)>>, text), -1)
  <2>1. PICK m : m = Packet("-", id)
    OBVIOUS
  <2>2. Frames(<<m>>, text) = <<m>>
    <3>1. Frame(m, text) = <<m>>
      BY <2>1, FrameOf, Zenon
    <3>2. Frames(<<m>>, text) = Frame(m, text)
      BY FramesFew, Zenon
    <3> QED BY <3>1, <3>2
  <2>3. m.symbol = "-"
    BY <2>1 DEF Packet
  <2>4. Ordinary(m)
    BY <2>3, Zenon DEF Ordinary, Opens
  <2>5. PICK delta : delta = -1 /\ delta = Delta(m)
    BY <2>3 DEF Delta
  <2>6. Tells(<<m>>, delta)
    BY <2>4, <2>5, TellsOne
  <2> QED BY <2>1, <2>2, <2>5, <2>6
<1>4. ASSUME NEW symbol \in {"@", "!", "*"}, NEW id
      PROVE  Tells(Frames(<<Packet(symbol, id)>>, text), 0)
  <2>1. PICK m : m = Said(symbol, id, text)
    OBVIOUS
  <2>2. Frames(<<Packet(symbol, id)>>, text) = <<m>>
    <3>1. Frame(Packet(symbol, id), text) = <<m>>
      BY <2>1, FrameOf, Zenon
    <3>2. Frames(<<Packet(symbol, id)>>, text) = Frame(Packet(symbol, id), text)
      BY FramesFew, Zenon
    <3> QED BY <3>1, <3>2
  <2>3. m.symbol = symbol
    BY <2>1 DEF Said
  <2>4. Ordinary(m)
    BY <2>3, Zenon DEF Ordinary, Opens
  <2>5. PICK delta : delta = 0 /\ delta = Delta(m)
    BY <2>3 DEF Delta
  <2>6. Tells(<<m>>, delta)
    BY <2>4, <2>5, TellsOne
  <2> QED BY <2>2, <2>5, <2>6
<1>5. ASSUME NEW r \in RealmNumber, NEW k, NEW d
      PROVE  Tells(Frames(<<DataPacket(r, k, d)>>, text), 0)
  <2>1. PICK m : m = DataPacket(r, k, d)
    OBVIOUS
  <2>2. Frames(<<m>>, text) = <<m>>
    <3>1. Frame(m, text) = <<m>>
      <4>1. m.symbol = "<"
        BY <2>1 DEF DataPacket
      <4> QED BY <4>1, Zenon DEF Frame
    <3>2. Frames(<<m>>, text) = Frame(m, text)
      BY FramesFew, Zenon
    <3> QED BY <3>1, <3>2
  <2>3. m.symbol = "<" /\ m.realm = r
    BY <2>1 DEF DataPacket
  <2>4. Ordinary(m)
    BY <2>3, Zenon DEF Ordinary, Opens
  <2>5. PICK delta : delta = 0 /\ delta = Delta(m)
    BY <2>3 DEF Delta
  <2>6. Tells(<<m>>, delta)
    BY <2>4, <2>5, TellsOne
  <2> QED BY <2>1, <2>2, <2>5, <2>6
<1> QED BY <1>1, <1>2, <1>3, <1>4, <1>5

(* Realms that come or go. *)
ComesOrGoes(symbol) == symbol = "{" \/ symbol = "}"

LEMMA TellsRealms ==
    ASSUME NEW symbol, ComesOrGoes(symbol), NEW l, NEW S, l \in Seq(S),
           S \subseteq RealmNumber, NEW text,
           NEW w, w = [i \in DOMAIN l |-> Packet(symbol, l[i])]
    PROVE  List(w) /\ Frames(w, text) = w /\ Tells(w, 0)
<1>1. PICK n \in Nat : /\ n = Len(l) /\ DOMAIN l = 1 .. n
                       /\ \A i \in 1 .. n : l[i] \in RealmNumber
  OBVIOUS
<1>2. List(w) /\ Len(w) = n /\ \A i \in 1 .. n : w[i] = Packet(symbol, l[i])
  <2>1. DOMAIN w = 1 .. n /\ \A i \in 1 .. n : w[i] = Packet(symbol, l[i])
    BY <1>1
  <2>2. w = [i \in 1 .. n |-> w[i]]
    BY <1>1, <2>1
  <2>3. List(w) /\ Len(w) = n
    BY <2>2, ListOfPlaces
  <2> QED BY <2>1, <2>3
<1>3. ASSUME NEW i \in 1 .. n
      PROVE  /\ Frame(w[i], text) = <<w[i]>>
             /\ Ordinary(w[i]) /\ Delta(w[i]) = 0
  <2>1. PICK m : m = w[i] /\ m.symbol = symbol /\ m.number \in RealmNumber
    BY <1>1, <1>2 DEF Packet
  <2>2. Frame(m, text) = <<m>>
    BY <2>1, Zenon DEF Frame, ComesOrGoes
  <2>3. Ordinary(m)
    BY <2>1, Zenon DEF Ordinary, ComesOrGoes
  <2>4. Delta(m) = 0
    BY <2>1, Zenon DEF Delta, ComesOrGoes
  <2> QED BY <2>1, <2>2, <2>3, <2>4
<1>4. Frames(w, text) = w
  BY <1>2, <1>3, FramesPlain
<1>5. Tells(w, 0)
  BY <1>2, <1>3, TellsEach
<1> QED BY <1>2, <1>4, <1>5

LEMMA TellsListing ==
    ASSUME NEW ids, NEW text, ids # {} => List(InOrder(ids)),
           NEW n, n = IF ids = {} THEN 0 ELSE Len(InOrder(ids))
    PROVE  Tells(Frames(<<UsersPresent(ids)>>, text), n)
<1>1. CASE ids = {}
  BY <1>1, FramesFew, FrameOf, TellsNothing
<1>2. CASE ids # {}
  <2>1. PICK m : m = Listing(InOrder(ids))
    OBVIOUS
  <2>2. Frames(<<UsersPresent(ids)>>, text) = <<m>>
    <3>1. Frame(UsersPresent(ids), text) = <<m>>
      BY <1>2, <2>1, FrameOf, Zenon
    <3>2. Frames(<<UsersPresent(ids)>>, text) = Frame(UsersPresent(ids), text)
      BY FramesFew, Zenon
    <3> QED BY <3>1, <3>2
  <2>3. m.symbol = "=" /\ m.numbers = InOrder(ids)
    BY <2>1 DEF Listing
  <2>4. Ordinary(m)
    BY <1>2, <2>3, Zenon DEF Ordinary, Opens
  <2>5. n = Delta(m)
    BY <1>2, <2>3 DEF Delta
  <2> QED BY <2>2, <2>4, <2>5, TellsOne
<1> QED BY <1>1, <1>2

LEMMA TellsAfter ==
    ASSUME NEW s, NEW t, NEW text, NEW a, NEW b, List(s), List(t),
           Tells(Frames(s, text), a), Tells(Frames(t, text), b)
    PROVE  List(s \o t) /\ Tells(Frames(s \o t, text), a + b)
<1>1. List(s \o t)
  BY ListConcat
<1>2. Frames(s \o t, text) = Frames(s, text) \o Frames(t, text)
  BY FramesConcat
<1> QED BY <1>1, <1>2, TellsConcat

-----------------------------------------------------------------------------
(***************************************************************************)
(* A user who changes realms, and what the others are told.                *)
(***************************************************************************)
Crowd == Cardinality(Present(LobbyRealm))
InLobby(r) == IF r = LobbyRealm THEN 1 ELSE 0

LEMMA PresentAreListed ==
    ASSUME IInv, NEW r \in RealmNumber
    PROVE  /\ Present(r) = ToSet(realmUsers[r])
           /\ IsFiniteSet(Present(r)) /\ Cardinality(Present(r)) \in Nat
<1>1. PICK s \in Seq(EndPoint) : s = realmUsers[r] /\ IsInjective(s)
  BY DEF IInv, TypeOK, Membership
<1>2. Present(r) = ToSet(s)
  <2>1. ToSet(s) \subseteq EndPoint
    BY ToSetType
  <2>2. \A x \in EndPoint : x \in ToSet(s) <=> userRealm[x] = r
    BY <1>1 DEF IInv, Membership
  <2> QED BY <2>1, <2>2 DEF Present
<1>3. PICK P : P = ToSet(s)
  OBVIOUS
<1>4. PICK id : id = [y \in P |-> y]
  OBVIOUS
<1>5. IsFiniteSet(P) /\ Cardinality(P) = Len(s)
  <2>1. {id[y] : y \in P} = P
    BY <1>4
  <2>2. \A x, y \in P : id[x] = id[y] => x = y
    BY <1>4
  <2>3. ToSet(s) = {id[y] : y \in P}
    BY <1>3, <2>1
  <2>4. s \in Seq(EndPoint) /\ IsInjective(s)
    BY <1>1
  <2> HIDE <1>1, <1>2, <1>3, <1>4
  <2> QED BY <2>2, <2>3, <2>4, NumbersCount
<1> QED BY <1>1, <1>2, <1>3, <1>5

LEMMA CrowdMoves ==
    ASSUME IInv, NEW e \in EndPoint, NEW target \in RealmNumber \cup {NoRealm},
           userRealm' = [userRealm EXCEPT ![e] = target]
    PROVE  /\ Crowd \in Nat
           /\ Crowd' = Crowd + InLobby(target) - InLobby(userRealm[e])
<1>1. PICK P : P = Present(LobbyRealm) /\ IsFiniteSet(P) /\ Cardinality(P) \in Nat
  BY LobbyAssumption, PresentAreListed
<1>2. Crowd = Cardinality(P)
  BY <1>1 DEF Crowd
<1>3. userRealm \in [EndPoint -> realms \cup {NoRealm}]
  BY DEF IInv, TypeOK
<1>4. e \in P <=> userRealm[e] = LobbyRealm
  BY <1>1 DEF Present
<1>5. \A x \in EndPoint : userRealm'[x] = IF x = e THEN target ELSE userRealm[x]
  BY <1>3
<1>6. Crowd' = Cardinality(Present(LobbyRealm)')
  BY DEF Crowd
<1>7. CASE target = LobbyRealm
  <2>1. Present(LobbyRealm)' = P \cup {e}
    BY <1>1, <1>5, <1>7 DEF Present
  <2>2. Cardinality(P \cup {e}) = IF e \in P THEN Cardinality(P) ELSE Cardinality(P) + 1
    BY <1>1, FS_AddElement
  <2> QED BY <1>1, <1>2, <1>4, <1>6, <1>7, <2>1, <2>2 DEF InLobby
<1>8. CASE target # LobbyRealm
  <2>1. Present(LobbyRealm)' = P \ {e}
    BY <1>1, <1>5, <1>8 DEF Present
  <2>2. Cardinality(P \ {e}) = IF e \in P THEN Cardinality(P) - 1 ELSE Cardinality(P)
    BY <1>1, FS_RemoveElement
  <2> QED BY <1>1, <1>2, <1>4, <1>6, <1>8, <2>1, <2>2 DEF InLobby
<1> QED BY <1>7, <1>8

LEMMA MembersMoved ==
    ASSUME IInv, NEW e \in EndPoint, NEW target \in RealmNumber \cup {NoRealm},
           userRealm[e] # target, NEW r \in RealmNumber \cup {NoRealm}
    PROVE  /\ MembersAfter(e, target, r) \subseteq EndPoint
           /\ \A x \in EndPoint :
                 x \in MembersAfter(e, target, r)
                   <=> r # NoRealm /\ (IF x = e THEN r = target ELSE userRealm[x] = r)
<1>1. CASE r = NoRealm
  BY <1>1 DEF MembersAfter
<1>2. CASE r # NoRealm
  <2>1. r \in RealmNumber /\ MembersAfter(e, target, r) = ToSet(UsersAfter(e, target)[r])
    BY <1>2 DEF MembersAfter
  <2>2. TypeOK /\ Membership
    BY DEF IInv
  <2>3. /\ UsersAfter(e, target)[r] \in Seq(EndPoint)
        /\ \A x \in EndPoint : x \in ToSet(UsersAfter(e, target)[r])
                                 <=> IF x = e THEN r = target ELSE userRealm[x] = r
    BY <2>1, <2>2, UsersMoved
  <2>4. ToSet(UsersAfter(e, target)[r]) \subseteq EndPoint
    BY <2>3, ToSetType
  <2> QED BY <1>2, <2>1, <2>3, <2>4
<1> QED BY <1>1, <1>2

(* The realms destroyed and the realms below one. *)
LEMMA TellsRealmSet ==
    ASSUME NEW S, S \subseteq RealmNumber, NEW list, list = SetToSeq(S),
           NEW symbol, ComesOrGoes(symbol), NEW text,
           NEW w, w = [i \in DOMAIN list |-> Packet(symbol, list[i])]
    PROVE  List(w) /\ Tells(Frames(w, text), 0)
<1>1. IsFiniteSet(S)
  <2>1. IsFiniteSet(RealmNumber)
    BY RelayAssumption, FS_Interval DEF RealmNumber
  <2> QED BY <2>1, FS_Subset
<1>2. list \in Seq(S)
  BY <1>1, SetToSeqOfFinite
<1> QED BY <1>2, TellsRealms

LEMMA DestructionsTell ==
    ASSUME NEW e, NEW target \in RealmNumber \cup {NoRealm}, NEW child, IInv,
           NEW D \in SUBSET RealmsAfter(target), NEW x, NEW text,
           NEW w, w = DestroyNotices(e, target, child, D, x)
    PROVE  List(w) /\ Tells(Frames(w, text), 0)
<1>1. PICK S : S = {r \in D : x \in MembersAfter(e, target, ParentAfter(e, target, child)[r])}
  OBVIOUS
<1>2. PICK list : list = SetToSeq(S)
  OBVIOUS
<1>3. PICK symbol : symbol = "}"
  BY Zenon
<1>4. w = [i \in DOMAIN list |-> Packet(symbol, list[i])]
  BY <1>1, <1>2, <1>3, Zenon DEF DestroyNotices
<1>5. S \subseteq RealmNumber
  <2>1. RealmsAfter(target) \subseteq RealmNumber
    BY DEF RealmsAfter, Creates, IInv, TypeOK
  <2> QED BY <1>1, <2>1
<1>6. ComesOrGoes(symbol)
  BY <1>3, Zenon DEF ComesOrGoes
<1> QED BY <1>2, <1>4, <1>5, <1>6, TellsRealmSet

LEMMA NewChildTells ==
    ASSUME NEW e, NEW target \in RealmNumber \cup {NoRealm}, NEW child, NEW x, NEW text,
           NEW w, w = NewChildNotices(e, target, child, x)
    PROVE  List(w) /\ Tells(Frames(w, text), 0)
<1>1. PICK symbol : symbol = "{"
  BY Zenon
<1>2. w = <<>> \/ (target # NoRealm /\ w = <<Packet(symbol, target)>>)
  BY <1>1, Zenon DEF NewChildNotices
<1>3. CASE w = <<>>
  BY <1>3, SmallLists, TellsPacket
<1>4. CASE target # NoRealm /\ w = <<Packet(symbol, target)>>
  <2>1. PICK l : l = <<target>>
    OBVIOUS
  <2>2. l \in Seq(RealmNumber) /\ DOMAIN l = 1 .. 1 /\ l[1] = target
    BY <1>4, <2>1
  <2>3. PICK u : u = [i \in DOMAIN l |-> Packet(symbol, l[i])]
    OBVIOUS
  <2>4. w = u
    BY <1>4, <2>2, <2>3
  <2>5. ComesOrGoes(symbol)
    BY <1>1, Zenon DEF ComesOrGoes
  <2>6. List(u) /\ Tells(u, 0) /\ Frames(u, text) = u
    BY <2>2, <2>3, <2>5, TellsRealms
  <2> QED BY <2>4, <2>6
<1> QED BY <1>2, <1>3, <1>4

LEMMA OthersAreTold ==
    ASSUME IInv, NEW e \in EndPoint, NEW x \in EndPoint, x # e,
           NEW target \in RealmNumber \cup {NoRealm}, NEW child,
           userRealm[e] # target, NEW D \in SUBSET RealmsAfter(target), NEW text
    PROVE  \E d : /\ Tells(Frames(Notices(e, target, child, D)[x], text), d)
                  /\ userRealm[x] = LobbyRealm =>
                        d = InLobby(target) - InLobby(userRealm[e])
<1>1. PICK old : old = userRealm[e] /\ old \in RealmNumber \cup {NoRealm}
  BY DEF IInv, TypeOK
<1>2. PICK a : a = LeaveNotices(e, target, x)
  OBVIOUS
<1>3. PICK b : b = JoinNotices(e, target, child, x)
  OBVIOUS
<1>4. PICK c : c = NewChildNotices(e, target, child, x)
  OBVIOUS
<1>5. PICK g : g = DestroyNotices(e, target, child, D, x)
  OBVIOUS
<1>6. Notices(e, target, child, D)[x] = a \o b \o c \o g
  BY <1>2, <1>3, <1>4, <1>5 DEF Notices
<1>7. LobbyRealm # NoRealm
  BY LobbyAssumption DEF RealmNumber, NoRealm
<1>8. \E d : /\ List(a) /\ Tells(Frames(a, text), d)
             /\ userRealm[x] = LobbyRealm => d = 0 - InLobby(old)
  <2>1. x \in MembersAfter(e, target, old) <=> old # NoRealm /\ userRealm[x] = old
    BY <1>1, MembersMoved
  <2>2. CASE x \in MembersAfter(e, target, old)
    <3>1. a = <<Packet("-", userID[e])>>
      BY <1>1, <1>2, <2>2 DEF LeaveNotices
    <3>2. List(a) /\ Tells(Frames(a, text), -1)
      BY <3>1, SmallLists, TellsPacket, Zenon
    <3>3. userRealm[x] = LobbyRealm => -1 = 0 - InLobby(old)
      BY <2>1, <2>2 DEF InLobby
    <3> QED BY <3>2, <3>3
  <2>3. CASE x \notin MembersAfter(e, target, old)
    <3>1. a = <<>>
      BY <1>1, <1>2, <2>3 DEF LeaveNotices
    <3>2. List(a) /\ Tells(Frames(a, text), 0)
      BY <3>1, SmallLists, TellsPacket, Zenon
    <3>3. userRealm[x] = LobbyRealm => old # LobbyRealm
      BY <1>7, <2>1, <2>3
    <3>4. userRealm[x] = LobbyRealm => InLobby(old) = 0
      BY <3>3, Zenon DEF InLobby
    <3> QED BY <3>2, <3>4
  <2> QED BY <2>2, <2>3
<1>9. \E d : /\ List(b) /\ Tells(Frames(b, text), d)
             /\ userRealm[x] = LobbyRealm => d = InLobby(target)
  <2>1. x \in MembersAfter(e, target, target) <=> target # NoRealm /\ userRealm[x] = target
    BY MembersMoved
  <2>2. CASE x \in MembersAfter(e, target, target)
    <3>1. b = <<Packet("+", userID[e])>>
      BY <1>3, <2>1, <2>2 DEF JoinNotices
    <3>2. List(b) /\ Tells(Frames(b, text), 1)
      BY <3>1, SmallLists, TellsPacket, Zenon
    <3>3. userRealm[x] = LobbyRealm => 1 = InLobby(target)
      BY <2>1, <2>2 DEF InLobby
    <3> QED BY <3>2, <3>3
  <2>3. CASE x \notin MembersAfter(e, target, target)
    <3>1. b = <<>>
      BY <1>3, <2>3 DEF JoinNotices
    <3>2. List(b) /\ Tells(Frames(b, text), 0)
      BY <3>1, SmallLists, TellsPacket, Zenon
    <3>3. userRealm[x] = LobbyRealm => 0 = InLobby(target)
      BY <1>7, <2>1, <2>3 DEF InLobby
    <3> QED BY <3>2, <3>3
  <2> QED BY <2>2, <2>3
<1>10. PICK m : /\ List(a) /\ Tells(Frames(a, text), m)
                /\ userRealm[x] = LobbyRealm => m = 0 - InLobby(old)
  BY <1>8, Zenon
<1>11. PICK n : /\ List(b) /\ Tells(Frames(b, text), n)
                /\ userRealm[x] = LobbyRealm => n = InLobby(target)
  BY <1>9, Zenon
<1>12. List(c) /\ Tells(Frames(c, text), 0)
  BY <1>4, NewChildTells
<1>13. List(g) /\ Tells(Frames(g, text), 0)
  BY <1>5, DestructionsTell
<1>14. List(a \o b) /\ Tells(Frames(a \o b, text), m + n)
  BY <1>10, <1>11, TellsAfter
<1>15. List(a \o b \o c) /\ Tells(Frames(a \o b \o c, text), (m + n) + 0)
  BY <1>12, <1>14, TellsAfter
<1>16. Tells(Frames(a \o b \o c \o g, text), ((m + n) + 0) + 0)
  BY <1>13, <1>15, TellsAfter
<1>17. m \in Int /\ n \in Int
  BY <1>10, <1>11 DEF Tells
<1>18. userRealm[x] = LobbyRealm =>
          ((m + n) + 0) + 0 = InLobby(target) - InLobby(userRealm[e])
  BY <1>1, <1>10, <1>11, <1>17 DEF InLobby
<1> QED BY <1>6, <1>16, <1>18, Zenon

(* The one who moves reads who is there already. *)
Arrives(ms, target, child, n) ==
    \E m, rest : /\ m.symbol \in {"^", "&"} /\ m.number = target
                 /\ m.symbol = "&" => child
                 /\ Tells(rest, n)
                 /\ ms = <<m>> \o rest

LEMMA PresentAreShown ==
    ASSUME IInv, NEW e \in EndPoint, userID[e] # NoUser, NEW target \in RealmNumber,
           userRealm[e] # target, userID' = userID,
           userRealm' = [userRealm EXCEPT ![e] = target],
           realmUsers' = UsersAfter(e, target),
           NEW ids, ids = {userID[y] : y \in Present(target)}, NEW text
    PROVE  Tells(Frames(<<UsersPresent(ids)>>, text), Cardinality(Present(target)))
<1>1. PICK P : /\ P = Present(target) /\ IsFiniteSet(P) /\ Cardinality(P) \in Nat
  BY PresentAreListed
<1>2. CASE ids = {}
  <2>1. P = {}
    BY <1>1, <1>2
  <2>2. Cardinality(P) = 0
    BY <2>1, FS_EmptySet
  <2> QED BY <1>1, <1>2, <2>2, TellsListing
<1>3. CASE ids # {}
  <2>1. PICK members : members = UsersAfter(e, target)[target]
    OBVIOUS
  <2>2. /\ members \in Seq(EndPoint) /\ IsInjective(members)
        /\ \A x \in EndPoint : x \in ToSet(members) <=> x = e \/ userRealm[x] = target
    <3>1. TypeOK /\ Membership
      BY DEF IInv
    <3> QED BY <2>1, <3>1, UsersMoved
  <2>3. /\ userRealm \in [EndPoint -> realms \cup {NoRealm}]
        /\ userID \in [EndPoint -> Nat \cup {NoUser}]
        /\ \A x \in EndPoint : userRealm[x] # NoRealm => userID[x] # NoUser
        /\ \A x, y \in EndPoint : userID[x] # NoUser /\ userID[x] = userID[y] => x = y
    BY DEF IInv, TypeOK, Membership, UserNumbers, Connected
  <2>4. \A x \in EndPoint : userRealm'[x] = IF x = e THEN target ELSE userRealm[x]
    BY <2>3
  <2>5. ToSet(members) \subseteq EndPoint
    BY <2>2, ToSetType
  <2>6. target # NoRealm
    BY DEF RealmNumber, NoRealm
  <2>7. \A x \in ToSet(members) : userID[x] \in Nat /\ userID[x] # NoUser
    BY <2>2, <2>3, <2>5, <2>6 DEF NoUser
  <2>8. \A x \in P : x \in EndPoint /\ userRealm[x] = target /\ x \in ToSet(members)
    BY <1>1, <2>2 DEF Present
  <2>9. \A x \in EndPoint : userID'[x] \in ids => userRealm'[x] = target
    <3>1. ASSUME NEW x \in EndPoint, userID[x] \in ids
          PROVE  userRealm'[x] = target
      <4>1. PICK y \in P : userID[y] = userID[x]
        BY <1>1, <3>1
      <4>2. x = y
        BY <2>3, <2>5, <2>7, <2>8, <4>1
      <4> QED BY <2>4, <2>8, <4>2
    <3> QED BY <3>1
  <2>10. \A x, y \in ToSet(members) : userID'[x] = userID'[y] => x = y
    BY <2>3, <2>5, <2>7
  <2>11. ids \subseteq {userID'[x] : x \in ToSet(members)}
    BY <1>1, <2>8
  <2>12. userRealm' = [x \in EndPoint |-> userRealm'[x]]
    BY <2>3
  <2>13. /\ InOrder(ids) \in Seq(Nat) /\ IsInjective(InOrder(ids))
         /\ ToSet(InOrder(ids)) = ids
    <3>1. \A x \in ToSet(members) : userID'[x] \in Nat
      BY <2>7
    <3>2. members = realmUsers'[target]
      BY <2>1
    <3> HIDE <1>1, <2>1, <2>2, <2>3, <2>4, <2>5, <2>7, <2>8
    <3>3. members \in Seq(EndPoint) /\ IsInjective(members)
      BY <2>2
    <3> QED BY <1>3, <2>9, <2>10, <2>11, <2>12, <3>1, <3>2, <3>3, OrderOfRealm
  <2>14. PICK s : s = InOrder(ids)
    OBVIOUS
  <2>15. Cardinality(P) = Len(s)
    <3>1. \A x, y \in P : userID[x] = userID[y] => x = y
      BY <2>3, <2>7, <2>8
    <3>2. ToSet(s) = {userID[y] : y \in P}
      BY <1>1, <2>13, <2>14
    <3>3. s \in Seq(Nat) /\ IsInjective(s)
      BY <2>13, <2>14
    <3>4. IsFiniteSet(P) /\ Cardinality(P) = Len(s)
      BY <3>1, <3>2, <3>3, NumbersCount, SMTT(30)
    <3> QED BY <3>4
  <2>16. List(s)
    BY <2>13, <2>14, ListOf
  <2> QED BY <1>1, <1>3, <2>14, <2>15, <2>16, TellsListing
<1> QED BY <1>2, <1>3

LEMMA ArrivalIsTold ==
    ASSUME IInv, NEW e \in EndPoint, userID[e] # NoUser, NEW target \in RealmNumber,
           userRealm[e] # target, NEW child \in BOOLEAN, userID' = userID,
           userRealm' = [userRealm EXCEPT ![e] = target],
           realmUsers' = UsersAfter(e, target), NEW D \in SUBSET RealmsAfter(target), NEW text
    PROVE  Arrives(Frames(Notices(e, target, child, D)[e], text), target, child,
                   Cardinality(Present(target)))
<1>1. PICK symbol : symbol = (IF AsChild(e, child) THEN "&" ELSE "^")
  OBVIOUS
<1>2. PICK m : m = Packet(symbol, target)
  OBVIOUS
<1>3. PICK kids : kids = ChildrenAfter(e, target, child)[target]
  OBVIOUS
<1>4. PICK ids : ids = {userID[y] : y \in Present(target)}
  OBVIOUS
<1>5. PICK k, u : k = ChildList(e, target, child) /\ u = <<UsersPresent(ids)>>
  OBVIOUS
<1>6. PICK g : g = DestroyNotices(e, target, child, D, e)
  OBVIOUS
<1>7. target # NoRealm /\ userRealm[e] \in RealmNumber \cup {NoRealm}
  <2>1. userRealm \in [EndPoint -> realms \cup {NoRealm}] /\ realms \subseteq RealmNumber
    BY DEF IInv, TypeOK
  <2>2. target # NoRealm
    BY DEF RealmNumber, NoRealm
  <2>3. userRealm[e] \in realms \cup {NoRealm}
    BY <2>1
  <2> QED BY <2>1, <2>2, <2>3
<1>8. /\ LeaveNotices(e, target, e) = <<>>
      /\ NewChildNotices(e, target, child, e) = <<>>
  <2>1. e \notin MembersAfter(e, target, userRealm[e])
    BY <1>7, MembersMoved
  <2>2. LeaveNotices(e, target, e) = <<>>
    BY <2>1 DEF LeaveNotices
  <2>3. NewChildNotices(e, target, child, e) = <<>>
    BY <2>1, Zenon DEF NewChildNotices
  <2> QED BY <2>2, <2>3
<1>9. MembersAfter(e, target, target) \ {e} = Present(target)
  BY <1>7, MembersMoved DEF Present
<1>10. JoinNotices(e, target, child, e) = <<m>> \o k \o u
  BY <1>1, <1>2, <1>4, <1>5, <1>7, <1>9, Zenon DEF JoinNotices
<1>11. Notices(e, target, child, D)[e] = <<>> \o (<<m>> \o k \o u) \o <<>> \o g
  BY <1>6, <1>8, <1>10 DEF Notices
<1>12. List(<<m>>) /\ List(u)
  BY <1>5, SmallLists
<1>13. List(k) /\ Tells(Frames(k, text), 0)
  <2>1. kids \subseteq RealmNumber
    <3>1. RealmsAfter(target) \subseteq RealmNumber
      BY DEF RealmsAfter, Creates, IInv, TypeOK
    <3>2. ChildrenAfter(e, target, child) \in [RealmNumber -> SUBSET RealmsAfter(target)]
      BY LinksAfterCreation DEF IInv
    <3> QED BY <1>3, <3>1, <3>2
  <2>2. PICK list : list = SetToSeq(kids)
    OBVIOUS
  <2>3. PICK brace : brace = "{"
    BY Zenon
  <2>4. k = [i \in DOMAIN list |-> Packet(brace, list[i])]
    BY <1>3, <1>5, <2>2, <2>3, Zenon DEF ChildList
  <2>5. ComesOrGoes(brace)
    BY <2>3, Zenon DEF ComesOrGoes
  <2> QED BY <2>1, <2>2, <2>4, <2>5, TellsRealmSet
<1>14. PICK c : c = Cardinality(Present(target)) /\ Tells(Frames(u, text), c) /\ c \in Int
  <2>1. Tells(Frames(u, text), Cardinality(Present(target)))
    BY <1>4, <1>5, PresentAreShown
  <2> QED BY <2>1 DEF Tells
<1>15. List(g) /\ Tells(Frames(g, text), 0)
  BY <1>6, DestructionsTell
<1>16. List(u \o g) /\ Tells(Frames(u \o g, text), c + 0)
  BY <1>12, <1>14, <1>15, TellsAfter
<1>17. PICK w : /\ w = k \o (u \o g) /\ List(w)
                /\ Tells(Frames(w, text), 0 + (c + 0))
  BY <1>13, <1>16, TellsAfter
<1>18. Notices(e, target, child, D)[e] = <<m>> \o w
  <2>1. PICK v : v = <<m>> \o k \o u
    OBVIOUS
  <2>2. List(v)
    BY <1>12, <1>13, <2>1, ListConcat
  <2>3. <<>> \o v = v /\ v \o <<>> = v
    BY <2>2, ConcatEmptySeq DEF List
  <2>4. Notices(e, target, child, D)[e] = v \o g
    <3>1. Notices(e, target, child, D)[e] = ((<<>> \o v) \o <<>>) \o g
      BY <1>11, <2>1
    <3> QED BY <2>3, <3>1, Zenon
  <2>5. v \o g = <<m>> \o w
    BY <1>17, <2>1
  <2> QED BY <2>4, <2>5
<1>19. Frames(<<m>>, text) = <<m>>
  <2>1. m.symbol \in {"^", "&"}
    BY <1>1, <1>2 DEF Packet
  <2>2. Frame(m, text) = <<m>>
    BY <2>1, Zenon DEF Frame
  <2>3. Frames(<<m>>, text) = Frame(m, text)
    BY FramesFew, Zenon
  <2> QED BY <2>2, <2>3
<1>20. Frames(<<m>> \o w, text) = <<m>> \o Frames(w, text)
  <2>1. PICK one : one = <<m>>
    OBVIOUS
  <2>2. Frames(one \o w, text) = Frames(one, text) \o Frames(w, text)
    <3>1. List(one) /\ List(w)
      BY <1>12, <1>17, <2>1
    <3>2. \A x, y : List(x) /\ List(y) =>
                    Frames(x \o y, text) = Frames(x, text) \o Frames(y, text)
      BY FramesConcat
    <3> QED BY <3>1, <3>2, Zenon
  <2> QED BY <1>19, <2>1, <2>2, Zenon
<1>21. 0 + (c + 0) = c
  BY <1>14
<1>22. m.symbol \in {"^", "&"} /\ m.number = target /\ (m.symbol = "&" => child)
  BY <1>1, <1>2 DEF Packet, AsChild
<1>23. Tells(Frames(w, text), Cardinality(Present(target)))
  BY <1>14, <1>17, <1>21
<1> QED BY <1>18, <1>20, <1>22, <1>23, Zenon DEF Arrives

-----------------------------------------------------------------------------
(***************************************************************************)
(* What a page has written and the server has not taken yet, as far as it  *)
(* will take the page to another realm.  In the lobby that is only the way *)
(* back; a page that makes a realm may have asked for it several times;    *)
(* and in a private realm there may be left what it wrote on its way in.   *)
(***************************************************************************)
IsDown(q) == q.symbol = "&"
AllHome(o) == \A i \in 1 .. Len(o) : IsMove(o[i]) => IsHome(o[i])
AllDown(o) == \A i \in 1 .. Len(o) : IsMove(o[i]) => IsDown(o[i])
CreateOrder(o) ==
    /\ \A i \in 1 .. Len(o) : IsMove(o[i]) => IsHome(o[i]) \/ IsDown(o[i])
    /\ \A i, j \in 1 .. Len(o) : i < j /\ IsDown(o[i]) /\ IsMove(o[j]) => IsDown(o[j])
OneWay(o, j, realm) ==
    \/ /\ ~IsDown(o[j]) /\ realm = LobbyRealm
       /\ \A i \in 1 .. Len(o) : i < j /\ IsMove(o[i]) => IsHome(o[i])
    \/ /\ IsDown(o[j]) /\ realm # LobbyRealm
       /\ \A i \in 1 .. Len(o) : i < j /\ IsMove(o[i]) => IsDown(o[i])
PrivateOrder(o, realm) ==
    \A j \in 1 .. Len(o) : IsMove(o[j]) /\ ~IsHome(o[j]) => OneWay(o, j, realm)

LEMMA HomeIsNotDown == \A q : IsHome(q) => ~IsDown(q)
BY DEF IsHome, IsDown

LEMMA SimpleOrders ==
    ASSUME NEW o
    PROVE  /\ AllHome(o) => CreateOrder(o)
           /\ AllHome(o) => \A realm : PrivateOrder(o, realm)
<1>1. ASSUME AllHome(o)
      PROVE  CreateOrder(o)
  <2>1. \A i \in 1 .. Len(o) : ~IsDown(o[i])
    BY <1>1, HomeIsNotDown DEF AllHome, IsMove, IsDown
  <2> QED BY <1>1, <2>1 DEF AllHome, CreateOrder
<1>2. AllHome(o) => \A realm : PrivateOrder(o, realm)
  BY DEF AllHome, PrivateOrder
<1> QED BY <1>1, <1>2

LEMMA DownOrder ==
    ASSUME NEW o, AllDown(o), NEW realm, realm # LobbyRealm
    PROVE  PrivateOrder(o, realm)
BY DEF AllDown, PrivateOrder, OneWay

(* What comes behind changes nothing for what is in front. *)
LEMMA OrdersAfter ==
    ASSUME NEW o, RequestsOK(o), NEW w, AnswersOK(w)
    PROVE  /\ AllHome(o) => AllHome(o \o w)
           /\ \A realm : PrivateOrder(o, realm) => PrivateOrder(o \o w, realm)
<1>1. PICK u : u = o \o w
  OBVIOUS
<1>2. PICK m \in Nat, n \in Nat : m = Len(o) /\ n = Len(u)
  <2>1. List(o) /\ List(w)
    BY DEF RequestsOK, AnswersOK
  <2> QED BY <1>1, <2>1, ListPlaces, ListConcat
<1>3. ASSUME NEW i \in 1 .. n
      PROVE  \/ i \in 1 .. m /\ u[i] = o[i]
             \/ i > m /\ (IsMove(u[i]) => IsHome(u[i]))
  <2>1. \A k \in 1 .. Len(w) : Reply(w[k]) /\ RequestOK(w[k])
    BY DEF AnswersOK, Reply
  <2>2. \/ i \in 1 .. m /\ u[i] = o[i]
        \/ i > m /\ \E k \in 1 .. Len(w) : u[i] = w[k]
    BY <1>1, <1>2, <2>1, WritesAtEnd DEF AnswersOK
  <2> QED BY <2>1, <2>2 DEF Reply
<1>4. ASSUME AllHome(o)
      PROVE  AllHome(u)
  BY <1>2, <1>3, <1>4 DEF AllHome
<1>5. ASSUME NEW realm, PrivateOrder(o, realm)
      PROVE  PrivateOrder(u, realm)
  <2>1. ASSUME NEW j \in 1 .. n, IsMove(u[j]), ~IsHome(u[j])
        PROVE  OneWay(u, j, realm)
    <3>1. j \in 1 .. m /\ u[j] = o[j]
      BY <1>3, <2>1
    <3>2. OneWay(o, j, realm)
      BY <1>2, <1>5, <2>1, <3>1 DEF PrivateOrder
    <3>3. \A i \in 1 .. n : i < j => i \in 1 .. m /\ u[i] = o[i]
      BY <1>3, <3>1
    <3> QED BY <1>2, <3>1, <3>2, <3>3 DEF OneWay
  <2> QED BY <1>2, <2>1 DEF PrivateOrder
<1> QED BY <1>1, <1>4, <1>5

(* One more request: what the page's buttons and timers write. *)
LEMMA OrderWithOne ==
    ASSUME NEW o, RequestsOK(o), NEW q, RequestOK(q)
    PROVE  /\ RequestsOK(o \o <<q>>)
           /\ CreateOrder(o) /\ (IsMove(q) => IsDown(q)) => CreateOrder(o \o <<q>>)
           /\ AllHome(o) /\ ~IsDown(q) => PrivateOrder(o \o <<q>>, LobbyRealm)
<1>0. PICK w : w = <<q>>
  OBVIOUS
<1>1. List(w) /\ Len(w) = 1 /\ w[1] = q
  BY <1>0, SmallLists
<1>2. PICK u : u = o \o w
  OBVIOUS
<1>3. PICK m \in Nat : m = Len(o)
  BY ListPlaces DEF RequestsOK
<1>4. \A i \in 1 .. Len(w) : RequestOK(w[i])
  BY <1>1
<1>5. RequestsOK(u)
  BY <1>1, <1>2, <1>4, WritesAtEnd
<1>6. /\ Len(u) = m + 1 /\ u[m + 1] = q
      /\ \A i \in 1 .. m : u[i] = o[i]
  <2>1. /\ Len(u) = m + Len(w)
        /\ \A i \in 1 .. m : u[i] = o[i]
        /\ \A i \in 1 .. Len(w) : u[m + i] = w[i]
    <3>1. List(o) /\ List(w)
      BY <1>1 DEF RequestsOK
    <3> QED BY <1>2, <1>3, <3>1, ListConcat
  <2>2. 1 \in 1 .. Len(w)
    BY <1>1
  <2> QED BY <1>1, <2>1, <2>2
<1>7. \A i \in 1 .. m + 1 : i \in 1 .. m \/ i = m + 1
  BY <1>3
<1>8. ASSUME CreateOrder(o), IsMove(q) => IsDown(q)
      PROVE  CreateOrder(u)
  <2>1. \A i \in 1 .. m + 1 : IsMove(u[i]) => IsHome(u[i]) \/ IsDown(u[i])
    BY <1>3, <1>6, <1>7, <1>8 DEF CreateOrder
  <2>2. ASSUME NEW i \in 1 .. m + 1, NEW j \in 1 .. m + 1, i < j, IsDown(u[i]), IsMove(u[j])
        PROVE  IsDown(u[j])
    <3>1. CASE j = m + 1
      BY <1>6, <1>8, <2>2, <3>1
    <3>2. CASE j # m + 1
      <4>1. i \in 1 .. m /\ j \in 1 .. m
        BY <2>2, <3>2
      <4> QED BY <1>3, <1>6, <1>8, <2>2, <4>1 DEF CreateOrder
    <3> QED BY <3>1, <3>2
  <2> QED BY <1>6, <2>1, <2>2 DEF CreateOrder
<1>9. ASSUME AllHome(o), ~IsDown(q)
      PROVE  PrivateOrder(u, LobbyRealm)
  <2>1. ASSUME NEW j \in 1 .. m + 1, IsMove(u[j]), ~IsHome(u[j])
        PROVE  OneWay(u, j, LobbyRealm)
    <3>1. \A i \in 1 .. m : IsMove(u[i]) => IsHome(u[i])
      BY <1>3, <1>6, <1>9 DEF AllHome
    <3>2. j = m + 1
      BY <1>7, <2>1, <3>1
    <3>3. \A i \in 1 .. m + 1 : i < j => i \in 1 .. m
      BY <3>2
    <3> QED BY <1>6, <1>9, <3>1, <3>2, <3>3 DEF OneWay
  <2> QED BY <1>6, <2>1 DEF PrivateOrder
<1> QED BY <1>0, <1>2, <1>5, <1>8, <1>9

LEMMA OrdersTaken ==
    ASSUME NEW o, RequestsOK(o), o # <<>>
    PROVE  /\ RequestsOK(Tail(o)) /\ RequestOK(Head(o))
           /\ AllHome(o) => AllHome(Tail(o)) /\ (IsMove(Head(o)) => IsHome(Head(o)))
           /\ CreateOrder(o) =>
                 /\ CreateOrder(Tail(o))
                 /\ IsMove(Head(o)) => IsHome(Head(o)) \/ (IsDown(Head(o)) /\ AllDown(Tail(o)))
           /\ \A realm : PrivateOrder(o, realm) =>
                 /\ PrivateOrder(Tail(o), realm)
                 /\ IsMove(Head(o)) /\ ~IsDown(Head(o)) =>
                       (IsHome(Head(o)) /\ realm = LobbyRealm) \/ AllHome(Tail(o))
                 /\ IsDown(Head(o)) => realm # LobbyRealm
<1>1. PICK t, h : t = Tail(o) /\ h = Head(o)
  OBVIOUS
<1>2. PICK m \in Nat \ {0} : m = Len(o)
  BY ListTail DEF RequestsOK
<1>3. /\ h = o[1] /\ List(t) /\ Len(t) = m - 1
      /\ \A i \in 1 .. m - 1 : t[i] = o[i + 1]
  BY <1>1, <1>2, ListTail DEF RequestsOK
<1>4. 1 \in 1 .. m /\ \A i \in 1 .. m - 1 : i + 1 \in 1 .. m /\ 1 < i + 1
  BY <1>2
<1>5. RequestsOK(t) /\ RequestOK(h)
  BY <1>2, <1>3, <1>4 DEF RequestsOK
<1>6. ASSUME AllHome(o)
      PROVE  AllHome(t) /\ (IsMove(h) => IsHome(h))
  BY <1>2, <1>3, <1>4, <1>6 DEF AllHome
<1>7. ASSUME CreateOrder(o)
      PROVE  CreateOrder(t) /\ (IsMove(h) => IsHome(h) \/ (IsDown(h) /\ AllDown(t)))
  <2>1. \A i \in 1 .. m - 1 : IsMove(t[i]) => IsHome(t[i]) \/ IsDown(t[i])
    BY <1>2, <1>3, <1>4, <1>7 DEF CreateOrder
  <2>2. ASSUME NEW i \in 1 .. m - 1, NEW j \in 1 .. m - 1, i < j, IsDown(t[i]), IsMove(t[j])
        PROVE  IsDown(t[j])
    <3>1. i + 1 < j + 1 /\ i + 1 \in 1 .. m /\ j + 1 \in 1 .. m
      BY <2>2
    <3> QED BY <1>2, <1>3, <1>7, <2>2, <3>1 DEF CreateOrder
  <2>3. IsDown(h) => AllDown(t)
    BY <1>2, <1>3, <1>4, <1>7 DEF CreateOrder, AllDown
  <2>4. IsMove(h) => IsHome(h) \/ IsDown(h)
    BY <1>2, <1>3, <1>4, <1>7 DEF CreateOrder
  <2> QED BY <1>3, <2>1, <2>2, <2>3, <2>4 DEF CreateOrder
<1>8. ASSUME NEW realm, PrivateOrder(o, realm)
      PROVE  /\ PrivateOrder(t, realm)
             /\ IsMove(h) /\ ~IsDown(h) => (IsHome(h) /\ realm = LobbyRealm) \/ AllHome(t)
             /\ IsDown(h) => realm # LobbyRealm
  <2>1. ASSUME NEW j \in 1 .. m - 1, IsMove(t[j]), ~IsHome(t[j])
        PROVE  OneWay(t, j, realm) /\ OneWay(o, j + 1, realm)
    <3>1. OneWay(o, j + 1, realm)
      BY <1>2, <1>3, <1>4, <1>8, <2>1 DEF PrivateOrder
    <3>2. \A i \in 1 .. m - 1 : i < j => i + 1 < j + 1
      OBVIOUS
    <3> QED BY <1>2, <1>3, <1>4, <3>1, <3>2 DEF OneWay
  <2>2. PrivateOrder(t, realm)
    BY <1>3, <2>1 DEF PrivateOrder
  <2>3. IsDown(h) => realm # LobbyRealm
    <3>1. IsDown(h) => IsMove(h) /\ ~IsHome(h)
      BY DEF IsDown, IsMove, IsHome
    <3> QED BY <1>2, <1>3, <1>4, <1>8, <3>1 DEF PrivateOrder, OneWay
  <2>4. ASSUME IsMove(h), ~IsDown(h), ~(IsHome(h) /\ realm = LobbyRealm)
        PROVE  AllHome(t)
    <3>1. ~IsHome(h) => realm = LobbyRealm
      BY <1>2, <1>3, <1>4, <1>8, <2>4 DEF PrivateOrder, OneWay
    <3>2. ASSUME NEW j \in 1 .. m - 1, IsMove(t[j])
          PROVE  IsHome(t[j])
      <4>1. ASSUME ~IsHome(t[j])
            PROVE  FALSE
        <5>1. OneWay(o, j + 1, realm)
          BY <2>1, <3>2, <4>1
        <5>2. 1 \in 1 .. Len(o) /\ 1 < j + 1 /\ o[1] = h
          BY <1>2, <1>3, <1>4
        <5> QED BY <2>4, <3>1, <5>1, <5>2 DEF OneWay
      <4> QED BY <4>1
    <3> QED BY <1>3, <3>2 DEF AllHome
  <2> QED BY <2>2, <2>3, <2>4
<1> QED BY <1>1, <1>5, <1>6, <1>7, <1>8

-----------------------------------------------------------------------------
(***************************************************************************)
(* Where a page sits: what its handler takes for granted of the server.    *)
(* id and realm are the user's number and realm there, n is how many are   *)
(* in the lobby.                                                           *)
(***************************************************************************)
Seat(p, id, realm, n) ==
    /\ PageOK(p)
    /\ id = NoUser => p.out = <<>> /\ p.state \notin InGame
    /\ p.state = "connecting" =>
          /\ p.timers = <<>>
          /\ id # NoUser => realm = NoRealm /\ p.out = <<JoinRealm(LobbyRealm)>>
    /\ p.state = "select" => realm = LobbyRealm /\ p.count = n /\ AllHome(p.out)
    /\ p.state = "create" => realm = LobbyRealm /\ CreateOrder(p.out)
    /\ p.state = "private" => PrivateOrder(p.out, realm)

(* A page that reads what does not take it anywhere stays in its seat. *)
LEMMA SeatHears ==
    ASSUME NEW p, NEW id, NEW realm, NEW n, Seat(p, id, realm, n),
           NEW q, NEW d, Hears(p, q, d), NEW after, p.state = "select" => after = n + d
    PROVE  Seat(q, id, realm, after)
<1>1. PageOK(q) /\ (q.state = p.state \/ (p.state = "private" /\ q.state = "completed"))
  BY DEF Hears
<1>2. id = NoUser => q.out = <<>> /\ q.state \notin InGame
  BY DEF Hears, Seat, InGame
<1>3. q.state = "connecting" =>
        /\ q.timers = <<>>
        /\ id # NoUser => realm = NoRealm /\ q.out = <<JoinRealm(LobbyRealm)>>
  BY DEF Hears, Seat, InGame
<1>4. q.state = "select" => realm = LobbyRealm /\ q.count = after /\ AllHome(q.out)
  BY DEF Hears, Seat, InGame
<1>5. q.state = "create" => realm = LobbyRealm /\ CreateOrder(q.out)
  BY DEF Hears, Seat, InGame
<1>6. q.state = "private" => PrivateOrder(q.out, realm)
  <2>1. CASE q.state = "private"
    <3>1. p.state = "private" /\ PrivateOrder(p.out, realm) /\ RequestsOK(p.out)
      BY <1>1, <2>1 DEF Seat, PageOK
    <3>2. PICK w : AnswersOK(w) /\ q.out = p.out \o w
      BY DEF Hears, Answers
    <3>3. PrivateOrder(p.out \o w, realm)
      BY <3>1, <3>2, OrdersAfter
    <3> QED BY <3>2, <3>3
  <2> QED BY <2>1
<1> QED BY <1>1, <1>2, <1>3, <1>4, <1>5, <1>6, Zenon DEF Seat

TakenOf(p) == [p EXCEPT !.out = Tail(@)]

(* The server takes a request that leaves the user where it is. *)
LEMMA SeatTaken ==
    ASSUME NEW p, NEW id, NEW realm, NEW n, Seat(p, id, realm, n), p.out # <<>>,
           NEW q, q = TakenOf(p), p.state # "connecting"
    PROVE  Seat(q, id, realm, n)
<1>1. /\ DOMAIN q = DOMAIN p /\ q.out = Tail(p.out) /\ q.state = p.state
      /\ q.count = p.count /\ q.realms = p.realms /\ q.timers = p.timers
  BY DEF Seat, PageOK, Fields, TakenOf
<1>2. RequestsOK(p.out)
  BY DEF Seat, PageOK
<1>3. /\ RequestsOK(q.out)
      /\ AllHome(p.out) => AllHome(q.out)
      /\ CreateOrder(p.out) => CreateOrder(q.out)
      /\ PrivateOrder(p.out, realm) => PrivateOrder(q.out, realm)
  BY <1>1, <1>2, OrdersTaken
<1>4. PageOK(q)
  BY <1>1, <1>3 DEF Seat, PageOK
<1>5. id # NoUser
  BY DEF Seat
<1> QED BY <1>1, <1>3, <1>4, <1>5 DEF Seat

(* The states that are about to take a page away have no place anywhere. *)
LEMMA SeatOut ==
    ASSUME NEW p, PageOK(p), NEW id, id = NoUser => p.out = <<>>,
           p.state \notin {"connecting", "select", "create", "private", "completed"}
    PROVE  \A realm, n : Seat(p, id, realm, n)
BY DEF Seat, InGame
-----------------------------------------------------------------------------
(* A page that the server takes to another realm. *)
LEMMA NotedAlike ==
    ASSUME NEW p, PageOK(p), NEW m
    PROVE  /\ Alike(p, Noted(p, m)) /\ Noted(p, m).state = p.state
           /\ m.symbol \in {"^", "&"} => Noted(p, m).id = p.id
<1>1. CASE m.symbol = "#"
  <2>1. PICK q, number : number = m.number /\ q = [p EXCEPT !.id = number]
    OBVIOUS
  <2>2. Noted(p, m) = q
    BY <1>1, <2>1, Zenon DEF Noted
  <2>3. Alike(p, q) /\ q.state = p.state
    BY <2>1 DEF Alike, PageOK, Fields
  <2> QED BY <1>1, <2>2, <2>3
<1>2. CASE m.symbol \in {"^", "&"}
  <2>1. PICK q, number : number = m.number /\ q = [p EXCEPT !.realm = number]
    OBVIOUS
  <2>2. Noted(p, m) = q
    BY <1>2, <2>1, Zenon DEF Noted
  <2>3. Alike(p, q) /\ q.state = p.state /\ q.id = p.id
    BY <2>1 DEF Alike, PageOK, Fields
  <2> QED BY <2>2, <2>3
<1>3. CASE m.symbol # "#" /\ m.symbol \notin {"^", "&"}
  <2>1. Noted(p, m) = p
    BY <1>3, Zenon DEF Noted
  <2> QED BY <1>3, <2>1 DEF Alike
<1> QED BY <1>1, <1>2, <1>3

LEMMA NewSelectSeat ==
    ASSUME NEW p, PageOK(p), AllHome(p.out), NEW id, id # NoUser
    PROVE  Seat(NewSelect(p), id, LobbyRealm, 1)
<1>1. PICK q : q = NewSelect(p)
  OBVIOUS
<1>2. /\ DOMAIN q = DOMAIN p /\ q.state = "select" /\ q.count = 1 /\ q.realms = <<>>
      /\ q.timers = p.timers /\ q.out = p.out
  BY <1>1 DEF NewSelect, PageOK, Fields
<1>3. SummariesOK(<<>>)
  BY SmallLists DEF SummariesOK
<1>4. PageOK(q)
  BY <1>2, <1>3 DEF PageOK
<1>5. Seat(q, id, LobbyRealm, 1)
  BY <1>2, <1>4 DEF Seat
<1> QED BY <1>1, <1>5

(* The page of a realm's creator is its host, and asks for nothing. *)
LEMMA HostsPrivate ==
    ASSUME NEW p, PageOK(p), NEW s, s.creator = p.id
    PROVE  Talks(p, NewPrivate(p, s)) /\ NewPrivate(p, s).state = "private"
<1>1. PICK hosted : hosted = (p.id = s.creator)
  OBVIOUS
<1>2. PICK q : q = [p EXCEPT !.state = "private", !.covered = FALSE, !.summary = s,
                             !.hosted = hosted, !.sent = -1, !.users = <<>>]
  OBVIOUS
<1>3. NewPrivate(p, s) = AddMe(q)
  BY <1>1, <1>2, Zenon DEF NewPrivate
<1>4. Alike(p, q) /\ q.state = "private"
  BY <1>2 DEF Alike, PageOK, Fields
<1>5. Talks(p, q) /\ PageOK(q)
  BY <1>4, AlikeTalks DEF Talks
<1>6. Keeps(q, AddMe(q))
  BY <1>5, AddMeKeeps
<1>7. Talks(p, AddMe(q))
  BY <1>5, <1>6, TalksFollow DEF Keeps
<1> QED BY <1>3, <1>4, <1>6, <1>7 DEF Keeps

LEMMA CreateArrives ==
    ASSUME NEW p, PageOK(p), NEW m, m.symbol \in {"^", "&"}
    PROVE  Talks(p, InCreate(p, m)) /\ InCreate(p, m).state = "private"
<1>1. PICK s : s = NewSummary(m.number, p.id)
  OBVIOUS
<1>2. PICK a : a = SaveSummary([p EXCEPT !.summary = s])
  OBVIOUS
<1>3. PICK q : q = Writes(p, <<a>>)
  OBVIOUS
<1>4. InCreate(p, m) = NewPrivate(q, s)
  <2>1. m.symbol # "closed"
    OBVIOUS
  <2> QED BY <1>1, <1>2, <1>3, <2>1, Zenon DEF InCreate
<1>5. AnswersOK(<<a>>)
  BY <1>2, ReplyEach, AnswersFew, Zenon
<1>6. Talks(p, q) /\ q.id = p.id
  <2>1. Talks(p, q)
    BY <1>3, <1>5, WritesTalks
  <2>2. q.id = p.id
    BY <1>3 DEF Writes, PageOK, Fields
  <2> QED BY <2>1, <2>2
<1>7. s.creator = q.id
  BY <1>1, <1>6 DEF NewSummary
<1>8. Talks(q, NewPrivate(q, s)) /\ NewPrivate(q, s).state = "private"
  BY <1>6, <1>7, HostsPrivate DEF Talks
<1>9. Talks(p, NewPrivate(q, s))
  BY <1>6, <1>8, TalksFollow
<1> QED BY <1>4, <1>8, <1>9

(* Outside of the lobby and in it, what is left to take in a private realm. *)
LEMMA PrivateLeft ==
    ASSUME NEW o, RequestsOK(o), o # <<>>, NEW realm, PrivateOrder(o, realm),
           NEW target, target # realm, IsMove(Head(o)),
           Head(o).symbol = "^" => target = Head(o).number,
           Head(o).symbol = "&" => target # LobbyRealm
    PROVE  /\ target = LobbyRealm => AllHome(Tail(o))
           /\ target # LobbyRealm => PrivateOrder(Tail(o), target)
<1>1. PICK t, h : t = Tail(o) /\ h = Head(o)
  OBVIOUS
<1>2. /\ PrivateOrder(t, realm)
      /\ ~IsDown(h) => (IsHome(h) /\ realm = LobbyRealm) \/ AllHome(t)
      /\ IsDown(h) => realm # LobbyRealm
  BY <1>1, OrdersTaken
<1>3. ~IsDown(h) => target = h.number
  BY <1>1 DEF IsMove, IsDown
<1>4. IsDown(h) => target # LobbyRealm
  BY <1>1 DEF IsDown
<1>5. CASE IsDown(h)
  <2>1. realm # LobbyRealm /\ target # LobbyRealm
    BY <1>2, <1>4, <1>5
  <2>2. PrivateOrder(t, target)
    BY <1>2, <2>1 DEF PrivateOrder, OneWay
  <2> QED BY <1>1, <2>1, <2>2
<1>6. CASE ~IsDown(h)
  <2>1. AllHome(t)
    BY <1>2, <1>3, <1>6 DEF IsHome
  <2>2. PrivateOrder(t, target)
    BY <2>1, SimpleOrders
  <2> QED BY <1>1, <2>1, <2>2
<1> QED BY <1>5, <1>6
LEMMA SeatArrives ==
    ASSUME NEW p, NEW id, NEW realm, NEW n, Seat(p, id, realm, n), p.out # <<>>,
           NEW target \in RealmNumber, target # realm, NEW o, o = p.out, IsMove(Head(o)),
           Head(o).symbol = "^" => target = Head(o).number,
           Head(o).symbol = "&" => target # LobbyRealm,
           NEW q, q = TakenOf(p),
           NEW m, m.symbol \in {"^", "&"}, m.number = target,
           m.symbol = "&" => Head(o).symbol = "&"
    PROVE  Seat(Handled(q, m), id, target, 1)
<1>1. PICK t, h : t = Tail(o) /\ h = Head(o)
  OBVIOUS
<1>2. /\ RequestsOK(o) /\ o # <<>> /\ id # NoUser
      /\ RequestsOK(t) /\ RequestOK(h)
  <2>1. RequestsOK(o) /\ o # <<>> /\ id # NoUser
    BY DEF Seat, PageOK
  <2>2. RequestsOK(t) /\ RequestOK(h)
    BY <1>1, <2>1, OrdersTaken
  <2> QED BY <2>1, <2>2
<1>3. PageOK(q) /\ q.state = p.state /\ q.out = t
  <2>1. /\ DOMAIN q = DOMAIN p /\ q.out = t /\ q.state = p.state
        /\ q.count = p.count /\ q.realms = p.realms /\ q.timers = p.timers
    BY <1>1 DEF Seat, PageOK, Fields, TakenOf
  <2> QED BY <1>2, <2>1 DEF Seat, PageOK
<1>4. PICK r : r = Noted(q, m)
  OBVIOUS
<1>5. /\ PageOK(r) /\ r.state = p.state /\ r.out = t
  <2>1. Alike(q, r) /\ r.state = q.state
    BY <1>3, <1>4, NotedAlike
  <2>2. PageOK(r)
    BY <1>3, <2>1, AlikeTalks DEF Talks
  <2> QED BY <1>3, <2>1, <2>2 DEF Alike
<1>6. CASE p.state = "connecting"
  <2>1. o = <<JoinRealm(LobbyRealm)>>
    BY <1>2, <1>6 DEF Seat
  <2>2. h = JoinRealm(LobbyRealm) /\ t = <<>>
    BY <1>1, <2>1
  <2>3. h.symbol = "^" /\ h.number = LobbyRealm
    BY <2>2 DEF JoinRealm
  <2>4. m.symbol = "^" /\ m.number = LobbyRealm /\ target = LobbyRealm
    BY <1>1, <2>3
  <2>5. Handled(q, m) = NewSelect(r)
    <3>1. Handled(q, m) = InConnecting(r, m)
      BY <1>3, <1>4, <1>6, Zenon DEF Handled
    <3>2. InConnecting(r, m) = NewSelect(r)
      BY <2>4, Zenon DEF InConnecting
    <3> QED BY <3>1, <3>2
  <2>6. AllHome(r.out)
    BY <1>5, <2>2 DEF AllHome
  <2>7. Seat(NewSelect(r), id, LobbyRealm, 1)
    BY <1>2, <1>5, <2>6, NewSelectSeat
  <2> QED BY <2>4, <2>5, <2>7
<1>7. CASE p.state = "select"
  <2>1. realm = LobbyRealm /\ AllHome(o)
    BY <1>7 DEF Seat
  <2>2. IsHome(h)
    BY <1>1, <1>2, <2>1, OrdersTaken
  <2>3. target = LobbyRealm
    BY <1>1, <2>2 DEF IsHome
  <2> QED BY <2>1, <2>3
<1>8. CASE p.state = "create"
  <2>1. realm = LobbyRealm /\ CreateOrder(o)
    BY <1>8 DEF Seat
  <2>2. IsHome(h) \/ (IsDown(h) /\ AllDown(t))
    BY <1>1, <1>2, <2>1, OrdersTaken
  <2>3. ~IsHome(h)
    BY <1>1, <2>1 DEF IsHome
  <2>4. AllDown(t) /\ target # LobbyRealm
    BY <1>1, <2>2, <2>3 DEF IsDown
  <2>5. PICK s : s = Handled(q, m)
    OBVIOUS
  <2>6. s = InCreate(r, m)
    BY <1>3, <1>4, <1>8, <2>5, Zenon DEF Handled
  <2>7. Talks(r, s) /\ s.state = "private"
    BY <1>5, <2>6, CreateArrives
  <2>8. PICK w : AnswersOK(w) /\ s.out = t \o w
    BY <1>5, <2>7 DEF Talks, Answers
  <2>9. PrivateOrder(t, target)
    BY <2>4, DownOrder
  <2>10. PrivateOrder(s.out, target)
    <3>1. PrivateOrder(t \o w, target)
      BY <1>2, <2>8, <2>9, OrdersAfter
    <3> QED BY <2>8, <3>1
  <2>11. Seat(s, id, target, 1)
    BY <1>2, <2>7, <2>10 DEF Seat, Talks
  <2> QED BY <2>5, <2>11
<1>9. CASE p.state = "private"
  <2>1. PrivateOrder(o, realm)
    BY <1>9 DEF Seat
  <2>2. /\ target = LobbyRealm => AllHome(t)
        /\ target # LobbyRealm => PrivateOrder(t, target)
    BY <1>1, <1>2, <2>1, PrivateLeft
  <2>3. PICK s : s = Handled(q, m)
    OBVIOUS
  <2>4. s = InPrivate(r, m)
    BY <1>3, <1>4, <1>9, <2>3, Zenon DEF Handled
  <2>5. m.symbol # "closed"
    OBVIOUS
  <2>6. CASE target = LobbyRealm
    <3>1. s = NewSelect(r)
      BY <2>4, <2>5, <2>6, Zenon DEF InPrivate
    <3>2. Seat(NewSelect(r), id, LobbyRealm, 1)
      BY <1>2, <1>5, <2>2, <2>6, NewSelectSeat
    <3> QED BY <2>3, <2>6, <3>1, <3>2
  <2>7. CASE target # LobbyRealm
    <3>1. s = AddMe(r)
      BY <2>4, <2>5, <2>7, Zenon DEF InPrivate
    <3>2. Keeps(r, s)
      BY <1>5, <3>1, AddMeKeeps
    <3>3. PICK w : AnswersOK(w) /\ s.out = t \o w
      BY <1>5, <3>2 DEF Keeps, Talks, Answers
    <3>4. PrivateOrder(s.out, target)
      <4>1. PrivateOrder(t \o w, target)
        BY <1>2, <2>2, <2>7, <3>3, OrdersAfter
      <4> QED BY <3>3, <4>1
    <3>5. s.state = "private" /\ PageOK(s)
      BY <1>5, <1>9, <3>2 DEF Keeps, Talks
    <3>6. Seat(s, id, target, 1)
      BY <1>2, <3>4, <3>5 DEF Seat
    <3> QED BY <2>3, <3>6
  <2> QED BY <2>6, <2>7
<1>10. CASE p.state = "completed"
  <2>1. PICK s : s = Over(r)
    OBVIOUS
  <2>2. Handled(q, m) = s
    <3>1. Handled(q, m) = InCompleted(r, m)
      BY <1>3, <1>4, <1>10, Zenon DEF Handled
    <3>2. InCompleted(r, m) = Over(r)
      BY Zenon DEF InCompleted
    <3> QED BY <2>1, <3>1, <3>2
  <2>3. Alike(r, s) /\ s.state = "over"
    BY <1>5, <2>1 DEF Over, Alike, PageOK, Fields
  <2>4. PageOK(s)
    BY <1>5, <2>3, AlikeTalks DEF Talks
  <2>5. Seat(s, id, target, 1)
    BY <1>2, <2>3, <2>4, SeatOut
  <2> QED BY <2>2, <2>5
<1>11. CASE p.state \notin {"connecting", "select", "create", "private", "completed"}
  <2>1. Handled(q, m) = q
    BY <1>3, <1>11, Zenon DEF Handled
  <2>2. Seat(q, id, target, 1)
    BY <1>2, <1>3, <1>11, SeatOut
  <2> QED BY <2>1, <2>2
<1> QED BY <1>6, <1>7, <1>8, <1>9, <1>10, <1>11
-----------------------------------------------------------------------------
(***************************************************************************)
(* The inductive invariant: the server's, and every page is in its seat.   *)
(***************************************************************************)
SeatOK(e) == Seat(page[e], userID[e], userRealm[e], Crowd)
LInv == /\ IInv
        /\ page = [e \in EndPoint |-> page[e]]
        /\ \A e \in EndPoint : SeatOK(e)

LEMMA SeatsSettle ==
    ASSUME IInv', page' = [x \in EndPoint |-> page'[x]],
           \A x \in EndPoint : Seat(page'[x], userID'[x], userRealm'[x], Crowd')
    PROVE  LInv'
<1>1. \A x \in EndPoint : SeatOK(x)'
  BY DEF SeatOK
<1> QED BY <1>1 DEF LInv

LEMMA SameCrowd ==
    ASSUME UNCHANGED userRealm
    PROVE  Crowd' = Crowd
<1>1. Present(LobbyRealm)' = Present(LobbyRealm)
  BY DEF Present
<1> QED BY <1>1 DEF Crowd

(* What happens at one page, and not to its user. *)
LEMMA OneSeatChanges ==
    ASSUME LInv, IInv', UNCHANGED <<userID, userRealm>>, NEW e \in EndPoint, NEW p,
           page' = [page EXCEPT ![e] = p], Seat(p, userID[e], userRealm[e], Crowd)
    PROVE  LInv'
<1>1. Crowd' = Crowd
  BY SameCrowd
<1>2. page' = [x \in EndPoint |-> IF x = e THEN p ELSE page[x]]
  BY DEF LInv
<1>3. ASSUME NEW x \in EndPoint
      PROVE  Seat(page'[x], userID'[x], userRealm'[x], Crowd')
  <2>1. CASE x = e
    BY <1>1, <1>2, <2>1
  <2>2. CASE x # e
    <3>1. Seat(page[x], userID[x], userRealm[x], Crowd)
      BY DEF LInv, SeatOK
    <3> QED BY <1>1, <1>2, <2>2, <3>1
  <2> QED BY <2>1, <2>2
<1>4. page' = [x \in EndPoint |-> page'[x]]
  BY <1>2
<1> QED BY <1>3, <1>4, SeatsSettle

(* The pages as the server's packets find them, and afterwards. *)
BaseOf(e, x) == IF x = e THEN TakenOf(page[e]) ELSE page[x]
ReadAll(e, text) == [x \in EndPoint |-> ReadBy(BaseOf(e, x), Frames(outbox'[x], text))]

LEMMA ServedReads ==
    ASSUME LInv, NEW e \in EndPoint, Served(e)
    PROVE  /\ page[e].out # <<>> /\ Serve(e, Head(page[e].out))
           /\ \E text : page' = ReadAll(e, text)
<1>1. PICK text : text = TextOf(Head(page[e].out))
  OBVIOUS
<1>2. page' = [x \in EndPoint |-> FoldLeft(Handled, Taken(e)[x], Frames(outbox'[x], text))]
  BY <1>1, Zenon DEF Served, Route
<1>3. \A x \in EndPoint : Taken(e)[x] = BaseOf(e, x)
  BY DEF LInv, Taken, TakenOf, BaseOf
<1>4. \A p, ms : FoldLeft(Handled, p, ms) = ReadBy(p, ms)
  BY ReadByFolds
<1>5. page' = ReadAll(e, text)
  BY <1>2, <1>3, <1>4, Zenon DEF ReadAll
<1> QED BY <1>5, Zenon DEF Served, Route

(* The server answers, or passes on what a user says. *)
LEMMA TalkKeepsSeats ==
    ASSUME LInv, IInv', UNCHANGED <<userID, userRealm>>, NEW e \in EndPoint,
           page[e].out # <<>>, page[e].state # "connecting", NEW text,
           page' = ReadAll(e, text), \A x \in EndPoint : Tells(Frames(outbox'[x], text), 0)
    PROVE  LInv'
<1>1. Crowd' = Crowd
  BY SameCrowd
<1>2. Crowd \in Nat
  BY PresentAreListed, LobbyAssumption DEF LInv, Crowd
<1>3. ASSUME NEW x \in EndPoint
      PROVE  Seat(page'[x], userID'[x], userRealm'[x], Crowd')
  <2>1. PICK b, ms : b = BaseOf(e, x) /\ ms = Frames(outbox'[x], text)
    OBVIOUS
  <2>2. page'[x] = ReadBy(b, ms)
    BY <2>1 DEF ReadAll
  <2>3. PICK p : p = page[x]
    OBVIOUS
  <2>4. Seat(p, userID[x], userRealm[x], Crowd)
    BY <2>3 DEF LInv, SeatOK
  <2>5. Seat(b, userID[x], userRealm[x], Crowd)
    <3>1. CASE x = e
      <4>1. b = TakenOf(p) /\ p.out # <<>> /\ p.state # "connecting"
        BY <2>1, <2>3, <3>1 DEF BaseOf
      <4> QED BY <2>4, <4>1, SeatTaken
    <3>2. CASE x # e
      BY <2>1, <2>3, <2>4, <3>2 DEF BaseOf
    <3> QED BY <3>1, <3>2
  <2>6. Hears(b, ReadBy(b, ms), 0)
    <3>1. PageOK(b)
      BY <2>5 DEF Seat
    <3>2. Tells(ms, 0)
      BY <2>1
    <3> QED BY <3>1, <3>2 DEF Tells
  <2>7. Crowd' = Crowd + 0
    BY <1>1, <1>2
  <2>8. Seat(ReadBy(b, ms), userID[x], userRealm[x], Crowd')
    BY <2>5, <2>6, <2>7, SeatHears
  <2> QED BY <2>2, <2>8
<1>4. page' = [x \in EndPoint |-> page'[x]]
  BY DEF ReadAll
<1> QED BY <1>3, <1>4, SeatsSettle
(* A user changes realms: what the server's packets do to the seat of x,   *)
(* who is not that user.                                                   *)
LEMMA OthersStay ==
    ASSUME LInv, NEW e \in EndPoint, NEW target \in RealmNumber \cup {NoRealm},
           userRealm[e] # target, userRealm' = [userRealm EXCEPT ![e] = target],
           NEW child, NEW D \in SUBSET RealmsAfter(target), NEW x \in EndPoint, x # e,
           NEW text, NEW ms, ms = Frames(Notices(e, target, child, D)[x], text)
    PROVE  /\ List(ms) /\ \A i \in 1 .. Len(ms) : Ordinary(ms[i])
           /\ Seat(ReadBy(page[x], ms), userID[x], userRealm'[x], Crowd')
<1>1. IInv
  BY DEF LInv
<1>2. PICK d : /\ Tells(ms, d)
               /\ userRealm[x] = LobbyRealm => d = InLobby(target) - InLobby(userRealm[e])
  BY <1>1, OthersAreTold
<1>3. PICK p, q : p = page[x] /\ q = ReadBy(page[x], ms)
  OBVIOUS
<1>4. Seat(p, userID[x], userRealm[x], Crowd)
  BY <1>3 DEF LInv, SeatOK
<1>5. Hears(p, q, d)
  BY <1>2, <1>3, <1>4 DEF Tells, Seat
<1>6. p.state = "select" => Crowd' = Crowd + d
  <2>1. p.state = "select" => userRealm[x] = LobbyRealm
    BY <1>4 DEF Seat
  <2>2. Crowd \in Nat /\ Crowd' = Crowd + InLobby(target) - InLobby(userRealm[e])
    BY <1>1, CrowdMoves
  <2>3. InLobby(target) \in Int /\ InLobby(userRealm[e]) \in Int
    BY DEF InLobby
  <2> QED BY <1>2, <2>1, <2>2, <2>3
<1>7. Seat(q, userID[x], userRealm[x], Crowd')
  BY <1>4, <1>5, <1>6, SeatHears
<1>8. userRealm'[x] = userRealm[x]
  BY <1>1 DEF IInv, TypeOK
<1>9. List(ms) /\ \A i \in 1 .. Len(ms) : Ordinary(ms[i])
  BY <1>2 DEF Tells
<1> QED BY <1>3, <1>7, <1>8, <1>9

(* "^n" and "&" when they take the user elsewhere. *)
LEMMA MoveKeepsSeats ==
    ASSUME LInv, IInv', NEW e \in EndPoint, NEW target \in RealmNumber,
           userRealm[e] # target, NEW child \in BOOLEAN, NEW queue,
           MoveToRealm(e, target, child, queue), userID' = userID, page[e].out # <<>>,
           NEW h, h = Head(page[e].out), IsMove(h), h.symbol = "^" => target = h.number,
           h.symbol = "&" => target # LobbyRealm, child => h.symbol = "&",
           NEW text, page' = ReadAll(e, text)
    PROVE  LInv'
<1>1. PICK D \in SUBSET RealmsAfter(target) :
         /\ userRealm' = [userRealm EXCEPT ![e] = target]
         /\ realmUsers' = UsersAfter(e, target)
         /\ outbox' = Notices(e, target, child, D)
  BY Zenon DEF MoveToRealm
<1>2. IInv
  BY DEF LInv
<1>3. userRealm'[e] = target
  BY <1>1, <1>2 DEF IInv, TypeOK
<1>4. ASSUME NEW x \in EndPoint, x # e
      PROVE  Seat(page'[x], userID'[x], userRealm'[x], Crowd')
  <2>1. PICK ms : ms = Frames(Notices(e, target, child, D)[x], text)
    OBVIOUS
  <2>2. Seat(ReadBy(page[x], ms), userID[x], userRealm'[x], Crowd')
    BY <1>1, <1>4, <2>1, OthersStay
  <2>3. page'[x] = ReadBy(page[x], ms)
    BY <1>1, <1>4, <2>1, Zenon DEF ReadAll, BaseOf
  <2> QED BY <2>2, <2>3
<1>5. Seat(page'[e], userID'[e], userRealm'[e], Crowd')
  <2>1. PICK p, q : p = page[e] /\ q = TakenOf(p)
    OBVIOUS
  <2>2. Seat(p, userID[e], userRealm[e], Crowd)
    BY <2>1 DEF LInv, SeatOK
  <2>3. userID[e] # NoUser
    BY <2>1, <2>2 DEF Seat
  <2>4. PICK m, rest : /\ m.symbol \in {"^", "&"} /\ m.number = target
                       /\ m.symbol = "&" => child
                       /\ Tells(rest, Cardinality(Present(target)))
                       /\ Frames(Notices(e, target, child, D)[e], text) = <<m>> \o rest
    <3>1. Arrives(Frames(Notices(e, target, child, D)[e], text), target, child,
                  Cardinality(Present(target)))
      BY <1>1, <1>2, <2>3, ArrivalIsTold
    <3> QED BY <3>1, Zenon DEF Arrives
  <2>5. PICK id, realm : id = userID[e] /\ realm = userRealm[e]
    OBVIOUS
  <2>6. PICK s : s = Handled(q, m)
    OBVIOUS
  <2>7. Seat(s, id, target, 1)
    <3>1. Seat(p, id, realm, Crowd) /\ target # realm
      BY <2>2, <2>5
    <3>2. PICK o : o = p.out
      OBVIOUS
    <3>3. h = Head(o) /\ p.out # <<>>
      BY <2>1, <3>2, Zenon
    <3>4. /\ IsMove(Head(o))
          /\ Head(o).symbol = "^" => target = Head(o).number
          /\ Head(o).symbol = "&" => target # LobbyRealm
          /\ m.symbol = "&" => Head(o).symbol = "&"
      BY <2>4, <3>3, Zenon
    <3>5. m.symbol \in {"^", "&"} /\ m.number = target
      BY <2>4
    <3>6. q = TakenOf(p)
      BY <2>1
    <3>7. Seat(Handled(q, m), id, target, 1)
      BY <3>1, <3>2, <3>3, <3>4, <3>5, <3>6, SeatArrives
    <3> QED BY <2>6, <3>7
  <2>8. PICK c : c = Cardinality(Present(target)) /\ c \in Int /\ Tells(rest, c)
    BY <2>4 DEF Tells
  <2>9. s.state = "select" => Crowd' = 1 + c
    <3>1. s.state = "select" => target = LobbyRealm
      BY <2>7 DEF Seat
    <3>2. Crowd' = Crowd + InLobby(target) - InLobby(userRealm[e])
      BY <1>1, <1>2, CrowdMoves
    <3>3. ASSUME target = LobbyRealm
          PROVE  Crowd' = 1 + c
      <4>1. InLobby(target) = 1 /\ InLobby(userRealm[e]) = 0 /\ Crowd = c
        BY <2>8, <3>3 DEF InLobby, Crowd
      <4> QED BY <2>8, <3>2, <4>1
    <3> QED BY <3>1, <3>3
  <2>10. Seat(ReadBy(s, rest), id, target, Crowd')
    <3>1. Hears(s, ReadBy(s, rest), c)
      BY <2>7, <2>8 DEF Tells, Seat
    <3> QED BY <2>7, <2>9, <3>1, SeatHears
  <2>11. page'[e] = ReadBy(s, rest)
    <3>1. page'[e] = ReadBy(q, <<m>> \o rest)
      BY <1>1, <2>1, <2>4, Zenon DEF ReadAll, BaseOf
    <3>2. ReadBy(q, <<m>> \o rest) = ReadBy(ReadBy(q, <<m>>), rest)
      <4>1. PICK one : one = <<m>>
        OBVIOUS
      <4>2. List(one) /\ List(rest)
        BY <2>4, <4>1, SmallLists DEF Tells
      <4>3. ReadBy(q, one \o rest) = ReadBy(ReadBy(q, one), rest)
        BY <4>2, ReadsConcat
      <4> QED BY <4>1, <4>3, Zenon
    <3>3. ReadBy(q, <<m>>) = s
      BY <2>6, ReadsFew, Zenon
    <3> QED BY <3>1, <3>2, <3>3, Zenon
  <2> QED BY <1>3, <2>5, <2>10, <2>11
<1>6. page' = [x \in EndPoint |-> page'[x]]
  BY DEF ReadAll
<1>7. \A x \in EndPoint : Seat(page'[x], userID'[x], userRealm'[x], Crowd')
  BY <1>4, <1>5
<1> QED BY <1>6, <1>7, SeatsSettle
-----------------------------------------------------------------------------
(* A connection that ends. *)
LEMMA NewPageIsOK ==
    ASSUME NEW state, NEW name
    PROVE  LET p == NewPage(state, name)
           IN  /\ PageOK(p) /\ DOMAIN p = Fields
               /\ p.state = state /\ p.out = <<>> /\ p.timers = <<>>
<1>1. PICK p : p = NewPage(state, name)
  OBVIOUS
<1>2. /\ DOMAIN p = Fields /\ p.count = 0 /\ p.realms = <<>>
      /\ p.state = state /\ p.out = <<>> /\ p.timers = <<>>
  BY <1>1 DEF NewPage, Fields
<1>3. SummariesOK(<<>>) /\ TimersOK(<<>>) /\ RequestsOK(<<>>)
  BY SmallLists DEF SummariesOK, TimersOK, RequestsOK
<1>4. PageOK(p)
  BY <1>2, <1>3 DEF PageOK
<1> QED BY <1>1, <1>2, <1>4

(* The page reads onclose, and nothing that it wrote before arrives. *)
LEMMA ClosedSeat ==
    ASSUME NEW p, PageOK(p), NEW q, q = [Handled(p, Closed) EXCEPT !.out = <<>>]
    PROVE  \A realm, n : Seat(q, NoUser, realm, n)
<1>1. PICK m : m = Closed /\ m.symbol = "closed"
  BY DEF Closed
<1>2. Noted(p, m) = p
  BY <1>1, Zenon DEF Noted
<1>3. PICK h : h = Handled(p, m)
  OBVIOUS
<1>4. PageOK(h) /\ h.state \notin {"connecting", "select", "create", "private", "completed"}
  <2>1. CASE p.state \in {"connecting", "select", "create", "private"}
    <3>1. h = NewOffline(p)
      BY <1>1, <1>2, <1>3, <2>1, Zenon
      DEF Handled, InConnecting, InSelect, InCreate, InPrivate
    <3>2. PICK g, off : off = "offline" /\ g = NewPage(off, p.name)
      OBVIOUS
    <3>3. PageOK(g) /\ DOMAIN g = Fields /\ g.state = off
      BY <3>2, NewPageIsOK, Zenon
    <3>4. PICK late : late = p.late
      OBVIOUS
    <3>5. h = [g EXCEPT !.late = late]
      BY <3>1, <3>2, <3>4, Zenon DEF NewOffline
    <3>6. Alike(g, h) /\ h.state = "offline"
      BY <3>2, <3>3, <3>5 DEF Alike, Fields
    <3> QED BY <3>3, <3>6, AlikeTalks DEF Talks
  <2>2. CASE p.state = "completed"
    <3>1. h = Over(p)
      BY <1>1, <1>2, <1>3, <2>2, Zenon DEF Handled, InCompleted
    <3>2. Alike(p, h) /\ h.state = "over"
      BY <3>1 DEF Over, Alike, PageOK, Fields
    <3> QED BY <3>2, AlikeTalks DEF Talks
  <2>3. CASE p.state \notin {"connecting", "select", "create", "private", "completed"}
    <3>1. h = p
      BY <1>2, <1>3, <2>3, Zenon DEF Handled
    <3> QED BY <2>3, <3>1
  <2> QED BY <2>1, <2>2, <2>3
<1>5. /\ DOMAIN q = DOMAIN h /\ q.out = <<>> /\ q.state = h.state
      /\ q.count = h.count /\ q.realms = h.realms /\ q.timers = h.timers
  BY <1>1, <1>3, <1>4 DEF PageOK, Fields
<1>6. RequestsOK(<<>>)
  BY SmallLists DEF RequestsOK
<1>7. PageOK(q)
  BY <1>4, <1>5, <1>6 DEF PageOK
<1> QED BY <1>4, <1>5, <1>7, SeatOut

(* Back: a page of its own, which will connect again. *)
LEMMA RenewedSeat ==
    ASSUME NEW p, NEW q, q = [Renewed(p, Closed) EXCEPT !.out = <<>>]
    PROVE  \A realm, n : Seat(q, NoUser, realm, n)
<1>1. PICK connecting, g : connecting = "connecting" /\ g = NewPage(connecting, p.name)
  OBVIOUS
<1>2. PageOK(g) /\ DOMAIN g = Fields /\ g.state = connecting /\ g.timers = <<>> /\ g.out = <<>>
  BY <1>1, NewPageIsOK, Zenon
<1>3. PICK h : h = [g EXCEPT !.late = TRUE]
  OBVIOUS
<1>4. Renewed(p, Closed) = h
  BY <1>1, <1>3, Zenon DEF Renewed
<1>5. q = [h EXCEPT !.out = <<>>]
  BY <1>4
<1>6. Alike(g, q) /\ q.state = "connecting" /\ q.out = <<>> /\ q.timers = <<>>
  BY <1>1, <1>2, <1>3, <1>5 DEF Alike, Fields
<1>7. PageOK(q)
  BY <1>2, <1>6, AlikeTalks DEF Talks
<1> QED BY <1>6, <1>7 DEF Seat, InGame

(* What the server says of it, and to whom. *)
LEMMA LeaveIsTold ==
    ASSUME LInv, NEW e \in EndPoint, ClientDisconnected(e), NEW x \in EndPoint, x # e,
           NEW text, NEW ms, ms = Frames(outbox'[x], text)
    PROVE  /\ List(ms) /\ \A i \in 1 .. Len(ms) : Ordinary(ms[i])
           /\ Seat(ReadBy(page[x], ms), userID'[x], userRealm'[x], Crowd')
<1>1. /\ IInv
      /\ ChangeRealm(e, NoRealm, FALSE, reclaimableRealmIDs)
      /\ userID' = [userID EXCEPT ![e] = NoUser]
  BY DEF ClientDisconnected, LInv
<1>2. userID'[x] = userID[x]
  BY <1>1 DEF IInv, TypeOK
<1>3. CASE userRealm[e] = NoRealm
  <2>1. outbox' = Silence /\ userRealm' = userRealm
    BY <1>1, <1>3 DEF ChangeRealm, StayInRealm
  <2>2. Crowd' = Crowd
    BY <2>1, SameCrowd
  <2>3. outbox'[x] = <<>>
    BY <2>1 DEF Silence
  <2>4. ms = <<>>
    <3>1. Frames(<<>>, text) = <<>>
      BY FramesFew
    <3> QED BY <2>3, <3>1
  <2>5. ReadBy(page[x], ms) = page[x]
    BY <2>4, ReadsFew
  <2>6. List(ms) /\ \A i \in 1 .. Len(ms) : Ordinary(ms[i])
    BY <2>4, TellsNothing DEF Tells
  <2>7. Seat(page[x], userID[x], userRealm[x], Crowd)
    BY DEF LInv, SeatOK
  <2> QED BY <1>2, <2>1, <2>2, <2>5, <2>6, <2>7
<1>4. CASE userRealm[e] # NoRealm
  <2>1. PICK no : no = FALSE
    OBVIOUS
  <2>2. MoveToRealm(e, NoRealm, no, reclaimableRealmIDs)
    BY <1>1, <1>4, <2>1 DEF ChangeRealm
  <2>3. PICK D \in SUBSET RealmsAfter(NoRealm) :
           /\ userRealm' = [userRealm EXCEPT ![e] = NoRealm]
           /\ outbox' = Notices(e, NoRealm, no, D)
    BY <2>2, Zenon DEF MoveToRealm
  <2>4. PICK target \in RealmNumber \cup {NoRealm} : target = NoRealm
    OBVIOUS
  <2>5. ms = Frames(Notices(e, target, no, D)[x], text)
    BY <2>3, <2>4
  <2>6. /\ D \in SUBSET RealmsAfter(target) /\ userRealm[e] # target
        /\ userRealm' = [userRealm EXCEPT ![e] = target]
    BY <1>4, <2>3, <2>4
  <2> QED BY <1>2, <2>5, <2>6, OthersStay
<1> QED BY <1>3, <1>4

(* Both handlers of a page whose connection ends. *)
LEMMA LeaveKeepsSeats ==
    ASSUME LInv, NEW e \in EndPoint, ClientDisconnected(e), NEW q,
           \A realm, n : Seat(q, NoUser, realm, n), NEW text,
           page' = [x \in EndPoint |-> IF x = e THEN q
                                       ELSE ReadBy(page[x], Frames(outbox'[x], text))]
    PROVE  LInv'
<1>1. IInv' /\ IInv
  BY DisconnectIsOK DEF LInv
<1>2. userID' = [userID EXCEPT ![e] = NoUser]
  BY DEF ClientDisconnected
<1>3. userID'[e] = NoUser
  BY <1>1, <1>2 DEF IInv, TypeOK
<1>4. ASSUME NEW x \in EndPoint
      PROVE  Seat(page'[x], userID'[x], userRealm'[x], Crowd')
  <2>1. CASE x = e
    BY <1>3, <2>1
  <2>2. CASE x # e
    <3>1. PICK ms : ms = Frames(outbox'[x], text)
      OBVIOUS
    <3>2. Seat(ReadBy(page[x], ms), userID'[x], userRealm'[x], Crowd')
      BY <2>2, <3>1, LeaveIsTold
    <3>3. page'[x] = ReadBy(page[x], ms)
      BY <2>2, <3>1
    <3> QED BY <3>2, <3>3
  <2> QED BY <2>1, <2>2
<1>5. page' = [x \in EndPoint |-> page'[x]]
  OBVIOUS
<1> QED BY <1>1, <1>4, <1>5, SeatsSettle

LEMMA LeaveStep ==
    ASSUME LInv, NEW e \in EndPoint, Leave(e)
    PROVE  LInv'
<1>1. PICK text : text = ""
  BY Zenon
<1>2. PICK q : q = [Handled(page[e], Closed) EXCEPT !.out = <<>>]
  OBVIOUS
<1>3. /\ ClientDisconnected(e)
      /\ page' = [x \in EndPoint |-> IF x = e THEN q
                     ELSE FoldLeft(Handled, page[x], Frames(outbox'[x], text))]
  BY <1>1, <1>2, Zenon DEF Leave, CloseSocket
<1>4. page' = [x \in EndPoint |-> IF x = e THEN q
                                  ELSE ReadBy(page[x], Frames(outbox'[x], text))]
  BY <1>3, ReadByFolds, Zenon
<1>5. \A realm, n : Seat(q, NoUser, realm, n)
  <2>1. PageOK(page[e])
    BY DEF LInv, SeatOK, Seat
  <2> QED BY <1>2, <2>1, ClosedSeat
<1> QED BY <1>3, <1>4, <1>5, LeaveKeepsSeats

LEMMA BackStep ==
    ASSUME LInv, NEW e \in EndPoint, ClickBackFromCreate(e)
    PROVE  LInv'
<1>1. PICK text : text = ""
  BY Zenon
<1>2. PICK q : q = [Renewed(page[e], Closed) EXCEPT !.out = <<>>]
  OBVIOUS
<1>3. /\ ClientDisconnected(e)
      /\ page' = [x \in EndPoint |-> IF x = e THEN q
                     ELSE FoldLeft(Renewed, page[x], Frames(outbox'[x], text))]
  BY <1>1, <1>2, Zenon DEF ClickBackFromCreate, CloseSocket
<1>4. ASSUME NEW x \in EndPoint, x # e
      PROVE  FoldLeft(Renewed, page[x], Frames(outbox'[x], text))
               = ReadBy(page[x], Frames(outbox'[x], text))
  <2>1. PICK ms, p : ms = Frames(outbox'[x], text) /\ p = page[x]
    OBVIOUS
  <2>2. List(ms) /\ \A i \in 1 .. Len(ms) : Ordinary(ms[i])
    BY <1>3, <1>4, <2>1, LeaveIsTold
  <2>3. Renews!Fold(p, ms, 0) = ReadBy(p, ms)
    BY <2>2, RenewedReads
  <2>4. FoldLeft(Renewed, p, ms) = Renews!Fold(p, ms, 0)
    BY ReadByFolds, Zenon
  <2> QED BY <2>1, <2>3, <2>4, Zenon
<1>5. page' = [x \in EndPoint |-> IF x = e THEN q
                                  ELSE ReadBy(page[x], Frames(outbox'[x], text))]
  BY <1>3, <1>4, Zenon
<1>6. \A realm, n : Seat(q, NoUser, realm, n)
  BY <1>2, RenewedSeat
<1> QED BY <1>3, <1>5, <1>6, LeaveKeepsSeats

-----------------------------------------------------------------------------
(* A connection that begins: the page reads its number, and asks to be     *)
(* taken to the lobby.                                                     *)
LEMMA OpenKeepsSeats ==
    ASSUME LInv, NEW e \in EndPoint, NEW p, PageOK(p), p.state = "connecting",
           p.out = <<>>, p.timers = <<>>, Open(e, p, Handled)
    PROVE  LInv'
<1>1. PICK text : text = ""
  BY Zenon
<1>2. ClientConnected(e)
  BY Zenon DEF Open, NewSocket
<1>3. IInv /\ IInv' /\ Connected' = Connected \cup {e}
  BY <1>2, ConnectIsOK DEF LInv
<1>4. PICK id : /\ userID[e] = NoUser
                /\ userID' = [userID EXCEPT ![e] = id]
                /\ outbox' = SendTo({e}, Packet("#", id))
                /\ userRealm' = userRealm
  BY <1>2 DEF ClientConnected, realmVars
<1>5. userRealm[e] = NoRealm
  BY <1>3, <1>4 DEF IInv, Membership, Connected, TypeOK
<1>6. /\ \A x \in EndPoint : userID'[x] = IF x = e THEN id ELSE userID[x]
      /\ id # NoUser
  BY <1>3, <1>4 DEF IInv, TypeOK, Connected
<1>7. Crowd' = Crowd
  BY <1>4, SameCrowd
<1>8. PICK a, m : a = "#" /\ m = Packet(a, id)
  BY Zenon
<1>9. PICK q : q = Handled(p, m)
  OBVIOUS
<1>10. page' = [page EXCEPT ![e] = q]
  <2>1. page' = [page EXCEPT ![e] = FoldLeft(Handled, p, Frames(outbox'[e], text))]
    BY <1>1, Zenon DEF Open
  <2>2. outbox'[e] = <<m>>
    BY <1>4, <1>8 DEF SendTo
  <2>3. Frame(m, text) = <<m>>
    BY <1>8, FrameOf, Zenon
  <2>4. Frames(<<m>>, text) = <<m>>
    BY <2>3, FramesFew, Zenon
  <2>5. FoldLeft(Handled, p, <<m>>) = q
    BY <1>9, ReadByFolds, ReadsFew, Zenon
  <2> QED BY <2>1, <2>2, <2>4, <2>5, Zenon
<1>11. Seat(q, id, NoRealm, Crowd)
  <2>1. PICK r : r = Noted(p, m)
    OBVIOUS
  <2>2. Alike(p, r) /\ r.state = p.state /\ PageOK(r)
    BY <2>1, NotedAlike, AlikeTalks DEF Talks
  <2>3. m.symbol = "#"
    BY <1>8 DEF Packet
  <2>4. PICK home : home = JoinRealm(LobbyRealm)
    OBVIOUS
  <2>5. q = Writes(r, <<home>>)
    <3>1. q = InConnecting(r, m)
      BY <1>9, <2>1, Zenon DEF Handled
    <3>2. m.symbol # "closed"
      BY <2>3
    <3> QED BY <2>3, <2>4, <3>1, <3>2, Zenon DEF InConnecting
  <2>6. AnswersOK(<<home>>)
    BY <2>4, ReplyEach, AnswersFew, Zenon
  <2>7. Talks(r, q) /\ q.state = r.state
    BY <2>2, <2>5, <2>6, WritesTalks
  <2>8. q.out = <<home>>
    <3>1. q.out = r.out \o <<home>>
      BY <2>2, <2>5 DEF Writes, PageOK, Fields
    <3>2. <<>> \o <<home>> = <<home>>
      OBVIOUS
    <3>3. r.out = <<>>
      BY <2>2 DEF Alike
    <3> QED BY <3>1, <3>2, <3>3
  <2>9. q.timers = <<>>
    BY <2>2, <2>7 DEF Talks, Alike
  <2>10. PageOK(q) /\ q.state = "connecting"
    BY <2>2, <2>7 DEF Talks
  <2> QED BY <1>6, <2>4, <2>8, <2>9, <2>10 DEF Seat
<1>12. ASSUME NEW x \in EndPoint
       PROVE  Seat(page'[x], userID'[x], userRealm'[x], Crowd')
  <2>1. CASE x = e
    <3>1. page'[e] = q
      BY <1>10 DEF LInv
    <3> QED BY <1>4, <1>5, <1>6, <1>7, <1>11, <2>1, <3>1
  <2>2. CASE x # e
    <3>1. page'[x] = page[x]
      BY <1>10, <2>2 DEF LInv
    <3>2. Seat(page[x], userID[x], userRealm[x], Crowd)
      BY DEF LInv, SeatOK
    <3> QED BY <1>4, <1>6, <1>7, <2>2, <3>1, <3>2
  <2> QED BY <2>1, <2>2
<1>13. page' = [x \in EndPoint |-> page'[x]]
  BY <1>10 DEF LInv
<1> QED BY <1>3, <1>12, <1>13, SeatsSettle

LEMMA ConnectStep ==
    ASSUME LInv, NEW e \in EndPoint, Connect(e)
    PROVE  LInv'
<1>1. PICK connecting, g : connecting = "connecting" /\ g = NewPage(connecting, e)
  OBVIOUS
<1>2. PageOK(g) /\ DOMAIN g = Fields /\ g.state = connecting /\ g.timers = <<>> /\ g.out = <<>>
  BY <1>1, NewPageIsOK, Zenon
<1>3. PICK late : late = page[e].late
  OBVIOUS
<1>4. PICK p : p = [g EXCEPT !.late = late]
  OBVIOUS
<1>5. Open(e, p, Handled)
  BY <1>1, <1>3, <1>4, Zenon DEF Connect
<1>6. Alike(g, p) /\ p.state = "connecting"
  BY <1>1, <1>2, <1>4 DEF Alike, Fields
<1>7. PageOK(p) /\ p.out = <<>> /\ p.timers = <<>>
  BY <1>2, <1>6, AlikeTalks DEF Talks, Alike
<1> QED BY <1>5, <1>6, <1>7, OpenKeepsSeats

LEMMA ReopenStep ==
    ASSUME LInv, NEW e \in EndPoint, Reopen(e)
    PROVE  LInv'
<1>1. PICK p : p = page[e]
  OBVIOUS
<1>2. Open(e, p, Handled) /\ p.state = "connecting"
  BY <1>1, Zenon DEF Reopen
<1>3. userID[e] = NoUser
  BY <1>2, Zenon DEF Open, NewSocket, ClientConnected
<1>4. Seat(p, NoUser, userRealm[e], Crowd)
  BY <1>1, <1>3 DEF LInv, SeatOK
<1>5. PageOK(p) /\ p.out = <<>> /\ p.timers = <<>>
  BY <1>2, <1>4 DEF Seat
<1> QED BY <1>2, <1>5, OpenKeepsSeats
-----------------------------------------------------------------------------
(* What a page does by itself: the server does not hear of it yet. *)
LEMMA PageStep ==
    ASSUME LInv, NEW e \in EndPoint, UNCHANGED vars, NEW p,
           page' = [page EXCEPT ![e] = p], Seat(p, userID[e], userRealm[e], Crowd)
    PROVE  LInv'
<1>1. IInv'
  BY NextKeepsIInv DEF LInv
<1>2. UNCHANGED <<userID, userRealm>>
  BY DEF vars, userVars, realmVars
<1> QED BY <1>1, <1>2, OneSeatChanges

LEMMA SeatAlike ==
    ASSUME NEW p, NEW id, NEW realm, NEW n, Seat(p, id, realm, n),
           NEW q, Alike(p, q), q.state = p.state
    PROVE  Seat(q, id, realm, n)
<1>1. PageOK(q)
  BY AlikeTalks DEF Talks, Seat
<1> QED BY <1>1 DEF Seat, Alike

LEMMA SeatKept ==
    ASSUME NEW p, NEW id, NEW realm, NEW n, Seat(p, id, realm, n), p.state = "private",
           NEW q, Keeps(p, q)
    PROVE  Seat(q, id, realm, n)
<1>1. PICK d : d = 0
  OBVIOUS
<1>2. Hears(p, q, d)
  BY KeepsGoesOn, GoesOnHears DEF Seat
<1> QED BY <1>2, SeatHears

(* A page with a user that writes one request more. *)
LEMMA SeatWrites ==
    ASSUME NEW p, NEW id, NEW realm, NEW n, Seat(p, id, realm, n), id # NoUser,
           p.state # "connecting", NEW a, RequestOK(a), ~IsMove(a)
    PROVE  Seat(Writes(p, <<a>>), id, realm, n)
<1>1. PICK w, q, o : w = <<a>> /\ q = Writes(p, w) /\ o = p.out
  OBVIOUS
<1>2. Reply(a) /\ ~IsDown(a) /\ RequestsOK(o) /\ PageOK(p)
  BY <1>1 DEF Reply, Seat, PageOK, IsMove, IsDown
<1>3. AnswersOK(w)
  BY <1>1, <1>2, AnswersFew, Zenon
<1>4. Talks(p, q) /\ q.state = p.state
  BY <1>1, <1>2, <1>3, WritesTalks
<1>5. q.out = o \o w
  BY <1>1, <1>2 DEF Writes, PageOK, Fields
<1>6. AllHome(o) => AllHome(q.out)
  <2>1. AllHome(o) => AllHome(o \o w)
    BY <1>2, <1>3, OrdersAfter
  <2> QED BY <1>5, <2>1
<1>7. PrivateOrder(o, realm) => PrivateOrder(q.out, realm)
  <2>1. PrivateOrder(o, realm) => PrivateOrder(o \o w, realm)
    BY <1>2, <1>3, OrdersAfter
  <2> QED BY <1>5, <2>1
<1>8. CreateOrder(o) => CreateOrder(q.out)
  <2>1. CreateOrder(o) => CreateOrder(o \o <<a>>)
    BY <1>2, OrderWithOne
  <2> QED BY <1>1, <1>5, <2>1
<1>9. Seat(q, id, realm, n)
  BY <1>1, <1>4, <1>6, <1>7, <1>8 DEF Seat, Talks
<1> QED BY <1>1, <1>9

LEMMA ClickCancelStep ==
    ASSUME LInv, NEW e \in EndPoint, ClickCancel(e)
    PROVE  LInv'
<1>1. PICK p, q : p = page[e] /\ q = [p EXCEPT !.covered = TRUE]
  OBVIOUS
<1>2. page' = [page EXCEPT ![e] = q] /\ UNCHANGED vars
  BY <1>1, Zenon DEF ClickCancel, Clicks
<1>3. Seat(p, userID[e], userRealm[e], Crowd)
  BY <1>1 DEF LInv, SeatOK
<1>4. Alike(p, q) /\ q.state = p.state
  BY <1>1, <1>3 DEF Alike, Seat, PageOK, Fields
<1>5. Seat(q, userID[e], userRealm[e], Crowd)
  BY <1>3, <1>4, SeatAlike
<1> QED BY <1>2, <1>5, PageStep

LEMMA LateCloseStep ==
    ASSUME LInv, NEW e \in EndPoint, LateClose(e)
    PROVE  LInv'
<1>1. PICK p : p = page[e]
  OBVIOUS
<1>2. PICK q : q = [p EXCEPT !.late = FALSE, !.covered = TRUE]
  OBVIOUS
<1>3. page' = [page EXCEPT ![e] = q]
  <2>1. page' = [page EXCEPT ![e].late = FALSE, ![e].covered = TRUE]
    BY Zenon DEF LateClose
  <2> QED BY <1>1, <1>2, <2>1 DEF LInv
<1>4. UNCHANGED vars
  BY Zenon DEF LateClose
<1>5. Seat(p, userID[e], userRealm[e], Crowd)
  BY <1>1 DEF LInv, SeatOK
<1>6. Alike(p, q) /\ q.state = p.state
  BY <1>2, <1>5 DEF Alike, Seat, PageOK, Fields
<1>7. Seat(q, userID[e], userRealm[e], Crowd)
  BY <1>5, <1>6, SeatAlike
<1> QED BY <1>3, <1>4, <1>7, PageStep

LEMMA ClickHostStep ==
    ASSUME LInv, NEW e \in EndPoint, ClickHost(e)
    PROVE  LInv'
<1>1. PICK p, q : p = page[e] /\ q = [p EXCEPT !.state = "create"]
  OBVIOUS
<1>2. page' = [page EXCEPT ![e] = q]
  <2>1. page' = [page EXCEPT ![e].state = "create"]
    BY Zenon DEF ClickHost
  <2> QED BY <1>1, <2>1 DEF LInv
<1>3. UNCHANGED vars /\ p.state = "select"
  BY <1>1, Zenon DEF ClickHost
<1>4. Seat(p, userID[e], userRealm[e], Crowd)
  BY <1>1 DEF LInv, SeatOK
<1>5. Alike(p, q) /\ q.state = "create"
  BY <1>1, <1>4 DEF Alike, Seat, PageOK, Fields
<1>6. PageOK(q)
  BY <1>4, <1>5, AlikeTalks DEF Talks, Seat
<1>7. CreateOrder(q.out)
  <2>1. AllHome(p.out)
    BY <1>3, <1>4 DEF Seat
  <2> QED BY <1>5, <2>1, SimpleOrders DEF Alike
<1>8. userID[e] = NoUser => q.out = <<>>
  BY <1>4, <1>5 DEF Seat, Alike
<1>9. userRealm[e] = LobbyRealm
  BY <1>3, <1>4 DEF Seat
<1>10. Seat(q, userID[e], userRealm[e], Crowd)
  BY <1>5, <1>6, <1>7, <1>8, <1>9 DEF Seat, InGame
<1> QED BY <1>2, <1>3, <1>10, PageStep

LEMMA ClickCreateStep ==
    ASSUME LInv, NEW e \in EndPoint, ClickCreate(e)
    PROVE  LInv'
<1>1. PICK p, a : p = page[e] /\ a = CreateChild
  OBVIOUS
<1>2. PICK q : q = Writes(p, <<a>>)
  OBVIOUS
<1>3. /\ page' = [page EXCEPT ![e] = q] /\ UNCHANGED vars
      /\ userID[e] # NoUser /\ p.state = "create"
  BY <1>1, <1>2, Zenon DEF ClickCreate, Clicks
<1>4. Seat(p, userID[e], userRealm[e], Crowd)
  BY <1>1 DEF LInv, SeatOK
<1>5. PageOK(p) /\ CreateOrder(p.out) /\ userRealm[e] = LobbyRealm /\ RequestsOK(p.out)
  BY <1>3, <1>4 DEF Seat, PageOK
<1>6. RequestOK(a) /\ IsDown(a)
  BY <1>1 DEF CreateChild, RequestOK, IsDown
<1>7. /\ DOMAIN q = DOMAIN p /\ q.out = p.out \o <<a>> /\ q.state = p.state
      /\ q.count = p.count /\ q.realms = p.realms /\ q.timers = p.timers
  BY <1>2, <1>5 DEF Writes, PageOK, Fields
<1>8. RequestsOK(p.out \o <<a>>) /\ CreateOrder(p.out \o <<a>>)
  BY <1>5, <1>6, OrderWithOne
<1>9. PageOK(q) /\ CreateOrder(q.out)
  BY <1>5, <1>7, <1>8 DEF PageOK
<1>10. Seat(q, userID[e], userRealm[e], Crowd)
  BY <1>3, <1>5, <1>7, <1>9 DEF Seat
<1> QED BY <1>3, <1>10, PageStep

LEMMA ClickBackStep ==
    ASSUME LInv, NEW e \in EndPoint, ClickBack(e)
    PROVE  LInv'
<1>1. PICK p, a : p = page[e] /\ a = JoinRealm(LobbyRealm)
  OBVIOUS
<1>2. PICK q : q = Writes(p, <<a>>)
  OBVIOUS
<1>3. page' = [page EXCEPT ![e] = q] /\ UNCHANGED vars /\ p.state = "private"
  BY <1>1, <1>2, Zenon DEF ClickBack, Clicks
<1>4. Seat(p, userID[e], userRealm[e], Crowd) /\ PageOK(p)
  BY <1>1 DEF LInv, SeatOK, Seat
<1>5. AnswersOK(<<a>>)
  BY <1>1, ReplyEach, AnswersFew, Zenon
<1>6. Keeps(p, q)
  BY <1>2, <1>4, <1>5, WritesTalks DEF Keeps
<1>7. Seat(q, userID[e], userRealm[e], Crowd)
  BY <1>3, <1>4, <1>6, SeatKept
<1> QED BY <1>3, <1>7, PageStep

LEMMA ClickGoStep ==
    ASSUME LInv, NEW e \in EndPoint, ClickGo(e)
    PROVE  LInv'
<1>1. PICK p, q : p = page[e] /\ q = CheckGo(p)
  OBVIOUS
<1>2. page' = [page EXCEPT ![e] = q] /\ UNCHANGED vars /\ p.state = "private"
  BY <1>1, Zenon DEF ClickGo, Clicks
<1>3. Seat(p, userID[e], userRealm[e], Crowd) /\ PageOK(p)
  BY <1>1 DEF LInv, SeatOK, Seat
<1>4. Keeps(p, q)
  BY <1>1, <1>3, CheckGoKeeps
<1>5. Seat(q, userID[e], userRealm[e], Crowd)
  BY <1>2, <1>3, <1>4, SeatKept
<1> QED BY <1>2, <1>5, PageStep

LEMMA ClickReadyStep ==
    ASSUME LInv, NEW e \in EndPoint, ClickReady(e)
    PROVE  LInv'
<1>1. PICK p, i, ready : /\ p = page[e] /\ i = GetUser(p.users, p.id)
                         /\ ready = (p.users[i].status = "notReady")
  OBVIOUS
<1>2. PICK v, a : /\ v = IF ready THEN "ready" ELSE "notReady"
                  /\ a = ToAllExceptMe(Command(IF ready THEN "READY" ELSE "NOT_READY", <<p.id>>))
  OBVIOUS
<1>3. PICK r : r = [p EXCEPT !.users[i].status = v]
  OBVIOUS
<1>4. PICK q : q = CheckAllReady(Writes(r, <<a>>))
  OBVIOUS
<1>5. page' = [page EXCEPT ![e] = q] /\ UNCHANGED vars /\ p.state = "private"
  BY <1>1, <1>2, <1>3, <1>4, Zenon DEF ClickReady, Clicks
<1>6. Seat(p, userID[e], userRealm[e], Crowd) /\ PageOK(p)
  BY <1>1 DEF LInv, SeatOK, Seat
<1>7. Alike(p, r) /\ r.state = p.state
  BY <1>3, <1>6, EditKeeps, Zenon
<1>8. PageOK(r) /\ Keeps(p, r)
  BY <1>6, <1>7, AlikeKeeps
<1>9. AnswersOK(<<a>>)
  BY <1>2, ReplyEach, AnswersFew, Zenon
<1>10. Keeps(p, Writes(r, <<a>>))
  BY <1>6, <1>8, <1>9, WritesKeeps
<1>11. Keeps(Writes(r, <<a>>), q)
  BY <1>4, <1>10, CheckAllReadyKeeps DEF Keeps, Talks
<1>12. Keeps(p, q)
  BY <1>6, <1>10, <1>11, KeepsFollow
<1>13. Seat(q, userID[e], userRealm[e], Crowd)
  BY <1>5, <1>6, <1>12, SeatKept
<1> QED BY <1>5, <1>13, PageStep
LEMMA ClickJoinStep ==
    ASSUME LInv, NEW e \in EndPoint, ClickJoin(e)
    PROVE  LInv'
<1>1. PICK p : p = page[e]
  OBVIOUS
<1>2. PICK s \in ToSet(p.realms) :
         Clicks(e, "select", "join", NewPrivate([p EXCEPT !.stale = ~UpToDate(s)], s))
  BY <1>1, Zenon DEF ClickJoin
<1>3. PICK stale : stale = ~UpToDate(s)
  OBVIOUS
<1>4. PICK r : r = [p EXCEPT !.stale = stale]
  OBVIOUS
<1>5. PICK q : q = NewPrivate(r, s)
  OBVIOUS
<1>6. /\ page' = [page EXCEPT ![e] = q] /\ UNCHANGED vars
      /\ userID[e] # NoUser /\ p.state = "select"
  BY <1>1, <1>2, <1>3, <1>4, <1>5, Zenon DEF Clicks
<1>7. Seat(p, userID[e], userRealm[e], Crowd) /\ PageOK(p)
  BY <1>1 DEF LInv, SeatOK, Seat
<1>8. userRealm[e] = LobbyRealm /\ AllHome(p.out) /\ RequestsOK(p.out)
  BY <1>6, <1>7 DEF Seat, PageOK
<1>9. Alike(p, r) /\ r.state = p.state /\ r.id = p.id
  BY <1>4, <1>7 DEF Alike, PageOK, Fields
<1>10. PageOK(r) /\ r.out = p.out
  BY <1>7, <1>9, AlikeTalks DEF Talks, Alike
<1>11. s.number \in RealmNumber
  <2>1. SummariesOK(p.realms)
    BY <1>7 DEF PageOK
  <2>2. PICK i \in 1 .. Len(p.realms) : s = p.realms[i]
    <3>1. DOMAIN p.realms = 1 .. Len(p.realms)
      BY <2>1, ListPlaces DEF SummariesOK
    <3> QED BY <1>2, <3>1 DEF ToSet
  <2> QED BY <2>1, <2>2 DEF SummariesOK, SummaryOK
<1>12. CASE s.creator = r.id
  <2>1. Talks(r, q) /\ q.state = "private"
    BY <1>5, <1>10, <1>12, HostsPrivate
  <2>2. PICK w : AnswersOK(w) /\ q.out = p.out \o w
    BY <1>10, <2>1 DEF Talks, Answers
  <2>3. PrivateOrder(q.out, LobbyRealm)
    <3>1. PrivateOrder(p.out, LobbyRealm)
      BY <1>8, SimpleOrders
    <3>2. PrivateOrder(p.out \o w, LobbyRealm)
      BY <1>8, <2>2, <3>1, OrdersAfter
    <3> QED BY <2>2, <3>2
  <2>4. Seat(q, userID[e], userRealm[e], Crowd)
    BY <1>6, <1>8, <2>1, <2>3 DEF Seat, Talks
  <2> QED BY <1>6, <2>4, PageStep
<1>13. CASE s.creator # r.id
  <2>1. PICK hosted : hosted = (r.id = s.creator)
    OBVIOUS
  <2>2. PICK g : g = [r EXCEPT !.state = "private", !.covered = FALSE, !.summary = s,
                               !.hosted = hosted, !.sent = -1, !.users = <<>>]
    OBVIOUS
  <2>3. PICK a : a = JoinRealm(s.number)
    OBVIOUS
  <2>4. q = Writes(g, <<a>>)
    BY <1>5, <1>13, <2>1, <2>2, <2>3, Zenon DEF NewPrivate
  <2>5. Alike(r, g) /\ g.state = "private"
    BY <1>10, <2>2 DEF Alike, PageOK, Fields
  <2>6. PageOK(g) /\ g.out = p.out
    BY <1>10, <2>5, AlikeTalks DEF Talks, Alike
  <2>7. RequestOK(a) /\ ~IsDown(a)
    BY <1>11, <2>3 DEF JoinRealm, RequestOK, IsDown
  <2>8. /\ RequestsOK(p.out \o <<a>>)
        /\ PrivateOrder(p.out \o <<a>>, LobbyRealm)
    BY <1>8, <2>7, OrderWithOne
  <2>9. /\ DOMAIN q = DOMAIN g /\ q.out = p.out \o <<a>> /\ q.state = "private"
        /\ q.count = g.count /\ q.realms = g.realms /\ q.timers = g.timers
    BY <2>4, <2>5, <2>6 DEF Writes, PageOK, Fields
  <2>10. PageOK(q)
    BY <2>6, <2>8, <2>9 DEF PageOK
  <2>11. PrivateOrder(q.out, LobbyRealm)
    BY <2>8, <2>9
  <2>12. Seat(q, userID[e], userRealm[e], Crowd)
    BY <1>6, <1>8, <2>9, <2>10, <2>11 DEF Seat
  <2> QED BY <1>6, <2>12, PageStep
<1> QED BY <1>12, <1>13

(* 50 milliseconds after a child realm was announced. *)
LEMMA TimerStep ==
    ASSUME LInv, NEW e \in EndPoint, Timer(e)
    PROVE  LInv'
<1>1. PICK p, n, l : p = page[e] /\ n = Head(p.timers) /\ l = Tail(p.timers)
  OBVIOUS
<1>2. PICK r : r = [p EXCEPT !.timers = l]
  OBVIOUS
<1>3. PICK k, a : k = "realmSummary" /\ a = LoadData(k, n)
  OBVIOUS
<1>4. PICK q : q = Writes(r, <<a>>)
  OBVIOUS
<1>5. userID[e] # NoUser /\ p.timers # <<>> /\ UNCHANGED vars
  BY <1>1, Zenon DEF Timer
<1>6. page' = [page EXCEPT ![e] = q]
  <2>1. page' = [page EXCEPT ![e] = AsksForSummary(p)]
    BY <1>1, Zenon DEF Timer
  <2>2. AsksForSummary(p) = q
    BY <1>1, <1>2, <1>3, <1>4, Zenon DEF AsksForSummary
  <2> QED BY <2>1, <2>2, Zenon
<1>7. Seat(p, userID[e], userRealm[e], Crowd) /\ PageOK(p)
  BY <1>1 DEF LInv, SeatOK, Seat
<1>8. p.state # "connecting"
  BY <1>5, <1>7 DEF Seat
<1>9. TimersOK(l) /\ n \in RealmNumber
  <2>1. List(p.timers) /\ \A i \in 1 .. Len(p.timers) : p.timers[i] \in RealmNumber
    BY <1>7 DEF PageOK, TimersOK
  <2>2. PICK m \in Nat \ {0} : m = Len(p.timers)
    BY <1>5, <2>1, ListTail
  <2>3. /\ n = p.timers[1] /\ List(l) /\ Len(l) = m - 1
        /\ \A i \in 1 .. m - 1 : l[i] = p.timers[i + 1]
    BY <1>1, <1>5, <2>1, <2>2, ListTail
  <2>4. 1 \in 1 .. m /\ \A i \in 1 .. m - 1 : i + 1 \in 1 .. m
    BY <2>2
  <2> QED BY <2>1, <2>2, <2>3, <2>4 DEF TimersOK
<1>10. /\ DOMAIN r = DOMAIN p /\ r.out = p.out /\ r.state = p.state
       /\ r.count = p.count /\ r.realms = p.realms /\ r.timers = l
  BY <1>2, <1>7 DEF PageOK, Fields
<1>11. Seat(r, userID[e], userRealm[e], Crowd)
  <2>1. PageOK(r)
    BY <1>7, <1>9, <1>10 DEF PageOK
  <2> QED BY <1>7, <1>8, <1>10, <2>1 DEF Seat
<1>12. RequestOK(a) /\ ~IsMove(a)
  <2>1. a.symbol = "<" /\ a.number = n
    BY <1>3 DEF LoadData
  <2> QED BY <1>9, <2>1 DEF RequestOK, IsMove
<1>13. Seat(q, userID[e], userRealm[e], Crowd)
  BY <1>4, <1>5, <1>8, <1>10, <1>11, <1>12, SeatWrites
<1> QED BY <1>5, <1>6, <1>13, PageStep
-----------------------------------------------------------------------------
(* What the server takes from a page. *)
LEMMA TakenFrom ==
    ASSUME LInv, NEW e \in EndPoint, page[e].out # <<>>, NEW h, h = Head(page[e].out)
    PROVE  /\ userID[e] # NoUser /\ RequestOK(h)
           /\ page[e].state = "connecting" => userRealm[e] = NoRealm /\ h.symbol = "^"
<1>1. PICK p : p = page[e]
  OBVIOUS
<1>2. Seat(p, userID[e], userRealm[e], Crowd)
  BY <1>1 DEF LInv, SeatOK
<1>3. userID[e] # NoUser /\ RequestsOK(p.out)
  BY <1>1, <1>2 DEF Seat, PageOK
<1>4. RequestOK(h)
  BY <1>1, <1>3, OrdersTaken
<1>5. p.state = "connecting" => userRealm[e] = NoRealm /\ p.out = <<JoinRealm(LobbyRealm)>>
  BY <1>2, <1>3 DEF Seat
<1>6. p.out = <<JoinRealm(LobbyRealm)>> => h.symbol = "^"
  BY <1>1 DEF JoinRealm
<1> QED BY <1>1, <1>3, <1>4, <1>5, <1>6

LEMMA SilenceTells ==
    ASSUME outbox' = Silence, NEW text
    PROVE  \A x \in EndPoint : Tells(Frames(outbox'[x], text), 0)
<1>1. ASSUME NEW x \in EndPoint
      PROVE  Tells(Frames(outbox'[x], text), 0)
  <2>1. outbox'[x] = <<>>
    BY DEF Silence
  <2>2. Tells(Frames(<<>>, text), 0)
    BY TellsPacket, Zenon
  <2> QED BY <2>1, <2>2, Zenon
<1> QED BY <1>1

LEMMA SendTells ==
    ASSUME NEW X, NEW m, outbox' = SendTo(X, m), NEW text, Tells(Frames(<<m>>, text), 0)
    PROVE  \A x \in EndPoint : Tells(Frames(outbox'[x], text), 0)
<1>1. ASSUME NEW x \in EndPoint
      PROVE  Tells(Frames(outbox'[x], text), 0)
  <2>1. outbox'[x] = <<>> \/ outbox'[x] = <<m>>
    BY DEF SendTo
  <2>2. Tells(Frames(<<>>, text), 0)
    BY TellsPacket, Zenon
  <2> QED BY <2>1, <2>2, Zenon
<1> QED BY <1>1

(* "^n" *)
LEMMA JoinServed ==
    ASSUME LInv, NEW e \in EndPoint, page[e].out # <<>>, NEW h, h = Head(page[e].out),
           h.symbol = "^", JoinNumbered(e, h.number, FALSE), NEW text, page' = ReadAll(e, text)
    PROVE  LInv'
<1>1. PICK child \in BOOLEAN : child = FALSE
  OBVIOUS
<1>2. /\ ChangeRealm(e, h.number, child, reclaimableRealmIDs)
      /\ UNCHANGED <<userVars, nextRealmID, now>>
  BY <1>1, Zenon DEF JoinNumbered
<1>3. /\ userID[e] # NoUser /\ RequestOK(h)
      /\ page[e].state = "connecting" => userRealm[e] = NoRealm
  BY TakenFrom
<1>4. PICK target \in RealmNumber : target = h.number
  BY <1>3 DEF RequestOK
<1>5. IInv /\ IInv' /\ userID' = userID
  <2>1. /\ reclaimableRealmIDs \in Seq(RealmNumber)
        /\ nextRealmID \in PublicRealmCount .. MaxRealmID + 1 /\ IInv
    BY DEF LInv, IInv, TypeOK
  <2>2. nextRealmID' \in PublicRealmCount .. MaxRealmID + 1
    BY <1>2, <2>1
  <2>3. ChangeRealm(e, target, child, reclaimableRealmIDs) /\ UNCHANGED <<userVars, now>>
    BY <1>2, <1>4
  <2>4. IInv'
    BY <1>3, <2>1, <2>2, <2>3, ChangeIsOK
  <2> QED BY <1>2, <2>1, <2>4 DEF userVars
<1>6. CASE userRealm[e] = target
  <2>1. outbox' = Silence /\ userRealm' = userRealm
    BY <1>2, <1>4, <1>6 DEF ChangeRealm, StayInRealm
  <2>2. target # NoRealm
    BY DEF RealmNumber, NoRealm
  <2>3. \A x \in EndPoint : Tells(Frames(outbox'[x], text), 0)
    BY <2>1, SilenceTells
  <2> QED BY <1>3, <1>5, <1>6, <2>1, <2>2, <2>3, TalkKeepsSeats
<1>7. CASE userRealm[e] # target
  <2>1. MoveToRealm(e, target, child, reclaimableRealmIDs)
    BY <1>2, <1>4, <1>7 DEF ChangeRealm
  <2>2. /\ IsMove(h) /\ (h.symbol = "^" => target = h.number)
        /\ (h.symbol = "&" => target # LobbyRealm) /\ (child => h.symbol = "&")
    BY <1>1, <1>4 DEF IsMove
  <2> QED BY <1>3, <1>5, <1>7, <2>1, <2>2, MoveKeepsSeats
<1> QED BY <1>6, <1>7

(* The private numbers that wait to be used again. *)
QueueOK == \A n \in ToSet(reclaimableRealmIDs) : Private(n)

(* "&" *)
LEMMA CreateServed ==
    ASSUME LInv, QueueOK, NEW e \in EndPoint, page[e].out # <<>>, NEW h,
           h = Head(page[e].out), h.symbol = "&", CreateRealm(e, TRUE), NEW text,
           page' = ReadAll(e, text)
    PROVE  LInv'
<1>1. PICK child \in BOOLEAN : child = TRUE
  OBVIOUS
<1>2. PICK target, queue : /\ target = LowNumber(reclaimableRealmIDs, nextRealmID)
                           /\ queue = Rest(reclaimableRealmIDs)
  OBVIOUS
<1>3. /\ target <= MaxRealmID /\ ChangeRealm(e, target, child, queue)
      /\ nextRealmID' = NextAfter(reclaimableRealmIDs, nextRealmID)
      /\ UNCHANGED <<userVars, now>>
  BY <1>1, <1>2, Zenon DEF CreateRealm
<1>4. userID[e] # NoUser /\ page[e].state # "connecting"
  BY TakenFrom
<1>5. IInv /\ reclaimableRealmIDs \in Seq(RealmNumber)
      /\ nextRealmID \in PublicRealmCount .. MaxRealmID + 1
  BY DEF LInv, IInv, TypeOK
<1>6. /\ target \in RealmNumber /\ queue \in Seq(RealmNumber)
      /\ nextRealmID' \in PublicRealmCount .. MaxRealmID + 1
  BY <1>2, <1>3, <1>5, LowNumberIsNumber
<1>7. Private(target)
  <2>1. CASE reclaimableRealmIDs # <<>>
    <3>1. target = Head(reclaimableRealmIDs)
      BY <1>2, <2>1 DEF LowNumber
    <3>2. target \in ToSet(reclaimableRealmIDs)
      BY <1>5, <2>1, <3>1 DEF ToSet
    <3> QED BY <3>2 DEF QueueOK
  <2>2. CASE reclaimableRealmIDs = <<>>
    <3>1. target = nextRealmID
      BY <1>2, <2>2 DEF LowNumber
    <3> QED BY <1>5, <3>1, RelayAssumption DEF Private
  <2> QED BY <2>1, <2>2
<1>8. target # LobbyRealm
  BY <1>7, LobbyAssumption
<1>9. IInv' /\ userID' = userID
  <2>1. IInv'
    BY <1>3, <1>4, <1>5, <1>6, ChangeIsOK
  <2> QED BY <1>3, <2>1 DEF userVars
<1>10. CASE userRealm[e] = target
  <2>1. outbox' = Silence /\ userRealm' = userRealm
    BY <1>3, <1>10 DEF ChangeRealm, StayInRealm
  <2>2. \A x \in EndPoint : Tells(Frames(outbox'[x], text), 0)
    BY <2>1, SilenceTells
  <2> QED BY <1>4, <1>9, <2>1, <2>2, TalkKeepsSeats
<1>11. CASE userRealm[e] # target
  <2>1. MoveToRealm(e, target, child, queue)
    BY <1>3, <1>11 DEF ChangeRealm
  <2>2. /\ IsMove(h) /\ (h.symbol = "^" => target = h.number)
        /\ (h.symbol = "&" => target # LobbyRealm) /\ (child => h.symbol = "&")
    BY <1>8 DEF IsMove
  <2> QED BY <1>4, <1>6, <1>9, <1>11, <2>1, <2>2, MoveKeepsSeats
<1> QED BY <1>10, <1>11
(* "*", "!", "@n" and ":n" *)
LEMMA TalkServed ==
    ASSUME LInv, NEW e \in EndPoint, page[e].out # <<>>, page[e].state # "connecting",
           NEW n, \/ SendToUser(e, n) \/ SendExcept(e) \/ SendToAll(e) \/ SendToRealm(e, n),
           NEW text, page' = ReadAll(e, text)
    PROVE  LInv'
<1>1. IInv' /\ UNCHANGED <<userVars, realmVars, storeVars>>
  BY TalkIsOK DEF LInv
<1>2. UNCHANGED <<userID, userRealm>>
  BY <1>1 DEF userVars, realmVars
<1>3. PICK all, except, one, id : all = "*" /\ except = "!" /\ one = "@" /\ id = userID[e]
  OBVIOUS
<1>4. /\ Tells(Frames(<<Packet(all, id)>>, text), 0)
      /\ Tells(Frames(<<Packet(except, id)>>, text), 0)
      /\ Tells(Frames(<<Packet(one, id)>>, text), 0)
  <2>1. all \in {"@", "!", "*"} /\ except \in {"@", "!", "*"} /\ one \in {"@", "!", "*"}
    BY <1>3
  <2>2. \A symbol \in {"@", "!", "*"} : Tells(Frames(<<Packet(symbol, id)>>, text), 0)
    BY TellsPacket, Zenon
  <2> QED BY <2>1, <2>2, Zenon
<1>5. CASE SendToUser(e, n)
  <2>1. PICK X : outbox' = SendTo(X, Packet(one, id))
    BY <1>3, <1>5, Zenon DEF SendToUser
  <2>2. \A x \in EndPoint : Tells(Frames(outbox'[x], text), 0)
    BY <1>4, <2>1, SendTells
  <2> QED BY <1>1, <1>2, <2>2, TalkKeepsSeats
<1>6. CASE SendExcept(e)
  <2>1. PICK X : outbox' = SendTo(X, Packet(except, id))
    BY <1>3, <1>6, Zenon DEF SendExcept
  <2>2. \A x \in EndPoint : Tells(Frames(outbox'[x], text), 0)
    BY <1>4, <2>1, SendTells
  <2> QED BY <1>1, <1>2, <2>2, TalkKeepsSeats
<1>7. CASE SendToAll(e)
  <2>1. PICK X : outbox' = SendTo(X, Packet(all, id))
    BY <1>3, <1>7, Zenon DEF SendToAll
  <2>2. \A x \in EndPoint : Tells(Frames(outbox'[x], text), 0)
    BY <1>4, <2>1, SendTells
  <2> QED BY <1>1, <1>2, <2>2, TalkKeepsSeats
<1>8. CASE SendToRealm(e, n)
  <2>1. outbox' = Silence \/ \E X : outbox' = SendTo(X, Packet(one, id))
    BY <1>3, <1>8, Zenon DEF SendToRealm
  <2>2. \A x \in EndPoint : Tells(Frames(outbox'[x], text), 0)
    <3>1. CASE outbox' = Silence
      BY <3>1, SilenceTells
    <3>2. CASE \E X : outbox' = SendTo(X, Packet(one, id))
      <4>1. PICK X : outbox' = SendTo(X, Packet(one, id))
        BY <3>2
      <4> QED BY <1>4, <4>1, SendTells
    <3> QED BY <2>1, <3>1, <3>2
  <2> QED BY <1>1, <1>2, <2>2, TalkKeepsSeats
<1> QED BY <1>5, <1>6, <1>7, <1>8

(* ">k,t d" *)
LEMMA SaveServed ==
    ASSUME LInv, NEW e \in EndPoint, page[e].out # <<>>, page[e].state # "connecting",
           NEW k, NEW t \in Int, NEW d, SaveEntity(e, k, t, d), NEW text,
           page' = ReadAll(e, text)
    PROVE  LInv'
<1>1. IInv' /\ UNCHANGED <<userVars, realmVars, now>>
  BY SaveIsOK DEF LInv
<1>2. UNCHANGED <<userID, userRealm>>
  BY <1>1 DEF userVars, realmVars
<1>3. outbox' = Silence
  BY DEF SaveEntity
<1>4. \A x \in EndPoint : Tells(Frames(outbox'[x], text), 0)
  BY <1>3, SilenceTells
<1> QED BY <1>1, <1>2, <1>4, TalkKeepsSeats

(* "<r,k" *)
LEMMA LoadServed ==
    ASSUME LInv, NEW e \in EndPoint, page[e].out # <<>>, page[e].state # "connecting",
           NEW r \in RealmNumber, NEW k, LoadEntity(e, r, k), NEW text,
           page' = ReadAll(e, text)
    PROVE  LInv'
<1>1. IInv' /\ UNCHANGED <<userVars, realmVars, now>>
  BY LoadIsOK DEF LInv
<1>2. UNCHANGED <<userID, userRealm>>
  BY <1>1 DEF userVars, realmVars
<1>3. PICK d : outbox' = SendTo({e}, DataPacket(r, k, d))
  BY Zenon DEF LoadEntity
<1>4. Tells(Frames(<<DataPacket(r, k, d)>>, text), 0)
  BY TellsPacket, Zenon
<1>5. \A x \in EndPoint : Tells(Frames(outbox'[x], text), 0)
  BY <1>3, <1>4, SendTells
<1> QED BY <1>1, <1>2, <1>5, TalkKeepsSeats

(* Nothing comes of it. *)
LEMMA IgnoredServed ==
    ASSUME LInv, NEW e \in EndPoint, page[e].out # <<>>, page[e].state # "connecting",
           NEW h, Ignored(h), NEW text, page' = ReadAll(e, text)
    PROVE  LInv'
<1>1. UNCHANGED <<userVars, realmVars, storeVars>> /\ outbox' = Silence
  BY DEF Ignored
<1>2. IInv'
  <2>1. files' \subseteq files /\ UNCHANGED now
    BY <1>1 DEF storeVars
  <2>2. DirectoryOK'
    BY <2>1, PartsStay DEF LInv
  <2> QED BY <1>1, <2>2, OnlyFilesChange DEF LInv
<1>3. UNCHANGED <<userID, userRealm>>
  BY <1>1 DEF userVars, realmVars
<1>4. \A x \in EndPoint : Tells(Frames(outbox'[x], text), 0)
  BY <1>1, SilenceTells
<1> QED BY <1>2, <1>3, <1>4, TalkKeepsSeats

LEMMA ServedStep ==
    ASSUME LInv, QueueOK, NEW e \in EndPoint, Served(e)
    PROVE  LInv'
<1>1. PICK h : h = Head(page[e].out)
  OBVIOUS
<1>2. page[e].out # <<>> /\ Serve(e, h)
  BY <1>1, ServedReads
<1>3. PICK text : page' = ReadAll(e, text)
  BY ServedReads
<1>4. /\ RequestOK(h)
      /\ page[e].state = "connecting" => userRealm[e] = NoRealm /\ h.symbol = "^"
  BY <1>1, <1>2, TakenFrom
<1>5. CASE h.symbol = "^" /\ JoinNumbered(e, h.number, FALSE)
  BY <1>1, <1>2, <1>3, <1>5, JoinServed
<1>6. CASE h.symbol = "&" /\ CreateRealm(e, TRUE)
  BY <1>1, <1>2, <1>3, <1>6, CreateServed
<1>7. CASE \/ h.symbol = "@" /\ SendToUser(e, h.number)
           \/ h.symbol = "!" /\ SendExcept(e)
           \/ h.symbol = "*" /\ SendToAll(e)
           \/ h.symbol = ":" /\ SendToRealm(e, h.number)
  <2>1. page[e].state # "connecting"
    BY <1>4, <1>7
  <2>2. PICK n : n = h.number
    OBVIOUS
  <2>3. SendToUser(e, n) \/ SendExcept(e) \/ SendToAll(e) \/ SendToRealm(e, n)
    BY <1>7, <2>2
  <2> QED BY <1>2, <1>3, <2>1, <2>3, TalkServed
<1>8. CASE h.symbol = ">" /\ SaveEntity(e, h.name, h.time, h.data)
  <2>1. page[e].state # "connecting"
    BY <1>4, <1>8
  <2>2. h.time \in Int
    BY <1>4, <1>8, LobbyAssumption DEF RequestOK
  <2>3. PICK k, t, d : k = h.name /\ t = h.time /\ d = h.data
    OBVIOUS
  <2>4. t \in Int /\ SaveEntity(e, k, t, d)
    BY <1>8, <2>2, <2>3
  <2> QED BY <1>2, <1>3, <2>1, <2>4, SaveServed
<1>9. CASE /\ h.symbol = "<"
           /\ LoadEntity(e, IF h.number = OwnRealm THEN userRealm[e] ELSE h.number, h.name)
  <2>1. page[e].state # "connecting"
    BY <1>4, <1>9
  <2>2. PICK r, k : r = (IF h.number = OwnRealm THEN userRealm[e] ELSE h.number) /\ k = h.name
    OBVIOUS
  <2>3. LoadEntity(e, r, k)
    BY <1>9, <2>2
  <2>4. userRealm[e] \in RealmNumber
    <3>1. userRealm[e] # NoRealm
      BY <2>3 DEF LoadEntity
    <3> QED BY <3>1 DEF LInv, IInv, TypeOK
  <2>5. r \in RealmNumber
    <3>1. h.number \in RealmNumber \cup {OwnRealm}
      BY <1>4, <1>9 DEF RequestOK
    <3> QED BY <2>2, <2>4, <3>1
  <2> QED BY <1>2, <1>3, <2>1, <2>3, <2>5, LoadServed
<1>10. CASE Ignored(h)
  <2>1. h.symbol # "^"
    BY <1>10 DEF Ignored
  <2>2. page[e].state # "connecting"
    BY <1>4, <2>1
  <2> QED BY <1>2, <1>3, <1>10, <2>2, IgnoredServed
<1> QED BY <1>2, <1>5, <1>6, <1>7, <1>8, <1>9, <1>10, Zenon DEF Serve

-----------------------------------------------------------------------------
(* The numbers that are freed are private ones. *)
LEMMA ChangeKeepsQueue ==
    ASSUME QueueOK, IInv, NEW e, NEW target \in RealmNumber \cup {NoRealm}, NEW child,
           NEW queue \in Seq(RealmNumber), ToSet(queue) \subseteq ToSet(reclaimableRealmIDs),
           ChangeRealm(e, target, child, queue)
    PROVE  QueueOK'
<1>1. CASE userRealm[e] = target
  <2>1. reclaimableRealmIDs' = queue
    BY <1>1 DEF ChangeRealm, StayInRealm
  <2> QED BY <2>1 DEF QueueOK
<1>2. CASE userRealm[e] # target
  <2>1. PICK D \in SUBSET RealmsAfter(target) :
           \E freed \in Reclaimed(D, ParentAfter(e, target, child)) :
             reclaimableRealmIDs' = queue \o freed
    BY <1>2, Zenon DEF ChangeRealm, MoveToRealm
  <2>2. PICK freed \in Reclaimed(D, ParentAfter(e, target, child)) :
           reclaimableRealmIDs' = queue \o freed
    BY <2>1
  <2>3. D \in SUBSET RealmNumber
    BY <2>1 DEF RealmsAfter, Creates, IInv, TypeOK
  <2>4. freed \in Seq(RealmNumber) /\ ToSet(freed) = {r \in D : Private(r)}
    <3>1. PICK parent : parent = ParentAfter(e, target, child)
      OBVIOUS
    <3> QED BY <2>2, <2>3, <3>1, ReclaimedDistinct
  <2>5. PICK m, n, u : m = Len(queue) /\ n = Len(freed) /\ u = queue \o freed
    OBVIOUS
  <2>. m \in Nat /\ n \in Nat
    BY <2>4, <2>5
  <2>6. /\ DOMAIN u = 1 .. m + n /\ DOMAIN queue = 1 .. m /\ DOMAIN freed = 1 .. n
        /\ \A i \in 1 .. m : u[i] = queue[i]
        /\ \A i \in 1 .. n : u[m + i] = freed[i]
    <3>1. List(queue) /\ List(freed)
      BY <2>4, ListOf
    <3>2. List(u) /\ Len(u) = m + n
      BY <2>5, <3>1, ListConcat
    <3> QED BY <2>5, <3>1, <3>2, ListConcat, ListPlaces
  <2>7. ASSUME NEW i \in 1 .. m + n
        PROVE  Private(u[i])
    <3>1. CASE i \in 1 .. m
      <4>1. u[i] \in ToSet(queue)
        BY <2>6, <3>1 DEF ToSet
      <4> QED BY <4>1 DEF QueueOK
    <3>2. CASE i \notin 1 .. m
      <4>1. i - m \in 1 .. n /\ m + (i - m) = i
        BY <3>2
      <4>2. u[i] = freed[i - m]
        BY <2>6, <4>1
      <4>3. u[i] \in ToSet(freed)
        BY <2>6, <4>1, <4>2 DEF ToSet
      <4> QED BY <2>4, <4>3
    <3> QED BY <3>1, <3>2
  <2>8. \A k \in ToSet(u) : Private(k)
    BY <2>6, <2>7 DEF ToSet
  <2> QED BY <2>2, <2>5, <2>8 DEF QueueOK
<1> QED BY <1>1, <1>2

LEMMA ServedKeepsQueue ==
    ASSUME LInv, QueueOK, NEW e \in EndPoint, Served(e)
    PROVE  QueueOK'
<1>1. PICK h : h = Head(page[e].out)
  OBVIOUS
<1>2. page[e].out # <<>> /\ Serve(e, h)
  BY <1>1, ServedReads
<1>3. IInv /\ reclaimableRealmIDs \in Seq(RealmNumber)
  BY DEF LInv, IInv, TypeOK
<1>4. CASE h.symbol = "^" /\ JoinNumbered(e, h.number, FALSE)
  <2>1. RequestOK(h)
    BY <1>1, <1>2, TakenFrom
  <2>2. PICK target, no : target = h.number /\ no = FALSE
    OBVIOUS
  <2>3. ChangeRealm(e, target, no, reclaimableRealmIDs)
    BY <1>4, <2>2 DEF JoinNumbered
  <2>4. /\ target \in RealmNumber \cup {NoRealm}
        /\ ToSet(reclaimableRealmIDs) \subseteq ToSet(reclaimableRealmIDs)
    BY <1>4, <2>1, <2>2 DEF RequestOK
  <2> QED BY <1>3, <2>3, <2>4, ChangeKeepsQueue
<1>5. CASE h.symbol = "&" /\ CreateRealm(e, TRUE)
  <2>1. PICK target, queue, child : /\ target = LowNumber(reclaimableRealmIDs, nextRealmID)
                                    /\ queue = Rest(reclaimableRealmIDs)
                                    /\ child = TRUE
    OBVIOUS
  <2>2. target <= MaxRealmID /\ ChangeRealm(e, target, child, queue)
    BY <1>5, <2>1 DEF CreateRealm
  <2>3. target \in RealmNumber /\ queue \in Seq(RealmNumber)
    BY <1>3, <2>1, <2>2, LowNumberIsNumber
  <2>4. ToSet(queue) \subseteq ToSet(reclaimableRealmIDs)
    <3>1. CASE reclaimableRealmIDs = <<>>
      BY <2>1, <3>1 DEF Rest
    <3>2. CASE reclaimableRealmIDs # <<>>
      <4>1. queue = Tail(reclaimableRealmIDs)
        BY <2>1, <3>2 DEF Rest
      <4>2. List(reclaimableRealmIDs)
        BY <1>3, ListOf
      <4>3. PICK m \in Nat \ {0} : m = Len(reclaimableRealmIDs)
        BY <3>2, <4>2, ListTail
      <4>4. /\ DOMAIN queue = 1 .. m - 1 /\ DOMAIN reclaimableRealmIDs = 1 .. m
            /\ \A i \in 1 .. m - 1 : queue[i] = reclaimableRealmIDs[i + 1]
        BY <3>2, <4>1, <4>2, <4>3, ListTail, ListPlaces
      <4>5. \A i \in 1 .. m - 1 : i + 1 \in 1 .. m
        BY <4>3
      <4> QED BY <4>4, <4>5 DEF ToSet
    <3> QED BY <3>1, <3>2
  <2> QED BY <1>3, <2>2, <2>3, <2>4, ChangeKeepsQueue
<1>6. CASE h.symbol \notin {"^", "&"}
  <2>1. UNCHANGED realmVars
    BY <1>2, <1>6, Zenon DEF Serve, SendToUser, SendExcept, SendToAll, SendToRealm,
       SaveEntity, LoadEntity, Ignored
  <2> QED BY <2>1 DEF realmVars, QueueOK
<1> QED BY <1>2, <1>4, <1>5, <1>6 DEF Serve, Ignored

-----------------------------------------------------------------------------
(* All steps of the lobby together. *)
LEMMA LeavingKeepsQueue ==
    ASSUME LInv, QueueOK, NEW e \in EndPoint, ClientDisconnected(e)
    PROVE  QueueOK'
<1>1. IInv /\ reclaimableRealmIDs \in Seq(RealmNumber)
  BY DEF LInv, IInv, TypeOK
<1>2. PICK no, target : no = FALSE /\ target = NoRealm
  OBVIOUS
<1>3. ChangeRealm(e, target, no, reclaimableRealmIDs)
  BY <1>2 DEF ClientDisconnected
<1>4. /\ target \in RealmNumber \cup {NoRealm}
      /\ ToSet(reclaimableRealmIDs) \subseteq ToSet(reclaimableRealmIDs)
  BY <1>2
<1> QED BY <1>1, <1>3, <1>4, ChangeKeepsQueue

LEMMA ClickKeepsSeats ==
    ASSUME LInv, QueueOK, NEW e \in EndPoint, Click(e)
    PROVE  LInv' /\ QueueOK'
<1>1. CASE ClickBackFromCreate(e)
  <2>1. ClientDisconnected(e)
    BY <1>1, Zenon DEF ClickBackFromCreate, CloseSocket
  <2> QED BY <1>1, <2>1, BackStep, LeavingKeepsQueue
<1>2. CASE ~ClickBackFromCreate(e)
  <2>1. \/ ClickCancel(e) \/ ClickHost(e) \/ ClickCreate(e) \/ ClickJoin(e)
        \/ ClickBack(e) \/ ClickReady(e) \/ ClickGo(e)
    BY <1>2, Zenon DEF Click
  <2>2. UNCHANGED vars
    BY <2>1, Zenon DEF ClickCancel, ClickHost, ClickCreate, ClickJoin, ClickBack,
       ClickReady, ClickGo, Clicks
  <2>3. LInv'
    BY <2>1, ClickCancelStep, ClickHostStep, ClickCreateStep, ClickJoinStep,
       ClickBackStep, ClickReadyStep, ClickGoStep, Zenon
  <2> QED BY <2>2, <2>3 DEF vars, realmVars, QueueOK
<1> QED BY <1>1, <1>2

LEMMA NextKeepsLInv == LInv /\ QueueOK /\ [LobbyNext]_lobbyVars => LInv' /\ QueueOK'
<1> SUFFICES ASSUME LInv, QueueOK, [LobbyNext]_lobbyVars
             PROVE  LInv' /\ QueueOK'
  OBVIOUS
<1>1. CASE UNCHANGED lobbyVars
  <2>1. UNCHANGED <<vars, page>>
    BY <1>1 DEF lobbyVars, relayVars
  <2>2. IInv'
    BY <2>1, NextKeepsIInv DEF LInv
  <2>3. UNCHANGED <<userID, userRealm, reclaimableRealmIDs>>
    BY <2>1 DEF vars, userVars, realmVars
  <2>4. Crowd' = Crowd
    BY <2>3, SameCrowd
  <2>5. \A e \in EndPoint : Seat(page'[e], userID'[e], userRealm'[e], Crowd')
    BY <2>1, <2>3, <2>4 DEF LInv, SeatOK
  <2>6. page' = [e \in EndPoint |-> page'[e]]
    BY <2>1 DEF LInv
  <2>7. LInv'
    BY <2>2, <2>5, <2>6, SeatsSettle
  <2> QED BY <2>3, <2>7 DEF QueueOK
<1>2. ASSUME NEW e \in EndPoint, Connect(e) \/ Reopen(e)
      PROVE  LInv' /\ QueueOK'
  <2>1. ClientConnected(e)
    BY <1>2, Zenon DEF Connect, Reopen, Open, NewSocket
  <2>2. UNCHANGED realmVars
    BY <2>1, Zenon DEF ClientConnected
  <2>3. LInv'
    BY <1>2, ConnectStep, ReopenStep
  <2> QED BY <2>2, <2>3 DEF realmVars, QueueOK
<1>3. ASSUME NEW e \in EndPoint, Leave(e)
      PROVE  LInv' /\ QueueOK'
  <2>1. ClientDisconnected(e)
    BY <1>3, Zenon DEF Leave, CloseSocket
  <2> QED BY <1>3, <2>1, LeaveStep, LeavingKeepsQueue
<1>4. ASSUME NEW e \in EndPoint, LateClose(e) \/ Timer(e)
      PROVE  LInv' /\ QueueOK'
  <2>1. UNCHANGED vars
    BY <1>4, Zenon DEF LateClose, Timer
  <2>2. LInv'
    BY <1>4, LateCloseStep, TimerStep
  <2> QED BY <2>1, <2>2 DEF vars, realmVars, QueueOK
<1>5. ASSUME NEW e \in EndPoint, Served(e)
      PROVE  LInv' /\ QueueOK'
  BY <1>5, ServedStep, ServedKeepsQueue
<1>6. CASE LobbyNext
  <2>1. PICK e \in EndPoint : \/ Connect(e) \/ Leave(e) \/ Click(e)
                              \/ Reopen(e) \/ LateClose(e) \/ Timer(e) \/ Served(e)
    BY <1>6, Zenon DEF LobbyNext
  <2> QED BY <1>2, <1>3, <1>4, <1>5, <2>1, ClickKeepsSeats, Zenon
<1> QED BY <1>1, <1>6

LEMMA InitIsLInv == LobbyInit => LInv /\ QueueOK
<1> SUFFICES ASSUME LobbyInit
             PROVE  LInv /\ QueueOK
  OBVIOUS
<1>1. Init /\ IInv
  BY InitIsOK, Zenon DEF LobbyInit
<1>2. userID = NoUsers /\ reclaimableRealmIDs = <<>>
  BY <1>1, Zenon DEF Init, NewServer
<1>3. PICK none : none = "none"
  OBVIOUS
<1>4. page = [e \in EndPoint |-> NewPage(none, e)]
  BY <1>3, Zenon DEF LobbyInit
<1>5. ASSUME NEW e \in EndPoint
      PROVE  SeatOK(e)
  <2>1. PICK p : p = NewPage(none, e)
    OBVIOUS
  <2>2. PageOK(p) /\ p.state = none /\ p.out = <<>>
    BY <2>1, NewPageIsOK, Zenon
  <2>3. page[e] = p
    BY <1>4, <2>1, Zenon
  <2>4. \A realm, n : Seat(p, NoUser, realm, n)
    BY <1>3, <2>2, SeatOut
  <2>5. userID[e] = NoUser
    BY <1>2 DEF NoUsers
  <2> QED BY <2>3, <2>4, <2>5 DEF SeatOK
<1>6. page = [e \in EndPoint |-> page[e]]
  BY <1>4, Zenon
<1>7. QueueOK
  BY <1>2 DEF QueueOK, ToSet
<1> QED BY <1>1, <1>5, <1>6, <1>7 DEF LInv

LEMMA AlwaysLInv == LobbySpec => [](LInv /\ QueueOK)
BY InitIsLInv, NextKeepsLInv, PTL DEF LobbySpec

-----------------------------------------------------------------------------
(***************************************************************************)
(* lobbyUserCount of SelectRealmState.ts is never told how many there are: *)
(* it starts at 1 and follows "=", "+" and "-".  It is the number of users *)
(* in the lobby all the same, after every step, whatever the other pages   *)
(* and the users do meanwhile and in whatever order the server takes it.   *)
(***************************************************************************)
THEOREM LobbyIsCounted == LobbySpec => []LobbyCounted
<1>1. LInv => LobbyCounted
  BY DEF LInv, SeatOK, Seat, LobbyCounted, Crowd
<1> QED BY <1>1, AlwaysLInv, PTL

(***************************************************************************)
(* What the count rests on: whoever is shown the lobby, or the form for a  *)
(* new realm, is in the lobby for the server too, though its requests and  *)
(* the server's answers cross (assignRealmNumber of ConnectingState.ts and *)
(* PrivateRealmState.ts; Server.cs, ChangeRealm).                          *)
(***************************************************************************)
ShownAreThere ==
    \A e \in EndPoint :
        page[e].state \in {"select", "create"} =>
            userID[e] # NoUser /\ userRealm[e] = LobbyRealm

THEOREM LobbyIsShownInside == LobbySpec => []ShownAreThere
<1>1. LInv => ShownAreThere
  <2> SUFFICES ASSUME LInv, NEW e \in EndPoint, page[e].state \in {"select", "create"}
               PROVE  userID[e] # NoUser /\ userRealm[e] = LobbyRealm
    BY DEF ShownAreThere
  <2>1. userRealm[e] = LobbyRealm
    BY DEF LInv, SeatOK, Seat
  <2>2. LobbyRealm # NoRealm
    BY LobbyAssumption, RelayAssumption DEF RealmNumber, NoRealm
  <2> QED BY <2>1, <2>2 DEF LInv, IInv, Membership, Connected
<1> QED BY <1>1, AlwaysLInv, PTL
=============================================================================
