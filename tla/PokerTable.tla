------------------------------ MODULE PokerTable ------------------------------
(***************************************************************************)
(* The social poker game (Games/SocialPoker/(version1)/src/Session.ts):    *)
(* pages at one table, a realm of the relay server.  There is no referee:  *)
(* every page keeps the chips, the pot and the cards by itself from the    *)
(* commands it hears, and saves its own part in the realm's data.          *)
(*                                                                         *)
(* A handler that throws leaves what it did before; nothing follows.       *)
(***************************************************************************)
EXTENDS RelayLink, CommandCodec, ListBox, FiniteSetsExt

CONSTANTS
    TableRealm,    \* the realm of the table, 4 in the code
    StartChips,    \* the chips of a new User, 2000 in the code
    CardCount,     \* 52 in the code
    Rolls,         \* the random numbers of a shuffle: randomIndex per step
    PlayerName,    \* PlayerName[e]: the names the players at e type
    BetAmount,     \* the amounts they bet, none 0
    MaxBegun,      \* bound on the arrivals, departures and clicks
    MaxAtOnce      \* bound on what is on its way together

TTL == 14400

ASSUME PokerAssumption ==
    /\ TableRealm \in RealmNumber
    /\ StartChips \in Int
    /\ CardCount \in Nat
    /\ Rolls # {}
    /\ \A roll \in Rolls : \A i \in 1 .. CardCount : roll[i] \in 1 .. i
    /\ \A e, x \in EndPoint : e # x => PlayerName[e] \cap PlayerName[x] = {}
    /\ BetAmount \subseteq Int \ {0}
    /\ \A f \in LegacyFile : f.name[1] \in {"chips", "pot"} => f.data \in Seq(Int)
    /\ {MaxConnections, MaxBegun, MaxAtOnce} \subseteq Nat

VARIABLES
    begun,       \* how many things players have begun
    since,       \* which, since all was last quiet
    dealers      \* who has dealt since the last orderly shuffle

ghosts == <<begun, since, dealers>>
pokerVars == <<relayVars, ghosts>>

-----------------------------------------------------------------------------
(* Deck *)

(* One round of the loop: the card at the index and the one rolled. *)
SwapOver(cards, i, j) == [cards EXCEPT ![i] = cards[j]]
Swap(cards, i, j) == [cards EXCEPT ![i] = cards[j], ![j] = cards[i]]
Shuffled(roll) ==
    FoldLeft(LAMBDA cards, i : Swap(cards, CardCount + 1 - i, roll[CardCount + 1 - i]),
             [i \in 1 .. CardCount |-> i], [i \in 1 .. CardCount |-> i])

(* n calls of shift; a call on an empty deck returns undefined, which has  *)
(* no toString.                                                            *)
Top(p, n) == SubSeq(p.deck, 1, n)
Peeked(p, n) == p
Shifted(p, n) == [p EXCEPT !.deck = SubSeq(@, n + 1, Len(@))]
HasCards(p, n) == Len(p.deck) >= n

-----------------------------------------------------------------------------
(* User, and the list box that shows the users.                            *)

UnknownName == <<5, Blank, 5>>
NewUser(id) == [id |-> id, name |-> UnknownName, chips |-> StartChips,
                bet |-> 0, folded |-> FALSE]
Text(u) == Append(u.name, u.chips)

(* p.dealer is the number of the dealer while in the list.  A dealer that  *)
(* has left is still referred to, until there is a new one: p.former.      *)
AddUser(p, u) ==
    [p EXCEPT !.users = Append(@, u),
              !.box = SortByText(AddItem(@, u.id, Text(u)))]
EditUser(p, u) ==
    LET sorted == SortByText(SetItem(p.box, u.id, Text(u)))
    IN  [p EXCEPT !.box =
            [i \in DOMAIN sorted |->
               IF sorted[i].value = u.id
               THEN [sorted[i] EXCEPT !.bold = (u.id = p.dealer), !.struck = u.folded]
               ELSE sorted[i]]]
RemoveUser(p, i) ==
    LET u == p.users[i]
        gone == u.id = p.dealer
    IN  [p EXCEPT !.users = RemoveAt(@, i),
                  !.box = SortByText(RemoveItem(@, u.id)),
                  !.dealer = IF gone THEN NoUser ELSE @,
                  !.former = IF gone THEN <<u>> ELSE @]
Edited(p, i) == EditUser(p, p.users[i])

(* editUser of a dealer that has left throws, unless its number has been   *)
(* given to another user, whose option it then overwrites.                 *)
SetDealerOnly(p, i) == Edited([p EXCEPT !.dealer = p.users[i].id], i)
SetDealer(p, i) ==
    LET q == [p EXCEPT !.dealer = p.users[i].id]
        left == p.dealer = NoUser /\ p.former # <<>>
        old == First(p.users, LAMBDA u : u.id = p.dealer)
    IN  CASE left /\ ~HasItem(p.box, p.former[1].id) -> q
          [] left /\ HasItem(p.box, p.former[1].id) -> Edited(EditUser(q, p.former[1]), i)
          [] old # 0 -> Edited(Edited(q, old), i)
          [] OTHER -> Edited(q, i)

ClearBets(p) ==
    [p EXCEPT !.users = [i \in DOMAIN @ |-> [@[i] EXCEPT !.bet = 0]]]

Me == 1                   \* assignUserNumber adds this.me first

(* The entities of the realm, as <<kind, rest of the name>>. *)
ChipsKey(name) == <<"chips", KeyOf(name)>>
CardsKey(name) == <<"cards", KeyOf(name)>>
PotKey == <<"pot", <<>>>>
CommunityKey == <<"community", <<>>>>
Keys(name) == {ChipsKey(name), CardsKey(name), PotKey, CommunityKey}

(* What the server keeps.  A name has at most one blank and one comma:     *)
(* what follows a second one would become part of the time and the data.   *)
Names == UNION {PlayerName[e] : e \in EndPoint}
ASSUME NamesAssumption ==
    \A name \in Names :
        /\ \A key \in Keys(name) : key \in EntityName <=> Accepted(key[2])
        /\ \A c \in {Blank, Comma} :
              Cardinality({i \in DOMAIN name : name[i] = c}) <= 1
Save(k, d) == SaveData(k, IF d = <<>> THEN NoData ELSE d, TTL)
SaveMyChips(p) == Save(ChipsKey(p.name), <<p.users[Me].chips>>)
SavePot(p) == Save(PotKey, <<p.pot>>)

(* Commands.  Numbers need no quotes; a name goes through encode and       *)
(* decode, here where it is written.                                       *)
Command(c, parameters) == [command |-> c, parameters |-> parameters]
NameCommand(name) ==
    Command("NAME", Decode(Encode(<<<<6, 6>>, name>>))[2])

-----------------------------------------------------------------------------
(* The handlers of the Session p, for the frame m.                         *)

JoinAlone(p, n) == Writes(p, <<JoinRealm(TableRealm)>>)
AssignUserNumber(p, n) ==
    Writes(AddUser(p, [NewUser(n) EXCEPT !.name = p.name]),
           <<JoinRealm(TableRealm)>>)

AssignRealmNumber(p) ==
    Writes(p, <<LoadData(ChipsKey(p.name), OwnRealm), LoadData(PotKey, OwnRealm),
                LoadData(CardsKey(p.name), OwnRealm), LoadData(CommunityKey, OwnRealm)>>)

UsersJoined(p, ids) ==
    FoldLeft(LAMBDA q, id : Writes(AddUser(q, NewUser(id)),
                                   <<ToUser(id, Command("TELL_ME_ABOUT_YOU", <<>>))>>),
             p, ids)

IndexOf(p, id) == First(p.users, LAMBDA u : u.id = id)

UserLeft(p, id) == IF IndexOf(p, id) = 0 THEN p ELSE RemoveUser(p, IndexOf(p, id))

(* The list shrinks under the loop, which steps over every second user. *)
Offline(p) ==
    LET removed == [k \in 1 .. (Len(p.users) + 1) \div 2 |-> p.users[2 * k - 1].id]
    IN  FoldLeft(LAMBDA q, id : RemoveUser(q, IndexOf(q, id)), p, removed)

(* handleCommand; i is the sender's place in the list, c the command. *)
TellMeAboutYou(p, i) ==
    Writes(p, <<ToUser(p.users[i].id, NameCommand(p.name)),
                ToUser(p.users[i].id, Command("CHIPS", <<p.users[Me].chips>>))>>)

SavesChips(p) == Writes(p, <<SaveMyChips(p)>>)
SavesMoney(p) == Writes(p, <<SaveMyChips(p), SavePot(p)>>)

Bet(p, i, n) ==
    LET q == [p EXCEPT !.users[i].chips = @ - n, !.users[i].bet = @ + n, !.pot = @ + n]
    IN  Edited(IF i = Me THEN SavesMoney(q) ELSE q, i)

Claim(p, i) ==
    LET q == [p EXCEPT !.users[i].chips = @ + p.pot, !.users[i].bet = 0, !.pot = 0]
    IN  Edited(IF i = Me THEN SavesMoney(q) ELSE q, i)

(* The user named may have left: $first throws before anything is done. *)
Dealer(p, id) == IF IndexOf(p, id) = 0 THEN p ELSE SetDealer(p, IndexOf(p, id))

Shuffle(p, i, roll) ==
    LET unfolded == FoldLeft(LAMBDA q, j : Edited([q EXCEPT !.users[j].folded = FALSE], j),
                             ClearBets(p), [j \in DOMAIN p.users |-> j])
    IN  Writes([unfolded EXCEPT !.deck = Shuffled(roll), !.hand = <<>>, !.community = <<>>],
               <<Save(CardsKey(p.name), <<>>)>>
                 \o IF i = Me THEN <<Save(CommunityKey, <<>>)>> ELSE <<>>)

YourCards(p, cards) ==
    Writes([p EXCEPT !.hand = cards], <<Save(CardsKey(p.name), cards)>>)

(* The flop replaces the community cards, the turn and the river add one. *)
CommunityCards(p, i, kept, cards) ==
    Writes([ClearBets(p) EXCEPT !.community = kept \o cards],
           IF i = Me THEN <<Save(CommunityKey, kept \o cards)>> ELSE <<>>)

(* CHECK and REVEAL only show something.  RIVER_CARD is handled as         *)
(* TURN_CARD is, and stands with it for one command.                       *)
Hears(p, i, command, n, roll) ==
    CASE command = "TELL_ME_ABOUT_YOU" -> TellMeAboutYou(p, i)
      [] command = "NAME" -> Edited([p EXCEPT !.users[i].name = n[1]], i)
      [] command = "CHIPS" -> Edited([p EXCEPT !.users[i].chips = n[1]], i)
      [] command = "FOLD" -> Edited([p EXCEPT !.users[i].folded = TRUE], i)
      [] command = "BET" -> Bet(p, i, n[1])
      [] command = "CLAIM" -> Claim(p, i)
      [] command = "DEALER" -> Dealer(p, n[1])
      [] command = "SHUFFLE" -> Shuffle(p, i, roll)
      [] command = "YOUR_CARDS" -> YourCards(p, n)
      [] command = "FLOP_CARDS" -> CommunityCards(p, i, <<>>, n)
      [] command = "TURN_CARD" -> CommunityCards(p, i, p.community, n)
      [] command = "CHECK" -> p

(* An unknown sender makes $first throw: the command is missed. *)
HandleCommand(p, sender, c, roll) ==
    IF IndexOf(p, sender) = 0 THEN [p EXCEPT !.missed = TRUE]
    ELSE Hears(p, IndexOf(p, sender), c.command, c.parameters, roll)

(* handleData.  A name with a blank or a comma was saved under another, so *)
(* nobody is found, $first throws and nothing happens.                     *)
ChipsLoaded(p, name, data) ==
    LET i == First(p.users, LAMBDA u : u.name = name)
        q == IF data = <<>> THEN Writes(p, <<SaveMyChips(p)>>)
             ELSE [p EXCEPT !.users[Me].chips = data[1]]
    IN  IF i # Me THEN p
        ELSE Writes(Edited(q, Me),
                    <<ToAllExceptMe(Command("CHIPS", <<q.users[Me].chips>>))>>)

HandleData(p, key, data) ==
    CASE key[1] = "chips" -> ChipsLoaded(p, key[2], data)
      [] key[1] = "pot" -> [p EXCEPT !.pot = IF data = <<>> THEN 0 ELSE data[1]]
      [] key[1] = "cards" /\ data # <<>> -> [p EXCEPT !.hand = data]
      [] key[1] = "community" /\ data # <<>> -> [p EXCEPT !.community = data]
      [] OTHER -> p

(* handleSocketMessage, and the handler it calls. *)
Handled(p, m, roll) ==
    CASE m.symbol = "#" -> AssignUserNumber(p, m.number)
      [] m.symbol = "^" -> AssignRealmNumber(p)
      [] m.symbol = "=" -> UsersJoined(p, m.numbers)
      [] m.symbol = "+" -> UsersJoined(p, <<m.number>>)
      [] m.symbol = "-" -> UserLeft(p, m.number)
      [] m.symbol = "closed" -> Offline(p)
      [] m.symbol \in {"@", "!", "*"} -> HandleCommand(p, m.number, m.text, roll)
      [] m.symbol = "<" -> HandleData(p, m.name, IF m.data = NoData THEN <<>> ELSE m.data)

-----------------------------------------------------------------------------
(* What players do.                                                        *)

(* Something is begun when all is quiet, or while other things are on      *)
(* their way.  A behaviour is followed to the end of the first such round. *)
Begins(kind) ==
    /\ begun < MaxBegun
    /\ begun' = begun + 1
    /\ \/ Quiet /\ Len(since) <= 1 /\ since' = <<kind>>
       \/ ~Quiet /\ Len(since) < MaxAtOnce /\ since' = Append(since, kind)

(* missed and back are not in the code: a command was missed; this page    *)
(* replaces one shown before.                                              *)
Stale == "stale"      \* cards are about that no present deck is without

NewPage(name, roll) ==
    [name |-> name, users |-> <<>>, box |-> <<>>, dealer |-> NoUser, former |-> <<>>,
     deck |-> Shuffled(roll), hand |-> <<>>, community |-> <<>>, pot |-> 0, out |-> <<>>,
     missed |-> FALSE, back |-> FALSE]

(* The page is loaded (again), a name typed and Join clicked. *)
NameSpecified(e) ==
    /\ \E name \in PlayerName[e], roll \in Rolls :
          Open(e, [NewPage(name, roll) EXCEPT !.back = page[e].name # UnknownName],
                LAMBDA p, m : Handled(p, m, roll))
    /\ Begins("arrival")
    /\ dealers' = IF e \in dealers THEN dealers \cup {Stale} ELSE dealers

(* The page is closed or its connection lost. *)
Leave(e) ==
    /\ \E roll \in Rolls : CloseSocket(e, LAMBDA p, m : Handled(p, m, roll))
    /\ Begins("departure")
    /\ UNCHANGED dealers

(* A shuffle is orderly when nothing is on its way and nobody who is away  *)
(* has a hand saved.  A page that is loaded again has a new deck.          *)
Orderly == /\ Quiet
           /\ \A f \in files : f.name[1] = "cards" =>
                 \E x \in Connected : CardsKey(page[x].name) = f.name
DealersAfter(e, button) ==
    CASE button \in {"deal", "flop", "turn"} -> dealers \cup {e}
      [] button = "shuffle" -> IF Orderly THEN {} ELSE dealers \cup {Stale}
      [] OTHER -> dealers

(* A click of a user of the table writes requests and leaves the page p. *)
Clicks(e, button, p, requests) ==
    /\ userID[e] # NoUser
    /\ page[e].users # <<>>            \* the buttons are there
    /\ Begins("click")
    /\ dealers' = DealersAfter(e, button)
    /\ page' = [page EXCEPT ![e] = Writes(p, requests)]
    /\ UNCHANGED <<vars, connections>>

Says(command, parameters) == <<ToAll(Command(command, parameters))>>

ClickFold(e) == Clicks(e, "fold", page[e], Says("FOLD", <<>>))
ClickCheck(e) == Clicks(e, "check", page[e], Says("CHECK", <<>>))   \* or Reveal
ClickShuffle(e) == Clicks(e, "shuffle", page[e], Says("SHUFFLE", <<>>))
ClickBet(e) ==
    \E n \in BetAmount : Clicks(e, "bet", page[e], Says("BET", <<n>>))
ClickPot(e) ==
    /\ page[e].pot # 0
    /\ Clicks(e, "claim", page[e], Says("CLAIM", <<>>))
DoubleClickUser(e) ==
    \E i \in DOMAIN page[e].box :
        Clicks(e, "dealer", page[e], Says("DEALER", <<page[e].box[i].value>>))

(* Two cards to each user of the list, this one included, until the deck   *)
(* is empty.                                                               *)
ClickDeal(e) ==
    LET p == page[e]
        n == Cardinality({i \in DOMAIN p.users : HasCards(p, 2 * i)})
    IN  Clicks(e, "deal", Shifted(p, 2 * Len(p.users)),
               [i \in 1 .. n |->
                  ToUser(p.users[i].id,
                         Command("YOUR_CARDS", <<p.deck[2 * i - 1], p.deck[2 * i]>>))])

ClickCommunity(e, button, command, n) ==
    LET p == page[e]
    IN  Clicks(e, button, Shifted(p, n),
               IF HasCards(p, n) THEN Says(command, Top(p, n)) ELSE <<>>)
ClickFlop(e) == ClickCommunity(e, "flop", "FLOP_CARDS", 3)
ClickTurn(e) == ClickCommunity(e, "turn", "TURN_CARD", 1)           \* or River

Click(e) ==
    \/ ClickFold(e) \/ ClickCheck(e) \/ ClickShuffle(e) \/ ClickBet(e) \/ ClickPot(e)
    \/ DoubleClickUser(e) \/ ClickDeal(e) \/ ClickFlop(e) \/ ClickTurn(e)

Served(e) ==
    /\ \E roll \in Rolls : Route(e, LAMBDA p, m : Handled(p, m, roll))
    /\ UNCHANGED ghosts

PokerNext ==
    \E e \in EndPoint : NameSpecified(e) \/ Leave(e) \/ Click(e) \/ Served(e)

PokerInit ==
    /\ Init
    /\ connections = 0
    /\ page = [e \in EndPoint |->
                 NewPage(UnknownName, CHOOSE roll \in Rolls : TRUE)]
    /\ begun = 0
    /\ since = <<>>
    /\ dealers = {}

PokerSpec == PokerInit /\ [][PokerNext]_pokerVars
-----------------------------------------------------------------------------
(* Properties. *)

(* The shape of a Session: the users of the list differ, and whatever the  *)
(* shuffles roll the deck holds no card twice.                             *)
SessionOK(p) ==
    /\ \A u \in ToSet(p.users) : /\ u.id \in Nat /\ u.chips \in Int /\ u.bet \in Int
                                 /\ u.folded \in BOOLEAN
    /\ \A i, j \in DOMAIN p.users : p.users[i].id = p.users[j].id => i = j
    /\ p.dealer # NoUser => IndexOf(p, p.dealer) # 0
    /\ p.deck \in Seq(1 .. CardCount) /\ IsInjective(p.deck)
    /\ p.pot \in Int

TablesOK == \A e \in EndPoint : SessionOK(page[e])

AtTable == {e \in EndPoint : userRealm[e] = TableRealm}
Shown(e) == {<<u.id, u.chips>> : u \in ToSet(page[e].users)}
ShownName(e, id) == page[e].users[IndexOf(page[e], id)].name

(* The names that encode and decode give back: a backslash is doubled      *)
(* where nothing is quoted, and a quote is lost.                           *)
Returns(name) ==
    /\ Quote \notin ToSet(name)
    /\ Backslash \in ToSet(name) => Blank \in ToSet(name)

(* Orderly play, arrivals that overlap, and clicks that race: once all is  *)
(* quiet every page at the table shows the users that are there, and for   *)
(* each the same chips, the same pot and the same community cards, as      *)
(* every page applies the same commands in the same order and a newcomer   *)
(* learns the rest from the realm's data and from the others.  A name is   *)
(* shown everywhere as its player has typed it, when encode and decode     *)
(* give it back; of others the other pages show something else.  (A click  *)
(* that crosses an arrival can make the pages differ.)                     *)
TablesAgree ==
    Quiet /\ ~ {"arrival", "click"} \subseteq ToSet(since) =>
        \A e, x \in AtTable :
            /\ {u.id : u \in ToSet(page[e].users)} = {userID[y] : y \in AtTable}
            /\ Shown(e) = Shown(x)
            /\ Returns(page[x].name) => ShownName(e, userID[x]) = page[x].name
            /\ page[e].pot = page[x].pot
            /\ page[e].community = page[x].community

(* What the realm's data says of k, or else the number n. *)
Saved(k, n) ==
    IF LoadedData(TableRealm, k) = NoData THEN n ELSE LoadedData(TableRealm, k)[1]
SavedChips == MapThenSumSet(LAMBDA name : Saved(ChipsKey(name), StartChips), Names)

(* In orderly play no chip is made or lost, whoever bets, claims, leaves   *)
(* and comes back: the chips the realm's data keeps for the players and    *)
(* the pot it keeps add up to what they started with, and are what the     *)
(* pages show.  (A name with a blank is saved under another name, and its  *)
(* chips are not found again when its player comes back; of a name with    *)
(* other characters than letters and digits nothing is saved.)             *)
Faithful(name) == KeyOf(name) = name
MoneyKept ==
    /\ Quiet /\ Len(since) <= 1
    /\ \A name \in Names : ChipsKey(name) \in EntityName
    /\ \A e \in EndPoint : page[e].back => \A name \in PlayerName[e] : Faithful(name)
    =>  /\ SavedChips + Saved(PotKey, 0) = StartChips * Cardinality(Names)
        /\ \A e \in AtTable :
              /\ page[e].pot = Saved(PotKey, 0)
              /\ page[e].users[Me].chips = Saved(ChipsKey(page[e].name), StartChips)

(* The cards on the table: those of every hand, and the community cards.   *)
(* With one dealer since the last orderly shuffle no card is there twice.  *)
NoCardTwice ==
    Quiet /\ Len(since) <= 1 /\ Cardinality(dealers) <= 1 =>
        \A e \in AtTable :
            /\ IsInjective(page[e].hand \o page[e].community)
            /\ \A x \in AtTable \ {e} :
                  ToSet(page[e].hand) \cap ToSet(page[x].hand) = {}

(* setDealer: at most one user is shown as the dealer, the one that is;    *)
(* and it is shown, unless a former dealer had left before, whose option   *)
(* can no longer be edited.                                                *)
DealerShown ==
    \A e \in EndPoint :
        LET p == page[e]
            bold == {o.value : o \in {o \in ToSet(p.box) : o.bold}}
        IN  /\ bold \subseteq {p.dealer}
            /\ p.former = <<>> /\ p.dealer # NoUser => bold = {p.dealer}

(* The list box, sorted in place under a loop whose bound it moves, holds  *)
(* one option for each user, with the user's name, chips and fold.         *)
ListShowsUsers ==
    \A e \in EndPoint :
        LET p == page[e]
        IN  /\ Len(p.box) = Len(p.users)
            /\ \A u \in ToSet(p.users) : HasItem(p.box, u.id)
            /\ p.former = <<>> =>
                  \A u \in ToSet(p.users), o \in ToSet(p.box) :
                     o.value = u.id => o.text = Text(u) /\ o.struck = u.folded

(* handleCommand throws when it does not know the sender.  That happens    *)
(* only to a page that has come in the place of one that has left: a user  *)
(* is announced before it is heard, to everyone who hears it.              *)
SendersKnown ==
    \A e \in EndPoint :
        page[e].missed => {"arrival", "departure"} \subseteq ToSet(since)
===============================================================================
