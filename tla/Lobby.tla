-------------------------------- MODULE Lobby --------------------------------
(***************************************************************************)
(* The realm lobby (Javascript/WSRelayLobby): pages that meet in a public  *)
(* realm of the relay server, host child realms of it and start together.  *)
(* What others know of a realm is two entities its host saves, a count the *)
(* host announces to the lobby, and what its users tell each other.        *)
(*                                                                         *)
(* p.state is the handler of the page's client; a handler that throws      *)
(* leaves what it did before.  Names are such that encode and decode give  *)
(* them back unchanged; onCompleted returns a handler, as the lobby's      *)
(* games do, whose calls change nothing here.                              *)
(***************************************************************************)
EXTENDS RelayLink, ListBox

CONSTANTS
    LobbyRealm,      \* task.realmNumber
    Task,            \* the tasks played: [startMode, realmVisibility]
    SaveTime,        \* the time of the entities saved, 0 in the code
    MaxBegun,        \* bound on what users begin
    MaxAtOnce,       \* bound on what is on its way together
    MaxRacers,       \* bound on the sockets opened when more than one thing is
    MaxOpened        \* bound on the sockets and realm numbers opened together

ASSUME LobbyAssumption ==
    /\ LobbyRealm \in RealmNumber /\ ~Private(LobbyRealm)
    /\ Task # {}
    /\ Task \subseteq [startMode : {"whenAllIndicateReady", "whenHostConfirms"},
                       realmVisibility : {"setupOnly", "always"}]
    /\ SaveTime \in Nat
    /\ {MaxConnections, MaxBegun, MaxAtOnce, MaxRacers, MaxOpened} \subseteq Nat

VARIABLES
    task,      \* the RealmSelectionTask of every page
    begun,     \* how many things users have begun
    since,     \* which, since all was last quiet
    early      \* a summary was loaded while others' requests were on their way

lobbyVars == <<relayVars, task, begun, since, early>>

-----------------------------------------------------------------------------
(* RealmSummary, RealmDetails, User *)

(* The names of the two entities are accepted by the server. *)
ASSUME LobbyEntities == {"realmSummary", "realmDetails"} \subseteq EntityName

NewSummaryOfNobody(n, creator) ==
    [number |-> n, creator |-> 0, count |-> 0, running |-> FALSE]
NewSummary(n, creator) ==
    [number |-> n, creator |-> creator, count |-> 0, running |-> FALSE]
FromJson(n, d) ==
    [number |-> n, creator |-> d.creator, count |-> d.count, running |-> d.running]
NoSummary == NewSummary(NoRealm, NoUser)
NewUser(n, name, host) ==
    [number |-> n, name |-> name, status |-> "notReady", host |-> host]
Unnamed == "Unnamed"

Command(c, parameters) == [command |-> c, parameters |-> parameters]
SaveSummary(p) == SaveData("realmSummary", p.summary, SaveTime)
SaveDetails(p) == SaveData("realmDetails", p.users, SaveTime)

(* getUser: the place of a user in a list, 0 for null. *)
GetUser(users, n) == First(users, LAMBDA u : u.number = n)

-----------------------------------------------------------------------------
(* The states' constructors.  covered: the container shows something else, *)
(* and has no buttons of this state.  late: the onclose of a socket the    *)
(* page has closed itself is still to come.                                *)

NewPage(state, name) ==
    [state |-> state, name |-> name, covered |-> FALSE, late |-> FALSE,
     id |-> NoUser, realm |-> NoRealm, count |-> 0, realms |-> <<>>, timers |-> <<>>,
     alone |-> FALSE, stale |-> FALSE, summary |-> NoSummary, hosted |-> FALSE,
     sent |-> -1, users |-> <<>>, pending |-> <<>>, me |-> <<>>, out |-> <<>>]

NewOffline(p) == [NewPage("offline", p.name) EXCEPT !.late = p.late]

(* alone and stale are not in the code: nobody was in the lobby before     *)
(* this page; the list was out of date when its Join was clicked.          *)
NewSelectCountsOn(p) ==
    [p EXCEPT !.state = "select", !.covered = FALSE, !.count = @ + 1, !.realms = <<>>,
              !.alone = TRUE, !.stale = FALSE, !.users = <<>>, !.hosted = FALSE]
NewSelect(p) ==
    [p EXCEPT !.state = "select", !.covered = FALSE, !.count = 1, !.realms = <<>>,
              !.alone = TRUE, !.stale = FALSE, !.users = <<>>, !.hosted = FALSE]

(* What a host tells the users of the lobby. *)
ToOwnRealm(p, c) == ToRealm(p.summary.number, c)
ToLobby(p, c) == ToRealm(LobbyRealm, c)

(* advertiseChangeToUsersList, of the two states that have one. *)
Advertise(p, host) ==
    LET n == Len(p.users)
        q == [p EXCEPT !.summary.count = n]
    IN  IF ~host THEN q
        ELSE Writes([q EXCEPT !.sent = n],
                    <<SaveSummary(q), SaveDetails(q)>>
                      \o IF p.sent = n THEN <<>>
                         ELSE <<ToLobby(p, Command("USER_COUNT", <<p.summary.number, n>>))>>)

AddMe(p) ==
    Advertise([p EXCEPT !.users = Append(@, NewUser(p.id, p.name, p.hosted))], p.hosted)

NewPrivate(p, s) ==
    LET hosted == p.id = s.creator
        q == [p EXCEPT !.state = "private", !.covered = FALSE, !.summary = s,
                       !.hosted = hosted, !.sent = -1, !.users = <<>>]
    IN  IF hosted THEN AddMe(q) ELSE Writes(q, <<JoinRealm(s.number)>>)

(* me refers to the user of the list, and stays when that one goes. *)
NewCompleted(p) ==
    LET i == SelectLastInSeq(p.users, LAMBDA u : u.number = p.id)
    IN  [p EXCEPT !.state = "completed", !.covered = FALSE, !.sent = -1, !.pending = <<>>,
                  !.me = IF i = 0 THEN <<>> ELSE <<p.users[i]>>]

Over(p) == [p EXCEPT !.state = "over"]       \* client.handler = null

-----------------------------------------------------------------------------
(* SelectRealmState *)

GetRealm(p, n) ==        \* the last one of that number
    CHOOSE i \in 0 .. Len(p.realms) :
        /\ i > 0 => p.realms[i].number = n
        /\ \A j \in i + 1 .. Len(p.realms) : p.realms[j].number # n

Unremoved(p, n) == p
RemoveRealm(p, n) ==
    IF GetRealm(p, n) = 0 THEN p
    ELSE [p EXCEPT !.realms = RemoveAt(@, GetRealm(p, n))]

SelectHears(p, c) ==
    LET n == c.parameters[1]
        i == GetRealm(p, n)
    IN  CASE c.command = "USER_COUNT" /\ i # 0 -> [p EXCEPT !.realms[i].count = c.parameters[2]]
          [] c.command = "STARTING" /\ c.parameters # <<>> /\ i # 0 ->
                IF task.realmVisibility = "setupOnly" THEN RemoveRealm(p, n)
                ELSE [p EXCEPT !.realms[i].running = TRUE]
          [] OTHER -> p

SelectLoads(p, m) ==
    IF /\ m.name = "realmSummary" /\ m.data # NoData
       /\ task.realmVisibility = "always" \/ ~m.data.running
    THEN [p EXCEPT !.realms = Append(@, FromJson(m.realm, m.data))]
    ELSE p

InSelect(p, m) ==
    CASE m.symbol = "closed" -> NewOffline(p)
      [] m.symbol = "=" -> [p EXCEPT !.count = @ + Len(m.numbers), !.alone = FALSE]
      [] m.symbol = "+" -> [p EXCEPT !.count = @ + 1]
      [] m.symbol = "-" -> [p EXCEPT !.count = @ - 1]
      [] m.symbol = "{" -> [p EXCEPT !.timers = Append(@, m.number)]
      [] m.symbol = "}" -> RemoveRealm(p, m.number)
      [] m.symbol \in {"@", "!", "*"} -> SelectHears(p, m.text)
      [] m.symbol = "<" -> SelectLoads(p, m)
      [] OTHER -> p

-----------------------------------------------------------------------------
(* ConnectingState (joinRealm is sent when the socket opens, just before   *)
(* the number comes) and CreatePrivateRealmState                           *)

InConnecting(p, m) ==
    CASE m.symbol = "closed" -> NewOffline(p)
      [] m.symbol = "#" -> Writes(p, <<JoinRealm(LobbyRealm)>>)
      [] m.symbol = "^" /\ m.number = LobbyRealm -> NewSelect(p)
      [] OTHER -> p

InCreate(p, m) ==
    CASE m.symbol = "closed" -> NewOffline(p)
      [] m.symbol \in {"^", "&"} ->
            LET s == NewSummary(m.number, p.id)
            IN  NewPrivate(Writes(p, <<SaveSummary([p EXCEPT !.summary = s])>>), s)
      [] OTHER -> p

-----------------------------------------------------------------------------
(* PrivateRealmState *)

(* Into a realm that runs: its details, instead of its users one by one. *)
UsersJoined(p, ids, before) ==
    IF before /\ p.summary.running
    THEN Writes(p, <<LoadData("realmDetails", OwnRealm)>>)
    ELSE LET q == [p EXCEPT !.users = @ \o [i \in DOMAIN ids |-> NewUser(ids[i], Unnamed, FALSE)]]
         IN  Advertise(Writes(q, [i \in DOMAIN ids |-> ToUser(ids[i], Command("GET", <<>>))]),
                       p.hosted)

(* A user that is not found is null: indexOf gives -1, and the last of the *)
(* list goes.                                                              *)
UserLeft(p, n) ==
    LET i == GetUser(p.users, n)
        users == IF i = 0 THEN SubSeq(p.users, 1, Len(p.users) - 1) ELSE RemoveAt(p.users, i)
    IN  Writes(Advertise([p EXCEPT !.users = users], p.hosted),
               IF n = p.summary.creator THEN <<JoinRealm(LobbyRealm)>> ELSE <<>>)

CheckGo(p) ==
    LET q == [Advertise(p, p.hosted) EXCEPT !.summary.running = TRUE]
    IN  IF ~p.hosted THEN Advertise(p, FALSE)
        ELSE Writes(q, <<SaveSummary(q),
                         ToLobby(p, Command("STARTING", <<p.summary.number>>)),
                         ToAll(Command("STARTING", <<>>))>>)

CheckManyReady(p) ==
    IF /\ p.hosted /\ Len(p.users) > 2
       /\ \A u \in ToSet(p.users) : u.status = "ready"
    THEN CheckGo(p) ELSE p
CheckAllReady(p) ==
    IF /\ p.hosted /\ Len(p.users) # 1
       /\ \A u \in ToSet(p.users) : u.status = "ready"
    THEN CheckGo(p) ELSE p

Details(p, name, status) == Command("MY", <<name, status>>)

(* s is the sender's place in the list, i that of the user READY names; 0  *)
(* makes the handler throw.                                                *)
PrivateHears(p, sender, c) ==
    LET s == GetUser(p.users, sender)
        i == GetUser(p.users, c.parameters[1])
        me == GetUser(p.users, p.id)
    IN  CASE c.command = "GET" /\ me # 0 ->
                Writes(p, <<ToUser(sender, Details(p, p.users[me].name, p.users[me].status))>>)
          [] c.command = "MY" /\ s # 0 ->
                Advertise([p EXCEPT !.users[s].name = c.parameters[1],
                                    !.users[s].status = c.parameters[2]], p.hosted)
          [] c.command = "READY" /\ i # 0 -> CheckAllReady([p EXCEPT !.users[i].status = "ready"])
          [] c.command = "NOT_READY" /\ i # 0 -> [p EXCEPT !.users[i].status = "notReady"]
          [] c.command = "STARTING" -> NewCompleted(p)
          [] OTHER -> p

PrivateLoads(p, m) ==
    LET users == Append([i \in DOMAIN m.data |-> [m.data[i] EXCEPT !.status = "notReady"]],
                        [NewUser(p.id, p.name, FALSE) EXCEPT !.status = "ready"])
    IN  CASE m.name # "realmDetails" -> p
          [] m.name = "realmDetails" /\ m.data = NoData -> [p EXCEPT !.users = <<>>]
          [] OTHER -> NewCompleted([p EXCEPT !.users = users, !.summary.count = Len(users)])

InPrivate(p, m) ==
    CASE m.symbol = "closed" -> NewOffline(p)
      [] m.symbol \in {"^", "&"} -> IF m.number = LobbyRealm THEN NewSelect(p) ELSE AddMe(p)
      [] m.symbol = "=" -> UsersJoined(p, m.numbers, TRUE)
      [] m.symbol = "+" -> UsersJoined(p, <<m.number>>, FALSE)
      [] m.symbol = "-" -> UserLeft(p, m.number)
      [] m.symbol \in {"@", "!", "*"} -> PrivateHears(p, m.number, m.text)
      [] m.symbol = "<" -> PrivateLoads(p, m)
      [] OTHER -> p

-----------------------------------------------------------------------------
(* CompletedState *)

CompletedJoined(p, ids) ==
    Writes([p EXCEPT !.pending = @ \o [i \in DOMAIN ids |-> NewUser(ids[i], Unnamed, FALSE)]],
           [i \in DOMAIN ids |-> ToUser(ids[i], Command("GET", <<>>))])

(* splice(indexOf(user, 1)): the search skips the first place, and all     *)
(* from the place found goes; when it is not found the last one goes.      *)
SplicedFrom(pending, i) == SubSeq(pending, 1, (IF i = 1 THEN Len(pending) ELSE i) - 1)

(* me may be null: the handler throws at me.host, or at me.name. *)
CompletedAdvertise(p) == Advertise(p, p.me # <<>> /\ p.me[1].host)

CompletedLeft(p, n) ==
    LET i == GetUser(p.pending, n)
        u == GetUser(p.users, n)
    IN  CASE i # 0 -> [p EXCEPT !.pending = SplicedFrom(@, i)]
          [] i = 0 /\ u # 0 -> CompletedAdvertise([p EXCEPT !.users = RemoveAt(@, u)])
          [] OTHER -> p

CompletedHears(p, sender, c) ==
    LET i == GetUser(p.pending, sender)
    IN  CASE c.command = "GET" /\ p.me # <<>> ->
                Writes(p, <<ToUser(sender, Details(p, p.me[1].name, "ready"))>>)
          [] c.command = "MY" /\ i # 0 ->
                CompletedAdvertise(
                  [p EXCEPT !.pending = SplicedFrom(@, i),
                            !.users = Append(@, [p.pending[i] EXCEPT
                                        !.name = c.parameters[1], !.status = "ready"])])
          [] OTHER -> p

InCompleted(p, m) ==
    CASE m.symbol \in {"closed", "^", "&"} -> Over(p)
      [] m.symbol = "=" -> CompletedJoined(p, m.numbers)
      [] m.symbol = "+" -> CompletedJoined(p, <<m.number>>)
      [] m.symbol = "-" -> CompletedLeft(p, m.number)
      [] m.symbol \in {"@", "!", "*"} -> CompletedHears(p, m.number, m.text)
      [] OTHER -> p

-----------------------------------------------------------------------------
(* handleSocketMessage: the client notes its numbers, the handler does the *)
(* rest; without a handler the call throws.                                *)

Noted(p, m) ==
    CASE m.symbol = "#" -> [p EXCEPT !.id = m.number]
      [] m.symbol \in {"^", "&"} -> [p EXCEPT !.realm = m.number]
      [] OTHER -> p

Handled(p, m) ==
    CASE p.state = "connecting" -> InConnecting(Noted(p, m), m)
      [] p.state = "select" -> InSelect(Noted(p, m), m)
      [] p.state = "create" -> InCreate(Noted(p, m), m)
      [] p.state = "private" -> InPrivate(Noted(p, m), m)
      [] p.state = "completed" -> InCompleted(Noted(p, m), m)
      [] OTHER -> p

-----------------------------------------------------------------------------
(* What users begin, alone or while other things are on their way; a       *)
(* behaviour is followed to the end of the first round that overlaps.      *)

Settled == /\ Quiet
           /\ \A e \in EndPoint :
                /\ page[e].timers = <<>> /\ ~page[e].late
                /\ page[e].state = "connecting" => userID[e] # NoUser

Creating == {e \in EndPoint : \E i \in DOMAIN page[e].out : page[e].out[i] = CreateChild}
Opened == connections + nextRealmID - PublicRealmCount + Cardinality(Creating)

MayBegin ==
    /\ begun < MaxBegun
    /\ \/ Settled /\ Len(since) <= 1
       \/ ~Settled /\ Len(since) < MaxAtOnce /\ connections <= MaxRacers
Begins(kind) ==
    /\ MayBegin
    /\ begun' = begun + 1
    /\ since' = IF Settled THEN <<kind>> ELSE Append(since, kind)
    /\ UNCHANGED <<task, early>>

(* task.start, or Reconnect once the socket is gone. *)
Connect(e) ==
    /\ page[e].state \in {"none", "offline", "over"}
    /\ Opened < MaxOpened
    /\ Open(e, [NewPage("connecting", e) EXCEPT !.late = page[e].late], Handled)
    /\ Begins("connect")

(* The connection is lost, or the page closed. *)
Leave(e) ==
    /\ CloseSocket(e, Handled)
    /\ Begins("leave")

(* A click of a user on a page that shows the buttons of the state. *)
Clicks(e, state, kind, p) ==
    /\ userID[e] # NoUser
    /\ page[e].state = state /\ ~page[e].covered
    /\ Begins(kind)
    /\ page' = [page EXCEPT ![e] = p]
    /\ UNCHANGED <<vars, connections>>

(* Back before there is a realm: the container is cleared, and that is all. *)
ClickCancel(e) ==
    \E state \in {"connecting", "select"} :
        Clicks(e, state, "cancel", [page[e] EXCEPT !.covered = TRUE])

(* Nothing is sent; of use only when something else may begin. *)
ClickHost(e) ==
    /\ page[e].state = "select" /\ ~page[e].covered
    /\ MayBegin
    /\ page' = [page EXCEPT ![e].state = "create"]
    /\ UNCHANGED <<vars, connections, task, begun, since, early>>

ClickCreate(e) ==
    /\ nextRealmID + Cardinality(Creating) <= MaxRealmID
    /\ Opened < MaxOpened
    /\ Clicks(e, "create", "create", Writes(page[e], <<CreateChild>>))

(* disconnect() and a new client; the onclose of the old one comes later,  *)
(* and shows "offline" over whatever is there then.                        *)
Renewed(p, m) ==
    IF m = Closed THEN [NewPage("connecting", p.name) EXCEPT !.late = TRUE]
    ELSE Handled(p, m)
ClickBackFromCreate(e) ==
    /\ page[e].state = "create" /\ ~page[e].covered
    /\ connections < MaxConnections /\ Opened < MaxOpened
    /\ CloseSocket(e, Renewed)
    /\ Begins("back")
Reopen(e) ==
    /\ page[e].state = "connecting"
    /\ Open(e, page[e], Handled)
    /\ UNCHANGED <<task, begun, since, early>>
LateClose(e) ==
    /\ page[e].late
    /\ page' = [page EXCEPT ![e].late = FALSE, ![e].covered = TRUE]
    /\ UNCHANGED <<vars, connections, task, begun, since, early>>

UpToDate(s) ==
    LET d == LoadedData(s.number, "realmSummary")
    IN  /\ s.number \in realmChildren[LobbyRealm]
        /\ d # NoData /\ d.creator = s.creator /\ d.running = s.running
ClickJoin(e) ==
    \E s \in ToSet(page[e].realms) :
        Clicks(e, "select", "join",
               NewPrivate([page[e] EXCEPT !.stale = ~UpToDate(s)], s))

ClickBack(e) ==
    Clicks(e, "private", "back", Writes(page[e], <<JoinRealm(LobbyRealm)>>))

ClickReady(e) ==
    LET p == page[e]
        i == GetUser(p.users, p.id)
        ready == p.users[i].status = "notReady"
        q == [p EXCEPT !.users[i].status = IF ready THEN "ready" ELSE "notReady"]
    IN  /\ task.startMode = "whenAllIndicateReady"
        /\ i # 0
        /\ Clicks(e, "private", "ready",
                  CheckAllReady(Writes(q, <<ToAllExceptMe(
                     Command(IF ready THEN "READY" ELSE "NOT_READY", <<p.id>>))>>)))

ClickGo(e) ==
    /\ task.startMode = "whenHostConfirms" /\ page[e].hosted
    /\ Clicks(e, "private", "go", CheckGo(page[e]))

(* 50 milliseconds after a child realm was announced. *)
AsksForSummary(p) ==
    Writes([p EXCEPT !.timers = Tail(@)], <<LoadData("realmSummary", Head(p.timers))>>)
Timer(e) ==
    /\ userID[e] # NoUser
    /\ page[e].timers # <<>>
    /\ page' = [page EXCEPT ![e] = AsksForSummary(page[e])]
    /\ UNCHANGED <<vars, connections, task, begun, since, early>>

Served(e) ==
    /\ Route(e, Handled)
    /\ early' = (early \/ /\ Head(page[e].out).symbol = "<"
                          /\ \E x \in EndPoint \ {e} : page[x].out # <<>>)
    /\ UNCHANGED <<task, begun, since>>

Click(e) ==
    \/ ClickCancel(e) \/ ClickHost(e) \/ ClickCreate(e) \/ ClickBackFromCreate(e)
    \/ ClickJoin(e) \/ ClickBack(e) \/ ClickReady(e) \/ ClickGo(e)

LobbyNext ==
    \E e \in EndPoint :
        \/ Connect(e) \/ Leave(e) \/ Click(e)
        \/ Reopen(e) \/ LateClose(e) \/ Timer(e) \/ Served(e)

LobbyInit ==
    /\ Init
    /\ connections = 0
    /\ page = [e \in EndPoint |-> NewPage("none", e)]
    /\ task \in Task
    /\ begun = 0
    /\ since = <<>>
    /\ early = FALSE

LobbySpec == LobbyInit /\ [][LobbyNext]_lobbyVars
-----------------------------------------------------------------------------
(* Properties. *)

(* Of what was begun in the last round, one of kinds and another of others *)
(* crossed on their way.                                                   *)
Crossed(kinds, others) ==
    \E i, j \in DOMAIN since : i # j /\ since[i] \in kinds /\ since[j] \in others
Listed(e) == {s.number : s \in ToSet(page[e].realms)}
Stored(n) == LoadedData(n, "realmSummary")
UsersOf(p) == {<<u.number, u.name>> : u \in ToSet(p.users)}
Present(r) == {e \in EndPoint : userRealm[e] = r}
PrivateRealms == realmChildren[LobbyRealm]

(* lobbyUserCount, which starts at 1 and is only ever stepped, is the      *)
(* number of users in the lobby, whatever crosses on the way.              *)
LobbyCounted ==
    \A e \in EndPoint :
        page[e].state = "select" => page[e].count = Cardinality(Present(LobbyRealm))

(* A page in the lobby lists every child realm that has not started, each  *)
(* once, and none that is gone, if no summary was asked for before its     *)
(* host had saved it, and unless somebody left a realm or the server while *)
(* other things were on their way.  (The summary of a realm outlives it:   *)
(* who asks for it after the end lists the dead realm, and so does who was *)
(* the last to leave it.)                                                  *)
RealmsListed ==
    Settled /\ ~early /\ ~Crossed({"back", "leave"}, ToSet(since)) =>
        \A e \in EndPoint :
            LET others == SelectSeq(page[e].realms,
                                    LAMBDA s : s.number # page[e].summary.number)
            IN  page[e].state = "select" =>
                  /\ \A i, j \in DOMAIN others : others[i].number = others[j].number => i = j
                  /\ Listed(e) \ {page[e].summary.number} \subseteq PrivateRealms
                  /\ \A n \in PrivateRealms :
                       Stored(n) # NoData /\ ~Stored(n).running => n \in Listed(e)

(* What a host sends to the lobby reaches its first user only.  That one,  *)
(* when it has been the first all along, knows of every realm it lists how *)
(* many users it has and whether it runs, whatever crosses.                *)
FirstLearns ==
    Settled /\ ~early =>
        \A e \in EndPoint : page[e].state = "select" /\ page[e].alone =>
            \A n \in Listed(e) \cap PrivateRealms :
                LET s == page[e].realms[GetRealm(page[e], n)]
                IN  s.count = Stored(n).count /\ s.running = Stored(n).running

(* The users of a private realm see each other, by name and status, while  *)
(* joining, leaving and READY clicks cross, as long as no number has been  *)
(* given to a second user.  (From the click on Join to the answer a page   *)
(* takes who comes into the lobby for a user of the realm it will be in.)  *)
Setup(e) == page[e].state = "private" /\ userRealm[e] \in PrivateRealms

(* A realm that has started has started for everyone in it, and all show   *)
(* the same users, those that are there, while its start, departures and   *)
(* READY clicks cross; nobody came while it started, or at the same time   *)
(* as somebody else, its host is there, and no number has been given to a  *)
(* second user.  (Who joins while the host starts is left waiting, or is   *)
(* missed; two users who come at once are both pending, and the splice of  *)
(* CompletedState drops one of them.  A user whose list did not say that   *)
(* the realm has started joins it as one to wait in.)                      *)
Playing(e) == page[e].state = "completed" /\ userRealm[e] \in PrivateRealms

(* Ready clicks, however they cross: when two or more users of a realm all *)
(* show that they are ready, it has started.                               *)
AllReadyStart ==
    Settled /\ ToSet(since) = {"ready"} =>
        \A n \in PrivateRealms :
            ~ /\ Cardinality(Present(n)) > 1
              /\ \A e \in Present(n) :
                    /\ page[e].state = "private"
                    /\ LET i == GetUser(page[e].users, userID[e])
                       IN  i # 0 /\ page[e].users[i].status = "ready"

(* A live realm has one host, who is in it, whatever crosses: who joins it *)
(* is not taken for its creator, as long as user numbers are not used      *)
(* again.  (A user can go back to the dead realm it has left, and hosts it *)
(* from the lobby; so it does if the number is used again while it clicks. *)
(* A second click on Create, before the first is answered, puts the host   *)
(* in a realm inside the one it thinks it is in.)                          *)
OneHost ==
    Settled /\ nextUserID = connections /\ ~Crossed({"create"}, {"create", "join"}) =>
        \A n \in PrivateRealms :
            LET hosts == {e \in EndPoint : /\ page[e].state = "private" /\ page[e].hosted
                                          /\ page[e].summary.number = n /\ ~page[e].stale}
            IN  hosts \subseteq Present(n) /\ Cardinality(hosts) <= 1
==============================================================================
