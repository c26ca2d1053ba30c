------------------------------ MODULE RelayLink ------------------------------
(***************************************************************************)
(* The sockets between pages and the relay server: what a page writes with *)
(* Javascript/WSRelayClient/src/WebSocketRelayClient.ts travels to the     *)
(* server in order, and what the server writes travels back in order.      *)
(*                                                                         *)
(* A page learns of the server late, and the server of the page.  Only the *)
(* second delay is modelled: a page reads a frame in the step that writes  *)
(* it, and its requests wait in page[e].out until the server takes them.   *)
(* To the server a page that reads late is a page whose requests travel    *)
(* for longer; and a click made before a frame was read is a click made    *)
(* before the frame was written.  So each page sees the same frames and    *)
(* clicks in the same order, and the server the same requests, as with     *)
(* delays both ways.                                                       *)
(*                                                                         *)
(* The server is that of RelayServer.  An application says what its pages  *)
(* do with a frame: handler(page, frame) is the page afterwards.           *)
(***************************************************************************)
EXTENDS RelayServer

CONSTANT MaxConnections   \* bound on the sockets opened

VARIABLES
    page,          \* page[e]: what is shown at e; .out is what it has written
    connections    \* the sockets opened so far

relayVars == <<vars, page, connections>>

-----------------------------------------------------------------------------
(* The client's functions: one request each. *)

JoinRealm(n) == [symbol |-> "^", number |-> n]
CreateChild == [symbol |-> "&"]
ToUser(n, text) == [symbol |-> "@", number |-> n, text |-> text]
ToAllExceptMe(text) == [symbol |-> "!", text |-> text]
ToAll(text) == [symbol |-> "*", text |-> text]
ToRealm(n, text) == [symbol |-> ":", number |-> n, text |-> text]
SaveData(k, d, t) == [symbol |-> ">", name |-> k, data |-> d, time |-> t]
LoadData(k, n) == [symbol |-> "<", name |-> k, number |-> n]
OwnRealm == NoRealm      \* loadData without a realm number

-----------------------------------------------------------------------------
(* Frames: a packet as the page reads it, with the text of a message and   *)
(* the numbers of "=" in the order of the realm's list; an "=" that names  *)
(* nobody is dropped by handleSocketMessage.                               *)

InOrder(ids) ==
    LET r == userRealm'[CHOOSE x \in EndPoint : userID'[x] \in ids]
        listed == [i \in DOMAIN realmUsers'[r] |-> userID'[realmUsers'[r][i]]]
    IN  FlattenSeq([i \in DOMAIN listed |->
                      IF listed[i] \in ids THEN <<listed[i]>> ELSE <<>>])

Frame(packet, text) ==
    CASE packet.symbol \in {"@", "!", "*"} ->
            <<[symbol |-> packet.symbol, number |-> packet.number, text |-> text]>>
      [] packet.symbol = "=" ->
            IF packet.numbers = {} THEN <<>>
            ELSE <<[symbol |-> "=", numbers |-> InOrder(packet.numbers)]>>
      [] OTHER -> <<packet>>

Frames(packets, text) == FlattenSeq([i \in DOMAIN packets |-> Frame(packets[i], text)])

(* A request that nothing comes of. *)
Ignored(q) == /\ q.symbol \notin {"^", "&"}
              /\ outbox' = Silence
              /\ UNCHANGED <<userVars, realmVars, storeVars>>

(* Server_ClientSendText: one request, one handler.  EntityName is the set *)
(* of the names of letters, digits and "_" only: the server saves and      *)
(* loads no others.                                                        *)
Serve(e, q) ==
    \/ q.symbol = "^" /\ JoinNumbered(e, q.number, FALSE)
    \/ q.symbol = "&" /\ CreateRealm(e, TRUE)
    \/ q.symbol = "@" /\ SendToUser(e, q.number)
    \/ q.symbol = "!" /\ SendExcept(e)
    \/ q.symbol = "*" /\ SendToAll(e)
    \/ q.symbol = ":" /\ SendToRealm(e, q.number)
    \/ q.symbol = ">" /\ q.name \in EntityName /\ SaveEntity(e, q.name, q.time, q.data)
    \/ /\ q.symbol = "<" /\ q.name \in EntityName
       /\ LoadEntity(e, IF q.number = OwnRealm THEN userRealm[e] ELSE q.number, q.name)
    \/ q.symbol \in {"<", ">"} /\ q.name \notin EntityName /\ Ignored(q)
    \/ userRealm[e] = NoRealm /\ Ignored(q)

TextOf(q) == IF q.symbol \in {"@", "!", "*", ":"} THEN q.text ELSE ""

(* The server takes the oldest request of e. *)
Taken(e) == [page EXCEPT ![e].out = Tail(@)]
Route(e, handler(_, _)) ==
    /\ page[e].out # <<>>
    /\ Serve(e, Head(page[e].out))
    /\ LET text == TextOf(Head(page[e].out))
       IN  page' = [x \in EndPoint |->
                      FoldLeft(handler, Taken(e)[x], Frames(outbox'[x], text))]
    /\ UNCHANGED connections

(* new WebSocket(...) on a new page p: the server accepts the connection. *)
NewSocket(e) ==
    /\ connections < MaxConnections
    /\ ClientConnected(e)
    /\ connections' = connections + 1
Open(e, p, handler(_, _)) ==
    /\ NewSocket(e)
    /\ page' = [page EXCEPT ![e] = FoldLeft(handler, p, Frames(outbox'[e], ""))]

(* The connection ends and both sides know: what is on its way is lost,    *)
(* and the page gets onclose.                                              *)
Closed == [symbol |-> "closed"]
CloseSocket(e, handler(_, _)) ==
    /\ ClientDisconnected(e)
    /\ page' = [x \in EndPoint |->
                  IF x = e THEN [handler(page[e], Closed) EXCEPT !.out = <<>>]
                  ELSE FoldLeft(handler, page[x], Frames(outbox'[x], ""))]
    /\ UNCHANGED connections

-----------------------------------------------------------------------------
Writes(p, requests) == [p EXCEPT !.out = @ \o requests]

(* Nothing is on its way between the server and its pages. *)
Quiet == \A e \in EndPoint : page[e].out = <<>>
==============================================================================
