----------------------------- MODULE MCPokerTable -----------------------------
(* Instances of PokerTable for TLC: a small deck, few clicks. *)
EXTENDS PokerTable

CONSTANTS a, b

WithoutOutbox ==
    <<userVars, realmVars, storeVars, connections, page, begun,
      IF Quiet /\ Len(since) = 1 THEN <<>> ELSE since, dealers>>

Plain == <<6>>
TwoWords == <<7, Blank, 8>>
NamesAt == [e \in EndPoint |-> IF e = b THEN {TwoWords} ELSE {Plain}]

(* One shuffle, which moves cards over several rounds. *)
OneRoll == {[i \in 1 .. CardCount |-> (i \div 2) + 1]}
One == {1}
Texts == {<<n>> : n \in 0 .. CardCount}
Nothing == {}
Kept == {key \in UNION {Keys(name) : name \in Names} : Accepted(key[2])}

(* Names that are quoted, doubled or not kept on their way. *)
Backslashed == <<6, Backslash>>
Quoted == <<Quote, 7>>
BlankBackslashed == <<7, Blank, Backslash>>
WithComma == <<8, Comma, 8>>
OddNamesAt ==
    [e \in EndPoint |-> IF e = b THEN {BlankBackslashed, WithComma}
                       ELSE {Backslashed, Quoted}]
Seconds == {TTL}
Table == {TableRealm}
===============================================================================
