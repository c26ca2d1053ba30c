------------------------------ MODULE TimedStore ------------------------------
(***************************************************************************)
(* What the store of realm data promises (WSRelay/(mono)/readme.md, ">k"   *)
(* and "<k"): an entity holds the text last saved under its key, for the   *)
(* seconds it was saved for, and without a time for ever; an empty text    *)
(* deletes it.  content[key] is what a load of key returns.                *)
(*                                                                         *)
(* Two things are left open, on purpose.  The data of a private realm may  *)
(* go when the realm ends, at once or never (a comment says it does, and   *)
(* the code keeps it); and what an earlier run or version left behind may  *)
(* still be found at the start, or not.                                    *)
(***************************************************************************)
EXTENDS Integers

CONSTANTS
    Key,            \* pairs of a realm and a name
    PrivateRealm,   \* the realms whose data may go when they end
    Data, Lifetime, NoData, MaxNow

Forever == MaxNow + 1

VARIABLES
    content, deadline, clock,
    open            \* the private realms there are

vars == <<content, deadline, clock, open>>

Init == /\ clock = 1
        /\ open = {}
        /\ content \in [Key -> Data \cup {NoData}]
        /\ deadline \in [Key -> Int]
        /\ \A key \in Key : IF content[key] = NoData THEN deadline[key] = 0
                             ELSE deadline[key] >= clock

Save(key, t, d) ==
    /\ content' = [content EXCEPT ![key] = d]
    /\ deadline' = [deadline EXCEPT ![key] =
                       IF d = NoData THEN 0
                       ELSE IF t = 0 THEN Forever ELSE clock + t]
    /\ UNCHANGED <<clock, open>>

Over(key) == deadline[key] < clock'

PassTime ==
    /\ clock < MaxNow
    /\ clock' = clock + 1
    /\ content' = [key \in Key |-> IF Over(key) THEN NoData ELSE content[key]]
    /\ deadline' = [key \in Key |-> IF Over(key) THEN 0 ELSE deadline[key]]
    /\ UNCHANGED open

(* Private realms arise and end, and with those that end any of their data. *)
RealmsChange ==
    /\ open' \subseteq PrivateRealm
    /\ \E lost \in SUBSET {key \in Key : key[1] \in open \ open'} :
          /\ content' = [key \in Key |-> IF key \in lost THEN NoData
                                         ELSE content[key]]
          /\ deadline' = [key \in Key |-> IF key \in lost THEN 0
                                          ELSE deadline[key]]
    /\ UNCHANGED clock

Next == \/ PassTime
        \/ RealmsChange
        \/ \E key \in Key, t \in Lifetime, d \in Data \cup {NoData} :
              Save(key, t, d)

Spec == Init /\ [][Next]_vars
===============================================================================
