------------------------------ MODULE RelayData ------------------------------
(***************************************************************************)
(* The realm data of the relay server implements TimedStore, as long as    *)
(* every entity is saved with a time: files are deleted lazily, when a     *)
(* load finds them expired, and survive a restart, but a load cannot tell. *)
(***************************************************************************)
EXTENDS RelayServer

Key == RealmNumber \X EntityName

(* The end of the time of an entity that a load still finds; an expiry of  *)
(* 0 stands for none, when a load finds such a file at all.                *)
DeadlineOf(r, k) ==
    LET expiry == (CHOOSE f \in GetFile(r, k) : TRUE).expiry
    IN  IF LoadedData(r, k) = NoData THEN 0
        ELSE IF expiry = 0 THEN MaxNow + 1 ELSE expiry

Store == INSTANCE TimedStore WITH
            PrivateRealm <- {r \in RealmNumber : Private(r)},
            content  <- [key \in Key |-> LoadedData(key[1], key[2])],
            deadline <- [key \in Key |-> DeadlineOf(key[1], key[2])],
            clock    <- now,
            open     <- {r \in realms : Private(r)}

(* Whatever users do in whatever realms, across restarts and whichever of  *)
(* them first loads an entity after its time, a load returns the text last *)
(* saved under its key while its time lasts and nothing afterwards.  What  *)
(* a private realm leaves behind when it ends, and what an earlier version *)
(* left, may be found or not: the code that loses both or keeps both would *)
(* implement the store too.                                                *)
StoreIsTimed == Store!Spec
==============================================================================
