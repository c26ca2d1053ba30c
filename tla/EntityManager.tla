---------------------------- MODULE EntityManager ----------------------------
(***************************************************************************)
(* The key-value store of the relay server                                 *)
(* (Application Server/WSRelay/(mono)/EntityManager.cs): one file per      *)
(* realm and entity name, in the directory the server runs in.  The file   *)
(* "realm.<realm>.<name>.e" holds "<expiry> <data>"; a file of an earlier  *)
(* version, "realm.<realm>.<name>.entity", holds the data alone.           *)
(*                                                                         *)
(* The module defines the directory and what each method does to it; the   *)
(* handlers of RelayServer call these operators.                           *)
(***************************************************************************)
EXTENDS Integers

CONSTANTS
    EntityName,   \* the names clients use, already accepted by the handlers
    Data,         \* the non-empty texts clients save
    NoData,       \* the empty text
    Lifetime,     \* the seconds clients write in ">k,t"; 0 when t is left out
    LegacyFile,   \* what an earlier version may have left in the directory
    MaxNow        \* bound on the clock

ASSUME EntityAssumption ==
    /\ NoData \notin Data
    /\ Lifetime \subseteq Int
    /\ MaxNow \in Nat

VARIABLES
    files,   \* the files of the directory
    now      \* DateTime.UtcNow, in seconds since the model's first instant

storeVars == <<files, now>>

(* The names of a file: [realm, name, ext]; ext tells "*.e" from "*.entity". *)
SameName(f, g) == /\ f.realm = g.realm
                  /\ f.name = g.name
                  /\ f.ext = g.ext

ASSUME LegacyAssumption ==
    /\ \A f \in LegacyFile : /\ f.ext \in {"e", "entity"}
                              /\ f.expiry \in Int
                              /\ f.data \in Data
    /\ \A f, g \in LegacyFile : SameName(f, g) => f = g

File(r, k, expiry, d) ==
    [realm |-> r, name |-> k, ext |-> "e", expiry |-> expiry, data |-> d]

GetFile(r, k) ==
    {f \in files : f.realm = r /\ f.name = k /\ f.ext = "e"}

(* The clock counts from 1, as Ticks is far above 0: an expiry of 0 is past. *)
ExpiredAtDeadline(f) == now >= f.expiry
Expired(f) == now > f.expiry

(* What LoadData returns: the data of the live file, or nothing. *)
LoadedData(r, k) ==
    IF \E f \in GetFile(r, k) : ~Expired(f)
    THEN (CHOOSE f \in GetFile(r, k) : ~Expired(f)).data
    ELSE NoData

(* What LoadData leaves in the directory: a file it finds expired is gone. *)
AfterLoad(r, k) == files \ {f \in GetFile(r, k) : Expired(f)}

(* The expiry SaveData writes for a lifetime of t seconds. *)
ExpiryOf(t) == IF t = 0 THEN 0 ELSE now + t

(* What SaveData leaves in the directory: an empty text deletes the file. *)
AfterSave(r, k, t, d) ==
    (files \ GetFile(r, k))
      \cup (IF d = NoData THEN {} ELSE {File(r, k, ExpiryOf(t), d)})

(* The constructor's Upgrade of a directory: every "*.entity" becomes a    *)
(* "*.e" (over one already there) with "0 " before its data.               *)
Upgraded(dir) ==
    LET legacy   == {f \in dir : f.ext = "entity"}
        upgraded == {File(f.realm, f.name, 0, f.data) : f \in legacy}
    IN  upgraded \cup {f \in dir \ legacy :
                          \A g \in upgraded : ~SameName(f, g)}

(* What the destruction of the realms R deletes: Server.ChangeRealm asks   *)
(* the directory for "realm.<id>.*.entity", the extension of old versions. *)
RealmFiles(R) == {f \in files : f.realm \in R /\ f.ext = "entity"}

InitStore == /\ now = 1
             /\ \E old \in SUBSET LegacyFile : files = Upgraded(old)

(* One file per name, in the new format: after the upgrade no "*.entity"   *)
(* is left, and nothing writes one.                                        *)
DirectoryOK ==
    /\ now \in Nat \ {0}
    /\ \A f \in files : /\ f.ext = "e"
                        /\ f.expiry \in Int
                        /\ f.data # NoData
    /\ \A f, g \in files : SameName(f, g) => f = g

Tick == /\ now < MaxNow
        /\ now' = now + 1
=============================================================================
