--------------------------------- MODULE Http ---------------------------------
(***************************************************************************)
(* The http helpers (Javascript/Http/src/Http.ts): calls that end in one   *)
(* of two callbacks, and images that are fetched one after the other.      *)
(* An error without a callback for it is thrown at nobody.                 *)
(***************************************************************************)
EXTENDS Integers, Sequences, FiniteSets

CONSTANTS
    Call,       \* calls an application makes
    Helper,     \* Helper[c]: which helper it uses
    Urls,       \* Urls[c]: how many URLs it gives to "images", 1 to others
    OnSuccess,  \* the calls with a callback for success
    OnError     \* the calls with a callback for errors

Text == {"http", "json", "postJson"}       \* those that end in $http

ASSUME HttpAssumption ==
    /\ Helper \in [Call -> Text \cup {"image", "images", "binary"}]
    /\ Urls \in [Call -> Nat]
    /\ \A c \in Call : Helper[c] # "images" => Urls[c] = 1
    /\ OnSuccess \subseteq Call /\ OnError \subseteq Call

VARIABLES
    asked,      \* asked[c]: the URLs requested so far
    got,        \* got[c]: successful answers so far
    underWay,   \* the calls that wait for an answer
    succeeded,  \* succeeded[c]: how often the callback for success was called
    erred,      \* erred[c]: how often the one for errors was
    threw       \* the calls that ended in an exception

httpVars == <<asked, got, underWay, succeeded, erred, threw>>

HttpInit ==
    /\ asked = [c \in Call |-> 0]
    /\ got = [c \in Call |-> 0]
    /\ underWay = {}
    /\ succeeded = [c \in Call |-> 0]
    /\ erred = [c \in Call |-> 0]
    /\ threw = {}

Times(c, callbacks) == IF c \in callbacks THEN 1 ELSE 0
CallsBack(c) == succeeded' = [succeeded EXCEPT ![c] = @ + Times(c, OnSuccess)]
Fails(c) ==
    /\ underWay' = underWay \ {c}
    /\ erred' = [erred EXCEPT ![c] = @ + Times(c, OnError)]
    /\ threw' = IF c \in OnError THEN threw ELSE threw \cup {c}

(* $httpGetImages without URLs, and $httpGetBinary, call the callback      *)
(* without looking whether there is one.                                   *)
CallsAnyway(c) == CallsBack(c) /\ threw' = IF c \in OnSuccess THEN threw ELSE threw \cup {c}

SendsBesides(c) ==
    /\ asked[c] = 0 /\ succeeded[c] = 0 /\ c \notin threw
    /\ asked' = [asked EXCEPT ![c] = 1]
    /\ underWay' = underWay \cup {c}
    /\ IF Urls[c] = 0 THEN CallsAnyway(c) ELSE UNCHANGED <<succeeded, threw>>
    /\ UNCHANGED <<got, erred>>

(* A call: the request is sent; a list of images begins with the first,    *)
(* and is done at once when there is none.                                 *)
Send(c) ==
    /\ asked[c] = 0 /\ succeeded[c] = 0 /\ c \notin threw
    /\ IF Urls[c] = 0
       THEN CallsAnyway(c) /\ UNCHANGED <<asked, underWay>>
       ELSE /\ asked' = [asked EXCEPT ![c] = 1]
            /\ underWay' = underWay \cup {c}
            /\ UNCHANGED <<succeeded, threw>>
    /\ UNCHANGED <<got, erred>>

(* $http: only an answer of status 200 is a success.  $httpGetJson throws  *)
(* when that is not JSON: no callback is called.                           *)
AnswerText(c, status, parses) ==
    /\ c \in underWay /\ Helper[c] \in Text
    /\ IF status # 200
       THEN Fails(c) /\ UNCHANGED <<got, succeeded>>
       ELSE /\ underWay' = underWay \ {c}
            /\ got' = [got EXCEPT ![c] = @ + 1]
            /\ IF Helper[c] = "json" /\ c \in OnSuccess /\ ~parses
               THEN threw' = threw \cup {c} /\ UNCHANGED succeeded
               ELSE CallsBack(c) /\ UNCHANGED threw
            /\ UNCHANGED erred
    /\ UNCHANGED asked

(* $httpGetBinary: every answer is a success, whatever its status. *)
AnswerBinary(c, status) ==
    /\ c \in underWay /\ Helper[c] = "binary"
    /\ underWay' = underWay \ {c}
    /\ got' = [got EXCEPT ![c] = @ + 1]
    /\ CallsAnyway(c)
    /\ UNCHANGED <<asked, erred>>

(* gotAnImage: the next URL, until there are as many images as URLs. *)
LastOfUrls(c) == got[c] + 2 = Urls[c]
AllGot(c) == got[c] + 1 = Urls[c]
ForgetsNext(c) ==
    /\ c \in underWay /\ Helper[c] \in {"image", "images"}
    /\ got' = [got EXCEPT ![c] = @ + 1]
    /\ underWay' = underWay \ {c}
    /\ IF AllGot(c) THEN CallsAnyway(c) ELSE UNCHANGED <<succeeded, threw>>
    /\ UNCHANGED <<asked, erred>>
AnswerImage(c) ==
    /\ c \in underWay /\ Helper[c] \in {"image", "images"}
    /\ got' = [got EXCEPT ![c] = @ + 1]
    /\ IF AllGot(c)
       THEN /\ underWay' = underWay \ {c}
            /\ IF Helper[c] = "images" THEN CallsAnyway(c)
               ELSE CallsBack(c) /\ UNCHANGED threw
            /\ UNCHANGED asked
       ELSE asked' = [asked EXCEPT ![c] = @ + 1] /\ UNCHANGED <<underWay, succeeded, threw>>
    /\ UNCHANGED erred

(* onerror: no answer, or no image.  The images that came are not given.   *)
NoAnswer(c) ==
    /\ c \in underWay
    /\ Fails(c)
    /\ UNCHANGED <<asked, got, succeeded>>

Answer(c) ==
    \/ \E status \in {200, 404}, parses \in BOOLEAN : AnswerText(c, status, parses)
    \/ \E status \in {200, 404} : AnswerBinary(c, status)
    \/ AnswerImage(c)
    \/ NoAnswer(c)

HttpNext == \E c \in Call : Send(c) \/ Answer(c)
HttpSpec == HttpInit /\ [][HttpNext]_httpVars /\ \A c \in Call : WF_httpVars(Answer(c))

-----------------------------------------------------------------------------
(* Properties. *)

(* A call ends once: in the callback for success, in the one for errors,   *)
(* in an exception, or silently when it has no callback for success; never *)
(* in two of them, and in none while it waits.  It succeeds with as many   *)
(* answers as it was given URLs, each asked for once; after an error       *)
(* nothing more is asked for.                                              *)
Ended(c) == succeeded[c] + erred[c] + (IF c \in threw THEN 1 ELSE 0)
EndsOnce ==
    \A c \in Call :
        /\ Ended(c) <= 1 /\ asked[c] <= Urls[c]
        /\ c \in underWay => Ended(c) = 0 /\ asked[c] = got[c] + 1
        /\ succeeded[c] = 1 => got[c] = Urls[c] /\ asked[c] = Urls[c]
        /\ erred[c] = 1 => asked[c] = got[c] + 1

(* As the browser answers or fails every request, every call with a        *)
(* callback for success ends, a list of images after its last image.       *)
CallsEnd == \A c \in OnSuccess : asked[c] > 0 ~> Ended(c) = 1
==============================================================================
