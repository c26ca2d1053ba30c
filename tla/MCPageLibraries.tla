--------------------------- MODULE MCPageLibraries ---------------------------
(* Instances of PageLibraries for TLC. *)
EXTENDS PageLibraries

(* index names a and b, a names b too; c names itself. *)
Section(name, files) == [section |-> name, files |-> files]
Documents ==
    [f \in File |->
        CASE f = "index" -> <<Section("files", <<"a", "b">>), Section("title", <<>>)>>
          [] f = "a" -> <<Section("more", <<"b">>)>>
          [] f = "b" -> <<Section("title", <<>>)>>
          [] f = "c" -> <<Section("files", <<"c">>)>>]
Registered == <<"files", "title", "title">>
Starts == {<<>>, <<"index">>, <<"a", "index">>, <<"b", "c">>}

Uses == [json |-> "json", post |-> "postJson", bytes |-> "binary",
         picture |-> "image", none |-> "images", three |-> "images"]
Calls6 == DOMAIN Uses
Helpers == [c \in Calls6 |-> Uses[c]]
UrlCounts == [c \in Calls6 |-> CASE c = "three" -> 3 [] c = "none" -> 0 [] OTHER -> 1]

Pushes == [s \in State |-> IF s = "menu" THEN <<"io", "tick", "app">>
                           ELSE <<"canvas", "app">>]
==============================================================================
