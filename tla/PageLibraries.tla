---------------------------- MODULE PageLibraries ----------------------------
(***************************************************************************)
(* The three libraries of a page side by side.  They share nothing: in one *)
(* behaviour the page uses one of them.                                    *)
(***************************************************************************)
EXTENDS Loader, Http, StateEngine

VARIABLE used

libraryVars == <<used, loaderVars, httpVars, engineVars>>

LibrariesInit ==
    /\ used \in {"Loader", "Http", "Processors"}
    /\ LoaderInit /\ HttpInit /\ EngineInit

LibrariesNext ==
    /\ UNCHANGED used
    /\ \/ used = "Loader" /\ LoaderNext /\ UNCHANGED <<httpVars, engineVars>>
       \/ used = "Http" /\ HttpNext /\ UNCHANGED <<loaderVars, engineVars>>
       \/ used = "Processors" /\ EngineNext /\ UNCHANGED <<loaderVars, httpVars>>

(* The browser answers, or fails, every request. *)
BrowserAnswers(c) == Answer(c) /\ UNCHANGED <<used, loaderVars, engineVars>>
LibrariesSpec ==
    /\ LibrariesInit /\ [][LibrariesNext]_libraryVars
    /\ \A c \in Call : WF_libraryVars(BrowserAnswers(c))
==============================================================================
