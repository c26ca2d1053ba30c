-------------------------------- MODULE Loader --------------------------------
(***************************************************************************)
(* The Loader of data files (Javascript/Loader/src): files are fetched one *)
(* after the other, each may name more, and what the application has asked *)
(* to be told of is told by one handler, request.onload.                   *)
(*                                                                         *)
(* The application's handlers for a section queue the files it names.  A   *)
(* handler that throws ends request.onload where it stands, as JSON.parse  *)
(* does; nothing of the loader follows then.  The handlers for whole files *)
(* are called besides and change nothing here.                             *)
(***************************************************************************)
EXTENDS Integers, Sequences, FiniteSets, SequencesExt

CONSTANTS
    File,        \* names of data files
    Document,    \* Document[f]: the sections of f, each [section, files]
    Known,       \* handlersForSections: the names handlers are registered for
    Unknowns,    \* how many handlers for unknown sections there are
    InitialNames,\* the lists startLoading is called with
    MaxNamed     \* bound on the files named

Undefined == "undefined"     \* shift() of an empty list, as part of a URL
NoFile == ""

ASSUME LoaderAssumption ==
    /\ {Undefined, NoFile} \cap File = {}
    /\ \A f \in File :
          /\ Document[f] \in Seq([section : STRING, files : Seq(File)])
          /\ \A i, j \in DOMAIN Document[f] :      \* the keys of an object
                Document[f][i].section = Document[f][j].section => i = j
    /\ Known \in Seq(STRING)
    /\ Unknowns \in Nat
    /\ \A names \in InitialNames : names \in Seq(File)
    /\ MaxNamed \in Nat

VARIABLES
    started,
    pendingDataFileNames,
    requested,    \* the file the request under way is for, or NoFile
    named,        \* every file named to the loader so far, in order
    loaded,       \* the files whose handler ran to its end, in order
    told,         \* the calls of section handlers, as <<file, section>>
    completed     \* how often the handlers for completion were called

loaderVars == <<started, pendingDataFileNames, requested, named, loaded, told, completed>>

LoaderInit ==
    /\ started = FALSE
    /\ pendingDataFileNames = <<>>
    /\ requested = NoFile
    /\ named = <<>> /\ loaded = <<>> /\ told = <<>>
    /\ completed = 0

(* getNextDataFile, with the names that are pending then. *)
GetFromEnd(names) ==
    /\ requested' = IF names = <<>> THEN Undefined ELSE Last(names)
    /\ pendingDataFileNames' = IF names = <<>> THEN <<>> ELSE Front(names)
GetNextDataFile(names) ==
    /\ requested' = IF names = <<>> THEN Undefined ELSE Head(names)
    /\ pendingDataFileNames' = IF names = <<>> THEN <<>> ELSE Tail(names)

(* A second call throws, and changes nothing. *)
StartLoading(names) ==
    /\ ~started
    /\ started' = TRUE
    /\ named' = names
    /\ GetNextDataFile(names)
    /\ UNCHANGED <<loaded, told, completed>>

(* One handler for each registration of the name, or else each of those    *)
(* for unknown sections.                                                   *)
FirstHandler(f, section) ==
    IF section \in ToSet(Known) THEN <<<<f, section>>>>
    ELSE [i \in 1 .. Unknowns |-> <<f, section>>]
Handlers(f, section) ==
    LET n == Cardinality({i \in DOMAIN Known : Known[i] = section})
    IN  [i \in 1 .. (IF n = 0 THEN Unknowns ELSE n) |-> <<f, section>>]

SectionCalls(f) == FlattenSeq([i \in DOMAIN Document[f] |-> Handlers(f, Document[f][i].section)])

(* A section without a handler queues nothing, one with two queues twice. *)
Queued(f) ==
    FlattenSeq([i \in DOMAIN Document[f] |->
        FlattenSeq([h \in DOMAIN Handlers(f, Document[f][i].section) |-> Document[f][i].files])])

FinishedBefore(names) == pendingDataFileNames = <<>>
Finished(names) == names = <<>>

(* handleDataFileLoaded *)
HandleDataFileLoaded ==
    LET f == requested
        names == pendingDataFileNames \o Queued(f)
    IN  /\ f \in File
        /\ Len(named) + Len(Queued(f)) <= MaxNamed
        /\ told' = told \o SectionCalls(f)
        /\ named' = named \o Queued(f)
        /\ loaded' = Append(loaded, f)
        /\ IF ~Finished(names)
           THEN GetNextDataFile(names) /\ UNCHANGED completed
           ELSE /\ completed' = completed + 1
                /\ requested' = NoFile
                /\ pendingDataFileNames' = names
        /\ UNCHANGED started

(* No answer, or one that is not JSON (the status is not looked at): the   *)
(* rest is not loaded, and nobody is told.                                 *)
FileFails ==
    /\ requested # NoFile
    /\ requested' = NoFile
    /\ UNCHANGED <<started, pendingDataFileNames, named, loaded, told, completed>>

(* A handler throws after some of the sections were told. *)
HandlerThrows ==
    /\ requested \in File
    /\ \E n \in 1 .. Len(SectionCalls(requested)) :
          told' = told \o SubSeq(SectionCalls(requested), 1, n)
    /\ requested' = NoFile
    /\ UNCHANGED <<started, pendingDataFileNames, named, loaded, completed>>

Answered == HandleDataFileLoaded \/ FileFails \/ HandlerThrows
LoaderNext == (\E names \in InitialNames : StartLoading(names)) \/ Answered

LoaderSpec == LoaderInit /\ [][LoaderNext]_loaderVars

-----------------------------------------------------------------------------
(* Properties. *)

(* getNextDataFile and the queue: each file is loaded once for every time  *)
(* it was named, in the order of naming; the one under way is the next,    *)
(* and the pending ones follow.  handleAllFilesLoaded is called once, when *)
(* every file named has been loaded, and not before.                       *)
UnderWay == IF requested \in File THEN <<requested>> ELSE <<>>
LoadsInOrder ==
    /\ requested # NoFile => named = loaded \o UnderWay \o pendingDataFileNames
    /\ completed \in {0, 1}
    /\ completed = 1 => loaded = named /\ requested = NoFile /\ pendingDataFileNames = <<>>

(* Whatever names what, every section of every file loaded was told to all *)
(* that asked for it: as often as it has handlers, in the files' order.    *)
Wants(section) ==
    LET n == Cardinality({i \in DOMAIN Known : Known[i] = section})
    IN  IF n = 0 THEN Unknowns ELSE n
SectionsTold ==
    requested # NoFile \/ completed = 1 =>
        \A f \in File : \A i \in DOMAIN Document[f] :
            Cardinality({j \in DOMAIN told : told[j] = <<f, Document[f][i].section>>})
              = Wants(Document[f][i].section) * Cardinality({j \in DOMAIN loaded : loaded[j] = f})
==============================================================================
