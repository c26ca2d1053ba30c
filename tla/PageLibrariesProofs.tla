------------------------- MODULE PageLibrariesProofs -------------------------
(***************************************************************************)
(* The libraries of a page, for any constants.  The loader: the order of   *)
(* loading and what is told of the files, for any data files and any       *)
(* failures.  The state engine: which processors it calls, however events, *)
(* pushes and changes of state nest.  The http helpers: every call of them *)
(* ends at most once, for any set of calls and any lists of URLs.  Then    *)
(* the three side by side: a step of one leaves the state of the others    *)
(* alone.                                                                  *)
(***************************************************************************)
EXTENDS PageLibraries, QueueLemmas

-----------------------------------------------------------------------------
(* The loader. *)

LoaderTypeOK ==
    /\ started \in BOOLEAN
    /\ pendingDataFileNames \in Seq(File)
    /\ named \in Seq(File) /\ loaded \in Seq(File)
    /\ requested \in File \cup {Undefined, NoFile}

LEMMA DocumentType ==
    ASSUME NEW f \in File, NEW i \in DOMAIN Document[f]
    PROVE  Document[f][i].section \in STRING /\ Document[f][i].files \in Seq(File)
<1> DEFINE R == [section : STRING, files : Seq(File)]
<1>1. Document[f] \in Seq(R)
  BY LoaderAssumption
<1>2. PICK r : r = Document[f][i]
  OBVIOUS
<1>3. r \in R
  <2> HIDE DEF R
  <2> QED BY <1>1, <1>2
<1> QED BY <1>2, <1>3

(* The calls for one section: as many as want to be told of it. *)
LEMMA HandlersType ==
    ASSUME NEW f \in File, NEW section \in STRING
    PROVE  /\ Wants(section) \in Nat
           /\ Handlers(f, section) = [i \in 1 .. Wants(section) |-> <<f, section>>]
           /\ DOMAIN Handlers(f, section) = 1 .. Wants(section)
           /\ Handlers(f, section) \in Seq(File \X STRING)
<1>1. PICK n : n = Cardinality({i \in DOMAIN Known : Known[i] = section})
  OBVIOUS
<1>2. n \in Nat
  <2>1. Known \in Seq(STRING)
    BY LoaderAssumption
  <2>2. n = CountOf(Known, section)
    BY <1>1, Zenon DEF CountOf, Places
  <2> QED BY <2>1, <2>2, PlacesFinite
<1>3. Wants(section) = IF n = 0 THEN Unknowns ELSE n
  BY <1>1, Zenon DEF Wants
<1>4. PICK w \in Nat : w = Wants(section)
  BY <1>2, <1>3, LoaderAssumption
<1>5. Handlers(f, section) = [i \in 1 .. w |-> <<f, section>>]
  BY <1>1, <1>3, <1>4, Zenon DEF Handlers
<1>6. [i \in 1 .. w |-> <<f, section>>] \in Seq(File \X STRING)
  <2>1. PICK call \in File \X STRING : call = <<f, section>>
    OBVIOUS
  <2>2. [i \in 1 .. w |-> call] \in Seq(File \X STRING)
    BY SeqDef
  <2> QED BY <2>1, <2>2
<1> QED BY <1>4, <1>5, <1>6

(* LoadsInOrder, and what it rests on: nothing is named before the start,  *)
(* and nothing is under way once the handlers for completion are called.   *)
LoaderInv ==
    /\ LoaderTypeOK /\ LoadsInOrder
    /\ requested # NoFile => completed = 0
    /\ ~started => requested = NoFile /\ completed = 0 /\ loaded = <<>>

LEMMA LoaderInitInv == LoaderInit => LoaderInv
BY EmptySeq DEF LoaderInit, LoaderInv, LoaderTypeOK, LoadsInOrder

(* What a file queues is a list of files: the lists of its sections, each  *)
(* as often as the section is handled, one after the other.                *)
LEMMA QueuedType ==
    ASSUME NEW f \in File
    PROVE  Queued(f) \in Seq(File)
<1>1. Document[f] \in Seq([section : STRING, files : Seq(File)])
  BY LoaderAssumption
<1> DEFINE part(i) == FlattenSeq([h \in DOMAIN Handlers(f, Document[f][i].section)
                                    |-> Document[f][i].files])
           parts == [i \in DOMAIN Document[f] |-> part(i)]
<1>2. ASSUME NEW i \in DOMAIN Document[f]
      PROVE  part(i) \in Seq(File)
  <2>1. PICK list \in Seq(File) : list = Document[f][i].files
    BY DocumentType
  <2>2. PICK n \in Nat : DOMAIN Handlers(f, Document[f][i].section) = 1 .. n
    BY DocumentType, HandlersType
  <2>3. [h \in 1 .. n |-> list] \in Seq(Seq(File))
    BY SeqDef
  <2>4. FlattenSeq([h \in 1 .. n |-> list]) \in Seq(File)
    BY <2>3, FlattenType
  <2> QED BY <2>1, <2>2, <2>4
<1> HIDE DEF part
<1>3. PICK n \in Nat : DOMAIN Document[f] = 1 .. n
  BY <1>1
<1>4. parts \in Seq(Seq(File))
  BY <1>2, <1>3, SeqDef
<1>5. FlattenSeq(parts) \in Seq(File)
  BY <1>4, FlattenType
<1> QED BY <1>5, Zenon DEF Queued, part

LEMMA HeadAndTail ==
    ASSUME NEW names \in Seq(File), names # <<>>
    PROVE  /\ Head(names) \in File /\ Tail(names) \in Seq(File)
           /\ <<Head(names)>> \o Tail(names) = names
OBVIOUS

(* getNextDataFile of what was named and not loaded keeps the order. *)
LEMMA GetNextInv ==
    ASSUME LoaderInv, NEW names \in Seq(File), GetNextDataFile(names),
           loaded' \in Seq(File), named' = loaded' \o names, completed' = 0, started'
    PROVE  LoaderInv'
<1>1. CASE names = <<>>
  <2>1. requested' = Undefined /\ pendingDataFileNames' = <<>> /\ UnderWay' = <<>>
    BY <1>1, LoaderAssumption DEF GetNextDataFile, UnderWay
  <2>2. named' = loaded'
    BY <1>1, ConcatEmptySeq
  <2>3. named' = loaded' \o UnderWay' \o pendingDataFileNames'
    BY <2>1, <2>2, ConcatEmptySeq
  <2>4. LoaderTypeOK'
    BY <2>1, <2>2, EmptySeq DEF LoaderTypeOK
  <2>5. LoadsInOrder'
    BY <2>3 DEF LoadsInOrder
  <2> QED BY <2>4, <2>5 DEF LoaderInv
<1>2. CASE names # <<>>
  <2>1. requested' = Head(names) /\ pendingDataFileNames' = Tail(names)
    BY <1>2 DEF GetNextDataFile
  <2>2. /\ requested' \in File /\ pendingDataFileNames' \in Seq(File)
        /\ <<requested'>> \o pendingDataFileNames' = names
    BY <1>2, <2>1, HeadAndTail
  <2>3. UnderWay' = <<requested'>> /\ UnderWay' \in Seq(File)
    BY <2>2 DEF UnderWay
  <2>4. (loaded' \o UnderWay') \o pendingDataFileNames'
           = loaded' \o (UnderWay' \o pendingDataFileNames')
    BY <2>2, <2>3, ConcatAssociative
  <2>6. named' = loaded' \o UnderWay' \o pendingDataFileNames'
    BY <2>2, <2>3, <2>4
  <2>5. named' \in Seq(File)
    BY ConcatProperties
  <2> QED BY <2>2, <2>5, <2>6 DEF LoaderInv, LoaderTypeOK, LoadsInOrder
<1> QED BY <1>1, <1>2

LEMMA StartLoadingInv ==
    ASSUME LoaderInv, NEW names \in InitialNames, StartLoading(names)
    PROVE  LoaderInv'
<1>1. names \in Seq(File) /\ GetNextDataFile(names) /\ started'
  BY LoaderAssumption DEF StartLoading
<1>2. loaded' = <<>> /\ completed' = 0 /\ named' = names
  BY DEF StartLoading, LoaderInv
<1>3. loaded' \in Seq(File) /\ named' = loaded' \o names
  BY <1>1, <1>2, ConcatEmptySeq
<1> QED BY <1>1, <1>2, <1>3, GetNextInv

LEMMA HandleDataFileLoadedInv ==
    ASSUME LoaderInv, HandleDataFileLoaded
    PROVE  LoaderInv'
<1> DEFINE f == requested
           pending == pendingDataFileNames
           queue == Queued(f)
<1>1. /\ f \in File /\ f # NoFile /\ pending \in Seq(File) /\ queue \in Seq(File)
      /\ loaded \in Seq(File) /\ started /\ completed = 0
      /\ named = loaded \o <<f>> \o pending
  BY LoaderAssumption, QueuedType
  DEF HandleDataFileLoaded, LoaderInv, LoaderTypeOK, LoadsInOrder, UnderWay
<1>2. /\ named' = named \o queue /\ loaded' = Append(loaded, f) /\ started'
      /\ ~Finished(pending \o queue) =>
            GetNextDataFile(pending \o queue) /\ completed' = completed
      /\ Finished(pending \o queue) =>
            /\ completed' = completed + 1 /\ requested' = NoFile
            /\ pendingDataFileNames' = pending \o queue
  BY <1>1 DEF HandleDataFileLoaded
<1> HIDE DEF f, pending, queue
<1>3. /\ pending \o queue \in Seq(File) /\ loaded' \in Seq(File)
      /\ loaded' = loaded \o <<f>> /\ <<f>> \in Seq(File)
  BY <1>1, <1>2, ConcatProperties, AppendIsConcat, AppendProperties
<1>4. named' = loaded' \o (pending \o queue)
  <2>1. PICK done \in Seq(File) : done = loaded'
    BY <1>3
  <2>2. named' = (done \o pending) \o queue
    BY <1>1, <1>2, <1>3, <2>1, Zenon
  <2>3. (done \o pending) \o queue = done \o (pending \o queue)
    BY <1>1, ConcatAssociative, SMTT(30)
  <2> QED BY <2>1, <2>2, <2>3, Zenon
<1>5. CASE ~Finished(pending \o queue)
  BY <1>1, <1>2, <1>3, <1>4, <1>5, GetNextInv
<1>6. CASE Finished(pending \o queue)
  <2>1. named' = loaded' /\ pendingDataFileNames' = <<>>
    BY <1>2, <1>3, <1>4, <1>6, ConcatEmptySeq DEF Finished
  <2> QED BY <1>1, <1>2, <1>3, <1>6, <2>1 DEF LoaderInv, LoaderTypeOK, LoadsInOrder
<1> QED BY <1>5, <1>6

LEMMA FailureInv ==
    ASSUME LoaderInv, FileFails \/ HandlerThrows
    PROVE  LoaderInv'
<1>1. /\ requested # NoFile /\ requested' = NoFile
      /\ UNCHANGED <<started, pendingDataFileNames, named, loaded, completed>>
  BY LoaderAssumption DEF FileFails, HandlerThrows
<1> QED BY <1>1 DEF LoaderInv, LoaderTypeOK, LoadsInOrder

LEMMA LoaderStepInv == LoaderInv /\ [LoaderNext]_loaderVars => LoaderInv'
<1>1. ASSUME LoaderInv, LoaderNext PROVE LoaderInv'
  BY <1>1, StartLoadingInv, HandleDataFileLoadedInv, FailureInv DEF LoaderNext, Answered
<1>2. ASSUME LoaderInv, UNCHANGED loaderVars PROVE LoaderInv'
  BY <1>2 DEF loaderVars, LoaderInv, LoaderTypeOK, LoadsInOrder, UnderWay
<1> QED BY <1>1, <1>2

(* Files are loaded in the order in which they were named, each as often   *)
(* as it was named; completion is told once, when all of them are loaded.  *)
THEOREM LoaderInOrder == LoaderSpec => []LoadsInOrder
<1>1. LoaderSpec => []LoaderInv
  BY LoaderInitInv, LoaderStepInv, PTL DEF LoaderSpec
<1>2. LoaderInv => LoadsInOrder
  BY DEF LoaderInv
<1> QED BY <1>1, <1>2, PTL

-----------------------------------------------------------------------------
(***************************************************************************)
(* Who is told of what.  A section is named once in its document, as the   *)
(* keys of an object are, so that the calls for it are those of one        *)
(* section of one file.                                                    *)
(***************************************************************************)
LEMMA SectionCallsTell ==
    ASSUME NEW f \in File
    PROVE  /\ SectionCalls(f) \in Seq(File \X STRING)
           /\ \A g \in File : \A i \in DOMAIN Document[g] :
                 CountOf(SectionCalls(f), <<g, Document[g][i].section>>)
                   = IF f = g THEN Wants(Document[g][i].section) ELSE 0
<1>1. PICK d : d = Document[f]
  OBVIOUS
<1>2. PICK n \in Nat : DOMAIN d = 1 .. n
  BY <1>1, LoaderAssumption
<1>3. \A i \in 1 .. n : d[i].section \in STRING
  BY <1>1, <1>2, DocumentType
<1>4. PICK ss : ss = [i \in 1 .. n |-> Handlers(f, d[i].section)]
  OBVIOUS
<1>5. SectionCalls(f) = FlattenSeq(ss)
  BY <1>1, <1>2, <1>4, Zenon DEF SectionCalls
<1>6. ss \in Seq(Seq(File \X STRING)) /\ DOMAIN ss = 1 .. n
  <2>1. \A i \in 1 .. n : Handlers(f, d[i].section) \in Seq(File \X STRING)
    BY <1>3, HandlersType
  <2> QED BY <1>4, <2>1, SeqDef
<1>7. SectionCalls(f) \in Seq(File \X STRING)
  BY <1>5, <1>6, FlattenType
<1>8. ASSUME NEW g \in File, NEW i \in DOMAIN Document[g]
      PROVE  CountOf(SectionCalls(f), <<g, Document[g][i].section>>)
               = IF f = g THEN Wants(Document[g][i].section) ELSE 0
  <2>1. PICK s \in STRING : s = Document[g][i].section
    BY DocumentType
  <2>2. ASSUME NEW j \in 1 .. n, f # g \/ d[j].section # s
        PROVE  CountOf(ss[j], <<g, s>>) = 0
    <3>1. PICK t \in STRING : t = d[j].section
      BY <1>3
    <3>2. <<f, t>> # <<g, s>>
      BY <2>2, <3>1
    <3>3. ss[j] = [h \in 1 .. Wants(t) |-> <<f, t>>] /\ Wants(t) \in Nat
      BY <1>4, <3>1, HandlersType
    <3>4. PICK w \in Nat : w = Wants(t)
      BY <3>3
    <3>5. CountOf([h \in 1 .. w |-> <<f, t>>], <<g, s>>) = 0
      BY <3>2, CountNone
    <3> QED BY <3>3, <3>4, <3>5
  <2>3. CASE f # g
    <3>1. CountOf(FlattenSeq(ss), <<g, s>>) = IF 0 \in DOMAIN ss THEN CountOf(ss[0], <<g, s>>) ELSE 0
      <4>1. \A j \in DOMAIN ss : j # 0 => CountOf(ss[j], <<g, s>>) = 0
        BY <1>6, <2>2, <2>3
      <4> QED BY <1>6, <4>1, CountFlatten
    <3>2. 0 \notin DOMAIN ss
      BY <1>6
    <3> QED BY <1>5, <2>1, <2>3, <3>1, <3>2
  <2>4. CASE f = g
    <3>1. i \in 1 .. n /\ d[i].section = s
      BY <1>1, <1>2, <2>1, <2>4
    <3>2. \A j \in 1 .. n : d[j].section = s => j = i
      BY <1>1, <1>2, <3>1, LoaderAssumption
    <3>3. CountOf(FlattenSeq(ss), <<g, s>>) = IF i \in DOMAIN ss THEN CountOf(ss[i], <<g, s>>) ELSE 0
      <4>1. \A j \in DOMAIN ss : j # i => CountOf(ss[j], <<g, s>>) = 0
        BY <1>6, <2>2, <3>2
      <4>2. i \in Nat
        BY <3>1
      <4> QED BY <1>6, <4>1, <4>2, CountFlatten
    <3>4. ss[i] = [h \in 1 .. Wants(s) |-> <<g, s>>] /\ Wants(s) \in Nat
      BY <1>4, <2>4, <3>1, HandlersType
    <3>5. CountOf(ss[i], <<g, s>>) = Wants(s)
      BY <3>4, CountAll
    <3> QED BY <1>5, <1>6, <2>1, <2>4, <3>1, <3>3, <3>5
  <2> QED BY <2>3, <2>4
<1> QED BY <1>7, <1>8

(* SectionsTold, with the type of what is told. *)
Tells(made, files) ==
    \A f \in File : \A i \in DOMAIN Document[f] :
        CountOf(made, <<f, Document[f][i].section>>)
          = Wants(Document[f][i].section) * CountOf(files, f)

ToldInv ==
    /\ LoaderInv
    /\ told \in Seq(File \X STRING)
    /\ ~started => told = <<>>
    /\ requested # NoFile \/ completed = 1 => Tells(told, loaded)

LEMMA ToldInit == LoaderInit => ToldInv
BY LoaderInitInv, EmptySeq DEF LoaderInit, ToldInv

LEMMA NothingTold == Tells(<<>>, <<>>)
<1> SUFFICES ASSUME NEW f \in File, NEW i \in DOMAIN Document[f]
             PROVE  CountOf(<<>>, <<f, Document[f][i].section>>)
                      = Wants(Document[f][i].section) * CountOf(<<>>, f)
  BY DEF Tells
<1>1. PICK w \in Nat : w = Wants(Document[f][i].section)
  BY DocumentType, HandlersType
<1>2. w * 0 = 0
  OBVIOUS
<1> QED BY <1>1, <1>2, CountNothing

(* A file more, and its sections told. *)
LEMMA FileTold ==
    ASSUME NEW made \in Seq(File \X STRING), NEW files \in Seq(File), NEW f \in File,
           Tells(made, files)
    PROVE  Tells(made \o SectionCalls(f), Append(files, f))
<1> SUFFICES ASSUME NEW g \in File, NEW i \in DOMAIN Document[g]
             PROVE  CountOf(made \o SectionCalls(f), <<g, Document[g][i].section>>)
                      = Wants(Document[g][i].section) * CountOf(Append(files, f), g)
  BY DEF Tells
<1>1. PICK x : x = <<g, Document[g][i].section>>
  OBVIOUS
<1>2. PICK w \in Nat : w = Wants(Document[g][i].section)
  BY DocumentType, HandlersType
<1>3. PICK c \in Nat : c = CountOf(files, g)
  BY PlacesFinite
<1>4. CountOf(made, x) = w * c
  BY <1>1, <1>2, <1>3 DEF Tells
<1>5. CountOf(made \o SectionCalls(f), x) = CountOf(made, x) + CountOf(SectionCalls(f), x)
  <2>1. SectionCalls(f) \in Seq(File \X STRING)
    BY SectionCallsTell
  <2> QED BY <2>1, CountConcat
<1>6. CountOf(SectionCalls(f), x) = IF f = g THEN w ELSE 0
  BY <1>1, <1>2, SectionCallsTell
<1>7. CountOf(Append(files, f), g) = c + (IF f = g THEN 1 ELSE 0)
  BY <1>3, CountAppend
<1>8. w * (c + 1) = w * c + w /\ w * (c + 0) = w * c + 0
  OBVIOUS
<1>9. CountOf(made \o SectionCalls(f), x) = w * CountOf(Append(files, f), g)
  BY <1>4, <1>5, <1>6, <1>7, <1>8
<1> QED BY <1>1, <1>2, <1>9

LEMMA ToldStep == ToldInv /\ [LoaderNext]_loaderVars => ToldInv'
<1> SUFFICES ASSUME ToldInv, [LoaderNext]_loaderVars
             PROVE  ToldInv'
  OBVIOUS
<1>1. LoaderInv /\ LoaderInv'
  BY LoaderStepInv DEF ToldInv
<1>2. ASSUME NEW names \in InitialNames, StartLoading(names)
      PROVE  ToldInv'
  <2>1. told' = <<>> /\ loaded' = <<>> /\ started'
    BY <1>1, <1>2 DEF StartLoading, ToldInv, LoaderInv
  <2>2. Tells(told', loaded')
    BY <2>1, NothingTold
  <2> QED BY <1>1, <2>1, <2>2, EmptySeq DEF ToldInv, Tells
<1>3. CASE HandleDataFileLoaded
  <2>1. PICK f \in File : f = requested
    BY <1>3 DEF HandleDataFileLoaded
  <2>2. /\ told' = told \o SectionCalls(f) /\ loaded' = Append(loaded, f)
        /\ started' = started
    BY <1>3, <2>1 DEF HandleDataFileLoaded
  <2>3. /\ told \in Seq(File \X STRING) /\ loaded \in Seq(File)
        /\ requested # NoFile /\ started /\ Tells(told, loaded)
    BY <1>1, <2>1, LoaderAssumption DEF ToldInv, LoaderInv, LoaderTypeOK
  <2>4. Tells(told', loaded')
    BY <2>1, <2>2, <2>3, FileTold
  <2>5. told' \in Seq(File \X STRING)
    BY <2>1, <2>2, <2>3, SectionCallsTell, ConcatProperties
  <2> QED BY <1>1, <2>2, <2>3, <2>4, <2>5 DEF ToldInv, Tells
<1>4. CASE FileFails \/ HandlerThrows
  <2>1. requested # NoFile /\ requested' = NoFile /\ completed' = completed /\ started' = started
    BY <1>4, LoaderAssumption DEF FileFails, HandlerThrows
  <2>2. completed' = 0 /\ started
    BY <1>1, <2>1 DEF LoaderInv
  <2>3. told' \in Seq(File \X STRING)
    <3>1. told \in Seq(File \X STRING)
      BY DEF ToldInv
    <3>2. CASE FileFails
      BY <3>1, <3>2 DEF FileFails
    <3>3. CASE HandlerThrows
      <4>1. PICK f \in File : f = requested
        BY <3>3 DEF HandlerThrows
      <4>2. PICK made \in Seq(File \X STRING) : made = SectionCalls(f)
        BY SectionCallsTell
      <4>3. PICK n \in 1 .. Len(made) : told' = told \o SubSeq(made, 1, n)
        BY <3>3, <4>1, <4>2 DEF HandlerThrows
      <4>4. SubSeq(made, 1, n) \in Seq(File \X STRING)
        BY <4>2, <4>3, SubSeqProperties
      <4> QED BY <3>1, <4>3, <4>4, ConcatProperties
    <3> QED BY <1>4, <3>2, <3>3
  <2> QED BY <1>1, <2>1, <2>2, <2>3 DEF ToldInv
<1>5. CASE UNCHANGED loaderVars
  BY <1>1, <1>5 DEF loaderVars, ToldInv, Tells
<1> QED BY <1>2, <1>3, <1>4, <1>5 DEF LoaderNext, Answered

LEMMA ToldInvTells == ToldInv => SectionsTold
BY Zenon DEF ToldInv, Tells, SectionsTold, CountOf, Places

(* Whatever names what and whatever fails, while a file is under way and    *)
(* when all are loaded, every section of every file loaded was told to all  *)
(* the handlers handleDataFileLoaded calls for it, as often as the file was *)
(* loaded.                                                                  *)
THEOREM SectionsToldToAll == LoaderSpec => []SectionsTold
<1>1. LoaderSpec => []ToldInv
  BY ToldInit, ToldStep, PTL DEF LoaderSpec
<1> QED BY <1>1, ToldInvTells, PTL
-----------------------------------------------------------------------------
(* The state engine. *)

Frames(of) ==
    [call : {"stateEntered"}, state : State, of : Nat, next : Nat \ {0}]
      \cup [call : {"loop"}, by : of, next : Nat \ {0}]
      \cup [call : {"initialize"}, by : of]

(* Under way in cs is the method called name of the processor p. *)
Waits(cs, name, p) == \E i \in DOMAIN cs : cs[i].call = name /\ cs[i].by = p

(* What Running leaves open while calls are under way: a tick processor    *)
(* without its interval is being initialized, a canvas that has not asked  *)
(* for a frame is in the loop after which it will.                         *)
ListedRun ==
    ~thrown => \A p \in ListedSet :
        /\ KindOf(p) = "tick" => p \in intervals \/ Waits(calls, "initialize", p)
        /\ KindOf(p) = "canvas" => p \in frames \/ Waits(calls, "loop", p)

(* What FreshList leaves open: as long as no state was changed inside      *)
(* stateEntered or a first tick, the calls under way push processors of    *)
(* the current state only, and set intervals for listed ones only.         *)
FreshCalls(cs) ==
    \A i \in DOMAIN cs : /\ cs[i].call = "stateEntered" => cs[i].of = current
                         /\ cs[i].call = "initialize" => cs[i].by \in ListedSet
Fresh ==
    ~nested => /\ \A p \in ListedSet : created[p].of = current
               /\ intervals \subseteq ListedSet
               /\ FreshCalls(calls)

Listeners == listening = {p \in ListedSet : KindOf(p) = "io"}

EngineInv ==
    /\ EngineTypeOK /\ calls \in Seq(Frames(DOMAIN created))
    /\ ListedAreLoaded /\ Listeners /\ ListedRun /\ Fresh

LEMMA EngineInitInv == EngineInit => EngineInv
BY DEF EngineInit, EngineInv, EngineTypeOK, ListedAreLoaded, Listeners, ListedRun, ListedSet,
       ToSet, IsInjective, Fresh, FreshCalls

LEMMA EngineInvHolds == EngineInv => EngineTypeOK /\ ListedAreLoaded /\ Running /\ FreshList
BY DEF EngineInv, ListedRun, Listeners, Running, Waits, Fresh, FreshList

-----------------------------------------------------------------------------
(* The stack of calls.                                                     *)

(* rest is the stack, as it will be once what is done now has returned: no *)
(* call is missing from it.                                                *)
Keeps(rest) ==
    /\ rest \in Seq(Frames(DOMAIN created))
    /\ \A name \in {"loop", "initialize"}, p \in DOMAIN created :
          Waits(calls, name, p) => Waits(rest, name, p)
    /\ ~nested => FreshCalls(rest)

LEMMA TopType ==
    ASSUME calls \in Seq(Frames(DOMAIN created)), calls # <<>>
    PROVE  /\ Top \in Frames(DOMAIN created) /\ Top = calls[1] /\ 1 \in DOMAIN calls
           /\ Tail(calls) \in Seq(Frames(DOMAIN created))
BY HeadTailProperties DEF Top

LEMMA OnwardKeeps ==
    ASSUME EngineInv, calls # <<>>, Top.call # "initialize"
    PROVE  Keeps(Onward)
<1>0. calls \in Seq(Frames(DOMAIN created)) /\ (~nested => FreshCalls(calls))
  BY DEF EngineInv, Fresh
<1>1. /\ Top \in Frames(DOMAIN created) /\ Top = calls[1] /\ 1 \in DOMAIN calls
  BY <1>0, TopType
<1>2. [Top EXCEPT !.next = @ + 1] \in Frames(DOMAIN created)
  BY <1>1 DEF Frames
<1>3. Onward = [calls EXCEPT ![1] = [Top EXCEPT !.next = @ + 1]]
  BY <1>1 DEF Onward
<1>4. Onward \in Seq(Frames(DOMAIN created)) /\ DOMAIN Onward = DOMAIN calls
  BY <1>0, <1>1, <1>2, <1>3
<1>5. /\ [Top EXCEPT !.next = @ + 1].call = Top.call
      /\ Top.call = "loop" => [Top EXCEPT !.next = @ + 1].by = Top.by
      /\ Top.call = "stateEntered" => [Top EXCEPT !.next = @ + 1].of = Top.of
  BY <1>1 DEF Frames
<1>6. ASSUME NEW name \in {"loop", "initialize"}, NEW p \in DOMAIN created, Waits(calls, name, p)
      PROVE  Waits(Onward, name, p)
  <2>1. PICK i \in DOMAIN calls : calls[i].call = name /\ calls[i].by = p
    BY <1>6 DEF Waits
  <2>2. Onward[i].call = name /\ Onward[i].by = p
    BY <1>1, <1>3, <1>4, <1>5, <2>1
  <2> QED BY <1>4, <2>1, <2>2 DEF Waits
<1>7. ASSUME ~nested PROVE FreshCalls(Onward)
  BY <1>0, <1>1, <1>3, <1>4, <1>5, <1>7 DEF FreshCalls
<1> QED BY <1>4, <1>6, <1>7 DEF Keeps

LEMMA TailKeeps ==
    ASSUME calls \in Seq(Frames(DOMAIN created)), calls # <<>>,
           NEW name \in {"loop", "initialize"}, NEW p, Waits(calls, name, p)
    PROVE  Waits(Tail(calls), name, p) \/ (Top.call = name /\ Top.by = p)
<1>1. PICK i \in DOMAIN calls : calls[i].call = name /\ calls[i].by = p
  BY DEF Waits
<1>2. CASE i = 1
  BY <1>1, <1>2, TopType
<1>3. CASE i # 1
  <2> DEFINE rest == Tail(calls)
  <2>1. i - 1 \in DOMAIN rest /\ rest[i - 1] = calls[i]
    BY <1>1, <1>3
  <2> HIDE DEF rest
  <2>2. Waits(rest, name, p)
    BY <1>1, <2>1 DEF Waits
  <2> QED BY <2>2 DEF rest
<1> QED BY <1>2, <1>3

LEMMA SelfKeeps ==
    ASSUME EngineInv PROVE Keeps(calls)
BY DEF Keeps, EngineInv, Fresh

LEMMA NothingKeeps ==
    ASSUME calls = <<>> PROVE Keeps(<<>>)
BY DEF Keeps, Waits, FreshCalls

(* Frames put on top of a stack leave those below it where they are. *)
LEMMA OnTop ==
    ASSUME NEW D, NEW rest \in Seq(Frames(D)), NEW new \in Seq(Frames(D))
    PROVE  /\ new \o rest \in Seq(Frames(D))
           /\ FreshCalls(new) /\ FreshCalls(rest) => FreshCalls(new \o rest)
           /\ \A name, p : Waits(rest, name, p) => Waits(new \o rest, name, p)
<1>1. new \o rest \in Seq(Frames(D))
  OBVIOUS
<1>2. ASSUME NEW name, NEW p, Waits(rest, name, p) PROVE Waits(new \o rest, name, p)
  <2>1. PICK i \in DOMAIN rest : rest[i].call = name /\ rest[i].by = p
    BY <1>2 DEF Waits
  <2>2. i + Len(new) \in DOMAIN (new \o rest) /\ (new \o rest)[i + Len(new)] = rest[i]
    BY <2>1
  <2> QED BY <2>1, <2>2 DEF Waits
<1>3. FreshCalls(new) /\ FreshCalls(rest) => FreshCalls(new \o rest)
  BY DEF FreshCalls
<1> QED BY <1>1, <1>2, <1>3

-----------------------------------------------------------------------------
(* A change of state, and a push, wherever they are made.                  *)

LEMMA ChangeStateInv ==
    ASSUME EngineInv, NEW s \in State, NEW rest, Keeps(rest), ChangeState(s, rest)
    PROVE  EngineInv'
<1>1. /\ processors' = <<>> /\ created' = created /\ current' = current + 1
      /\ unloaded' = unloaded \cup ListedSet
      /\ listening' = listening \ ListedSet /\ intervals' = intervals \ ListedSet
      /\ frames' = frames /\ calls' = <<StateEntered(s, current + 1)>> \o rest
  BY DEF ChangeState, Cleared, Deinitialized, ListedSet
<1>2. ListedSet' = {} /\ ListedSet \subseteq DOMAIN created
  BY <1>1 DEF EngineInv, EngineTypeOK, ListedSet, ToSet
<1>3. EngineTypeOK'
  BY <1>1, <1>2 DEF EngineInv, EngineTypeOK
<1>4. (calls \in Seq(Frames(DOMAIN created)))'
  <2>1. StateEntered(s, current + 1) \in Frames(DOMAIN created)
    BY DEF StateEntered, Frames, EngineInv, EngineTypeOK
  <2> QED BY <1>1, <2>1, OnTop DEF Keeps
<1>5. ListedAreLoaded'
  BY <1>1, <1>2 DEF EngineInv, ListedAreLoaded, IsInjective
<1>6. Listeners' /\ ListedRun'
  BY <1>1, <1>2 DEF EngineInv, Listeners, ListedRun
<1>7. Fresh'
  <2> SUFFICES ASSUME ~nested' PROVE intervals' = {} /\ FreshCalls(calls)'
    BY <1>2 DEF Fresh
  <2>0. ~nested /\ intervals \subseteq ListedSet
    BY DEF ChangeState, EngineInv, Fresh
  <2>1. rest \in Seq(Frames(DOMAIN created)) /\ \A i \in DOMAIN rest : rest[i].call = "loop"
    BY DEF ChangeState, Keeps
  <2> QED BY <1>1, <2>0, <2>1 DEF StateEntered, FreshCalls
<1> QED BY <1>3, <1>4, <1>5, <1>6, <1>7 DEF EngineInv

LEMMA PushProcessorInv ==
    ASSUME EngineInv, NEW kind \in Kind, NEW n \in Nat, NEW rest, Keeps(rest),
           ~nested => n = current, PushProcessor(kind, n, rest)
    PROVE  EngineInv'
<1>0. PICK p \in Nat : p = Len(created) + 1
  BY DEF EngineInv, EngineTypeOK
<1> DEFINE new == IF kind = "tick" THEN <<Loop(p), Initialize(p)>> ELSE <<>>
<1>1. /\ created' = Append(created, [kind |-> kind, of |-> n])
      /\ processors' = Append(processors, p)
      /\ listening' = (IF kind = "io" THEN listening \cup {p} ELSE listening)
      /\ frames' = (IF kind = "canvas" THEN frames \cup {p} ELSE frames)
      /\ calls' = new \o rest
      /\ UNCHANGED <<current, unloaded, intervals, nested, thrown>>
  BY <1>0 DEF PushProcessor, NewNumber
<1>2. /\ created' \in Seq([kind : Kind, of : Nat])
      /\ DOMAIN created' = DOMAIN created \cup {p} /\ p \notin DOMAIN created
      /\ KindOf(p)' = kind /\ \A q \in DOMAIN created : KindOf(q)' = KindOf(q)
  BY <1>0, <1>1 DEF EngineInv, EngineTypeOK, KindOf
<1>a. /\ processors \in Seq(DOMAIN created) /\ Len(processors) \in Nat
      /\ DOMAIN processors' = DOMAIN processors \cup {Len(processors) + 1}
      /\ Len(processors) + 1 \notin DOMAIN processors
      /\ processors'[Len(processors) + 1] = p
      /\ \A i \in DOMAIN processors : processors'[i] = processors[i]
                                     /\ processors[i] \in DOMAIN created
  <2>1. processors \in Seq(DOMAIN created) /\ processors' = Append(processors, p)
    BY <1>1 DEF EngineInv, EngineTypeOK
  <2>2. \A i \in DOMAIN processors : processors[i] \in DOMAIN created
    BY <2>1, ElementOfSeq
  <2>3. processors \in Seq(DOMAIN created \cup {p})
    BY <2>1, SeqMonotonic
  <2> QED BY <2>1, <2>2, <2>3, AppendProperties, LenProperties
<1>3. ListedSet' = ListedSet \cup {p} /\ ListedSet \subseteq DOMAIN created
  BY <1>a DEF ListedSet, ToSet
<1>4. new \in Seq(Frames(DOMAIN created'))
  <2>1. Loop(p) \in Frames(DOMAIN created') /\ Initialize(p) \in Frames(DOMAIN created')
    BY <1>2 DEF Loop, Initialize, Frames
  <2> DEFINE a == Loop(p)
             b == Initialize(p)
             F == Frames(DOMAIN created')
  <2>2. ASSUME a \in F, b \in F PROVE <<>> \in Seq(F) /\ <<a, b>> \in Seq(F)
    <3> HIDE DEF a, b, F
    <3> QED BY <2>2
  <2> QED BY <2>1, <2>2
<1>9. EngineTypeOK'
  <2>1. processors' \in Seq(DOMAIN created')
    BY <1>1, <1>2 DEF EngineInv, EngineTypeOK
  <2> QED BY <1>1, <1>2, <2>1 DEF EngineInv, EngineTypeOK
<1>5. calls' \in Seq(Frames(DOMAIN created'))
  <2>1. Frames(DOMAIN created) \subseteq Frames(DOMAIN created')
    BY <1>2 DEF Frames
  <2>2. rest \in Seq(Frames(DOMAIN created'))
    BY <2>1, SeqMonotonic DEF Keeps
  <2>3. new \in Seq(Frames(DOMAIN created'))
    BY <1>4
  <2> HIDE DEF new
  <2> QED BY <1>1, <2>2, <2>3
<1>6. ListedAreLoaded'
  <2>1. IsInjective(processors')
    BY <1>2, <1>a DEF EngineInv, ListedAreLoaded, IsInjective
  <2> QED BY <1>1, <1>2, <1>3, <2>1 DEF EngineInv, EngineTypeOK, ListedAreLoaded
<1>7. Listeners'
  BY <1>1, <1>2, <1>3 DEF EngineInv, Listeners
<1>8. ListedRun'
  <2>1. ASSUME NEW name \in {"loop", "initialize"}, NEW q \in ListedSet, Waits(calls, name, q)
        PROVE  Waits(calls', name, q)
    <3>1. Waits(rest, name, q) /\ rest \in Seq(Frames(DOMAIN created))
      BY <1>3, <2>1 DEF Keeps
    <3>2. Frames(DOMAIN created) \subseteq Frames(DOMAIN created')
      BY <1>2 DEF Frames
    <3>3. rest \in Seq(Frames(DOMAIN created'))
      BY <3>1, <3>2, SeqMonotonic
    <3> HIDE DEF new
    <3>4. Waits(new \o rest, name, q)
      BY <1>4, <3>1, <3>3, OnTop
    <3> QED BY <1>1, <3>4
  <2>2. kind = "tick" => Waits(calls', "initialize", p)
    <3> SUFFICES ASSUME kind = "tick" PROVE Waits(calls', "initialize", p)
      OBVIOUS
    <3>1. calls' = <<Loop(p), Initialize(p)>> \o rest /\ rest \in Seq(Frames(DOMAIN created))
      BY <1>1 DEF Keeps
    <3>2. 2 \in DOMAIN calls' /\ calls'[2] = Initialize(p)
      BY <3>1
    <3> QED BY <3>2 DEF Waits, Initialize
  <2>3. \A q \in ListedSet : q # p /\ KindOf(q)' = KindOf(q)
    BY <1>2, <1>3
  <2> QED BY <1>1, <1>2, <1>3, <2>1, <2>2, <2>3 DEF EngineInv, ListedRun
<1>10. Fresh'
  <2> SUFFICES ASSUME ~nested
               PROVE  /\ \A q \in ListedSet' : created'[q].of = current
                      /\ intervals \subseteq ListedSet' /\ FreshCalls(calls)'
    BY <1>1 DEF Fresh
  <2>1. created'[p].of = n /\ \A q \in DOMAIN created : created'[q].of = created[q].of
    BY <1>0, <1>1 DEF EngineInv, EngineTypeOK
  <2>2. \A i \in DOMAIN new : /\ new[i].call # "stateEntered"
                              /\ new[i].call = "initialize" => new[i].by = p
    BY DEF Loop, Initialize
  <2>3. rest \in Seq(Frames(DOMAIN created)) /\ FreshCalls(rest)
    BY DEF Keeps
  <2>4. FreshCalls(calls)'
    <3> HIDE DEF new
    <3>1. \A i \in DOMAIN (new \o rest) :
             \/ i \in DOMAIN new /\ (new \o rest)[i] = new[i]
             \/ i - Len(new) \in DOMAIN rest /\ (new \o rest)[i] = rest[i - Len(new)]
      BY <1>4, <2>3
    <3>2. ASSUME NEW i \in DOMAIN (new \o rest)
          PROVE  LET f == (new \o rest)[i]
                 IN  /\ f.call = "stateEntered" => f.of = current
                     /\ f.call = "initialize" => f.by \in ListedSet'
      BY <1>3, <2>2, <2>3, <3>1 DEF FreshCalls
    <3> QED BY <1>1, <3>2 DEF FreshCalls
  <2> QED BY <1>3, <2>1, <2>4 DEF EngineInv, Fresh
<1> QED BY <1>5, <1>6, <1>7, <1>8, <1>9, <1>10 DEF EngineInv

-----------------------------------------------------------------------------
(* The events.                                                             *)

(* A loop begins while nothing else is under way.  A canvas whose frame    *)
(* has come waits for its loop to end, unless it is unloaded.              *)
LEMMA LoopBegins ==
    ASSUME EngineInv, calls = <<>>, NEW p \in DOMAIN created, OnlyCalls,
           \/ calls' = <<Loop(p)>> /\ frames' \in {frames, frames \ {p}}
           \/ calls' = <<>> /\ frames' = frames \ {p} /\ p \in unloaded
    PROVE  EngineInv'
<1>1. ListedSet' = ListedSet /\ \A q : KindOf(q)' = KindOf(q)
  BY DEF OnlyCalls, ListedSet, KindOf
<1>2. EngineTypeOK' /\ ListedAreLoaded' /\ Listeners'
  BY <1>1 DEF OnlyCalls, EngineInv, EngineTypeOK, ListedAreLoaded, Listeners
<1>3. (calls \in Seq(Frames(DOMAIN created)))'
  <2>1. Loop(p) \in Frames(DOMAIN created')
    BY DEF OnlyCalls, Loop, Frames
  <2> DEFINE a == Loop(p)
             F == Frames(DOMAIN created')
  <2>2. ASSUME a \in F PROVE <<>> \in Seq(F) /\ <<a>> \in Seq(F)
    <3> HIDE DEF a, F
    <3> QED BY <2>2
  <2> QED BY <2>1, <2>2
<1>4. ListedRun'
  <2>1. ASSUME ~thrown PROVE \A q \in ListedSet : /\ KindOf(q) = "tick" => q \in intervals
                                                  /\ KindOf(q) = "canvas" => q \in frames
    BY <2>1 DEF EngineInv, ListedRun, Waits
  <2>2. calls' = <<Loop(p)>> => Waits(calls', "loop", p)
    BY DEF Waits, Loop
  <2>3. p \in unloaded => p \notin ListedSet
    BY DEF EngineInv, ListedAreLoaded
  <2> QED BY <1>1, <2>1, <2>2, <2>3 DEF OnlyCalls, ListedRun
<1>5. Fresh'
  BY <1>1 DEF OnlyCalls, EngineInv, Fresh, FreshCalls, Loop
<1> QED BY <1>2, <1>3, <1>4, <1>5 DEF EngineInv

LEMMA EventInv ==
    ASSUME EngineInv, NEW p \in DOMAIN created, Tick(p) \/ RenderFrame(p) \/ Input(p)
    PROVE  EngineInv'
BY LoopBegins DEF Tick, RenderFrame, Input, Calls

LEMMA ApplicationInv == ASSUME EngineInv, Application PROVE EngineInv'
<1>1. calls = <<>> /\ Keeps(<<>>) /\ current \in Nat
  BY NothingKeeps DEF Application, EngineInv, EngineTypeOK
<1>2. ASSUME NEW s \in State, ChangeState(s, <<>>) PROVE EngineInv'
  BY <1>1, <1>2, ChangeStateInv
<1>3. ASSUME NEW kind \in Later, PushProcessor(kind, current, <<>>) PROVE EngineInv'
  BY <1>1, <1>3, PushProcessorInv, EngineAssumption
<1> QED BY <1>2, <1>3 DEF Application

-----------------------------------------------------------------------------
(* The innermost call goes on.                                             *)

LEMMA EnterInv == ASSUME EngineInv, Enter PROVE EngineInv'
<1>0. calls # <<>> /\ Top.call = "stateEntered" /\ Keeps(calls) /\ Keeps(Onward)
  BY SelfKeeps, OnwardKeeps DEF Enter
<1>1. /\ Top \in Frames(DOMAIN created) /\ Top = calls[1] /\ 1 \in DOMAIN calls
  BY <1>0, TopType DEF EngineInv
<1>2. /\ Top.state \in State /\ Top.of \in Nat /\ Top.next \in Nat \ {0}
      /\ ~nested => Top.of = current
  <2>1. Top \in [call : {"stateEntered"}, state : State, of : Nat, next : Nat \ {0}]
    BY <1>0, <1>1 DEF Frames
  <2>2. ~nested => FreshCalls(calls)
    BY DEF EngineInv, Fresh
  <2>3. Top.state \in State /\ Top.of \in Nat /\ Top.next \in Nat \ {0}
    BY <2>1
  <2>4. ~nested => Top.of = current
    BY <1>0, <1>1, <2>2 DEF FreshCalls
  <2> QED BY <2>3, <2>4
<1>3. ASSUME Top.next <= Len(Pushed[Top.state]),
             PushProcessor(Pushed[Top.state][Top.next], Top.of, Onward)
      PROVE  EngineInv'
  <2>1. Pushed[Top.state] \in Seq(Kind)
    BY <1>2, EngineAssumption
  <2>2. Pushed[Top.state][Top.next] \in Kind
    BY <1>2, <1>3, <2>1, ElementOfSeq
  <2> QED BY <1>0, <1>2, <1>3, <2>2, PushProcessorInv
<1>4. ASSUME NEW s \in State, ChangeState(s, calls) PROVE EngineInv'
  BY <1>0, <1>4, ChangeStateInv
<1> QED BY <1>3, <1>4 DEF Enter

LEMMA DeliverInv == ASSUME EngineInv, Deliver PROVE EngineInv'
<1>0. calls # <<>> /\ Top.call = "loop" /\ Keeps(Onward)
  BY OnwardKeeps DEF Deliver
<1>1. ASSUME calls' = Onward, OnlyCalls, UNCHANGED frames PROVE EngineInv'
  <2>1. ListedSet' = ListedSet /\ \A q : KindOf(q)' = KindOf(q)
    BY <1>1 DEF OnlyCalls, ListedSet, KindOf
  <2>2. EngineTypeOK' /\ ListedAreLoaded' /\ Listeners'
    BY <1>1, <2>1 DEF OnlyCalls, EngineInv, EngineTypeOK, ListedAreLoaded, Listeners
  <2>3. (calls \in Seq(Frames(DOMAIN created)))'
    BY <1>0, <1>1 DEF Keeps, OnlyCalls
  <2>4. ListedRun'
    <3>1. ListedSet \subseteq DOMAIN created
      BY DEF EngineInv, ListedAreLoaded
    <3> QED BY <1>0, <1>1, <2>1, <3>1 DEF OnlyCalls, EngineInv, ListedRun, Keeps
  <2>5. Fresh'
    BY <1>0, <1>1, <2>1 DEF OnlyCalls, EngineInv, Fresh, Keeps, FreshCalls
  <2> QED BY <2>2, <2>3, <2>4, <2>5 DEF EngineInv
<1>2. ASSUME NEW s \in State, ChangeState(s, Onward) PROVE EngineInv'
  BY <1>0, <1>2, ChangeStateInv
<1>3. ASSUME NEW kind \in Later, PushProcessor(kind, current, Onward) PROVE EngineInv'
  BY <1>0, <1>3, PushProcessorInv, EngineAssumption DEF EngineInv, EngineTypeOK
<1> QED BY <1>1, <1>2, <1>3 DEF Deliver

(* The innermost call returns: what waited for it has got what it waited   *)
(* for.                                                                    *)
LEMMA ReturnsInv ==
    ASSUME EngineInv, calls # <<>>, calls' = Tail(calls),
           UNCHANGED <<current, processors, created, unloaded, listening, nested, thrown>>,
           intervals' = intervals \/ (Top.call = "initialize" /\ intervals' = intervals \cup {Top.by}),
           frames' = frames \/ (Top.call = "loop" /\ frames' = frames \cup {Top.by}),
           Top.call = "initialize" => intervals' = intervals \cup {Top.by},
           Top.call = "loop" /\ KindOf(Top.by) = "canvas" => frames' = frames \cup {Top.by}
    PROVE  EngineInv'
<1>1. ListedSet' = ListedSet /\ \A q : KindOf(q)' = KindOf(q)
  BY DEF ListedSet, KindOf
<1>2. /\ Top \in Frames(DOMAIN created) /\ Top = calls[1] /\ 1 \in DOMAIN calls
      /\ Tail(calls) \in Seq(Frames(DOMAIN created))
  BY TopType DEF EngineInv
<1>3. Top.call \in {"loop", "initialize"} => Top.by \in DOMAIN created
  BY <1>2 DEF Frames
<1>4. EngineTypeOK' /\ ListedAreLoaded' /\ Listeners'
  BY <1>1, <1>3 DEF EngineInv, EngineTypeOK, ListedAreLoaded, Listeners
<1>5. (calls \in Seq(Frames(DOMAIN created)))'
  BY <1>2
<1>6. ListedRun'
  <2>1. ASSUME NEW q \in ListedSet, Waits(calls, "initialize", q)
        PROVE  Waits(calls', "initialize", q) \/ q \in intervals'
    BY <2>1, TailKeeps DEF EngineInv
  <2>2. ASSUME NEW q \in ListedSet, Waits(calls, "loop", q), KindOf(q) = "canvas"
        PROVE  Waits(calls', "loop", q) \/ q \in frames'
    BY <2>2, TailKeeps DEF EngineInv
  <2> QED BY <1>1, <2>1, <2>2 DEF EngineInv, ListedRun
<1>7. Fresh'
  <2> SUFFICES ASSUME ~nested PROVE intervals' \subseteq ListedSet /\ FreshCalls(calls)'
    BY <1>1 DEF EngineInv, Fresh
  <2>1. FreshCalls(calls) /\ intervals \subseteq ListedSet
    BY DEF EngineInv, Fresh
  <2>2. \A i \in DOMAIN Tail(calls) : i + 1 \in DOMAIN calls /\ Tail(calls)[i] = calls[i + 1]
    BY DEF EngineInv
  <2>3. FreshCalls(calls)'
    BY <1>1, <2>1, <2>2 DEF FreshCalls
  <2> QED BY <1>2, <2>1, <2>3 DEF FreshCalls
<1> QED BY <1>4, <1>5, <1>6, <1>7 DEF EngineInv

LEMMA ReturnInv == ASSUME EngineInv, Return PROVE EngineInv'
BY ReturnsInv DEF Return, SetInterval

LEMMA EndLoopInv == ASSUME EngineInv, EndLoop PROVE EngineInv'
BY ReturnsInv DEF EndLoop, OnlyCalls

LEMMA ThrowInv == ASSUME EngineInv, Throw PROVE EngineInv'
<1>1. /\ calls' = <<>> /\ thrown'
      /\ UNCHANGED <<current, processors, created, unloaded, listening, intervals,
                     frames, nested>>
  BY DEF Throw
<1>2. ListedSet' = ListedSet /\ \A q : KindOf(q)' = KindOf(q)
  BY <1>1 DEF ListedSet, KindOf
<1> QED
  BY <1>1, <1>2 DEF EngineInv, EngineTypeOK, ListedAreLoaded, Listeners, ListedRun, Fresh, FreshCalls

-----------------------------------------------------------------------------
LEMMA EngineStepInv == EngineInv /\ [EngineNext]_engineVars => EngineInv'
<1>1. ASSUME EngineInv, EngineNext PROVE EngineInv'
  BY <1>1, EventInv, ApplicationInv, EnterInv, DeliverInv, ReturnInv, EndLoopInv, ThrowInv
  DEF EngineNext
<1>2. ASSUME EngineInv, UNCHANGED engineVars PROVE EngineInv'
  BY <1>2 DEF engineVars, EngineInv, EngineTypeOK, ListedAreLoaded, Listeners, ListedRun, Fresh,
              FreshCalls, ListedSet, KindOf, Waits
<1> QED BY <1>1, <1>2

LEMMA EngineAlways == EngineSpec => []EngineInv
BY EngineInitInv, EngineStepInv, PTL DEF EngineSpec

(* However events, pushes and changes of state nest, no loop calls a       *)
(* processor that was deinitialized, and none that was not is forgotten.   *)
THEOREM EngineListedAreLoaded == EngineSpec => []ListedAreLoaded
BY EngineAlways, EngineInvHolds, PTL

(* Between events the listed processors tick and render, until a method of *)
(* the application throws; the listeners are those of the listed ones.     *)
THEOREM EngineRunning == EngineSpec => []Running
BY EngineAlways, EngineInvHolds, PTL

(* Unless a state is changed inside stateEntered or a first tick, a new    *)
(* state has a list and intervals of its own only.                         *)
THEOREM EngineFreshList == EngineSpec => []FreshList
BY EngineAlways, EngineInvHolds, PTL
-----------------------------------------------------------------------------
(* The http helpers. *)

HttpTypeOK ==
    /\ asked \in [Call -> Nat] /\ got \in [Call -> Nat]
    /\ succeeded \in [Call -> Nat] /\ erred \in [Call -> Nat]
    /\ underWay \subseteq Call /\ threw \subseteq Call

(* EndsOnce of one call, and what it rests on: before a call has asked for *)
(* anything nothing of it has come back, and no answer is counted twice.   *)
CallOK(c) ==
    /\ Ended(c) <= 1 /\ asked[c] <= Urls[c] /\ got[c] <= asked[c]
    /\ c \in underWay => Ended(c) = 0 /\ asked[c] = got[c] + 1
    /\ succeeded[c] = 1 => got[c] = Urls[c] /\ asked[c] = Urls[c]
    /\ erred[c] = 1 => asked[c] = got[c] + 1

HttpInv == HttpTypeOK /\ \A c \in Call : CallOK(c)

LEMMA HttpInitInv == HttpInit => HttpInv
BY HttpAssumption DEF HttpInit, HttpInv, HttpTypeOK, CallOK, Ended

(* A step of one call leaves the others as they are. *)
LEMMA OtherCall ==
    ASSUME NEW c \in Call, NEW d \in Call, c # d, CallOK(d), HttpTypeOK,
           asked'[d] = asked[d], got'[d] = got[d],
           succeeded'[d] = succeeded[d], erred'[d] = erred[d],
           d \in underWay' <=> d \in underWay, d \in threw' <=> d \in threw
    PROVE  CallOK(d)'
BY DEF CallOK, Ended

LEMMA CallTypes ==
    ASSUME HttpInv, NEW c \in Call
    PROVE  /\ CallOK(c)
           /\ asked[c] \in Nat /\ got[c] \in Nat /\ succeeded[c] \in Nat /\ erred[c] \in Nat
           /\ Urls[c] \in Nat
BY HttpAssumption DEF HttpInv, HttpTypeOK

LEMMA SendInv == ASSUME HttpInv, NEW c \in Call, Send(c) PROVE HttpInv'
<1>1. HttpTypeOK'
  BY DEF HttpInv, HttpTypeOK, Send, CallsAnyway, CallsBack, Times
<1>2. CallOK(c)'
  <2>0. /\ asked[c] = 0 /\ succeeded[c] = 0 /\ c \notin threw
    BY DEF Send
  <2>1. got[c] = 0 /\ erred[c] = 0 /\ c \notin underWay
    BY <2>0, CallTypes DEF CallOK, Ended
  <2>2. CASE Urls[c] = 0
    <3>1. /\ asked' = asked /\ underWay' = underWay /\ got' = got /\ erred' = erred
          /\ CallsAnyway(c)
      BY <2>2 DEF Send
    <3>2. succeeded'[c] = Times(c, OnSuccess)
      BY <3>1, <2>0, <1>1 DEF CallsAnyway, CallsBack, HttpInv, HttpTypeOK, Times
    <3>3. c \in threw' <=> c \notin OnSuccess
      BY <3>1, <2>0 DEF CallsAnyway
    <3> QED BY <2>0, <2>1, <2>2, <3>1, <3>2, <3>3 DEF CallOK, Ended, Times
  <2>3. CASE Urls[c] # 0
    <3>1. /\ asked' = [asked EXCEPT ![c] = 1] /\ underWay' = underWay \cup {c}
          /\ got' = got /\ erred' = erred /\ succeeded' = succeeded /\ threw' = threw
      BY <2>3 DEF Send
    <3>2. asked'[c] = 1
      BY <3>1 DEF HttpInv, HttpTypeOK
    <3> QED BY <2>0, <2>1, <2>3, <3>1, <3>2, CallTypes DEF CallOK, Ended
  <2> QED BY <2>2, <2>3
<1>3. ASSUME NEW d \in Call, c # d PROVE CallOK(d)'
  <2>1. /\ asked'[d] = asked[d] /\ got'[d] = got[d]
        /\ succeeded'[d] = succeeded[d] /\ erred'[d] = erred[d]
        /\ d \in underWay' <=> d \in underWay
        /\ d \in threw' <=> d \in threw
    BY <1>3 DEF Send, CallsAnyway, CallsBack, HttpInv, HttpTypeOK
  <2> QED BY <1>3, <2>1, OtherCall DEF HttpInv
<1> QED BY <1>1, <1>2, <1>3 DEF HttpInv

-----------------------------------------------------------------------------
(* The last answer: the call ends in success, in silence or in an          *)
(* exception.                                                              *)
LEMMA LastAnswerInv ==
    ASSUME HttpInv, NEW c \in underWay, got[c] + 1 = Urls[c],
           got' = [got EXCEPT ![c] = @ + 1], underWay' = underWay \ {c},
           asked' = asked, erred' = erred,
           \/ succeeded' = [succeeded EXCEPT ![c] = @ + 1] /\ threw' = threw
           \/ succeeded' = succeeded /\ threw' \in {threw, threw \cup {c}}
    PROVE  HttpInv'
<1>0. c \in Call
  BY DEF HttpInv, HttpTypeOK
<1>1. HttpTypeOK'
  BY <1>0 DEF HttpInv, HttpTypeOK
<1>2. CallOK(c)'
  <2>1. /\ succeeded[c] = 0 /\ erred[c] = 0 /\ c \notin threw
        /\ asked[c] = got[c] + 1
    BY <1>0, CallTypes DEF CallOK, Ended
  <2>2. got'[c] = Urls[c] /\ asked'[c] = Urls[c] /\ erred'[c] = 0 /\ c \notin underWay'
    BY <1>0, <2>1 DEF HttpInv, HttpTypeOK
  <2>3. CASE succeeded' = [succeeded EXCEPT ![c] = @ + 1] /\ threw' = threw
    <3>1. succeeded'[c] = 1
      BY <1>0, <2>1, <2>3 DEF HttpInv, HttpTypeOK
    <3> QED BY <1>0, <2>1, <2>2, <2>3, <3>1, CallTypes DEF CallOK, Ended
  <2>4. CASE succeeded' = succeeded /\ threw' \in {threw, threw \cup {c}}
    BY <1>0, <2>1, <2>2, <2>4, CallTypes DEF CallOK, Ended
  <2> QED BY <2>3, <2>4
<1>3. ASSUME NEW d \in Call, c # d PROVE CallOK(d)'
  <2>1. /\ asked'[d] = asked[d] /\ got'[d] = got[d]
        /\ succeeded'[d] = succeeded[d] /\ erred'[d] = erred[d]
        /\ d \in underWay' <=> d \in underWay
        /\ d \in threw' <=> d \in threw
    BY <1>3 DEF HttpInv, HttpTypeOK
  <2> QED BY <1>0, <1>3, <2>1, OtherCall DEF HttpInv
<1> QED BY <1>1, <1>2, <1>3 DEF HttpInv

(* Fewer images than URLs: one more is asked for. *)
LEMMA NextImageInv ==
    ASSUME HttpInv, NEW c \in underWay, got[c] + 1 # Urls[c],
           got' = [got EXCEPT ![c] = @ + 1], asked' = [asked EXCEPT ![c] = @ + 1],
           UNCHANGED <<underWay, succeeded, erred, threw>>
    PROVE  HttpInv'
<1>0. c \in Call
  BY DEF HttpInv, HttpTypeOK
<1>1. HttpTypeOK'
  BY <1>0 DEF HttpInv, HttpTypeOK
<1>2. CallOK(c)'
  <2>1. /\ Ended(c) = 0 /\ succeeded[c] = 0 /\ erred[c] = 0
        /\ asked[c] = got[c] + 1 /\ asked[c] < Urls[c]
    BY <1>0, CallTypes DEF CallOK, Ended
  <2>2. got'[c] = got[c] + 1 /\ asked'[c] = asked[c] + 1
    BY <1>0 DEF HttpInv, HttpTypeOK
  <2>3. Ended(c)' = Ended(c)
    BY DEF Ended
  <2> QED BY <1>0, <2>1, <2>2, <2>3, CallTypes DEF CallOK
<1>3. ASSUME NEW d \in Call, c # d PROVE CallOK(d)'
  <2>1. /\ asked'[d] = asked[d] /\ got'[d] = got[d]
        /\ succeeded'[d] = succeeded[d] /\ erred'[d] = erred[d]
        /\ d \in underWay' <=> d \in underWay
        /\ d \in threw' <=> d \in threw
    BY <1>3 DEF HttpInv, HttpTypeOK
  <2> QED BY <1>0, <1>3, <2>1, OtherCall DEF HttpInv
<1> QED BY <1>1, <1>2, <1>3 DEF HttpInv

LEMMA FailsInv ==
    ASSUME HttpInv, NEW c \in underWay, Fails(c), UNCHANGED <<asked, got, succeeded>>
    PROVE  HttpInv'
<1>0. c \in Call
  BY DEF HttpInv, HttpTypeOK
<1>1. HttpTypeOK'
  BY <1>0 DEF Fails, Times, HttpInv, HttpTypeOK
<1>2. CallOK(c)'
  <2>1. /\ succeeded[c] = 0 /\ erred[c] = 0 /\ c \notin threw
        /\ asked[c] = got[c] + 1
    BY <1>0, CallTypes DEF CallOK, Ended
  <2>2. /\ erred'[c] = Times(c, OnError) /\ c \notin underWay'
        /\ c \in threw' <=> c \notin OnError
    BY <1>0, <2>1 DEF Fails, Times, HttpInv, HttpTypeOK
  <2> QED BY <1>0, <2>1, <2>2, CallTypes DEF Times, CallOK, Ended
<1>3. ASSUME NEW d \in Call, c # d PROVE CallOK(d)'
  <2>1. /\ asked'[d] = asked[d] /\ got'[d] = got[d]
        /\ succeeded'[d] = succeeded[d] /\ erred'[d] = erred[d]
        /\ d \in underWay' <=> d \in underWay
        /\ d \in threw' <=> d \in threw
    BY <1>3 DEF Fails, HttpInv, HttpTypeOK
  <2> QED BY <1>0, <1>3, <2>1, OtherCall DEF HttpInv
<1> QED BY <1>1, <1>2, <1>3 DEF HttpInv

-----------------------------------------------------------------------------
LEMMA OnlyAnswer ==
    ASSUME HttpInv, NEW c \in underWay, c \in Call, Urls[c] = 1
    PROVE  got[c] + 1 = Urls[c]
BY CallTypes DEF CallOK

LEMMA CallsBackCases ==
    ASSUME HttpInv, NEW c \in Call, CallsBack(c)
    PROVE  /\ c \in OnSuccess => succeeded' = [succeeded EXCEPT ![c] = @ + 1]
           /\ c \notin OnSuccess => succeeded' = succeeded
<1>1. c \notin OnSuccess => [succeeded EXCEPT ![c] = @ + 0] = succeeded
  BY DEF HttpInv, HttpTypeOK
<1> QED BY <1>1 DEF CallsBack, Times

LEMMA AnswerInv == ASSUME HttpInv, NEW c \in Call, Answer(c) PROVE HttpInv'
<1>1. ASSUME NEW status \in {200, 404}, NEW parses \in BOOLEAN, AnswerText(c, status, parses)
      PROVE  HttpInv'
  <2>0. c \in underWay /\ Urls[c] = 1 /\ asked' = asked
    BY <1>1, HttpAssumption DEF AnswerText, Text
  <2>1. CASE status # 200
    BY <1>1, <2>0, <2>1, FailsInv DEF AnswerText
  <2>2. CASE status = 200
    <3>1. /\ got' = [got EXCEPT ![c] = @ + 1] /\ underWay' = underWay \ {c} /\ erred' = erred
      BY <1>1, <2>2 DEF AnswerText
    <3>2. \/ succeeded' = [succeeded EXCEPT ![c] = @ + 1] /\ threw' = threw
          \/ succeeded' = succeeded /\ threw' \in {threw, threw \cup {c}}
      BY <1>1, <2>2, CallsBackCases DEF AnswerText
    <3> QED BY <2>0, <3>1, <3>2, OnlyAnswer, LastAnswerInv
  <2> QED BY <2>1, <2>2
<1>2. ASSUME NEW status \in {200, 404}, AnswerBinary(c, status) PROVE HttpInv'
  <2>0. c \in underWay /\ Urls[c] = 1
    BY <1>2, HttpAssumption DEF AnswerBinary
  <2>1. /\ got' = [got EXCEPT ![c] = @ + 1] /\ underWay' = underWay \ {c}
        /\ asked' = asked /\ erred' = erred /\ CallsAnyway(c)
    BY <1>2 DEF AnswerBinary
  <2>2. \/ succeeded' = [succeeded EXCEPT ![c] = @ + 1] /\ threw' = threw
        \/ succeeded' = succeeded /\ threw' \in {threw, threw \cup {c}}
    BY <2>1, CallsBackCases DEF CallsAnyway
  <2> QED BY <2>0, <2>1, <2>2, OnlyAnswer, LastAnswerInv
<1>3. ASSUME AnswerImage(c) PROVE HttpInv'
  <2>0. c \in underWay /\ got' = [got EXCEPT ![c] = @ + 1] /\ erred' = erred
    BY <1>3 DEF AnswerImage
  <2>1. CASE AllGot(c)
    <3>1. underWay' = underWay \ {c} /\ asked' = asked
      BY <1>3, <2>1 DEF AnswerImage
    <3>2. \/ succeeded' = [succeeded EXCEPT ![c] = @ + 1] /\ threw' = threw
          \/ succeeded' = succeeded /\ threw' \in {threw, threw \cup {c}}
      BY <1>3, <2>1, CallsBackCases DEF AnswerImage, CallsAnyway
    <3> QED BY <2>0, <2>1, <3>1, <3>2, LastAnswerInv DEF AllGot
  <2>2. CASE ~AllGot(c)
    BY <1>3, <2>0, <2>2, NextImageInv DEF AnswerImage, AllGot
  <2> QED BY <2>1, <2>2
<1>4. ASSUME NoAnswer(c) PROVE HttpInv'
  BY <1>4, FailsInv DEF NoAnswer
<1> QED BY <1>1, <1>2, <1>3, <1>4 DEF Answer

LEMMA HttpStepInv == HttpInv /\ [HttpNext]_httpVars => HttpInv'
<1>1. ASSUME HttpInv, NEW c \in Call, Send(c) \/ Answer(c) PROVE HttpInv'
  BY <1>1, SendInv, AnswerInv
<1>2. ASSUME HttpInv, UNCHANGED httpVars PROVE HttpInv'
  BY <1>2 DEF httpVars, HttpInv, HttpTypeOK, CallOK, Ended
<1> QED BY <1>1, <1>2 DEF HttpNext

LEMMA HttpInvEndsOnce == HttpInv => EndsOnce
BY DEF HttpInv, CallOK, EndsOnce

(* Whatever the answers and their order, no call of a helper ends twice,   *)
(* and none ends while a request of it is under way.                       *)
THEOREM HttpEndsOnce == HttpSpec => []EndsOnce
<1>1. HttpSpec => []HttpInv
  BY HttpInitInv, HttpStepInv, PTL DEF HttpSpec
<1> QED BY <1>1, HttpInvEndsOnce, PTL

-----------------------------------------------------------------------------
LibrariesInv == ToldInv /\ HttpInv /\ EngineInv

LEMMA LibrariesStepInv == LibrariesInv /\ [LibrariesNext]_libraryVars => LibrariesInv'
<1> SUFFICES ASSUME LibrariesInv, [LibrariesNext]_libraryVars PROVE LibrariesInv'
  OBVIOUS
<1>1. [LoaderNext]_loaderVars /\ [HttpNext]_httpVars /\ [EngineNext]_engineVars
  BY DEF LibrariesNext, libraryVars
<1> QED BY <1>1, ToldStep, HttpStepInv, EngineStepInv DEF LibrariesInv

(* Files load in order and are told, http calls end once, and no event,    *)
(* push or change of state makes the engine call a processor of an old     *)
(* list.                                                                   *)
THEOREM LibrariesSafe ==
    LibrariesSpec => [](/\ LoadsInOrder /\ SectionsTold /\ EndsOnce
                        /\ ListedAreLoaded /\ Running /\ FreshList)
<1>1. LibrariesInit => LibrariesInv
  BY ToldInit, HttpInitInv, EngineInitInv DEF LibrariesInit, LibrariesInv
<1>2. LibrariesInv => /\ LoadsInOrder /\ SectionsTold /\ EndsOnce
                     /\ ListedAreLoaded /\ Running /\ FreshList
  BY HttpInvEndsOnce, EngineInvHolds, ToldInvTells DEF LibrariesInv, ToldInv, LoaderInv
<1>3. LibrariesSpec => []LibrariesInv
  BY <1>1, LibrariesStepInv, PTL DEF LibrariesSpec
<1> QED BY <1>2, <1>3, PTL
===============================================================================
