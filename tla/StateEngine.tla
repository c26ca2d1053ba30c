----------------------------- MODULE StateEngine -----------------------------
(***************************************************************************)
(* The state engine and its processors (Javascript/Processors/src).        *)
(* Everything runs on one thread, but a processor of the application that  *)
(* is called with an event may change the state, or push a processor,      *)
(* before the loop that called it goes on: calls is the stack of what is   *)
(* under way.  A method that throws takes all of it down.                  *)
(*                                                                         *)
(* deinitialize and stateExited do not call the engine back.               *)
(***************************************************************************)
EXTENDS Integers, Sequences, FiniteSets, SequencesExt

CONSTANTS
    State,       \* the states of the application
    Pushed,      \* Pushed[s]: the kinds of processors stateEntered of s pushes
    Later,       \* the kinds of processors pushed later in the life of a state
    MaxChanges,  \* bound on the changes of state
    MaxCreated,  \* bound on the processors created
    MaxDepth     \* bound on the calls inside one another

Kind == {"tick", "canvas", "io", "app"}

ASSUME EngineAssumption ==
    /\ Pushed \in [State -> Seq(Kind)]
    /\ Later \subseteq Kind
    /\ {MaxChanges, MaxCreated, MaxDepth} \subseteq Nat

VARIABLES
    current,      \* currentState: how many changes there were
    processors,   \* ProcessorContext.processors, by number, in order
    created,      \* created[p]: kind of processor p, and the state it is of
    unloaded,     \* the processors that were deinitialized
    listening,    \* IO processors whose listeners are attached
    intervals,    \* tick processors that an interval calls
    frames,       \* canvas processors that asked for an animation frame
    calls,        \* the calls under way, the innermost first
    nested,       \* a state was changed inside stateEntered or a first tick
    thrown        \* a method of the application has thrown

engineVars == <<current, processors, created, unloaded, listening, intervals,
                frames, calls, nested, thrown>>

EngineInit ==
    /\ current = 0
    /\ processors = <<>> /\ created = <<>>
    /\ unloaded = {} /\ listening = {} /\ intervals = {} /\ frames = {}
    /\ calls = <<>>
    /\ nested = FALSE /\ thrown = FALSE

KindOf(p) == created[p].kind

-----------------------------------------------------------------------------
(* The calls: stateEntered about to push the next processor of its state;  *)
(* a processor's loop over context.processors; TickProcessor.initialize    *)
(* after its first tick.                                                   *)

StateEntered(s, n) == [call |-> "stateEntered", state |-> s, of |-> n, next |-> 1]
Loop(p) == [call |-> "loop", by |-> p, next |-> 1]
Initialize(p) == [call |-> "initialize", by |-> p]

Top == Head(calls)
Onward == [calls EXCEPT ![1].next = @ + 1]

(* changeState, while rest is under way: the old state exits, clear        *)
(* deinitializes every processor, the new state is entered.                *)
KeepsList == processors
Cleared == <<>>
Forgotten(set, old) == set
Deinitialized(set, old) == set \ old
ChangeState(s, rest) ==
    LET old == ToSet(processors)
    IN  /\ current < MaxChanges /\ Len(rest) < MaxDepth
        /\ current' = current + 1
        /\ processors' = Cleared
        /\ unloaded' = unloaded \cup old
        /\ listening' = Deinitialized(listening, old)
        /\ intervals' = Deinitialized(intervals, old)
        /\ calls' = <<StateEntered(s, current + 1)>> \o rest
        /\ nested' = (nested \/ \E i \in DOMAIN rest : rest[i].call # "loop")
        /\ UNCHANGED <<created, frames, thrown>>

NewNumberFromZero == Len(created)
NewNumber == Len(created) + 1

(* pushProcessor of a new one, for the state n, while rest is under way:   *)
(* it is listed, then initialized.  A TickProcessor ticks at once.         *)
PushProcessor(kind, n, rest) ==
    LET p == NewNumber
    IN  /\ p <= MaxCreated /\ Len(rest) + 2 <= MaxDepth
        /\ created' = Append(created, [kind |-> kind, of |-> n])
        /\ processors' = Append(processors, p)
        /\ listening' = IF kind = "io" THEN listening \cup {p} ELSE listening
        /\ frames' = IF kind = "canvas" THEN frames \cup {p} ELSE frames
        /\ calls' = (IF kind = "tick" THEN <<Loop(p), Initialize(p)>> ELSE <<>>) \o rest
        /\ UNCHANGED <<current, unloaded, intervals, nested, thrown>>

-----------------------------------------------------------------------------
(* Events.                                                                 *)

Calls(p) == calls' = <<Loop(p)>>
OnlyCalls == UNCHANGED <<current, processors, created, unloaded, listening, intervals,
                         nested, thrown>>

(* handleTick: of a disabled processor it returns. *)
Tick(p) ==
    /\ calls = <<>> /\ p \in intervals
    /\ p \notin unloaded
    /\ Calls(p) /\ OnlyCalls /\ UNCHANGED frames

(* handleRenderFrame: the next frame is asked for after the loop. *)
RenderFrame(p) ==
    /\ calls = <<>> /\ p \in frames
    /\ frames' = frames \ {p}
    /\ IF p \in unloaded THEN UNCHANGED calls ELSE Calls(p)
    /\ OnlyCalls

(* Any of the ten listeners for the keyboard and the mouse. *)
Input(p) ==
    /\ calls = <<>> /\ p \in listening
    /\ Calls(p) /\ OnlyCalls /\ UNCHANGED frames

(* The application, from a timer or a callback of its own. *)
Application ==
    /\ calls = <<>>
    /\ \/ \E s \in State : ChangeState(s, <<>>)
       \/ \E kind \in Later : current > 0 /\ PushProcessor(kind, current, <<>>)

-----------------------------------------------------------------------------
(* The innermost call goes on.                                             *)

Enter ==
    /\ calls # <<>> /\ Top.call = "stateEntered"
    /\ \/ /\ Top.next <= Len(Pushed[Top.state])
          /\ PushProcessor(Pushed[Top.state][Top.next], Top.of, Onward)
       \/ \E s \in State : ChangeState(s, calls)

(* stateEntered and TickProcessor.initialize return to their callers. *)
SetInterval(p) == intervals' = intervals \cup {p}
Return ==
    /\ calls # <<>>
    /\ \/ /\ Top.call = "stateEntered" /\ Top.next > Len(Pushed[Top.state])
          /\ UNCHANGED intervals
       \/ Top.call = "initialize" /\ SetInterval(Top.by)
    /\ calls' = Tail(calls)
    /\ UNCHANGED <<current, processors, created, unloaded, listening, frames, nested, thrown>>

(* The loop calls the next processor of the list as it is now.  Only the   *)
(* application's have something to do: nothing, or change the state, or    *)
(* push a processor.                                                       *)
Listed == Top.next <= Len(processors)
Deliver ==
    /\ calls # <<>> /\ Top.call = "loop" /\ Listed
    /\ \/ /\ calls' = Onward
          /\ OnlyCalls /\ UNCHANGED frames
       \/ /\ KindOf(processors[Top.next]) = "app"
          /\ \/ \E s \in State : ChangeState(s, Onward)
             \/ \E kind \in Later : PushProcessor(kind, current, Onward)

EndLoopOnce ==
    /\ calls # <<>> /\ Top.call = "loop" /\ ~Listed
    /\ calls' = Tail(calls)
    /\ OnlyCalls /\ UNCHANGED frames
(* The loop ends; a canvas asks for its next frame. *)
EndLoop ==
    /\ calls # <<>> /\ Top.call = "loop" /\ ~Listed
    /\ calls' = Tail(calls)
    /\ frames' = IF KindOf(Top.by) = "canvas" THEN frames \cup {Top.by} ELSE frames
    /\ OnlyCalls

(* A method of the application throws: every caller is abandoned. *)
Throw ==
    /\ calls # <<>>
    /\ \/ Top.call = "stateEntered"
       \/ Top.call = "loop" /\ Listed /\ KindOf(processors[Top.next]) = "app"
    /\ calls' = <<>> /\ thrown' = TRUE
    /\ UNCHANGED <<current, processors, created, unloaded, listening, intervals, frames, nested>>

EngineNext ==
    \/ \E p \in DOMAIN created : Tick(p) \/ RenderFrame(p) \/ Input(p)
    \/ Application \/ Enter \/ Return \/ Deliver \/ EndLoop \/ Throw

EngineSpec == EngineInit /\ [][EngineNext]_engineVars

-----------------------------------------------------------------------------
(* Properties. *)

ListedSet == ToSet(processors)

(* The shape of the engine, and of the calls under way. *)
EngineTypeOK ==
    /\ current \in Nat
    /\ created \in Seq([kind : Kind, of : Nat])
    /\ processors \in Seq(DOMAIN created)
    /\ unloaded \subseteq DOMAIN created
    /\ listening \subseteq DOMAIN created
    /\ intervals \subseteq DOMAIN created
    /\ frames \subseteq DOMAIN created

(* ProcessorContext: however events, pushes and changes of state nest, a   *)
(* processor that was deinitialized is not listed, so no loop calls it;    *)
(* one that was not is listed, once.                                       *)
ListedAreLoaded ==
    /\ IsInjective(processors)
    /\ ListedSet = DOMAIN created \ unloaded

(* Listeners are attached for exactly the IO processors that are listed.   *)
(* Between events, each tick processor listed has its interval and each    *)
(* canvas listed has asked for a frame, unless a method has thrown: then   *)
(* a canvas may render no more, and a tick processor never tick.           *)
Running ==
    /\ listening = {p \in ListedSet : KindOf(p) = "io"}
    /\ calls = <<>> /\ ~thrown =>
          \A p \in ListedSet : /\ KindOf(p) = "tick" => p \in intervals
                               /\ KindOf(p) = "canvas" => p \in frames

(* "All processors added to this state are unloaded, so that the new state *)
(* can add a fresh list": between events the list is that of the current   *)
(* state, and no interval is left of another, as long as no state was      *)
(* changed inside stateEntered or a first tick.                            *)
FreshList ==
    calls = <<>> /\ ~nested =>
        /\ \A p \in ListedSet : created[p].of = current
        /\ intervals \subseteq ListedSet
==============================================================================
