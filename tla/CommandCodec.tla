----------------------------- MODULE CommandCodec -----------------------------
(***************************************************************************)
(* The quoting of commands (WSRelayClient/src/CommandChannelHandler.ts):   *)
(* the parts of a command, joined with blanks.  A text is a sequence of    *)
(* characters, a character a number; only the four below matter to the     *)
(* code.                                                                   *)
(***************************************************************************)
EXTENDS Integers, Sequences, SequencesExt

Blank == 0
Quote == 1
Backslash == 2
Comma == 3
Underscore == 4

(* String.replace with a text: the first occurrence only. *)
ReplaceFirst(s, c, by) ==
    IF c \in ToSet(s)
    THEN LET i == SelectInSeq(s, LAMBDA x : x = c)
         IN  SubSeq(s, 1, i - 1) \o by \o SubSeq(s, i + 1, Len(s))
    ELSE s

(* A part with a blank is quoted as it is; the second replace, of a quote  *)
(* by '\"', which is a quote, does nothing.                                *)
FixedPartBare(part) == ReplaceFirst(part, Backslash, <<Backslash, Backslash>>)
FixedPart(part) ==
    IF part = <<>> \/ Blank \in ToSet(part)
    THEN <<Quote>> \o part \o <<Quote>>
    ELSE ReplaceFirst(part, Backslash, <<Backslash, Backslash>>)

Encode(parts) ==
    FoldLeft(LAMBDA text, i : text \o (IF i = 1 THEN <<>> ELSE <<Blank>>)
                                   \o FixedPart(parts[i]),
             <<>>, [i \in DOMAIN parts |-> i])

(* The lexer: the parts so far, the current part (<<>> is null, <<s>> is   *)
(* the text s) and its two states.                                         *)
Added(current, c) == IF current = <<>> THEN <<<<c>>>> ELSE <<Append(current[1], c)>>
Lex(state, c) ==
    CASE state.quoted /\ c = Quote -> [state EXCEPT !.quoted = FALSE]
      [] state.quoted /\ c # Quote -> [state EXCEPT !.current = Added(@, c)]
      [] ~state.quoted /\ c = Blank ->
            [state EXCEPT !.parts = Append(@, state.current), !.current = <<>>]
      [] ~state.quoted /\ c = Quote ->
            [state EXCEPT !.quoted = TRUE,
                          !.current = IF @ = <<>> THEN << <<>> >> ELSE @]
      [] OTHER -> [state EXCEPT !.current = Added(@, c)]

Decode(line) ==
    LET end == FoldLeft(Lex, [parts |-> <<>>, current |-> <<>>, quoted |-> FALSE], line)
    IN  IF line = <<>> THEN <<>> ELSE Append(end.parts, end.current)

(* A name as saveData and loadData write it, and which of these the server *)
(* takes for names of entities.                                            *)
KeyOf(name) == ReplaceFirst(ReplaceFirst(name, Blank, <<Underscore>>), Comma, <<Underscore>>)
Accepted(key) == ToSet(key) \cap {Blank, Quote, Backslash, Comma} = {}
===============================================================================
