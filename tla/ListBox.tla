------------------------------- MODULE ListBox -------------------------------
(***************************************************************************)
(* The helpers a page is built with: $first (Query/src/Functions.ts) and   *)
(* the list box $Select (Elements/src/Select.ts).  An option is its value, *)
(* its text (a sequence of numbers) and the two styles pages give it.      *)
(***************************************************************************)
EXTENDS Integers, Sequences, SequencesExt

(* $first; 0 is its throw, when nothing is found. *)
First(list, Test(_)) == SelectInSeq(list, Test)

Option(value, text) == [value |-> value, text |-> text, bold |-> FALSE, struck |-> FALSE]
HasItem(box, value) == \E i \in DOMAIN box : box[i].value = value

AddItem(box, value, text) == Append(box, Option(value, text))

(* The first option of that value; both throw when there is none. *)
SetItem(box, value, text) ==
    LET i == First(box, LAMBDA o : o.value = value)
    IN  [box EXCEPT ![i].text = text]
RemoveItem(box, value) ==
    RemoveAt(box, First(box, LAMBDA o : o.value = value))

(* textContent < textContent, whatever the case of the letters. *)
Less(s, t) ==
    \E i \in 1 .. Len(t) :
        /\ Len(s) >= i - 1
        /\ SubSeq(s, 1, i - 1) = SubSeq(t, 1, i - 1)
        /\ Len(s) = i - 1 \/ s[i] < t[i]

(* The order that Array.sort leaves, where equal texts stay in theirs: each *)
(* option comes behind all that are not greater.                           *)
Inserted(options, option) ==
    LET i == SelectInSeq(options, LAMBDA o : Less(option.text, o.text))
    IN  IF i = 0 THEN Append(options, option) ELSE InsertAt(options, i, option)
InOrderOfText(box) == FoldLeft(Inserted, <<>>, box)

(* options[i] = option: an option that is shown elsewhere moves here, in   *)
(* the place of the one shown before, which is no longer in the list.      *)
Put(options, i, option) ==
    LET at == SelectInSeq(options, LAMBDA o : o = option)
        placed == IF i > Len(options) THEN Append(options, option)
                  ELSE [options EXCEPT ![i] = option]
    IN  IF at \in {0, i} THEN placed ELSE RemoveAt(placed, at)

(* The loop runs to options.length, which falls and rises as it goes.      *)
ReplacesShown(i, options) == i <= Len(options)
Replaces(i, options) == i <= Len(options) + 1
SortByText(box) ==
    LET sorted == InOrderOfText(box)
    IN  FoldLeft(LAMBDA options, i : IF Replaces(i, options)
                                     THEN Put(options, i, sorted[i]) ELSE options,
                 box, [i \in DOMAIN box |-> i])
==============================================================================
