----------------------------- MODULE TextRules -----------------------------
(***************************************************************************)
(* The text a person is asked to decide on (application/kernel/approve.py): *)
(* what is refused, and how a text a model had a hand in is rendered so     *)
(* that it is not.  A text is a sequence of "c" (one octet), "w" (two),     *)
(* "x" (a control or a character that is not shown) and "n" (a new line).   *)
(***************************************************************************)
EXTENDS Integers, Sequences

CONSTANTS
    MaxLine,    \* MAX_BODY_LINE_OCTETS
    MaxText     \* MAX_OPERATOR_TEXT_CHARS

\* The marker of a cut fits in a text, and the widest character in a line.
ASSUME TextAssumption == MaxLine \in Nat /\ MaxText \in Nat /\ MaxLine >= 2 /\ MaxText >= 2

NewLine == "n"
Characters == {"c", "w", "x", NewLine}
Octets(ch) == IF ch = "w" THEN 2 ELSE 1

\* The octets of its line up to each character, which is none after a line break.
Widths(text) ==
    LET width[i \in 0..Len(text)] ==
            IF i = 0 \/ text[i] = NewLine THEN 0 ELSE width[i - 1] + Octets(text[i])
    IN width

Blank(text) == \A i \in DOMAIN text : text[i] = NewLine

TextSizeReasons(text) ==
    {r \in {"empty", "long", "wide"} :
        CASE r = "empty" -> Blank(text)
          [] r = "long" -> Len(text) > MaxText
          [] r = "wide" -> \E i \in DOMAIN text : Widths(text)[i] > MaxLine}

CharacterReasons(text) == IF \E i \in DOMAIN text : text[i] = "x" THEN {"hidden"} ELSE {}

TextReasons(text) == TextSizeReasons(text) \cup CharacterReasons(text)

\* Each hidden character becomes its code point: plain, and longer than it was.
Escaped(out, ch) == IF ch = "x" THEN out \o <<"c", "c">> ELSE Append(out, ch)

Escape(text) ==
    LET out[i \in 0..Len(text)] == IF i = 0 THEN <<>> ELSE Escaped(out[i - 1], text[i])
    IN out[Len(text)]

\* A line is broken before the character that no longer fits it; open is what the last line holds.
Broken(out, ch, size) ==
    CASE ch = NewLine -> [text |-> Append(out.text, ch), open |-> 0]
      [] ch # NewLine /\ out.open + size > MaxLine -> [text |-> out.text \o <<NewLine, ch>>, open |-> size]
      [] OTHER -> [text |-> Append(out.text, ch), open |-> out.open + size]

\* Fault: a line is measured by its characters.
FoldedByCharacters(out, ch) == Broken(out, ch, 1)

\* A line is measured by its octets.
Folded(out, ch) == Broken(out, ch, Octets(ch))

\* Line by line: a line break of the text closes the line it ends.
Fold(text) ==
    LET out[i \in 0..Len(text)] == IF i = 0 THEN [text |-> <<>>, open |-> 0] ELSE Folded(out[i - 1], text[i])
    IN out[Len(text)].text

Truncated == <<NewLine, "c">>
Clamp(text) ==
    IF Len(text) <= MaxText THEN text ELSE SubSeq(text, 1, MaxText - Len(Truncated)) \o Truncated

RenderForOperator(text) == Clamp(Fold(Escape(text)))
=============================================================================
