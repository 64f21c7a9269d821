----------------------------- MODULE Formatter -----------------------------
(***************************************************************************)
(* compiler/dmc.cpp, format_dmc_code: `dmc fmt` gives every line the       *)
(* indentation of the braces around it, and nothing else; beside it what   *)
(* of a text the lexer (lex) looks at.  A line is its leading blanks and   *)
(* the rest, of which only matters whether it begins with "}", whether it  *)
(* ends with "{" and whether it begins or ends a string.                   *)
(***************************************************************************)
EXTENDS Integers, Sequences, FiniteSets, SequencesExt

Line(lead, rest) == [lead |-> lead, rest |-> rest]
Rests(text)      == [i \in DOMAIN text |-> text[i].rest]

Opens(rest)  == rest \in {"f {", "} else {", "// {"}
Closes(rest) == rest \in {"}", "} else {"}
Quotes(rest) == rest = "odd quotes"
Empty(rest)  == rest \in {"", "// {"}

(* The indentation after line i of a text: never below zero.               *)
Indented(rests) ==
  LET outer[i \in 0 .. Len(rests)] ==
        IF i = 0 THEN 0
        ELSE LET before == IF Closes(rests[i]) /\ outer[i - 1] > 0
                           THEN outer[i - 1] - 1 ELSE outer[i - 1]
             IN  IF Opens(rests[i]) THEN before + 1 ELSE before
  IN  outer

BugAddsToLead(text, i) == text[i].lead + 4 * Indented(Rests(text))[i - 1]

LeadOf(text, i) ==
  LET outer == Indented(Rests(text))[i - 1]
  IN  4 * (IF Closes(Rests(text)[i]) /\ outer > 0 THEN outer - 1 ELSE outer)

format_dmc_code(text) ==
  [i \in DOMAIN text |-> [text[i] EXCEPT !.lead = LeadOf(text, i)]]

-----------------------------------------------------------------------------
(* lex: a string goes on over the end of a line, and then the blanks at    *)
(* the head of the next line belong to it; elsewhere blanks, empty lines   *)
(* and comments are nothing.                                               *)
InString(rests, i) ==
  Cardinality({j \in 1 .. i - 1 : Quotes(rests[j])}) % 2 = 1

Unterminated(text) == InString(Rests(text), Len(text) + 1)
SpansLines(text)   == \E i \in DOMAIN text : InString(Rests(text), i)

(* What the lexer makes of line i: its tokens, and the blanks in a string. *)
Seen(text, i) ==
  IF InString(Rests(text), i) THEN text[i] ELSE Line(0, Rests(text)[i])

(* The tokens under the numbers of their lines. *)
Program(text) ==
  [i \in {j \in DOMAIN text : InString(Rests(text), j) \/ ~Empty(Rests(text)[j])}
     |-> Seen(text, i)]
=============================================================================
