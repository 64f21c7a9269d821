---------------------------- MODULE Expressions ----------------------------
(***************************************************************************)
(* compiler/dmc.cpp, Parser::parse_binary, unary_expr and try_fold: from   *)
(* the tokens of an expression to the C text that is emitted for it, and   *)
(* what that text is worth in C; beside it what the expression means.      *)
(*                                                                         *)
(* Calls, fields, indexing, assignment and strings are left out: they are  *)
(* not folded.  An integer is small enough not to overflow unless its      *)
(* literal is too large for std::stoll.                                    *)
(***************************************************************************)
EXTENDS Integers, Sequences

CONSTANTS
  MaxLong,  \* the largest literal that stoll reads
  X         \* the value of the variable in an expression

(* A token: for a literal, what its digits are worth in decimal and what   *)
(* they are worth to a C compiler, to which a leading zero means octal.    *)
Tok(text)       == [text |-> text, dec |-> 0, c |-> 0]
Literal(dec, c) == [text |-> "int", dec |-> dec, c |-> c]

binary_precedence(op) ==
  CASE op = "||" -> 1
    [] op = "&&" -> 2
    [] op \in {"==", "!="} -> 3
    [] op \in {"<", "<=", ">", ">="} -> 4
    [] op \in {"+", "-"} -> 5
    [] op \in {"*", "/", "%"} -> 6
    [] OTHER -> 0

-----------------------------------------------------------------------------
(* Arithmetic of C: division truncates.  A set holds the value, or is      *)
(* empty where there is none.                                              *)

Truth(b) == IF b THEN 1 ELSE 0
Abs(n)   == IF n < 0 THEN -n ELSE n
Sign(n)  == IF n < 0 THEN -1 ELSE 1
Div(a, b) == Sign(a) * Sign(b) * (Abs(a) \div Abs(b))

Apply(op, a, b) ==
  CASE op = "+"  -> {a + b}
    [] op = "-"  -> {a - b}
    [] op = "*"  -> {a * b}
    [] op = "/"  -> IF b = 0 THEN {} ELSE {Div(a, b)}
    [] op = "%"  -> IF b = 0 THEN {} ELSE {a - b * Div(a, b)}
    [] op = "==" -> {Truth(a = b)}
    [] op = "!=" -> {Truth(a # b)}
    [] op = "<"  -> {Truth(a < b)}
    [] op = "<=" -> {Truth(a <= b)}
    [] op = ">"  -> {Truth(a > b)}
    [] op = ">=" -> {Truth(a >= b)}
    [] op = "&&" -> {Truth(a # 0 /\ b # 0)}
    [] op = "||" -> {Truth(a # 0 \/ b # 0)}
    [] OTHER -> {}

Negated(op, a) == IF op = "-" THEN -a ELSE Truth(a = 0)

(* && and || do not look at the right side when the left one decides. *)
Decides(op, a) == (op = "&&" /\ a = 0) \/ (op = "||" /\ a # 0)

Combined(op, left, right) ==
  UNION {IF Decides(op, a) THEN {Truth(op = "||")}
         ELSE UNION {Apply(op, a, b) : b \in right} : a \in left}

-----------------------------------------------------------------------------
(* The emitted text: whether it is nothing but digits, what number they    *)
(* are in decimal, and what the text is worth in C.  The text of an        *)
(* operation stands in parentheses, so its worth follows from the worth of *)
(* its parts.  A folded result is digits again unless it is below zero.    *)
CTexts == [digits : BOOLEAN, dec : Int, worth : SUBSET Int]

Digits(dec, c)  == [digits |-> TRUE, dec |-> dec, worth |-> {c}]
NoDigits(worth) == [digits |-> FALSE, dec |-> 0, worth |-> worth]

Printed(n)       == IF n < 0 THEN NoDigits({n}) ELSE Digits(n, n)
Variable         == NoDigits({X})
Paren(e)         == NoDigits(e.worth)
Unary(op, e)     == NoDigits({Negated(op, a) : a \in e.worth})
Binary(op, l, r) == NoDigits(Combined(op, l.worth, r.worth))

-----------------------------------------------------------------------------
(* The parser: a text, the token after it, and what went wrong.            *)
Results == [text : CTexts, at : Nat, error : {"none", "syntax", "range"}]

Parsed(text, at)  == [text |-> text, at |-> at, error |-> "none"]
Failed(error, at) == [text |-> Variable, at |-> at, error |-> error]

BugFoldFloors(op, a, b) ==
  IF op = "-" THEN {Abs(a - b)} ELSE Apply(op, a, b)

try_fold(op, a, b) == Apply(op, a, b)

FoldedText(l, op, r, folded) ==
  IF l.digits /\ r.digits /\ folded # {} THEN Printed(CHOOSE n \in folded : TRUE)
  ELSE Binary(op, l, r)

(* left op right; stoll throws what collect_declarations does not catch. *)
Combine(left, op, right) ==
  LET l == left.text
      r == right.text
  IN  IF l.digits /\ r.digits /\ (l.dec > MaxLong \/ r.dec > MaxLong)
      THEN Failed("range", right.at)
      ELSE Parsed(FoldedText(l, op, r, try_fold(op, l.dec, r.dec)), right.at)

TextAt(s, i) == IF i \in DOMAIN s THEN s[i].text ELSE ";"

BugRightAssociative(op) == binary_precedence(op)

RightBinds(op) == binary_precedence(op) + 1

(* The parser's calls go one level deeper with every token: "below" holds  *)
(* what the calls made from here return, unary_expr by where it begins,    *)
(* the rest of parse_binary's loop by the left side and min_prec.          *)
parse_binary(below, i, min_prec) == below.climb[below.unary[i]][min_prec]

Climb(below, s, left, min_prec) ==
  LET op    == TextAt(s, left.at)
      prec  == binary_precedence(op)
      right == parse_binary(below, left.at + 1, RightBinds(op))
  IN  IF left.error # "none" \/ prec = 0 \/ prec < min_prec THEN left
      ELSE IF right.error # "none" THEN right
      ELSE below.climb[Combine(left, op, right)][min_prec]

unary_expr(below, s, i) ==
  LET text    == TextAt(s, i)
      operand == below.unary[i + 1]
      inner   == parse_binary(below, i + 1, 1)
  IN  CASE text \in {"!", "-"} ->
             [operand EXCEPT !.text = Unary(text, operand.text)]
        [] text = "(" /\ inner.error # "none" -> inner
        [] text = "(" /\ inner.error = "none" ->
             IF TextAt(s, inner.at) = ")" THEN Parsed(Paren(inner.text), inner.at + 1)
             ELSE Failed("syntax", inner.at)
        [] text = "int" -> Parsed(Digits(s[i].dec, s[i].c), i + 1)
        [] text = "var" -> Parsed(Variable, i + 1)
        [] OTHER -> Failed("syntax", i)

Lowest ==
  [unary |-> [i \in Nat |-> Failed("syntax", i)],
   climb |-> [left \in Results |-> [p \in Nat |-> Failed("syntax", left.at)]]]

Higher(s, below) ==
  [unary |-> [i \in Nat |-> unary_expr(below, s, i)],
   climb |-> [left \in Results |-> [p \in Nat |-> Climb(below, s, left, p)]]]

(* No call is more than Len(s) + 2 deep: the lowest level is not reached. *)
Levels(s) ==
  LET level[n \in Nat] == IF n = 0 THEN Lowest ELSE Higher(s, level[n - 1])
  IN  level

(* An expression that a ";" follows. *)
ReadToEnd(s, r) ==
  IF r.error = "none" /\ r.at # Len(s) + 1 THEN Failed("syntax", r.at) ELSE r

expression(s) == ReadToEnd(s, parse_binary(Levels(s)[Len(s) + 2], 1, 1))

-----------------------------------------------------------------------------
(* What an expression means: the operator that binds least, the last of    *)
(* its kind, is applied to what stands on its two sides.                   *)

(* How many parentheses are open behind token i. *)
Nesting(s) ==
  LET open[i \in Nat] ==
        IF i = 0 THEN 0
        ELSE open[i - 1] + (CASE TextAt(s, i) = "(" -> 1
                              [] TextAt(s, i) = ")" -> -1
                              [] OTHER -> 0)
  IN  open

(* Positions of the binary operators in a .. b outside parentheses; a "-"  *)
(* is one when it comes after an operand.                                  *)
OperandEnds == {"int", "var", ")"}

Operators(s, a, b) ==
  {i \in a + 1 .. b : /\ binary_precedence(TextAt(s, i)) > 0
                      /\ Nesting(s)[i] = Nesting(s)[a - 1]
                      /\ TextAt(s, i - 1) \in OperandEnds}

Weakest(s, operators) ==
  CHOOSE i \in operators : \A j \in operators :
    LET p == binary_precedence(TextAt(s, i))
        q == binary_precedence(TextAt(s, j))
    IN  p < q \/ (p = q /\ j <= i)

(* Of the tokens a .. b, given what shorter stretches mean. *)
MeaningOf(s, shorter, a, b) ==
  LET operators == Operators(s, a, b)
      i    == Weakest(s, operators)
      text == TextAt(s, a)
  IN  CASE operators # {} -> Combined(TextAt(s, i), shorter[a][i - 1], shorter[i + 1][b])
        [] operators = {} /\ text \in {"!", "-"} ->
             {Negated(text, v) : v \in shorter[a + 1][b]}
        [] operators = {} /\ text = "(" /\ a < b -> shorter[a + 1][b - 1]
        [] operators = {} /\ text = "int" -> {s[a].dec}
        [] operators = {} /\ text = "var" -> {X}
        [] OTHER -> {}

Meanings(s) ==
  LET upTo[n \in Nat] ==
        IF n = 0 THEN [a \in Nat |-> [b \in Nat |-> {}]]
        ELSE [a \in Nat |-> [b \in Nat |->
                IF a > b THEN {} ELSE MeaningOf(s, upTo[n - 1], a, b)]]
  IN  upTo

Meaning(s) == Meanings(s)[Len(s)][1][Len(s)]

(* Literals that C reads as the source means them. *)
PlainLiterals(s) == \A i \in DOMAIN s : s[i].dec = s[i].c /\ s[i].dec <= MaxLong
=============================================================================
