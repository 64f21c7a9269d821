--------------------------- MODULE MCTestProgram ---------------------------
(* Small instances of TestProgram for TLC: files of up to three items,     *)
(* and one test for each of a few thousand expressions.                    *)
EXTENDS TestProgram

Word(text) == <<[text |-> text, name |-> "", sig |-> "int", body |-> <<>>]>>

(* How the rest of a function reads, by the expression it returns. *)
Rest(name, sig, body) ==
  LET error == IF body = CallsExit THEN "none" ELSE expression(body).error
  IN  <<[text |-> CASE error = "none"   -> "ok"
                    [] error = "syntax" -> "bad"
                    [] error = "range"  -> "range",
         name |-> name, sig |-> sig, body |-> body]>>

Marks(attribute) == Word("#[") \o Word(attribute) \o Word("]")
Fn(name, body)   == Word("fn") \o Rest(name, "int", body)

Signed(name, sig, body) == Word("fn") \o Rest(name, sig, body)

(* A struct or an enum that reads well, and that C refuses. *)
Unknown(keyword) ==
  Word(keyword) \o <<[text |-> "ok", name |-> "", sig |-> "refused", body |-> <<>>]>>

L(n)    == Literal(n, n)
Zero    == <<L(0)>>
One     == <<L(1)>>
Octal   == <<Literal(10, 8), Tok("+"), Tok("var"), Tok("-"), L(10)>>
Wraps   == <<L(16)>>
Quarter == <<L(4)>>
TooLong == <<L(MaxLong + 1), Tok("+"), L(1)>>
Divides == <<L(1), Tok("/"), L(0)>>
Half    == <<L(1), Tok("+")>>

TestName(k) == <<"t1", "t2">>[k]

(* What stands at place k of a file. *)
Items(k) ==
  LET t == TestName(k) IN
  {Marks("test") \o Fn(t, b) : b \in {Zero, One, CallsExit, Divides, Half}}
    \cup {Marks("bench") \o Fn(t, Zero), Marks("bench") \o Marks("test") \o Fn(t, Zero)}
    \cup {Fn(t, Zero), Fn("main", One), Marks("test") \o Fn("main", One)}
    \cup {Word(keyword) \o Word(rest) :
            keyword \in {"struct", "enum"}, rest \in Rests}
    \cup {Word("fn") \o Word("open"), Word("import") \o Word("m") \o Word(";"),
          Word("import") \o Word("m"), Word("m"),
          Word("]"), Fn(t, TooLong), Marks("test") \o Fn(t, Octal),
          Marks("test") \o Fn(t, Wraps)}

(* What C may have something against; and a test that is called t1 again. *)
Disputed(k) ==
  LET t == TestName(k) IN
  {Marks(m) \o Signed(t, sig, Zero) :
     m \in {"test", "bench"}, sig \in {"params", "void", "refused"}}
    \cup {Signed(t, "refused", Zero), Marks("test") \o Fn("t1", Zero),
          Marks("bench") \o Fn(t, Divides), Marks("bench") \o Signed(t, "void", Divides),
          Signed("main", "refused", Zero), Signed("main", "void", Zero),
          Fn("main", Quarter), Unknown("struct"), Unknown("enum")}

(* What can still matter when two items stand before it. *)
LastItems ==
  {Marks("test") \o Fn("t3", b) : b \in {Zero, One, Half}}
    \cup {Marks("bench") \o Marks("test") \o Fn("t3", Zero), Fn("t3", TooLong),
          Fn("t1", Zero), Fn("main", One), Word("enum") \o Word("ok"),
          Word("struct") \o Word("bad"),
          Word("import") \o Word("m") \o Word(";"), Word("]")}

Files(n) ==
  CASE n = 1 -> Items(1)
    [] n = 2 -> {a \o b : a \in Items(1) \cup Disputed(1), b \in Items(2) \cup Disputed(2)}
    [] n = 3 -> {a \o b \o c : a \in Items(1), b \in Items(2), c \in LastItems}

Operands == {<<L(0)>>, <<L(3)>>, <<L(5)>>, <<Tok("var")>>}
Ops      == {"+", "-", "*", "/", "%", "==", "<", "&&", "||"}
In(e)    == <<Tok("(")>> \o e \o <<Tok(")")>>

Sums    == {a \o <<Tok(o)>> \o b : a \in Operands, b \in Operands, o \in Ops}
Nested  == {s \o <<Tok(o)>> \o a : s \in Sums, a \in Operands, o \in Ops}
             \cup {<<Tok(u)>> \o In(s) \o <<Tok(o)>> \o a :
                     s \in Sums, a \in {<<L(2)>>, <<Tok("var")>>}, o \in {"-", "*", "=="},
                     u \in {"-", "!"}}
             \cup {a \o <<Tok(o)>> \o <<Tok("-")>> \o s :
                     s \in Sums, a \in {<<L(2)>>}, o \in {"-", "/", "<"}}

OneTest == {Marks("test") \o Fn("t1", e) : e \in Nested}

AnySource ==
  {f \o Word("<eof>") : f \in Files(1) \cup Files(2) \cup Files(3) \cup OneTest}

(* A module brings nothing, a test that fails, or a function t2 that takes *)
(* parameters.                                                             *)
AnyModule ==
  {<<>>, <<[name |-> "mt", attributes |-> {"test"}, sig |-> "int", body |-> One]>>,
   <<[name |-> "t2", attributes |-> {}, sig |-> "params", body |-> Zero]>>}
=============================================================================
