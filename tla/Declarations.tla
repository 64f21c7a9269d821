---------------------------- MODULE Declarations ----------------------------
(***************************************************************************)
(* compiler/dmc.cpp, the declaration loop of collect_declarations: imports *)
(* first, then structs, enums and functions until the end of the file.  A  *)
(* declaration that does not parse is reported and skip_to_decl looks for  *)
(* the next keyword from where the error was found.                        *)
(*                                                                         *)
(* A token is an attribute bracket, a keyword, or the rest of a            *)
(* declaration behind its keyword, taken as one token that says how it     *)
(* reads: "ok"; "bad", an error inside it; "open", its closing brace is    *)
(* missing; "range", a literal stoll refuses.  Its signature is what the C *)
(* compiler later sees of it.  What the imported modules contribute is     *)
(* given (ModuleLoader models how it is collected).                        *)
(***************************************************************************)
EXTENDS Integers, Sequences, FiniteSets

CONSTANTS
  Sources,   \* the token sequences of files, each ending with "<eof>"
  Imported   \* functions that the modules of a file may bring along

VARIABLES
  tokens,      \* tokens_
  imported,    \* what the modules of this file contribute
  index,       \* index_
  functions,   \* functions_: name, attributes, signature and body
  garbled,     \* an enum has swallowed the text of another declaration
  diagnosed,   \* diagnostics_ is not empty
  phase        \* "imports", "declarations", "parsed" or "aborted"

source == <<tokens, imported>>
parser == <<tokens, imported, index, functions, garbled, diagnosed, phase>>

Eof       == "<eof>"
Semicolon == ";"
Rests     == {"ok", "bad", "open", "range"}
Keywords  == {"struct", "enum", "fn", "import"}

(* No parameters and an int result; parameters; no parameters and no       *)
(* result; or C has an error to report in what is emitted for it by        *)
(* itself: a type or a name it does not know, a value of a wrong type, a   *)
(* name the C library or the emitted runtime, harness or types have taken. *)
Signatures == {"int", "params", "void", "refused"}

InitParser ==
  /\ tokens \in Sources
  /\ imported \in IF tokens[1].text = "import" THEN Imported ELSE {<<>>}
  /\ index     = 1
  /\ functions = <<>>
  /\ garbled   = FALSE
  /\ diagnosed = FALSE
  /\ phase     = "imports"

(* The text of token i; behind the last one there is nothing to take. *)
Text(i) == IF i \in DOMAIN tokens THEN tokens[i].text ELSE Eof
peek    == Text(index)

(* "#[" name "]", and "import" name ";". *)
Attribute(i) == Text(i) = "#[" /\ Text(i + 1) # Eof /\ Text(i + 2) = "]"
Import(i)    == Text(i) = "import" /\ Text(i + 1) # Eof /\ Text(i + 2) = Semicolon

First(i, stops) == CHOOSE j \in i .. Len(tokens) :
  Text(j) \in stops /\ \A k \in i .. j - 1 : Text(k) \notin stops

-----------------------------------------------------------------------------
(* How a declaration at index i reads: ok, whether an error or an          *)
(* exception that is not caught; and the token after it or at the error.   *)

ReadsTo(at) == [how |-> "ok", at |-> at]
Errs(at)    == [how |-> "error", at |-> at]
Escapes     == [how |-> "escape", at |-> 1]

(* take() of whatever stands at i, then an expect that fails. *)
TakesThenErrs(i) == Errs(IF Text(i) = Eof THEN i ELSE i + 1)

(* The first field of an unclosed struct is the next token: ":" is missing. *)
structure(i) ==
  CASE Text(i + 1) = "ok"   -> ReadsTo(i + 2)
    [] Text(i + 1) = "open" -> TakesThenErrs(i + 2)
    [] OTHER                -> Errs(i + 1)

(* Any token is a variant: an unclosed enum goes on to the next "}", which *)
(* closes the next declaration that is closed.                             *)
Closed == {"ok", "bad", "range"}

Swallowed(i) == Text(i + 1) = "open"

parse_enum(i) ==
  CASE Text(i + 1) \in {"ok", "range"} -> ReadsTo(i + 2)
    [] Text(i + 1) = "bad" -> Errs(i + 1)
    [] Swallowed(i) ->
         LET j == First(i + 2, Closed \cup {Eof})
         IN  IF Text(j) = Eof THEN Errs(j) ELSE ReadsTo(j + 1)

(* The attributes in front of a function, and the token behind them. *)
Attributes(i) ==
  LET n == CHOOSE n \in 0 .. Len(tokens) :
             ~Attribute(i + 3 * n) /\ \A k \in 0 .. n - 1 : Attribute(i + 3 * k)
  IN  [names |-> {Text(i + 3 * k + 1) : k \in 0 .. n - 1}, at |-> i + 3 * n]

(* The next statement of an unclosed function begins with the next token:  *)
(* a keyword is taken for a variable, an attribute for no expression.      *)
function(i) ==
  LET f == Attributes(i).at IN
  CASE Text(f) = "#[" -> Errs(IF Text(f + 1) = Eof THEN f + 1 ELSE f + 2)
    [] Text(f) \notin {"fn", "#["} -> Errs(f)
    [] Text(f) = "fn" /\ Text(f + 1) = "ok"    -> ReadsTo(f + 2)
    [] Text(f) = "fn" /\ Text(f + 1) = "bad"   -> Errs(f + 1)
    [] Text(f) = "fn" /\ Text(f + 1) = "range" -> Escapes
    [] Text(f) = "fn" /\ Text(f + 1) = "open"  ->
         IF Text(f + 2) = "#[" THEN Errs(f + 2) ELSE TakesThenErrs(f + 2)

Declaration(i) ==
  CASE Text(i) = "struct" -> structure(i)
    [] Text(i) = "enum"   -> parse_enum(i)
    [] OTHER              -> function(i)

BugNoSkip(i)      == i
BugPastTheEnd(i)  == 1 + First(i, Keywords \cup {Eof})
BugSkipOne(i)     == IF Text(i) = Eof THEN i ELSE First(i + 1, Keywords \cup {Eof})

skip_to_decl(i) == First(i, Keywords \cup {Eof})

-----------------------------------------------------------------------------
(* parse_imports: lines of three tokens; one that is not ends everything.  *)
ImportsEnd ==
  LET n == CHOOSE n \in 0 .. Len(tokens) :
             ~Import(1 + 3 * n) /\ \A k \in 0 .. n - 1 : Import(1 + 3 * k)
  IN  1 + 3 * n

parse_imports ==
  /\ phase = "imports"
  /\ index' = ImportsEnd
  /\ functions' = imported
  /\ phase' = IF Text(ImportsEnd) = "import" THEN "aborted" ELSE "declarations"
  /\ UNCHANGED <<source, garbled, diagnosed>>

InLoop(how) ==
  phase = "declarations" /\ peek # Eof /\ Declaration(index).how = how

(* functions_.push_back(function()) and its like *)
FunctionAt(i) ==
  LET a    == Attributes(i)
      rest == tokens[a.at + 1]
  IN  [name |-> rest.name, attributes |-> a.names,
       sig |-> rest.sig, body |-> rest.body]

Collect ==
  /\ InLoop("ok")
  /\ index' = Declaration(index).at
  /\ functions' = IF peek \in {"struct", "enum"} THEN functions
                  ELSE Append(functions, FunctionAt(index))
  /\ garbled' = (garbled \/ (peek = "enum" /\ Swallowed(index)))
  /\ UNCHANGED <<source, diagnosed, phase>>

Recover ==
  /\ InLoop("error")
  /\ diagnosed' = TRUE
  /\ index' = skip_to_decl(Declaration(index).at)
  /\ UNCHANGED <<source, functions, garbled, phase>>

(* std::out_of_range is no runtime_error: the compiler ends here. *)
Escape ==
  /\ InLoop("escape")
  /\ phase' = "aborted"
  /\ UNCHANGED <<source, index, functions, garbled, diagnosed>>

EndOfFile ==
  /\ phase = "declarations"
  /\ peek = Eof
  /\ phase' = "parsed"
  /\ UNCHANGED <<source, index, functions, garbled, diagnosed>>

NextParser == parse_imports \/ Collect \/ Recover \/ Escape \/ EndOfFile

-----------------------------------------------------------------------------
(* What the file declares, read off its tokens from the outside.           *)

Functions == {i \in DOMAIN tokens : Text(i) = "fn" /\ Text(i + 1) \in Rests}

(* The attributes right before i: how many, their names, the first one. *)
AttributeCount(i) ==
  CHOOSE n \in 0 .. Len(tokens) :
    ~Attribute(i - 3 * (n + 1)) /\ \A k \in 1 .. n : Attribute(i - 3 * k)

AttributesBefore(i) == {Text(i - 3 * k + 1) : k \in 1 .. AttributeCount(i)}
ItemStart(i)        == i - 3 * AttributeCount(i)

DeclaredAt(i) ==
  [name       |-> tokens[i + 1].name,
   attributes |-> AttributesBefore(i),
   sig        |-> tokens[i + 1].sig,
   body       |-> tokens[i + 1].body]

(* The values of f at 1 .. n, as far as it has any there, in that order. *)
InOrder(f, n) ==
  LET upTo[i \in Nat] ==
        IF i = 0 THEN <<>>
        ELSE IF i \in DOMAIN f THEN Append(upTo[i - 1], f[i]) ELSE upTo[i - 1]
  IN  upTo[n]

Written == InOrder([i \in Functions |-> DeclaredAt(i)], Len(tokens))

(* An import behind the first declaration. *)
LateImport == \E i \in DOMAIN tokens : i >= ImportsEnd /\ Text(i) = "import"

(* Where functions holds what this file declares under the name of i. *)
Named(i) ==
  {k \in DOMAIN functions :
     k > Len(imported) /\ functions[k].name = tokens[i + 1].name}

OnlyOne(i) == \A j \in Functions : tokens[j + 1].name = tokens[i + 1].name => j = i

(* Token j is a part of a declaration that reads well, or of an attribute. *)
PlainWord(text) == text \notin Keywords \cup Rests \cup {"#[", "]", Semicolon, Eof}

Clean(j) ==
  \/ Text(j) \in {"struct", "fn"} /\ Text(j + 1) = "ok"
  \/ Text(j) = "enum" /\ Text(j + 1) \in {"ok", "range"}
  \/ Text(j) \in Rests
  \/ Attribute(j) /\ PlainWord(Text(j + 1))
  \/ PlainWord(Text(j)) /\ Text(j - 1) = "#["
  \/ Text(j) = "]" /\ PlainWord(Text(j - 1)) /\ Text(j - 2) = "#["

NothingWrongBefore(i) == \A j \in ImportsEnd .. i - 1 : Clean(j)

AfterCollected(i) ==
  LET j == ItemStart(i) - 1
  IN  j > 1 /\ Text(j - 1) = "fn" /\ Text(j) = "ok" /\ OnlyOne(j - 1) /\ Named(j - 1) # {}

(* A file that compiles without a message has lost nothing: its functions  *)
(* are those it declares, in order and with their attributes, behind what  *)
(* its modules bring.  In a file with errors recovery costs at most the    *)
(* neighbour: a function that reads well is collected, unless what is      *)
(* before it is not closed; and it keeps its attributes when it comes      *)
(* right after a function that was collected, or when nothing before it is *)
(* wrong.                                                                  *)
LossIsLocal ==
  phase = "parsed" /\ ~garbled =>
    /\ ~diagnosed => functions = imported \o Written
    /\ \A i \in Functions :
         (/\ Text(i + 1) = "ok"
          /\ Text(ItemStart(i) - 1) \notin {"open", "#["})
         => \E k \in Named(i) :
              NothingWrongBefore(i) \/ AfterCollected(i) =>
                functions[k].attributes = AttributesBefore(i)
=============================================================================
