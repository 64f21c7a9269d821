----------------------------- MODULE BlockParser -----------------------------
(***************************************************************************)
(* compiler/dmc.cpp, Parser::function, block, block_inner, statement and   *)
(* switch_statement: the recursive descent that turns the statements of    *)
(* one function after the other into C text, drops the statements it takes *)
(* for unreachable, and keeps the stack scopes_ of variable types.         *)
(*                                                                         *)
(* One action is one statement, one opening or one closing of a statement  *)
(* with a body; the call stack of the recursive descent is the sequence    *)
(* open.  Of a statement the model keeps what running it may do: the set   *)
(* of its behaviours, once as the source means it (src) and once as the    *)
(* emitted C means it (out), and the two facts about its text that         *)
(* block_inner looks at.                                                   *)
(***************************************************************************)
EXTENDS Integers, Sequences, FiniteSets, FiniteSetsExt

CONSTANTS
  Names,          \* variables
  Underscored,    \* those that begin with "_"
  EnumValues,     \* those spelt like the C name of an enum's value
  Types,          \* the types a program gives them, "int" among them
  EnumType,       \* the type of that enum
  Leaves,         \* the statements without a body that programs use
  Openers,        \* the statements with a body that programs use
  Features,       \* what else programs may contain, a subset of AllFeatures
  MaxStatements,  \* bound: statements in one function
  MaxDepth        \* bound: blocks open at a time

AllLeaves   == {"plain", "return", "proc_exit", "break", "continue", "let"}
AllOpeners  == {"if", "while", "for", "do", "until", "switch"}
AllFeatures ==
  {"nested_exit",    \* proc_exit below the outermost block
   "default_early",  \* a default label that is not the last label
   "case_let",       \* a variable declared directly under a case label
   "for_shadow"}     \* a loop variable that hides one of another type

NoType == ""   \* what lookup_type answers for a name no scope binds

ASSUME FeaturesAssumption ==
  /\ Leaves \subseteq AllLeaves
  /\ Openers \subseteq AllOpeners
  /\ Features \subseteq AllFeatures
  /\ Underscored \cup EnumValues \subseteq Names
  /\ {"int", EnumType} \subseteq Types
  /\ NoType \notin Types
  /\ MaxStatements \in Nat
  /\ MaxDepth \in Nat \ {0}

VARIABLES
  open,     \* the open blocks, outermost first
  scopes,   \* scopes_: per open block, variable -> type or NoType
  count     \* statements of the function read so far

vars == <<open, scopes, count>>

-----------------------------------------------------------------------------
(* Behaviours: what is done, in order, and how control leaves.             *)

Exits == {"next", "return", "exit", "break", "continue"}
Does(trace, how) == [trace |-> trace, how |-> how]
Skip == {Does(<<>>, "next")}

Falls(bs) == {b \in bs : b.how = "next"}

(* bs, then cs where bs falls through *)
Then(bs, cs) ==
  (bs \ Falls(bs)) \cup
  {Does(b.trace \o c.trace, c.how) : b \in Falls(bs), c \in cs}

(* A statement catches the exits listed in caught and goes on after it. *)
Catching(bs, caught) ==
  {Does(b.trace, IF b.how \in caught THEN "next" ELSE b.how) : b \in bs}

(* One turn of a loop stands for any number of turns. *)
Loop(bs)     == Skip \cup Catching(bs, {"break", "continue"})
LoopOnce(bs) == Catching(bs, {"break", "continue"})

-----------------------------------------------------------------------------
(* Statements and blocks. *)

Stmt(src, out, ret, exit) ==
  [src |-> src, out |-> out,
   ret |-> ret,       \* the C text starts with "return"
   exit |-> exit]     \* the C text contains "proc_exit"

Nothing == [x \in Names |-> NoType]
NoStmt  == Stmt({}, {}, FALSE, FALSE)

(* A block: what has been read of it, the parser's flag, the C variables   *)
(* declared before it (parameters, loop variable) and in it, and what the  *)
(* statement it belongs to has collected before it: the other branches of  *)
(* an if, the other labels of a switch.                                    *)
Block(kind, header, before) ==
  [kind       |-> kind,
   body       |-> Stmt(Skip, Skip, FALSE, FALSE),
   terminated |-> FALSE,
   header     |-> header,
   decl       |-> Nothing,
   before     |-> before,
   label      |-> "none",     \* switch: the label being read
   default    |-> FALSE]      \* switch: have_default

(* block_inner: a statement behind one taken for a terminator becomes "0;". *)
Kept(b, s, terminates) ==
  LET text == IF b.terminated THEN Skip ELSE s.out
  IN  [b EXCEPT
         !.body = Stmt(Then(b.body.src, s.src), Then(b.body.out, text), FALSE,
                       b.body.exit \/ (s.exit /\ ~b.terminated)),
         !.terminated = b.terminated \/ terminates]

BugAnyReturnTerminates(b, s) ==
  Kept(b, s, s.exit \/ \E r \in s.out : r.how = "return")

InBlock(b, s) == Kept(b, s, s.ret \/ s.exit)

(* Under a label of a switch nothing is dropped; ahead of the first label  *)
(* the source means nothing and the code throws the statement away.        *)
InSwitch(b, s) ==
  [b EXCEPT !.body = Stmt(Then(b.body.src, s.src), Then(b.body.out, s.out),
                          FALSE, b.body.exit \/ s.exit)]

Appended(b, s) == IF b.kind = "switch" THEN InSwitch(b, s) ELSE InBlock(b, s)

(* Two alternatives, one of which runs. *)
Either(p, q) ==
  Stmt(p.src \cup q.src, p.out \cup q.out, FALSE, p.exit \/ q.exit)

-----------------------------------------------------------------------------
(* scopes_ *)

Depth == Len(open)
Top   == open[Depth]
Outer == SubSeq(open, 1, Depth - 1)

BugBindOutermost(sc, x, t) == [sc EXCEPT ![1][x] = t]

bind_type(sc, x, t) == [sc EXCEPT ![Len(sc)][x] = t]

lookup_type(x) ==
  LET binding == {k \in DOMAIN scopes : scopes[k][x] # NoType}
  IN  IF binding = {} THEN NoType ELSE scopes[Max(binding)][x]

(* infer_type of an expression that is the variable x.  It goes by the     *)
(* text: the C name of an enum's value has the enum's type, whatever it is *)
(* bound to, and a name is looked up only if it begins with a letter,      *)
(* although the lexer lets names begin with "_".                           *)
LookedUp == Names \ (Underscored \cup EnumValues)

infer_type(x) ==
  CASE x \in EnumValues -> EnumType
    [] x \in LookedUp /\ lookup_type(x) # NoType -> lookup_type(x)
    [] OTHER -> "int"

Push(sc) == Append(sc, Nothing)
BugNoPop(sc) == sc
Pop(sc)  == SubSeq(sc, 1, Len(sc) - 1)

(* The type the emitted C declares for x at this point, NoType for none. *)
CType(x) ==
  LET Own(b)   == IF b.decl[x] # NoType THEN b.decl[x] ELSE b.header[x]
      declares == {k \in DOMAIN open : Own(open[k]) # NoType}
  IN  IF declares = {} THEN NoType ELSE Own(open[Max(declares)])

-----------------------------------------------------------------------------
(* function: its parameters have a scope of their own, its body another.   *)

Init ==
  /\ open   = <<>>
  /\ scopes = <<>>
  /\ count  = 0

Function(params) ==
  /\ open = <<>>
  /\ open'   = <<Block("fn", params, NoStmt)>>
  /\ scopes' = <<params, Nothing>>
  /\ count'  = 0

EndFunction ==
  /\ Depth = 1
  /\ open'   = <<>>
  /\ scopes' = Pop(Pop(scopes))
  /\ UNCHANGED count

(* Room for one more statement; its number is the trace of its effect. *)
Reads == /\ open # <<>>
         /\ count < MaxStatements
         /\ count' = count + 1
Effect == <<count>>

-----------------------------------------------------------------------------
(* Statements without a body. *)

Leaf(s) ==
  /\ Reads
  /\ open' = Append(Outer, Appended(Top, s))

Simple(how, ret, exit) ==
  LET bs == {Does(Effect, how)} IN Stmt(bs, bs, ret, exit)

Plain ==
  /\ "plain" \in Leaves
  /\ Leaf(Simple("next", FALSE, FALSE))
  /\ UNCHANGED scopes

Return ==
  /\ "return" \in Leaves
  /\ Leaf(Simple("return", TRUE, FALSE))
  /\ UNCHANGED scopes

ProcExit ==
  /\ "proc_exit" \in Leaves
  /\ Depth > 1 => "nested_exit" \in Features
  /\ Leaf(Simple("exit", FALSE, TRUE))
  /\ UNCHANGED scopes

(* break and continue, where C allows them *)
Jump(how, inside) ==
  /\ how \in Leaves
  /\ \E k \in DOMAIN open : open[k].kind \in inside
  /\ Leaf(Simple(how, FALSE, FALSE))
  /\ UNCHANGED scopes

Loops    == {"while", "for", "do", "until"}
Break    == Jump("break", Loops \cup {"switch"})
Continue == Jump("continue", Loops)

(* let or var: the type is written or inferred from the value; C declares  *)
(* the variable with the type that is bound.  No name is declared twice in *)
(* one block, which C would refuse.                                        *)
Let(x, t) ==
  /\ "let" \in Leaves
  /\ Reads
  /\ Top.decl[x] = NoType
  /\ Top.kind = "fn" => Top.header[x] = NoType
  /\ Top.kind = "switch" => "case_let" \in Features /\ Top.label # "none"
  /\ LET s == Simple("next", FALSE, FALSE)
     IN  open' = Append(Outer, [Appended(Top, s) EXCEPT !.decl[x] = t])
  /\ scopes' = bind_type(scopes, x, t)

-----------------------------------------------------------------------------
(* Statements with a body. *)

Opens(kind) ==
  /\ kind \in Openers
  /\ Depth < MaxDepth
  /\ Reads

If ==
  /\ Opens("if")
  /\ open'   = Append(open, Block("then", Nothing, NoStmt))
  /\ scopes' = Push(scopes)

WhileDoUntil(kind) ==
  /\ Opens(kind)
  /\ open'   = Append(open, Block(kind, Nothing, NoStmt))
  /\ scopes' = Push(scopes)

(* At most one loop variable, declared in C and bound in no scope. *)
For(header) ==
  /\ Opens("for")
  /\ Cardinality({x \in Names : header[x] # NoType}) <= 1
  /\ "for_shadow" \notin Features =>
       \A x \in Names : header[x] # NoType => /\ header[x] = "int"
                                         /\ lookup_type(x) \in {NoType, "int"}
  /\ open'   = Append(open, Block("for", header, NoStmt))
  /\ scopes' = Push(scopes)

(* The labels of a switch share the scope around it. *)
Switch ==
  /\ Opens("switch")
  /\ open' = Append(open, Block("switch", Nothing, NoStmt))
  /\ UNCHANGED scopes

(* Closing brace: the finished statement goes to the block around it. *)
Closes(s, sc) ==
  /\ open' = Append(SubSeq(open, 1, Depth - 2), Appended(open[Depth - 1], s))
  /\ scopes' = sc
  /\ UNCHANGED count

CloseLoop ==
  /\ Depth > 1
  /\ Top.kind \in Loops
  /\ LET Turns(bs) == IF Top.kind \in {"while", "for"} THEN Loop(bs)
                                                       ELSE LoopOnce(bs)
     IN  Closes(Stmt(Turns(Top.body.src), Turns(Top.body.out), FALSE, Top.body.exit),
                Pop(scopes))

Branches == Either(Top.before, Top.body)

EndIf ==
  /\ Depth > 1
  /\ \/ /\ Top.kind = "then"
        /\ Closes(Either(Branches, Stmt(Skip, Skip, FALSE, FALSE)), Pop(scopes))
     \/ /\ Top.kind = "else"
        /\ Closes(Branches, Pop(scopes))

(* "else {" and "else if (": the next branch of the same statement *)
Else(kind) ==
  /\ Depth > 1
  /\ Top.kind = "then"
  /\ Reads
  /\ open'   = Append(Outer, Block(kind, Nothing, Branches))
  /\ scopes' = Push(Pop(scopes))

(* A label.  The code keeps the body read so far only if it belongs to a   *)
(* case; the source keeps the body of every label.                         *)
Labelled(label) ==
  LET of == [src |-> IF Top.label = "none" THEN {} ELSE Top.body.src,
             out |-> IF Top.label = "case" THEN Top.body.out ELSE {},
             exit |-> Top.label = "case" /\ Top.body.exit]
  IN  [Top EXCEPT !.before  = Either(Top.before, of),
                  !.body    = Stmt(Skip, Skip, FALSE, FALSE),
                  !.decl    = Nothing,
                  !.label   = label,
                  !.default = Top.default \/ label = "default"]

Label(label) ==
  /\ Depth > 1
  /\ Top.kind = "switch"
  /\ Reads
  /\ label = "default" => ~Top.default
  /\ Top.default => "default_early" \in Features
  /\ open' = Append(Outer, Labelled(label))
  /\ UNCHANGED scopes

(* At the closing brace the body read last is the default body if there    *)
(* was a default label at all, and the body of the last case besides.      *)
EndSwitch ==
  /\ Depth > 1
  /\ Top.kind = "switch"
  /\ LET body  == Top.body
         src   == Top.before.src
                    \cup (IF Top.label = "none" THEN {} ELSE body.src)
                    \cup (IF Top.default THEN {} ELSE Skip)
         out   == Top.before.out
                    \cup (IF Top.label = "case" \/ Top.default THEN body.out ELSE {})
                    \cup (IF Top.default THEN {} ELSE Skip)
     IN  Closes(Stmt(Catching(src, {"break"}), Catching(out, {"break"}), FALSE,
                     Top.before.exit \/ (Top.label # "none" /\ body.exit)),
                scopes)

Next ==
  \/ \E params \in [Names -> Types \cup {NoType}] : Function(params)
  \/ EndFunction
  \/ Plain \/ Return \/ ProcExit \/ Break \/ Continue
  \/ \E x \in Names, t \in Types : Let(x, t)
  \/ If
  \/ \E kind \in {"while", "do", "until"} : WhileDoUntil(kind)
  \/ \E header \in [Names -> Types \cup {NoType}] : For(header)
  \/ Switch
  \/ CloseLoop
  \/ EndIf
  \/ \E kind \in {"then", "else"} : Else(kind)
  \/ \E label \in {"case", "default"} : Label(label)
  \/ EndSwitch

Spec == Init /\ [][Next]_vars

-----------------------------------------------------------------------------
(* One scope per open block and one for the parameters; a switch has none. *)
TypeOK ==
  /\ count \in 0 .. MaxStatements
  /\ Depth \in 0 .. MaxDepth
  /\ \A k \in DOMAIN scopes : scopes[k] \in [Names -> Types \cup {NoType}]
  /\ Len(scopes) =
       IF open = <<>> THEN 0
       ELSE 1 + Cardinality({k \in DOMAIN open : open[k].kind # "switch"})

(* Dropping what follows a return or an exit changes nothing: whatever the *)
(* nesting, the C emitted for a block does what its source says.  For the  *)
(* labels of a switch read so far this covers the bodies already kept.     *)
EmittedMeansSource ==
  \A k \in DOMAIN open :
    /\ open[k].body.out = open[k].body.src
    /\ open[k].before.out = open[k].before.src

(* A type inferred from a variable that infer_type looks up is the type C  *)
(* gives that variable: the innermost scope that binds a name is the block *)
(* that declares it in C.  Of the others it says nothing: a string called  *)
(* _s is taken for an int, and let t = _s declares an int in C.            *)
InferredTypeIsDeclared ==
  \A x \in LookedUp : CType(x) # NoType => infer_type(x) = CType(x)
=============================================================================
