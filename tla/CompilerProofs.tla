--------------------------- MODULE CompilerProofs ---------------------------
(***************************************************************************)
(* Theorems about the compiler, for any inputs.  First BlockParser, for    *)
(* any names, types, statements and bounds on their number and nesting;    *)
(* then Expressions, for expressions of any length, Declarations, for      *)
(* files of any length, and TestProgram, for any files, modules and        *)
(* numbers.                                                                *)
(***************************************************************************)
EXTENDS BlockParser, TestProgram, FiniteSetTheorems, SequenceTheorems,
        WellFoundedInduction, TLAPS

-----------------------------------------------------------------------------
(* The greatest element of a set of numbers.  A set without a least one    *)
(* would be a descent in Nat without an end.                               *)

LessThan == {p \in Nat \X Nat : p[1] < p[2]}

LEMMA LeastExists ==
  ASSUME NEW T, T \subseteq Nat, T # {}
  PROVE  \E x \in T : \A y \in T : x <= y
<1>1. OpToRel(<, Nat) = LessThan
  BY DEF OpToRel, LessThan
<1>2. IsWellFoundedOn(LessThan, Nat)
  BY <1>1, NatLessThanWellFounded
<1>3. PICK x \in T : \A y \in T : ~ (<<y, x>> \in LessThan)
  BY <1>2, WFMin
<1>4. ASSUME NEW y \in T PROVE x <= y
  <2>1. /\ <<y, x>> \in Nat \X Nat /\ x \in Nat /\ y \in Nat
        /\ <<y, x>>[1] = y /\ <<y, x>>[2] = x
    OBVIOUS
  <2>2. ~(y < x)
    BY <1>3, <2>1 DEF LessThan
  <2> QED
    BY <2>1, <2>2
<1> QED
  BY <1>4

LEMMA MaxIsGreatest ==
  ASSUME NEW n \in Nat, NEW S, S \subseteq 1 .. n, S # {}
  PROVE  /\ Max(S) \in S
         /\ \A y \in S : y <= Max(S)
<1> DEFINE T == {n - s : s \in S}
<1>0. \A s \in S : n - s \in Nat /\ s \in Int
  OBVIOUS
<1>1. T \subseteq Nat /\ T # {}
  BY <1>0
<1>2. PICK x \in T : \A y \in T : x <= y
  BY <1>1, LeastExists
<1>3. PICK s \in S : x = n - s
  OBVIOUS
<1>4. \A y \in S : n - y \in T /\ y \in Int /\ s \in Int
  OBVIOUS
<1>5. \A y \in S : s >= y
  BY <1>2, <1>3, <1>4
<1>6. /\ Max(S) \in S
      /\ \A y \in S : Max(S) >= y
  BY <1>5 DEF Max
<1>7. \A y \in S : y \in Int
  OBVIOUS
<1> QED
  BY <1>6, <1>7

-----------------------------------------------------------------------------
(* What the actions make of a sequence. *)

LEMMA FirstOnes ==
  ASSUME NEW S, NEW s \in Seq(S), NEW n \in 0 .. Len(s)
  PROVE  /\ SubSeq(s, 1, n) \in Seq(S) /\ Len(SubSeq(s, 1, n)) = n
         /\ \A k \in 1 .. n : SubSeq(s, 1, n)[k] = s[k]
<1>1. \A k \in 1 .. n : s[k] \in S
  OBVIOUS
<1> QED
  BY <1>1, SubSeqProperties

LEMMA Replaced ==
  ASSUME NEW S, NEW s \in Seq(S), s # <<>>, NEW b \in S,
         NEW r, r = Append(SubSeq(s, 1, Len(s) - 1), b)
  PROVE  /\ r \in Seq(S) /\ Len(r) = Len(s) /\ r[Len(s)] = b
         /\ \A k \in 1 .. Len(s) - 1 : r[k] = s[k]
<1> DEFINE q == SubSeq(s, 1, Len(s) - 1)
<1>1. Len(s) - 1 \in 0 .. Len(s)
  OBVIOUS
<1>2. /\ q \in Seq(S) /\ Len(q) = Len(s) - 1
      /\ \A k \in 1 .. Len(s) - 1 : q[k] = s[k]
  BY <1>1, FirstOnes
<1> HIDE DEF q
<1>3. r = Append(q, b)
  BY DEF q
<1>4. /\ r \in Seq(S) /\ Len(r) = Len(q) + 1 /\ r[Len(q) + 1] = b
      /\ \A k \in 1 .. Len(q) : r[k] = q[k]
  BY <1>2, <1>3
<1> QED
  BY <1>2, <1>4

LEMMA Pushed ==
  ASSUME NEW S, NEW s \in Seq(S), NEW b \in S, NEW r, r = Append(s, b)
  PROVE  /\ r \in Seq(S) /\ Len(r) = Len(s) + 1 /\ r[Len(s) + 1] = b
         /\ \A k \in 1 .. Len(s) : r[k] = s[k]
OBVIOUS

LEMMA Merged ==
  ASSUME NEW S, NEW s \in Seq(S), Len(s) > 1, NEW b \in S,
         NEW r, r = Append(SubSeq(s, 1, Len(s) - 2), b)
  PROVE  /\ r \in Seq(S) /\ Len(r) = Len(s) - 1 /\ r[Len(s) - 1] = b
         /\ \A k \in 1 .. Len(s) - 2 : r[k] = s[k]
<1> DEFINE q == SubSeq(s, 1, Len(s) - 2)
<1>1. Len(s) - 2 \in 0 .. Len(s)
  OBVIOUS
<1>2. /\ q \in Seq(S) /\ Len(q) = Len(s) - 2
      /\ \A k \in 1 .. Len(s) - 2 : q[k] = s[k]
  BY <1>1, FirstOnes
<1> HIDE DEF q
<1>3. r = Append(q, b)
  BY DEF q
<1>4. /\ r \in Seq(S) /\ Len(r) = Len(q) + 1 /\ r[Len(q) + 1] = b
      /\ \A k \in 1 .. Len(q) : r[k] = q[k]
  BY <1>2, <1>3
<1> QED
  BY <1>2, <1>4

LEMMA Popped ==
  ASSUME NEW S, NEW s \in Seq(S), s # <<>>, NEW r, r = Pop(s)
  PROVE  /\ r \in Seq(S) /\ Len(r) = Len(s) - 1
         /\ \A k \in 1 .. Len(s) - 1 : r[k] = s[k]
<1>1. Len(s) - 1 \in 0 .. Len(s)
  OBVIOUS
<1> QED
  BY <1>1, FirstOnes DEF Pop

-----------------------------------------------------------------------------
(* The number of scopes that the first k blocks of s have, parameters      *)
(* aside.                                                                  *)

Floors(s, k) == Cardinality({j \in 1 .. k : s[j].kind # "switch"})

LEMMA FloorsAreFinite ==
  ASSUME NEW s, NEW k \in Nat
  PROVE  /\ IsFiniteSet({j \in 1 .. k : s[j].kind # "switch"})
         /\ Floors(s, k) \in Nat
<1> DEFINE F == {j \in 1 .. k : s[j].kind # "switch"}
<1>1. F \in SUBSET (1 .. k) /\ IsFiniteSet(1 .. k)
  BY FS_Interval
<1>2. IsFiniteSet(F)
  BY <1>1, FS_Subset
<1> QED
  BY <1>2, FS_CardinalityType DEF Floors

LEMMA FirstFloor ==
  ASSUME NEW s
  PROVE  Floors(s, 0) = 0
<1>1. {j \in 1 .. 0 : s[j].kind # "switch"} = {}
  OBVIOUS
<1> QED
  BY <1>1, FS_EmptySet DEF Floors

LEMMA NextFloor ==
  ASSUME NEW s, NEW k \in Nat
  PROVE  Floors(s, k + 1) = IF s[k + 1].kind = "switch" THEN Floors(s, k)
                                                       ELSE Floors(s, k) + 1
<1> DEFINE F(n) == {j \in 1 .. n : s[j].kind # "switch"}
<1>1. IsFiniteSet(F(k))
  BY FloorsAreFinite
<1>0. k + 1 \notin F(k)
  OBVIOUS
<1>2. CASE s[k + 1].kind = "switch"
  <2>1. F(k + 1) = F(k)
    BY <1>2
  <2> QED
    BY <1>2, <2>1 DEF Floors
<1>3. CASE s[k + 1].kind # "switch"
  <2>1. F(k + 1) = F(k) \cup {k + 1}
    BY <1>3
  <2> HIDE DEF F
  <2>2. Cardinality(F(k) \cup {k + 1}) = Cardinality(F(k)) + 1
    BY <1>0, <1>1, FS_AddElement
  <2> QED
    BY <1>3, <2>1, <2>2 DEF Floors, F
<1> QED
  BY <1>2, <1>3

LEMMA SameFloors ==
  ASSUME NEW s, NEW r, NEW k \in Nat,
         \A j \in 1 .. k : s[j].kind # "switch" <=> r[j].kind # "switch"
  PROVE  Floors(s, k) = Floors(r, k)
<1>1. {j \in 1 .. k : s[j].kind # "switch"} = {j \in 1 .. k : r[j].kind # "switch"}
  OBVIOUS
<1> QED
  BY <1>1 DEF Floors

LEMMA FloorsRise ==
  ASSUME NEW s, NEW j \in Nat, NEW k \in Nat, j <= k
  PROVE  /\ Floors(s, j) <= Floors(s, k)
         /\ j < k /\ s[k].kind # "switch" => Floors(s, j) < Floors(s, k)
<1> DEFINE F(n) == {i \in 1 .. n : s[i].kind # "switch"}
<1>1. IsFiniteSet(F(k)) /\ Floors(s, j) \in Nat /\ Floors(s, k) \in Nat
  BY FloorsAreFinite
<1>2. F(j) \in SUBSET F(k)
  OBVIOUS
<1>3. j < k /\ s[k].kind # "switch" => k \in F(k) /\ k \notin F(j)
  OBVIOUS
<1>4. Floors(s, j) = Cardinality(F(j)) /\ Floors(s, k) = Cardinality(F(k))
  BY DEF Floors
<1> HIDE DEF F
<1>5. /\ Cardinality(F(j)) <= Cardinality(F(k))
      /\ Cardinality(F(k)) = Cardinality(F(j)) => F(k) = F(j)
  BY <1>1, <1>2, FS_Subset
<1> QED
  BY <1>1, <1>3, <1>4, <1>5

-----------------------------------------------------------------------------
(* Types.  Each action is one of five changes of the call stack.           *)

Behaviours == [trace : Seq(Nat), how : Exits]
Stmts  == [src : SUBSET Behaviours, out : SUBSET Behaviours,
           ret : BOOLEAN, exit : BOOLEAN]
Scope  == [Names -> Types \cup {NoType}]
Kinds  == {"fn", "then", "else", "switch"} \cup Loops
Labels == {"none", "case", "default"}
Blocks == [kind : Kinds, body : Stmts, terminated : BOOLEAN,
           header : Scope, decl : Scope, before : Stmts,
           label : Labels, default : BOOLEAN]

ScopeCount(o) == IF o = <<>> THEN 0 ELSE 1 + Floors(o, Len(o))

(* TypeOK does not say what a block is, nor which one is the function. *)
TInv ==
  /\ open \in Seq(Blocks)
  /\ scopes \in Seq(Scope)
  /\ \A k \in DOMAIN open : open[k].kind = "fn" <=> k = 1
  /\ Len(open) <= MaxDepth
  /\ Len(scopes) = ScopeCount(open)
  /\ count \in 0 .. MaxStatements

LEMMA TInvIsTyped ==
  ASSUME TInv
  PROVE  TypeOK
<1>1. DOMAIN open = 1 .. Len(open) /\ Len(open) \in Nat
  BY DEF TInv
<1>0. {k \in DOMAIN open : open[k].kind # "switch"}
        = {j \in 1 .. Len(open) : open[j].kind # "switch"}
  BY <1>1
<1>2. Len(scopes) = IF open = <<>> THEN 0
                    ELSE 1 + Cardinality({k \in DOMAIN open : open[k].kind # "switch"})
  BY <1>0 DEF TInv, ScopeCount, Floors
<1>3. \A k \in DOMAIN scopes : scopes[k] \in Scope
  BY DEF TInv
<1>4. Depth \in 0 .. MaxDepth
  <2>1. MaxDepth \in Nat
    BY FeaturesAssumption
  <2>2. Len(open) <= MaxDepth
    BY DEF TInv
  <2> QED
    BY <1>1, <2>1, <2>2 DEF Depth
<1> QED
  BY <1>2, <1>3, <1>4 DEF TInv, TypeOK, Scope

(* Operators on behaviours. *)

LEMMA SkipType == Skip \subseteq Behaviours /\ Skip # {}
BY DEF Skip, Does, Behaviours, Exits

LEMMA ThenType ==
  ASSUME NEW bs, bs \subseteq Behaviours, NEW cs, cs \subseteq Behaviours
  PROVE  Then(bs, cs) \subseteq Behaviours
<1>1. \A b \in bs, c \in cs :
        /\ b.trace \o c.trace \in Seq(Nat) /\ c.how \in Exits
  BY DEF Behaviours
<1>2. \A b \in bs, c \in cs : Does(b.trace \o c.trace, c.how) \in Behaviours
  BY <1>1 DEF Does, Behaviours
<1> QED
  BY <1>2 DEF Then, Falls

LEMMA CatchingType ==
  ASSUME NEW bs, bs \subseteq Behaviours, NEW caught
  PROVE  Catching(bs, caught) \subseteq Behaviours
<1>1. \A b \in bs : /\ b.trace \in Seq(Nat)
                    /\ (IF b.how \in caught THEN "next" ELSE b.how) \in Exits
  BY DEF Behaviours, Exits
<1> QED
  BY <1>1 DEF Catching, Does, Behaviours

LEMMA StmtType ==
  ASSUME NEW src, src \subseteq Behaviours, NEW out, out \subseteq Behaviours,
         NEW ret \in BOOLEAN, NEW exit \in BOOLEAN
  PROVE  /\ Stmt(src, out, ret, exit) \in Stmts
         /\ Stmt(src, out, ret, exit).src = src
         /\ Stmt(src, out, ret, exit).out = out
         /\ Stmt(src, out, ret, exit).ret = ret
         /\ Stmt(src, out, ret, exit).exit = exit
BY DEF Stmt, Stmts

LEMMA StmtFields ==
  ASSUME NEW s \in Stmts
  PROVE  /\ s.src \subseteq Behaviours /\ s.out \subseteq Behaviours
         /\ s.ret \in BOOLEAN /\ s.exit \in BOOLEAN
BY DEF Stmts

LEMMA BlockFields ==
  ASSUME NEW b \in Blocks
  PROVE  /\ b.kind \in Kinds /\ b.body \in Stmts /\ b.terminated \in BOOLEAN
         /\ b.header \in Scope /\ b.decl \in Scope /\ b.before \in Stmts
         /\ b.label \in Labels /\ b.default \in BOOLEAN
BY DEF Blocks

LEMMA NoStmtType == NoStmt \in Stmts /\ NoStmt.src = {} /\ NoStmt.out = {} /\ ~NoStmt.exit
BY DEF NoStmt, Stmt, Stmts

LEMMA EitherType ==
  ASSUME NEW p \in Stmts, NEW q, q.src \subseteq Behaviours,
         q.out \subseteq Behaviours, q.exit \in BOOLEAN
  PROVE  /\ Either(p, q) \in Stmts
         /\ Either(p, q).src = p.src \cup q.src
         /\ Either(p, q).out = p.out \cup q.out
         /\ Either(p, q).exit = (p.exit \/ q.exit)
<1>1. /\ p.src \cup q.src \subseteq Behaviours
      /\ p.out \cup q.out \subseteq Behaviours
      /\ (p.exit \/ q.exit) \in BOOLEAN
  BY DEF Stmts
<1> DEFINE src == p.src \cup q.src
           out == p.out \cup q.out
           exit == p.exit \/ q.exit
<1>2. Either(p, q) = Stmt(src, out, FALSE, exit)
  BY DEF Either
<1>3. /\ src \subseteq Behaviours /\ out \subseteq Behaviours
      /\ exit \in BOOLEAN /\ FALSE \in BOOLEAN
  BY <1>1
<1> HIDE DEF src, out, exit
<1>4. /\ Stmt(src, out, FALSE, exit) \in Stmts
      /\ Stmt(src, out, FALSE, exit).src = src
      /\ Stmt(src, out, FALSE, exit).out = out
      /\ Stmt(src, out, FALSE, exit).exit = exit
  BY <1>3 DEF Stmt, Stmts
<1> QED
  BY <1>2, <1>4 DEF src, out, exit

LEMMA NothingType == Nothing \in Scope /\ \A x \in Names : Nothing[x] = NoType
BY DEF Nothing, Scope

Fresh(b, kind, header, before) ==
  /\ b \in Blocks
  /\ b.kind = kind /\ b.header = header /\ b.before = before
  /\ b.decl = Nothing /\ b.terminated = FALSE
  /\ b.label = "none" /\ b.default = FALSE
  /\ b.body.src = Skip /\ b.body.out = Skip /\ b.body.exit = FALSE

LEMMA BlockType ==
  ASSUME NEW kind \in Kinds, NEW header \in Scope, NEW before \in Stmts
  PROVE  Fresh(Block(kind, header, before), kind, header, before)
<1> DEFINE b == Block(kind, header, before)
           body == Stmt(Skip, Skip, FALSE, FALSE)
<1>1. /\ body \in Stmts /\ body.src = Skip /\ body.out = Skip /\ body.exit = FALSE
  BY SkipType DEF Stmt, Stmts
<1>2. b = [kind |-> kind, body |-> body,
           terminated |-> FALSE, header |-> header, decl |-> Nothing,
           before |-> before, label |-> "none", default |-> FALSE]
  BY DEF Block
<1>3. "none" \in Labels /\ Nothing \in Scope /\ FALSE \in BOOLEAN
  BY NothingType DEF Labels
<1> HIDE DEF body, b
<1>4. b \in Blocks
  BY <1>1, <1>2, <1>3 DEF Blocks
<1>5. /\ b.kind = kind /\ b.header = header /\ b.before = before
      /\ b.decl = Nothing /\ b.terminated = FALSE
      /\ b.label = "none" /\ b.default = FALSE
      /\ b.body = body
  BY <1>2
<1> QED
  BY <1>1, <1>4, <1>5 DEF Fresh, b

-----------------------------------------------------------------------------
(* A statement that goes to its block. *)

LEMMA AppendedType ==
  ASSUME NEW b \in Blocks, NEW s \in Stmts
  PROVE  /\ Appended(b, s) \in Blocks
         /\ Appended(b, s).kind = b.kind /\ Appended(b, s).header = b.header
         /\ Appended(b, s).decl = b.decl /\ Appended(b, s).before = b.before
         /\ Appended(b, s).label = b.label /\ Appended(b, s).default = b.default
         /\ Appended(b, s).body.src = Then(b.body.src, s.src)
         /\ Appended(b, s).body.out =
              Then(b.body.out, IF b.kind # "switch" /\ b.terminated THEN Skip ELSE s.out)
         /\ Appended(b, s).body.exit => b.body.exit \/ s.exit
         /\ Appended(b, s).terminated =
              (b.terminated \/ (b.kind # "switch" /\ (s.ret \/ s.exit)))
<1> DEFINE src  == Then(b.body.src, s.src)
           text == IF b.kind # "switch" /\ b.terminated THEN Skip ELSE s.out
           out  == Then(b.body.out, text)
           exit == b.body.exit \/ (s.exit /\ (b.kind = "switch" \/ ~b.terminated))
           term == b.terminated \/ (b.kind # "switch" /\ (s.ret \/ s.exit))
           body == Stmt(src, out, FALSE, exit)
<1>1. text \subseteq Behaviours /\ s.src \subseteq Behaviours
  BY SkipType, StmtFields
<1>2. b.body \in Stmts /\ b.body.src \subseteq Behaviours /\ b.body.out \subseteq Behaviours
  BY BlockFields, StmtFields
<1>3. src \subseteq Behaviours /\ out \subseteq Behaviours
  <2> HIDE DEF text
  <2> QED
    BY <1>1, <1>2, ThenType
<1>4. exit \in BOOLEAN /\ term \in BOOLEAN
  OBVIOUS
<1>5. Appended(b, s) = [b EXCEPT !.body = body, !.terminated = term]
  <2>1. CASE b.kind = "switch"
    <3>1. Appended(b, s) = [b EXCEPT !.body = body]
      BY <2>1 DEF Appended, InSwitch
    <3>2. term = b.terminated
      BY <2>1, BlockFields
    <3> HIDE DEF body, term
    <3> QED
      BY <3>1, <3>2 DEF Blocks
  <2>2. CASE b.kind # "switch"
    <3>1. (IF b.terminated THEN Skip ELSE s.out) = text
      BY <2>2
    <3>2. (b.body.exit \/ (s.exit /\ ~b.terminated)) = exit
      BY <2>2
    <3>3. (b.terminated \/ (s.ret \/ s.exit)) = term
      BY <2>2
    <3>4. Appended(b, s) = Kept(b, s, s.ret \/ s.exit)
      BY <2>2 DEF Appended, InBlock
    <3> QED
      BY <3>1, <3>2, <3>3, <3>4 DEF Kept
  <2> QED
    BY <2>1, <2>2
<1> HIDE DEF src, out, exit, term
<1>6. body \in Stmts /\ body.src = src /\ body.out = out /\ body.exit = exit
  BY <1>3, <1>4 DEF Stmt, Stmts
<1> HIDE DEF body
<1>7. /\ Appended(b, s) \in Blocks
      /\ Appended(b, s).body = body /\ Appended(b, s).terminated = term
      /\ Appended(b, s).kind = b.kind /\ Appended(b, s).header = b.header
      /\ Appended(b, s).decl = b.decl /\ Appended(b, s).before = b.before
      /\ Appended(b, s).label = b.label /\ Appended(b, s).default = b.default
  BY <1>4, <1>5, <1>6 DEF Blocks
<1> QED
  BY <1>6, <1>7 DEF src, out, exit, term

LEMMA SimpleType ==
  ASSUME TInv, NEW how \in Exits, NEW ret \in BOOLEAN, NEW exit \in BOOLEAN
  PROVE  /\ Simple(how, ret, exit) \in Stmts
         /\ Simple(how, ret, exit).out = Simple(how, ret, exit).src
         /\ Simple(how, ret, exit).ret = ret
         /\ Simple(how, ret, exit).exit = exit
         /\ how # "next" => Falls(Simple(how, ret, exit).src) = {}
<1> DEFINE bs == {Does(Effect, how)}
<1>1. Effect \in Seq(Nat)
  <2>1. count \in Nat
    BY DEF TInv
  <2> QED
    BY <2>1 DEF Effect
<1>2. bs \subseteq Behaviours
  BY <1>1 DEF Does, Behaviours
<1>3. how # "next" => Falls(bs) = {}
  BY DEF Falls, Does
<1>4. Simple(how, ret, exit) = Stmt(bs, bs, ret, exit)
  BY DEF Simple
<1> HIDE DEF bs
<1> QED
  BY <1>2, <1>3, <1>4 DEF Stmt, Stmts

-----------------------------------------------------------------------------
(* What is dropped is dead.  EmittedMeansSource does not say why: the      *)
(* statements of a block behind its terminator are not reached, a call of  *)
(* proc_exit stands in the outermost block, and the default label of a     *)
(* switch is its last one.                                                 *)

Good(b, k) ==
  /\ b.body.out = b.body.src
  /\ b.before.out = b.before.src
  /\ b.terminated => Falls(b.body.src) = {}
  /\ k > 1 => ~b.body.exit /\ ~b.before.exit
  /\ b.kind = "switch" =>
       /\ ~b.terminated
       /\ b.default <=> b.label = "default"

NoLateExit == "nested_exit" \notin Features /\ "default_early" \notin Features

EInv == NoLateExit /\ \A k \in DOMAIN open : Good(open[k], k)

LEMMA ThenDead ==
  ASSUME NEW bs, NEW cs
  PROVE  /\ Falls(bs) = {} => Then(bs, cs) = bs
         /\ Falls(cs) = {} => Falls(Then(bs, cs)) = {}
<1>1. ASSUME Falls(bs) = {} PROVE Then(bs, cs) = bs
  BY <1>1 DEF Then
<1>2. ASSUME Falls(cs) = {}, NEW r \in Then(bs, cs) PROVE r.how # "next"
  <2>1. CASE r \in bs \ Falls(bs)
    BY <2>1 DEF Falls
  <2>2. CASE \E b \in Falls(bs), c \in cs : r = Does(b.trace \o c.trace, c.how)
    <3>1. PICK b \in Falls(bs), c \in cs : r = Does(b.trace \o c.trace, c.how)
      BY <2>2
    <3>2. r.how = c.how /\ c.how # "next"
      BY <1>2, <3>1 DEF Does, Falls
    <3> QED
      BY <3>2
  <2> QED
    BY <1>2, <2>1, <2>2 DEF Then
<1> QED
  BY <1>1, <1>2 DEF Falls

LEMMA GoodAppended ==
  ASSUME NEW b \in Blocks, NEW s \in Stmts, NEW k \in Nat, Good(b, k),
         s.out = s.src, s.ret \/ s.exit => Falls(s.src) = {}, k > 1 => ~s.exit
  PROVE  Good(Appended(b, s), k)
<1> DEFINE a == Appended(b, s)
<1>1. /\ a.kind = b.kind /\ a.before = b.before
      /\ a.label = b.label /\ a.default = b.default
      /\ a.body.src = Then(b.body.src, s.src)
      /\ a.body.out = Then(b.body.out, IF b.kind # "switch" /\ b.terminated
                                         THEN Skip ELSE s.out)
      /\ a.body.exit => b.body.exit \/ s.exit
      /\ a.terminated = (b.terminated \/ (b.kind # "switch" /\ (s.ret \/ s.exit)))
  BY AppendedType
<1> HIDE DEF a
<1>2. a.body.out = a.body.src
  <2>1. CASE b.kind # "switch" /\ b.terminated
    <3>1. Falls(b.body.src) = {} /\ b.body.out = b.body.src
      BY <2>1 DEF Good
    <3> QED
      BY <1>1, <3>1, ThenDead
  <2>2. CASE ~(b.kind # "switch" /\ b.terminated)
    BY <1>1, <2>2 DEF Good
  <2> QED
    BY <2>1, <2>2
<1>3. a.terminated => Falls(a.body.src) = {}
  <2>1. CASE b.terminated
    <3>1. Falls(b.body.src) = {}
      BY <2>1 DEF Good
    <3> QED
      BY <1>1, <3>1, ThenDead
  <2>2. CASE ~b.terminated /\ a.terminated
    <3>1. s.ret \/ s.exit
      BY <1>1, <2>2
    <3>2. Falls(s.src) = {}
      BY <3>1
    <3> QED
      BY <1>1, <3>2, ThenDead
  <2> QED
    BY <2>1, <2>2
<1>4. k > 1 => ~a.body.exit /\ ~a.before.exit
  BY <1>1 DEF Good
<1>5. a.kind = "switch" =>
       /\ ~a.terminated
       /\ a.default <=> a.label = "default"
  BY <1>1 DEF Good
<1> QED
  BY <1>1, <1>2, <1>3, <1>4, <1>5 DEF Good, a

-----------------------------------------------------------------------------
(* The five changes of the call stack besides the start and the end of a   *)
(* function, and what each action makes of them: Change(b) also says that  *)
(* the block b it leaves in place keeps EInv.                              *)

HeaderFits(header) ==
  "for_shadow" \notin Features =>
    \A x \in Names : header[x] # NoType =>
                      header[x] = "int" /\ lookup_type(x) \in {NoType, "int"}

Swaps(b) ==
  /\ open # <<>> /\ b \in Blocks
  /\ open' = Append(Outer, b)
  /\ b.kind = Top.kind /\ b.header = Top.header
  /\ b.decl = Top.decl \/ (b.kind = "switch" /\ b.decl = Nothing)
  /\ scopes' = scopes

Declares(b, x, t) ==
  /\ open # <<>> /\ b \in Blocks
  /\ open' = Append(Outer, b)
  /\ b.kind = Top.kind /\ b.header = Top.header
  /\ b.decl = [Top.decl EXCEPT ![x] = t]
  /\ Top.kind = "fn" => Top.header[x] = NoType
  /\ Top.kind = "switch" => "case_let" \in Features
  /\ scopes' = bind_type(scopes, x, t)

Renews(b) ==
  /\ Depth > 1 /\ b \in Blocks
  /\ open' = Append(Outer, b)
  /\ Top.kind = "then" /\ b.kind \in {"then", "else"}
  /\ b.header = Nothing /\ b.decl = Nothing
  /\ scopes' = Push(Pop(scopes))

Enters(b) ==
  /\ open # <<>> /\ Depth < MaxDepth /\ b \in Blocks
  /\ open' = Append(open, b)
  /\ b.kind # "fn" /\ b.decl = Nothing
  /\ IF b.kind = "for" THEN HeaderFits(b.header) ELSE b.header = Nothing
  /\ scopes' = IF b.kind = "switch" THEN scopes ELSE Push(scopes)

Joins(b) ==
  /\ Depth > 1 /\ b \in Blocks
  /\ open' = Append(SubSeq(open, 1, Depth - 2), b)
  /\ b.kind = open[Depth - 1].kind /\ b.header = open[Depth - 1].header
  /\ b.decl = open[Depth - 1].decl
  /\ scopes' = IF Top.kind = "switch" THEN scopes ELSE Pop(scopes)

Starts ==
  /\ open = <<>>
  /\ \E params \in Scope : /\ open' = <<Block("fn", params, NoStmt)>>
                           /\ scopes' = <<params, Nothing>>

Ends ==
  /\ Depth = 1 /\ open' = <<>>
  /\ scopes' = Pop(Pop(scopes))

Change ==
  \E b \in Blocks :
    \/ /\ \/ Swaps(b) \/ Renews(b)
          \/ \E x \in Names, t \in Types : Declares(b, x, t)
       /\ EInv => Good(b, Depth)
    \/ Enters(b) /\ (EInv => Good(b, Depth + 1))
    \/ Joins(b)  /\ (EInv => Good(b, Depth - 1))

LEMMA TopIsBlock ==
  ASSUME TInv, open # <<>>
  PROVE  /\ Top \in Blocks /\ Top = open[Len(open)]
         /\ Depth = Len(open) /\ Depth \in Nat /\ Depth > 0
         /\ DOMAIN open = 1 .. Depth
         /\ \A k \in 1 .. Depth : open[k] \in Blocks
         /\ EInv => \A k \in 1 .. Depth : Good(open[k], k)
<1>1. Len(open) \in Nat /\ Len(open) > 0 /\ open[Len(open)] \in Blocks
      /\ DOMAIN open = 1 .. Len(open)
      /\ \A k \in 1 .. Len(open) : open[k] \in Blocks
  BY DEF TInv
<1> QED
  BY <1>1 DEF Top, Depth, EInv

LEMMA LeafChange ==
  ASSUME TInv, NEW s \in Stmts, Leaf(s), UNCHANGED scopes,
         s.out = s.src, s.ret \/ s.exit => Falls(s.src) = {},
         EInv /\ Depth > 1 => ~s.exit
  PROVE  Change
<1>1. open # <<>> /\ open' = Append(Outer, Appended(Top, s))
  BY DEF Leaf, Reads
<1>2. Top \in Blocks /\ Depth \in Nat /\ Depth > 0 /\ (EInv => Good(Top, Depth))
  <2>1. Depth \in 1 .. Depth /\ Top = open[Depth]
    BY <1>1, TopIsBlock DEF Top
  <2> QED
    BY <1>1, <2>1, TopIsBlock
<1>3. Swaps(Appended(Top, s)) /\ Appended(Top, s) \in Blocks
  BY <1>1, <1>2, AppendedType DEF Swaps
<1>4. EInv => Good(Appended(Top, s), Depth)
  BY <1>2, GoodAppended
<1> QED
  BY <1>3, <1>4 DEF Change

LEMMA LeavesChange ==
  ASSUME TInv, Plain \/ Return \/ ProcExit \/ Break \/ Continue
  PROVE  Change
<1>0. TRUE \in BOOLEAN /\ FALSE \in BOOLEAN
      /\ {"next", "return", "exit", "break", "continue"} = Exits
  BY DEF Exits
<1>1. CASE Plain
  <2>1. Leaf(Simple("next", FALSE, FALSE)) /\ UNCHANGED scopes
    BY <1>1 DEF Plain
  <2>2. "next" \in Exits
    BY <1>0
  <2> QED
    BY <1>0, <2>1, <2>2, SimpleType, LeafChange
<1>2. CASE Return
  <2>1. Leaf(Simple("return", TRUE, FALSE)) /\ UNCHANGED scopes
    BY <1>2 DEF Return
  <2>2. "return" \in Exits
    BY <1>0
  <2> QED
    BY <1>0, <2>1, <2>2, SimpleType, LeafChange
<1>3. CASE ProcExit
  <2>1. Leaf(Simple("exit", FALSE, TRUE)) /\ UNCHANGED scopes
    BY <1>3 DEF ProcExit
  <2>2. "exit" \in Exits
    BY <1>0
  <2>3. ~(EInv /\ Depth > 1)
    BY <1>3 DEF ProcExit, EInv, NoLateExit
  <2> QED
    BY <1>0, <2>1, <2>2, <2>3, SimpleType, LeafChange
<1>4. CASE Break
  <2>1. Leaf(Simple("break", FALSE, FALSE)) /\ UNCHANGED scopes
    BY <1>4 DEF Break, Jump
  <2>2. "break" \in Exits
    BY <1>0
  <2> QED
    BY <1>0, <2>1, <2>2, SimpleType, LeafChange
<1>5. CASE Continue
  <2>1. Leaf(Simple("continue", FALSE, FALSE)) /\ UNCHANGED scopes
    BY <1>5 DEF Continue, Jump
  <2>2. "continue" \in Exits
    BY <1>0
  <2> QED
    BY <1>0, <2>1, <2>2, SimpleType, LeafChange
<1> QED
  BY <1>1, <1>2, <1>3, <1>4, <1>5

LEMMA LetChange ==
  ASSUME TInv, NEW x \in Names, NEW t \in Types, Let(x, t)
  PROVE  Change
<1> DEFINE s == Simple("next", FALSE, FALSE)
           a == Appended(Top, s)
           b == [a EXCEPT !.decl[x] = t]
<1>0. TRUE \in BOOLEAN /\ FALSE \in BOOLEAN /\ "next" \in Exits
  BY DEF Exits
<1>1. /\ s \in Stmts /\ s.out = s.src /\ s.ret = FALSE /\ s.exit = FALSE
  BY <1>0, SimpleType
<1>2. open # <<>> /\ open' = Append(Outer, b)
  BY DEF Let, Reads
<1>3. Top \in Blocks /\ Depth \in Nat /\ Depth > 0 /\ (EInv => Good(Top, Depth))
  <2>1. Depth \in 1 .. Depth /\ Top = open[Depth]
    BY <1>2, TopIsBlock DEF Top
  <2> QED
    BY <1>2, <2>1, TopIsBlock
<1> HIDE DEF s
<1>4. /\ a \in Blocks /\ a.kind = Top.kind /\ a.header = Top.header
      /\ a.decl = Top.decl
  BY <1>1, <1>3, AppendedType
<1>5. EInv => Good(a, Depth)
  BY <1>1, <1>3, GoodAppended
<1> HIDE DEF a
<1>6. /\ b \in Blocks /\ b.decl = [a.decl EXCEPT ![x] = t]
      /\ b.kind = a.kind /\ b.header = a.header /\ b.body = a.body
      /\ b.before = a.before /\ b.terminated = a.terminated
      /\ b.label = a.label /\ b.default = a.default
  <2>1. [a.decl EXCEPT ![x] = t] \in Scope
    BY <1>4, BlockFields DEF Scope
  <2>2. b = [a EXCEPT !.decl = [a.decl EXCEPT ![x] = t]]
    BY <1>4 DEF Blocks
  <2> HIDE DEF b
  <2> QED
    BY <1>4, <2>1, <2>2 DEF Blocks
<1>7. EInv => Good(b, Depth)
  BY <1>5, <1>6 DEF Good
<1>8. Declares(b, x, t)
  BY <1>2, <1>4, <1>6 DEF Declares, Let
<1> QED
  BY <1>6, <1>7, <1>8 DEF Change

LEMMA FreshChange ==
  ASSUME TInv, open # <<>>, Depth < MaxDepth, NEW kind \in Kinds, kind # "fn",
         NEW header \in Scope,
         IF kind = "for" THEN HeaderFits(header) ELSE header = Nothing,
         open' = Append(open, Block(kind, header, NoStmt)),
         scopes' = IF kind = "switch" THEN scopes ELSE Push(scopes)
  PROVE  Change
<1> DEFINE b == Block(kind, header, NoStmt)
<1>1. /\ b \in Blocks /\ b.kind = kind /\ b.header = header /\ b.before = NoStmt
      /\ b.decl = Nothing /\ b.terminated = FALSE
      /\ b.label = "none" /\ b.default = FALSE
      /\ b.body.src = Skip /\ b.body.out = Skip /\ b.body.exit = FALSE
  <2>1. NoStmt \in Stmts
    BY NoStmtType
  <2>2. Fresh(b, kind, header, NoStmt)
    BY <2>1, BlockType
  <2> HIDE DEF b
  <2> QED
    BY <2>2 DEF Fresh
<1> HIDE DEF b
<1>2. Enters(b)
  BY <1>1 DEF Enters, b
<1>3. Good(b, Depth + 1)
  BY <1>1, NoStmtType DEF Good
<1> QED
  BY <1>1, <1>2, <1>3 DEF Change

LEMMA OpensChange ==
  ASSUME TInv,
         \/ If \/ Switch
         \/ \E kind \in {"while", "do", "until"} : WhileDoUntil(kind)
         \/ \E header \in Scope : For(header)
  PROVE  Change
<1>0. {"then", "switch", "while", "do", "until", "for"} \subseteq Kinds /\ Nothing \in Scope
  BY NothingType DEF Kinds, Loops
<1>1. CASE If
  <2>1. /\ open # <<>> /\ Depth < MaxDepth
        /\ open' = Append(open, Block("then", Nothing, NoStmt))
        /\ scopes' = Push(scopes)
    BY <1>1 DEF If, Opens, Reads
  <2> QED
    BY <1>0, <2>1, FreshChange
<1>2. CASE Switch
  <2>1. /\ open # <<>> /\ Depth < MaxDepth
        /\ open' = Append(open, Block("switch", Nothing, NoStmt))
        /\ scopes' = scopes
    BY <1>2 DEF Switch, Opens, Reads
  <2> QED
    BY <1>0, <2>1, FreshChange
<1>3. CASE \E kind \in {"while", "do", "until"} : WhileDoUntil(kind)
  <2>1. PICK kind \in {"while", "do", "until"} : WhileDoUntil(kind)
    BY <1>3
  <2>2. /\ open # <<>> /\ Depth < MaxDepth
        /\ open' = Append(open, Block(kind, Nothing, NoStmt))
        /\ scopes' = Push(scopes)
    BY <2>1 DEF WhileDoUntil, Opens, Reads
  <2>3. kind \in Kinds /\ kind # "fn" /\ kind # "for" /\ kind # "switch"
    BY <1>0
  <2> QED
    BY <1>0, <2>2, <2>3, FreshChange
<1>4. CASE \E header \in Scope : For(header)
  <2>1. PICK header \in Scope : For(header)
    BY <1>4
  <2>2. /\ open # <<>> /\ Depth < MaxDepth
        /\ open' = Append(open, Block("for", header, NoStmt))
        /\ scopes' = Push(scopes)
    BY <2>1 DEF For, Opens, Reads
  <2>3. HeaderFits(header)
    BY <2>1 DEF For, HeaderFits
  <2> QED
    BY <1>0, <2>2, <2>3, FreshChange
<1> QED
  BY <1>1, <1>2, <1>3, <1>4

LEMMA CloseChange ==
  ASSUME TInv, Depth > 1, NEW s \in Stmts, ~s.ret,
         EInv => s.out = s.src /\ ~s.exit,
         Closes(s, IF Top.kind = "switch" THEN scopes ELSE Pop(scopes))
  PROVE  Change
<1> DEFINE o == open[Depth - 1]
           b == Appended(o, s)
<1>1. open # <<>>
  BY DEF TInv, Depth
<1>2. /\ o \in Blocks /\ Depth - 1 \in Nat
      /\ EInv => Good(o, Depth - 1)
  <2>1. Depth - 1 \in 1 .. Depth /\ Depth - 1 \in Nat
    BY <1>1, TopIsBlock
  <2> QED
    BY <1>1, <2>1, TopIsBlock
<1>3. open' = Append(SubSeq(open, 1, Depth - 2), b)
  BY DEF Closes
<1> HIDE DEF o
<1>4. /\ b \in Blocks /\ b.kind = o.kind /\ b.header = o.header
      /\ b.decl = o.decl
  BY <1>2, AppendedType
<1>5. EInv => Good(b, Depth - 1)
  BY <1>2, GoodAppended
<1>6. Joins(b)
  BY <1>3, <1>4 DEF Joins, Closes, o
<1> QED
  BY <1>4, <1>5, <1>6 DEF Change

LEMMA TopIsGood ==
  ASSUME TInv, Depth > 1
  PROVE  /\ open # <<>> /\ Top \in Blocks /\ Top.kind \in Kinds
         /\ Top.body \in Stmts /\ Top.before \in Stmts
         /\ Top.body.src \subseteq Behaviours /\ Top.body.out \subseteq Behaviours
         /\ Top.before.src \subseteq Behaviours /\ Top.before.out \subseteq Behaviours
         /\ EInv => /\ Good(Top, Depth)
                    /\ Top.body.out = Top.body.src /\ Top.before.out = Top.before.src
                    /\ ~Top.body.exit /\ ~Top.before.exit
<1>1. open # <<>>
  BY DEF TInv, Depth
<1>2. Top \in Blocks
  BY <1>1, TopIsBlock
<1>3. EInv => Good(Top, Depth)
  <2>1. Depth \in 1 .. Depth /\ Top = open[Depth]
    BY <1>1, TopIsBlock DEF Top
  <2> QED
    BY <1>1, <2>1, TopIsBlock
<1>4. EInv => /\ Top.body.out = Top.body.src /\ Top.before.out = Top.before.src
              /\ ~Top.body.exit /\ ~Top.before.exit
  BY <1>3 DEF Good
<1>5. Top.kind \in Kinds /\ Top.body \in Stmts /\ Top.before \in Stmts
  BY <1>2, BlockFields
<1> QED
  BY <1>1, <1>2, <1>3, <1>4, <1>5, StmtFields

LEMMA CloseLoopChange ==
  ASSUME TInv, CloseLoop
  PROVE  Change
<1> DEFINE Turns(bs) == IF Top.kind \in {"while", "for"} THEN Loop(bs) ELSE LoopOnce(bs)
           src == Turns(Top.body.src)
           out == Turns(Top.body.out)
           exit == Top.body.exit
           s == Stmt(src, out, FALSE, exit)
<1>1. Depth > 1 /\ Top.kind # "switch"
  BY DEF CloseLoop, Loops
<1>2. Closes(s, Pop(scopes))
  BY DEF CloseLoop
<1>3. src \subseteq Behaviours /\ out \subseteq Behaviours
  BY <1>1, TopIsGood, CatchingType, SkipType DEF Loop, LoopOnce
<1>4. exit \in BOOLEAN
  BY <1>1, TopIsGood, StmtFields
<1>5. EInv => src = out /\ ~exit
  BY <1>1, TopIsGood
<1> HIDE DEF src, out, exit
<1>6. s \in Stmts /\ s.src = src /\ s.out = out /\ s.ret = FALSE /\ s.exit = exit
  BY <1>3, <1>4 DEF Stmt, Stmts
<1> HIDE DEF s
<1> QED
  BY <1>1, <1>2, <1>5, <1>6, CloseChange

LEMMA BranchesType ==
  ASSUME TInv, Depth > 1
  PROVE  /\ Branches \in Stmts
         /\ EInv => Branches.out = Branches.src /\ ~Branches.exit
<1>1. Top.body.exit \in BOOLEAN
  BY TopIsGood, StmtFields
<1>2. /\ Branches \in Stmts
      /\ Branches.src = Top.before.src \cup Top.body.src
      /\ Branches.out = Top.before.out \cup Top.body.out
      /\ Branches.exit = (Top.before.exit \/ Top.body.exit)
  BY <1>1, TopIsGood, EitherType DEF Branches
<1> QED
  BY <1>2, TopIsGood

LEMMA EndIfChange ==
  ASSUME TInv, EndIf
  PROVE  Change
<1>1. Depth > 1
  BY DEF EndIf
<1>2. CASE Top.kind = "then"
            /\ Closes(Either(Branches, Stmt(Skip, Skip, FALSE, FALSE)), Pop(scopes))
  <2> DEFINE q == Stmt(Skip, Skip, FALSE, FALSE)
             s == Either(Branches, q)
  <2>1. q.src = Skip /\ q.out = Skip /\ q.exit = FALSE
    BY DEF Stmt
  <2> HIDE DEF q
  <2>2. /\ s \in Stmts /\ s.src = Branches.src \cup q.src
        /\ s.out = Branches.out \cup q.out /\ s.exit = (Branches.exit \/ q.exit)
    BY <1>1, <2>1, BranchesType, SkipType, EitherType
  <2>3. s.ret = FALSE
    BY DEF Either, Stmt
  <2>4. Closes(s, Pop(scopes)) /\ Top.kind # "switch"
    BY <1>2 DEF q
  <2> HIDE DEF s
  <2>5. EInv => s.out = s.src /\ ~s.exit
    BY <1>1, <2>1, <2>2, BranchesType
  <2> QED
    BY <1>1, <2>2, <2>3, <2>4, <2>5, CloseChange
<1>3. CASE Top.kind = "else" /\ Closes(Branches, Pop(scopes))
  <2>1. Branches.ret = FALSE
    BY DEF Branches, Either, Stmt
  <2> QED
    BY <1>1, <1>3, <2>1, BranchesType, CloseChange
<1> QED
  BY <1>2, <1>3 DEF EndIf

LEMMA ElseChange ==
  ASSUME TInv, NEW kind \in {"then", "else"}, Else(kind)
  PROVE  Change
<1> DEFINE b == Block(kind, Nothing, Branches)
<1>1. Depth > 1 /\ Top.kind = "then" /\ open' = Append(Outer, b)
      /\ scopes' = Push(Pop(scopes))
  BY DEF Else
<1>2. kind \in Kinds /\ Nothing \in Scope
  BY NothingType DEF Kinds
<1>3. /\ b \in Blocks /\ b.kind = kind /\ b.header = Nothing /\ b.before = Branches
      /\ b.decl = Nothing /\ b.terminated = FALSE
      /\ b.label = "none" /\ b.default = FALSE
      /\ b.body.src = Skip /\ b.body.out = Skip /\ b.body.exit = FALSE
  <2>1. Branches \in Stmts
    BY <1>1, BranchesType
  <2>2. Fresh(b, kind, Nothing, Branches)
    BY <1>2, <2>1, BlockType
  <2> HIDE DEF b
  <2> QED
    BY <2>2 DEF Fresh
<1> HIDE DEF b
<1>4. Renews(b)
  BY <1>1, <1>3 DEF Renews
<1>5. EInv => Good(b, Depth)
  BY <1>1, <1>3, BranchesType DEF Good
<1> QED
  BY <1>3, <1>4, <1>5 DEF Change

LEMMA LabelChange ==
  ASSUME TInv, NEW label \in {"case", "default"}, Label(label)
  PROVE  Change
<1> DEFINE of == [src |-> IF Top.label = "none" THEN {} ELSE Top.body.src,
                  out |-> IF Top.label = "case" THEN Top.body.out ELSE {},
                  exit |-> Top.label = "case" /\ Top.body.exit]
           before == Either(Top.before, of)
           body == Stmt(Skip, Skip, FALSE, FALSE)
           default == Top.default \/ label = "default"
           b == Labelled(label)
<1>1. Depth > 1 /\ Top.kind = "switch" /\ open' = Append(Outer, b) /\ scopes' = scopes
      /\ (Top.default => "default_early" \in Features)
  BY DEF Label
<1>2. Top \in Blocks /\ Top.body.exit \in BOOLEAN
  BY <1>1, TopIsGood, StmtFields
<1>3. of.src \subseteq Behaviours /\ of.out \subseteq Behaviours /\ of.exit \in BOOLEAN
  BY <1>1, <1>2, TopIsGood
<1>4. b = [Top EXCEPT !.before = before, !.body = body, !.decl = Nothing,
                      !.label = label, !.default = default]
  BY DEF Labelled
<1>5. /\ before \in Stmts
      /\ before.src = Top.before.src \cup of.src
      /\ before.out = Top.before.out \cup of.out
      /\ before.exit = (Top.before.exit \/ of.exit)
  <2> HIDE DEF of
  <2> QED
    BY <1>1, <1>3, TopIsGood, EitherType
<1>6. /\ body \in Stmts /\ body.src = Skip /\ body.out = Skip /\ body.exit = FALSE
  BY SkipType DEF Stmt, Stmts
<1>7. default \in BOOLEAN /\ label \in Labels /\ Nothing \in Scope
  BY NothingType DEF Labels
<1>8. EInv => Top.label # "default" /\ ~Top.default
              /\ ~Top.terminated /\ Good(Top, Depth)
  <2>1. EInv => ~Top.default /\ Good(Top, Depth)
    BY <1>1, TopIsGood DEF EInv, NoLateExit
  <2>2. Good(Top, Depth) => ~Top.terminated
    BY <1>1 DEF Good
  <2>3. Top.label = "default" /\ Good(Top, Depth) => Top.default
    BY <1>1 DEF Good
  <2> QED
    BY <2>1, <2>2, <2>3
<1>9. EInv => before.out = before.src /\ ~before.exit
  <2>1. EInv => of.out = of.src /\ ~of.exit
    BY <1>1, <1>2, <1>8, TopIsGood, BlockFields DEF Labels
  <2> HIDE DEF of, before
  <2> QED
    BY <1>1, <1>5, <2>1, TopIsGood
<1> HIDE DEF before, body, default, b
<1>10. /\ b \in Blocks /\ b.kind = Top.kind /\ b.header = Top.header
       /\ b.decl = Nothing /\ b.before = before /\ b.body = body
       /\ b.terminated = Top.terminated /\ b.label = label /\ b.default = default
  BY <1>2, <1>4, <1>5, <1>6, <1>7 DEF Blocks
<1>11. Swaps(b)
  BY <1>1, <1>10, TopIsGood DEF Swaps
<1>12. EInv => Good(b, Depth)
  <2>1. EInv => (default <=> label = "default")
    BY <1>8 DEF default
  <2>2. /\ b.body.out = b.body.src /\ ~b.body.exit
        /\ EInv => b.before.out = b.before.src /\ ~b.before.exit
        /\ EInv => ~b.terminated /\ (b.default <=> b.label = "default")
    BY <1>6, <1>8, <1>9, <1>10, <2>1
  <2> QED
    BY <2>2 DEF Good
<1> QED
  BY <1>10, <1>11, <1>12 DEF Change

LEMMA EndSwitchChange ==
  ASSUME TInv, EndSwitch
  PROVE  Change
<1> DEFINE src == Top.before.src
                    \cup (IF Top.label = "none" THEN {} ELSE Top.body.src)
                    \cup (IF Top.default THEN {} ELSE Skip)
           out == Top.before.out
                    \cup (IF Top.label = "case" \/ Top.default THEN Top.body.out ELSE {})
                    \cup (IF Top.default THEN {} ELSE Skip)
           exit == Top.before.exit \/ (Top.label # "none" /\ Top.body.exit)
           csrc == Catching(src, {"break"})
           cout == Catching(out, {"break"})
           s == Stmt(csrc, cout, FALSE, exit)
<1>1. Depth > 1 /\ Top.kind = "switch" /\ Closes(s, scopes)
  BY DEF EndSwitch
<1>2. src \subseteq Behaviours /\ out \subseteq Behaviours /\ exit \in BOOLEAN
  BY <1>1, TopIsGood, SkipType
<1>3. EInv => out = src /\ ~exit
  <2>1. EInv => (Top.label # "none" <=> (Top.label = "case" \/ Top.default))
    <3>1. EInv => Good(Top, Depth)
      BY <1>1, TopIsGood
    <3>2. Top.label \in Labels
      BY <1>1, TopIsGood, BlockFields
    <3> QED
      BY <1>1, <3>1, <3>2 DEF Good, Labels
  <2> QED
    BY <1>1, <2>1, TopIsGood
<1> HIDE DEF src, out, exit
<1>4. csrc \subseteq Behaviours /\ cout \subseteq Behaviours
  BY <1>2, CatchingType
<1>5. EInv => cout = csrc
  BY <1>3
<1> HIDE DEF csrc, cout
<1>6. s \in Stmts /\ s.src = csrc /\ s.out = cout /\ s.ret = FALSE /\ s.exit = exit
  BY <1>2, <1>4 DEF Stmt, Stmts
<1> HIDE DEF s
<1> QED
  BY <1>1, <1>3, <1>5, <1>6, CloseChange

(* Every step is the start or the end of a function or one of the five. *)
LEMMA EveryStep ==
  ASSUME TInv, Next
  PROVE  /\ count' \in 0 .. MaxStatements
         /\ Starts \/ Ends \/ Change
<1>0. count \in 0 .. MaxStatements /\ MaxStatements \in Nat
  BY FeaturesAssumption DEF TInv
<1>r. Reads => count' \in 0 .. MaxStatements
  BY <1>0 DEF Reads
<1>1. ASSUME NEW params \in Scope, Function(params)
      PROVE  count' \in 0 .. MaxStatements /\ Starts
  BY <1>0, <1>1 DEF Function, Starts
<1>2. EndFunction => count' \in 0 .. MaxStatements /\ Ends
  BY <1>0 DEF EndFunction, Ends
<1>3. Plain \/ Return \/ ProcExit \/ Break \/ Continue
        => count' \in 0 .. MaxStatements /\ Change
  BY <1>r, LeavesChange DEF Plain, Return, ProcExit, Break, Continue, Jump, Leaf
<1>4. ASSUME NEW x \in Names, NEW t \in Types, Let(x, t)
      PROVE  count' \in 0 .. MaxStatements /\ Change
  BY <1>r, <1>4, LetChange DEF Let
<1>5. If \/ Switch => count' \in 0 .. MaxStatements /\ Change
  BY <1>r, OpensChange DEF If, Switch, Opens
<1>6. ASSUME NEW kind \in {"while", "do", "until"}, WhileDoUntil(kind)
      PROVE  count' \in 0 .. MaxStatements /\ Change
  BY <1>r, <1>6, OpensChange DEF WhileDoUntil, Opens
<1>7. ASSUME NEW header \in Scope, For(header)
      PROVE  count' \in 0 .. MaxStatements /\ Change
  BY <1>r, <1>7, OpensChange DEF For, Opens
<1>8. CloseLoop => count' \in 0 .. MaxStatements /\ Change
  BY <1>0, CloseLoopChange DEF CloseLoop, Closes
<1>9. EndIf => count' \in 0 .. MaxStatements /\ Change
  BY <1>0, EndIfChange DEF EndIf, Closes
<1>10. ASSUME NEW kind \in {"then", "else"}, Else(kind)
       PROVE  count' \in 0 .. MaxStatements /\ Change
  BY <1>r, <1>10, ElseChange DEF Else
<1>11. ASSUME NEW label \in {"case", "default"}, Label(label)
       PROVE  count' \in 0 .. MaxStatements /\ Change
  BY <1>r, <1>11, LabelChange DEF Label
<1>12. EndSwitch => count' \in 0 .. MaxStatements /\ Change
  BY <1>0, EndSwitchChange DEF EndSwitch, Closes
<1> QED
  BY <1>1, <1>2, <1>3, <1>4, <1>5, <1>6, <1>7, <1>8, <1>9, <1>10, <1>11, <1>12
     DEF Next, Scope

-----------------------------------------------------------------------------
(* The blocks and the scopes after a change. *)

LEMMA SwapShape ==
  ASSUME TInv, open # <<>>, NEW b \in Blocks, open' = Append(Outer, b),
         b.kind = "fn" <=> Top.kind = "fn",
         b.kind = "switch" <=> Top.kind = "switch"
  PROVE  /\ open' \in Seq(Blocks) /\ Len(open') = Depth /\ open'[Depth] = b
         /\ \A k \in 1 .. Depth - 1 : open'[k] = open[k]
         /\ \A k \in DOMAIN open' : open'[k].kind = "fn" <=> k = 1
         /\ \A k \in 0 .. Depth : Floors(open', k) = Floors(open, k)
<1>1. /\ Top = open[Depth] /\ Depth = Len(open) /\ Depth \in Nat /\ Depth > 0
      /\ DOMAIN open = 1 .. Depth /\ open \in Seq(Blocks)
  BY TopIsBlock DEF TInv
<1>2. open' = Append(SubSeq(open, 1, Len(open) - 1), b)
  BY DEF Outer, Depth
<1>3. /\ open' \in Seq(Blocks) /\ Len(open') = Depth /\ open'[Depth] = b
      /\ \A k \in 1 .. Depth - 1 : open'[k] = open[k]
  BY <1>1, <1>2, Replaced
<1>4. \A k \in 1 .. Depth : /\ open'[k].kind = "fn" <=> open[k].kind = "fn"
                            /\ open'[k].kind = "switch" <=> open[k].kind = "switch"
  BY <1>1, <1>3
<1>5. \A k \in 0 .. Depth : Floors(open', k) = Floors(open, k)
  <2> TAKE k \in 0 .. Depth
  <2>1. k \in Nat /\ \A j \in 1 .. k : open'[j].kind # "switch" <=> open[j].kind # "switch"
    <3>1. k \in Nat /\ \A j \in 1 .. k : j \in 1 .. Depth
      BY <1>1
    <3> QED
      BY <1>4, <3>1
  <2> QED
    BY <2>1, SameFloors
<1>6. DOMAIN open' = 1 .. Depth
  BY <1>3
<1> QED
  BY <1>1, <1>3, <1>4, <1>5, <1>6 DEF TInv

LEMMA EnterShape ==
  ASSUME TInv, open # <<>>, NEW b \in Blocks, open' = Append(open, b), b.kind # "fn"
  PROVE  /\ open' \in Seq(Blocks) /\ Len(open') = Depth + 1 /\ open'[Depth + 1] = b
         /\ \A k \in 1 .. Depth : open'[k] = open[k]
         /\ \A k \in DOMAIN open' : open'[k].kind = "fn" <=> k = 1
         /\ \A k \in 0 .. Depth : Floors(open', k) = Floors(open, k)
         /\ Floors(open', Depth + 1) = IF b.kind = "switch" THEN Floors(open, Depth)
                                                           ELSE Floors(open, Depth) + 1
<1>1. /\ Depth = Len(open) /\ Depth \in Nat /\ Depth > 0
      /\ DOMAIN open = 1 .. Depth /\ open \in Seq(Blocks)
  BY TopIsBlock DEF TInv
<1>3. /\ open' \in Seq(Blocks) /\ Len(open') = Depth + 1 /\ open'[Depth + 1] = b
      /\ \A k \in 1 .. Depth : open'[k] = open[k]
  BY <1>1, Pushed
<1>5. \A k \in 0 .. Depth : Floors(open', k) = Floors(open, k)
  <2> TAKE k \in 0 .. Depth
  <2>1. k \in Nat /\ \A j \in 1 .. k : open'[j].kind # "switch" <=> open[j].kind # "switch"
    BY <1>1, <1>3
  <2> QED
    BY <2>1, SameFloors
<1>6. DOMAIN open' = 1 .. Depth + 1
  BY <1>3
<1>7. \A k \in DOMAIN open' : open'[k].kind = "fn" <=> k = 1
  <2> TAKE k \in DOMAIN open'
  <2>1. CASE k = Depth + 1
    BY <1>1, <1>3, <2>1
  <2>2. CASE k \in 1 .. Depth
    BY <1>1, <1>3, <2>2 DEF TInv
  <2> QED
    BY <1>1, <1>6, <2>1, <2>2
<1>8. Floors(open', Depth) = Floors(open, Depth)
  BY <1>1, <1>5
<1>9. Floors(open', Depth + 1) = IF open'[Depth + 1].kind = "switch" THEN Floors(open', Depth)
                                                           ELSE Floors(open', Depth) + 1
  BY <1>1, NextFloor
<1> QED
  BY <1>3, <1>5, <1>7, <1>8, <1>9

LEMMA JoinShape ==
  ASSUME TInv, Depth > 1, NEW b \in Blocks,
         open' = Append(SubSeq(open, 1, Depth - 2), b),
         b.kind = open[Depth - 1].kind
  PROVE  /\ open' \in Seq(Blocks) /\ Len(open') = Depth - 1 /\ open'[Depth - 1] = b
         /\ \A k \in 1 .. Depth - 2 : open'[k] = open[k]
         /\ \A k \in DOMAIN open' : open'[k].kind = "fn" <=> k = 1
         /\ \A k \in 0 .. Depth - 1 : Floors(open', k) = Floors(open, k)
         /\ Floors(open, Depth) = IF Top.kind = "switch" THEN Floors(open, Depth - 1)
                                                         ELSE Floors(open, Depth - 1) + 1
<1>0. open # <<>>
  BY DEF TInv, Depth
<1>1. /\ Top = open[Depth] /\ Depth = Len(open) /\ Depth \in Nat
      /\ DOMAIN open = 1 .. Depth /\ open \in Seq(Blocks)
  BY <1>0, TopIsBlock DEF TInv
<1>2. open' = Append(SubSeq(open, 1, Len(open) - 2), b)
  BY <1>1
<1>3. /\ open' \in Seq(Blocks) /\ Len(open') = Depth - 1 /\ open'[Depth - 1] = b
      /\ \A k \in 1 .. Depth - 2 : open'[k] = open[k]
  BY <1>1, <1>2, Merged
<1>4. \A k \in 1 .. Depth - 1 : open'[k].kind = open[k].kind
  BY <1>1, <1>3
<1>5. \A k \in 0 .. Depth - 1 : Floors(open', k) = Floors(open, k)
  <2> TAKE k \in 0 .. Depth - 1
  <2>1. k \in Nat /\ \A j \in 1 .. k : open'[j].kind # "switch" <=> open[j].kind # "switch"
    <3>1. k \in Nat /\ \A j \in 1 .. k : j \in 1 .. Depth - 1
      BY <1>1
    <3> QED
      BY <1>4, <3>1
  <2> QED
    BY <2>1, SameFloors
<1>6. DOMAIN open' = 1 .. Depth - 1
  BY <1>3
<1>7. Floors(open, (Depth - 1) + 1) =
        IF open[(Depth - 1) + 1].kind = "switch" THEN Floors(open, Depth - 1)
                                                 ELSE Floors(open, Depth - 1) + 1
  BY <1>1, NextFloor
<1>8. (Depth - 1) + 1 = Depth
  BY <1>1
<1> QED
  BY <1>1, <1>3, <1>4, <1>5, <1>6, <1>7, <1>8 DEF TInv

LEMMA BoundScope ==
  ASSUME NEW sc \in Seq(Scope), sc # <<>>, NEW x \in Names, NEW t \in Types
  PROVE  /\ bind_type(sc, x, t) \in Seq(Scope)
         /\ Len(bind_type(sc, x, t)) = Len(sc)
         /\ \A k \in 1 .. Len(sc) - 1 : bind_type(sc, x, t)[k] = sc[k]
         /\ bind_type(sc, x, t)[Len(sc)] = [sc[Len(sc)] EXCEPT ![x] = t]
<1>1. Len(sc) \in Nat /\ Len(sc) > 0 /\ sc[Len(sc)] \in Scope
  OBVIOUS
<1> DEFINE top == [sc[Len(sc)] EXCEPT ![x] = t]
<1>2. top \in Scope
  BY <1>1 DEF Scope
<1>3. bind_type(sc, x, t) = [sc EXCEPT ![Len(sc)] = top]
  BY DEF bind_type
<1> HIDE DEF top
<1>4. [sc EXCEPT ![Len(sc)] = top] \in Seq(Scope)
  BY <1>1, <1>2
<1>5. Len([sc EXCEPT ![Len(sc)] = top]) = Len(sc)
  BY <1>1, <1>2
<1> QED
  BY <1>1, <1>3, <1>4, <1>5 DEF top

LEMMA PushedScope ==
  ASSUME NEW sc \in Seq(Scope)
  PROVE  /\ Push(sc) \in Seq(Scope) /\ Len(Push(sc)) = Len(sc) + 1
         /\ Push(sc)[Len(sc) + 1] = Nothing
         /\ \A k \in 1 .. Len(sc) : Push(sc)[k] = sc[k]
<1>1. Push(sc) = Append(sc, Nothing) /\ Nothing \in Scope
  BY NothingType DEF Push
<1> QED
  BY <1>1, Pushed

LEMMA PoppedScope ==
  ASSUME NEW sc \in Seq(Scope), sc # <<>>
  PROVE  /\ Pop(sc) \in Seq(Scope) /\ Len(Pop(sc)) = Len(sc) - 1
         /\ \A k \in 1 .. Len(sc) - 1 : Pop(sc)[k] = sc[k]
BY Popped

(* While a function is read there is a scope for the parameters and one    *)
(* for the body.                                                           *)
LEMMA Scopes ==
  ASSUME TInv, open # <<>>
  PROVE  /\ scopes \in Seq(Scope) /\ Len(scopes) = 1 + Floors(open, Depth)
         /\ \A k \in 0 .. Depth : Floors(open, k) \in Nat
         /\ Floors(open, 0) = 0 /\ Floors(open, 1) = 1
         /\ \A k \in 1 .. Depth : 2 <= 1 + Floors(open, k) /\ 1 + Floors(open, k) <= Len(scopes)
         /\ Len(scopes) \in Nat /\ Len(scopes) >= 2 /\ scopes # <<>>
<1>1. Depth = Len(open) /\ Depth \in Nat /\ Depth > 0 /\ DOMAIN open = 1 .. Depth
  BY TopIsBlock
<1>2. Len(scopes) = 1 + Floors(open, Depth) /\ scopes \in Seq(Scope)
  BY <1>1 DEF TInv, ScopeCount
<1>3. Floors(open, 0) = 0
  BY FirstFloor
<1>4. open[1].kind = "fn"
  BY <1>1 DEF TInv
<1>5. Floors(open, 1) = 1
  <2>1. Floors(open, 0 + 1) = IF open[0 + 1].kind = "switch" THEN Floors(open, 0)
                                                           ELSE Floors(open, 0) + 1
    BY NextFloor
  <2> QED
    BY <1>3, <1>4, <2>1
<1>6. \A k \in 0 .. Depth : Floors(open, k) \in Nat
  <2> TAKE k \in 0 .. Depth
  <2>1. k \in Nat
    OBVIOUS
  <2> QED
    BY <2>1, FloorsAreFinite
<1>7. \A k \in 1 .. Depth : 1 <= Floors(open, k) /\ Floors(open, k) <= Floors(open, Depth)
  <2> TAKE k \in 1 .. Depth
  <2>1. Floors(open, 1) <= Floors(open, k)
    BY <1>1, FloorsRise
  <2>2. Floors(open, k) <= Floors(open, Depth)
    BY <1>1, FloorsRise
  <2> QED
    BY <1>5, <2>1, <2>2
<1> QED
  BY <1>1, <1>2, <1>3, <1>5, <1>6, <1>7

-----------------------------------------------------------------------------
(* Each change keeps the types, and the depth of scopes_ with them.        *)

LEMMA Bounds == MaxStatements \in Nat /\ MaxDepth \in Nat /\ 1 <= MaxDepth
<1>1. MaxStatements \in Nat /\ MaxDepth \in Nat \ {0}
  BY FeaturesAssumption
<1> QED
  BY <1>1

LEMMA CountShape ==
  ASSUME open' \in Seq(Blocks), open' # <<>>, scopes' \in Seq(Scope),
         \A k \in DOMAIN open' : open'[k].kind = "fn" <=> k = 1,
         Len(open') <= MaxDepth,
         Len(scopes') = 1 + Floors(open', Len(open')),
         count' \in 0 .. MaxStatements
  PROVE  TInv'
BY DEF TInv, ScopeCount

LEMMA StartTypes ==
  ASSUME TInv, Starts, count' \in 0 .. MaxStatements
  PROVE  TInv'
<1>1. PICK params \in Scope : /\ open' = <<Block("fn", params, NoStmt)>>
                              /\ scopes' = <<params, Nothing>>
  BY DEF Starts
<1> DEFINE b == Block("fn", params, NoStmt)
<1>2. b \in Blocks /\ b.kind = "fn"
  <2>1. "fn" \in Kinds /\ NoStmt \in Stmts
    BY NoStmtType DEF Kinds
  <2>2. Fresh(b, "fn", params, NoStmt)
    BY <2>1, BlockType
  <2> QED
    BY <2>2 DEF Fresh
<1>3. open' = <<b>>
  BY <1>1
<1> HIDE DEF b
<1>4. /\ open' \in Seq(Blocks) /\ Len(open') = 1 /\ open' # <<>>
      /\ \A k \in DOMAIN open' : k = 1 /\ open'[k].kind = "fn"
      /\ open'[1].kind = "fn"
  BY <1>2, <1>3
<1>5. Floors(open', 1) = 1
  <2>1. Floors(open', 0 + 1) = IF open'[0 + 1].kind = "switch" THEN Floors(open', 0)
                                                           ELSE Floors(open', 0) + 1
    BY NextFloor
  <2>2. Floors(open', 0) = 0
    BY FirstFloor
  <2> QED
    BY <1>4, <2>1, <2>2
<1>6. scopes' \in Seq(Scope) /\ Len(scopes') = 2
  <2>1. params \in Scope /\ Nothing \in Scope
    BY NothingType
  <2>2. <<params, Nothing>> \in Seq(Scope) /\ Len(<<params, Nothing>>) = 2
    BY <2>1
  <2> QED
    BY <1>1, <2>2
<1>7. 1 <= MaxDepth
  BY Bounds
<1> QED
  BY <1>4, <1>5, <1>6, <1>7, CountShape

LEMMA EndTypes ==
  ASSUME TInv, Ends, count' \in 0 .. MaxStatements
  PROVE  TInv'
<1>0. Depth = 1 /\ open' = <<>> /\ scopes' = Pop(Pop(scopes))
  BY DEF Ends
<1>1. open # <<>>
  BY <1>0 DEF Depth
<1>2. scopes \in Seq(Scope) /\ Len(scopes) = 2 /\ scopes # <<>>
  BY <1>0, <1>1, Scopes
<1>3. Pop(scopes) \in Seq(Scope) /\ Len(Pop(scopes)) = 1 /\ Pop(scopes) # <<>>
  <2>1. Pop(scopes) \in Seq(Scope) /\ Len(Pop(scopes)) = Len(scopes) - 1
    BY <1>2, PoppedScope
  <2>2. Len(Pop(scopes)) = 1
    BY <1>2, <2>1
  <2>3. Pop(scopes) # <<>>
    BY <2>2
  <2> QED
    BY <2>1, <2>2, <2>3
<1>4. scopes' \in Seq(Scope) /\ Len(scopes') = 0
  BY <1>0, <1>3, PoppedScope
<1>5. 0 <= MaxDepth
  BY Bounds
<1>6. /\ open' \in Seq(Blocks) /\ Len(open') = 0 /\ ScopeCount(open') = 0
      /\ DOMAIN open' = {}
  BY <1>0 DEF ScopeCount
<1> QED
  BY <1>4, <1>5, <1>6 DEF TInv

LEMMA SwapTypes ==
  ASSUME TInv, count' \in 0 .. MaxStatements, NEW b \in Blocks,
         \/ Swaps(b) \/ Renews(b)
         \/ \E x \in Names, t \in Types : Declares(b, x, t)
  PROVE  TInv'
<1>1. open # <<>>
  <2>1. Renews(b) => Depth > 1
    BY DEF Renews
  <2>2. Depth > 1 => open # <<>>
    BY DEF TInv, Depth
  <2> QED
    BY <2>1, <2>2 DEF Swaps, Declares
<1>2. /\ open' = Append(Outer, b)
      /\ b.kind = "fn" <=> Top.kind = "fn"
      /\ b.kind = "switch" <=> Top.kind = "switch"
  BY DEF Swaps, Renews, Declares
<1>3. /\ open' \in Seq(Blocks) /\ Len(open') = Depth
      /\ \A k \in DOMAIN open' : open'[k].kind = "fn" <=> k = 1
      /\ \A k \in 0 .. Depth : Floors(open', k) = Floors(open, k)
  BY <1>1, <1>2, SwapShape
<1>4. Depth \in Nat /\ Depth > 0 /\ Depth <= MaxDepth
  BY <1>1, TopIsBlock DEF TInv
<1>5. /\ scopes \in Seq(Scope) /\ Len(scopes) = 1 + Floors(open, Depth)
      /\ scopes # <<>> /\ Len(scopes) \in Nat
  BY <1>1, Scopes
<1>6. scopes' \in Seq(Scope) /\ Len(scopes') = Len(scopes)
  <2>1. CASE Swaps(b)
    BY <1>5, <2>1 DEF Swaps
  <2>2. CASE Renews(b)
    <3>1. Pop(scopes) \in Seq(Scope) /\ Len(Pop(scopes)) = Len(scopes) - 1
      BY <1>5, PoppedScope
    <3>2. /\ Push(Pop(scopes)) \in Seq(Scope)
          /\ Len(Push(Pop(scopes))) = Len(Pop(scopes)) + 1
      BY <3>1, PushedScope
    <3> QED
      BY <1>5, <2>2, <3>1, <3>2 DEF Renews
  <2>3. CASE \E x \in Names, t \in Types : Declares(b, x, t)
    <3>1. PICK x \in Names, t \in Types : Declares(b, x, t)
      BY <2>3
    <3> QED
      BY <1>5, <3>1, BoundScope DEF Declares
  <2> QED
    BY <2>1, <2>2, <2>3
<1>7. Floors(open', Len(open')) = Floors(open, Depth)
  BY <1>3, <1>4
<1>8. open' # <<>>
  BY <1>3, <1>4
<1> QED
  BY <1>3, <1>4, <1>5, <1>6, <1>7, <1>8, CountShape

LEMMA EnterTypes ==
  ASSUME TInv, count' \in 0 .. MaxStatements, NEW b \in Blocks, Enters(b)
  PROVE  TInv'
<1>1. /\ open # <<>> /\ open' = Append(open, b) /\ b.kind # "fn" /\ Depth < MaxDepth
      /\ scopes' = IF b.kind = "switch" THEN scopes ELSE Push(scopes)
  BY DEF Enters
<1>2. /\ open' \in Seq(Blocks) /\ Len(open') = Depth + 1
      /\ \A k \in DOMAIN open' : open'[k].kind = "fn" <=> k = 1
      /\ Floors(open', Depth + 1) = IF b.kind = "switch" THEN Floors(open, Depth)
                                                         ELSE Floors(open, Depth) + 1
  BY <1>1, EnterShape
<1>3. Depth \in Nat /\ MaxDepth \in Nat
  BY <1>1, TopIsBlock, FeaturesAssumption
<1>4. /\ scopes \in Seq(Scope) /\ Len(scopes) = 1 + Floors(open, Depth)
      /\ Floors(open, Depth) \in Nat
  BY <1>1, <1>3, Scopes
<1>5. /\ scopes' \in Seq(Scope)
      /\ Len(scopes') = IF b.kind = "switch" THEN Len(scopes) ELSE Len(scopes) + 1
  BY <1>1, <1>4, PushedScope
<1>6. open' # <<>> /\ Len(open') <= MaxDepth
  BY <1>1, <1>2, <1>3
<1>7. Len(scopes') = 1 + Floors(open', Len(open'))
  BY <1>2, <1>4, <1>5
<1> QED
  BY <1>2, <1>5, <1>6, <1>7, CountShape

LEMMA JoinTypes ==
  ASSUME TInv, count' \in 0 .. MaxStatements, NEW b \in Blocks, Joins(b)
  PROVE  TInv'
<1>1. /\ Depth > 1 /\ open' = Append(SubSeq(open, 1, Depth - 2), b)
      /\ b.kind = open[Depth - 1].kind
      /\ scopes' = IF Top.kind = "switch" THEN scopes ELSE Pop(scopes)
  BY DEF Joins
<1>2. /\ open' \in Seq(Blocks) /\ Len(open') = Depth - 1
      /\ \A k \in DOMAIN open' : open'[k].kind = "fn" <=> k = 1
      /\ \A k \in 0 .. Depth - 1 : Floors(open', k) = Floors(open, k)
      /\ Floors(open, Depth) = IF Top.kind = "switch" THEN Floors(open, Depth - 1)
                                                      ELSE Floors(open, Depth - 1) + 1
  BY <1>1, JoinShape
<1>3. open # <<>>
  BY <1>1 DEF TInv, Depth
<1>4. Depth \in Nat /\ MaxDepth \in Nat /\ Depth <= MaxDepth
  BY <1>3, TopIsBlock, FeaturesAssumption DEF TInv
<1>5. /\ scopes \in Seq(Scope) /\ Len(scopes) = 1 + Floors(open, Depth)
      /\ Floors(open, Depth - 1) \in Nat /\ scopes # <<>>
  <2>1. Depth - 1 \in 0 .. Depth
    BY <1>1, <1>4
  <2> QED
    BY <1>3, <2>1, Scopes
<1>6. /\ scopes' \in Seq(Scope)
      /\ Len(scopes') = IF Top.kind = "switch" THEN Len(scopes) ELSE Len(scopes) - 1
  BY <1>1, <1>5, PoppedScope
<1>7. open' # <<>> /\ Len(open') <= MaxDepth
  BY <1>1, <1>2, <1>4
<1>8. Floors(open', Len(open')) = Floors(open, Depth - 1)
  BY <1>1, <1>2, <1>4
<1>9. Len(scopes') = 1 + Floors(open', Len(open'))
  BY <1>2, <1>5, <1>6, <1>8
<1> QED
  BY <1>2, <1>6, <1>7, <1>9, CountShape

LEMMA TypesInit == Init => TInv
<1>1. 0 \in 0 .. MaxStatements /\ 0 <= MaxDepth
  BY Bounds
<1> SUFFICES ASSUME Init PROVE TInv
  OBVIOUS
<1>2. /\ open = <<>> /\ scopes = <<>> /\ count = 0
      /\ <<>> \in Seq(Blocks) /\ <<>> \in Seq(Scope) /\ Len(open) = 0 /\ Len(scopes) = 0
      /\ DOMAIN open = {}
  BY DEF Init
<1> QED
  BY <1>1, <1>2 DEF TInv, ScopeCount

LEMMA TypesStay == TInv /\ [Next]_vars => TInv'
<1>1. ASSUME TInv, UNCHANGED vars PROVE TInv'
  BY <1>1 DEF vars, TInv, ScopeCount
<1>2. ASSUME TInv, Next PROVE TInv'
  <2>1. count' \in 0 .. MaxStatements /\ (Starts \/ Ends \/ Change)
    BY <1>2, EveryStep
  <2>2. CASE Change
    <3>1. PICK b \in Blocks :
            \/ Swaps(b) \/ Renews(b)
            \/ \E x \in Names, t \in Types : Declares(b, x, t)
            \/ Enters(b) \/ Joins(b)
      BY <2>2 DEF Change
    <3> QED
      BY <1>2, <2>1, <3>1, SwapTypes, EnterTypes, JoinTypes
  <2> QED
    BY <1>2, <2>1, <2>2, StartTypes, EndTypes
<1> QED
  BY <1>1, <1>2

(* Whatever functions are read: one scope per open block and one for the   *)
(* parameters, as many pops of scopes_ as pushes, blocks within bounds.    *)
THEOREM ScopesAreTyped == Spec => []TypeOK
<1>1. TInv => TypeOK
  BY TInvIsTyped
<1> QED
  BY <1>1, TypesInit, TypesStay, PTL DEF Spec

LEMMA EmitInit == Init /\ NoLateExit => EInv
BY DEF Init, EInv

LEMMA EmitStays == TInv /\ EInv /\ [Next]_vars => EInv'
<1>1. ASSUME EInv, UNCHANGED vars PROVE EInv'
  BY <1>1 DEF vars, EInv
<1>2. ASSUME TInv, EInv, Next PROVE EInv'
  <2>0. NoLateExit
    BY <1>2 DEF EInv
  <2>1. Starts \/ Ends \/ Change
    BY <1>2, EveryStep
  <2>2. CASE Starts
    <3>1. PICK params \in Scope : open' = <<Block("fn", params, NoStmt)>>
      BY <2>2 DEF Starts
    <3> DEFINE b == Block("fn", params, NoStmt)
    <3>2. Good(b, 1)
      <4>1. "fn" \in Kinds /\ NoStmt \in Stmts
        BY NoStmtType DEF Kinds
      <4>2. Fresh(b, "fn", params, NoStmt)
        BY <4>1, BlockType
      <4> HIDE DEF b
      <4> QED
        BY <4>2, NoStmtType DEF Fresh, Good
    <3>3. open' = <<b>>
      BY <3>1
    <3> HIDE DEF b
    <3>4. \A k \in DOMAIN open' : k = 1 /\ open'[k] = b
      BY <3>3
    <3> QED
      BY <2>0, <3>2, <3>4 DEF EInv
  <2>3. CASE Ends
    <3>1. DOMAIN open' = {}
      BY <2>3 DEF Ends
    <3> QED
      BY <2>0, <3>1 DEF EInv
  <2>4. ASSUME NEW b \in Blocks, Good(b, Depth),
               \/ Swaps(b) \/ Renews(b)
               \/ \E x \in Names, t \in Types : Declares(b, x, t)
        PROVE  EInv'
    <3>1. open # <<>>
      <4>1. Renews(b) => Depth > 1
        BY DEF Renews
      <4>2. Depth > 1 => open # <<>>
        BY <1>2 DEF TInv, Depth
      <4> QED
        BY <2>4, <4>1, <4>2 DEF Swaps, Declares
    <3>2. /\ open' = Append(Outer, b)
          /\ b.kind = "fn" <=> Top.kind = "fn"
          /\ b.kind = "switch" <=> Top.kind = "switch"
      BY <2>4 DEF Swaps, Renews, Declares
    <3>3. /\ Len(open') = Depth /\ open'[Depth] = b /\ open' \in Seq(Blocks)
          /\ \A k \in 1 .. Depth - 1 : open'[k] = open[k]
      BY <1>2, <3>1, <3>2, SwapShape
    <3>4. Depth \in Nat /\ \A k \in 1 .. Depth : Good(open[k], k)
      BY <1>2, <3>1, TopIsBlock
    <3>5. DOMAIN open' = 1 .. Depth
      BY <3>3
    <3>6. \A k \in DOMAIN open' : Good(open'[k], k)
      BY <2>4, <3>3, <3>4, <3>5
    <3> QED
      BY <2>0, <3>6 DEF EInv
  <2>5. ASSUME NEW b \in Blocks, Good(b, Depth + 1), Enters(b)
        PROVE  EInv'
    <3>1. open # <<>> /\ open' = Append(open, b) /\ b.kind # "fn"
      BY <2>5 DEF Enters
    <3>3. /\ Len(open') = Depth + 1 /\ open'[Depth + 1] = b /\ open' \in Seq(Blocks)
          /\ \A k \in 1 .. Depth : open'[k] = open[k]
      BY <1>2, <3>1, EnterShape
    <3>4. Depth \in Nat /\ \A k \in 1 .. Depth : Good(open[k], k)
      BY <1>2, <3>1, TopIsBlock
    <3>5. DOMAIN open' = 1 .. Depth + 1
      BY <3>3
    <3>6. \A k \in DOMAIN open' : Good(open'[k], k)
      BY <2>5, <3>3, <3>4, <3>5
    <3> QED
      BY <2>0, <3>6 DEF EInv
  <2>6. ASSUME NEW b \in Blocks, Good(b, Depth - 1), Joins(b)
        PROVE  EInv'
    <3>1. /\ Depth > 1 /\ open' = Append(SubSeq(open, 1, Depth - 2), b)
          /\ b.kind = open[Depth - 1].kind
      BY <2>6 DEF Joins
    <3>2. open # <<>>
      BY <1>2, <3>1 DEF TInv, Depth
    <3>3. /\ Len(open') = Depth - 1 /\ open'[Depth - 1] = b /\ open' \in Seq(Blocks)
          /\ \A k \in 1 .. Depth - 2 : open'[k] = open[k]
      BY <1>2, <3>1, JoinShape
    <3>4. Depth \in Nat /\ \A k \in 1 .. Depth : Good(open[k], k)
      BY <1>2, <3>2, TopIsBlock
    <3>5. DOMAIN open' = 1 .. Depth - 1
      BY <3>3
    <3>6. \A k \in DOMAIN open' : Good(open'[k], k)
      BY <2>6, <3>1, <3>3, <3>4, <3>5
    <3> QED
      BY <2>0, <3>6 DEF EInv
  <2> QED
    BY <1>2, <2>1, <2>2, <2>3, <2>4, <2>5, <2>6 DEF Change
<1> QED
  BY <1>1, <1>2

(* Removing what follows a return or an exit, and rebuilding a switch from *)
(* the bodies of its labels, leaves the meaning of every block what it was *)
(* in the source, however blocks nest and whatever jumps they hold: for    *)
(* programs that call proc_exit in the outermost block only and put        *)
(* default last.                                                           *)
THEOREM EmittedMeans == NoLateExit /\ Spec => []EmittedMeansSource
<1>1. EInv => EmittedMeansSource
  BY DEF EInv, Good, EmittedMeansSource
<1>2. NoLateExit /\ Init => TInv /\ EInv
  BY TypesInit, EmitInit
<1>3. TInv /\ EInv /\ [Next]_vars => TInv' /\ EInv'
  BY TypesStay, EmitStays
<1> QED
  BY <1>1, <1>2, <1>3, PTL DEF Spec

-----------------------------------------------------------------------------
(* Scopes of the parser and blocks of the C text.  InferredTypeIsDeclared  *)
(* speaks of the innermost declaration only; what stays is which scope     *)
(* belongs to which block.  A block has the scope 1 + Floors, a switch     *)
(* none; and where a for hides a variable by one that is bound in no scope *)
(* the innermost scope below it says int, or nothing, as the for does.     *)

IntBelow(x, n, sc) ==
  \A m \in 1 .. n :
    sc[m][x] # NoType /\ (\A l \in 1 .. n : l > m => sc[l][x] = NoType) => sc[m][x] = "int"

BoundAt(b, f, sc, k) ==
  /\ IF b.kind = "switch" THEN b.decl = Nothing ELSE sc[1 + f] = b.decl
  /\ k = 1 => sc[1] = b.header
  /\ k > 1 /\ b.kind # "for" => b.header = Nothing
  /\ b.kind = "for" =>
       \A x \in Names : b.header[x] # NoType => b.header[x] = "int" /\ IntBelow(x, f, sc)

NothingHidden == "case_let" \notin Features /\ "for_shadow" \notin Features

BInv ==
  /\ NothingHidden
  /\ \A k \in DOMAIN open : BoundAt(open[k], Floors(open, k), scopes, k)

LEMMA StaysBound ==
  ASSUME NEW b, NEW c, NEW f \in Nat, NEW sc, NEW r, NEW k \in Nat,
         BoundAt(b, f, sc, k),
         c.kind = b.kind, c.header = b.header, c.decl = b.decl,
         \A m \in 1 .. 1 + f : r[m] = sc[m]
  PROVE  BoundAt(c, f, r, k)
<1>1. r[1 + f] = sc[1 + f] /\ r[1] = sc[1]
  OBVIOUS
<1>2. \A m \in 1 .. f : r[m] = sc[m]
  OBVIOUS
<1>3. ASSUME NEW x \in Names, IntBelow(x, f, sc) PROVE IntBelow(x, f, r)
  <2> SUFFICES ASSUME NEW m \in 1 .. f, r[m][x] # NoType,
                      \A l \in 1 .. f : l > m => r[l][x] = NoType
               PROVE  r[m][x] = "int"
    BY DEF IntBelow
  <2>1. sc[m][x] # NoType /\ \A l \in 1 .. f : l > m => sc[l][x] = NoType
    BY <1>2
  <2>2. sc[m][x] = "int"
    BY <1>3, <2>1 DEF IntBelow
  <2> QED
    BY <1>2, <2>2
<1> QED
  BY <1>1, <1>3 DEF BoundAt

(* The innermost of the first n scopes that bind x, as lookup_type finds it. *)
LEMMA Lookup ==
  ASSUME TInv, NEW x \in Names, NEW m \in 1 .. Len(scopes), scopes[m][x] # NoType,
         \A l \in 1 .. Len(scopes) : l > m => scopes[l][x] = NoType
  PROVE  lookup_type(x) = scopes[m][x]
<1> DEFINE binding == {k \in DOMAIN scopes : scopes[k][x] # NoType}
<1>0. scopes \in Seq(Scope)
  BY DEF TInv
<1>1. DOMAIN scopes = 1 .. Len(scopes) /\ Len(scopes) \in Nat
  BY <1>0
<1>2. binding \subseteq 1 .. Len(scopes) /\ m \in binding
  BY <1>1
<1>3. binding # {}
  BY <1>2
<1>4. lookup_type(x) = scopes[Max(binding)][x]
  BY <1>3 DEF lookup_type
<1>5. \A l \in binding : ~(l > m)
  BY <1>1
<1> HIDE DEF binding
<1>6. Max(binding) \in binding /\ \A l \in binding : l <= Max(binding)
  BY <1>1, <1>2, <1>3, MaxIsGreatest
<1>7. Max(binding) = m
  <2>1. m <= Max(binding) /\ ~(Max(binding) > m)
    BY <1>2, <1>5, <1>6
  <2>2. Max(binding) \in 1 .. Len(scopes) /\ m \in 1 .. Len(scopes)
    BY <1>2, <1>6
  <2>3. 1 .. Len(scopes) \subseteq Int
    BY <1>1
  <2>4. Max(binding) \in Int /\ m \in Int
    BY <2>2, <2>3
  <2> QED
    BY <2>1, <2>4
<1> QED
  BY <1>4, <1>7

LEMMA IntOrUnbound ==
  ASSUME TInv, NEW x \in Names, lookup_type(x) \in {NoType, "int"}
  PROVE  IntBelow(x, Len(scopes), scopes)
<1> SUFFICES ASSUME NEW m \in 1 .. Len(scopes), scopes[m][x] # NoType,
                    \A l \in 1 .. Len(scopes) : l > m => scopes[l][x] = NoType
             PROVE  scopes[m][x] = "int"
  BY DEF IntBelow
<1>1. lookup_type(x) = scopes[m][x]
  BY Lookup
<1> QED
  BY <1>1

(* Every scope but the parameters' belongs to a block. *)
LEMMA ScopeHasBlock ==
  ASSUME TInv, open # <<>>, NEW m \in 2 .. Len(scopes)
  PROVE  \E k \in 1 .. Depth : open[k].kind # "switch" /\ Floors(open, k) = m - 1
<1> DEFINE T == {k \in 1 .. Depth : m - 1 <= Floors(open, k)}
<1>1. /\ Depth \in Nat /\ Depth > 0 /\ Len(scopes) = 1 + Floors(open, Depth)
      /\ Len(scopes) \in Nat /\ Floors(open, 0) = 0
      /\ \A k \in 0 .. Depth : Floors(open, k) \in Nat
  BY TopIsBlock, Scopes
<1>2. T \subseteq Nat /\ T # {}
  <2>1. Depth \in T
    BY <1>1
  <2> QED
    BY <2>1
<1>3. PICK k \in T : \A j \in T : k <= j
  BY <1>2, LeastExists
<1>4. k \in 1 .. Depth /\ m - 1 <= Floors(open, k)
  OBVIOUS
<1>5. k - 1 \in Nat /\ k - 1 \in 0 .. Depth /\ (k - 1) + 1 = k
  BY <1>1, <1>4
<1>6. Floors(open, (k - 1) + 1) =
        IF open[(k - 1) + 1].kind = "switch" THEN Floors(open, k - 1)
                                             ELSE Floors(open, k - 1) + 1
  BY <1>5, NextFloor
<1>7. Floors(open, k - 1) < m - 1
  <2>1. CASE k = 1
    BY <1>1, <2>1
  <2>2. CASE k > 1
    <3>1. k - 1 \notin T
      BY <1>3, <1>4
    <3>2. k - 1 \in 1 .. Depth
      BY <1>1, <1>4, <2>2
    <3>3. Floors(open, k - 1) \in Nat /\ m \in Int
      BY <1>1, <1>5
    <3> QED
      BY <3>1, <3>2, <3>3
  <2> QED
    BY <1>4, <2>1, <2>2
<1>8. Floors(open, k) \in Nat /\ Floors(open, k - 1) \in Nat
  BY <1>1, <1>4, <1>5
<1>9. open[k].kind # "switch" /\ Floors(open, k) = m - 1
  <2> DEFINE here  == Floors(open, k)
             below == Floors(open, k - 1)
  <2>1. here = IF open[k].kind = "switch" THEN below ELSE below + 1
    BY <1>5, <1>6
  <2>2. m - 1 <= here /\ below < m - 1 /\ here \in Nat /\ below \in Nat /\ m - 1 \in Nat
    BY <1>1, <1>4, <1>7, <1>8
  <2> HIDE DEF here, below
  <2>3. open[k].kind # "switch"
    BY <2>1, <2>2
  <2>4. here = m - 1
    BY <2>1, <2>2, <2>3
  <2> QED
    BY <2>3, <2>4 DEF here
<1> QED
  BY <1>4, <1>9

LEMMA BoundIsDeclared ==
  ASSUME TInv, BInv
  PROVE  InferredTypeIsDeclared
<1> SUFFICES ASSUME NEW x \in LookedUp, CType(x) # NoType
             PROVE  infer_type(x) = CType(x)
  BY Zenon DEF InferredTypeIsDeclared
<1>0. x \in Names /\ x \notin EnumValues
  BY DEF LookedUp
<1> DEFINE Own(b) == IF b.decl[x] # NoType THEN b.decl[x] ELSE b.header[x]
           declares == {k \in DOMAIN open : Own(open[k]) # NoType}
           K == Max(declares)
<1>1. declares # {} /\ CType(x) = Own(open[K])
  <2>1. CType(x) = IF declares = {} THEN NoType ELSE Own(open[K])
    BY Zenon DEF CType
  <2> HIDE DEF declares, K, Own
  <2> QED
    BY <2>1, Zenon
<1>2. open # <<>>
  <2>1. declares \subseteq DOMAIN open
    OBVIOUS
  <2> HIDE DEF declares
  <2>2. DOMAIN open # {}
    BY <1>1, <2>1
  <2> QED
    BY <2>2
<1>3. /\ Depth \in Nat /\ Depth > 0 /\ DOMAIN open = 1 .. Depth
      /\ \A k \in 1 .. Depth : open[k] \in Blocks
      /\ open[1].kind = "fn"
  <2>1. /\ Depth \in Nat /\ Depth > 0 /\ DOMAIN open = 1 .. Depth
        /\ \A k \in 1 .. Depth : open[k] \in Blocks
    BY <1>2, TopIsBlock
  <2>2. open[1].kind = "fn"
    BY <2>1 DEF TInv
  <2> QED
    BY <2>1, <2>2
<1>4. /\ declares \subseteq 1 .. Depth
      /\ \A k \in 1 .. Depth : k \notin declares => open[k].decl[x] = NoType
  BY <1>3
<1>5. K \in declares /\ \A k \in declares : k <= K
  <2> HIDE DEF declares
  <2> QED
    BY <1>1, <1>3, <1>4, MaxIsGreatest
<1>6. K \in 1 .. Depth /\ \A k \in 1 .. Depth : k > K => open[k].decl[x] = NoType
  <2> HIDE DEF K, declares
  <2>1. K \in 1 .. Depth
    BY <1>4, <1>5
  <2>2. ASSUME NEW k \in 1 .. Depth, k > K PROVE k \notin declares
    <3>1. k \in Int /\ K \in Int /\ ~(k <= K)
      BY <1>3, <2>1, <2>2
    <3> QED
      BY <1>5, <3>1
  <2> QED
    BY <1>4, <2>1, <2>2
<1> HIDE DEF K, declares
<1>7. /\ scopes \in Seq(Scope) /\ Len(scopes) \in Nat /\ Len(scopes) >= 2
      /\ \A k \in 0 .. Depth : Floors(open, k) \in Nat
      /\ Floors(open, 1) = 1
      /\ \A k \in 1 .. Depth : 2 <= 1 + Floors(open, k) /\ 1 + Floors(open, k) <= Len(scopes)
  BY <1>2, Scopes
<1>8. \A k \in 1 .. Depth : BoundAt(open[k], Floors(open, k), scopes, k)
  BY <1>3 DEF BInv
<1> DEFINE f == Floors(open, K)
<1>9. f \in Nat /\ f >= 1 /\ 1 + f \in 1 .. Len(scopes)
  BY <1>3, <1>6, <1>7
(* Above the scope of K nothing binds x. *)
<1>10. \A m \in 1 .. Len(scopes) : m > 1 + f => scopes[m][x] = NoType
  <2> TAKE m \in 1 .. Len(scopes)
  <2> SUFFICES ASSUME m > 1 + f PROVE scopes[m][x] = NoType
    OBVIOUS
  <2>1. m \in 2 .. Len(scopes)
    BY <1>7, <1>9
  <2>2. PICK k \in 1 .. Depth : open[k].kind # "switch" /\ Floors(open, k) = m - 1
    BY <1>2, <2>1, ScopeHasBlock
  <2>3. k > K
    <3>1. k <= K => Floors(open, k) <= Floors(open, K)
      <4>1. k \in Nat /\ K \in Nat
        BY <1>3, <1>6
      <4> QED
        BY <4>1, FloorsRise
    <3>2. k \in Int /\ K \in Int /\ m \in Int
      BY <1>3, <1>6, <1>7
    <3> QED
      BY <1>9, <2>2, <3>1, <3>2
  <2>4. scopes[1 + Floors(open, k)] = open[k].decl
    BY <1>8, <2>2 DEF BoundAt
  <2>5. 1 + Floors(open, k) = m
    BY <1>7, <2>1, <2>2
  <2> QED
    BY <1>6, <2>3, <2>4, <2>5
<1>11. BoundAt(open[K], f, scopes, K)
  BY <1>6, <1>8
<1>12. Nothing[x] = NoType
  BY <1>0, NothingType
<1> HIDE DEF f
<1>13. CASE open[K].decl[x] # NoType
  <2>1. open[K].kind # "switch"
    BY <1>11, <1>12, <1>13 DEF BoundAt
  <2>2. scopes[1 + f] = open[K].decl
    BY <1>11, <2>1 DEF BoundAt
  <2>3. lookup_type(x) = open[K].decl[x]
    BY <1>0, <1>9, <1>10, <1>13, <2>2, Lookup
  <2> QED
    BY <1>0, <1>1, <1>13, <2>3 DEF infer_type
<1>14. CASE open[K].decl[x] = NoType
  <2>1. CType(x) = open[K].header[x] /\ open[K].header[x] # NoType
    BY <1>1, <1>14
  <2>2. CASE K = 1
    <3>1. f = 1 /\ scopes[1] = open[K].header /\ scopes[1 + f] = open[K].decl
      BY <1>3, <1>7, <1>11, <2>2 DEF BoundAt, f
    <3>2. \A m \in 1 .. Len(scopes) : m > 1 => scopes[m][x] = NoType
      BY <1>7, <1>10, <1>14, <3>1
    <3>3. 1 \in 1 .. Len(scopes)
      BY <1>7
    <3>4. lookup_type(x) = scopes[1][x]
      BY <1>0, <2>1, <3>1, <3>2, <3>3, Lookup
    <3> QED
      BY <1>0, <2>1, <3>1, <3>4 DEF infer_type
  <2>3. CASE K # 1
    <3>1. K > 1
      BY <1>3, <1>6, <2>3
    <3>2. open[K].kind = "for"
      BY <1>11, <1>12, <2>1, <3>1 DEF BoundAt
    <3>3. /\ open[K].header[x] = "int" /\ IntBelow(x, f, scopes)
          /\ scopes[1 + f][x] = NoType
      BY <1>0, <1>11, <1>14, <2>1, <3>2 DEF BoundAt
    <3>4. \A m \in 1 .. Len(scopes) : m > f => scopes[m][x] = NoType
      BY <1>7, <1>9, <1>10, <3>3
    <3> DEFINE binding == {m \in DOMAIN scopes : scopes[m][x] # NoType}
    <3>5. binding \subseteq 1 .. f
      <4>1. DOMAIN scopes = 1 .. Len(scopes)
        BY <1>7
      <4> QED
        BY <1>7, <1>9, <3>4, <4>1
    <3>6. CASE binding = {}
      <4>1. lookup_type(x) = NoType
        BY <3>6 DEF lookup_type
      <4> QED
        BY <1>0, <2>1, <3>3, <4>1 DEF infer_type
    <3>7. CASE binding # {}
      <4>1. lookup_type(x) = scopes[Max(binding)][x]
        BY <3>7 DEF lookup_type
      <4> HIDE DEF binding
      <4>2. /\ Max(binding) \in binding /\ Max(binding) \in 1 .. f
            /\ \A m \in binding : m <= Max(binding)
        BY <1>9, <3>5, <3>7, MaxIsGreatest
      <4>3. scopes[Max(binding)][x] # NoType
        BY <4>2 DEF binding
      <4>4. \A l \in 1 .. f : l > Max(binding) => scopes[l][x] = NoType
        <5> SUFFICES ASSUME NEW l \in 1 .. f, l > Max(binding), scopes[l][x] # NoType
                     PROVE  FALSE
          OBVIOUS
        <5>1. l \in DOMAIN scopes
          <6>1. DOMAIN scopes = 1 .. Len(scopes)
            BY <1>7
          <6> QED
            BY <1>7, <1>9, <6>1
        <5>2. l \in binding
          BY <5>1 DEF binding
        <5>3. l <= Max(binding) /\ l \in Int /\ Max(binding) \in Int
          BY <1>9, <4>2, <5>2
        <5> QED
          BY <5>3
      <4>5. scopes[Max(binding)][x] = "int"
        BY <3>3, <4>2, <4>3, <4>4 DEF IntBelow
      <4> QED
        BY <1>0, <2>1, <3>3, <4>1, <4>5 DEF infer_type
    <3> QED
      BY <3>6, <3>7
  <2> QED
    BY <2>2, <2>3
<1> QED
  BY <1>13, <1>14

LEMMA StartBinds ==
  ASSUME TInv, Starts, NothingHidden
  PROVE  BInv'
<1>1. PICK params \in Scope : /\ open' = <<Block("fn", params, NoStmt)>>
                              /\ scopes' = <<params, Nothing>>
  BY DEF Starts
<1> DEFINE b == Block("fn", params, NoStmt)
<1>2. b.kind = "fn" /\ b.header = params /\ b.decl = Nothing
  <2>1. "fn" \in Kinds /\ NoStmt \in Stmts
    BY NoStmtType DEF Kinds
  <2>2. Fresh(b, "fn", params, NoStmt)
    BY <2>1, BlockType
  <2> QED
    BY <2>2 DEF Fresh
<1>3. open' = <<b>>
  BY <1>1
<1> HIDE DEF b
<1>4. /\ \A k \in DOMAIN open' : k = 1
      /\ open'[1] = b
  BY <1>3
<1>5. Floors(open', 1) = 1
  <2>1. Floors(open', 0 + 1) = IF open'[0 + 1].kind = "switch" THEN Floors(open', 0)
                                                           ELSE Floors(open', 0) + 1
    BY NextFloor
  <2>2. Floors(open', 0) = 0
    BY FirstFloor
  <2> QED
    BY <1>2, <1>4, <2>1, <2>2
<1>6. scopes'[1] = b.header /\ scopes'[1 + 1] = b.decl
  BY <1>1, <1>2
<1>7. BoundAt(b, 1, scopes', 1)
  BY <1>2, <1>6 DEF BoundAt
<1> QED
  BY <1>4, <1>5, <1>7 DEF BInv, NothingHidden

(* The blocks below the top one keep their scopes. *)
LEMMA BelowTop ==
  ASSUME TInv, open # <<>>, NEW k \in 1 .. Depth, k < Depth, Top.kind # "switch"
  PROVE  /\ 1 + Floors(open, k) <= Len(scopes) - 1
         /\ Floors(open, k) \in Nat /\ k \in Nat
<1>1. /\ Depth \in Nat /\ Depth > 0 /\ Len(scopes) = 1 + Floors(open, Depth)
      /\ Top = open[Depth]
      /\ \A j \in 0 .. Depth : Floors(open, j) \in Nat
  BY TopIsBlock, Scopes
<1>2. k \in Nat /\ k \in 0 .. Depth /\ Depth \in 0 .. Depth
  BY <1>1
<1>3. Floors(open, k) < Floors(open, Depth)
  BY <1>1, <1>2, FloorsRise
<1>4. Floors(open, k) \in Nat /\ Floors(open, Depth) \in Nat
  BY <1>1, <1>2
<1> QED
  BY <1>1, <1>2, <1>3, <1>4

LEMMA SwapBinds ==
  ASSUME TInv, BInv, NEW b \in Blocks,
         \/ Swaps(b) \/ Renews(b)
         \/ \E x \in Names, t \in Types : Declares(b, x, t)
  PROVE  BInv'
<1>1. open # <<>>
  <2>1. Renews(b) => Depth > 1
    BY DEF Renews
  <2>2. Depth > 1 => open # <<>>
    BY DEF TInv, Depth
  <2> QED
    BY <2>1, <2>2 DEF Swaps, Declares
<1>2. /\ open' = Append(Outer, b)
      /\ b.kind = "fn" <=> Top.kind = "fn"
      /\ b.kind = "switch" <=> Top.kind = "switch"
  BY DEF Swaps, Renews, Declares
<1>3. /\ open' \in Seq(Blocks) /\ Len(open') = Depth /\ open'[Depth] = b
      /\ \A k \in 1 .. Depth - 1 : open'[k] = open[k]
      /\ \A k \in 0 .. Depth : Floors(open', k) = Floors(open, k)
  BY <1>1, <1>2, SwapShape
<1>4. Depth \in Nat /\ Depth > 0 /\ DOMAIN open = 1 .. Depth /\ Top = open[Depth]
      /\ Top \in Blocks
  BY <1>1, TopIsBlock
<1>5. /\ scopes \in Seq(Scope) /\ Len(scopes) = 1 + Floors(open, Depth)
      /\ Len(scopes) \in Nat /\ Len(scopes) >= 2 /\ scopes # <<>>
      /\ \A k \in 0 .. Depth : Floors(open, k) \in Nat
      /\ Floors(open, 1) = 1
  BY <1>1, Scopes
<1>6. \A k \in 1 .. Depth : BoundAt(open[k], Floors(open, k), scopes, k)
  BY <1>4 DEF BInv
<1>7. BoundAt(Top, Floors(open, Depth), scopes, Depth)
      /\ Floors(open, Depth) \in Nat
  BY <1>4, <1>5, <1>6
<1>8. DOMAIN open' = 1 .. Depth
  BY <1>3
(* The scopes but the last stay, and so does what the others hold. *)
<1>9. ASSUME \A m \in 1 .. Len(scopes) - 1 : scopes'[m] = scopes[m],
             Top.kind # "switch",
             BoundAt(b, Floors(open, Depth), scopes', Depth)
      PROVE  BInv'
  <2>1. ASSUME NEW k \in 1 .. Depth
        PROVE  BoundAt(open'[k], Floors(open', k), scopes', k)
    <3>1. CASE k = Depth
      <4>1. Floors(open', k) = Floors(open, Depth)
        BY <1>3, <1>4, <3>1
      <4> QED
        BY <1>3, <1>9, <3>1, <4>1
    <3>2. CASE k < Depth
      <4>1. /\ 1 + Floors(open, k) <= Len(scopes) - 1
            /\ Floors(open, k) \in Nat /\ k \in Nat
        BY <1>1, <1>9, <3>2, BelowTop
      <4>2. \A m \in 1 .. 1 + Floors(open, k) : scopes'[m] = scopes[m]
        BY <1>5, <1>9, <4>1
      <4>3. open'[k] = open[k] /\ Floors(open', k) = Floors(open, k)
        BY <1>3, <1>4, <3>2
      <4>4. BoundAt(open[k], Floors(open, k), scopes, k)
        BY <1>6
      <4> QED
        BY <4>1, <4>2, <4>3, <4>4, StaysBound
    <3> QED
      BY <1>4, <3>1, <3>2
  <2> QED
    BY <1>8, <2>1 DEF BInv, NothingHidden
<1>10. CASE Swaps(b)
  <2>1. b.kind = Top.kind /\ b.header = Top.header /\ scopes' = scopes
    BY <1>10 DEF Swaps
  <2>2. b.decl = Top.decl
    BY <1>7, <1>10 DEF Swaps, BoundAt
  <2>3. ASSUME NEW k \in 1 .. Depth
        PROVE  BoundAt(open'[k], Floors(open', k), scopes', k)
    <3>1. Floors(open', k) = Floors(open, k) /\ Floors(open, k) \in Nat /\ k \in Nat
      BY <1>3, <1>4, <1>5
    <3>2. /\ open'[k].kind = open[k].kind /\ open'[k].header = open[k].header
          /\ open'[k].decl = open[k].decl
      <4>1. CASE k = Depth
        BY <1>3, <1>4, <2>1, <2>2, <4>1
      <4>2. CASE k # Depth
        BY <1>3, <1>4, <4>2
      <4> QED
        BY <4>1, <4>2
    <3>3. BoundAt(open[k], Floors(open, k), scopes, k)
      BY <1>6
    <3> QED
      BY <2>1, <3>1, <3>2, <3>3, StaysBound
  <2> QED
    BY <1>8, <2>3 DEF BInv, NothingHidden
<1>11. CASE Renews(b)
  <2>1. /\ Depth > 1 /\ Top.kind = "then" /\ b.kind \in {"then", "else"}
        /\ b.header = Nothing /\ b.decl = Nothing
        /\ scopes' = Push(Pop(scopes))
    BY <1>11 DEF Renews
  <2>2. /\ Pop(scopes) \in Seq(Scope) /\ Len(Pop(scopes)) = Len(scopes) - 1
        /\ \A m \in 1 .. Len(scopes) - 1 : Pop(scopes)[m] = scopes[m]
    BY <1>5, PoppedScope
  <2>3. /\ scopes'[Len(Pop(scopes)) + 1] = Nothing
        /\ \A m \in 1 .. Len(Pop(scopes)) : scopes'[m] = Pop(scopes)[m]
    BY <2>1, <2>2, PushedScope
  <2>4. \A m \in 1 .. Len(scopes) - 1 : scopes'[m] = scopes[m]
    BY <2>2, <2>3
  <2>5. scopes'[1 + Floors(open, Depth)] = Nothing
    <3>1. Len(Pop(scopes)) + 1 = 1 + Floors(open, Depth)
      BY <1>5, <1>7, <2>2
    <3> QED
      BY <2>3, <3>1
  <2>6. BoundAt(b, Floors(open, Depth), scopes', Depth)
    BY <1>4, <2>1, <2>5 DEF BoundAt
  <2> QED
    BY <1>9, <2>1, <2>4, <2>6
<1>12. ASSUME NEW x \in Names, NEW t \in Types, Declares(b, x, t)
       PROVE  BInv'
  <2>1. /\ b.kind = Top.kind /\ b.header = Top.header
        /\ b.decl = [Top.decl EXCEPT ![x] = t]
        /\ Top.kind # "switch"
        /\ scopes' = bind_type(scopes, x, t)
    <3>1. "case_let" \notin Features
      BY DEF BInv, NothingHidden
    <3> QED
      BY <1>12, <3>1, Zenon DEF Declares
  <2>2. /\ \A m \in 1 .. Len(scopes) - 1 : scopes'[m] = scopes[m]
        /\ scopes'[Len(scopes)] = [scopes[Len(scopes)] EXCEPT ![x] = t]
    BY <1>5, <2>1, BoundScope
  <2>3. scopes[1 + Floors(open, Depth)] = Top.decl
    BY <1>7, <2>1 DEF BoundAt
  <2>4. scopes'[1 + Floors(open, Depth)] = b.decl
    BY <1>5, <2>1, <2>2, <2>3
  <2>5. scopes'[1] = scopes[1]
    BY <1>5, <2>2
  <2>6. ASSUME NEW y \in Names, IntBelow(y, Floors(open, Depth), scopes)
        PROVE  IntBelow(y, Floors(open, Depth), scopes')
    <3> DEFINE f == Floors(open, Depth)
    <3>1. \A m \in 1 .. f : scopes'[m] = scopes[m]
      BY <1>5, <1>7, <2>2
    <3> HIDE DEF f
    <3> SUFFICES ASSUME NEW m \in 1 .. f, scopes'[m][y] # NoType,
                        \A l \in 1 .. f : l > m => scopes'[l][y] = NoType
                 PROVE  scopes'[m][y] = "int"
      BY DEF IntBelow, f
    <3>2. scopes[m][y] # NoType /\ \A l \in 1 .. f : l > m => scopes[l][y] = NoType
      BY <3>1
    <3>3. IntBelow(y, f, scopes)
      BY <2>6 DEF f
    <3>4. scopes[m][y] = "int"
      BY <3>2, <3>3 DEF IntBelow
    <3> QED
      BY <3>1, <3>4
  <2>7. BoundAt(b, Floors(open, Depth), scopes', Depth)
    BY <1>7, <2>1, <2>4, <2>5, <2>6 DEF BoundAt
  <2> QED
    BY <1>9, <2>1, <2>2, <2>7
<1> QED
  BY <1>10, <1>11, <1>12

LEMMA EnterBinds ==
  ASSUME TInv, BInv, NEW b \in Blocks, Enters(b)
  PROVE  BInv'
<1>1. /\ open # <<>> /\ open' = Append(open, b) /\ b.kind # "fn"
      /\ b.decl = Nothing
      /\ IF b.kind = "for" THEN HeaderFits(b.header) ELSE b.header = Nothing
      /\ scopes' = IF b.kind = "switch" THEN scopes ELSE Push(scopes)
  BY DEF Enters
<1>2. /\ open' \in Seq(Blocks) /\ Len(open') = Depth + 1 /\ open'[Depth + 1] = b
      /\ \A k \in 1 .. Depth : open'[k] = open[k]
      /\ \A k \in 0 .. Depth : Floors(open', k) = Floors(open, k)
      /\ Floors(open', Depth + 1) = IF b.kind = "switch" THEN Floors(open, Depth)
                                                         ELSE Floors(open, Depth) + 1
  BY <1>1, EnterShape
<1>3. Depth \in Nat /\ Depth > 0 /\ DOMAIN open = 1 .. Depth
  BY <1>1, TopIsBlock
<1>4. /\ scopes \in Seq(Scope) /\ Len(scopes) = 1 + Floors(open, Depth)
      /\ Len(scopes) \in Nat
      /\ \A k \in 0 .. Depth : Floors(open, k) \in Nat
      /\ \A k \in 1 .. Depth : 1 + Floors(open, k) <= Len(scopes)
  BY <1>1, Scopes
<1>5. /\ \A m \in 1 .. Len(scopes) : scopes'[m] = scopes[m]
      /\ b.kind # "switch" => scopes'[Len(scopes) + 1] = Nothing
  <2>1. CASE b.kind = "switch"
    BY <1>1, <2>1
  <2>2. CASE b.kind # "switch"
    <3>1. scopes' = Push(scopes)
      BY <1>1, <2>2
    <3> QED
      BY <1>4, <3>1, PushedScope
  <2> QED
    BY <2>1, <2>2
<1>6. ASSUME NEW k \in 1 .. Depth
      PROVE  BoundAt(open'[k], Floors(open', k), scopes', k)
  <2>1. /\ open'[k] = open[k] /\ Floors(open', k) = Floors(open, k)
        /\ Floors(open, k) \in Nat /\ k \in Nat /\ 1 + Floors(open, k) <= Len(scopes)
    BY <1>2, <1>3, <1>4
  <2>2. \A m \in 1 .. 1 + Floors(open, k) : scopes'[m] = scopes[m]
    BY <1>4, <1>5, <2>1
  <2>3. BoundAt(open[k], Floors(open, k), scopes, k)
    BY <1>3 DEF BInv
  <2> QED
    BY <2>1, <2>2, <2>3, StaysBound
<1> DEFINE f == Floors(open', Depth + 1)
<1>7. Depth \in 0 .. Depth /\ Floors(open, Depth) \in Nat
  BY <1>3, <1>4
<1>8. b.kind # "switch" => scopes'[1 + f] = Nothing
  <2> SUFFICES ASSUME b.kind # "switch" PROVE scopes'[1 + f] = Nothing
    OBVIOUS
  <2>1. 1 + f = Len(scopes) + 1
    BY <1>2, <1>4, <1>7
  <2> QED
    BY <1>5, <2>1
<1>9. ASSUME b.kind = "for", NEW x \in Names, b.header[x] # NoType
      PROVE  b.header[x] = "int" /\ IntBelow(x, f, scopes')
  <2>1. b.header[x] = "int" /\ lookup_type(x) \in {NoType, "int"}
    BY <1>1, <1>9 DEF HeaderFits, BInv, NothingHidden
  <2>2. IntBelow(x, Len(scopes), scopes)
    BY <2>1, IntOrUnbound
  <2>3. f = Len(scopes)
    BY <1>2, <1>4, <1>7, <1>9
  <2> HIDE DEF f
  <2> SUFFICES ASSUME NEW m \in 1 .. f, scopes'[m][x] # NoType,
                      \A l \in 1 .. f : l > m => scopes'[l][x] = NoType
               PROVE  scopes'[m][x] = "int"
    BY <2>1 DEF IntBelow
  <2>4. scopes[m][x] # NoType /\ \A l \in 1 .. f : l > m => scopes[l][x] = NoType
    BY <1>5, <2>3
  <2>5. scopes[m][x] = "int"
    BY <2>2, <2>3, <2>4 DEF IntBelow
  <2> QED
    BY <1>5, <2>3, <2>5
<1>10. BoundAt(b, f, scopes', Depth + 1)
  <2>1. Depth + 1 > 1 /\ Depth + 1 # 1
    BY <1>3
  <2> HIDE DEF f
  <2> QED
    BY <1>1, <1>8, <1>9, <2>1 DEF BoundAt
<1>11. DOMAIN open' = 1 .. Depth + 1
  BY <1>2
<1>12. \A k \in DOMAIN open' : BoundAt(open'[k], Floors(open', k), scopes', k)
  <2> TAKE k \in DOMAIN open'
  <2>1. CASE k = Depth + 1
    BY <1>2, <1>10, <2>1
  <2>2. CASE k # Depth + 1
    <3>1. k \in 1 .. Depth
      BY <1>3, <1>11, <2>2
    <3> QED
      BY <1>6, <3>1
  <2> QED
    BY <2>1, <2>2
<1> QED
  BY <1>12 DEF BInv, NothingHidden

LEMMA JoinBinds ==
  ASSUME TInv, BInv, NEW b \in Blocks, Joins(b)
  PROVE  BInv'
<1>1. /\ Depth > 1 /\ open' = Append(SubSeq(open, 1, Depth - 2), b)
      /\ b.kind = open[Depth - 1].kind /\ b.header = open[Depth - 1].header
      /\ b.decl = open[Depth - 1].decl
      /\ scopes' = IF Top.kind = "switch" THEN scopes ELSE Pop(scopes)
  BY DEF Joins
<1>2. /\ open' \in Seq(Blocks) /\ Len(open') = Depth - 1 /\ open'[Depth - 1] = b
      /\ \A k \in 1 .. Depth - 2 : open'[k] = open[k]
      /\ \A k \in 0 .. Depth - 1 : Floors(open', k) = Floors(open, k)
  BY <1>1, JoinShape
<1>3. open # <<>>
  BY <1>1 DEF TInv, Depth
<1>4. Depth \in Nat /\ DOMAIN open = 1 .. Depth
  BY <1>3, TopIsBlock
<1>5. /\ scopes \in Seq(Scope) /\ scopes # <<>> /\ Len(scopes) \in Nat
      /\ \A k \in 0 .. Depth : Floors(open, k) \in Nat
      /\ \A k \in 1 .. Depth : 1 + Floors(open, k) <= Len(scopes)
  BY <1>3, Scopes
<1>6. /\ Top.kind # "switch" => \A m \in 1 .. Len(scopes) - 1 : scopes'[m] = scopes[m]
      /\ Top.kind = "switch" => scopes' = scopes
  BY <1>1, <1>5, PoppedScope
<1>7. DOMAIN open' = 1 .. Depth - 1
  BY <1>2
<1>8. ASSUME NEW k \in DOMAIN open'
      PROVE  BoundAt(open'[k], Floors(open', k), scopes', k)
  <2>1. k \in 1 .. Depth /\ k < Depth /\ k \in 0 .. Depth - 1 /\ k \in 0 .. Depth
    BY <1>4, <1>7
  <2>2. /\ open'[k].kind = open[k].kind /\ open'[k].header = open[k].header
        /\ open'[k].decl = open[k].decl
    <3>1. CASE k = Depth - 1
      BY <1>1, <1>2, <3>1
    <3>2. CASE k # Depth - 1
      <4>1. k \in 1 .. Depth - 2
        BY <1>4, <2>1, <3>2
      <4> QED
        BY <1>2, <4>1
    <3> QED
      BY <3>1, <3>2
  <2>3. /\ Floors(open', k) = Floors(open, k) /\ Floors(open, k) \in Nat /\ k \in Nat
        /\ 1 + Floors(open, k) <= Len(scopes)
    BY <1>2, <1>5, <2>1
  <2>4. \A m \in 1 .. 1 + Floors(open, k) : scopes'[m] = scopes[m]
    <3>1. CASE Top.kind = "switch"
      BY <1>6, <3>1
    <3>2. CASE Top.kind # "switch"
      <4>1. 1 + Floors(open, k) <= Len(scopes) - 1
        BY <1>3, <2>1, <3>2, BelowTop
      <4> QED
        BY <1>5, <1>6, <2>3, <3>2, <4>1
    <3> QED
      BY <3>1, <3>2
  <2>5. BoundAt(open[k], Floors(open, k), scopes, k)
    BY <1>4, <2>1 DEF BInv
  <2> QED
    BY <2>2, <2>3, <2>4, <2>5, StaysBound
<1> QED
  BY <1>8 DEF BInv, NothingHidden

LEMMA BindsInit == Init /\ NothingHidden => BInv
BY DEF Init, BInv

LEMMA BindsStay == TInv /\ BInv /\ [Next]_vars => BInv'
<1>1. ASSUME BInv, UNCHANGED vars PROVE BInv'
  BY <1>1 DEF vars, BInv
<1>2. ASSUME TInv, BInv, Next PROVE BInv'
  <2>1. Starts \/ Ends \/ Change
    BY <1>2, EveryStep
  <2>2. NothingHidden
    BY <1>2 DEF BInv
  <2>3. CASE Ends
    <3>1. DOMAIN open' = {}
      BY <2>3 DEF Ends
    <3> QED
      BY <2>2, <3>1 DEF BInv, NothingHidden
  <2>4. CASE Change
    <3>1. PICK b \in Blocks :
            \/ Swaps(b) \/ Renews(b)
            \/ \E x \in Names, t \in Types : Declares(b, x, t)
            \/ Enters(b) \/ Joins(b)
      BY <2>4 DEF Change
    <3> QED
      BY <1>2, <3>1, SwapBinds, EnterBinds, JoinBinds
  <2> QED
    BY <1>2, <2>1, <2>2, <2>3, <2>4, StartBinds
<1> QED
  BY <1>1, <1>2

(* The type infer_type finds for a variable it looks up, one that begins   *)
(* with a letter and is not spelt like an enum's value, is the type C has  *)
(* declared it with at that place, however blocks nest and names hide one  *)
(* another: for programs that declare nothing directly under a case label  *)
(* and in which no loop variable hides a variable of another type.         *)
THEOREM InferredIsDeclared == NothingHidden /\ Spec => []InferredTypeIsDeclared
<1>1. TInv /\ BInv => InferredTypeIsDeclared
  BY BoundIsDeclared
<1>2. NothingHidden /\ Init => TInv /\ BInv
  BY TypesInit, BindsInit
<1>3. TInv /\ BInv /\ [Next]_vars => TInv' /\ BInv'
  BY TypesStay, BindsStay
<1> QED
  BY <1>1, <1>2, <1>3, PTL DEF Spec

-----------------------------------------------------------------------------
(* Induction, over a set of numbers. *)
LEMMA EveryNumber ==
  ASSUME NEW A, 0 \in A, \A n \in Nat : n \in A => n + 1 \in A
  PROVE  Nat \subseteq A
<1> SUFFICES ASSUME ~(Nat \subseteq A) PROVE FALSE
  OBVIOUS
<1> DEFINE T == Nat \ A
<1>1. T \subseteq Nat /\ T # {}
  OBVIOUS
<1>2. PICK x \in T : \A y \in T : x <= y
  BY <1>1, LeastExists
<1>3. x \in Nat /\ x \notin A /\ x # 0
  BY <1>2
<1>4. x - 1 \in Nat /\ x - 1 + 1 = x /\ ~(x <= x - 1)
  BY <1>3
<1>5. x - 1 \in A
  BY <1>2, <1>4
<1> QED
  BY <1>3, <1>4, <1>5

(* A function that is given by its value at zero and by how each value     *)
(* follows from the one before it.                                         *)
RecursionTo(n, g, a, G) == g[0] = a /\ \A i \in 1 .. n : g[i] = G[i][g[i - 1]]

LEMMA RecursionReaches ==
  ASSUME NEW S, NEW a \in S, NEW G \in [Nat -> [S -> S]], NEW n \in Nat
  PROVE  \E g \in [0 .. n -> S] : RecursionTo(n, g, a, G)
<1> DEFINE A == {m \in Nat : \E g \in [0 .. m -> S] : RecursionTo(m, g, a, G)}
<1>1. 0 \in A
  <2> DEFINE g == [i \in 0 .. 0 |-> a]
  <2>1. g \in [0 .. 0 -> S] /\ RecursionTo(0, g, a, G)
    BY DEF RecursionTo
  <2> QED
    BY <2>1
<1>2. ASSUME NEW m \in Nat, m \in A PROVE m + 1 \in A
  <2>1. PICK g \in [0 .. m -> S] : RecursionTo(m, g, a, G)
    BY <1>2
  <2> DEFINE h == [i \in 0 .. m + 1 |-> IF i = m + 1 THEN G[m + 1][g[m]] ELSE g[i]]
  <2>2. m \in 0 .. m /\ g[m] \in S /\ m + 1 \in Nat
    OBVIOUS
  <2>3. G[m + 1][g[m]] \in S
    BY <2>2
  <2>4. h \in [0 .. m + 1 -> S]
    BY <2>3
  <2>5. \A i \in 0 .. m : h[i] = g[i]
    OBVIOUS
  <2>6. h[m + 1] = G[m + 1][h[m]]
    BY <2>2, <2>5
  <2> HIDE DEF h
  <2>7. ASSUME NEW i \in 1 .. m + 1 PROVE h[i] = G[i][h[i - 1]]
    <3>1. CASE i = m + 1
      <4>1. i - 1 = m
        BY <3>1
      <4> QED
        BY <2>6, <3>1, <4>1
    <3>2. CASE i # m + 1
      <4>1. i \in 1 .. m /\ i \in 0 .. m /\ i - 1 \in 0 .. m
        BY <3>2
      <4>2. g[i] = G[i][g[i - 1]]
        BY <2>1, <4>1 DEF RecursionTo
      <4> QED
        BY <2>5, <4>1, <4>2
    <3> QED
      BY <3>1, <3>2
  <2>8. h[0] = a
    BY <2>1, <2>5 DEF RecursionTo
  <2>9. RecursionTo(m + 1, h, a, G)
    BY <2>7, <2>8 DEF RecursionTo
  <2> QED
    BY <2>2, <2>4, <2>9
<1> HIDE DEF A
<1>3. n \in A
  BY <1>1, <1>2, EveryNumber
<1> QED
  BY <1>3 DEF A

LEMMA RecursionIsUnique ==
  ASSUME NEW a, NEW G, NEW n \in Nat, NEW k \in n .. n + 1, NEW g, NEW h,
         RecursionTo(n, g, a, G), RecursionTo(k, h, a, G)
  PROVE  g[n] = h[n]
<1> DEFINE A == {m \in Nat : m <= n => g[m] = h[m]}
<1>1. 0 \in A
  BY DEF RecursionTo
<1>2. ASSUME NEW m \in Nat, m \in A PROVE m + 1 \in A
  <2> SUFFICES ASSUME m + 1 <= n PROVE g[m + 1] = h[m + 1]
    OBVIOUS
  <2>1. m + 1 \in 1 .. n /\ m + 1 \in 1 .. k /\ m + 1 - 1 = m /\ m <= n
    OBVIOUS
  <2>2. g[m] = h[m]
    BY <1>2, <2>1
  <2>3. g[m + 1] = G[m + 1][g[m]] /\ h[m + 1] = G[m + 1][h[m]]
    BY <2>1 DEF RecursionTo
  <2> QED
    BY <2>2, <2>3
<1> HIDE DEF A
<1>3. n \in A
  BY <1>1, <1>2, EveryNumber
<1> QED
  BY <1>3 DEF A

Recursive(f, a, G) == f = [n \in Nat |-> IF n = 0 THEN a ELSE G[n][f[n - 1]]]

LEMMA RecursionExists ==
  ASSUME NEW S, NEW a \in S, NEW G \in [Nat -> [S -> S]]
  PROVE  \E f \in [Nat -> S] : Recursive(f, a, G)
<1> DEFINE F(n) == CHOOSE g \in [0 .. n -> S] : RecursionTo(n, g, a, G)
           f == [n \in Nat |-> F(n)[n]]
<1>1. ASSUME NEW n \in Nat
      PROVE  F(n) \in [0 .. n -> S] /\ RecursionTo(n, F(n), a, G)
  BY RecursionReaches
<1> HIDE DEF F
<1>2. f \in [Nat -> S]
  <2>1. ASSUME NEW n \in Nat PROVE F(n)[n] \in S
    <3>1. n \in 0 .. n
      OBVIOUS
    <3> QED
      BY <1>1, <3>1
  <2> QED
    BY <2>1
<1>3. f[0] = a
  BY <1>1 DEF RecursionTo
<1>4. ASSUME NEW n \in Nat, n # 0 PROVE f[n] = G[n][f[n - 1]]
  <2>1. n - 1 \in Nat /\ n \in (n - 1) .. (n - 1 + 1) /\ n \in 1 .. n
    BY <1>4
  <2>2. F(n)[n] = G[n][F(n)[n - 1]]
    BY <1>1, <2>1 DEF RecursionTo
  <2>3. F(n - 1)[n - 1] = F(n)[n - 1]
    BY <1>1, <2>1, RecursionIsUnique
  <2> QED
    BY <2>1, <2>2, <2>3
<1> HIDE DEF f
<1>5. \A n \in Nat : f[n] = IF n = 0 THEN a ELSE G[n][f[n - 1]]
  BY <1>3, <1>4
<1>6. f = [n \in Nat |-> IF n = 0 THEN a ELSE G[n][f[n - 1]]]
  BY <1>2, <1>5
<1> QED
  BY <1>2, <1>6 DEF Recursive

-----------------------------------------------------------------------------
(* The arithmetic of C on numbers gives a number, or nothing. *)

LEMMA DivType ==
  ASSUME NEW a \in Int, NEW b \in Int, b # 0
  PROVE  Div(a, b) \in Int
<1>1. Abs(a) \in Int /\ Abs(b) \in Int /\ Abs(b) > 0
  BY DEF Abs
<1>2. Abs(a) \div Abs(b) \in Int
  BY <1>1
<1>3. Sign(a) \in Int /\ Sign(b) \in Int
  BY DEF Sign
<1>4. \A i, j, k \in Int : i * j * k \in Int
  OBVIOUS
<1> QED
  BY <1>2, <1>3, <1>4 DEF Div

LEMMA ApplyType ==
  ASSUME NEW op, NEW a \in Int, NEW b \in Int
  PROVE  Apply(op, a, b) = {} \/ \E n \in Int : Apply(op, a, b) = {n}
<1>1. /\ a + b \in Int /\ a - b \in Int /\ a * b \in Int
      /\ \A t \in BOOLEAN : Truth(t) \in Int
  BY DEF Truth
<1>2. CASE op = "/"
  <2>1. CASE b = 0
    BY <1>2, <2>1 DEF Apply
  <2>2. CASE b # 0
    <3>1. Div(a, b) \in Int
      BY <2>2, DivType
    <3>2. Apply(op, a, b) = {Div(a, b)}
      BY <1>2, <2>2 DEF Apply
    <3> QED
      BY <3>1, <3>2
  <2> QED
    BY <2>1, <2>2
<1>3. CASE op = "%"
  <2>1. CASE b = 0
    BY <1>3, <2>1 DEF Apply
  <2>2. CASE b # 0
    <3>1. Div(a, b) \in Int
      BY <2>2, DivType
    <3>2. \A d \in Int : a - b * d \in Int
      OBVIOUS
    <3>3. Apply(op, a, b) = {a - b * Div(a, b)}
      BY <1>3, <2>2 DEF Apply
    <3> QED
      BY <3>1, <3>2, <3>3
  <2> QED
    BY <2>1, <2>2
<1>4. CASE op \in {"+", "-", "*"}
  BY <1>1, <1>4 DEF Apply
<1>5. CASE op \in {"==", "!=", "<", "<=", ">", ">=", "&&", "||"}
  BY <1>5 DEF Apply, Truth
<1>6. CASE op \notin {"/", "%", "+", "-", "*", "==", "!=", "<", "<=", ">", ">=", "&&", "||"}
  BY <1>6 DEF Apply
<1> QED
  BY <1>2, <1>3, <1>4, <1>5, <1>6

LEMMA NegatedType ==
  ASSUME NEW op, NEW a \in Int
  PROVE  Negated(op, a) \in Int
  BY DEF Negated, Truth

LEMMA CombinedType ==
  ASSUME NEW op, NEW l \in SUBSET Int, NEW r \in SUBSET Int
  PROVE  Combined(op, l, r) \in SUBSET Int
<1> SUFFICES ASSUME NEW n \in Combined(op, l, r) PROVE n \in Int
  OBVIOUS
<1>1. PICK a \in l : n \in IF Decides(op, a) THEN {Truth(op = "||")}
                         ELSE UNION {Apply(op, a, b) : b \in r}
  BY DEF Combined
<1>2. CASE Decides(op, a)
  BY <1>1, <1>2 DEF Truth
<1>3. CASE ~Decides(op, a)
  <2>1. PICK b \in r : n \in Apply(op, a, b)
    BY <1>1, <1>3
  <2>2. a \in Int /\ b \in Int
    OBVIOUS
  <2> QED
    BY <2>1, <2>2, ApplyType
<1> QED
  BY <1>2, <1>3

(* On one number each, && and || that look at the left side alone and      *)
(* those that look at both are worth the same.                             *)
LEMMA CombinedOfOne ==
  ASSUME NEW op, NEW a \in Int, NEW b \in Int
  PROVE  Combined(op, {a}, {b}) = Apply(op, a, b)
<1>1. Combined(op, {a}, {b}) = IF Decides(op, a) THEN {Truth(op = "||")} ELSE Apply(op, a, b)
  <2>1. UNION {Apply(op, a, y) : y \in {b}} = Apply(op, a, b)
    OBVIOUS
  <2>2. Combined(op, {a}, {b})
          = IF Decides(op, a) THEN {Truth(op = "||")}
            ELSE UNION {Apply(op, a, y) : y \in {b}}
    BY DEF Combined
  <2> QED
    BY <2>1, <2>2
<1>2. CASE op = "&&" /\ a = 0
  <2>1. Apply(op, a, b) = {0} /\ Truth(op = "||") = 0
    BY <1>2 DEF Apply, Truth
  <2> QED
    BY <1>1, <1>2, <2>1 DEF Decides
<1>3. CASE op = "||" /\ a # 0
  <2>1. Apply(op, a, b) = {1} /\ Truth(op = "||") = 1
    BY <1>3 DEF Apply, Truth
  <2> QED
    BY <1>1, <1>3, <2>1 DEF Decides
<1>4. CASE ~Decides(op, a)
  BY <1>1, <1>4
<1> QED
  BY <1>2, <1>3, <1>4 DEF Decides

-----------------------------------------------------------------------------
(* What the parser's operations return. *)

LEMMA CTextsType ==
  /\ \A dec, c \in Int : Digits(dec, c) \in CTexts
  /\ \A w \in SUBSET Int : NoDigits(w) \in CTexts
  /\ \A n \in Int : Printed(n) \in CTexts
  /\ Variable \in CTexts
  /\ \A e \in CTexts : Paren(e) \in CTexts
  /\ \A op : \A e \in CTexts : Unary(op, e) \in CTexts
  /\ \A op : \A l, r \in CTexts : Binary(op, l, r) \in CTexts
<1>1. \A dec, c \in Int : Digits(dec, c) \in CTexts
  BY DEF Digits, CTexts
<1>2. \A w \in SUBSET Int : NoDigits(w) \in CTexts
  BY DEF NoDigits, CTexts
<1>3. \A n \in Int : Printed(n) \in CTexts
  BY <1>1, <1>2 DEF Printed
<1>4. Variable \in CTexts
  BY <1>2, NumbersAssumption DEF Variable
<1>5. \A e \in CTexts : Paren(e) \in CTexts
  BY <1>2 DEF Paren, CTexts
<1>6. ASSUME NEW e \in CTexts, NEW op PROVE Unary(op, e) \in CTexts
  <2>1. e.worth \in SUBSET Int
    BY DEF CTexts
  <2>2. {Negated(op, a) : a \in e.worth} \in SUBSET Int
    BY <2>1, NegatedType
  <2> QED
    BY <1>2, <2>2 DEF Unary
<1>7. ASSUME NEW l \in CTexts, NEW r \in CTexts, NEW op PROVE Binary(op, l, r) \in CTexts
  <2>1. l.worth \in SUBSET Int /\ r.worth \in SUBSET Int
    BY DEF CTexts
  <2> QED
    BY <1>2, <2>1, CombinedType DEF Binary
<1> QED
  BY <1>1, <1>2, <1>3, <1>4, <1>5, <1>6, <1>7

LEMMA ResultsType ==
  /\ \A t \in CTexts, at \in Nat : Parsed(t, at) \in Results
  /\ \A at \in Nat : Failed("syntax", at) \in Results /\ Failed("range", at) \in Results
<1>1. \A t \in CTexts, at \in Nat : Parsed(t, at) \in Results
  BY DEF Parsed, Results
<1>2. \A at \in Nat : Failed("syntax", at) \in Results /\ Failed("range", at) \in Results
  BY CTextsType DEF Failed, Results
<1> QED
  BY <1>1, <1>2

LEMMA CombineType ==
  ASSUME NEW left \in Results, NEW right \in Results, NEW op
  PROVE  Combine(left, op, right) \in Results
<1> DEFINE l == left.text
           r == right.text
           folded == Apply(op, l.dec, r.dec)
           n == CHOOSE m \in folded : TRUE
<1>1. l \in CTexts /\ r \in CTexts /\ right.at \in Nat
  BY DEF Results
<1>2. l.dec \in Int /\ r.dec \in Int
  BY <1>1 DEF CTexts
<1>3. folded # {} => n \in Int
  <2>1. folded # {} => n \in folded
    OBVIOUS
  <2> QED
    BY <1>2, <2>1, ApplyType
<1>4. folded # {} => Printed(n) \in CTexts
  BY <1>3, CTextsType
<1>5. Binary(op, l, r) \in CTexts
  BY <1>1, CTextsType
<1>6. Combine(left, op, right)
        = IF l.digits /\ r.digits /\ (l.dec > MaxLong \/ r.dec > MaxLong)
          THEN Failed("range", right.at)
          ELSE Parsed(IF l.digits /\ r.digits /\ folded # {}
                      THEN Printed(n) ELSE Binary(op, l, r), right.at)
  BY DEF Combine, FoldedText, try_fold
<1> HIDE DEF l, r, folded, n
<1>7. CASE l.digits /\ r.digits /\ (l.dec > MaxLong \/ r.dec > MaxLong)
  BY <1>1, <1>6, <1>7, ResultsType
<1>8. CASE ~(l.digits /\ r.digits /\ (l.dec > MaxLong \/ r.dec > MaxLong))
  BY <1>1, <1>4, <1>5, <1>6, <1>8, ResultsType
<1> QED
  BY <1>7, <1>8

(* What the calls one level below can return. *)
LevelSet == [unary : [Nat -> Results], climb : [Results -> [Nat -> Results]]]

LEMMA PrecedenceType ==
  \A op : binary_precedence(op) \in 0 .. 6
  BY DEF binary_precedence

LEMMA ParseBinaryType ==
  ASSUME NEW below \in LevelSet, NEW i \in Nat, NEW p \in Nat
  PROVE  parse_binary(below, i, p) \in Results
<1>1. below.unary[i] \in Results /\ below.climb \in [Results -> [Nat -> Results]]
  BY DEF LevelSet
<1> QED
  BY <1>1 DEF parse_binary

LEMMA ClimbType ==
  ASSUME NEW below \in LevelSet, NEW s, NEW left \in Results, NEW p \in Nat
  PROVE  Climb(below, s, left, p) \in Results
<1> DEFINE op    == TextAt(s, left.at)
           right == parse_binary(below, left.at + 1, RightBinds(op))
<1>1. left.at + 1 \in Nat /\ RightBinds(op) \in Nat
  BY PrecedenceType DEF Results, RightBinds
<1>2. right \in Results
  BY <1>1, ParseBinaryType
<1> HIDE DEF right
<1>3. below.climb[Combine(left, op, right)][p] \in Results
  <2>1. Combine(left, op, right) \in Results
    BY <1>2, CombineType
  <2>2. below.climb \in [Results -> [Nat -> Results]]
    BY DEF LevelSet
  <2> QED
    BY <2>1, <2>2
<1> QED
  BY <1>2, <1>3 DEF Climb, right

LEMMA UnaryType ==
  ASSUME NEW below \in LevelSet, NEW s \in Seq(BodyTokens), NEW i \in Nat
  PROVE  unary_expr(below, s, i) \in Results
<1> DEFINE text    == TextAt(s, i)
           operand == below.unary[i + 1]
           inner   == parse_binary(below, i + 1, 1)
<1>1. operand \in Results /\ inner \in Results /\ i + 1 \in Nat
  <2>1. i + 1 \in Nat /\ 1 \in Nat
    OBVIOUS
  <2>2. below.unary \in [Nat -> Results]
    BY DEF LevelSet
  <2> QED
    BY <2>1, <2>2, ParseBinaryType
<1>2. CASE text \in {"!", "-"}
  <2>1. unary_expr(below, s, i) = [operand EXCEPT !.text = Unary(text, operand.text)]
    BY <1>2 DEF unary_expr
  <2>2. operand.text \in CTexts
    BY <1>1 DEF Results
  <2>3. Unary(text, operand.text) \in CTexts
    BY <2>2, CTextsType
  <2> HIDE DEF operand, text
  <2> QED
    BY <1>1, <2>1, <2>3 DEF Results
<1>3. CASE text = "("
  <2>1. unary_expr(below, s, i)
          = IF inner.error # "none" THEN inner
            ELSE IF TextAt(s, inner.at) = ")" THEN Parsed(Paren(inner.text), inner.at + 1)
            ELSE Failed("syntax", inner.at)
    BY <1>3 DEF unary_expr
  <2>2. inner.text \in CTexts /\ inner.at \in Nat /\ inner.at + 1 \in Nat
    BY <1>1 DEF Results
  <2>3. Paren(inner.text) \in CTexts
    BY <2>2, CTextsType
  <2> HIDE DEF inner
  <2> QED
    BY <1>1, <2>1, <2>2, <2>3, ResultsType
<1>4. CASE text = "int"
  <2>1. unary_expr(below, s, i) = Parsed(Digits(s[i].dec, s[i].c), i + 1)
    BY <1>4 DEF unary_expr
  <2>2. i \in DOMAIN s
    BY <1>4 DEF TextAt
  <2>3. s[i].dec \in Int /\ s[i].c \in Int
    <3>1. s[i] \in BodyTokens
      BY <2>2
    <3> QED
      BY <3>1 DEF BodyTokens
  <2> QED
    BY <1>1, <2>1, <2>3, CTextsType, ResultsType
<1>5. CASE text = "var"
  <2>1. unary_expr(below, s, i) = Parsed(Variable, i + 1)
    BY <1>5 DEF unary_expr
  <2> QED
    BY <1>1, <2>1, CTextsType, ResultsType
<1>6. CASE text \notin {"!", "-", "(", "int", "var"}
  <2>1. unary_expr(below, s, i) = Failed("syntax", i)
    BY <1>6 DEF unary_expr
  <2> QED
    BY <2>1, ResultsType
<1> QED
  BY <1>2, <1>3, <1>4, <1>5, <1>6

-----------------------------------------------------------------------------
(* The levels of the parser, the nesting of parentheses and the meanings   *)
(* of stretches are what their recursions say.                             *)

LEMMA LevelsAre ==
  ASSUME NEW s \in Seq(BodyTokens)
  PROVE  /\ Levels(s) \in [Nat -> LevelSet]
         /\ Levels(s)[0] = Lowest
         /\ \A n \in Nat : Levels(s)[n + 1] = Higher(s, Levels(s)[n])
<1> DEFINE G == [n \in Nat |-> [below \in LevelSet |-> Higher(s, below)]]
<1>1. Lowest \in LevelSet
  <2>1. \A i \in Nat : Failed("syntax", i) \in Results
    BY ResultsType
  <2>2. \A left \in Results : left.at \in Nat
    BY DEF Results
  <2>3. [i \in Nat |-> Failed("syntax", i)] \in [Nat -> Results]
    BY <2>1
  <2>4. [left \in Results |-> [p \in Nat |-> Failed("syntax", left.at)]]
          \in [Results -> [Nat -> Results]]
    BY <2>1, <2>2
  <2> QED
    BY <2>3, <2>4 DEF Lowest, LevelSet
<1>2. ASSUME NEW below \in LevelSet PROVE Higher(s, below) \in LevelSet
  <2>1. [i \in Nat |-> unary_expr(below, s, i)] \in [Nat -> Results]
    BY UnaryType
  <2>2. [left \in Results |-> [p \in Nat |-> Climb(below, s, left, p)]]
          \in [Results -> [Nat -> Results]]
    BY ClimbType
  <2> QED
    BY <2>1, <2>2 DEF Higher, LevelSet
<1>3. G \in [Nat -> [LevelSet -> LevelSet]]
  BY <1>2
<1>4. PICK f \in [Nat -> LevelSet] : Recursive(f, Lowest, G)
  <2> HIDE DEF G
  <2> QED
    BY <1>1, <1>3, RecursionExists
<1>5. \A n \in Nat : n # 0 => n - 1 \in Nat /\ f[n - 1] \in LevelSet
  OBVIOUS
<1>6. \A n \in Nat : n # 0 => G[n][f[n - 1]] = Higher(s, f[n - 1])
  BY <1>5
<1>7. f = [n \in Nat |-> IF n = 0 THEN Lowest ELSE Higher(s, f[n - 1])]
  <2> HIDE DEF G
  <2> QED
    BY <1>4, <1>6 DEF Recursive
<1> DEFINE level == CHOOSE g : g = [n \in Nat |-> IF n = 0 THEN Lowest ELSE Higher(s, g[n - 1])]
<1>8. Levels(s) = level
  BY DEF Levels
<1>9. level = [n \in Nat |-> IF n = 0 THEN Lowest ELSE Higher(s, level[n - 1])]
  BY <1>7
<1> HIDE DEF level
<1>10. level[0] = Lowest
  BY <1>9
<1>11. ASSUME NEW n \in Nat PROVE level[n + 1] = Higher(s, level[n])
  <2>1. n + 1 \in Nat /\ n + 1 # 0 /\ n + 1 - 1 = n
    OBVIOUS
  <2> QED
    BY <1>9, <2>1
<1>12. level \in [Nat -> LevelSet]
  <2> DEFINE A == {n \in Nat : level[n] \in LevelSet}
  <2>1. 0 \in A
    BY <1>1, <1>10
  <2>2. ASSUME NEW n \in Nat, n \in A PROVE n + 1 \in A
    <3>1. level[n] \in LevelSet
      BY <2>2
    <3>2. level[n + 1] \in LevelSet
      BY <1>2, <1>11, <3>1
    <3> QED
      BY <3>2
  <2>3. Nat \subseteq A
    <3> HIDE DEF A
    <3> QED
      BY <2>1, <2>2, EveryNumber
  <2>4. \E S : level \in [Nat -> S]
    <3>1. level \in [Nat -> {level[n] : n \in Nat}]
      BY <1>9
    <3> QED
      BY <3>1
  <2> QED
    BY <2>3, <2>4
<1> QED
  BY <1>8, <1>10, <1>11, <1>12

(* How token i changes the number of open parentheses. *)
Parens(s, i) == CASE TextAt(s, i) = "(" -> 1 [] TextAt(s, i) = ")" -> -1 [] OTHER -> 0

LEMMA NestingIs ==
  ASSUME NEW s
  PROVE  /\ \A i \in Nat : Nesting(s)[i] \in Int
         /\ \A i \in Nat : i # 0 => Nesting(s)[i] = Nesting(s)[i - 1] + Parens(s, i)
<1> DEFINE G == [n \in Nat |-> [x \in Int |-> x + Parens(s, n)]]
           nested == CHOOSE g : g = [n \in Nat |-> IF n = 0 THEN 0 ELSE g[n - 1] + Parens(s, n)]
<1>1. \A n : Parens(s, n) \in Int
  BY DEF Parens
<1>2. G \in [Nat -> [Int -> Int]]
  BY <1>1
<1>3. PICK f \in [Nat -> Int] : Recursive(f, 0, G)
  <2>1. 0 \in Int
    OBVIOUS
  <2> HIDE DEF G
  <2> QED
    BY <1>2, <2>1, RecursionExists, Zenon
<1>4. \A n \in Nat : n # 0 => n - 1 \in Nat /\ f[n - 1] \in Int
  OBVIOUS
<1>5. \A n \in Nat : n # 0 => G[n][f[n - 1]] = f[n - 1] + Parens(s, n)
  BY <1>4
<1>6. f = [n \in Nat |-> IF n = 0 THEN 0 ELSE f[n - 1] + Parens(s, n)]
  <2> HIDE DEF G
  <2> QED
    BY <1>3, <1>5 DEF Recursive
<1>7. Nesting(s) = nested
  BY DEF Nesting, Parens
<1>8. nested = [n \in Nat |-> IF n = 0 THEN 0 ELSE nested[n - 1] + Parens(s, n)]
  BY <1>6
<1> HIDE DEF nested
<1>9. \A n \in Nat : nested[n] = IF n = 0 THEN 0 ELSE nested[n - 1] + Parens(s, n)
  BY <1>8
<1> DEFINE A == {n \in Nat : nested[n] \in Int}
<1>10. 0 \in A
  BY <1>9
<1>11. ASSUME NEW n \in Nat, n \in A PROVE n + 1 \in A
  <2>1. n + 1 \in Nat /\ n + 1 # 0 /\ n + 1 - 1 = n
    OBVIOUS
  <2>2. nested[n + 1] = nested[n] + Parens(s, n + 1)
    BY <1>9, <2>1
  <2> QED
    BY <1>1, <1>11, <2>1, <2>2
<1>12. Nat \subseteq A
  <2> HIDE DEF A
  <2> QED
    BY <1>10, <1>11, EveryNumber
<1> QED
  BY <1>7, <1>9, <1>12

LEMMA WeakestExists ==
  ASSUME NEW s, NEW n \in Nat, NEW ops, ops \subseteq 0 .. n, ops # {}
  PROVE  /\ Weakest(s, ops) \in ops
         /\ \A j \in ops :
              \/ binary_precedence(TextAt(s, Weakest(s, ops))) < binary_precedence(TextAt(s, j))
              \/ /\ binary_precedence(TextAt(s, Weakest(s, ops))) = binary_precedence(TextAt(s, j))
                 /\ j <= Weakest(s, ops)
<1> DEFINE Prec(i) == binary_precedence(TextAt(s, i))
           P == {Prec(i) : i \in ops}
<1>1. \A i \in ops : Prec(i) \in Nat /\ i \in Nat /\ n - i \in Nat
  BY PrecedenceType
<1>2. P \subseteq Nat /\ P # {}
  BY <1>1
<1>3. PICK p \in P : \A q \in P : p <= q
  <2> HIDE DEF P
  <2> QED
    BY <1>2, LeastExists
<1>4. PICK k \in ops : Prec(k) = p
  BY <1>3
<1> HIDE DEF Prec
<1> DEFINE D == {n - i : i \in {i \in ops : Prec(i) = p}}
<1>5. D \subseteq Nat /\ D # {}
  BY <1>1, <1>4
<1>6. PICK d \in D : \A e \in D : d <= e
  <2> HIDE DEF D
  <2> QED
    BY <1>5, LeastExists
<1>7. PICK i \in ops : Prec(i) = p /\ d = n - i
  BY <1>6
<1>8. ASSUME NEW j \in ops
      PROVE  Prec(i) < Prec(j) \/ (Prec(i) = Prec(j) /\ j <= i)
  <2>1. Prec(i) <= Prec(j) /\ Prec(i) \in Nat /\ Prec(j) \in Nat
    BY <1>1, <1>3, <1>7 DEF P
  <2>2. CASE Prec(i) = Prec(j)
    <3>1. n - j \in D
      BY <1>7, <2>2
    <3>2. n - i <= n - j
      BY <1>6, <1>7, <3>1
    <3> QED
      BY <1>1, <2>2, <3>2
  <2> QED
    BY <2>1, <2>2
<1>9. \E w \in ops : \A j \in ops : Prec(w) < Prec(j) \/ (Prec(w) = Prec(j) /\ j <= w)
  BY <1>8
<1> QED
  BY <1>9 DEF Weakest, Prec

MeaningSet == [Nat -> [Nat -> SUBSET Int]]

LEMMA OperatorsAre ==
  ASSUME NEW s, NEW a \in Nat, NEW b \in Nat
  PROVE  /\ Operators(s, a, b) \subseteq a + 1 .. b
         /\ Operators(s, a, b) \subseteq 0 .. b
         /\ Operators(s, a, b) # {} =>
              Weakest(s, Operators(s, a, b)) \in Operators(s, a, b)
<1>1. Operators(s, a, b) \subseteq a + 1 .. b
  BY DEF Operators
<1>2. Operators(s, a, b) \subseteq 0 .. b
  BY <1>1
<1> QED
  BY <1>1, <1>2, WeakestExists

(* The cases of what a stretch means. *)
LastApplied(s, a, b) == Weakest(s, Operators(s, a, b))

MeansByCases(s, m, a, b) ==
  /\ Operators(s, a, b) # {} =>
       MeaningOf(s, m, a, b)
         = Combined(TextAt(s, LastApplied(s, a, b)),
                    m[a][LastApplied(s, a, b) - 1], m[LastApplied(s, a, b) + 1][b])
  /\ Operators(s, a, b) = {} /\ TextAt(s, a) \in {"!", "-"} =>
       MeaningOf(s, m, a, b) = {Negated(TextAt(s, a), v) : v \in m[a + 1][b]}
  /\ Operators(s, a, b) = {} /\ TextAt(s, a) = "(" /\ a < b =>
       MeaningOf(s, m, a, b) = m[a + 1][b - 1]
  /\ Operators(s, a, b) = {} /\ TextAt(s, a) = "int" => MeaningOf(s, m, a, b) = {s[a].dec}
  /\ Operators(s, a, b) = {} /\ TextAt(s, a) = "var" => MeaningOf(s, m, a, b) = {X}
  /\ \/ Operators(s, a, b) # {}
     \/ TextAt(s, a) \in {"!", "-", "int", "var"}
     \/ TextAt(s, a) = "(" /\ a < b
     \/ MeaningOf(s, m, a, b) = {}

LEMMA MeaningCases ==
  ASSUME NEW s, NEW m, NEW a, NEW b
  PROVE  MeansByCases(s, m, a, b)
<1>1. Operators(s, a, b) # {} =>
        MeaningOf(s, m, a, b)
          = Combined(TextAt(s, LastApplied(s, a, b)),
                     m[a][LastApplied(s, a, b) - 1], m[LastApplied(s, a, b) + 1][b])
  BY DEF MeaningOf, LastApplied
<1>2. Operators(s, a, b) = {} /\ TextAt(s, a) \in {"!", "-"} =>
        MeaningOf(s, m, a, b) = {Negated(TextAt(s, a), v) : v \in m[a + 1][b]}
  BY DEF MeaningOf
<1>3. Operators(s, a, b) = {} /\ TextAt(s, a) = "(" /\ a < b =>
        MeaningOf(s, m, a, b) = m[a + 1][b - 1]
  BY DEF MeaningOf
<1>4. /\ Operators(s, a, b) = {} /\ TextAt(s, a) = "int" =>
           MeaningOf(s, m, a, b) = {s[a].dec}
      /\ Operators(s, a, b) = {} /\ TextAt(s, a) = "var" => MeaningOf(s, m, a, b) = {X}
  BY DEF MeaningOf
<1>5. \/ Operators(s, a, b) # {}
      \/ TextAt(s, a) \in {"!", "-", "int", "var"}
      \/ TextAt(s, a) = "(" /\ a < b
      \/ MeaningOf(s, m, a, b) = {}
  BY DEF MeaningOf
<1> QED
  BY <1>1, <1>2, <1>3, <1>4, <1>5 DEF MeansByCases

LEMMA MeaningOfType ==
  ASSUME NEW s \in Seq(BodyTokens), NEW m \in MeaningSet,
         NEW a \in Nat, NEW b \in Nat, a <= b
  PROVE  MeaningOf(s, m, a, b) \in SUBSET Int
<1> DEFINE ops == Operators(s, a, b)
           w   == LastApplied(s, a, b)
<1>0. MeansByCases(s, m, a, b)
  BY MeaningCases
<1>1. \A c, d \in Nat : m[c][d] \in SUBSET Int
  BY DEF MeaningSet
<1>2. CASE ops # {}
  <2>1. w \in a + 1 .. b
    BY <1>2, OperatorsAre DEF LastApplied
  <2>2. w - 1 \in Nat /\ w + 1 \in Nat
    BY <2>1
  <2>3. MeaningOf(s, m, a, b) = Combined(TextAt(s, w), m[a][w - 1], m[w + 1][b])
    BY <1>2, <1>0 DEF MeansByCases
  <2> HIDE DEF ops, w
  <2>4. m[a][w - 1] \in SUBSET Int /\ m[w + 1][b] \in SUBSET Int
    BY <1>1, <2>2
  <2> QED
    BY <2>3, <2>4, CombinedType
<1>3. CASE ops = {} /\ TextAt(s, a) \in {"!", "-"}
  <2>1. MeaningOf(s, m, a, b) = {Negated(TextAt(s, a), v) : v \in m[a + 1][b]}
    BY <1>3, <1>0 DEF MeansByCases
  <2>2. m[a + 1][b] \in SUBSET Int
    BY <1>1
  <2> QED
    BY <2>1, <2>2, NegatedType
<1>4. CASE ops = {} /\ TextAt(s, a) = "(" /\ a < b
  <2>1. MeaningOf(s, m, a, b) = m[a + 1][b - 1]
    BY <1>4, <1>0 DEF MeansByCases
  <2>2. a + 1 \in Nat /\ b - 1 \in Nat
    BY <1>4
  <2> QED
    BY <1>1, <2>1, <2>2
<1>5. CASE ops = {} /\ TextAt(s, a) = "int"
  <2>1. MeaningOf(s, m, a, b) = {s[a].dec}
    BY <1>5, <1>0 DEF MeansByCases
  <2>2. a \in DOMAIN s
    BY <1>5 DEF TextAt
  <2>3. s[a] \in BodyTokens
    BY <2>2
  <2> QED
    BY <2>1, <2>3 DEF BodyTokens
<1>6. CASE ops = {} /\ TextAt(s, a) = "var"
  BY <1>6, <1>0, NumbersAssumption DEF MeansByCases
<1>7. CASE MeaningOf(s, m, a, b) = {}
  BY <1>7
<1>8. \/ ops # {} \/ TextAt(s, a) \in {"!", "-", "int", "var"}
      \/ TextAt(s, a) = "(" /\ a < b
      \/ MeaningOf(s, m, a, b) = {}
  BY <1>0 DEF MeansByCases
<1> QED
  BY <1>2, <1>3, <1>4, <1>5, <1>6, <1>7, <1>8

LEMMA MeaningsAre ==
  ASSUME NEW s \in Seq(BodyTokens)
  PROVE  /\ \A n \in Nat : Meanings(s)[n] \in MeaningSet
         /\ \A a, b \in Nat : Meanings(s)[0][a][b] = {}
         /\ \A n, a, b \in Nat :
              Meanings(s)[n + 1][a][b]
                = IF a > b THEN {} ELSE MeaningOf(s, Meanings(s)[n], a, b)
<1> DEFINE Zero0 == [a \in Nat |-> [b \in Nat |-> {}]]
           Up(m) == [a \in Nat |-> [b \in Nat |-> IF a > b THEN {} ELSE MeaningOf(s, m, a, b)]]
           G == [n \in Nat |-> [m \in MeaningSet |-> Up(m)]]
           upTo == CHOOSE g : g = [n \in Nat |-> IF n = 0 THEN Zero0 ELSE Up(g[n - 1])]
<1>1. Zero0 \in MeaningSet
  BY DEF MeaningSet
<1>2. ASSUME NEW m \in MeaningSet PROVE Up(m) \in MeaningSet
  <2>1. \A a, b \in Nat : (IF a > b THEN {} ELSE MeaningOf(s, m, a, b)) \in SUBSET Int
    BY MeaningOfType
  <2> QED
    BY <2>1 DEF MeaningSet
<1>3. Meanings(s) = upTo
  BY DEF Meanings
<1>4. \A a, b \in Nat : Zero0[a][b] = {}
  OBVIOUS
<1>5. \A m : \A a, b \in Nat : Up(m)[a][b] = IF a > b THEN {} ELSE MeaningOf(s, m, a, b)
  OBVIOUS
<1> HIDE DEF Zero0, Up
<1>6. G \in [Nat -> [MeaningSet -> MeaningSet]]
  BY <1>2
<1>7. PICK f \in [Nat -> MeaningSet] : Recursive(f, Zero0, G)
  <2> HIDE DEF G
  <2> QED
    BY <1>1, <1>6, RecursionExists, Zenon
<1>8. \A n \in Nat : n # 0 => n - 1 \in Nat /\ f[n - 1] \in MeaningSet
  OBVIOUS
<1>9. \A n \in Nat : n # 0 => G[n][f[n - 1]] = Up(f[n - 1])
  BY <1>8
<1>10. f = [n \in Nat |-> IF n = 0 THEN Zero0 ELSE Up(f[n - 1])]
  <2> HIDE DEF G
  <2> QED
    BY <1>7, <1>9 DEF Recursive
<1>11. upTo = [n \in Nat |-> IF n = 0 THEN Zero0 ELSE Up(upTo[n - 1])]
  BY <1>10
<1> HIDE DEF upTo
<1>12. upTo[0] = Zero0
  BY <1>11
<1>13. ASSUME NEW n \in Nat PROVE upTo[n + 1] = Up(upTo[n])
  <2>1. n + 1 \in Nat /\ n + 1 # 0 /\ n + 1 - 1 = n
    OBVIOUS
  <2> QED
    BY <1>11, <2>1
<1>14. \A n \in Nat : upTo[n] \in MeaningSet
  <2> DEFINE A == {n \in Nat : upTo[n] \in MeaningSet}
  <2>1. 0 \in A
    BY <1>1, <1>12
  <2>2. ASSUME NEW n \in Nat, n \in A PROVE n + 1 \in A
    <3>1. upTo[n] \in MeaningSet
      BY <2>2
    <3>2. upTo[n + 1] \in MeaningSet
      BY <1>2, <1>13, <3>1
    <3> QED
      BY <3>2
  <2>3. Nat \subseteq A
    <3> HIDE DEF A
    <3> QED
      BY <2>1, <2>2, EveryNumber
  <2> QED
    BY <2>3
<1>15. \A a, b \in Nat : upTo[0][a][b] = {}
  BY <1>4, <1>12
<1>16. \A n, a, b \in Nat :
         upTo[n + 1][a][b] = IF a > b THEN {} ELSE MeaningOf(s, upTo[n], a, b)
  BY <1>5, <1>13
<1> QED
  BY <1>3, <1>14, <1>15, <1>16

(* What a stretch means follows from what shorter ones mean. *)
LEMMA ShorterDecide ==
  ASSUME NEW s, NEW m, NEW k, NEW a \in Nat, NEW b \in Nat, a <= b,
         \A c, d \in Nat : d - c < b - a => m[c][d] = k[c][d]
  PROVE  MeaningOf(s, m, a, b) = MeaningOf(s, k, a, b)
<1> DEFINE ops == Operators(s, a, b)
           w   == LastApplied(s, a, b)
<1>0. MeansByCases(s, m, a, b) /\ MeansByCases(s, k, a, b)
  BY MeaningCases
<1>1. CASE ops # {}
  <2>1. w \in a + 1 .. b
    BY <1>1, OperatorsAre DEF LastApplied
  <2>2. /\ w - 1 \in Nat /\ w + 1 \in Nat
        /\ w - 1 - a < b - a /\ b - (w + 1) < b - a
    BY <2>1
  <2>3. /\ MeaningOf(s, m, a, b) = Combined(TextAt(s, w), m[a][w - 1], m[w + 1][b])
        /\ MeaningOf(s, k, a, b) = Combined(TextAt(s, w), k[a][w - 1], k[w + 1][b])
    BY <1>1, <1>0 DEF MeansByCases
  <2> HIDE DEF ops, w
  <2>4. m[a][w - 1] = k[a][w - 1] /\ m[w + 1][b] = k[w + 1][b]
    BY <2>2
  <2> QED
    BY <2>3, <2>4
<1>2. CASE ops = {} /\ TextAt(s, a) \in {"!", "-"}
  <2>1. a + 1 \in Nat /\ b - (a + 1) < b - a
    OBVIOUS
  <2>2. m[a + 1][b] = k[a + 1][b]
    BY <2>1
  <2>3. /\ MeaningOf(s, m, a, b) = {Negated(TextAt(s, a), v) : v \in m[a + 1][b]}
        /\ MeaningOf(s, k, a, b) = {Negated(TextAt(s, a), v) : v \in k[a + 1][b]}
    BY <1>2, <1>0 DEF MeansByCases
  <2> QED
    BY <2>2, <2>3
<1>3. CASE ops = {} /\ TextAt(s, a) = "(" /\ a < b
  <2>1. a + 1 \in Nat /\ b - 1 \in Nat /\ b - 1 - (a + 1) < b - a
    BY <1>3
  <2>2. m[a + 1][b - 1] = k[a + 1][b - 1]
    BY <2>1
  <2>3. MeaningOf(s, m, a, b) = m[a + 1][b - 1] /\ MeaningOf(s, k, a, b) = k[a + 1][b - 1]
    BY <1>3, <1>0 DEF MeansByCases
  <2> QED
    BY <2>2, <2>3
<1>4. CASE ops = {} /\ TextAt(s, a) \in {"int", "var"}
  BY <1>4, <1>0 DEF MeansByCases
<1>5. CASE /\ ops = {} /\ TextAt(s, a) \notin {"!", "-", "int", "var"}
           /\ ~(TextAt(s, a) = "(" /\ a < b)
  BY <1>5, <1>0 DEF MeansByCases
<1> QED
  BY <1>1, <1>2, <1>3, <1>4, <1>5

(* What tokens a .. b of s mean. *)
Worth(s) == Meanings(s)[Len(s)]

LEMMA LevelsAgree ==
  ASSUME NEW s \in Seq(BodyTokens), NEW n \in Nat
  PROVE  \A c, d \in Nat : d - c < n => Meanings(s)[n + 1][c][d] = Meanings(s)[n][c][d]
<1> DEFINE M == Meanings(s)
           A == {k \in Nat : \A c, d \in Nat : d - c < k => M[k + 1][c][d] = M[k][c][d]}
<1>1. \A k, c, d \in Nat :
         M[k + 1][c][d] = IF c > d THEN {} ELSE MeaningOf(s, M[k], c, d)
  BY MeaningsAre
<1>0. \A c, d \in Nat : M[0][c][d] = {}
  BY MeaningsAre
<1> HIDE DEF M
<1>2. 0 \in A
  <2>1. ASSUME NEW c \in Nat, NEW d \in Nat, d - c < 0 PROVE M[0 + 1][c][d] = M[0][c][d]
    <3>1. c > d
      BY <2>1
    <3> QED
      BY <1>0, <1>1, <3>1
  <2> QED
    BY <2>1
<1>3. ASSUME NEW k \in Nat, k \in A PROVE k + 1 \in A
  <2>1. ASSUME NEW c \in Nat, NEW d \in Nat, d - c < k + 1
        PROVE  M[k + 1 + 1][c][d] = M[k + 1][c][d]
    <3>1. k + 1 \in Nat
      OBVIOUS
    <3>2. CASE c > d
      BY <1>1, <3>1, <3>2
    <3>3. CASE ~(c > d)
      <4>1. M[k + 1 + 1][c][d] = MeaningOf(s, M[k + 1], c, d)
        BY <1>1, <3>1, <3>3
      <4>2. M[k + 1][c][d] = MeaningOf(s, M[k], c, d)
        BY <1>1, <3>3
      <4>3. c <= d
        BY <3>3
      <4>4. \A e, f \in Nat : f - e < d - c => f - e < k
        BY <2>1
      <4>5. \A e, f \in Nat : f - e < d - c => M[k + 1][e][f] = M[k][e][f]
        BY <1>3, <4>4
      <4>6. MeaningOf(s, M[k + 1], c, d) = MeaningOf(s, M[k], c, d)
        BY <4>3, <4>5, ShorterDecide
      <4> QED
        BY <4>1, <4>2, <4>6
    <3> QED
      BY <3>2, <3>3
  <2>2. k + 1 \in Nat
    OBVIOUS
  <2> QED
    BY <2>1, <2>2
<1>4. n \in A
  <2> HIDE DEF A
  <2> QED
    BY <1>2, <1>3, EveryNumber
<1> QED
  BY <1>4 DEF M

LEMMA WorthIs ==
  ASSUME NEW s \in Seq(BodyTokens), NEW a \in Nat, NEW b \in Nat,
         1 <= a, a <= b, b <= Len(s)
  PROVE  Worth(s)[a][b] = MeaningOf(s, Worth(s), a, b)
<1> DEFINE n == Len(s) - 1
<1>1. n \in Nat /\ n + 1 = Len(s)
  OBVIOUS
<1>2. Worth(s) = Meanings(s)[n + 1]
  BY <1>1 DEF Worth
<1>3. Worth(s)[a][b] = MeaningOf(s, Meanings(s)[n], a, b)
  <2>1. ~(a > b)
    OBVIOUS
  <2> HIDE DEF n
  <2> QED
    BY <1>1, <1>2, <2>1, MeaningsAre
<1>4. \A c, d \in Nat : d - c < b - a => d - c < n
  OBVIOUS
<1> HIDE DEF n
<1>5. \A c, d \in Nat : d - c < b - a => Meanings(s)[n + 1][c][d] = Meanings(s)[n][c][d]
  <2>1. \A c, d \in Nat : d - c < n => Meanings(s)[n + 1][c][d] = Meanings(s)[n][c][d]
    BY <1>1, LevelsAgree, Zenon
  <2> QED
    BY <1>4, <2>1
<1>6. MeaningOf(s, Meanings(s)[n + 1], a, b) = MeaningOf(s, Meanings(s)[n], a, b)
  BY <1>5, ShorterDecide
<1> QED
  BY <1>2, <1>3, <1>6

-----------------------------------------------------------------------------
(* What the parser emits is worth what the tokens mean that it has read.   *)

Prec(s, i) == binary_precedence(TextAt(s, i))

(* Tokens a .. b are an expression as far as parentheses go. *)
Whole(s, a, b) ==
  /\ 1 <= a /\ a <= b /\ b <= Len(s)
  /\ Nesting(s)[b] = Nesting(s)[a - 1]
  /\ \A k \in a .. b : Nesting(s)[k] >= Nesting(s)[a - 1]
  /\ TextAt(s, b) \in OperandEnds

(* r stands for the tokens from a up to r.at - 1. *)
IsWorth(s, a, r) ==
  /\ Whole(s, a, r.at - 1)
  /\ r.text.worth = Worth(s)[a][r.at - 1]
  /\ r.text.digits => r.text.worth = {r.text.dec}

NoOperators(s, a, r) == Operators(s, a, r.at - 1) = {}

UnaryGood(s, unary) ==
  \A i \in Nat \ {0} :
    unary[i].error = "none" => IsWorth(s, i, unary[i]) /\ NoOperators(s, i, unary[i])

(* A left side in the loop of parse_binary: its operators bind as tightly  *)
(* as min_prec asks for and as the one that comes next.                    *)
LeftGood(s, i, left, p) ==
  /\ IsWorth(s, i, left)
  /\ \A o \in Operators(s, i, left.at - 1) : Prec(s, o) >= p /\ Prec(s, o) >= Prec(s, left.at)

(* What the loop returns: the next operator binds less than min_prec. *)
ReadTo(s, i, r, p) ==
  /\ IsWorth(s, i, r)
  /\ \A o \in Operators(s, i, r.at - 1) : Prec(s, o) >= p
  /\ Prec(s, r.at) = 0 \/ Prec(s, r.at) < p

ClimbGood(s, climb) ==
  \A i \in Nat \ {0}, left \in Results, p \in Nat \ {0} :
    LeftGood(s, i, left, p) /\ climb[left][p].error = "none" => ReadTo(s, i, climb[left][p], p)

ErrorsStay(climb) ==
  \A left \in Results, p \in Nat : climb[left][p].error = "none" => left.error = "none"

LevelGood(s, below) ==
  /\ UnaryGood(s, below.unary)
  /\ ClimbGood(s, below.climb)
  /\ ErrorsStay(below.climb)

LEMMA BinaryGood ==
  ASSUME NEW s, NEW below \in LevelSet, LevelGood(s, below),
         NEW i \in Nat \ {0}, NEW p \in Nat \ {0},
         parse_binary(below, i, p).error = "none"
  PROVE  ReadTo(s, i, parse_binary(below, i, p), p)
<1> DEFINE left == below.unary[i]
           r == below.climb[left][p]
<1>1. left \in Results
  BY DEF LevelSet
<1>2. parse_binary(below, i, p) = r
  BY DEF parse_binary
<1> HIDE DEF left
<1>3. left.error = "none"
  BY <1>1, <1>2 DEF LevelGood, ErrorsStay
<1>4. IsWorth(s, i, left) /\ NoOperators(s, i, left)
  BY <1>3 DEF LevelGood, UnaryGood, left
<1>5. LeftGood(s, i, left, p)
  BY <1>4 DEF LeftGood, NoOperators
<1> HIDE DEF r
<1> QED
  BY <1>1, <1>2, <1>5 DEF LevelGood, ClimbGood, r

LEMMA PrecedenceIs ==
  ASSUME NEW op
  PROVE  /\ binary_precedence(op) > 0 => op \notin {"(", ")", "int", "var", "!", ";"}
         /\ op \in {"(", ")", "int", "var", "!", ";"} => binary_precedence(op) = 0
<1>1. op \in {"(", ")", "int", "var", "!", ";"} => binary_precedence(op) = 0
  BY DEF binary_precedence
<1>2. binary_precedence(op) > 0 => binary_precedence(op) # 0
  BY PrecedenceType
<1> QED
  BY <1>1, <1>2

LEMMA Nests ==
  ASSUME NEW s, NEW i \in Nat, i # 0
  PROVE  /\ Nesting(s)[i] \in Int /\ Nesting(s)[i - 1] \in Int
         /\ TextAt(s, i) = "(" => Nesting(s)[i] = Nesting(s)[i - 1] + 1
         /\ TextAt(s, i) = ")" => Nesting(s)[i] = Nesting(s)[i - 1] - 1
         /\ TextAt(s, i) \notin {"(", ")"} => Nesting(s)[i] = Nesting(s)[i - 1]
<1>1. i - 1 \in Nat
  OBVIOUS
<1>2. Nesting(s)[i] \in Int /\ Nesting(s)[i - 1] \in Int
  BY <1>1, NestingIs
<1>3. Nesting(s)[i] = Nesting(s)[i - 1] + Parens(s, i)
  BY NestingIs
<1>4. /\ TextAt(s, i) = "(" => Parens(s, i) = 1
      /\ TextAt(s, i) = ")" => Parens(s, i) = -1
      /\ TextAt(s, i) \notin {"(", ")"} => Parens(s, i) = 0
  BY DEF Parens
<1> QED
  BY <1>2, <1>3, <1>4

(* An operator between two expressions. *)
Joined(s, a, j, b) ==
  /\ Whole(s, a, b)
  /\ Operators(s, a, b) = Operators(s, a, j - 1) \cup {j} \cup Operators(s, j + 1, b)

LEMMA OperatorJoins ==
  ASSUME NEW s, NEW a \in Nat, NEW j \in Nat, NEW b \in Nat,
         Whole(s, a, j - 1), Prec(s, j) > 0, Whole(s, j + 1, b)
  PROVE  Joined(s, a, j, b)
<1> DEFINE N == Nesting(s)
<1>1. /\ 1 <= a /\ a <= j - 1 /\ j + 1 <= b /\ b <= Len(s)
      /\ N[j - 1] = N[a - 1] /\ N[b] = N[j]
      /\ \A k \in a .. j - 1 : N[k] >= N[a - 1]
      /\ \A k \in j + 1 .. b : N[k] >= N[j]
      /\ TextAt(s, j - 1) \in OperandEnds /\ TextAt(s, b) \in OperandEnds
  <2>1. j + 1 - 1 = j
    OBVIOUS
  <2> QED
    BY <2>1 DEF Whole
<1>2. N[j] = N[j - 1]
  <2>1. TextAt(s, j) \notin {"(", ")"}
    BY PrecedenceIs DEF Prec
  <2>2. j # 0
    BY <1>1
  <2> QED
    BY <2>1, <2>2, Nests
<1>3. \A k \in Nat : N[k] \in Int
  BY NestingIs
<1>4. TextAt(s, j) \notin OperandEnds
  BY PrecedenceIs DEF Prec, OperandEnds
<1> HIDE DEF N
<1>5. Whole(s, a, b)
  <2>1. N[b] = N[a - 1] /\ a - 1 \in Nat
    BY <1>1, <1>2
  <2>2. \A k \in a .. b : k \in a .. j - 1 \/ k = j \/ k \in j + 1 .. b
    BY <1>1
  <2>3. \A k \in a .. b : N[k] >= N[a - 1]
    BY <1>1, <1>2, <1>3, <2>1, <2>2
  <2> QED
    BY <1>1, <2>1, <2>3 DEF Whole, N
<1>6. ASSUME NEW i \in Nat
      PROVE  i \in Operators(s, a, b)
               <=> i \in Operators(s, a, j - 1) \/ i = j \/ i \in Operators(s, j + 1, b)
  <2> DEFINE Is(base) == /\ Prec(s, i) > 0 /\ N[i] = base
                         /\ TextAt(s, i - 1) \in OperandEnds
  <2>1. /\ i \in Operators(s, a, b) <=> i \in a + 1 .. b /\ Is(N[a - 1])
        /\ i \in Operators(s, a, j - 1) <=> i \in a + 1 .. j - 1 /\ Is(N[a - 1])
        /\ i \in Operators(s, j + 1, b) <=> i \in j + 2 .. b /\ Is(N[j])
    <3>1. j + 1 - 1 = j /\ j + 1 + 1 = j + 2
      OBVIOUS
    <3> QED
      BY <3>1 DEF Operators, N, Prec
  <2>2. N[j] = N[a - 1]
    BY <1>1, <1>2
  <2>3. i = j => Is(N[a - 1])
    BY <1>1, <2>2
  <2>4. i = j + 1 => ~Is(N[a - 1])
    BY <1>4
  <2>5. i \in a + 1 .. b <=> i \in a + 1 .. j - 1 \/ i = j \/ i = j + 1 \/ i \in j + 2 .. b
    BY <1>1
  <2> HIDE DEF Is
  <2> QED
    BY <2>1, <2>2, <2>3, <2>4, <2>5
<1>7. /\ \A i \in Operators(s, a, b) : i \in Nat
      /\ \A i \in Operators(s, a, j - 1) : i \in Nat
      /\ \A i \in Operators(s, j + 1, b) : i \in Nat
  BY <1>1 DEF Operators
<1>8. Operators(s, a, b) = Operators(s, a, j - 1) \cup {j} \cup Operators(s, j + 1, b)
  BY <1>6, <1>7
<1> QED
  BY <1>5, <1>8 DEF Joined

(* The text of an operation is worth what the operation is on the worth of *)
(* its operands, folded or not.                                            *)
LEMMA CombineWorth ==
  ASSUME NEW left \in Results, NEW right \in Results, NEW op,
         left.text.digits => left.text.worth = {left.text.dec},
         right.text.digits => right.text.worth = {right.text.dec},
         Combine(left, op, right).error = "none"
  PROVE  LET r == Combine(left, op, right)
         IN  /\ r.at = right.at
             /\ r.text.worth = Combined(op, left.text.worth, right.text.worth)
             /\ r.text.digits => r.text.worth = {r.text.dec}
<1> DEFINE l == left.text
           q == right.text
           folded == Apply(op, l.dec, q.dec)
           n == CHOOSE m \in folded : TRUE
           r == Combine(left, op, right)
<1>1. l \in CTexts /\ q \in CTexts
  BY DEF Results
<1>2. l.dec \in Int /\ q.dec \in Int
  BY <1>1 DEF CTexts
<1>3. r = IF l.digits /\ q.digits /\ (l.dec > MaxLong \/ q.dec > MaxLong)
          THEN Failed("range", right.at)
          ELSE Parsed(IF l.digits /\ q.digits /\ folded # {}
                      THEN Printed(n) ELSE Binary(op, l, q), right.at)
  BY DEF Combine, FoldedText, try_fold
<1>4. r = Parsed(IF l.digits /\ q.digits /\ folded # {}
                 THEN Printed(n) ELSE Binary(op, l, q), right.at)
  <2>1. Failed("range", right.at).error # "none"
    BY DEF Failed
  <2>2. r.error = "none"
    OBVIOUS
  <2> HIDE DEF r, l, q, folded, n
  <2> QED
    BY <1>3, <2>1, <2>2
<1> HIDE DEF r
<1>5. r.at = right.at
  BY <1>4 DEF Parsed
<1>6. CASE l.digits /\ q.digits /\ folded # {}
  <2>1. r.text = Printed(n)
    BY <1>4, <1>6 DEF Parsed
  <2>2. PICK m \in Int : folded = {m}
    BY <1>2, <1>6, ApplyType
  <2>3. n = m
    BY <2>2
  <2>4. Printed(n).worth = {m} /\ (Printed(n).digits => Printed(n).dec = m)
    BY <2>3 DEF Printed, Digits, NoDigits
  <2>5. Combined(op, l.worth, q.worth) = folded
    BY <1>2, <1>6, CombinedOfOne
  <2> QED
    BY <1>5, <2>1, <2>2, <2>4, <2>5 DEF r
<1>7. CASE ~(l.digits /\ q.digits /\ folded # {})
  <2>1. r.text = Binary(op, l, q)
    BY <1>4, <1>7 DEF Parsed
  <2>2. /\ Binary(op, l, q).worth = Combined(op, l.worth, q.worth)
        /\ Binary(op, l, q).digits = FALSE
    BY DEF Binary, NoDigits
  <2> QED
    BY <1>5, <2>1, <2>2 DEF r
<1> QED
  BY <1>6, <1>7

LEMMA ClimbStep ==
  ASSUME NEW s \in Seq(BodyTokens), NEW below \in LevelSet, LevelGood(s, below),
         NEW i \in Nat \ {0}, NEW left \in Results, NEW p \in Nat \ {0},
         LeftGood(s, i, left, p), Climb(below, s, left, p).error = "none"
  PROVE  ReadTo(s, i, Climb(below, s, left, p), p)
<1> DEFINE j     == left.at
           op    == TextAt(s, j)
           q     == Prec(s, j)
           right == parse_binary(below, j + 1, RightBinds(op))
           both  == Combine(left, op, right)
<1>1. j \in Nat /\ j + 1 \in Nat \ {0} /\ q \in Nat
  BY PrecedenceType DEF Results, Prec
<1>2. RightBinds(op) = q + 1 /\ q + 1 \in Nat \ {0}
  BY <1>1 DEF RightBinds, Prec
<1>3. CASE left.error # "none" \/ q = 0 \/ q < p
  <2>1. Climb(below, s, left, p) = left
    BY <1>3 DEF Climb, Prec
  <2>2. q = 0 \/ q < p
    BY <1>3, <2>1
  <2> QED
    BY <2>1, <2>2 DEF ReadTo, LeftGood
<1>4. CASE ~(left.error # "none" \/ q = 0 \/ q < p)
  <2>1. Climb(below, s, left, p) = IF right.error # "none" THEN right ELSE below.climb[both][p]
    BY <1>4 DEF Climb, Prec
  <2> HIDE DEF both, right
  <2>2. right.error = "none" /\ Climb(below, s, left, p) = below.climb[both][p]
    BY <2>1
  <2>3. right \in Results /\ both \in Results
    BY <1>1, <1>2, ParseBinaryType, CombineType DEF right, both
  <2>4. both.error = "none"
    BY <2>2, <2>3 DEF LevelGood, ErrorsStay
  <2>5. ReadTo(s, j + 1, right, q + 1)
    BY <1>1, <1>2, <2>2, BinaryGood DEF right
  <2> DEFINE b == right.at - 1
  <2>6. /\ Whole(s, i, j - 1) /\ left.text.worth = Worth(s)[i][j - 1]
        /\ left.text.digits => left.text.worth = {left.text.dec}
    BY DEF LeftGood, IsWorth
  <2>7. /\ Whole(s, j + 1, b) /\ right.text.worth = Worth(s)[j + 1][b]
        /\ right.text.digits => right.text.worth = {right.text.dec}
    BY <2>5 DEF ReadTo, IsWorth
  <2>8. b \in Nat /\ right.at \in Nat
    BY <2>3, <2>7 DEF Whole, Results
  <2>9. Prec(s, j) > 0
    BY <1>1, <1>4
  <2>10. /\ Whole(s, i, b)
         /\ Operators(s, i, b) = Operators(s, i, j - 1) \cup {j} \cup Operators(s, j + 1, b)
    <3> HIDE DEF b, j
    <3>1. Joined(s, i, j, b)
      BY <1>1, <2>6, <2>7, <2>8, <2>9, OperatorJoins
    <3> QED
      BY <3>1 DEF Joined
  <2>11. /\ both.at = right.at
         /\ both.text.worth = Combined(op, left.text.worth, right.text.worth)
         /\ both.text.digits => both.text.worth = {both.text.dec}
    <3> HIDE DEF op
    <3> QED
      BY <2>3, <2>4, <2>6, <2>7, CombineWorth DEF both
  <2>12. /\ \A o \in Operators(s, i, j - 1) : Prec(s, o) >= p /\ Prec(s, o) >= q
         /\ \A o \in Operators(s, j + 1, b) : Prec(s, o) >= q + 1
         /\ Prec(s, right.at) = 0 \/ Prec(s, right.at) < q + 1
    BY <2>5 DEF LeftGood, ReadTo
  <2>13. \A o : Prec(s, o) \in Nat
    BY PrecedenceType DEF Prec
  <2>14. LastApplied(s, i, b) = j
    <3> DEFINE w == LastApplied(s, i, b)
    <3>1. Operators(s, i, b) \subseteq 0 .. b /\ Operators(s, i, b) # {}
      BY <2>8, <2>10, OperatorsAre
    <3>2. w \in Operators(s, i, b) /\ (Prec(s, w) < Prec(s, j) \/ (Prec(s, w) = Prec(s, j) /\ j <= w))
      BY <2>8, <2>10, <3>1, WeakestExists DEF LastApplied, Prec
    <3>3. w \in Operators(s, i, j - 1) => w \in i + 1 .. j - 1
      BY <1>1 DEF Operators
    <3> HIDE DEF w, b, j, q
    <3>4. w \in Operators(s, i, j - 1) => w = j
      BY <1>1, <2>12, <2>13, <3>2, <3>3 DEF q
    <3>5. w \in Operators(s, j + 1, b) => w = j
      BY <1>1, <2>12, <2>13, <3>2 DEF q
    <3>6. w \in Operators(s, i, j - 1) \/ w = j \/ w \in Operators(s, j + 1, b)
      BY <2>10, <3>2
    <3>7. w = j
      BY <3>4, <3>5, <3>6
    <3> QED
      BY <3>7 DEF w
  <2>15. Worth(s)[i][b] = Combined(op, Worth(s)[i][j - 1], Worth(s)[j + 1][b])
    <3>1. 1 <= i /\ i <= b /\ b <= Len(s)
      BY <2>10 DEF Whole
    <3>2. Worth(s)[i][b] = MeaningOf(s, Worth(s), i, b)
      BY <2>8, <3>1, WorthIs
    <3>3. MeansByCases(s, Worth(s), i, b)
      BY MeaningCases
    <3>4. Operators(s, i, b) # {}
      BY <2>10
    <3> HIDE DEF b
    <3> QED
      BY <2>14, <3>2, <3>3, <3>4 DEF MeansByCases
  <2>16. IsWorth(s, i, both)
    BY <2>6, <2>7, <2>10, <2>11, <2>15 DEF IsWorth
  <2>17. ASSUME NEW o \in Operators(s, i, b)
         PROVE  Prec(s, o) >= p /\ Prec(s, o) >= Prec(s, right.at)
    <3>1. o \in Operators(s, i, j - 1) \/ o = j \/ o \in Operators(s, j + 1, b)
      BY <2>10
    <3>2. q >= p /\ q >= Prec(s, right.at)
      BY <1>1, <1>4, <2>12, <2>13
    <3> HIDE DEF b, j, q
    <3> QED
      BY <1>1, <2>12, <2>13, <3>1, <3>2 DEF q
  <2>18. LeftGood(s, i, both, p)
    BY <2>11, <2>16, <2>17 DEF LeftGood
  <2> QED
    BY <2>2, <2>3, <2>18 DEF LevelGood, ClimbGood
<1> QED
  BY <1>3, <1>4

(* A sign in front of an expression without operators. *)
LEMMA SignStep ==
  ASSUME NEW s, NEW i \in Nat \ {0}, NEW b \in Nat,
         TextAt(s, i) \in {"!", "-"}, Whole(s, i + 1, b), Operators(s, i + 1, b) = {}
  PROVE  Whole(s, i, b) /\ Operators(s, i, b) = {}
<1> DEFINE N == Nesting(s)
<1>1. N[i] = N[i - 1] /\ i + 1 - 1 = i /\ N[i] \in Int
  BY Nests
<1> HIDE DEF N
<1>2. Whole(s, i, b)
  <2>1. \A k \in i .. b : k = i \/ k \in i + 1 .. b
    OBVIOUS
  <2>2. /\ i + 1 <= b /\ b <= Len(s) /\ N[b] = N[i] /\ TextAt(s, b) \in OperandEnds
        /\ \A k \in i + 1 .. b : N[k] >= N[i]
    BY <1>1 DEF Whole, N
  <2>3. \A k \in i .. b : N[k] >= N[i - 1]
    BY <1>1, <2>1, <2>2
  <2>4. 1 <= i /\ i <= b
    BY <2>2
  <2> QED
    BY <1>1, <2>2, <2>3, <2>4 DEF Whole, N
<1>3. ASSUME NEW o \in Operators(s, i, b) PROVE FALSE
  <2>1. /\ o \in i + 1 .. b /\ Prec(s, o) > 0 /\ N[o] = N[i]
        /\ TextAt(s, o - 1) \in OperandEnds
    BY <1>1 DEF Operators, N, Prec
  <2>2. o # i + 1
    BY <2>1 DEF OperandEnds
  <2>3. o \in i + 1 + 1 .. b
    BY <2>1, <2>2
  <2>4. o \in Operators(s, i + 1, b)
    BY <1>1, <2>1, <2>3 DEF Operators, N, Prec
  <2> QED
    BY <2>4
<1> QED
  BY <1>2, <1>3

(* An expression in parentheses. *)
LEMMA ParenStep ==
  ASSUME NEW s \in Seq(BodyTokens), NEW i \in Nat \ {0}, NEW b \in Nat,
         TextAt(s, i) = "(", Whole(s, i + 1, b - 1), TextAt(s, b) = ")"
  PROVE  Whole(s, i, b) /\ Operators(s, i, b) = {} /\ i < b
<1> DEFINE N == Nesting(s)
<1>1. /\ i + 1 <= b - 1 /\ i + 1 - 1 = i
      /\ N[b - 1] = N[i] /\ \A k \in i + 1 .. b - 1 : N[k] >= N[i]
  BY DEF Whole
<1>2. N[i] = N[i - 1] + 1 /\ N[i] \in Int /\ N[i - 1] \in Int
  BY Nests
<1>3. N[b] = N[b - 1] - 1 /\ N[b] \in Int
  BY <1>1, Nests
<1>4. b \in DOMAIN s
  BY DEF TextAt
<1>5. b <= Len(s)
  BY <1>4
<1>6. \A k \in Nat : N[k] \in Int
  BY NestingIs
<1> HIDE DEF N
<1>7. \A k \in i .. b : k = i \/ k \in i + 1 .. b - 1 \/ k = b
  OBVIOUS
<1>8. \A k \in i .. b : N[k] >= N[i - 1]
  BY <1>1, <1>2, <1>3, <1>6, <1>7
<1>9. N[b] = N[i - 1] /\ 1 <= i /\ i <= b
  BY <1>1, <1>2, <1>3
<1>10. Whole(s, i, b)
  BY <1>5, <1>8, <1>9 DEF Whole, N, OperandEnds
<1>11. ASSUME NEW o \in Operators(s, i, b) PROVE FALSE
  <2>1. o \in i + 1 .. b /\ Prec(s, o) > 0 /\ N[o] = N[i - 1]
    BY DEF Operators, N, Prec
  <2>2. o # b
    <3>1. Prec(s, b) = 0
      BY PrecedenceIs DEF Prec
    <3> QED
      BY <2>1, <3>1
  <2>3. o \in i + 1 .. b - 1
    BY <2>1, <2>2
  <2>4. N[o] >= N[i] /\ N[o] \in Int
    BY <1>1, <1>6, <2>3
  <2> QED
    BY <1>2, <2>1, <2>4
<1> QED
  BY <1>1, <1>10, <1>11

(* A single token that is an operand. *)
LEMMA OperandStep ==
  ASSUME NEW s \in Seq(BodyTokens), NEW i \in Nat \ {0}, TextAt(s, i) \in {"int", "var"}
  PROVE  Whole(s, i, i) /\ Operators(s, i, i) = {} /\ i \in DOMAIN s
<1>1. i \in DOMAIN s
  BY DEF TextAt
<1>2. Nesting(s)[i] = Nesting(s)[i - 1] /\ Nesting(s)[i] \in Int
  BY Nests
<1>3. Operators(s, i, i) = {}
  BY DEF Operators
<1>4. \A k \in i .. i : k = i
  OBVIOUS
<1>5. 1 <= i /\ i <= i /\ i <= Len(s)
  BY <1>1
<1>6. \A k \in i .. i : Nesting(s)[k] >= Nesting(s)[i - 1]
  BY <1>2, <1>4
<1> QED
  BY <1>1, <1>2, <1>3, <1>5, <1>6 DEF Whole, OperandEnds

LEMMA UnaryStep ==
  ASSUME NEW s \in Seq(BodyTokens), PlainLiterals(s),
         NEW below \in LevelSet, LevelGood(s, below),
         NEW i \in Nat \ {0}, unary_expr(below, s, i).error = "none"
  PROVE  /\ IsWorth(s, i, unary_expr(below, s, i))
         /\ NoOperators(s, i, unary_expr(below, s, i))
<1> DEFINE text    == TextAt(s, i)
           operand == below.unary[i + 1]
           inner   == parse_binary(below, i + 1, 1)
           r       == unary_expr(below, s, i)
<1>1. operand \in Results /\ inner \in Results /\ i + 1 \in Nat \ {0} /\ i \in Nat
  <2>1. i + 1 \in Nat /\ 1 \in Nat /\ i + 1 \in Nat \ {0}
    OBVIOUS
  <2>2. below.unary \in [Nat -> Results]
    BY DEF LevelSet
  <2> QED
    BY <2>1, <2>2, ParseBinaryType
<1>2. ASSUME NEW b \in Nat, Whole(s, i, b)
      PROVE  Worth(s)[i][b] = MeaningOf(s, Worth(s), i, b) /\ MeansByCases(s, Worth(s), i, b)
  <2>1. 1 <= i /\ i <= b /\ b <= Len(s)
    BY <1>2 DEF Whole
  <2> QED
    BY <1>1, <2>1, WorthIs, MeaningCases
<1>3. CASE text \in {"!", "-"}
  <2>1. r = [operand EXCEPT !.text = Unary(text, operand.text)]
    BY <1>3 DEF unary_expr
  <2> HIDE DEF operand
  <2>2. r.at = operand.at /\ r.error = operand.error /\ r.text = Unary(text, operand.text)
    BY <1>1, <2>1 DEF Results
  <2>3. IsWorth(s, i + 1, operand) /\ NoOperators(s, i + 1, operand)
    <3>1. operand.error = "none"
      BY <2>2
    <3> QED
      BY <1>1, <3>1 DEF LevelGood, UnaryGood, operand
  <2> DEFINE b == operand.at - 1
  <2>4. /\ Whole(s, i + 1, b) /\ Operators(s, i + 1, b) = {}
        /\ operand.text.worth = Worth(s)[i + 1][b]
    BY <2>3 DEF IsWorth, NoOperators
  <2>5. b \in Nat
    BY <1>1, <2>4 DEF Whole, Results
  <2>6. Whole(s, i, b) /\ Operators(s, i, b) = {}
    <3> HIDE DEF b
    <3> QED
      BY <1>3, <2>4, <2>5, SignStep
  <2>7. Worth(s)[i][b] = {Negated(text, v) : v \in Worth(s)[i + 1][b]}
    <3> HIDE DEF b
    <3>1. Worth(s)[i][b] = MeaningOf(s, Worth(s), i, b) /\ MeansByCases(s, Worth(s), i, b)
      BY <1>2, <2>5, <2>6
    <3> QED
      BY <1>3, <2>6, <3>1 DEF MeansByCases
  <2>8. r.text.worth = {Negated(text, v) : v \in operand.text.worth} /\ r.text.digits = FALSE
    BY <2>2 DEF Unary, NoDigits
  <2> HIDE DEF r
  <2>9. IsWorth(s, i, r) /\ NoOperators(s, i, r)
    BY <2>2, <2>4, <2>6, <2>7, <2>8 DEF IsWorth, NoOperators
  <2> QED
    BY <2>9 DEF r
<1>4. CASE text = "("
  <2>1. r = IF inner.error # "none" THEN inner
            ELSE IF TextAt(s, inner.at) = ")" THEN Parsed(Paren(inner.text), inner.at + 1)
            ELSE Failed("syntax", inner.at)
    BY <1>4 DEF unary_expr
  <2>2. Failed("syntax", inner.at).error # "none"
    BY DEF Failed
  <2> HIDE DEF inner
  <2>3. /\ inner.error = "none" /\ TextAt(s, inner.at) = ")"
        /\ r = Parsed(Paren(inner.text), inner.at + 1)
    BY <2>1, <2>2
  <2>4. ReadTo(s, i + 1, inner, 1)
    BY <1>1, <2>3, BinaryGood DEF inner
  <2> DEFINE b == inner.at
  <2>5. Whole(s, i + 1, b - 1) /\ inner.text.worth = Worth(s)[i + 1][b - 1] /\ b \in Nat
    BY <1>1, <2>4 DEF ReadTo, IsWorth, Results
  <2>6. Whole(s, i, b) /\ Operators(s, i, b) = {} /\ i < b
    <3> HIDE DEF b
    <3> QED
      BY <1>4, <2>3, <2>5, ParenStep DEF b
  <2>7. Worth(s)[i][b] = Worth(s)[i + 1][b - 1]
    <3> HIDE DEF b
    <3>1. Worth(s)[i][b] = MeaningOf(s, Worth(s), i, b) /\ MeansByCases(s, Worth(s), i, b)
      BY <1>2, <2>5, <2>6
    <3> QED
      BY <1>4, <2>6, <3>1 DEF MeansByCases
  <2>8. r.text.worth = inner.text.worth /\ r.text.digits = FALSE /\ r.at - 1 = b
    BY <2>3, <2>5 DEF Parsed, Paren, NoDigits
  <2> HIDE DEF r
  <2>9. IsWorth(s, i, r) /\ NoOperators(s, i, r)
    BY <2>5, <2>6, <2>7, <2>8 DEF IsWorth, NoOperators
  <2> QED
    BY <2>9 DEF r
<1>5. CASE text \in {"int", "var"}
  <2>1. Whole(s, i, i) /\ Operators(s, i, i) = {} /\ i \in DOMAIN s
    BY <1>5, OperandStep
  <2>2. Worth(s)[i][i] = MeaningOf(s, Worth(s), i, i) /\ MeansByCases(s, Worth(s), i, i)
    BY <1>1, <1>2, <2>1
  <2>3. r = Parsed(IF text = "int" THEN Digits(s[i].dec, s[i].c) ELSE Variable, i + 1)
    BY <1>5 DEF unary_expr
  <2>4. r.at - 1 = i /\ r.text = IF text = "int" THEN Digits(s[i].dec, s[i].c) ELSE Variable
    BY <2>3 DEF Parsed
  <2>5. s[i].c = s[i].dec
    BY <2>1 DEF PlainLiterals
  <2>6. /\ r.text.worth = Worth(s)[i][i]
        /\ r.text.digits => r.text.worth = {r.text.dec}
    <3> HIDE DEF r
    <3>1. CASE text = "int"
      <4>1. Worth(s)[i][i] = {s[i].dec}
        BY <2>1, <2>2, <3>1 DEF MeansByCases
      <4>2. r.text = Digits(s[i].dec, s[i].dec)
        BY <2>4, <2>5, <3>1
      <4> QED
        BY <4>1, <4>2 DEF Digits
    <3>2. CASE text = "var"
      <4>1. Worth(s)[i][i] = {X}
        BY <2>1, <2>2, <3>2 DEF MeansByCases
      <4>2. r.text = Variable
        BY <2>4, <3>2
      <4> QED
        BY <4>1, <4>2 DEF Variable, NoDigits
    <3> QED
      BY <1>5, <3>1, <3>2
  <2> HIDE DEF r
  <2>7. IsWorth(s, i, r) /\ NoOperators(s, i, r)
    BY <2>1, <2>4, <2>6 DEF IsWorth, NoOperators
  <2> QED
    BY <2>7 DEF r
<1>6. CASE text \notin {"!", "-", "(", "int", "var"}
  <2>1. r = Failed("syntax", i)
    BY <1>6 DEF unary_expr
  <2> QED
    BY <2>1 DEF Failed
<1> QED
  BY <1>3, <1>4, <1>5, <1>6

LEMMA LevelsAreGood ==
  ASSUME NEW s \in Seq(BodyTokens), PlainLiterals(s), NEW n \in Nat
  PROVE  LevelGood(s, Levels(s)[n])
<1> DEFINE A == {m \in Nat : LevelGood(s, Levels(s)[m])}
<1>1. 0 \in A
  <2>1. /\ \A i \in Nat : Lowest.unary[i].error # "none"
        /\ \A left \in Results, p \in Nat : Lowest.climb[left][p].error # "none"
    BY DEF Lowest, Failed
  <2>2. LevelGood(s, Lowest)
    BY <2>1 DEF LevelGood, UnaryGood, ClimbGood, ErrorsStay
  <2> QED
    BY <2>2, LevelsAre
<1>2. ASSUME NEW m \in Nat, m \in A PROVE m + 1 \in A
  <2> DEFINE below == Levels(s)[m]
             here  == Levels(s)[m + 1]
  <2>1. below \in LevelSet /\ here = Higher(s, below)
    BY LevelsAre
  <2>2. LevelGood(s, below)
    BY <1>2
  <2> HIDE DEF below
  <2>3. /\ \A i \in Nat : here.unary[i] = unary_expr(below, s, i)
        /\ \A left \in Results, p \in Nat : here.climb[left][p] = Climb(below, s, left, p)
    <3> HIDE DEF here
    <3> QED
      BY <2>1 DEF Higher
  <2> HIDE DEF here
  <2>4. UnaryGood(s, here.unary)
    <3> SUFFICES ASSUME NEW i \in Nat \ {0}, here.unary[i].error = "none"
                 PROVE  IsWorth(s, i, here.unary[i]) /\ NoOperators(s, i, here.unary[i])
      BY DEF UnaryGood
    <3>1. here.unary[i] = unary_expr(below, s, i)
      BY <2>3
    <3> QED
      BY <2>1, <2>2, <3>1, UnaryStep
  <2>5. ClimbGood(s, here.climb)
    <3> SUFFICES ASSUME NEW i \in Nat \ {0}, NEW left \in Results, NEW p \in Nat \ {0},
                        LeftGood(s, i, left, p), here.climb[left][p].error = "none"
                 PROVE  ReadTo(s, i, here.climb[left][p], p)
      BY DEF ClimbGood
    <3>1. here.climb[left][p] = Climb(below, s, left, p)
      BY <2>3
    <3> QED
      BY <2>1, <2>2, <3>1, ClimbStep
  <2>6. ErrorsStay(here.climb)
    <3> SUFFICES ASSUME NEW left \in Results, NEW p \in Nat, left.error # "none"
                 PROVE  here.climb[left][p].error # "none"
      BY DEF ErrorsStay
    <3>1. Climb(below, s, left, p) = left
      BY DEF Climb
    <3> QED
      BY <2>3, <3>1
  <2>7. LevelGood(s, here)
    BY <2>4, <2>5, <2>6 DEF LevelGood
  <2> QED
    BY <2>7 DEF here
<1>3. n \in A
  <2> HIDE DEF A
  <2> QED
    BY <1>1, <1>2, EveryNumber
<1> QED
  BY <1>3

(* Precedence climbing and the folding of literals change no value: for    *)
(* every sequence of tokens that the parser reads as an expression, the    *)
(* text it emits is worth in C what the expression means, whatever the     *)
(* variable is worth.  Literals are those that C and stoll read as they    *)
(* are written.                                                            *)
THEOREM ParserKeepsMeaning ==
  ASSUME NEW s \in Seq(BodyTokens), PlainLiterals(s), expression(s).error = "none"
  PROVE  expression(s).text.worth = Meaning(s)
<1> DEFINE level == Levels(s)[Len(s) + 2]
           r == parse_binary(level, 1, 1)
<1>1. Len(s) \in Nat /\ Len(s) + 2 \in Nat
  OBVIOUS
<1>2. level \in LevelSet /\ LevelGood(s, level)
  BY <1>1, LevelsAre, LevelsAreGood
<1>3. expression(s) = IF r.error = "none" /\ r.at # Len(s) + 1 THEN Failed("syntax", r.at) ELSE r
  BY DEF expression, ReadToEnd
<1>4. r.error = "none" /\ r.at = Len(s) + 1 /\ expression(s) = r
  <2>1. Failed("syntax", r.at).error # "none"
    BY DEF Failed
  <2> HIDE DEF r
  <2> QED
    BY <1>3, <2>1
<1> HIDE DEF level
<1>5. ReadTo(s, 1, r, 1)
  BY <1>2, <1>4, BinaryGood
<1> HIDE DEF r
<1>6. r.text.worth = Worth(s)[1][Len(s)]
  <2>1. r.at - 1 = Len(s)
    BY <1>1, <1>4
  <2> QED
    BY <1>5, <2>1 DEF ReadTo, IsWorth
<1> QED
  BY <1>4, <1>6 DEF Meaning, Worth

-----------------------------------------------------------------------------
(* The tokens of a file. *)

ItemOpeners == {"struct", "enum", "fn"}

LEMMA TokensRead ==
  ASSUME tokens \in Sources
  PROVE  /\ Len(tokens) \in Nat /\ 1 <= Len(tokens) /\ DOMAIN tokens = 1 .. Len(tokens)
         /\ \A i \in Int : Text(i) = Eof <=> i \notin 1 .. Len(tokens) - 1
         /\ \A i \in Int : Text(i) \in Rests <=> Text(i - 1) \in ItemOpeners
         /\ \A i \in DOMAIN tokens : Text(i) \in STRING
<1> DEFINE Tokens == [text : STRING, name : STRING, sig : Signatures, body : Seq(BodyTokens)]
<1>1. tokens \in Seq(Tokens) /\ tokens # <<>>
  BY SourcesAssumption
<1>2. Len(tokens) \in Nat /\ 1 <= Len(tokens) /\ DOMAIN tokens = 1 .. Len(tokens)
  BY <1>1
<1>3. \A i \in DOMAIN tokens : tokens[i] \in Tokens
  <2> HIDE DEF Tokens
  <2> QED
    BY <1>1, <1>2
<1>4. ASSUME NEW i \in DOMAIN tokens PROVE Text(i) \in STRING
  <2>1. tokens[i] \in Tokens
    BY <1>3
  <2>2. tokens[i].text \in STRING
    BY <2>1
  <2> QED
    BY <2>2 DEF Text
<1>5. ASSUME NEW i \in Int PROVE Text(i) = Eof <=> i \notin 1 .. Len(tokens) - 1
  <2>1. \A j \in DOMAIN tokens : tokens[j].text = Eof <=> j = Len(tokens)
    BY SourcesAssumption
  <2> QED
    BY <1>2, <2>1 DEF Text
<1>6. ASSUME NEW i \in Int PROVE Text(i) \in Rests <=> Text(i - 1) \in ItemOpeners
  <2>1. \A j \in DOMAIN tokens : tokens[j].text \in Rests <=> Behind(tokens, j)
    BY SourcesAssumption
  <2>2. CASE i \in 2 .. Len(tokens)
    <3>1. i \in DOMAIN tokens /\ i - 1 \in DOMAIN tokens /\ i > 1
      BY <1>2, <2>2
    <3> QED
      BY <2>1, <3>1 DEF Behind, Text, ItemOpeners
  <2>3. CASE i \notin 2 .. Len(tokens)
    <3>1. i - 1 \notin 1 .. Len(tokens) - 1
      BY <1>2, <2>3
    <3>2. Text(i - 1) = Eof
      BY <1>5, <3>1, <1>2 DEF Text
    <3>3. Text(i - 1) \notin ItemOpeners
      BY <3>2 DEF Eof, ItemOpeners
    <3>4. i = 1 \/ i \notin DOMAIN tokens
      BY <1>2, <2>3
    <3>5. Text(i) \notin Rests
      <4>1. CASE i = 1
        <5>1. 1 \in DOMAIN tokens /\ ~Behind(tokens, 1)
          BY <1>2 DEF Behind
        <5> QED
          BY <2>1, <4>1, <5>1 DEF Text
      <4>2. CASE i \notin DOMAIN tokens
        BY <4>2 DEF Text, Eof, Rests
      <4> QED
        BY <3>4, <4>1, <4>2
    <3> QED
      BY <3>3, <3>5
  <2> QED
    BY <2>2, <2>3
<1> QED
  BY <1>2, <1>4, <1>5, <1>6

LEMMA OpenersOpen ==
  ASSUME tokens \in Sources, NEW i \in Int, Text(i) \in ItemOpeners
  PROVE  /\ 1 <= i /\ i + 2 <= Len(tokens)
         /\ Text(i + 1) \in Rests
<1>1. i + 1 \in Int /\ i + 1 - 1 = i
  OBVIOUS
<1>2. Text(i + 1) \in Rests
  BY <1>1, TokensRead
<1>3. Text(i) # Eof /\ Text(i + 1) # Eof
  BY <1>2 DEF ItemOpeners, Rests, Eof
<1>4. i \in 1 .. Len(tokens) - 1 /\ i + 1 \in 1 .. Len(tokens) - 1
  BY <1>1, <1>3, TokensRead
<1> QED
  BY <1>2, <1>4, TokensRead

(* No word of an attribute is one a declaration begins with. *)
LEMMA AttributeWords ==
  ASSUME tokens \in Sources, NEW i \in Int, Attribute(i)
  PROVE  /\ 1 <= i /\ i + 3 <= Len(tokens)
         /\ \A j \in i .. i + 2 : Text(j) \notin ItemOpeners
         /\ Text(i) = "#[" /\ Text(i + 2) = "]"
<1>1. i + 1 \in Int /\ i + 2 \in Int /\ i + 2 - 1 = i + 1
  OBVIOUS
<1>2. Text(i) = "#[" /\ Text(i + 1) # Eof /\ Text(i + 2) = "]"
  BY DEF Attribute
<1>3. Text(i) # Eof /\ Text(i + 2) # Eof /\ Text(i + 2) \notin Rests
  BY <1>2 DEF Eof, Rests
<1>4. Text(i + 1) \notin ItemOpeners
  BY <1>1, <1>3, TokensRead
<1>5. Text(i) \notin ItemOpeners /\ Text(i + 2) \notin ItemOpeners
  BY <1>2 DEF ItemOpeners
<1>6. i \in 1 .. Len(tokens) - 1 /\ i + 2 \in 1 .. Len(tokens) - 1
  BY <1>1, <1>3, TokensRead
<1>7. 1 <= i /\ i + 3 <= Len(tokens)
  BY <1>6, TokensRead
<1>8. \A j \in i .. i + 2 : j = i \/ j = i + 1 \/ j = i + 2
  OBVIOUS
<1> QED
  BY <1>2, <1>4, <1>5, <1>7, <1>8

LEMMA FirstIs ==
  ASSUME tokens \in Sources, NEW i \in 1 .. Len(tokens), NEW stops, Eof \in stops
  PROVE  /\ First(i, stops) \in i .. Len(tokens)
         /\ Text(First(i, stops)) \in stops
         /\ \A k \in i .. First(i, stops) - 1 : Text(k) \notin stops
<1> DEFINE T == {j \in i .. Len(tokens) : Text(j) \in stops}
<1>1. Len(tokens) \in Nat
  BY TokensRead
<1>2. Text(Len(tokens)) = Eof
  BY TokensRead
<1>3. T \subseteq Nat /\ Len(tokens) \in T
  BY <1>1, <1>2
<1>4. PICK j \in T : \A k \in T : j <= k
  <2> HIDE DEF T
  <2> QED
    BY <1>3, LeastExists
<1>5. j \in i .. Len(tokens) /\ Text(j) \in stops
  BY <1>4
<1>6. \A k \in i .. j - 1 : Text(k) \notin stops
  BY <1>1, <1>4
<1> QED
  BY <1>5, <1>6 DEF First

-----------------------------------------------------------------------------
(* The attributes in front of a function, read forwards and backwards. *)

Run(i, n) == \A k \in 0 .. n - 1 : Attribute(i + 3 * k)

LEMMA RunWords ==
  ASSUME tokens \in Sources, NEW i \in Int, NEW n \in Nat, Run(i, n),
         NEW j \in i .. i + 3 * n - 1
  PROVE  Text(j) \notin ItemOpeners
<1> DEFINE k == (j - i) \div 3
<1>1. k \in 0 .. n - 1 /\ i + 3 * k \in Int /\ j \in i + 3 * k .. i + 3 * k + 2
  OBVIOUS
<1>2. Attribute(i + 3 * k)
  BY <1>1 DEF Run
<1> HIDE DEF k
<1> QED
  BY <1>1, <1>2, AttributeWords

LEMMA RunEnds ==
  ASSUME tokens \in Sources, NEW i \in Int, NEW n \in Nat \ {0}, Run(i, n)
  PROVE  i + 3 * n <= Len(tokens) /\ 1 <= i /\ Text(i + 3 * n - 1) = "]"
<1>1. Attribute(i) /\ Attribute(i + 3 * (n - 1))
  <2>1. 0 \in 0 .. n - 1 /\ n - 1 \in 0 .. n - 1 /\ i + 3 * 0 = i
    OBVIOUS
  <2> QED
    BY <2>1 DEF Run
<1>2. i + 3 * (n - 1) \in Int /\ i + 3 * (n - 1) + 2 = i + 3 * n - 1 /\ i + 3 * (n - 1) + 3 = i + 3 * n
  OBVIOUS
<1> QED
  BY <1>1, <1>2, AttributeWords

LEMMA AttributesAre ==
  ASSUME tokens \in Sources, NEW i \in 1 .. Len(tokens)
  PROVE  \E n \in Nat :
           /\ Run(i, n) /\ ~Attribute(i + 3 * n)
           /\ Attributes(i).at = i + 3 * n
           /\ Attributes(i).names = {Text(i + 3 * k + 1) : k \in 0 .. n - 1}
           /\ Attributes(i).at \in i .. Len(tokens)
<1> DEFINE P(n) == ~Attribute(i + 3 * n) /\ \A k \in 0 .. n - 1 : Attribute(i + 3 * k)
           T == {n \in Nat : ~Attribute(i + 3 * n)}
           m == CHOOSE n \in 0 .. Len(tokens) : P(n)
<1>1. Len(tokens) \in Nat /\ 1 <= Len(tokens)
  BY TokensRead
<1>2. Len(tokens) \in T
  <2>1. i + 3 * Len(tokens) \in Int /\ ~(i + 3 * Len(tokens) + 3 <= Len(tokens))
    BY <1>1
  <2> QED
    BY <1>1, <2>1, AttributeWords
<1>3. PICK n \in T : \A k \in T : n <= k
  <2>1. T \subseteq Nat /\ T # {}
    BY <1>2
  <2> HIDE DEF T
  <2> QED
    BY <2>1, LeastExists
<1>4. n \in 0 .. Len(tokens) /\ P(n)
  <2>1. n \in Nat /\ ~Attribute(i + 3 * n) /\ n <= Len(tokens)
    BY <1>1, <1>2, <1>3
  <2>2. ASSUME NEW k \in 0 .. n - 1 PROVE Attribute(i + 3 * k)
    <3>1. k \in Nat /\ ~(n <= k)
      BY <2>1
    <3> QED
      BY <1>3, <3>1
  <2> QED
    BY <1>1, <2>1, <2>2
<1>5. m \in 0 .. Len(tokens) /\ P(m)
  BY <1>4
<1>6. Attributes(i) = [names |-> {Text(i + 3 * k + 1) : k \in 0 .. m - 1}, at |-> i + 3 * m]
  BY DEF Attributes
<1> HIDE DEF m
<1>7. m \in Nat /\ Run(i, m) /\ ~Attribute(i + 3 * m)
  BY <1>1, <1>5 DEF Run
<1>8. i + 3 * m <= Len(tokens)
  <2>1. CASE m = 0
    BY <2>1
  <2>2. CASE m # 0
    BY <1>7, <2>2, RunEnds
  <2> QED
    BY <2>1, <2>2
<1> QED
  BY <1>1, <1>6, <1>7, <1>8

LEMMA AttributeCountIs ==
  ASSUME tokens \in Sources, NEW i \in 1 .. Len(tokens)
  PROVE  /\ AttributeCount(i) \in Nat
         /\ ~Attribute(i - 3 * (AttributeCount(i) + 1))
         /\ \A k \in 1 .. AttributeCount(i) : Attribute(i - 3 * k)
         /\ ItemStart(i) \in 1 .. i
<1> DEFINE P(n) == ~Attribute(i - 3 * (n + 1)) /\ \A k \in 1 .. n : Attribute(i - 3 * k)
           T == {n \in Nat : ~Attribute(i - 3 * (n + 1))}
           m == CHOOSE n \in 0 .. Len(tokens) : P(n)
<1>1. Len(tokens) \in Nat /\ 1 <= Len(tokens)
  BY TokensRead
<1>2. Len(tokens) \in T
  <2>1. i - 3 * (Len(tokens) + 1) \in Int /\ ~(1 <= i - 3 * (Len(tokens) + 1))
    BY <1>1
  <2> QED
    BY <1>1, <2>1, AttributeWords
<1>3. PICK n \in T : \A k \in T : n <= k
  <2>1. T \subseteq Nat /\ T # {}
    BY <1>2
  <2> HIDE DEF T
  <2> QED
    BY <2>1, LeastExists
<1>4. n \in 0 .. Len(tokens) /\ P(n)
  <2>1. n \in Nat /\ ~Attribute(i - 3 * (n + 1)) /\ n <= Len(tokens)
    BY <1>1, <1>2, <1>3
  <2>2. ASSUME NEW k \in 1 .. n PROVE Attribute(i - 3 * k)
    <3>1. k - 1 \in Nat /\ ~(n <= k - 1) /\ k - 1 + 1 = k
      BY <2>1
    <3>2. k - 1 \notin T
      BY <1>3, <3>1
    <3> QED
      BY <3>1, <3>2
  <2> QED
    BY <1>1, <2>1, <2>2
<1>5. m \in 0 .. Len(tokens) /\ P(m)
  BY <1>4
<1>6. AttributeCount(i) = m
  BY DEF AttributeCount
<1> HIDE DEF m
<1>7. 1 <= i - 3 * m /\ i - 3 * m <= i /\ i - 3 * m \in Int
  <2>1. CASE m = 0
    BY <2>1
  <2>2. CASE m # 0
    <3>1. m \in 1 .. m /\ i - 3 * m \in Int
      BY <1>1, <1>5, <2>2
    <3>2. Attribute(i - 3 * m)
      BY <1>5, <3>1
    <3>3. 1 <= i - 3 * m
      BY <3>1, <3>2, AttributeWords
    <3> QED
      BY <3>3, <1>1, <1>5
  <2> QED
    BY <2>1, <2>2
<1> QED
  BY <1>1, <1>5, <1>6, <1>7 DEF ItemStart

(* Read forwards from where the item starts, the attributes of a function  *)
(* are those found backwards from it.                                      *)
LEMMA ForwardIsBackward ==
  ASSUME tokens \in Sources, NEW i \in 1 .. Len(tokens), Text(i) \in ItemOpeners,
         NEW j \in 1 .. i, Attributes(j).at = i,
         j <= ItemStart(i) \/ Text(j - 1) # "]"
  PROVE  j = ItemStart(i) /\ Attributes(j).names = AttributesBefore(i)
<1>1. Len(tokens) \in Nat /\ j \in 1 .. Len(tokens)
  BY TokensRead
<1>2. PICK n \in Nat : Run(j, n) /\ i = j + 3 * n
                       /\ Attributes(j).names = {Text(j + 3 * k + 1) : k \in 0 .. n - 1}
  BY <1>1, AttributesAre
<1> DEFINE m == AttributeCount(i)
<1>3. /\ m \in Nat /\ ~Attribute(i - 3 * (m + 1)) /\ ItemStart(i) = i - 3 * m
      /\ \A k \in 1 .. m : Attribute(i - 3 * k)
  BY AttributeCountIs DEF ItemStart
<1>10. n \in Nat /\ i \in Nat /\ j \in Nat /\ i = j + 3 * n /\ m \in Nat
  BY <1>2, <1>3
<1> HIDE DEF m
<1>4. ~(m < n)
  <2> SUFFICES ASSUME m < n PROVE FALSE
    OBVIOUS
  <2>1. n - (m + 1) \in 0 .. n - 1 /\ j + 3 * (n - (m + 1)) = i - 3 * (m + 1)
    BY <1>10
  <2> QED
    BY <1>2, <1>3, <2>1 DEF Run
<1>5. ~(n < m)
  <2> SUFFICES ASSUME n < m PROVE FALSE
    OBVIOUS
  <2>1. ~(j <= i - 3 * m)
    BY <1>10
  <2>2. n + 1 \in 1 .. m /\ i - 3 * (n + 1) = j - 3 /\ j - 3 \in Int /\ j - 3 + 2 = j - 1
    BY <1>10
  <2>3. Attribute(j - 3)
    BY <1>3, <2>2
  <2> QED
    BY <1>3, <2>1, <2>2, <2>3, AttributeWords
<1>6. n = m
  BY <1>10, <1>4, <1>5
<1>7. {Text(j + 3 * k + 1) : k \in 0 .. n - 1} = {Text(i - 3 * k + 1) : k \in 1 .. m}
  <2>1. ASSUME NEW k \in 0 .. n - 1 PROVE m - k \in 1 .. m /\ j + 3 * k + 1 = i - 3 * (m - k) + 1
    BY <1>10, <1>6
  <2>2. ASSUME NEW k \in 1 .. m PROVE n - k \in 0 .. n - 1 /\ j + 3 * (n - k) + 1 = i - 3 * k + 1
    BY <1>10, <1>6
  <2>3. {Text(j + 3 * k + 1) : k \in 0 .. n - 1} \subseteq {Text(i - 3 * k + 1) : k \in 1 .. m}
    BY <2>1
  <2>4. {Text(i - 3 * k + 1) : k \in 1 .. m} \subseteq {Text(j + 3 * k + 1) : k \in 0 .. n - 1}
    BY <2>2
  <2> QED
    BY <2>3, <2>4
<1>8. AttributesBefore(i) = {Text(i - 3 * k + 1) : k \in 1 .. m}
  BY DEF AttributesBefore, m
<1>9. j = ItemStart(i)
  BY <1>10, <1>3, <1>6
<1> QED
  BY <1>2, <1>7, <1>8, <1>9

-----------------------------------------------------------------------------
(* The values of a function in the order of its arguments. *)

More(f, q, i) == IF i \in DOMAIN f THEN Append(q, f[i]) ELSE q

LEMMA InOrderIs ==
  ASSUME NEW D, NEW S, NEW f \in [D -> S]
  PROVE  /\ \A n \in Nat : InOrder(f, n) \in Seq(S)
         /\ InOrder(f, 0) = <<>>
         /\ \A n \in Nat : InOrder(f, n + 1) = More(f, InOrder(f, n), n + 1)
<1> DEFINE G == [n \in Nat |-> [q \in Seq(S) |-> More(f, q, n)]]
<1>1. <<>> \in Seq(S)
  OBVIOUS
<1>2. ASSUME NEW q \in Seq(S), NEW n \in Nat PROVE More(f, q, n) \in Seq(S)
  <2>1. CASE n \in DOMAIN f
    <3>1. f[n] \in S
      BY <2>1
    <3>2. Append(q, f[n]) \in Seq(S)
      BY <3>1
    <3> QED
      BY <2>1, <3>2 DEF More
  <2> QED
    BY <2>1 DEF More
<1>3. G \in [Nat -> [Seq(S) -> Seq(S)]]
  BY <1>2
<1>4. PICK g \in [Nat -> Seq(S)] : Recursive(g, <<>>, G)
  <2> HIDE DEF G
  <2> QED
    BY <1>1, <1>3, RecursionExists, Zenon
<1>5. \A n \in Nat : n # 0 => n - 1 \in Nat /\ g[n - 1] \in Seq(S)
  OBVIOUS
<1>6. \A n \in Nat : n # 0 => G[n][g[n - 1]] = More(f, g[n - 1], n)
  BY <1>5
<1>7. g = [n \in Nat |-> IF n = 0 THEN <<>> ELSE More(f, g[n - 1], n)]
  <2> HIDE DEF G
  <2> QED
    BY <1>4, <1>6 DEF Recursive
<1> DEFINE u == CHOOSE h : h = [n \in Nat |-> IF n = 0 THEN <<>> ELSE More(f, h[n - 1], n)]
<1>8. \A n : InOrder(f, n) = u[n]
  BY DEF InOrder, More
<1>9. u = [n \in Nat |-> IF n = 0 THEN <<>> ELSE More(f, u[n - 1], n)]
  BY <1>7
<1> HIDE DEF u
<1>10. u[0] = <<>>
  BY <1>9
<1>11. ASSUME NEW n \in Nat PROVE u[n + 1] = More(f, u[n], n + 1)
  <2>1. n + 1 \in Nat /\ n + 1 # 0 /\ n + 1 - 1 = n
    OBVIOUS
  <2> QED
    BY <1>9, <2>1
<1>12. ASSUME NEW n \in Nat PROVE u[n] \in Seq(S)
  <2> DEFINE A == {m \in Nat : u[m] \in Seq(S)}
  <2>1. 0 \in A
    BY <1>1, <1>10
  <2>2. ASSUME NEW m \in Nat, m \in A PROVE m + 1 \in A
    <3>1. u[m] \in Seq(S) /\ m + 1 \in Nat
      BY <2>2
    <3>2. u[m + 1] \in Seq(S)
      BY <1>2, <1>11, <3>1
    <3> QED
      BY <3>1, <3>2
  <2> HIDE DEF A
  <2>3. n \in A
    BY <2>1, <2>2, EveryNumber
  <2> QED
    BY <2>3 DEF A
<1> QED
  BY <1>8, <1>10, <1>11, <1>12

LEMMA InOrderAdds ==
  ASSUME NEW D, NEW S, NEW f \in [D -> S], NEW n \in Nat
  PROVE  InOrder(f, n + 1) = More(f, InOrder(f, n), n + 1)
  BY InOrderIs

LEMMA InOrderSkips ==
  ASSUME NEW D, NEW S, NEW f \in [D -> S], NEW m \in Nat, NEW n \in Nat, m <= n,
         \A i \in m + 1 .. n : i \notin D
  PROVE  InOrder(f, n) = InOrder(f, m)
<1> DEFINE A == {k \in Nat : m + k <= n => InOrder(f, m + k) = InOrder(f, m)}
<1>1. 0 \in A
  OBVIOUS
<1>2. ASSUME NEW k \in Nat, k \in A PROVE k + 1 \in A
  <2> SUFFICES ASSUME m + (k + 1) <= n PROVE InOrder(f, m + (k + 1)) = InOrder(f, m)
    OBVIOUS
  <2>1. m + k \in Nat /\ m + (k + 1) = m + k + 1 /\ m + k + 1 \in m + 1 .. n /\ m + k <= n
    OBVIOUS
  <2>2. InOrder(f, m + k) = InOrder(f, m)
    BY <1>2, <2>1
  <2>3. InOrder(f, m + k + 1) = More(f, InOrder(f, m + k), m + k + 1)
    BY <2>1, InOrderIs
  <2>4. m + k + 1 \notin DOMAIN f
    BY <2>1
  <2> QED
    BY <2>1, <2>2, <2>3, <2>4 DEF More
<1> HIDE DEF A
<1>3. n - m \in Nat /\ m + (n - m) = n
  OBVIOUS
<1>4. n - m \in A
  BY <1>1, <1>2, <1>3, EveryNumber
<1> QED
  BY <1>3, <1>4 DEF A

(* What is in order is what the function has there, once each. *)
Ordered(D, f, n) ==
  /\ Len(InOrder(f, n)) \in 0 .. n
  /\ \A i \in D \cap 1 .. n : \E k \in DOMAIN InOrder(f, n) : InOrder(f, n)[k] = f[i]
  /\ \A k \in DOMAIN InOrder(f, n) : \E i \in D \cap 1 .. n : InOrder(f, n)[k] = f[i]

LEMMA InOrderHolds ==
  ASSUME NEW D, NEW S, NEW f \in [D -> S], NEW n \in Nat
  PROVE  Ordered(D, f, n)
<1> DEFINE P(m) ==
      /\ Len(InOrder(f, m)) \in 0 .. m
      /\ \A i \in D \cap 1 .. m : \E k \in DOMAIN InOrder(f, m) : InOrder(f, m)[k] = f[i]
      /\ \A k \in DOMAIN InOrder(f, m) : \E i \in D \cap 1 .. m : InOrder(f, m)[k] = f[i]
    A == {m \in Nat : P(m)}
<1>1. 0 \in A
  <2>1. InOrder(f, 0) = <<>>
    BY InOrderIs
  <2>2. Len(<<>>) = 0 /\ DOMAIN <<>> = {} /\ 1 .. 0 = {}
    OBVIOUS
  <2> QED
    BY <2>1, <2>2
<1>2. ASSUME NEW m \in Nat, m \in A PROVE m + 1 \in A
  <2> DEFINE q == InOrder(f, m)
             r == InOrder(f, m + 1)
  <2>1. P(m)
    BY <1>2
  <2>2. q \in Seq(S) /\ r = More(f, q, m + 1) /\ Len(q) \in Nat /\ DOMAIN q = 1 .. Len(q)
    <3>1. q \in Seq(S) /\ r = More(f, q, m + 1)
      BY InOrderIs
    <3> HIDE DEF q, r
    <3> QED
      BY <3>1
  <2>3. \A i \in D \cap 1 .. m + 1 : i \in D \cap 1 .. m \/ i = m + 1
    OBVIOUS
  <2>4. \A i \in D \cap 1 .. m : i \in D \cap 1 .. m + 1
    OBVIOUS
  <2>5. CASE m + 1 \in D
    <3>1. r = Append(q, f[m + 1]) /\ f[m + 1] \in S
      BY <2>2, <2>5 DEF More
    <3>2. q \in Seq(S) /\ Len(q) \in Nat /\ DOMAIN q = 1 .. Len(q)
      BY <2>2
    <3>3. Len(q) \in 0 .. m
      BY <2>1
    <3> HIDE DEF q, r
    <3>4. /\ Len(r) = Len(q) + 1 /\ DOMAIN r = 1 .. Len(q) + 1
          /\ r[Len(q) + 1] = f[m + 1]
          /\ \A k \in DOMAIN q : r[k] = q[k]
      BY <3>1, <3>2
    <3>5. Len(r) \in 0 .. m + 1
      BY <3>3, <3>4
    <3>6. ASSUME NEW i \in D \cap 1 .. m + 1 PROVE \E k \in DOMAIN r : r[k] = f[i]
      <4>1. CASE i = m + 1
        BY <3>2, <3>4, <4>1
      <4>2. CASE i \in D \cap 1 .. m
        <5>1. PICK k \in DOMAIN q : q[k] = f[i]
          BY <2>1, <4>2 DEF q
        <5>2. k \in DOMAIN r /\ r[k] = f[i]
          BY <3>2, <3>4, <5>1
        <5> QED
          BY <5>2
      <4> QED
        BY <2>3, <4>1, <4>2
    <3>7. ASSUME NEW k \in DOMAIN r PROVE \E i \in D \cap 1 .. m + 1 : r[k] = f[i]
      <4>1. CASE k = Len(q) + 1
        <5>1. m + 1 \in D \cap 1 .. m + 1
          BY <2>5
        <5> QED
          BY <3>4, <4>1, <5>1
      <4>2. CASE k # Len(q) + 1
        <5>1. k \in DOMAIN q
          BY <3>2, <3>4, <4>2
        <5>2. PICK i \in D \cap 1 .. m : q[k] = f[i]
          BY <2>1, <5>1 DEF q
        <5> QED
          BY <2>4, <3>4, <5>1, <5>2
      <4> QED
        BY <4>1, <4>2
    <3> QED
      BY <3>5, <3>6, <3>7 DEF r
  <2>6. CASE m + 1 \notin D
    <3>1. r = q
      BY <2>2, <2>6 DEF More
    <3>2. Len(q) \in 0 .. m + 1
      BY <2>1
    <3>3. \A i \in D \cap 1 .. m + 1 : i \in D \cap 1 .. m
      BY <2>3, <2>6
    <3> HIDE DEF q, r
    <3>4. /\ \A i \in D \cap 1 .. m : \E k \in DOMAIN q : q[k] = f[i]
          /\ \A k \in DOMAIN q : \E i \in D \cap 1 .. m : q[k] = f[i]
      BY <2>1 DEF q
    <3>5. P(m + 1)
      BY <2>4, <3>1, <3>2, <3>3, <3>4 DEF r
    <3> QED
      BY <3>5
  <2> QED
    BY <2>5, <2>6
<1> HIDE DEF A
<1>3. n \in A
  BY <1>1, <1>2, EveryNumber
<1> QED
  BY <1>3 DEF A, Ordered

-----------------------------------------------------------------------------
(* How a declaration reads. *)

LEMMA StructureReads ==
  ASSUME tokens \in Sources, NEW i \in Int, Text(i) = "struct"
  PROVE  LET d == structure(i)
         IN  /\ d.how \in {"ok", "error"} /\ d.at \in i + 1 .. Len(tokens)
             /\ d.how = "ok" => d.at = i + 2
             /\ d.how = "error" => d.at <= i + 2 \/ (d.at = i + 3 /\ Text(i + 1) = "open")
<1>1. /\ Text(i + 1) \in {"ok", "bad", "open", "range"} /\ i + 2 <= Len(tokens) /\ 1 <= i
      /\ Len(tokens) \in Nat
  BY OpenersOpen, TokensRead DEF ItemOpeners, Rests
<1>2. Text(i + 2) # Eof => i + 3 <= Len(tokens)
  <2>1. i + 2 \in Int
    OBVIOUS
  <2> QED
    BY <1>1, <2>1, TokensRead
<1> QED
  BY <1>1, <1>2 DEF structure, ReadsTo, Errs, TakesThenErrs

LEMMA EnumReads ==
  ASSUME tokens \in Sources, NEW i \in Int, Text(i) = "enum"
  PROVE  LET d == parse_enum(i)
         IN  /\ d.how \in {"ok", "error"} /\ d.at \in i + 1 .. Len(tokens)
             /\ d.how = "ok" /\ ~Swallowed(i) => d.at = i + 2
             /\ d.how = "error" =>
                  d.at <= i + 2 \/ \A k \in i + 2 .. Len(tokens) : Text(k) \notin Closed
<1> DEFINE j == First(i + 2, Closed \cup {Eof})
<1>1. /\ Text(i + 1) \in {"ok", "bad", "open", "range"} /\ i + 2 <= Len(tokens) /\ 1 <= i
      /\ Len(tokens) \in Nat
  BY OpenersOpen, TokensRead DEF ItemOpeners, Rests
<1>2. CASE Text(i + 1) # "open"
  BY <1>1, <1>2 DEF parse_enum, ReadsTo, Errs, Swallowed
<1>3. CASE Text(i + 1) = "open"
  <2>1. i + 2 \in 1 .. Len(tokens)
    BY <1>1
  <2>2. /\ j \in i + 2 .. Len(tokens) /\ Text(j) \in Closed \cup {Eof}
        /\ \A k \in i + 2 .. j - 1 : Text(k) \notin Closed \cup {Eof}
    BY <2>1, FirstIs
  <2>3. parse_enum(i) = IF Text(j) = Eof THEN Errs(j) ELSE ReadsTo(j + 1)
    BY <1>3 DEF parse_enum, Swallowed
  <2> HIDE DEF j
  <2>4. CASE Text(j) = Eof
    <3>1. j = Len(tokens)
      <4>1. j \in Int /\ 1 <= j /\ j <= Len(tokens)
        BY <1>1, <2>2
      <4>2. j \notin 1 .. Len(tokens) - 1
        BY <2>4, <4>1, TokensRead
      <4> QED
        BY <1>1, <4>1, <4>2
    <3>2. Text(j) \notin Closed
      BY <2>4 DEF Eof, Closed
    <3>3. \A k \in i + 2 .. Len(tokens) : k \in i + 2 .. j - 1 \/ k = j
      BY <3>1, <1>1
    <3>4. \A k \in i + 2 .. Len(tokens) : Text(k) \notin Closed
      BY <2>2, <3>2, <3>3
    <3>5. parse_enum(i).how = "error" /\ parse_enum(i).at = j
      BY <2>3, <2>4 DEF Errs
    <3>6. j \in i + 1 .. Len(tokens)
      BY <1>1, <2>2
    <3> QED
      BY <3>4, <3>5, <3>6
  <2>5. CASE Text(j) # Eof
    <3>1. j + 1 \in i + 1 .. Len(tokens)
      BY <1>1, <2>2, <2>5, TokensRead
    <3>2. parse_enum(i).how = "ok" /\ parse_enum(i).at = j + 1
      BY <2>3, <2>5 DEF ReadsTo
    <3> QED
      BY <1>3, <3>1, <3>2 DEF Swallowed
  <2> QED
    BY <2>4, <2>5
<1> QED
  BY <1>2, <1>3

LEMMA FunctionReads ==
  ASSUME tokens \in Sources, NEW i \in 1 .. Len(tokens), Text(i) \notin {"struct", "enum"}
  PROVE  LET d == function(i)
             f == Attributes(i).at
         IN  /\ f \in i .. Len(tokens)
             /\ d.how \in {"ok", "error", "escape"}
             /\ d.how = "ok" => Text(f) = "fn" /\ Text(f + 1) = "ok" /\ d.at = f + 2
             /\ d.how # "escape" => d.at \in f .. Len(tokens)
             /\ d.how = "error" =>
                  /\ Text(f) = "fn" => Text(f + 1) # "ok"
                  /\ d.at > f => Text(f) \in {"fn", "#["}
                  /\ d.at <= f + 2 \/ (d.at = f + 3 /\ Text(f) = "fn" /\ Text(f + 1) = "open")
             /\ Text(f) = "fn" /\ Text(f + 1) = "ok" => d = ReadsTo(f + 2)
             /\ Text(f) \notin {"fn", "#["} => d = Errs(f)
<1> DEFINE f == Attributes(i).at
<1>1. f \in i .. Len(tokens) /\ Len(tokens) \in Nat
  BY AttributesAre, TokensRead
<1> HIDE DEF f
<1>2. CASE Text(f) = "fn"
  <2>1. Text(f + 1) \in {"ok", "bad", "open", "range"} /\ f + 2 <= Len(tokens)
    BY <1>1, <1>2, OpenersOpen DEF ItemOpeners, Rests
  <2>2. Text(f + 2) # Eof => f + 3 <= Len(tokens)
    <3>1. f + 2 \in Int
      BY <1>1
    <3> QED
      BY <1>1, <2>1, <3>1, TokensRead
  <2> QED
    BY <1>1, <1>2, <2>1, <2>2 DEF function, ReadsTo, Errs, Escapes, TakesThenErrs, f
<1>3. CASE Text(f) = "#["
  <2>1. f + 1 <= Len(tokens) /\ (Text(f + 1) # Eof => f + 2 <= Len(tokens))
    <3>1. f + 1 \in Int /\ f \in Int /\ Text(f) # Eof
      BY <1>1, <1>3 DEF Eof
    <3> QED
      BY <1>1, <3>1, TokensRead
  <2> QED
    BY <1>1, <1>3, <2>1 DEF function, Errs, f
<1>4. CASE Text(f) \notin {"fn", "#["}
  BY <1>1, <1>4 DEF function, Errs, f
<1> QED
  BY <1>2, <1>3, <1>4

LEMMA SemicolonIs ==
  /\ Semicolon \notin {"struct", "enum", "fn", "import", "#[", "]"}
  /\ Semicolon \notin {"ok", "bad", "open", "range"}
  /\ Semicolon # Eof
  BY Zenon DEF Semicolon, Eof

(* What an import line is made of. *)
LEMMA ImportsAre ==
  ASSUME tokens \in Sources
  PROVE  /\ ImportsEnd \in 1 .. Len(tokens)
         /\ \A j \in 1 .. ImportsEnd - 1 : Text(j) \notin ItemOpeners
         /\ ImportsEnd > 1 =>
              /\ ImportsEnd >= 4
              /\ Text(ImportsEnd - 1) = Semicolon /\ Text(ImportsEnd - 3) = "import"
<1> DEFINE P(n) == ~Import(1 + 3 * n) /\ \A k \in 0 .. n - 1 : Import(1 + 3 * k)
           T == {n \in Nat : ~Import(1 + 3 * n)}
           m == CHOOSE n \in 0 .. Len(tokens) : P(n)
<1>1. Len(tokens) \in Nat /\ 1 <= Len(tokens)
  BY TokensRead
<1>2. ASSUME NEW i \in Int, Import(i)
      PROVE  /\ 1 <= i /\ i + 3 <= Len(tokens)
             /\ \A j \in i .. i + 2 : Text(j) \notin ItemOpeners
             /\ Text(i) = "import" /\ Text(i + 2) = Semicolon
  <2>1. i + 1 \in Int /\ i + 2 \in Int /\ i + 2 - 1 = i + 1
    OBVIOUS
  <2>2. Text(i) = "import" /\ Text(i + 2) = Semicolon
    BY <1>2 DEF Import
  <2>3. Text(i) # Eof /\ Text(i + 2) # Eof /\ Text(i + 2) \notin Rests
    BY <2>2, SemicolonIs DEF Eof, Rests
  <2>4. Text(i + 1) \notin ItemOpeners
    BY <2>1, <2>3, TokensRead
  <2>5. Text(i) \notin ItemOpeners /\ Text(i + 2) \notin ItemOpeners
    BY <2>2, SemicolonIs DEF ItemOpeners
  <2>6. i \in 1 .. Len(tokens) - 1 /\ i + 2 \in 1 .. Len(tokens) - 1
    BY <2>1, <2>3, TokensRead
  <2>7. 1 <= i /\ i + 3 <= Len(tokens)
    BY <1>1, <2>6
  <2>8. \A j \in i .. i + 2 : j = i \/ j = i + 1 \/ j = i + 2
    OBVIOUS
  <2> QED
    BY <2>2, <2>4, <2>5, <2>7, <2>8
<1>3. Len(tokens) \in T
  <2>1. 1 + 3 * Len(tokens) \in Int /\ ~(1 + 3 * Len(tokens) + 3 <= Len(tokens))
    BY <1>1
  <2> QED
    BY <1>1, <1>2, <2>1
<1>4. PICK n \in T : \A k \in T : n <= k
  <2>1. T \subseteq Nat /\ T # {}
    BY <1>3
  <2> HIDE DEF T
  <2> QED
    BY <2>1, LeastExists
<1>5. n \in 0 .. Len(tokens) /\ P(n)
  <2>1. n \in Nat /\ ~Import(1 + 3 * n) /\ n <= Len(tokens)
    BY <1>1, <1>3, <1>4
  <2>2. ASSUME NEW k \in 0 .. n - 1 PROVE Import(1 + 3 * k)
    <3>1. k \in Nat /\ ~(n <= k)
      BY <2>1
    <3> QED
      BY <1>4, <3>1
  <2> QED
    BY <1>1, <2>1, <2>2
<1>6. m \in 0 .. Len(tokens) /\ P(m)
  BY <1>5
<1>7. ImportsEnd = 1 + 3 * m
  BY DEF ImportsEnd
<1> HIDE DEF m
<1>8. m \in Nat
  BY <1>1, <1>6
<1>9. CASE m = 0
  BY <1>1, <1>7, <1>9
<1>10. CASE m # 0
  <2>1. m - 1 \in 0 .. m - 1 /\ 1 + 3 * (m - 1) \in Int
    BY <1>8, <1>10
  <2>2. Import(1 + 3 * (m - 1))
    BY <1>6, <2>1
  <2>3. /\ 1 + 3 * (m - 1) + 3 <= Len(tokens)
        /\ Text(1 + 3 * (m - 1)) = "import" /\ Text(1 + 3 * (m - 1) + 2) = Semicolon
    BY <1>2, <2>1, <2>2
  <2>4. /\ 1 + 3 * (m - 1) = ImportsEnd - 3 /\ 1 + 3 * (m - 1) + 2 = ImportsEnd - 1
        /\ 1 + 3 * (m - 1) + 3 = ImportsEnd /\ ImportsEnd \in Nat /\ 4 <= ImportsEnd
    BY <1>7, <1>8, <1>10
  <2>5. ASSUME NEW j \in 1 .. ImportsEnd - 1 PROVE Text(j) \notin ItemOpeners
    <3> DEFINE k == (j - 1) \div 3
    <3>1. k \in 0 .. m - 1 /\ 1 + 3 * k \in Int /\ j \in 1 + 3 * k .. 1 + 3 * k + 2
      BY <1>7, <1>8
    <3> HIDE DEF k
    <3>2. Import(1 + 3 * k)
      BY <1>6, <3>1
    <3> QED
      BY <1>2, <3>1, <3>2
  <2>6. Text(ImportsEnd - 1) = Semicolon /\ Text(ImportsEnd - 3) = "import"
    BY <2>3, <2>4
  <2>7. ImportsEnd \in 1 .. Len(tokens)
    <3>1. 1 + 3 * (m - 1) + 3 <= Len(tokens)
      BY <2>3
    <3>2. 1 + 3 * (m - 1) + 3 = ImportsEnd
      BY <2>4
    <3>3. ImportsEnd <= Len(tokens)
      BY <3>1, <3>2
    <3>4. ImportsEnd \in Nat /\ 4 <= ImportsEnd
      BY <2>4
    <3> QED
      BY <1>1, <3>3, <3>4
  <2> QED
    BY <2>4, <2>5, <2>6, <2>7
<1> QED
  BY <1>9, <1>10

-----------------------------------------------------------------------------
(* The functions of a file that read well, and are not right behind        *)
(* something that is not closed.                                           *)

IsGood(i) ==
  /\ i \in Functions
  /\ Text(i + 1) = "ok"
  /\ Text(ItemStart(i) - 1) \notin {"open", "#["}

LEMMA FunctionsAre ==
  ASSUME tokens \in Sources, NEW i \in Functions
  PROVE  /\ i \in 1 .. Len(tokens) /\ i + 2 <= Len(tokens) /\ Text(i) = "fn" /\ Text(i) \in ItemOpeners
         /\ i + 1 \notin Functions
<1>1. i \in 1 .. Len(tokens) /\ Len(tokens) \in Nat /\ Text(i) = "fn" /\ Text(i + 1) \in Rests
  BY TokensRead DEF Functions
<1>2. Text(i) \in ItemOpeners /\ i \in Int
  BY <1>1 DEF ItemOpeners
<1>3. i + 2 <= Len(tokens)
  BY <1>2, OpenersOpen
<1>4. Text(i + 1) # "fn"
  BY <1>1 DEF Rests
<1> QED
  BY <1>1, <1>2, <1>3, <1>4 DEF Functions

LEMMA GoodIsBehind ==
  ASSUME tokens \in Sources, NEW g, IsGood(g)
  PROVE  Text(g - 1) \notin {"open", "#["}
<1>1. g \in 1 .. Len(tokens)
  BY FunctionsAre DEF IsGood
<1> DEFINE n == AttributeCount(g)
<1>2. n \in Nat /\ ItemStart(g) = g - 3 * n /\ \A k \in 1 .. n : Attribute(g - 3 * k)
  BY <1>1, AttributeCountIs DEF ItemStart
<1> HIDE DEF n
<1>3. CASE n = 0
  <2>1. ItemStart(g) = g
    BY <1>1, <1>2, <1>3
  <2> QED
    BY <2>1 DEF IsGood
<1>4. CASE n # 0
  <2>1. 1 \in 1 .. n /\ g - 3 * 1 = g - 3 /\ g - 3 \in Int /\ g - 3 + 2 = g - 1
    BY <1>1, <1>2, <1>4
  <2>2. Attribute(g - 3)
    BY <1>2, <2>1
  <2>3. Text(g - 1) = "]"
    BY <2>1, <2>2, AttributeWords
  <2> QED
    BY <2>3
<1> QED
  BY <1>3, <1>4

(* Recovery goes no further than the next function. *)
LEMMA SkipsToFunction ==
  ASSUME tokens \in Sources, NEW g \in Functions, NEW i \in 1 .. Len(tokens), i <= g
  PROVE  skip_to_decl(i) <= g
<1> DEFINE j == First(i, Keywords \cup {Eof})
<1>1. j \in i .. Len(tokens) /\ \A k \in i .. j - 1 : Text(k) \notin Keywords \cup {Eof}
  BY FirstIs
<1>2. g \in 1 .. Len(tokens) /\ Len(tokens) \in Nat /\ Text(g) \in Keywords \cup {Eof}
  BY FunctionsAre, TokensRead DEF Keywords
<1> HIDE DEF j
<1>3. j <= g
  BY <1>1, <1>2
<1> QED
  BY <1>3 DEF skip_to_decl, j

(* No step of the loop passes a good function but the one that collects    *)
(* it, unless an enum swallows it.                                         *)
LEMMA NonePassed ==
  ASSUME tokens \in Sources, NEW i \in 1 .. Len(tokens), Text(i) # Eof,
         NEW g, IsGood(g), i <= g
  PROVE  LET d == Declaration(i)
         IN  /\ d.how = "ok" => \/ Text(i) = "enum" /\ Swallowed(i)
                                \/ d.at <= g
                                \/ Text(i) \notin {"struct", "enum"} /\ Attributes(i).at = g
             /\ d.how = "error" => skip_to_decl(d.at) <= g
<1> DEFINE d == Declaration(i)
<1>1. /\ g \in Functions /\ g \in 1 .. Len(tokens) /\ g + 2 <= Len(tokens) /\ Len(tokens) \in Nat
      /\ Text(g) = "fn" /\ Text(g) \in ItemOpeners /\ Text(g + 1) = "ok"
      /\ Text(g - 1) \notin {"open", "#["}
  BY FunctionsAre, GoodIsBehind, TokensRead DEF IsGood
<1>2. ASSUME NEW q \in Int, q <= g, q # g, Text(q) \in ItemOpeners PROVE q + 2 <= g
  <2>1. Text(q + 1) \in Rests
    BY <1>2, OpenersOpen
  <2>2. Text(q + 1) # "fn"
    BY <2>1 DEF Rests
  <2> QED
    BY <1>1, <1>2, <2>2
<1>3. ASSUME NEW q \in Int, q + 2 <= g, Text(q + 1) \in {"open", "#["} PROVE q + 3 <= g
  <2>1. q + 2 # g
    <3> SUFFICES ASSUME q + 2 = g PROVE FALSE
      OBVIOUS
    <3>1. g - 1 = q + 1
      BY <1>3
    <3> QED
      BY <1>1, <1>3, <3>1
  <2> QED
    BY <1>1, <1>3, <2>1
<1>4. CASE Text(i) = "struct"
  <2>1. d = structure(i)
    BY <1>4 DEF Declaration
  <2>2. i + 2 <= g
    BY <1>1, <1>2, <1>4 DEF ItemOpeners
  <2>3. /\ d.at \in i + 1 .. Len(tokens)
        /\ d.how = "ok" => d.at = i + 2
        /\ d.how = "error" => d.at <= i + 2 \/ (d.at = i + 3 /\ Text(i + 1) = "open")
    BY <1>4, <2>1, StructureReads
  <2> HIDE DEF d
  <2>4. d.at \in 1 .. Len(tokens) /\ (d.how \in {"ok", "error"} => d.at <= g)
    BY <1>1, <1>3, <2>2, <2>3
  <2>5. d.how = "error" => skip_to_decl(d.at) <= g
    BY <1>1, <2>4, SkipsToFunction
  <2> QED
    BY <2>4, <2>5 DEF d
<1>5. CASE Text(i) = "enum"
  <2>1. d = parse_enum(i)
    BY <1>5 DEF Declaration
  <2>2. i + 2 <= g
    BY <1>1, <1>2, <1>5 DEF ItemOpeners
  <2>3. /\ d.at \in i + 1 .. Len(tokens)
        /\ d.how = "ok" /\ ~Swallowed(i) => d.at = i + 2
        /\ d.how = "error" =>
             d.at <= i + 2 \/ \A k \in i + 2 .. Len(tokens) : Text(k) \notin Closed
    BY <1>5, <2>1, EnumReads
  <2>4. g + 1 \in i + 2 .. Len(tokens) /\ Text(g + 1) \in Closed
    BY <1>1, <2>2 DEF Closed
  <2> HIDE DEF d
  <2>5. d.at \in 1 .. Len(tokens) /\ (d.how = "error" => d.at <= g)
    BY <1>1, <2>2, <2>3, <2>4
  <2>6. d.how = "error" => skip_to_decl(d.at) <= g
    BY <1>1, <2>5, SkipsToFunction
  <2>7. d.how = "ok" /\ ~Swallowed(i) => d.at <= g
    BY <2>2, <2>3
  <2> QED
    BY <1>5, <2>6, <2>7 DEF d
<1>6. CASE Text(i) \notin {"struct", "enum"}
  <2> DEFINE f == Attributes(i).at
  <2>1. d = function(i)
    BY <1>6 DEF Declaration
  <2>2. /\ f \in i .. Len(tokens)
        /\ d.how = "ok" => Text(f) = "fn" /\ d.at = f + 2
        /\ d.how # "escape" => d.at \in f .. Len(tokens)
        /\ d.how = "error" =>
             /\ Text(f) = "fn" => Text(f + 1) # "ok"
             /\ d.at > f => Text(f) \in {"fn", "#["}
             /\ d.at <= f + 2 \/ (d.at = f + 3 /\ Text(f) = "fn" /\ Text(f + 1) = "open")
    BY <1>6, <2>1, FunctionReads
  <2>3. f <= g
    <3>1. PICK n \in Nat : Run(i, n) /\ f = i + 3 * n
      BY AttributesAre
    <3>2. \A j \in i .. i + 3 * n - 1 : Text(j) \notin ItemOpeners
      BY <3>1, RunWords
    <3> HIDE DEF f
    <3> QED
      BY <1>1, <2>2, <3>1, <3>2
  <2>4. d.how = "ok" => d.at <= g \/ f = g
    <3> SUFFICES ASSUME d.how = "ok", f # g PROVE d.at <= g
      OBVIOUS
    <3>1. Text(f) \in ItemOpeners /\ d.at = f + 2 /\ f \in Int
      BY <2>2 DEF ItemOpeners
    <3> HIDE DEF f, d
    <3> QED
      BY <1>2, <2>3, <3>1
  <2>5. d.how = "error" => d.at <= g /\ d.at \in 1 .. Len(tokens)
    <3> SUFFICES ASSUME d.how = "error" PROVE d.at <= g /\ d.at \in 1 .. Len(tokens)
      OBVIOUS
    <3> HIDE DEF f, d
    <3>1. /\ d.at \in f .. Len(tokens) /\ f \in Int /\ d.at \in Int /\ 1 <= f
          /\ Text(f) = "fn" => Text(f + 1) # "ok"
          /\ d.at > f => Text(f) \in {"fn", "#["}
          /\ d.at <= f + 2 \/ (d.at = f + 3 /\ Text(f) = "fn" /\ Text(f + 1) = "open")
      BY <2>2
    <3>2. CASE d.at = f
      BY <1>1, <2>3, <3>1, <3>2
    <3>3. CASE d.at # f /\ Text(f) = "fn"
      <4>1. f # g
        BY <1>1, <3>1, <3>3
      <4>2. f + 2 <= g
        BY <1>2, <2>3, <3>1, <3>3, <4>1 DEF ItemOpeners
      <4>3. d.at = f + 3 => f + 3 <= g
        BY <1>3, <3>1, <4>2
      <4> QED
        BY <1>1, <3>1, <4>2, <4>3
    <3>4. CASE d.at # f /\ Text(f) = "#["
      <4>1. f # g /\ d.at <= f + 2
        BY <1>1, <3>1, <3>4
      <4>2. f + 1 # g
        <5> SUFFICES ASSUME f + 1 = g PROVE FALSE
          OBVIOUS
        <5>1. g - 1 = f
          BY <3>1
        <5> QED
          BY <1>1, <3>4, <5>1
      <4> QED
        BY <1>1, <2>3, <3>1, <4>1, <4>2
    <3>5. d.at = f \/ Text(f) \in {"fn", "#["}
      BY <3>1
    <3> QED
      BY <3>2, <3>3, <3>4, <3>5
  <2>6. d.how = "error" => skip_to_decl(d.at) <= g
    BY <1>1, <2>5, SkipsToFunction
  <2> QED
    BY <1>6, <2>4, <2>6
<1> QED
  BY <1>4, <1>5, <1>6

(* A step collects at most one function, and the functions it passes are   *)
(* no others.                                                              *)
LEMMA PassedIsCollected ==
  ASSUME tokens \in Sources, NEW i \in 1 .. Len(tokens), Text(i) # Eof,
         Declaration(i).how = "ok", ~(Text(i) = "enum" /\ Swallowed(i)),
         NEW g \in Functions, i <= g, g < Declaration(i).at
  PROVE  Text(i) \notin {"struct", "enum"} /\ g = Attributes(i).at
<1> DEFINE d == Declaration(i)
<1>1. g \in Int /\ Text(g) = "fn" /\ Text(g) \in ItemOpeners
  BY FunctionsAre
<1>2. CASE Text(i) \in {"struct", "enum"}
  <2>1. d.at = i + 2
    <3>1. Text(i) = "struct" => d = structure(i)
      BY DEF Declaration
    <3>2. Text(i) = "enum" => d = parse_enum(i)
      BY DEF Declaration
    <3>3. Text(i) = "struct" => d.at = i + 2
      BY <3>1, StructureReads
    <3>4. Text(i) = "enum" => d.at = i + 2
      BY <3>2, EnumReads
    <3> QED
      BY <1>2, <3>3, <3>4
  <2>2. Text(i + 1) \in Rests
    BY <1>2, OpenersOpen DEF ItemOpeners
  <2>3. Text(i) # "fn" /\ Text(i + 1) # "fn"
    BY <1>2, <2>2 DEF Rests
  <2>4. g = i \/ g = i + 1
    BY <1>1, <2>1
  <2> QED
    BY <1>1, <2>3, <2>4
<1>3. CASE Text(i) \notin {"struct", "enum"}
  <2> DEFINE f == Attributes(i).at
  <2>1. d = function(i)
    BY <1>3 DEF Declaration
  <2>2. f \in i .. Len(tokens) /\ Text(f) = "fn" /\ d.at = f + 2
    BY <1>3, <2>1, FunctionReads
  <2>3. PICK n \in Nat : Run(i, n) /\ f = i + 3 * n
    BY AttributesAre
  <2>4. g \notin i .. f - 1
    <3>1. \A j \in i .. i + 3 * n - 1 : Text(j) \notin ItemOpeners
      BY <2>3, RunWords
    <3> QED
      BY <1>1, <2>3, <3>1
  <2>5. Text(f + 1) \in Rests
    BY <2>2, OpenersOpen DEF ItemOpeners
  <2>6. Text(f + 1) # "fn"
    BY <2>5 DEF Rests
  <2> HIDE DEF f
  <2>7. f \in Int /\ g # f + 1
    BY <1>1, <2>2, <2>6
  <2>8. g < f + 2
    BY <2>2
  <2> QED
    BY <1>1, <1>3, <2>4, <2>7, <2>8 DEF f
<1> QED
  BY <1>2, <1>3

-----------------------------------------------------------------------------
(* Where nothing is wrong before a function, the loop comes to the         *)
(* beginning of its attributes.                                            *)

Starters == ItemOpeners \cup {"#["}

LEMMA Outside ==
  ASSUME tokens \in Sources, NEW g \in Functions, NEW q \in Int, q < g, Text(q) \in ItemOpeners
  PROVE  q + 2 <= ItemStart(g)
<1>1. g \in 1 .. Len(tokens) /\ Text(g) = "fn"
  BY FunctionsAre
<1> DEFINE n == AttributeCount(g)
           s == g - 3 * n
<1>2. /\ n \in Nat /\ ItemStart(g) = s /\ s \in 1 .. g
      /\ \A k \in 1 .. n : Attribute(g - 3 * k)
  BY <1>1, AttributeCountIs DEF ItemStart
<1> HIDE DEF n
<1>3. Run(s, n)
  <2>1. ASSUME NEW k \in 0 .. n - 1 PROVE Attribute(s + 3 * k)
    <3>1. n - k \in 1 .. n /\ g - 3 * (n - k) = s + 3 * k
      BY <1>1, <1>2
    <3> QED
      BY <1>2, <3>1
  <2> QED
    BY <2>1 DEF Run
<1>4. g = s + 3 * n /\ s \in Int
  BY <1>1, <1>2
<1> HIDE DEF s
<1>5. \A j \in s .. s + 3 * n - 1 : Text(j) \notin ItemOpeners
  BY <1>2, <1>3, <1>4, RunWords
<1>6. q < s
  <2> SUFFICES ASSUME s <= q PROVE FALSE
    BY <1>4
  <2>1. q \in s .. s + 3 * n - 1
    BY <1>1, <1>2, <1>4
  <2> QED
    BY <1>5, <2>1
<1>7. Text(q + 1) \in Rests
  BY OpenersOpen
<1>8. Text(s) \in {"fn", "#["}
  <2>1. CASE n = 0
    BY <1>1, <1>4, <2>1
  <2>2. CASE n # 0
    <3>1. 0 \in 0 .. n - 1 /\ s + 3 * 0 = s
      BY <1>2, <1>4, <2>2
    <3>2. Attribute(s)
      BY <1>3, <3>1 DEF Run
    <3> QED
      BY <3>2 DEF Attribute
  <2> QED
    BY <2>1, <2>2
<1>9. s # q + 1
  BY <1>7, <1>8 DEF Rests
<1> QED
  BY <1>2, <1>4, <1>6, <1>9

LEMMA CleanWords ==
  ASSUME tokens \in Sources, NEW j \in Int, Clean(j)
  PROVE  /\ Text(j - 1) \in Rests \cup {Semicolon, "]", Eof} => Text(j) \in Starters
         /\ Text(j) \in {"struct", "fn"} => Text(j + 1) = "ok"
         /\ Text(j) = "enum" => Text(j + 1) \in {"ok", "range"}
         /\ Text(j) = "#[" => Attribute(j)
<1>1. Text(j) \in Rests => Text(j - 1) \in ItemOpeners
  BY TokensRead
<1>2. CASE Text(j) \in {"struct", "fn"} /\ Text(j + 1) = "ok"
  BY <1>2 DEF Starters, ItemOpeners
<1>3. CASE Text(j) = "enum" /\ Text(j + 1) \in {"ok", "range"}
  BY <1>3 DEF Starters, ItemOpeners
<1>4. CASE Text(j) \in Rests
  <2>1. Text(j) \notin {"struct", "fn", "enum", "#["}
    BY <1>4 DEF Rests
  <2>2. Text(j - 1) \notin Rests \cup {Semicolon, "]", Eof}
    BY <1>1, <1>4, SemicolonIs DEF Rests, ItemOpeners, Eof
  <2> QED
    BY <2>1, <2>2
<1>5. CASE Attribute(j) /\ PlainWord(Text(j + 1))
  BY <1>5 DEF Attribute, Starters
<1>6. CASE PlainWord(Text(j)) /\ Text(j - 1) = "#["
  <2>1. Text(j) \notin {"struct", "enum", "fn", "#["}
    BY <1>6 DEF PlainWord, Keywords
  <2>2. Text(j - 1) \notin Rests \cup {Semicolon, "]", Eof}
    BY <1>6, SemicolonIs DEF Rests, Eof
  <2> QED
    BY <2>1, <2>2
<1>7. CASE Text(j) = "]" /\ PlainWord(Text(j - 1)) /\ Text(j - 2) = "#["
  <2>1. Text(j - 1) \notin Rests \cup {Semicolon, "]", Eof}
    BY <1>7 DEF PlainWord
  <2> QED
    BY <1>7, <2>1
<1> QED
  BY <1>2, <1>3, <1>4, <1>5, <1>6, <1>7 DEF Clean

LEMMA FirstInPlace ==
  ASSUME tokens \in Sources, NEW g \in Functions, NothingWrongBefore(g)
  PROVE  ImportsEnd <= ItemStart(g) /\ Text(ImportsEnd) \in Starters
<1> DEFINE e == ImportsEnd
<1>1. /\ e \in 1 .. Len(tokens) /\ Len(tokens) \in Nat /\ e \in Int
      /\ \A j \in 1 .. e - 1 : Text(j) \notin ItemOpeners
      /\ e > 1 => e >= 4 /\ Text(e - 1) = Semicolon /\ Text(e - 3) = "import"
  BY ImportsAre, TokensRead
<1>2. g \in 1 .. Len(tokens) /\ Text(g) = "fn" /\ Text(g) \in ItemOpeners
  BY FunctionsAre
<1>3. \A j \in e .. g - 1 : Clean(j)
  BY DEF NothingWrongBefore
<1> HIDE DEF e
<1>4. e <= g
  BY <1>1, <1>2
<1>5. Text(e - 1) \in {Semicolon, Eof}
  <2>1. CASE e = 1
    <3>1. e - 1 \in Int /\ e - 1 \notin 1 .. Len(tokens) - 1
      BY <2>1
    <3> QED
      BY <3>1, TokensRead
  <2>2. CASE e # 1
    BY <1>1, <2>2
  <2> QED
    BY <2>1, <2>2
<1>6. Text(e) \in Starters
  <2>1. CASE e = g
    BY <1>2, <2>1 DEF Starters
  <2>2. CASE e # g
    <3>1. Clean(e)
      BY <1>1, <1>2, <1>3, <1>4, <2>2
    <3> QED
      BY <1>1, <1>5, <3>1, CleanWords
  <2> QED
    BY <2>1, <2>2
<1>7. e <= ItemStart(g)
  <2> SUFFICES ASSUME ItemStart(g) < e PROVE FALSE
    BY <1>1, <1>2, AttributeCountIs
  <2> DEFINE n == AttributeCount(g)
             k == ((g - e) \div 3) + 1
             p == g - 3 * k
  <2>1. n \in Nat /\ ItemStart(g) = g - 3 * n /\ \A m \in 1 .. n : Attribute(g - 3 * m)
    BY <1>2, AttributeCountIs DEF ItemStart
  <2> HIDE DEF n
  <2>2. k \in 1 .. n /\ p \in e - 3 .. e - 1 /\ p \in Int
    BY <1>1, <1>2, <1>4, <2>1
  <2> HIDE DEF k
  <2>3. Attribute(p)
    BY <2>1, <2>2
  <2> HIDE DEF p
  <2>4. 1 <= p /\ Text(p) = "#[" /\ Text(p + 2) = "]"
    BY <2>2, <2>3, AttributeWords
  <2>5. e > 1
    BY <1>1, <2>2, <2>4
  <2>6. Text(e - 1) = Semicolon /\ Text(e - 3) = "import"
    BY <1>1, <2>5
  <2>7. p = e - 3 \/ p = e - 2 \/ p = e - 1
    BY <1>1, <2>2
  <2>8. p = e - 2
    BY <2>4, <2>6, <2>7, SemicolonIs
  <2>9. Text(e) = "]"
    <3>1. p + 2 = e
      BY <1>1, <2>8
    <3> QED
      BY <2>4, <3>1
  <2> QED
    BY <1>6, <2>9 DEF Starters, ItemOpeners
<1> QED
  BY <1>6, <1>7 DEF e

(* The place behind a declaration that reads well, when the next function  *)
(* is still to come.                                                       *)
LEMMA BehindDeclaration ==
  ASSUME tokens \in Sources, NEW g \in Functions, NothingWrongBefore(g),
         NEW q \in Int, Text(q) \in ItemOpeners, ImportsEnd <= q, q < g
  PROVE  q + 2 <= ItemStart(g) /\ Text(q + 2) \in Starters
<1>1. q + 2 <= ItemStart(g) /\ Text(q + 1) \in Rests
  BY Outside, OpenersOpen
<1>2. g \in 1 .. Len(tokens) /\ Text(g) \in ItemOpeners /\ ItemStart(g) \in 1 .. g
  BY FunctionsAre, AttributeCountIs
<1>3. ImportsEnd \in Int
  BY ImportsAre
<1>4. CASE q + 2 = g
  BY <1>1, <1>2, <1>4 DEF Starters
<1>5. CASE q + 2 # g
  <2>1. q + 2 \in ImportsEnd .. g - 1 /\ q + 2 \in Int /\ q + 2 - 1 = q + 1
    BY <1>1, <1>2, <1>3, <1>5
  <2>2. Clean(q + 2)
    BY <2>1 DEF NothingWrongBefore
  <2> QED
    BY <1>1, <2>1, <2>2, CleanWords
<1> QED
  BY <1>1, <1>4, <1>5

LEMMA StaysInPlace ==
  ASSUME tokens \in Sources, NEW g, IsGood(g), NothingWrongBefore(g),
         NEW i \in 1 .. Len(tokens), ImportsEnd <= i, i <= ItemStart(g), Text(i) \in Starters
  PROVE  LET d == Declaration(i)
             next == IF d.how = "ok" THEN d.at ELSE skip_to_decl(d.at)
         IN  /\ d.how \in {"ok", "error"}
             /\ ~(Text(i) = "enum" /\ Swallowed(i) /\ i <= g)
             /\ next <= g => next <= ItemStart(g) /\ Text(next) \in Starters
<1> DEFINE d == Declaration(i)
           next == IF d.how = "ok" THEN d.at ELSE skip_to_decl(d.at)
<1>1. /\ g \in Functions /\ g \in 1 .. Len(tokens) /\ Text(g) = "fn" /\ Text(g + 1) = "ok"
      /\ ItemStart(g) \in 1 .. g /\ Len(tokens) \in Nat
  BY FunctionsAre, AttributeCountIs, TokensRead DEF IsGood
<1>2. i <= g
  BY <1>1
<1>3. i < g => Clean(i)
  <2>1. ImportsEnd \in Int
    BY ImportsAre
  <2>2. i < g => i \in ImportsEnd .. g - 1
    BY <1>1, <2>1
  <2> QED
    BY <2>2 DEF NothingWrongBefore
<1>4. CASE Text(i) \in {"struct", "enum"}
  <2>1. i < g
    BY <1>1, <1>2, <1>4
  <2>2. Clean(i)
    BY <1>3, <2>1
  <2>3. /\ Text(i) = "struct" => Text(i + 1) = "ok"
        /\ Text(i) = "enum" => Text(i + 1) \in {"ok", "range"}
    BY <2>2, CleanWords
  <2>4. d = ReadsTo(i + 2) /\ ~Swallowed(i)
    BY <1>4, <2>3 DEF Declaration, structure, parse_enum, Swallowed
  <2>5. next = i + 2 /\ d.how = "ok"
    BY <2>4 DEF ReadsTo
  <2>6. i + 2 <= ItemStart(g) /\ Text(i + 2) \in Starters
    BY <1>1, <1>4, <2>1, BehindDeclaration DEF ItemOpeners
  <2> QED
    BY <2>4, <2>5, <2>6
<1>5. CASE Text(i) \in {"fn", "#["}
  <2> DEFINE f == Attributes(i).at
  <2>1. d = function(i)
    BY <1>5 DEF Declaration
  <2>2. PICK n \in Nat : Run(i, n) /\ ~Attribute(i + 3 * n) /\ f = i + 3 * n
    BY AttributesAre
  <2>3. /\ f \in i .. Len(tokens)
        /\ Text(f) = "fn" /\ Text(f + 1) = "ok" => d = ReadsTo(f + 2)
        /\ Text(f) \notin {"fn", "#["} => d = Errs(f)
    BY <1>5, <2>1, FunctionReads
  <2> HIDE DEF f
  <2>4. \A j \in i .. f - 1 : Text(j) \notin ItemOpeners
    BY <2>2, RunWords
  <2>5. f <= g
    <3>1. Text(g) \in ItemOpeners
      BY <1>1 DEF ItemOpeners
    <3> QED
      BY <1>1, <1>2, <2>3, <2>4, <3>1
  <2>6. CASE f = g
    <3>1. d.how = "ok" /\ d.at = f + 2
      BY <1>1, <2>3, <2>6 DEF ReadsTo
    <3>2. next = g + 2
      BY <2>6, <3>1
    <3>3. ~(next <= g)
      BY <1>1, <3>2
    <3> QED
      BY <1>5, <3>1, <3>3
  <2>7. CASE f # g
    <3>1. f \in Int /\ f < g /\ ImportsEnd <= f /\ i <= f
      <4>1. ImportsEnd \in Int
        BY ImportsAre
      <4> QED
        BY <1>1, <2>3, <2>5, <2>7, <4>1
    <3>2. Clean(f)
      <4>1. ImportsEnd \in Int
        BY ImportsAre
      <4>2. f \in ImportsEnd .. g - 1
        BY <1>1, <3>1, <4>1
      <4> QED
        BY <4>2 DEF NothingWrongBefore
    <3>3. Text(f) \in ItemOpeners
      <4>1. Text(f) # "#["
        BY <2>2, <3>1, <3>2, CleanWords
      <4>2. CASE n = 0
        <5>1. f = i
          BY <2>2, <4>2
        <5> QED
          BY <1>5, <4>1, <5>1 DEF ItemOpeners
      <4>3. CASE n # 0
        <5>1. Text(i + 3 * n - 1) = "]"
          BY <2>2, <4>3, RunEnds
        <5>2. Text(f - 1) = "]"
          BY <2>2, <5>1
        <5>3. Text(f) \in Starters
          BY <3>1, <3>2, <5>2, CleanWords
        <5> QED
          BY <4>1, <5>3 DEF Starters
      <4> QED
        BY <4>2, <4>3
    <3>4. f + 2 <= ItemStart(g) /\ Text(f + 2) \in Starters
      BY <1>1, <3>1, <3>3, BehindDeclaration
    <3>5. CASE Text(f) = "fn"
      <4>1. Text(f + 1) = "ok"
        BY <3>1, <3>2, <3>5, CleanWords
      <4>2. d.how = "ok" /\ d.at = f + 2
        BY <2>3, <3>5, <4>1 DEF ReadsTo
      <4>3. next = f + 2
        BY <4>2
      <4> QED
        BY <1>5, <3>4, <4>2, <4>3
    <3>6. CASE Text(f) # "fn"
      <4>1. Text(f) \notin {"fn", "#["} /\ Text(f) \in Keywords
        BY <3>3, <3>6 DEF ItemOpeners, Keywords
      <4>2. d.how = "error" /\ d.at = f
        BY <2>3, <4>1 DEF Errs
      <4>3. skip_to_decl(f) = f
        <5>1. f \in 1 .. Len(tokens)
          BY <2>3
        <5> DEFINE k == First(f, Keywords \cup {Eof})
        <5>2. k \in f .. Len(tokens) /\ \A m \in f .. k - 1 : Text(m) \notin Keywords \cup {Eof}
          BY <5>1, FirstIs
        <5> HIDE DEF k
        <5>3. k = f
          BY <1>1, <3>1, <4>1, <5>2
        <5> QED
          BY <5>3 DEF skip_to_decl, k
      <4>4. next = f
        BY <4>2, <4>3
      <4>5. f <= ItemStart(g)
        BY <1>1, <3>1, <3>4
      <4> QED
        BY <1>5, <3>3, <4>2, <4>4, <4>5 DEF Starters
    <3> QED
      BY <3>5, <3>6
  <2> QED
    BY <2>6, <2>7
<1> QED
  BY <1>4, <1>5 DEF Starters, ItemOpeners

-----------------------------------------------------------------------------
(* The invariant of the declaration loop.                                  *)

Bodies == {body \in Seq(BodyTokens) : ReadsWell(body)}
Fns    == [name : STRING, attributes : SUBSET STRING, sig : Signatures, body : Bodies]

ParserTyped ==
  /\ tokens \in Sources
  /\ imported \in Seq(Fns)
  /\ index \in DOMAIN tokens
  /\ functions \in Seq(Fns)
  /\ garbled \in BOOLEAN
  /\ diagnosed \in BOOLEAN
  /\ phase \in {"imports", "declarations", "parsed", "aborted"}

Started == phase \in {"declarations", "parsed"}

(* Where the loop is. *)
Progress ==
  /\ phase = "imports" => ~garbled /\ ~diagnosed
  /\ Started => ImportsEnd <= index /\ Len(imported) <= Len(functions)
  /\ phase = "parsed" => peek = Eof

(* Without a message, all that was passed has been collected. *)
DeclaredFns == [i \in Functions |-> DeclaredAt(i)]

NothingLost ==
  Started /\ ~diagnosed /\ ~garbled =>
    /\ functions = imported \o InOrder(DeclaredFns, index - 1)
    /\ \A i \in Functions : i < index => Text(i + 1) = "ok"
    /\ Text(index - 1) # "]"

(* In a file with errors, every good function that was passed has been. *)
IsKept(i) ==
  \E k \in Named(i) :
    NothingWrongBefore(i) \/ AfterCollected(i) =>
      functions[k].attributes = AttributesBefore(i)

GoodAreKept ==
  Started /\ ~garbled => \A i \in Functions : IsGood(i) /\ i < index => IsKept(i)

(* The loop will not come into the middle of the attributes of a good one. *)
InPlace(i) ==
  /\ AfterCollected(i) => index = ItemStart(i)
  /\ NothingWrongBefore(i) => index <= ItemStart(i) /\ Text(index) \in Starters

NextInPlace ==
  phase = "declarations" => \A i \in Functions : IsGood(i) /\ index <= i => InPlace(i)

PInv == ParserTyped /\ Progress /\ NothingLost /\ GoodAreKept /\ NextInPlace

LEMMA SameTokens ==
  ASSUME UNCHANGED tokens
  PROVE  /\ \A i : Text(i)' = Text(i)
         /\ Functions' = Functions
         /\ ImportsEnd' = ImportsEnd
         /\ \A i : AttributesBefore(i)' = AttributesBefore(i)
         /\ \A i : ItemStart(i)' = ItemStart(i)
         /\ \A i : NothingWrongBefore(i)' = NothingWrongBefore(i)
         /\ \A i : OnlyOne(i)' = OnlyOne(i)
         /\ \A i : IsGood(i)' = IsGood(i)
         /\ DeclaredFns' = DeclaredFns
  BY DEF ImportsEnd, Import, Attribute, Text, AttributeCount, AttributesBefore, ItemStart,
         NothingWrongBefore, Clean, Functions, OnlyOne, IsGood, DeclaredFns, DeclaredAt

LEMMA DeclarationMoves ==
  ASSUME tokens \in Sources, NEW i \in 1 .. Len(tokens), Text(i) # Eof
  PROVE  LET d == Declaration(i)
         IN  /\ d.how \in {"ok", "error", "escape"}
             /\ d.how # "escape" => d.at \in i .. Len(tokens)
             /\ d.how = "error" => /\ skip_to_decl(d.at) \in i .. Len(tokens)
                                   /\ d.at <= skip_to_decl(d.at)
<1> DEFINE d == Declaration(i)
<1>1. d.how \in {"ok", "error", "escape"} /\ (d.how # "escape" => d.at \in i .. Len(tokens))
  <2>1. CASE Text(i) = "struct"
    <3>1. d = structure(i)
      BY <2>1 DEF Declaration
    <3>2. d.how \in {"ok", "error"} /\ d.at \in i + 1 .. Len(tokens)
      BY <2>1, <3>1, StructureReads
    <3> HIDE DEF d
    <3> QED
      BY <3>2
  <2>2. CASE Text(i) = "enum"
    <3>1. d = parse_enum(i)
      BY <2>2 DEF Declaration
    <3>2. d.how \in {"ok", "error"} /\ d.at \in i + 1 .. Len(tokens)
      BY <2>2, <3>1, EnumReads
    <3> HIDE DEF d
    <3> QED
      BY <3>2
  <2>3. CASE Text(i) \notin {"struct", "enum"}
    <3>1. d = function(i)
      BY <2>3 DEF Declaration
    <3> DEFINE f == Attributes(i).at
    <3>2. /\ d.how \in {"ok", "error", "escape"} /\ f \in i .. Len(tokens)
          /\ d.how # "escape" => d.at \in f .. Len(tokens)
      BY <2>3, <3>1, FunctionReads
    <3> HIDE DEF d, f
    <3> QED
      BY <3>2
  <2> QED
    BY <2>1, <2>2, <2>3
<1> HIDE DEF d
<1>2. ASSUME d.how = "error"
      PROVE  skip_to_decl(d.at) \in i .. Len(tokens) /\ d.at <= skip_to_decl(d.at)
  <2>1. d.at \in i .. Len(tokens) /\ d.at \in 1 .. Len(tokens)
    BY <1>1, <1>2
  <2> DEFINE k == First(d.at, Keywords \cup {Eof})
  <2>2. k \in d.at .. Len(tokens)
    BY <2>1, FirstIs
  <2>3. skip_to_decl(d.at) = k
    BY DEF skip_to_decl
  <2> HIDE DEF k
  <2> QED
    BY <2>1, <2>2, <2>3
<1> QED
  BY <1>1, <1>2 DEF d

(* What FunctionAt takes from the tokens. *)
LEMMA Gathers ==
  ASSUME tokens \in Sources, NEW i \in 1 .. Len(tokens), Text(i) # Eof,
         Text(i) \notin {"struct", "enum"}, Declaration(i).how = "ok"
  PROVE  LET f == Attributes(i).at
         IN  /\ f \in Functions /\ i <= f /\ Text(f + 1) = "ok" /\ Declaration(i).at = f + 2
             /\ FunctionAt(i) = [name |-> tokens[f + 1].name, attributes |-> Attributes(i).names,
                                 sig |-> tokens[f + 1].sig, body |-> tokens[f + 1].body]
             /\ FunctionAt(i) \in Fns
<1> DEFINE f == Attributes(i).at
<1>1. Declaration(i) = function(i)
  BY DEF Declaration
<1>2. /\ f \in i .. Len(tokens) /\ Text(f) = "fn" /\ Text(f + 1) = "ok"
      /\ Declaration(i).at = f + 2
  BY <1>1, FunctionReads
<1>3. FunctionAt(i) = [name |-> tokens[f + 1].name, attributes |-> Attributes(i).names,
                       sig |-> tokens[f + 1].sig, body |-> tokens[f + 1].body]
  BY DEF FunctionAt
<1>4. PICK n \in Nat : /\ Run(i, n) /\ f = i + 3 * n
                       /\ Attributes(i).names = {Text(i + 3 * k + 1) : k \in 0 .. n - 1}
  BY AttributesAre
<1>5. Attributes(i).names \in SUBSET STRING
  <2>1. ASSUME NEW k \in 0 .. n - 1 PROVE Text(i + 3 * k + 1) \in STRING
    <3>1. Attribute(i + 3 * k) /\ i + 3 * k \in Int /\ Len(tokens) \in Nat
      BY <1>4, TokensRead DEF Run
    <3>2. 1 <= i + 3 * k /\ i + 3 * k + 3 <= Len(tokens)
      BY <3>1, AttributeWords
    <3>3. i + 3 * k + 1 \in DOMAIN tokens
      BY <3>1, <3>2, TokensRead
    <3> QED
      BY <3>3, TokensRead
  <2> QED
    BY <1>4, <2>1
<1> HIDE DEF f
<1>6. f \in Functions /\ f + 1 \in DOMAIN tokens /\ f \in Int /\ 1 <= f
  <2>1. f \in Int /\ Text(f) \in ItemOpeners /\ 1 <= f
    BY <1>2 DEF ItemOpeners
  <2>2. f + 2 <= Len(tokens) /\ Len(tokens) \in Nat /\ DOMAIN tokens = 1 .. Len(tokens)
    BY <2>1, OpenersOpen, TokensRead
  <2>3. f \in DOMAIN tokens /\ f + 1 \in DOMAIN tokens
    BY <2>1, <2>2
  <2>4. Text(f + 1) \in Rests
    BY <1>2 DEF Rests
  <2> QED
    BY <1>2, <2>1, <2>3, <2>4 DEF Functions
<1>7. /\ tokens[f + 1].name \in STRING /\ tokens[f + 1].sig \in Signatures
      /\ tokens[f + 1].body \in Bodies
  <2> DEFINE Tokens == [text : STRING, name : STRING, sig : Signatures, body : Seq(BodyTokens)]
  <2>1. tokens \in Seq(Tokens)
    BY SourcesAssumption
  <2>2. tokens[f + 1] \in Tokens
    <3> HIDE DEF Tokens
    <3> QED
      BY <1>6, <2>1
  <2>3. /\ tokens[f + 1].name \in STRING /\ tokens[f + 1].sig \in Signatures
        /\ tokens[f + 1].body \in Seq(BodyTokens)
    BY <2>2
  <2>4. f + 1 > 1 /\ f + 1 - 1 = f /\ f \in DOMAIN tokens
    BY <1>6 DEF Functions
  <2>5. tokens[f].text = "fn" /\ tokens[f + 1].text = "ok"
    BY <1>2, <1>6, <2>4 DEF Text
  <2>6. ReadsWell(tokens[f + 1].body)
    BY <1>6, <2>4, <2>5, SourcesAssumption
  <2> QED
    BY <2>3, <2>6 DEF Bodies
<1>8. FunctionAt(i) \in Fns
  BY <1>3, <1>5, <1>7 DEF Fns
<1> QED
  BY <1>2, <1>3, <1>6, <1>8 DEF f

(* From where its item starts, a good function is read with all of its     *)
(* attributes.                                                             *)
LEMMA FromItemStart ==
  ASSUME tokens \in Sources, NEW g, IsGood(g)
  PROVE  LET s == ItemStart(g)
         IN  /\ s \in 1 .. g /\ Text(s) # Eof /\ Text(s) \notin {"struct", "enum"}
             /\ Attributes(s).at = g
             /\ Declaration(s).how = "ok" /\ Declaration(s).at = g + 2
<1>1. /\ g \in Functions /\ g \in 1 .. Len(tokens) /\ Text(g) = "fn" /\ Text(g + 1) = "ok"
      /\ Len(tokens) \in Nat
  BY FunctionsAre, TokensRead DEF IsGood
<1> DEFINE m == AttributeCount(g)
           s == g - 3 * m
<1>2. /\ m \in Nat /\ ItemStart(g) = s /\ s \in 1 .. g
      /\ \A k \in 1 .. m : Attribute(g - 3 * k)
  BY <1>1, AttributeCountIs DEF ItemStart
<1> HIDE DEF m
<1>3. ASSUME NEW k \in 0 .. m - 1 PROVE Attribute(s + 3 * k)
  <2>1. m - k \in 1 .. m /\ g - 3 * (m - k) = s + 3 * k
    BY <1>1, <1>2
  <2> QED
    BY <1>2, <2>1
<1>4. g = s + 3 * m /\ s \in 1 .. Len(tokens)
  BY <1>1, <1>2
<1>5. ~Attribute(g)
  BY <1>1 DEF Attribute
<1> HIDE DEF s
<1>6. PICK n \in Nat : Run(s, n) /\ ~Attribute(s + 3 * n) /\ Attributes(s).at = s + 3 * n
  BY <1>4, AttributesAre
<1>7. n = m
  <2>1. ~(n < m)
    <3>1. n < m => n \in 0 .. m - 1
      BY <1>2
    <3> QED
      BY <1>3, <1>6, <3>1
  <2>2. ~(m < n)
    <3>1. m < n => m \in 0 .. n - 1
      BY <1>2
    <3> QED
      BY <1>4, <1>5, <1>6, <3>1 DEF Run
  <2> QED
    BY <1>2, <2>1, <2>2
<1>8. Attributes(s).at = g
  BY <1>4, <1>6, <1>7
<1>9. Text(s) \in {"fn", "#["}
  <2>1. CASE m = 0
    BY <1>1, <1>4, <2>1
  <2>2. CASE m # 0
    <3>1. 0 \in 0 .. m - 1 /\ s + 3 * 0 = s
      BY <1>2, <1>4, <2>2
    <3>2. Attribute(s)
      BY <1>3, <3>1
    <3> QED
      BY <3>2 DEF Attribute
  <2> QED
    BY <2>1, <2>2
<1>10. Text(s) # Eof /\ Text(s) \notin {"struct", "enum"}
  BY <1>9 DEF Eof
<1>11. Declaration(s) = ReadsTo(g + 2)
  <2>1. Declaration(s) = function(s)
    BY <1>10 DEF Declaration
  <2> QED
    BY <1>1, <1>4, <1>8, <1>10, <2>1, FunctionReads
<1>12. Declaration(s).how = "ok" /\ Declaration(s).at = g + 2
  BY <1>11 DEF ReadsTo
<1> QED
  BY <1>2, <1>8, <1>10, <1>12

LEMMA ParserInit == InitParser => PInv
<1> SUFFICES ASSUME InitParser PROVE PInv
  OBVIOUS
<1>1. tokens \in Sources
  BY DEF InitParser
<1>2. DOMAIN tokens = 1 .. Len(tokens) /\ 1 <= Len(tokens) /\ Len(tokens) \in Nat
  BY <1>1, TokensRead
<1>3. 1 \in DOMAIN tokens
  BY <1>2
<1>4. Imported \subseteq Seq(Fns)
  BY SourcesAssumption DEF Fns, Bodies
<1>5. <<>> \in Seq(Fns)
  OBVIOUS
<1>6. imported \in Seq(Fns) /\ functions \in Seq(Fns)
  BY <1>4, <1>5 DEF InitParser
<1>7. ParserTyped
  BY <1>1, <1>3, <1>6 DEF ParserTyped, InitParser
<1>8. ~Started /\ phase = "imports" /\ ~garbled /\ ~diagnosed
  BY DEF Started, InitParser
<1> QED
  BY <1>7, <1>8 DEF PInv, Progress, NothingLost, GoodAreKept, NextInPlace, Started

(* The facts about a step of the loop that the proofs below share. *)
LEMMA LoopReads ==
  ASSUME ParserTyped, NEW how, InLoop(how)
  PROVE  /\ tokens \in Sources /\ index \in 1 .. Len(tokens) /\ Len(tokens) \in Nat
         /\ index \in Nat
         /\ Text(index) # Eof /\ Declaration(index).how = how /\ phase = "declarations"
<1>1. tokens \in Sources /\ index \in DOMAIN tokens
  BY DEF ParserTyped
<1>2. DOMAIN tokens = 1 .. Len(tokens) /\ Len(tokens) \in Nat
  BY <1>1, TokensRead
<1> QED
  BY <1>1, <1>2 DEF InLoop, peek

LEMMA CollectTyped ==
  ASSUME ParserTyped, Collect
  PROVE  /\ index' \in DOMAIN tokens /\ index <= index' /\ index' = Declaration(index).at
         /\ functions' \in Seq(Fns)
         /\ Len(functions) <= Len(functions')
<1>1. /\ tokens \in Sources /\ index \in 1 .. Len(tokens) /\ Len(tokens) \in Nat
      /\ Text(index) # Eof /\ Declaration(index).how = "ok"
  BY LoopReads DEF Collect
<1>2. index' = Declaration(index).at
  BY DEF Collect
<1>3. Declaration(index).at \in index .. Len(tokens)
  BY <1>1, DeclarationMoves
<1>4. index' \in DOMAIN tokens /\ index <= index'
  <2>1. DOMAIN tokens = 1 .. Len(tokens)
    BY <1>1, TokensRead
  <2> QED
    BY <1>1, <1>2, <1>3, <2>1
<1>5. functions \in Seq(Fns)
  BY DEF ParserTyped
<1>6. CASE Text(index) \in {"struct", "enum"}
  <2>1. functions' = functions
    BY <1>6 DEF Collect, peek
  <2> QED
    BY <1>2, <1>4, <1>5, <2>1
<1>7. CASE Text(index) \notin {"struct", "enum"}
  <2>1. functions' = Append(functions, FunctionAt(index))
    BY <1>7 DEF Collect, peek
  <2>2. FunctionAt(index) \in Fns
    BY <1>1, <1>7, Gathers
  <2>3. functions' \in Seq(Fns) /\ Len(functions) <= Len(functions')
    <3>1. \A s \in Seq(Fns), x \in Fns :
            Append(s, x) \in Seq(Fns) /\ Len(s) <= Len(Append(s, x))
      OBVIOUS
    <3> QED
      BY <1>5, <2>1, <2>2, <3>1
  <2> QED
    BY <1>2, <1>4, <2>3
<1> QED
  BY <1>6, <1>7

LEMMA RecoverMoves ==
  ASSUME ParserTyped, Recover
  PROVE  /\ index' \in DOMAIN tokens /\ index <= index'
         /\ index' = skip_to_decl(Declaration(index).at)
<1>1. /\ tokens \in Sources /\ index \in 1 .. Len(tokens) /\ Len(tokens) \in Nat
      /\ Text(index) # Eof /\ Declaration(index).how = "error"
  BY LoopReads DEF Recover
<1>2. index' = skip_to_decl(Declaration(index).at)
  BY DEF Recover
<1>3. skip_to_decl(Declaration(index).at) \in index .. Len(tokens)
  BY <1>1, DeclarationMoves
<1>4. DOMAIN tokens = 1 .. Len(tokens)
  BY <1>1, TokensRead
<1> QED
  BY <1>1, <1>2, <1>3, <1>4

LEMMA TypedStays ==
  ASSUME ParserTyped, NextParser
  PROVE  ParserTyped'
<1>1. UNCHANGED <<tokens, imported>>
  BY DEF NextParser, parse_imports, Collect, Recover, Escape, EndOfFile, source
<1>2. CASE parse_imports
  <2>1. ImportsEnd \in 1 .. Len(tokens) /\ DOMAIN tokens = 1 .. Len(tokens)
    BY ImportsAre, TokensRead DEF ParserTyped
  <2> QED
    BY <1>1, <1>2, <2>1 DEF ParserTyped, parse_imports
<1>3. CASE Collect
  <2>1. index' \in DOMAIN tokens /\ functions' \in Seq(Fns)
    BY <1>3, CollectTyped
  <2>2. garbled' \in BOOLEAN /\ diagnosed' = diagnosed /\ phase' = phase
    BY <1>3 DEF Collect, ParserTyped
  <2> QED
    BY <1>1, <2>1, <2>2 DEF ParserTyped
<1>4. CASE Recover
  <2>1. index' \in DOMAIN tokens
    BY <1>4, RecoverMoves
  <2> QED
    BY <1>1, <1>4, <2>1 DEF ParserTyped, Recover
<1>5. CASE Escape
  BY <1>1, <1>5 DEF ParserTyped, Escape
<1>6. CASE EndOfFile
  BY <1>1, <1>6 DEF ParserTyped, EndOfFile
<1> QED
  BY <1>2, <1>3, <1>4, <1>5, <1>6 DEF NextParser

LEMMA ProgressStays ==
  ASSUME ParserTyped, Progress, NextParser
  PROVE  Progress'
<1>1. UNCHANGED <<tokens, imported>>
  BY DEF NextParser, parse_imports, Collect, Recover, Escape, EndOfFile, source
<1>2. ImportsEnd' = ImportsEnd /\ \A i : Text(i)' = Text(i)
  BY <1>1, SameTokens
<1>3. /\ ImportsEnd \in Int /\ index \in Int
      /\ Len(imported) \in Nat /\ Len(functions) \in Nat
  <2>1. ImportsEnd \in 1 .. Len(tokens) /\ index \in 1 .. Len(tokens)
    BY ImportsAre, TokensRead DEF ParserTyped
  <2>2. imported \in Seq(Fns) /\ functions \in Seq(Fns)
    BY DEF ParserTyped
  <2> QED
    BY <2>1, <2>2
<1>4. CASE parse_imports
  <2>1. index' = ImportsEnd /\ functions' = imported /\ phase' # "imports" /\ phase' # "parsed"
    BY <1>4 DEF parse_imports
  <2>2. Len(imported') <= Len(functions')
    BY <1>1, <1>3, <2>1
  <2>3. ImportsEnd' <= index'
    BY <1>2, <1>3, <2>1
  <2> QED
    BY <2>1, <2>2, <2>3 DEF Progress
<1>5. CASE Collect
  <2>1. phase' = "declarations" /\ phase = "declarations"
    BY <1>5 DEF Collect, InLoop
  <2>2. index <= index' /\ Len(functions) <= Len(functions') /\ index' \in DOMAIN tokens
        /\ functions' \in Seq(Fns)
    BY <1>5, CollectTyped
  <2>3. index' \in Int /\ Len(functions') \in Nat
    <3>1. DOMAIN tokens = 1 .. Len(tokens)
      BY TokensRead DEF ParserTyped
    <3> QED
      BY <2>2, <3>1
  <2>4. ImportsEnd <= index /\ Len(imported) <= Len(functions)
    BY <2>1 DEF Progress, Started
  <2>5. ImportsEnd <= index' /\ Len(imported) <= Len(functions')
    BY <1>3, <2>2, <2>3, <2>4
  <2> QED
    BY <1>1, <1>2, <2>1, <2>5 DEF Progress
<1>6. CASE Recover
  <2>1. phase' = "declarations" /\ phase = "declarations" /\ functions' = functions
    BY <1>6 DEF Recover, InLoop
  <2>2. index <= index' /\ index' \in DOMAIN tokens
    BY <1>6, RecoverMoves
  <2>3. index' \in Int
    <3>1. DOMAIN tokens = 1 .. Len(tokens)
      BY TokensRead DEF ParserTyped
    <3> QED
      BY <2>2, <3>1
  <2>4. ImportsEnd <= index /\ Len(imported) <= Len(functions)
    BY <2>1 DEF Progress, Started
  <2>5. ImportsEnd <= index'
    BY <1>3, <2>2, <2>3, <2>4
  <2> QED
    BY <1>1, <1>2, <2>1, <2>4, <2>5 DEF Progress
<1>7. CASE Escape
  BY <1>7 DEF Escape, Progress, Started
<1>8. CASE EndOfFile
  <2>1. /\ phase = "declarations" /\ phase' = "parsed" /\ peek = Eof
        /\ index' = index /\ functions' = functions
    BY <1>8 DEF EndOfFile
  <2>2. peek' = Eof
    BY <1>1, <2>1 DEF peek, Text
  <2>3. ImportsEnd <= index /\ Len(imported) <= Len(functions)
    BY <2>1 DEF Progress, Started
  <2> QED
    BY <1>1, <1>2, <2>1, <2>2, <2>3 DEF Progress
<1> QED
  BY <1>4, <1>5, <1>6, <1>7, <1>8 DEF NextParser

Decls == [name : STRING, attributes : SUBSET STRING, sig : Signatures, body : Seq(BodyTokens)]

LEMMA DeclaredType ==
  ASSUME tokens \in Sources
  PROVE  DeclaredFns \in [Functions -> Decls]
<1> SUFFICES ASSUME NEW i \in Functions PROVE DeclaredAt(i) \in Decls
  BY DEF DeclaredFns
<1>1. /\ i \in 1 .. Len(tokens) /\ i + 2 <= Len(tokens) /\ Len(tokens) \in Nat
      /\ DOMAIN tokens = 1 .. Len(tokens)
  BY FunctionsAre, TokensRead
<1>2. AttributesBefore(i) \in SUBSET STRING
  <2>1. ASSUME NEW k \in 1 .. AttributeCount(i) PROVE Text(i - 3 * k + 1) \in STRING
    <3>1. AttributeCount(i) \in Nat /\ \A m \in 1 .. AttributeCount(i) : Attribute(i - 3 * m)
      BY <1>1, AttributeCountIs
    <3>2. Attribute(i - 3 * k) /\ i - 3 * k \in Int
      BY <1>1, <3>1
    <3>3. 1 <= i - 3 * k /\ i - 3 * k + 3 <= Len(tokens)
      BY <3>2, AttributeWords
    <3>4. i - 3 * k + 1 \in DOMAIN tokens
      BY <1>1, <3>2, <3>3
    <3> QED
      BY <3>4, TokensRead
  <2> QED
    BY <2>1 DEF AttributesBefore
<1>3. /\ tokens[i + 1].name \in STRING /\ tokens[i + 1].sig \in Signatures
      /\ tokens[i + 1].body \in Seq(BodyTokens)
  <2> DEFINE Tokens == [text : STRING, name : STRING, sig : Signatures, body : Seq(BodyTokens)]
  <2>1. tokens \in Seq(Tokens) /\ i + 1 \in DOMAIN tokens
    <3>1. tokens \in Seq(Tokens)
      BY SourcesAssumption
    <3> QED
      BY <1>1, <3>1
  <2>2. tokens[i + 1] \in Tokens
    <3> HIDE DEF Tokens
    <3> QED
      BY <2>1
  <2> QED
    BY <2>2
<1> QED
  BY <1>2, <1>3 DEF DeclaredAt, Decls

LEMMA NothingLostStays ==
  ASSUME ParserTyped, Progress, NothingLost, NextParser
  PROVE  NothingLost'
<1>1. UNCHANGED <<tokens, imported>>
  BY DEF NextParser, parse_imports, Collect, Recover, Escape, EndOfFile, source
<1>2. Functions' = Functions /\ DeclaredFns' = DeclaredFns /\ \A i : Text(i)' = Text(i)
  BY <1>1, SameTokens
<1> DEFINE Order(n) == InOrder(DeclaredFns, n)
<1>3. SUFFICES ASSUME Started', ~diagnosed', ~garbled'
      PROVE  /\ functions' = imported \o Order(index' - 1)
             /\ \A i \in Functions : i < index' => Text(i + 1) = "ok"
             /\ Text(index' - 1) # "]"
  BY <1>1, <1>2, ZenonT(30) DEF NothingLost, InOrder
<1>4. /\ tokens \in Sources /\ DOMAIN tokens = 1 .. Len(tokens) /\ Len(tokens) \in Nat
      /\ imported \in Seq(Fns) /\ functions \in Seq(Fns) /\ index \in 1 .. Len(tokens)
  BY TokensRead DEF ParserTyped
<1>5. DeclaredFns \in [Functions -> Decls]
  BY <1>4, DeclaredType
<1>6. CASE parse_imports
  <2>1. index' = ImportsEnd /\ functions' = imported
    BY <1>6 DEF parse_imports
  <2>2. /\ ImportsEnd \in 1 .. Len(tokens)
        /\ \A j \in 1 .. ImportsEnd - 1 : Text(j) \notin ItemOpeners
        /\ ImportsEnd > 1 => Text(ImportsEnd - 1) = Semicolon
    BY <1>4, ImportsAre
  <2>3. ASSUME NEW i \in Functions PROVE ~(i < ImportsEnd)
    <3>1. i \in 1 .. Len(tokens) /\ Text(i) \in ItemOpeners
      BY <1>4, FunctionsAre
    <3> QED
      BY <2>2, <3>1
  <2>4. Order(ImportsEnd - 1) = Order(0)
    <3>1. ImportsEnd - 1 \in Nat /\ 0 <= ImportsEnd - 1 /\ 0 \in Nat
      BY <2>2
    <3>2. \A i \in 0 + 1 .. ImportsEnd - 1 : i \notin Functions
      BY <2>2, <2>3
    <3> QED
      BY <1>5, <3>1, <3>2, InOrderSkips
  <2>5. Order(0) = <<>>
    BY <1>5, InOrderIs
  <2>6. functions' = imported \o Order(index' - 1)
    <3>1. imported \o <<>> = imported
      BY <1>4
    <3> QED
      BY <2>1, <2>4, <2>5, <3>1
  <2>7. Text(ImportsEnd - 1) # "]"
    <3>1. CASE ImportsEnd = 1
      <4>1. ImportsEnd - 1 \in Int /\ ImportsEnd - 1 \notin 1 .. Len(tokens) - 1
        BY <3>1
      <4>2. Text(ImportsEnd - 1) = Eof
        BY <1>4, <4>1, TokensRead
      <4> QED
        BY <4>2 DEF Eof
    <3>2. CASE ImportsEnd # 1
      BY <2>2, <3>2, SemicolonIs
    <3> QED
      BY <3>1, <3>2
  <2> QED
    BY <2>1, <2>3, <2>6, <2>7
<1>7. CASE Collect
  <2> DEFINE d == Declaration(index)
  <2>1. /\ phase = "declarations" /\ index' = d.at /\ diagnosed' = diagnosed
        /\ garbled' = (garbled \/ (peek = "enum" /\ Swallowed(index)))
        /\ functions' = IF Text(index) \in {"struct", "enum"} THEN functions
                        ELSE Append(functions, FunctionAt(index))
    BY <1>7 DEF Collect, InLoop, peek
  <2>2. /\ functions = imported \o Order(index - 1)
        /\ \A i \in Functions : i < index => Text(i + 1) = "ok"
        /\ Text(index - 1) # "]"
    BY <1>3, <2>1 DEF NothingLost, Started
  <2>3. Text(index) # Eof /\ d.how = "ok" /\ ~(Text(index) = "enum" /\ Swallowed(index))
    BY <1>3, <1>7, <2>1 DEF Collect, InLoop, peek
  <2>4. d.at \in index .. Len(tokens)
    BY <1>4, <2>3, DeclarationMoves
  <2>5. \A g \in Functions : index <= g /\ g < d.at =>
                               Text(index) \notin {"struct", "enum"} /\ g = Attributes(index).at
    BY <1>4, <2>3, PassedIsCollected
  <2>6. ASSUME NEW g \in Functions PROVE g \in Nat
    <3>1. g \in 1 .. Len(tokens)
      BY <1>4, FunctionsAre
    <3> QED
      BY <3>1
  <2>7. CASE Text(index) \in {"struct", "enum"}
    <3>1. d.at = index + 2
      <4>1. Text(index) = "struct" => d = structure(index)
        BY DEF Declaration
      <4>2. Text(index) = "enum" => d = parse_enum(index)
        BY DEF Declaration
      <4>3. Text(index) = "struct" => d.at = index + 2
        BY <1>4, <2>3, <4>1, StructureReads
      <4>4. Text(index) = "enum" => d.at = index + 2
        BY <1>4, <2>3, <4>2, EnumReads
      <4> QED
        BY <2>7, <4>3, <4>4
    <3>2. Text(index + 1) \in Rests
      BY <1>4, <2>7, OpenersOpen DEF ItemOpeners
    <3> HIDE DEF d
    <3>3. d.at - 1 = index + 1 /\ d.at \in Nat /\ index \in Nat /\ 1 <= index
      BY <1>4, <3>1
    <3>4. Text(d.at - 1) # "]"
      BY <3>2, <3>3 DEF Rests
    <3>5. \A g \in Functions : ~(index <= g /\ g < d.at)
      BY <2>5, <2>7
    <3>6. Order(d.at - 1) = Order(index - 1)
      <4> DEFINE m == index - 1
                 n == d.at - 1
      <4>1. m \in Nat /\ n \in Nat /\ m <= n
        BY <3>1, <3>3
      <4>2. \A i \in m + 1 .. n : i \notin Functions
        BY <3>3, <3>5
      <4> HIDE DEF m, n
      <4>3. Order(n) = Order(m)
        BY <1>5, <4>1, <4>2, InOrderSkips
      <4> QED
        BY <4>3 DEF m, n
    <3>7. functions' = imported \o Order(index' - 1)
      BY <2>1, <2>2, <2>7, <3>6
    <3>8. \A i \in Functions : i < index' => Text(i + 1) = "ok"
      BY <2>1, <2>2, <2>6, <3>3, <3>5
    <3> QED
      BY <2>1, <3>4, <3>7, <3>8
  <2>8. CASE Text(index) \notin {"struct", "enum"}
    <3> DEFINE f == Attributes(index).at
    <3>1. /\ f \in Functions /\ index <= f /\ Text(f + 1) = "ok" /\ d.at = f + 2
          /\ FunctionAt(index) = [name |-> tokens[f + 1].name,
                                  attributes |-> Attributes(index).names,
                                  sig |-> tokens[f + 1].sig,
                                  body |-> tokens[f + 1].body]
      BY <1>4, <2>3, <2>8, Gathers
    <3>2. f \in 1 .. Len(tokens) /\ Text(f) \in ItemOpeners /\ f + 1 \notin Functions
      BY <1>4, <3>1, FunctionsAre
    <3>3. index \in 1 .. f /\ f \in Nat
      BY <1>4, <3>1, <3>2
    <3>4. Attributes(index).names = AttributesBefore(f)
      BY <1>4, <2>2, <3>2, <3>3, ForwardIsBackward
    <3>5. FunctionAt(index) = DeclaredFns[f]
      <4>1. DeclaredFns[f] = DeclaredAt(f)
        BY <3>1 DEF DeclaredFns
      <4> QED
        BY <3>1, <3>4, <4>1 DEF DeclaredAt
    <3>6. \A g \in Functions : index <= g /\ g < f + 2 => g = f
      BY <2>5, <3>1
    <3> HIDE DEF f, d
    <3>7. Order(f - 1) = Order(index - 1)
      <4> DEFINE m == index - 1
                 n == f - 1
      <4>1. m \in Nat /\ n \in Nat /\ m <= n
        BY <3>3
      <4>2. \A i \in m + 1 .. n : i \notin Functions
        BY <3>3, <3>6
      <4> HIDE DEF m, n
      <4>3. Order(n) = Order(m)
        BY <1>5, <4>1, <4>2, InOrderSkips
      <4> QED
        BY <4>3 DEF m, n
    <3>8. Order(f) = Append(Order(f - 1), DeclaredFns[f])
      <4> DEFINE n == f - 1
      <4>1. n \in Nat /\ n + 1 = f
        BY <3>3
      <4>2. Order(f) = More(DeclaredFns, Order(f - 1), f)
        <5> HIDE DEF n
        <5>1. Order(n + 1) = More(DeclaredFns, Order(n), n + 1)
          <6>1. n \in Nat
            BY <4>1
          <6> QED
            BY ONLY <1>5, <6>1, InOrderAdds
        <5>2. Order(f) = More(DeclaredFns, Order(n), f)
          BY <4>1, <5>1
        <5> QED
          BY <5>2 DEF n
      <4>3. f \in DOMAIN DeclaredFns
        BY <1>5, <3>1
      <4> QED
        BY <4>2, <4>3 DEF More
    <3>9. Order(f + 1) = Order(f)
      <4>1. f + 1 \in Nat /\ f <= f + 1 /\ \A i \in f + 1 .. f + 1 : i \notin Functions
        BY <3>2, <3>3
      <4> QED
        BY <1>5, <3>3, <4>1, InOrderSkips
    <3>10. index' - 1 = f + 1 /\ index' = f + 2
      BY <2>1, <3>1, <3>3
    <3>11. functions' = imported \o Order(index' - 1)
      <4>1. functions' = Append(imported \o Order(f - 1), DeclaredFns[f])
        BY <2>1, <2>2, <2>8, <3>5, <3>7
      <4>2. Order(f - 1) \in Seq(Decls) /\ DeclaredFns[f] \in Decls
        <5>1. f - 1 \in Nat
          BY <3>3
        <5> QED
          BY <1>5, <3>1, <5>1, InOrderIs
      <4>3. imported \o Append(Order(f - 1), DeclaredFns[f])
              = Append(imported \o Order(f - 1), DeclaredFns[f])
        <5> DEFINE A == Fns \cup Decls
        <5>1. imported \in Seq(A) /\ Order(f - 1) \in Seq(A) /\ DeclaredFns[f] \in A
          BY <1>4, <4>2
        <5> HIDE DEF A, Order
        <5>2. \A x \in A, s, t \in Seq(A) : s \o Append(t, x) = Append(s \o t, x)
          OBVIOUS
        <5> QED
          BY <5>1, <5>2
      <4> QED
        BY <3>8, <3>9, <3>10, <4>1, <4>3
    <3>12. ASSUME NEW i \in Functions, i < index' PROVE Text(i + 1) = "ok"
      <4>1. i \in Nat
        BY <2>6
      <4>2. CASE i < index
        BY <2>2, <4>2
      <4>3. CASE ~(i < index)
        <5>1. index <= i /\ i < f + 2
          BY <3>3, <3>10, <3>12, <4>1, <4>3
        <5>2. i = f
          BY <3>6, <5>1
        <5> QED
          BY <3>1, <5>2
      <4> QED
        BY <4>2, <4>3
    <3>13. Text(index' - 1) # "]"
      BY <3>1, <3>10
    <3> QED
      BY <3>11, <3>12, <3>13
  <2> QED
    BY <2>7, <2>8
<1>8. CASE Recover
  BY <1>3, <1>8 DEF Recover
<1>9. CASE Escape
  BY <1>3, <1>9 DEF Escape, Started
<1>10. CASE EndOfFile
  BY <1>3, <1>10 DEF EndOfFile, NothingLost, Started
<1> QED
  BY <1>6, <1>7, <1>8, <1>9, <1>10 DEF NextParser

(* What a collected function is added to. *)
LEMMA Added ==
  ASSUME ParserTyped, Progress, Collect, Text(index) \notin {"struct", "enum"}
  PROVE  LET f == Attributes(index).at
             n == Len(functions) + 1
         IN  /\ f \in Functions /\ index <= f /\ Text(f + 1) = "ok" /\ index' = f + 2
             /\ n \in Nat /\ n > Len(imported)
             /\ DOMAIN functions' = DOMAIN functions \cup {n}
             /\ functions'[n].name = tokens[f + 1].name
             /\ functions'[n].attributes = Attributes(index).names
             /\ \A k \in DOMAIN functions : functions'[k] = functions[k]
<1> DEFINE f == Attributes(index).at
           n == Len(functions) + 1
<1>1. /\ tokens \in Sources /\ index \in 1 .. Len(tokens)
      /\ Text(index) # Eof /\ Declaration(index).how = "ok" /\ phase = "declarations"
  BY LoopReads DEF Collect
<1>2. /\ f \in Functions /\ index <= f /\ Text(f + 1) = "ok" /\ Declaration(index).at = f + 2
      /\ FunctionAt(index) = [name |-> tokens[f + 1].name, attributes |-> Attributes(index).names,
                              sig |-> tokens[f + 1].sig, body |-> tokens[f + 1].body]
      /\ FunctionAt(index) \in Fns
  BY <1>1, Gathers
<1>3. index' = f + 2 /\ functions' = Append(functions, FunctionAt(index))
  BY <1>2 DEF Collect, peek
<1> HIDE DEF f
<1>4. functions \in Seq(Fns) /\ imported \in Seq(Fns) /\ Len(imported) <= Len(functions)
  BY <1>1 DEF ParserTyped, Progress, Started
<1>5. n \in Nat /\ n > Len(imported)
  BY <1>4
<1>6. /\ DOMAIN functions' = DOMAIN functions \cup {n}
      /\ functions'[n] = FunctionAt(index)
      /\ \A k \in DOMAIN functions : functions'[k] = functions[k]
  <2>1. \A s \in Seq(Fns), x \in Fns :
          /\ DOMAIN Append(s, x) = DOMAIN s \cup {Len(s) + 1}
          /\ Append(s, x)[Len(s) + 1] = x
          /\ \A k \in DOMAIN s : Append(s, x)[k] = s[k]
    OBVIOUS
  <2> QED
    BY <1>2, <1>3, <1>4, <2>1
<1>7. functions'[n].name = tokens[f + 1].name /\ functions'[n].attributes = Attributes(index).names
  BY <1>2, <1>6
<1> QED
  BY <1>2, <1>3, <1>5, <1>6, <1>7 DEF f

(* The places where a function of this name stands stay, and nothing but   *)
(* what is collected is added to them.                                     *)
LEMMA NamedStays ==
  ASSUME ParserTyped, Progress, Collect \/ Recover \/ EndOfFile,
         NEW i
  PROVE  /\ \A k \in Named(i) : k \in Named(i)' /\ functions'[k] = functions[k]
         /\ \A k \in Named(i)' : \/ k \in Named(i)
                                 \/ /\ Collect /\ Text(index) \notin {"struct", "enum"}
                                    /\ tokens[Attributes(index).at + 1].name = tokens[i + 1].name
<1>1. tokens' = tokens /\ imported' = imported
  BY DEF Collect, Recover, EndOfFile, source
<1>2. CASE functions' = functions
  BY <1>1, <1>2 DEF Named
<1>3. CASE Collect /\ Text(index) \notin {"struct", "enum"}
  <2> DEFINE f == Attributes(index).at
             n == Len(functions) + 1
  <2>1. /\ DOMAIN functions' = DOMAIN functions \cup {n}
        /\ functions'[n].name = tokens[f + 1].name
        /\ \A k \in DOMAIN functions : functions'[k] = functions[k]
    BY <1>3, Added
  <2> HIDE DEF f, n
  <2>2. ASSUME NEW k \in Named(i) PROVE k \in Named(i)' /\ functions'[k] = functions[k]
    BY <1>1, <2>1 DEF Named
  <2>3. ASSUME NEW k \in Named(i)', k \notin Named(i) PROVE tokens[f + 1].name = tokens[i + 1].name
    BY <1>1, <2>1, <2>3 DEF Named
  <2> QED
    BY <1>3, <2>2, <2>3 DEF f
<1>4. functions' = functions \/ (Collect /\ Text(index) \notin {"struct", "enum"})
  BY DEF Collect, Recover, EndOfFile, peek
<1> QED
  BY <1>2, <1>3, <1>4

(* AfterCollected(i) comes to hold only when the function before i is what *)
(* is collected.                                                           *)
LEMMA CollectedBefore ==
  ASSUME ParserTyped, Progress, Collect \/ Recover \/ EndOfFile,
         NEW i \in Functions, AfterCollected(i)', ~AfterCollected(i)
  PROVE  /\ Collect /\ Text(index) \notin {"struct", "enum"}
         /\ Attributes(index).at = ItemStart(i) - 2
<1>1. tokens' = tokens
  BY DEF Collect, Recover, EndOfFile, source
<1> DEFINE j == ItemStart(i) - 1
<1>2. /\ ItemStart(i)' = ItemStart(i) /\ \A m : Text(m)' = Text(m)
      /\ OnlyOne(j - 1)' = OnlyOne(j - 1)
  BY <1>1, SameTokens
<1>3. j > 1 /\ Text(j - 1) = "fn" /\ Text(j) = "ok" /\ OnlyOne(j - 1)
  BY <1>1, <1>2 DEF AfterCollected, OnlyOne, Functions, Text
<1>4. Named(j - 1)' # {}
  BY <1>1, <1>2 DEF AfterCollected, Named
<1>5. Named(j - 1) = {}
  BY <1>3 DEF AfterCollected
<1> HIDE DEF j
<1>6. PICK k : k \in Named(j - 1)'
  BY <1>4
<1>7. /\ Collect /\ Text(index) \notin {"struct", "enum"}
      /\ tokens[Attributes(index).at + 1].name = tokens[j - 1 + 1].name
  <2> DEFINE m == j - 1
  <2>1. k \in Named(m)' /\ k \notin Named(m)
    BY <1>5, <1>6
  <2> HIDE DEF m
  <2>2. /\ Collect /\ Text(index) \notin {"struct", "enum"}
        /\ tokens[Attributes(index).at + 1].name = tokens[m + 1].name
    BY <2>1, NamedStays
  <2> QED
    BY <2>2 DEF m
<1>8. Attributes(index).at \in Functions
  BY <1>7, Added
<1>9. Attributes(index).at = j - 1
  BY <1>3, <1>7, <1>8 DEF OnlyOne
<1> QED
  <2>1. i \in 1 .. Len(tokens)
    BY FunctionsAre DEF ParserTyped
  <2>2. ItemStart(i) \in 1 .. i
    BY <2>1, AttributeCountIs DEF ParserTyped
  <2>3. j - 1 = ItemStart(i) - 2
    BY <2>1, <2>2 DEF j
  <2> QED
    BY <1>7, <1>9, <2>3

LEMMA GoodAreKeptStays ==
  ASSUME PInv, NextParser
  PROVE  GoodAreKept'
<1>1. UNCHANGED <<tokens, imported>>
  BY DEF NextParser, parse_imports, Collect, Recover, Escape, EndOfFile, source
<1>2. /\ Functions' = Functions /\ \A i : Text(i)' = Text(i)
      /\ \A i : IsGood(i)' = IsGood(i) /\ NothingWrongBefore(i)' = NothingWrongBefore(i)
      /\ \A i : AttributesBefore(i)' = AttributesBefore(i)
  BY <1>1, SameTokens
<1>3. SUFFICES ASSUME Started', ~garbled', NEW i \in Functions, IsGood(i), i < index'
               PROVE  \E k \in Named(i)' :
                        NothingWrongBefore(i) \/ AfterCollected(i)' =>
                          functions'[k].attributes = AttributesBefore(i)
  BY <1>2 DEF GoodAreKept, IsKept
<1>4. /\ ParserTyped /\ Progress /\ GoodAreKept /\ NextInPlace
      /\ tokens \in Sources /\ DOMAIN tokens = 1 .. Len(tokens) /\ Len(tokens) \in Nat
      /\ index \in 1 .. Len(tokens) /\ i \in 1 .. Len(tokens) /\ Text(i) \in ItemOpeners
  BY TokensRead, FunctionsAre DEF PInv, ParserTyped
<1>5. CASE parse_imports
  <2>1. index' = ImportsEnd
    BY <1>5 DEF parse_imports
  <2>2. ImportsEnd \in 1 .. Len(tokens) /\ \A j \in 1 .. ImportsEnd - 1 : Text(j) \notin ItemOpeners
    BY <1>4, ImportsAre
  <2> QED
    BY <1>3, <1>4, <2>1, <2>2
<1>6. CASE Escape
  BY <1>3, <1>6 DEF Escape, Started
<1>7. CASE Collect \/ Recover \/ EndOfFile
  <2>1. Started /\ ~garbled /\ phase = "declarations"
    BY <1>3, <1>4, <1>7 DEF Collect, Recover, EndOfFile, InLoop, Started, ParserTyped
  <2>2. CASE i < index
    <3>1. PICK k \in Named(i) : NothingWrongBefore(i) \/ AfterCollected(i) =>
                                  functions[k].attributes = AttributesBefore(i)
      BY <1>3, <1>4, <2>1, <2>2 DEF GoodAreKept, IsKept
    <3>2. k \in Named(i)' /\ functions'[k] = functions[k]
      BY <1>4, <1>7, <3>1, NamedStays
    <3>3. AfterCollected(i)' => AfterCollected(i)
      <4> SUFFICES ASSUME AfterCollected(i)', ~AfterCollected(i) PROVE FALSE
        OBVIOUS
      <4>1. /\ Collect /\ Text(index) \notin {"struct", "enum"}
            /\ Attributes(index).at = ItemStart(i) - 2
        BY <1>4, <1>7, CollectedBefore
      <4>2. index <= Attributes(index).at
        BY <1>4, <4>1, Added
      <4>3. ItemStart(i) \in 1 .. i
        BY <1>4, AttributeCountIs
      <4> QED
        BY <1>4, <2>2, <4>1, <4>2, <4>3
    <3> QED
      BY <3>1, <3>2, <3>3
  <2>3. CASE ~(i < index)
    <3>1. index <= i
      BY <1>4, <2>3
    <3>2. Text(index) # Eof /\ Collect /\ Text(index) \notin {"struct", "enum"} /\ Attributes(index).at = i
      <4>1. CASE EndOfFile
        <5>1. index' = index
          BY <4>1 DEF EndOfFile
        <5> QED
          BY <1>3, <2>3, <5>1
      <4>2. CASE Recover
        <5>1. Text(index) # Eof /\ Declaration(index).how = "error"
          BY <1>4, <4>2, LoopReads DEF Recover
        <5>2. skip_to_decl(Declaration(index).at) <= i
          BY <1>3, <1>4, <3>1, <5>1, NonePassed
        <5>3. index' <= i /\ index' \in DOMAIN tokens
          BY <1>4, <4>2, <5>2, RecoverMoves
        <5> QED
          BY <1>3, <1>4, <5>3
      <4>3. CASE Collect
        <5>1. Text(index) # Eof /\ Declaration(index).how = "ok"
          BY <1>4, <4>3, LoopReads DEF Collect
        <5>2. \/ Text(index) = "enum" /\ Swallowed(index)
              \/ Declaration(index).at <= i
              \/ Text(index) \notin {"struct", "enum"} /\ Attributes(index).at = i
          BY <1>3, <1>4, <3>1, <5>1, NonePassed
        <5>3. ~(Text(index) = "enum" /\ Swallowed(index))
          BY <1>3, <4>3 DEF Collect, peek
        <5>4. index' = Declaration(index).at /\ index' \in DOMAIN tokens
          BY <1>4, <4>3, CollectTyped
        <5>5. ~(Declaration(index).at <= i)
          BY <1>3, <1>4, <5>4
        <5> QED
          BY <4>3, <5>1, <5>2, <5>3, <5>5
      <4> QED
        BY <1>7, <4>1, <4>2, <4>3
    <3> DEFINE n == Len(functions) + 1
    <3>3. /\ n \in Nat /\ n > Len(imported) /\ n \in DOMAIN functions'
          /\ functions'[n].name = tokens[i + 1].name
          /\ functions'[n].attributes = Attributes(index).names
      BY <1>4, <3>2, Added
    <3> HIDE DEF n
    <3>4. n \in Named(i)'
      BY <1>1, <3>3 DEF Named
    <3>5. ASSUME NothingWrongBefore(i) \/ AfterCollected(i)'
          PROVE  Attributes(index).names = AttributesBefore(i)
      <4>1. InPlace(i)
        BY <1>3, <1>4, <2>1, <3>1 DEF NextInPlace
      <4>2. AfterCollected(i)' => AfterCollected(i)
        <5> SUFFICES ASSUME AfterCollected(i)', ~AfterCollected(i) PROVE FALSE
          OBVIOUS
        <5>1. Attributes(index).at = ItemStart(i) - 2
          BY <1>4, <1>7, CollectedBefore
        <5>2. ItemStart(i) \in 1 .. i
          BY <1>4, AttributeCountIs
        <5> QED
          BY <1>4, <3>2, <5>1, <5>2
      <4>3. index <= ItemStart(i)
        <5>1. ItemStart(i) \in 1 .. i
          BY <1>4, AttributeCountIs
        <5> QED
          BY <1>4, <3>5, <4>1, <4>2, <5>1 DEF InPlace
      <4>4. index \in 1 .. i
        BY <1>4, <3>1
      <4> QED
        BY <1>4, <3>2, <4>3, <4>4, ForwardIsBackward
    <3> QED
      BY <3>3, <3>4, <3>5
  <2> QED
    BY <2>2, <2>3
<1> QED
  BY <1>5, <1>6, <1>7 DEF NextParser

LEMMA NextInPlaceStays ==
  ASSUME PInv, NextParser
  PROVE  NextInPlace'
<1>1. UNCHANGED <<tokens, imported>>
  BY DEF NextParser, parse_imports, Collect, Recover, Escape, EndOfFile, source
<1>2. /\ Functions' = Functions /\ \A i : Text(i)' = Text(i)
      /\ \A i : IsGood(i)' = IsGood(i) /\ NothingWrongBefore(i)' = NothingWrongBefore(i)
      /\ \A i : ItemStart(i)' = ItemStart(i)
  BY <1>1, SameTokens
<1>3. Text(index)' = Text(index')
  BY <1>1 DEF Text
<1>4. SUFFICES ASSUME phase' = "declarations", NEW i \in Functions, IsGood(i), index' <= i
               PROVE  /\ AfterCollected(i)' => index' = ItemStart(i)
                      /\ NothingWrongBefore(i) =>
                           index' <= ItemStart(i) /\ Text(index') \in Starters
  BY <1>2, <1>3 DEF NextInPlace, InPlace
<1>5. /\ ParserTyped /\ Progress /\ NextInPlace
      /\ tokens \in Sources /\ DOMAIN tokens = 1 .. Len(tokens) /\ Len(tokens) \in Nat
      /\ index \in 1 .. Len(tokens) /\ i \in 1 .. Len(tokens) /\ ItemStart(i) \in 1 .. i
  BY TokensRead, FunctionsAre, AttributeCountIs DEF PInv, ParserTyped
<1>6. CASE parse_imports
  <2>1. index' = ImportsEnd /\ functions' = imported
    BY <1>6 DEF parse_imports
  <2>2. ~AfterCollected(i)'
    <3>1. \A m : Named(m)' = {}
      <4>1. \A k \in DOMAIN imported : ~(k > Len(imported))
        <5>1. imported \in Seq(Fns)
          BY <1>5 DEF ParserTyped
        <5> QED
          BY <5>1
      <4> QED
        BY <1>1, <2>1, <4>1 DEF Named
    <3> QED
      BY <3>1 DEF AfterCollected
  <2>3. NothingWrongBefore(i) => ImportsEnd <= ItemStart(i) /\ Text(ImportsEnd) \in Starters
    BY <1>5, FirstInPlace
  <2> QED
    BY <2>1, <2>2, <2>3
<1>7. CASE Escape
  BY <1>4, <1>7 DEF Escape
<1>8. CASE EndOfFile
  BY <1>4, <1>8 DEF EndOfFile
<1>9. CASE Collect \/ Recover
  <2>1. /\ phase = "declarations" /\ Text(index) # Eof /\ index' \in 1 .. Len(tokens)
        /\ index <= index'
        /\ Collect => Declaration(index).how = "ok" /\ index' = Declaration(index).at
        /\ Recover => /\ Declaration(index).how = "error"
                      /\ index' = skip_to_decl(Declaration(index).at)
    <3>1. CASE Collect
      <4>1. /\ phase = "declarations" /\ Text(index) # Eof /\ Declaration(index).how = "ok"
            /\ index' = Declaration(index).at /\ index' \in DOMAIN tokens /\ index <= index'
        BY <1>5, <3>1, LoopReads, CollectTyped DEF Collect
      <4>2. ~Recover
        BY <4>1 DEF Recover, InLoop
      <4> QED
        BY <1>5, <4>1, <4>2
    <3>2. CASE Recover
      <4>1. /\ phase = "declarations" /\ Text(index) # Eof /\ Declaration(index).how = "error"
            /\ index' = skip_to_decl(Declaration(index).at)
            /\ index' \in DOMAIN tokens /\ index <= index'
        BY <1>5, <3>2, LoopReads, RecoverMoves DEF Recover
      <4>2. ~Collect
        BY <4>1 DEF Collect, InLoop
      <4> QED
        BY <1>5, <4>1, <4>2
    <3> QED
      BY <1>9, <3>1, <3>2
  <2>2. index <= i
    BY <1>4, <1>5, <2>1
  <2>3. InPlace(i)
    BY <1>4, <1>5, <2>1, <2>2 DEF NextInPlace
  <2>4. ASSUME AfterCollected(i)' PROVE index' = ItemStart(i)
    <3>1. CASE AfterCollected(i)
      <4>1. index = ItemStart(i)
        BY <2>3, <3>1 DEF InPlace
      <4>2. Declaration(index).how = "ok" /\ Declaration(index).at = i + 2
        BY <1>4, <1>5, <4>1, FromItemStart
      <4>3. index' = i + 2
        BY <1>9, <2>1, <4>2
      <4> QED
        BY <1>4, <1>5, <4>3
    <3>2. CASE ~AfterCollected(i)
      <4>1. /\ Collect /\ Text(index) \notin {"struct", "enum"}
            /\ Attributes(index).at = ItemStart(i) - 2
        BY <1>5, <1>9, <2>4, <3>2, CollectedBefore
      <4>2. index' = Attributes(index).at + 2
        BY <1>5, <4>1, Added
      <4> QED
        BY <1>5, <4>1, <4>2
    <3> QED
      BY <3>1, <3>2
  <2>5. ASSUME NothingWrongBefore(i)
        PROVE  index' <= ItemStart(i) /\ Text(index') \in Starters
    <3>1. index <= ItemStart(i) /\ Text(index) \in Starters
      BY <2>3, <2>5 DEF InPlace
    <3>2. ImportsEnd <= index
      BY <1>5, <2>1 DEF Progress, Started
    <3> DEFINE d == Declaration(index)
               next == IF d.how = "ok" THEN d.at ELSE skip_to_decl(d.at)
    <3>3. next <= i => next <= ItemStart(i) /\ Text(next) \in Starters
      BY <1>4, <1>5, <2>5, <3>1, <3>2, StaysInPlace
    <3>4. index' = next
      BY <1>9, <2>1
    <3> HIDE DEF next
    <3> QED
      BY <1>4, <3>3, <3>4
  <2> QED
    BY <2>4, <2>5
<1> QED
  BY <1>6, <1>7, <1>8, <1>9 DEF NextParser

LEMMA ParserStays == PInv /\ [NextParser]_parser => PInv'
<1> SUFFICES ASSUME PInv, [NextParser]_parser PROVE PInv'
  OBVIOUS
<1>1. CASE NextParser
  <2>1. ParserTyped /\ Progress /\ NothingLost
    BY DEF PInv
  <2>2. ParserTyped' /\ Progress' /\ NothingLost'
    BY <1>1, <2>1, TypedStays, ProgressStays, NothingLostStays
  <2>3. GoodAreKept' /\ NextInPlace'
    BY <1>1, GoodAreKeptStays, NextInPlaceStays
  <2> QED
    BY <2>2, <2>3 DEF PInv
<1>2. CASE UNCHANGED parser
  <2>1. UNCHANGED <<tokens, imported, index, functions, garbled, diagnosed, phase>>
    BY <1>2 DEF parser
  <2>2. /\ Functions' = Functions /\ \A i : Text(i)' = Text(i)
        /\ ImportsEnd' = ImportsEnd
        /\ \A i : IsGood(i)' = IsGood(i) /\ NothingWrongBefore(i)' = NothingWrongBefore(i)
        /\ \A i : ItemStart(i)' = ItemStart(i) /\ AttributesBefore(i)' = AttributesBefore(i)
        /\ DeclaredFns' = DeclaredFns
    BY <2>1, SameTokens
  <2>3. /\ \A i : Named(i)' = Named(i)
        /\ \A i : AfterCollected(i)' = AfterCollected(i)
    BY <2>1 DEF Named, AfterCollected, OnlyOne, Functions, ItemStart, AttributeCount, Attribute, Text
  <2>4. Started' = Started /\ peek' = peek /\ Text(index)' = Text(index) /\ Text(index - 1)' = Text(index - 1)
    BY <2>1 DEF Started, peek, Text
  <2>5. ParserTyped' /\ Progress'
    BY <2>1, <2>2, <2>4 DEF PInv, ParserTyped, Progress
  <2>6. NothingLost'
    BY <2>1, <2>2, <2>4 DEF PInv, NothingLost, InOrder
  <2>7. GoodAreKept'
    BY <2>1, <2>2, <2>3, <2>4 DEF PInv, GoodAreKept, IsKept
  <2>8. NextInPlace'
    BY <2>1, <2>2, <2>3, <2>4 DEF PInv, NextInPlace, InPlace
  <2> QED
    BY <2>5, <2>6, <2>7, <2>8 DEF PInv
<1> QED
  BY <1>1, <1>2

-----------------------------------------------------------------------------
(* What the file has lost when the loop is done. *)

LEMMA ParsedAtEnd ==
  ASSUME PInv, phase = "parsed"
  PROVE  /\ tokens \in Sources /\ Len(tokens) \in Nat /\ index = Len(tokens) /\ 1 <= index
         /\ \A i \in Functions : i < index
<1>1. tokens \in Sources /\ index \in DOMAIN tokens /\ peek = Eof
  BY DEF PInv, ParserTyped, Progress
<1>2. DOMAIN tokens = 1 .. Len(tokens) /\ Len(tokens) \in Nat /\ 1 <= Len(tokens)
  BY <1>1, TokensRead
<1>3. index \in Int /\ index \notin 1 .. Len(tokens) - 1
  <2>1. index \in Int /\ Text(index) = Eof
    BY <1>1, <1>2 DEF peek
  <2> QED
    BY <1>1, <2>1, TokensRead
<1>4. index = Len(tokens)
  BY <1>1, <1>2, <1>3
<1>5. ASSUME NEW i \in Functions PROVE i < index
  <2>1. i \in 1 .. Len(tokens) /\ i + 2 <= Len(tokens)
    BY <1>1, FunctionsAre
  <2> QED
    BY <1>2, <1>4, <2>1
<1> QED
  BY <1>1, <1>2, <1>4, <1>5

LEMMA ParserLosesNothing == PInv => LossIsLocal
<1> SUFFICES ASSUME PInv, phase = "parsed", ~garbled
             PROVE  /\ ~diagnosed => functions = imported \o Written
                    /\ \A i \in Functions :
                         (/\ Text(i + 1) = "ok"
                          /\ Text(ItemStart(i) - 1) \notin {"open", "#["})
                         => \E k \in Named(i) :
                              NothingWrongBefore(i) \/ AfterCollected(i) =>
                                functions[k].attributes = AttributesBefore(i)
  BY DEF LossIsLocal
<1>1. /\ tokens \in Sources /\ Len(tokens) \in Nat /\ index = Len(tokens) /\ 1 <= index
      /\ \A i \in Functions : i < index
  BY ParsedAtEnd
<1>2. ASSUME ~diagnosed PROVE functions = imported \o Written
  <2>1. functions = imported \o InOrder(DeclaredFns, index - 1)
    BY <1>2 DEF PInv, NothingLost, Started
  <2> DEFINE m == index - 1
             n == Len(tokens)
  <2>2. m \in Nat /\ n \in Nat /\ m <= n
    BY <1>1
  <2>3. \A i \in m + 1 .. n : i \notin Functions
    BY <1>1
  <2>4. DeclaredFns \in [Functions -> Decls]
    BY <1>1, DeclaredType
  <2>5. InOrder(DeclaredFns, n) = InOrder(DeclaredFns, m)
    <3> HIDE DEF m, n
    <3> QED
      BY <2>2, <2>3, <2>4, InOrderSkips
  <2>6. Written = InOrder(DeclaredFns, n)
    BY DEF Written, DeclaredFns
  <2> QED
    BY <2>1, <2>5, <2>6
<1>3. ASSUME NEW i \in Functions, Text(i + 1) = "ok",
             Text(ItemStart(i) - 1) \notin {"open", "#["}
      PROVE  \E k \in Named(i) :
               NothingWrongBefore(i) \/ AfterCollected(i) =>
                 functions[k].attributes = AttributesBefore(i)
  <2>1. IsGood(i)
    BY <1>3 DEF IsGood
  <2>2. IsKept(i)
    BY <1>1, <2>1 DEF PInv, GoodAreKept, Started
  <2> QED
    BY <2>2 DEF IsKept
<1> QED
  BY <1>2, <1>3

(* Without a message, every function is one of a module or one declared    *)
(* that reads well, and every one declared is there.                       *)
LEMMA NoMessage ==
  ASSUME PInv, phase = "parsed", ~diagnosed, ~garbled
  PROVE  /\ \A k \in DOMAIN functions :
              \/ \E m \in DOMAIN imported : functions[k] = imported[m]
              \/ \E i \in Functions : functions[k] = DeclaredAt(i)
         /\ \A i \in Functions : Text(i + 1) = "ok"
         /\ \A i \in Functions : \E k \in DOMAIN functions : functions[k] = DeclaredAt(i)
<1>1. /\ tokens \in Sources /\ Len(tokens) \in Nat /\ index = Len(tokens) /\ 1 <= index
      /\ \A i \in Functions : i < index
  BY ParsedAtEnd
<1> DEFINE n == index - 1
           order == InOrder(DeclaredFns, n)
<1>2. n \in Nat /\ DeclaredFns \in [Functions -> Decls] /\ imported \in Seq(Fns)
  BY <1>1, DeclaredType DEF PInv, ParserTyped
<1>3. functions = imported \o order /\ \A i \in Functions : Text(i + 1) = "ok"
  BY <1>1 DEF PInv, NothingLost, Started
<1>4. order \in Seq(Decls)
  <2> HIDE DEF n
  <2> QED
    BY <1>2, InOrderIs
<1>5. /\ \A i \in Functions : i \in 1 .. n => \E k \in DOMAIN order : order[k] = DeclaredFns[i]
      /\ \A k \in DOMAIN order : \E i \in Functions : order[k] = DeclaredFns[i]
  <2> HIDE DEF n
  <2>1. Ordered(Functions, DeclaredFns, n)
    BY <1>2, InOrderHolds
  <2> QED
    BY <2>1 DEF Ordered
<1>6. \A i \in Functions : DeclaredFns[i] = DeclaredAt(i)
  BY DEF DeclaredFns
<1>7. ASSUME NEW i \in Functions PROVE i \in 1 .. n
  <2>1. i \in 1 .. Len(tokens) /\ i < index
    BY <1>1, FunctionsAre
  <2> QED
    BY <1>1, <2>1
<1> HIDE DEF n, order
<1>8. /\ \A k \in DOMAIN imported : k \in DOMAIN functions /\ functions[k] = imported[k]
      /\ \A k \in DOMAIN order : /\ Len(imported) + k \in DOMAIN functions
                                 /\ functions[Len(imported) + k] = order[k]
      /\ \A k \in DOMAIN functions : \/ k \in DOMAIN imported
                                     \/ k - Len(imported) \in DOMAIN order
                                          /\ functions[k] = order[k - Len(imported)]
  <2> DEFINE A == Fns \cup Decls
  <2>1. imported \in Seq(A) /\ order \in Seq(A)
    BY <1>2, <1>4
  <2> HIDE DEF A
  <2>2. ASSUME NEW s \in Seq(A), NEW t \in Seq(A)
        PROVE  /\ \A k \in DOMAIN s : k \in DOMAIN (s \o t) /\ (s \o t)[k] = s[k]
               /\ \A k \in DOMAIN t : /\ Len(s) + k \in DOMAIN (s \o t)
                                      /\ (s \o t)[Len(s) + k] = t[k]
               /\ \A k \in DOMAIN (s \o t) : \/ k \in DOMAIN s
                                             \/ k - Len(s) \in DOMAIN t
                                                  /\ (s \o t)[k] = t[k - Len(s)]
    OBVIOUS
  <2> QED
    BY <1>3, <2>1, <2>2
<1>9. ASSUME NEW k \in DOMAIN functions
      PROVE  \/ \E m \in DOMAIN imported : functions[k] = imported[m]
             \/ \E i \in Functions : functions[k] = DeclaredAt(i)
  <2>1. CASE k \in DOMAIN imported
    BY <1>8, <2>1
  <2>2. CASE k \notin DOMAIN imported
    <3>1. k - Len(imported) \in DOMAIN order /\ functions[k] = order[k - Len(imported)]
      BY <1>8, <2>2
    <3>2. PICK i \in Functions : order[k - Len(imported)] = DeclaredFns[i]
      BY <1>5, <3>1
    <3> QED
      BY <1>6, <3>1, <3>2
  <2> QED
    BY <2>1, <2>2
<1>10. ASSUME NEW i \in Functions PROVE \E k \in DOMAIN functions : functions[k] = DeclaredAt(i)
  <2>1. PICK k \in DOMAIN order : order[k] = DeclaredFns[i]
    BY <1>5, <1>7
  <2>2. Len(imported) + k \in DOMAIN functions /\ functions[Len(imported) + k] = DeclaredAt(i)
    BY <1>6, <1>8, <2>1
  <2> QED
    BY <2>2
<1> QED
  BY <1>3, <1>9, <1>10

-----------------------------------------------------------------------------
(* The emitted program. *)

LEMMA EmittedIsWorth ==
  ASSUME functions \in Seq(Fns)
  PROVE  EmittedIsWorthTheSource
<1> SUFFICES ASSUME NEW k \in DOMAIN functions, functions[k].body # CallsExit,
                    PlainLiterals(functions[k].body)
             PROVE  Emitted(functions[k].body) = Meaning(functions[k].body)
  BY DEF EmittedIsWorthTheSource
<1> DEFINE body == functions[k].body
<1>1. functions[k] \in Fns
  OBVIOUS
<1>2. body \in Bodies
  BY <1>1 DEF Fns
<1>3. body \in Seq(BodyTokens) /\ expression(body).error = "none"
  BY <1>2 DEF Bodies, ReadsWell
<1>4. PlainLiterals(body)
  OBVIOUS
<1> HIDE DEF body
<1>5. Emitted(body) = Meaning(body)
  BY <1>3, <1>4, ParserKeepsMeaning DEF Emitted
<1> QED
  BY <1>5 DEF body

LEMMA ChosenIs ==
  ASSUME functions \in Seq(Fns), NEW ks \in SUBSET DOMAIN functions
  PROVE  /\ Chosen(ks) \in Seq(Fns) /\ Len(Chosen(ks)) <= Len(functions)
         /\ \A k \in ks : \E n \in DOMAIN Chosen(ks) : Chosen(ks)[n] = functions[k]
         /\ \A n \in DOMAIN Chosen(ks) : \E k \in ks : Chosen(ks)[n] = functions[k]
<1> DEFINE f == [k \in ks |-> functions[k]]
           n == Len(functions)
<1>1. n \in Nat /\ DOMAIN functions = 1 .. n
  OBVIOUS
<1>2. f \in [ks -> Fns]
  OBVIOUS
<1>3. ks \cap 1 .. n = ks
  BY <1>1
<1>4. \A k \in ks : f[k] = functions[k]
  OBVIOUS
<1>5. Chosen(ks) = InOrder(f, n)
  BY DEF Chosen
<1> HIDE DEF f, n
<1>6. InOrder(f, n) \in Seq(Fns) /\ Ordered(ks, f, n)
  BY <1>1, <1>2, InOrderIs, InOrderHolds
<1>7. Len(Chosen(ks)) <= n
  <2>1. Len(Chosen(ks)) \in 0 .. n
    BY <1>5, <1>6 DEF Ordered
  <2> QED
    BY <1>1, <2>1
<1>8. /\ \A k \in ks : \E m \in DOMAIN Chosen(ks) : Chosen(ks)[m] = functions[k]
      /\ \A m \in DOMAIN Chosen(ks) : \E k \in ks : Chosen(ks)[m] = functions[k]
  BY <1>3, <1>4, <1>5, <1>6 DEF Ordered
<1> QED
  BY <1>5, <1>6, <1>7, <1>8 DEF n

(* What the program calls are functions that were collected; in a harness  *)
(* without --bench they are tests.                                         *)
LEMMA CalledIs ==
  ASSUME functions \in Seq(Fns)
  PROVE  /\ Called \in Seq(Fns) /\ Len(Called) <= Len(functions)
         /\ \A n \in DOMAIN Called :
              \E k \in DOMAIN functions :
                /\ Called[n] = functions[k]
                /\ HasHarness /\ ~bench => IsTest(functions[k])
<1> DEFINE T == {k \in DOMAIN functions : IsTest(functions[k])}
           B == {k \in DOMAIN functions : IsBench(functions[k])}
           M == FirstMain(functions)
<1>1. /\ T \in SUBSET DOMAIN functions /\ B \in SUBSET DOMAIN functions
      /\ M \in SUBSET DOMAIN functions
  BY DEF FirstMain
<1>2. \A k \in T : IsTest(functions[k])
  OBVIOUS
<1>3. TestFns = Chosen(T) /\ BenchFns = Chosen(B)
  BY DEF TestFns, BenchFns
<1>4. Called = IF ~HasHarness THEN Chosen(M) ELSE IF bench THEN Chosen(B) ELSE Chosen(T)
  BY <1>3 DEF Called
<1> HIDE DEF T, B, M
<1>5. ASSUME NEW ks \in SUBSET DOMAIN functions
      PROVE  /\ Chosen(ks) \in Seq(Fns) /\ Len(Chosen(ks)) <= Len(functions)
             /\ \A n \in DOMAIN Chosen(ks) : \E k \in ks : Chosen(ks)[n] = functions[k]
  BY ChosenIs, Zenon
<1>6. CASE HasHarness /\ ~bench
  <2>1. Called = Chosen(T)
    BY <1>4, <1>6
  <2>2. /\ Chosen(T) \in Seq(Fns) /\ Len(Chosen(T)) <= Len(functions)
        /\ \A n \in DOMAIN Chosen(T) : \E k \in T : Chosen(T)[n] = functions[k]
    BY <1>1, <1>5, Zenon
  <2> QED
    BY <1>1, <1>2, <2>1, <2>2
<1>7. ASSUME ~(HasHarness /\ ~bench), NEW ks \in SUBSET DOMAIN functions, Called = Chosen(ks)
      PROVE  /\ Called \in Seq(Fns) /\ Len(Called) <= Len(functions)
             /\ \A n \in DOMAIN Called :
                  \E k \in DOMAIN functions :
                    /\ Called[n] = functions[k]
                    /\ HasHarness /\ ~bench => IsTest(functions[k])
  <2>1. /\ Chosen(ks) \in Seq(Fns) /\ Len(Chosen(ks)) <= Len(functions)
        /\ \A n \in DOMAIN Chosen(ks) : \E k \in ks : Chosen(ks)[n] = functions[k]
    BY <1>5, Zenon
  <2> QED
    BY <1>7, <2>1
<1>8. ~(HasHarness /\ ~bench) => \E ks \in SUBSET DOMAIN functions : Called = Chosen(ks)
  BY <1>1, <1>4
<1> QED
  BY <1>6, <1>7, <1>8

-----------------------------------------------------------------------------
(* From the compiler to the verdict.                                       *)

(* The n-th call has to be worth zero, for the program to go on. *)
Meant(n) == bench \/ Returned(Called[n]) = {0}

StageInv ==
  /\ bench \in BOOLEAN
  /\ stage \in {"compile", "build", "run", "done"}
  /\ verdict \in {"none", "skipped", "PASS", "FAIL"}
  /\ stage # "done" => verdict = "none"
  /\ stage \in {"compile", "build"} => ran = <<>>
  /\ stage \in {"build", "run"} => phase = "parsed" /\ ~diagnosed
  /\ stage = "run" => Builds
  /\ ran \in Seq(STRING)
  /\ Len(ran) <= Len(Called)
  /\ \A n \in DOMAIN ran : ran[n] = Called[n].name
  /\ stage = "run" => \A n \in DOMAIN ran : HasHarness /\ Meant(n)

(* Success has one of three causes: a program without a harness, one that  *)
(* exits by itself, or every call made and none that failed.               *)
Earned ==
  verdict = "PASS" =>
    /\ phase = "parsed" /\ ~diagnosed /\ Builds
    /\ \/ ~HasHarness
       \/ \E n \in DOMAIN Called : Called[n].body = CallsExit
       \/ Len(ran) = Len(Called) /\ \A n \in DOMAIN ran : Meant(n)

(* The n-th call fails. *)
Fails(n) ==
  /\ Called[n].body # CallsExit
  /\ Traps(Called[n]) \/ \E r \in Returned(Called[n]) : WrongResult(r)

Caused ==
  verdict = "FAIL" =>
    \/ phase = "aborted" \/ diagnosed \/ garbled
    \/ RefusedType
    \/ phase = "parsed" /\ Refused(functions)
    \/ phase = "parsed" /\ Len(ran) \in DOMAIN Called /\ ran # <<>> /\ Fails(Len(ran))

TestInv == PInv /\ StageInv /\ Earned /\ Caused

LEMMA SameProgram ==
  ASSUME UNCHANGED <<tokens, functions, garbled, bench>>
  PROVE  /\ Called' = Called /\ HasHarness' = HasHarness /\ Builds' = Builds
         /\ RefusedType' = RefusedType /\ Refused(functions)' = Refused(functions)
         /\ \A n : Meant(n)' = Meant(n)
         /\ \A n : Fails(n)' = Fails(n)
<1>1. HasHarness' = HasHarness /\ RefusedType' = RefusedType
  BY DEF HasHarness, RefusedType, Text
<1>2. Called' = Called
  BY <1>1 DEF Called, BenchFns, TestFns, Chosen
<1>3. Builds' = Builds /\ Refused(functions)' = Refused(functions)
  BY <1>1 DEF Builds
<1>4. \A n : Meant(n)' = Meant(n)
  BY <1>2 DEF Meant
<1>5. \A n : Fails(n)' = Fails(n)
  BY <1>1, <1>2 DEF Fails, WrongResult
<1> QED
  BY <1>1, <1>2, <1>3, <1>4, <1>5

LEMMA TestInit == InitTest => TestInv
<1> SUFFICES ASSUME InitTest PROVE TestInv
  OBVIOUS
<1>1. PInv
  BY ParserInit DEF InitTest
<1>2. functions \in Seq(Fns)
  BY <1>1 DEF PInv, ParserTyped
<1>3. Called \in Seq(Fns)
  BY <1>2, CalledIs
<1>4. ran = <<>> /\ verdict = "none" /\ stage = "compile" /\ bench \in BOOLEAN
  BY DEF InitTest
<1>5. ran \in Seq(STRING) /\ Len(ran) <= Len(Called) /\ DOMAIN ran = {}
  BY <1>3, <1>4
<1>6. StageInv
  BY <1>4, <1>5 DEF StageInv
<1>7. Earned /\ Caused
  BY <1>4 DEF Earned, Caused
<1> QED
  BY <1>1, <1>6, <1>7 DEF TestInv

(* Only the compiler's step changes what the parser keeps. *)
LEMMA ParserStep == [NextTest]_varsTest => [NextParser]_parser
  BY DEF NextTest, varsTest, Skipped, Compile, Compiled, Build, CallReturns, CallFails,
         ExitsEarly, Finish

(* The call that is made next. *)
LEMMA CallIs ==
  ASSUME PInv, StageInv, Running, Calls
  PROVE  LET n == Len(ran) + 1
         IN  /\ n \in DOMAIN Called /\ Current = Called[n]
             /\ ran' \in Seq(STRING) /\ Len(ran') = n
             /\ DOMAIN ran' = DOMAIN ran \cup {n}
             /\ \A m \in DOMAIN ran' : ran'[m] = Called[m].name
<1> DEFINE n == Len(ran) + 1
<1>1. Called \in Seq(Fns) /\ ran \in Seq(STRING)
  BY CalledIs DEF PInv, ParserTyped, StageInv
<1>2. n \in DOMAIN Called /\ n \in Nat
  BY <1>1 DEF Running
<1>3. Called[n] \in Fns
  BY <1>1, <1>2
<1>4. Current = Called[n] /\ Current.name \in STRING
  BY <1>3 DEF Current, Fns
<1>5. ran' = Append(ran, Current.name)
  BY DEF Calls
<1> DEFINE name == Current.name
<1>6. /\ ran' \in Seq(STRING) /\ Len(ran') = n /\ DOMAIN ran' = DOMAIN ran \cup {n}
      /\ ran'[n] = name
      /\ \A m \in DOMAIN ran : ran'[m] = ran[m]
  <2>1. name \in STRING /\ ran' = Append(ran, name)
    BY <1>4, <1>5
  <2> DEFINE Strings == STRING
  <2>2. ran \in Seq(Strings) /\ name \in Strings
    BY <1>1, <2>1
  <2> HIDE DEF name, Strings
  <2>3. \A s \in Seq(Strings), x \in Strings :
          /\ Append(s, x) \in Seq(Strings) /\ Len(Append(s, x)) = Len(s) + 1
          /\ DOMAIN Append(s, x) = DOMAIN s \cup {Len(s) + 1}
          /\ Append(s, x)[Len(s) + 1] = x
          /\ \A m \in DOMAIN s : Append(s, x)[m] = s[m]
    OBVIOUS
  <2>4. /\ ran' \in Seq(Strings) /\ Len(ran') = Len(ran) + 1
        /\ DOMAIN ran' = DOMAIN ran \cup {Len(ran) + 1}
        /\ ran'[Len(ran) + 1] = name
        /\ \A m \in DOMAIN ran : ran'[m] = ran[m]
    BY <2>1, <2>2, <2>3
  <2> QED
    BY <2>4 DEF Strings
<1>7. \A m \in DOMAIN ran : ran[m] = Called[m].name
  BY DEF StageInv
<1>8. \A m \in DOMAIN ran' : ran'[m] = Called[m].name
  BY <1>4, <1>6, <1>7
<1> QED
  BY <1>2, <1>4, <1>6, <1>8

LEMMA TestStays == TestInv /\ [NextTest]_varsTest => TestInv'
<1> SUFFICES ASSUME TestInv, [NextTest]_varsTest PROVE TestInv'
  OBVIOUS
<1> USE DEF TestInv
<1>1. PInv'
  BY ParserStays, ParserStep
<1>2. Called \in Seq(Fns) /\ ran \in Seq(STRING) /\ functions \in Seq(Fns)
  BY CalledIs DEF PInv, ParserTyped, StageInv
<1>3. CASE UNCHANGED varsTest
  <2>1. /\ UNCHANGED <<tokens, functions, garbled, bench>>
        /\ UNCHANGED <<diagnosed, phase, stage, ran, verdict>>
    BY <1>3 DEF varsTest, parser
  <2>2. /\ Called' = Called /\ HasHarness' = HasHarness /\ Builds' = Builds
        /\ RefusedType' = RefusedType /\ Refused(functions)' = Refused(functions)
        /\ \A n : Meant(n)' = Meant(n)
        /\ \A n : Fails(n)' = Fails(n)
    BY <2>1, SameProgram
  <2>3. StageInv'
    BY <2>1, <2>2 DEF StageInv
  <2>4. Earned' /\ Caused'
    BY <2>1, <2>2 DEF Earned, Caused
  <2> QED
    BY <1>1, <2>3, <2>4
<1>4. CASE Compile
  <2>1. UNCHANGED <<bench, stage, ran, verdict>> /\ stage = "compile"
    BY <1>4 DEF Compile
  <2>2. verdict = "none" /\ ran = <<>> /\ bench \in BOOLEAN
    BY <2>1 DEF StageInv
  <2>3. Called' \in Seq(Fns)
    <3>1. functions' \in Seq(Fns)
      BY <1>1 DEF PInv, ParserTyped
    <3>2. (functions \in Seq(Fns) => Called \in Seq(Fns))'
      BY CalledIs, PTL
    <3> QED
      BY <3>1, <3>2
  <2>4. ran' \in Seq(STRING) /\ Len(ran') <= Len(Called') /\ DOMAIN ran' = {}
    BY <2>1, <2>2, <2>3
  <2>5. StageInv'
    BY <2>1, <2>2, <2>4 DEF StageInv
  <2>6. Earned' /\ Caused'
    BY <2>1, <2>2 DEF Earned, Caused
  <2> QED
    BY <1>1, <2>5, <2>6
<1>5. ASSUME UNCHANGED <<parser, bench>>,
             \/ Skipped \/ Compiled \/ Build \/ CallReturns \/ CallFails \/ ExitsEarly \/ Finish
      PROVE  StageInv' /\ Earned' /\ Caused'
  <2>1. UNCHANGED <<tokens, functions, garbled, bench>> /\ UNCHANGED <<diagnosed, phase>>
    BY <1>5 DEF parser
  <2>2. /\ Called' = Called /\ HasHarness' = HasHarness /\ Builds' = Builds
        /\ RefusedType' = RefusedType /\ Refused(functions)' = Refused(functions)
        /\ \A n : Meant(n)' = Meant(n)
        /\ \A n : Fails(n)' = Fails(n)
    BY <2>1, SameProgram
  <2>4. CASE Skipped
    <3>1. stage = "compile" /\ verdict' = "skipped" /\ stage' = "done" /\ ran' = ran
      BY <2>4 DEF Skipped, Verdict
    <3>2. StageInv'
      BY <2>1, <2>2, <3>1 DEF StageInv
    <3> QED
      BY <3>1, <3>2 DEF Earned, Caused
  <2>5. CASE Compiled
    <3>1. stage = "compile" /\ ran' = ran /\ ran = <<>> /\ phase \in {"parsed", "aborted"}
      BY <2>5 DEF Compiled, StageInv
    <3>2. CASE phase = "aborted" \/ diagnosed
      <4>1. verdict' = "FAIL" /\ stage' = "done"
        BY <2>5, <3>2 DEF Compiled, Verdict
      <4>2. StageInv'
        BY <2>1, <2>2, <3>1, <4>1 DEF StageInv
      <4> QED
        BY <2>1, <3>2, <4>1, <4>2 DEF Earned, Caused
    <3>3. CASE ~(phase = "aborted" \/ diagnosed)
      <4>1. verdict' = verdict /\ stage' = "build" /\ verdict = "none"
        BY <2>5, <3>1, <3>3 DEF Compiled, StageInv
      <4>2. StageInv'
        BY <2>1, <2>2, <3>1, <3>3, <4>1 DEF StageInv
      <4> QED
        BY <4>1, <4>2 DEF Earned, Caused
    <3> QED
      BY <3>2, <3>3
  <2>6. CASE Build
    <3>1. stage = "build" /\ ran' = ran /\ ran = <<>> /\ verdict = "none"
          /\ phase = "parsed" /\ ~diagnosed
      BY <2>6 DEF Build, StageInv
    <3>2. CASE Builds
      <4>1. verdict' = verdict /\ stage' = "run"
        BY <2>6, <3>2 DEF Build
      <4>2. DOMAIN ran = {}
        BY <3>1
      <4>3. StageInv'
        BY <2>1, <2>2, <3>1, <3>2, <4>1, <4>2 DEF StageInv
      <4> QED
        BY <3>1, <4>1, <4>3 DEF Earned, Caused
    <3>3. CASE ~Builds
      <4>1. verdict' = "FAIL" /\ stage' = "done"
        BY <2>6, <3>3 DEF Build, Verdict
      <4>2. StageInv'
        BY <2>1, <2>2, <3>1, <4>1 DEF StageInv
      <4>3. garbled \/ RefusedType \/ Refused(functions)
        BY <3>3 DEF Builds
      <4> QED
        BY <2>1, <2>2, <3>1, <4>1, <4>2, <4>3 DEF Earned, Caused
    <3> QED
      BY <3>2, <3>3
  <2> DEFINE n == Len(ran) + 1
  <2>7. ASSUME Running, Calls
        PROVE  /\ stage = "run" /\ verdict = "none" /\ phase = "parsed" /\ ~diagnosed /\ Builds
               /\ n \in DOMAIN Called /\ Current = Called[n]
               /\ ran' \in Seq(STRING) /\ Len(ran') = n /\ Len(ran') <= Len(Called')
               /\ DOMAIN ran' = DOMAIN ran \cup {n}
               /\ \A m \in DOMAIN ran' : ran'[m] = Called'[m].name
    <3>1. stage = "run"
      BY <2>7 DEF Running
    <3>2. verdict = "none" /\ phase = "parsed" /\ ~diagnosed /\ Builds
      BY <3>1 DEF StageInv
    <3>3. /\ n \in DOMAIN Called /\ Current = Called[n]
          /\ ran' \in Seq(STRING) /\ Len(ran') = n
          /\ DOMAIN ran' = DOMAIN ran \cup {n}
          /\ \A m \in DOMAIN ran' : ran'[m] = Called[m].name
      BY <2>7, CallIs
    <3> HIDE DEF n
    <3>4. n <= Len(Called)
      BY <1>2, <3>3
    <3> QED
      BY <2>2, <3>1, <3>2, <3>3, <3>4
  <2> HIDE DEF n
  <2>8. CASE CallReturns
    <3>1. /\ Running /\ Calls /\ HasHarness /\ UNCHANGED <<stage, verdict>>
          /\ bench \/ Returned(Current) = {0}
      BY <2>8 DEF CallReturns
    <3>2. Meant(n)
      BY <2>7, <3>1 DEF Meant
    <3>3. \A m \in DOMAIN ran' : HasHarness /\ Meant(m)
      BY <2>7, <3>1, <3>2 DEF StageInv
    <3>4. StageInv'
      BY <2>1, <2>2, <2>7, <3>1, <3>3 DEF StageInv
    <3> QED
      BY <2>7, <3>1, <3>4 DEF Earned, Caused
  <2>9. CASE CallFails
    <3>1. /\ Running /\ Calls /\ Current.body # CallsExit
          /\ Traps(Current) \/ \E r \in Returned(Current) : WrongResult(r)
          /\ verdict' = "FAIL" /\ stage' = "done"
      BY <2>9 DEF CallFails, Verdict
    <3>2. StageInv'
      BY <2>1, <2>2, <2>7, <3>1 DEF StageInv
    <3>3. Fails(n) /\ Len(ran') = n /\ n \in DOMAIN Called /\ ran' # <<>>
      <4>1. Fails(n)
        BY <2>7, <3>1 DEF Fails
      <4>2. DOMAIN ran' # {}
        BY <2>7, <3>1
      <4> QED
        BY <2>7, <3>1, <4>1, <4>2
    <3>4. Caused'
      BY <2>1, <2>2, <2>7, <3>1, <3>3 DEF Caused
    <3> QED
      BY <3>1, <3>2, <3>4 DEF Earned
  <2>10. CASE ExitsEarly
    <3>1. /\ Running /\ Calls /\ verdict' = "PASS" /\ stage' = "done"
          /\ Current.body = CallsExit \/ ~HasHarness
      BY <2>10 DEF ExitsEarly, Verdict
    <3>2. StageInv'
      BY <2>1, <2>2, <2>7, <3>1 DEF StageInv
    <3>3. ~HasHarness \/ \E m \in DOMAIN Called : Called[m].body = CallsExit
      BY <2>7, <3>1
    <3>4. Earned'
      BY <2>1, <2>2, <2>7, <3>1, <3>3 DEF Earned
    <3> QED
      BY <3>1, <3>2, <3>4 DEF Caused
  <2>11. CASE Finish
    <3>1. /\ stage = "run" /\ Len(ran) = Len(Called) /\ verdict' = "PASS" /\ stage' = "done"
          /\ ran' = ran
      BY <2>11 DEF Finish, Verdict
    <3>2. /\ phase = "parsed" /\ ~diagnosed /\ Builds
          /\ \A m \in DOMAIN ran : Meant(m)
      BY <3>1 DEF StageInv
    <3>3. StageInv'
      BY <2>1, <2>2, <3>1 DEF StageInv
    <3>4. Earned'
      BY <2>1, <2>2, <3>1, <3>2 DEF Earned
    <3> QED
      BY <3>1, <3>3, <3>4 DEF Caused
  <2> QED
    BY <1>5, <2>4, <2>5, <2>6, <2>8, <2>9, <2>10, <2>11
<1>6. \/ UNCHANGED varsTest \/ Compile
      \/ /\ UNCHANGED <<parser, bench>>
         /\ \/ Skipped \/ Compiled \/ Build \/ CallReturns \/ CallFails \/ ExitsEarly \/ Finish
  BY DEF NextTest, Skipped, Compiled, Build, CallReturns, CallFails, ExitsEarly, Finish
<1> QED
  BY <1>1, <1>3, <1>4, <1>5, <1>6

-----------------------------------------------------------------------------
(* What the verdict says. *)

(* The number zero fits a C int. *)
LEMMA ZeroFits == ToInt(0) = 0
  BY NumbersAssumption DEF ToInt

(* In a plain program that compiled, every body is plain and emitted for   *)
(* what it means; what it returns is what it means.                        *)
LEMMA PlainBodies ==
  ASSUME PInv, phase = "parsed", ~diagnosed, ~garbled, PlainProgram,
         NEW k \in DOMAIN functions
  PROVE  /\ functions[k].body # CallsExit
         /\ Emitted(functions[k].body) = Meaning(functions[k].body)
         /\ functions[k].sig # "void" => Returned(functions[k]) = Meaning(functions[k].body)
<1> DEFINE body == functions[k].body
<1>1. \/ \E m \in DOMAIN imported : functions[k] = imported[m]
      \/ \E i \in Functions : functions[k] = DeclaredAt(i) /\ Text(i + 1) = "ok"
  BY NoMessage
<1>2. PlainBody(body)
  <2>1. ASSUME NEW m \in DOMAIN imported, functions[k] = imported[m] PROVE PlainBody(body)
    BY <2>1 DEF PlainProgram
  <2>2. ASSUME NEW i \in Functions, functions[k] = DeclaredAt(i), Text(i + 1) = "ok"
        PROVE  PlainBody(body)
    <3>1. body = tokens[i + 1].body
      BY <2>2 DEF DeclaredAt
    <3>2. PlainBody(tokens[i + 1].body)
      BY <2>2 DEF PlainProgram
    <3> QED
      BY <3>1, <3>2
  <2> QED
    BY <1>1, <2>1, <2>2
<1>3. body # CallsExit /\ PlainLiterals(body) /\ \A n \in Meaning(body) : ToInt(n) = n
  <2> HIDE DEF body
  <2> QED
    BY <1>2 DEF PlainBody, Fits
<1>4. EmittedIsWorthTheSource
  BY EmittedIsWorth DEF PInv, ParserTyped
<1>5. Emitted(body) = Meaning(body)
  BY <1>3, <1>4 DEF EmittedIsWorthTheSource
<1>6. {ToInt(n) : n \in Emitted(body)} = Meaning(body)
  <2> HIDE DEF body
  <2> QED
    BY <1>3, <1>5
<1>7. functions[k].sig # "void" => Returned(functions[k]) = Meaning(body)
  <2>1. functions[k].sig # "void" => Returned(functions[k]) = {ToInt(n) : n \in Emitted(body)}
    BY DEF Returned
  <2> HIDE DEF body
  <2> QED
    BY <1>6, <2>1
<1> QED
  BY <1>3, <1>5, <1>7

(* A test that is not called main is called by the harness. *)
LEMMA TestIsCalled ==
  ASSUME PInv, phase = "parsed", ~diagnosed, ~garbled, ~bench,
         NEW i \in Tests, tokens[i + 1].name # "main"
  PROVE  /\ Text(i + 1) = "ok" /\ HasHarness
         /\ \E k \in DOMAIN functions : functions[k] = DeclaredAt(i)
         /\ \E n \in DOMAIN Called : Called[n] = DeclaredAt(i)
<1>1. i \in Functions /\ "test" \in AttributesBefore(i)
  BY DEF Tests
<1>2. Text(i + 1) = "ok" /\ \E k \in DOMAIN functions : functions[k] = DeclaredAt(i)
  BY <1>1, NoMessage
<1>3. PICK k \in DOMAIN functions : functions[k] = DeclaredAt(i)
  BY <1>2
<1> DEFINE T == {m \in DOMAIN functions : IsTest(functions[m])}
<1>4. functions[k].name = tokens[i + 1].name /\ functions[k].attributes = AttributesBefore(i)
  BY <1>3 DEF DeclaredAt
<1>5. k \in T
  BY <1>1, <1>4 DEF IsTest, IsMain
<1>6. TestFns = Chosen(T) /\ T \in SUBSET DOMAIN functions
  BY DEF TestFns
<1>7. functions \in Seq(Fns)
  BY DEF PInv, ParserTyped
<1> HIDE DEF T
<1>8. \A m \in T : \E n \in DOMAIN Chosen(T) : Chosen(T)[n] = functions[m]
  BY <1>6, <1>7, ChosenIs, Zenon
<1>9. PICK n \in DOMAIN TestFns : TestFns[n] = DeclaredAt(i)
  BY <1>3, <1>5, <1>6, <1>8
<1>10. HasHarness
  <2>1. IsTest(functions[k])
    BY <1>5 DEF T
  <2> QED
    BY <2>1 DEF HasHarness, Harnessed
<1>11. Called = TestFns
  BY <1>10 DEF Called
<1> QED
  BY <1>2, <1>9, <1>10, <1>11

(* PassIsEarned: with every call made and none failed, the test is among   *)
(* the calls, and returned what it means.                                  *)
LEMMA PassFollows == TestInv => PassIsEarned
<1> SUFFICES ASSUME TestInv, verdict = "PASS", ~bench, PlainProgram, NEW i \in Tests
             PROVE  Succeeds(i) /\ \E n \in DOMAIN ran : ran[n] = tokens[i + 1].name
  BY DEF PassIsEarned
<1>1. /\ PInv /\ phase = "parsed" /\ ~diagnosed /\ ~garbled /\ ran \in Seq(STRING)
      /\ ~Refused(functions)
  BY DEF TestInv, Earned, StageInv, Builds
<1>2. tokens[i + 1].name # "main"
  BY DEF PlainProgram
<1>3. /\ Text(i + 1) = "ok" /\ HasHarness
      /\ \E k \in DOMAIN functions : functions[k] = DeclaredAt(i)
      /\ \E n \in DOMAIN Called : Called[n] = DeclaredAt(i)
  BY <1>1, <1>2, TestIsCalled
<1>4. /\ Called \in Seq(Fns)
      /\ \A n \in DOMAIN Called :
           \E k \in DOMAIN functions : Called[n] = functions[k] /\ IsTest(functions[k])
  BY <1>1, <1>3, CalledIs DEF PInv, ParserTyped
<1>5. \A n \in DOMAIN Called : Called[n].body # CallsExit
  BY <1>1, <1>4, PlainBodies
<1>6. Len(ran) = Len(Called) /\ \A n \in DOMAIN ran : Meant(n)
  BY <1>3, <1>5 DEF TestInv, Earned
<1>7. PICK n \in DOMAIN Called : Called[n] = DeclaredAt(i)
  BY <1>3
<1>8. n \in DOMAIN ran /\ ran[n] = Called[n].name /\ Meant(n)
  <2>1. n \in DOMAIN ran
    BY <1>1, <1>4, <1>6
  <2> QED
    BY <1>6, <2>1 DEF TestInv, StageInv
<1>9. PICK k \in DOMAIN functions : Called[n] = functions[k] /\ IsTest(functions[k])
  BY <1>4
<1> DEFINE body == tokens[i + 1].body
<1>10. /\ functions[k].body = body /\ functions[k].sig = tokens[i + 1].sig
       /\ Called[n].name = tokens[i + 1].name
  BY <1>7, <1>9 DEF DeclaredAt
<1>11. functions[k].sig = "int"
  BY <1>1, <1>9 DEF Refused
<1>12. body # CallsExit /\ Returned(functions[k]) = Meaning(body)
  BY <1>1, <1>10, <1>11, PlainBodies
<1>13. Returned(functions[k]) = {0}
  BY <1>8, <1>9 DEF Meant
<1>14. Succeeds(i)
  BY <1>3, <1>10, <1>11, <1>12, <1>13 DEF Succeeds
<1> QED
  BY <1>8, <1>10, <1>14

(* FailHasACause: what was collected is what the source declares, so what  *)
(* C refuses in it, it refuses in the source; and the call that failed     *)
(* returned what its function means.                                       *)
LEMMA FailFollows == TestInv => FailHasACause
<1> SUFFICES ASSUME TestInv, verdict = "FAIL", PlainProgram,
                    ~diagnosed, ~garbled, phase # "aborted",
                    ~RefusedType, ~Refused(Declared)
             PROVE  \E k \in DOMAIN Declared :
                      /\ ran # <<>> /\ Declared[k].name = ran[Len(ran)]
                      /\ ToBlame(Declared[k])
  BY DEF FailHasACause
<1>1. phase = "parsed" /\ PInv /\ StageInv
  BY DEF TestInv, Caused
<1>2. functions = Declared
  BY <1>1, ParserLosesNothing DEF LossIsLocal, Declared
<1>3. Len(ran) \in DOMAIN Called /\ ran # <<>> /\ Fails(Len(ran))
  BY <1>2 DEF TestInv, Caused
<1> DEFINE n == Len(ran)
<1>4. PICK k \in DOMAIN functions : Called[n] = functions[k]
  BY <1>1, <1>3, CalledIs DEF PInv, ParserTyped
<1>5. ran[n] = functions[k].name
  <2>1. ran \in Seq(STRING) /\ \A m \in DOMAIN ran : ran[m] = Called[m].name
    BY <1>1 DEF StageInv
  <2>2. n \in DOMAIN ran
    BY <1>3, <2>1
  <2> QED
    BY <1>4, <2>1, <2>2
<1>6. /\ Emitted(functions[k].body) = Meaning(functions[k].body)
      /\ functions[k].sig # "void" => Returned(functions[k]) = Meaning(functions[k].body)
  BY <1>1, PlainBodies
<1>7. Traps(functions[k]) \/ \E r \in Returned(functions[k]) : WrongResult(r)
  BY <1>3, <1>4 DEF Fails
<1>8. HasHarness = Harnessed(Declared)
  BY <1>2 DEF HasHarness
<1>9. ToBlame(functions[k])
  <2>1. CASE Traps(functions[k])
    BY <1>6, <2>1 DEF Traps, ToBlame
  <2>2. ASSUME NEW r \in Returned(functions[k]), WrongResult(r) PROVE ToBlame(functions[k])
    <3>1. r # 0 /\ ~(bench /\ HasHarness)
      <4>1. 0 % ExitRange = 0
        BY NumbersAssumption
      <4> QED
        BY <2>2, <4>1 DEF WrongResult
    <3>2. functions[k].sig = "void" \/ Meaning(functions[k].body) # {0}
      BY <1>6, <2>2, <3>1
    <3> QED
      BY <1>8, <3>1, <3>2 DEF ToBlame
  <2> QED
    BY <1>7, <2>1, <2>2
<1> QED
  BY <1>2, <1>3, <1>5, <1>9

(* TypeOKTest *)
LEMMA TypeFollows == TestInv => TypeOKTest
<1> SUFFICES ASSUME TestInv PROVE TypeOKTest
  OBVIOUS
<1> DEFINE F == [name : STRING, attributes : SUBSET STRING, sig : Signatures,
                 body : Seq(BodyTokens)]
<1>1. PInv /\ StageInv /\ functions \in Seq(Fns) /\ index \in DOMAIN tokens
      /\ phase \in {"imports", "declarations", "parsed", "aborted"}
  BY DEF TestInv, PInv, ParserTyped
<1>2. Fns \subseteq F
  BY DEF Fns, Bodies
<1>3. functions \in Seq(F)
  <2> HIDE DEF F
  <2> QED
    BY <1>1, <1>2
<1>4. Len(ran) <= Len(functions)
  <2>1. Called \in Seq(Fns) /\ Len(Called) <= Len(functions)
    BY <1>1, CalledIs
  <2>2. ran \in Seq(STRING) /\ Len(ran) <= Len(Called)
    BY <1>1 DEF StageInv
  <2> QED
    BY <1>1, <2>1, <2>2
<1> QED
  BY <1>1, <1>3, <1>4 DEF TypeOKTest, StageInv

-----------------------------------------------------------------------------
LEMMA TestInvariant == SpecTest => []TestInv
  BY TestInit, TestStays, PTL DEF SpecTest

(* Type correctness of the test run: compiler, driver and emitted program  *)
(* stay within their types, and no more functions are called than the      *)
(* compiler has collected.                                                 *)
THEOREM TestProgramTyped == SpecTest => []TypeOKTest
  BY TestInvariant, TypeFollows, PTL

(* The declaration loop loses nothing of a file it accepts, and recovery   *)
(* from an error costs at most the neighbour of the declaration that is    *)
(* wrong (collect_declarations and skip_to_decl, for files of any length). *)
THEOREM RecoveryLosesLittle == SpecTest => []LossIsLocal
<1>1. TestInv => LossIsLocal
  BY ParserLosesNothing DEF TestInv
<1> QED
  BY <1>1, TestInvariant, PTL

(* What an emitted function returns is what its expression means: constant *)
(* folding and parentheses change no value, in expressions of any length.  *)
THEOREM FunctionsKeepMeaning == SpecTest => []EmittedIsWorthTheSource
<1>1. TestInv => EmittedIsWorthTheSource
  BY EmittedIsWorth DEF TestInv, PInv, ParserTyped
<1> QED
  BY <1>1, TestInvariant, PTL

(* command_test prints PASS only for a file all of whose tests were called *)
(* and are worth zero by what their source says.                           *)
THEOREM PassIsDeserved == SpecTest => []PassIsEarned
  BY TestInvariant, PassFollows, PTL

(* command_test prints FAIL only for a file that the compiler reports an   *)
(* error in, whose declarations C refuses, or whose function called last   *)
(* divides by zero or, a test or main, is not worth zero by its source.    *)
THEOREM FailIsDeserved == SpecTest => []FailHasACause
  BY TestInvariant, FailFollows, PTL
=============================================================================
