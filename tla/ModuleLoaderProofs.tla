------------------------- MODULE ModuleLoaderProofs -------------------------
(***************************************************************************)
(* Theorems about ModuleLoader, for any files, import lines, directories   *)
(* and faults in them, cyclic and missing imports included.                *)
(***************************************************************************)
EXTENDS ModuleLoader, FiniteSetTheorems, SequenceTheorems,
        WellFoundedInduction, TLAPS

-----------------------------------------------------------------------------
(* Induction over a bounded counter: a set of numbers without a least one  *)
(* would be a descent in Nat without an end.                               *)

LessThan == {p \in Nat \X Nat : p[1] < p[2]}

LEMMA LeastExists ==
  ASSUME NEW T, T \subseteq Nat, T # {}
  PROVE  \E x \in T : \A y \in T : x <= y
<1>1. OpToRel(<, Nat) = LessThan
  BY DEF OpToRel, LessThan
<1>2. IsWellFoundedOn(LessThan, Nat)
  BY <1>1, NatLessThanWellFounded
<1>3. PICK x \in T : \A y \in T : ~ (<<y, x>> \in LessThan)
  BY <1>2, WFMin
<1>4. ASSUME NEW y \in T PROVE x <= y
  <2>1. /\ <<y, x>> \in Nat \X Nat /\ x \in Nat /\ y \in Nat
        /\ <<y, x>>[1] = y /\ <<y, x>>[2] = x
    OBVIOUS
  <2>2. ~(y < x)
    BY <1>3, <2>1 DEF LessThan
  <2> QED
    BY <2>1, <2>2
<1> QED
  BY <1>4

LEMMA Climb ==
  ASSUME NEW n \in Nat, NEW A, 0 \in A,
         \A i \in 1 .. n : i - 1 \in A => i \in A
  PROVE  0 .. n \subseteq A
<1> DEFINE T == {i \in 0 .. n : i \notin A}
<1>1. SUFFICES ASSUME T # {} PROVE FALSE
  OBVIOUS
<1>2. T \subseteq Nat
  OBVIOUS
<1>3. PICK x \in T : \A y \in T : x <= y
  BY <1>1, <1>2, LeastExists
<1>4. x \in 1 .. n
  OBVIOUS
<1>5. x - 1 \in 0 .. n /\ ~(x <= x - 1)
  BY <1>4
<1>6. x - 1 \in A
  BY <1>3, <1>5
<1> QED
  BY <1>4, <1>6

LEMMA GreatestExists ==
  ASSUME NEW n \in Nat, NEW T, T \subseteq 0 .. n, T # {}
  PROVE  \E x \in T : \A y \in T : y <= x
<1> DEFINE U == {n - s : s \in T}
<1>0. \A s \in T : n - s \in Nat /\ s \in Int
  OBVIOUS
<1>1. U \subseteq Nat /\ U # {}
  BY <1>0
<1>2. PICK x \in U : \A y \in U : x <= y
  BY <1>1, LeastExists
<1>3. PICK s \in T : x = n - s
  OBVIOUS
<1>4. \A y \in T : n - y \in U /\ y \in Int /\ s \in Int
  OBVIOUS
<1>5. \A y \in T : n - s <= n - y
  BY <1>2, <1>3, <1>4
<1>6. \A y \in T : y <= s
  BY <1>4, <1>5
<1> QED
  BY <1>6

-----------------------------------------------------------------------------
(* Sequences: the last members replaced, and a part kept.                  *)

LEMMA Replaced ==
  ASSUME NEW S, NEW s \in Seq(S), NEW n \in 0 .. Len(s), NEW x \in S
  PROVE  /\ Append(SubSeq(s, 1, n), x) \in Seq(S)
         /\ Len(Append(SubSeq(s, 1, n), x)) = n + 1
         /\ \A k \in 1 .. n : Append(SubSeq(s, 1, n), x)[k] = s[k]
         /\ Append(SubSeq(s, 1, n), x)[n + 1] = x
<1>1. n \in Int /\ 1 \in Int /\ \A i \in 1 .. n : s[i] \in S
  OBVIOUS
<1>2. /\ SubSeq(s, 1, n) \in Seq(S)
      /\ Len(SubSeq(s, 1, n)) = n
      /\ \A i \in 1 .. n : SubSeq(s, 1, n)[i] = s[i]
  BY <1>1, SubSeqProperties
<1> QED
  BY <1>2

PushedOn(t, s, x, y) == t = SubSeq(s, 1, Len(s) - 1) \o <<x, y>>

LEMMA Pushed ==
  ASSUME NEW S, NEW s \in Seq(S), s # <<>>, NEW x \in S, NEW y \in S,
         NEW t, PushedOn(t, s, x, y)
  PROVE  /\ t \in Seq(S)
         /\ Len(t) = Len(s) + 1
         /\ \A k \in 1 .. Len(s) - 1 : t[k] = s[k]
         /\ t[Len(s)] = x /\ t[Len(s) + 1] = y
<1> DEFINE n == Len(s) - 1
           q == SubSeq(s, 1, n)
           p == <<x, y>>
<1>1. n \in Nat /\ Len(s) \in Nat \ {0} /\ 1 \in Int /\ \A i \in 1 .. n : s[i] \in S
  BY EmptySeq
<1>2. n = Len(s) - 1 /\ t = q \o p
  BY DEF PushedOn
<1>3. p \in Seq(S) /\ Len(p) = 2 /\ p[1] = x /\ p[2] = y
  OBVIOUS
<1> HIDE DEF n, p
<1>4. q \in Seq(S) /\ Len(q) = n /\ \A i \in 1 .. n : q[i] = s[i]
  BY <1>1, SubSeqProperties
<1> HIDE DEF q
<1>5. /\ q \o p \in Seq(S)
      /\ Len(q \o p) = n + 2
      /\ \A i \in 1 .. n + 2 : (q \o p)[i] = IF i <= n THEN q[i] ELSE p[i - n]
  <2>1. /\ q \o p \in Seq(S)
        /\ Len(q \o p) = Len(q) + Len(p)
        /\ \A i \in 1 .. Len(q) + Len(p) :
             (q \o p)[i] = IF i <= Len(q) THEN q[i] ELSE p[i - Len(q)]
    BY <1>3, <1>4, ConcatProperties
  <2>2. Len(q) = n /\ Len(p) = 2
    BY <1>3, <1>4
  <2> QED
    BY <2>1, <2>2
<1>6. t[n + 1] = x
  <2>1. n + 1 \in 1 .. n + 2 /\ ~(n + 1 <= n) /\ n + 1 - n = 1
    BY <1>1
  <2> QED
    BY <1>2, <1>3, <1>5, <2>1
<1>7. t[n + 2] = y
  <2>1. PICK i \in 1 .. n + 2 : i = n + 2
    BY <1>1
  <2>2. ~(i <= n) /\ i - n = 2
    BY <1>1, <2>1
  <2>3. (q \o p)[i] = p[i - n]
    BY <1>5, <2>2
  <2> QED
    BY <1>2, <1>3, <2>1, <2>2, <2>3
<1>8. \A k \in 1 .. n : t[k] = s[k]
  BY <1>1, <1>2, <1>4, <1>5
<1>9. Len(s) = n + 1 /\ Len(s) + 1 = n + 2
  BY <1>1, <1>2
<1> QED
  BY <1>2, <1>5, <1>6, <1>7, <1>8, <1>9

(* One step of the loop of Kept. *)
KeptStep(fs, ks, kept, i) ==
  IF i = 0 THEN <<>>
  ELSE IF i \in ks THEN Append(kept[i - 1], fs[i]) ELSE kept[i - 1]

LEMMA KeptExists ==
  ASSUME NEW S, NEW fs \in Seq(S), NEW ks
  PROVE  \E kept : kept = [i \in 0 .. Len(fs) |-> KeptStep(fs, ks, kept, i)]
<1> DEFINE A == {n \in 0 .. Len(fs) :
                   \E g \in [0 .. n -> Seq(S)] : \A i \in 0 .. n : g[i] = KeptStep(fs, ks, g, i)}
<1>0. Len(fs) \in Nat
  OBVIOUS
<1>1. 0 \in A
  <2> DEFINE g == [i \in 0 .. 0 |-> <<>>]
  <2>1. g \in [0 .. 0 -> Seq(S)] /\ \A i \in 0 .. 0 : g[i] = KeptStep(fs, ks, g, i)
    BY DEF KeptStep
  <2> QED
    BY <1>0, <2>1
<1>2. ASSUME NEW n \in 1 .. Len(fs), n - 1 \in A
      PROVE  n \in A
  <2>1. PICK g \in [0 .. n - 1 -> Seq(S)] :
               \A i \in 0 .. n - 1 : g[i] = KeptStep(fs, ks, g, i)
    BY <1>2
  <2> DEFINE h == [i \in 0 .. n |-> IF i = n THEN KeptStep(fs, ks, g, n) ELSE g[i]]
  <2>2. n - 1 \in 0 .. n - 1 /\ n # 0 /\ n \in Nat /\ fs[n] \in S
    BY <1>0
  <2>3. g[n - 1] \in Seq(S)
    BY <2>1, <2>2
  <2>4. KeptStep(fs, ks, g, n) \in Seq(S)
    BY <2>2, <2>3 DEF KeptStep
  <2>5. \A i \in 0 .. n : i # n => i \in 0 .. n - 1
    BY <2>2
  <2>6. h \in [0 .. n -> Seq(S)]
    BY <2>1, <2>4, <2>5
  <2>7. \A i \in 0 .. n - 1 : i \in 0 .. n /\ i # n /\ h[i] = g[i]
    BY <2>2
  <2>8. ASSUME NEW i \in 0 .. n
        PROVE  h[i] = KeptStep(fs, ks, h, i)
    <3>1. i # 0 => i - 1 \in 0 .. n - 1
      BY <2>2
    <3>2. i # 0 => h[i - 1] = g[i - 1]
      BY <2>7, <3>1
    <3>3. KeptStep(fs, ks, h, i) = KeptStep(fs, ks, g, i)
      BY <3>2 DEF KeptStep
    <3>4. h[i] = KeptStep(fs, ks, g, i)
      BY <2>1, <2>5, <2>7
    <3> QED
      BY <3>3, <3>4
  <2> HIDE DEF h
  <2>9. n \in 0 .. Len(fs)
    BY <1>0
  <2> QED
    BY <2>6, <2>8, <2>9
<1> HIDE DEF A
<1>3. Len(fs) \in A
  <2>1. 0 .. Len(fs) \subseteq A
    BY <1>0, <1>1, <1>2, Climb
  <2> QED
    BY <1>0, <2>1
<1>4. PICK g \in [0 .. Len(fs) -> Seq(S)] :
             \A i \in 0 .. Len(fs) : g[i] = KeptStep(fs, ks, g, i)
  BY <1>3 DEF A
<1>5. g = [i \in 0 .. Len(fs) |-> KeptStep(fs, ks, g, i)]
  BY <1>4
<1> QED
  BY <1>5

(* The members of q are those of fs at the positions ks, each once. *)
Picks(q, fs, ks) ==
  \E at \in [1 .. Len(q) -> ks] :
    /\ \A i \in 1 .. Len(q) : q[i] = fs[at[i]]
    /\ \A i, j \in 1 .. Len(q) : at[i] = at[j] => i = j
    /\ \A k \in ks : \E i \in 1 .. Len(q) : at[i] = k

LEMMA KeptIs ==
  ASSUME NEW S, NEW fs \in Seq(S), NEW ks, ks \subseteq 1 .. Len(fs)
  PROVE  /\ Kept(fs, ks) \in Seq(S)
         /\ Picks(Kept(fs, ks), fs, ks)
<1> DEFINE kept == CHOOSE f : f = [i \in 0 .. Len(fs) |-> KeptStep(fs, ks, f, i)]
           Good(q, n) == \E at \in [1 .. Len(q) -> ks \cap 1 .. n] :
                           /\ \A i \in 1 .. Len(q) : q[i] = fs[at[i]]
                           /\ \A i, j \in 1 .. Len(q) : at[i] = at[j] => i = j
                           /\ \A k \in ks \cap 1 .. n : \E i \in 1 .. Len(q) : at[i] = k
           A == {n \in 0 .. Len(fs) : kept[n] \in Seq(S) /\ Good(kept[n], n)}
<1>0. Len(fs) \in Nat
  OBVIOUS
<1>1. Kept(fs, ks) = kept[Len(fs)]
  BY DEF Kept, KeptStep
<1>2. kept = [i \in 0 .. Len(fs) |-> KeptStep(fs, ks, kept, i)]
  BY KeptExists
<1>3. \A i \in 0 .. Len(fs) : kept[i] = KeptStep(fs, ks, kept, i)
  BY <1>2
<1> HIDE DEF kept
<1>4. 0 \in A
  <2>1. kept[0] = <<>>
    BY <1>0, <1>3 DEF KeptStep
  <2>2. Len(<<>>) = 0 /\ <<>> \in Seq(S)
    OBVIOUS
  <2>3. Good(<<>>, 0)
    <3> DEFINE at == [i \in 1 .. 0 |-> 1]
    <3>1. 1 .. Len(<<>>) = {} /\ 1 .. 0 = {}
      BY <2>2
    <3>2. at \in [1 .. Len(<<>>) -> ks \cap 1 .. 0]
      BY <3>1
    <3> QED
      BY <3>1, <3>2
  <2> HIDE DEF Good
  <2>4. kept[0] \in Seq(S) /\ Good(kept[0], 0)
    BY <2>1, <2>2, <2>3
  <2> QED
    BY <1>0, <2>4
<1>5. ASSUME NEW n \in 1 .. Len(fs), n - 1 \in A
      PROVE  n \in A
  <2> DEFINE q == kept[n - 1]
  <2>1. q \in Seq(S) /\ Good(q, n - 1)
    BY <1>5
  <2>2. n \in Nat /\ n # 0 /\ n \in 0 .. Len(fs) /\ fs[n] \in S
    BY <1>0
  <2>3. kept[n] = IF n \in ks THEN Append(q, fs[n]) ELSE q
    BY <1>3, <2>2 DEF KeptStep
  <2> HIDE DEF q
  <2>4. PICK at \in [1 .. Len(q) -> ks \cap 1 .. n - 1] :
               /\ \A i \in 1 .. Len(q) : q[i] = fs[at[i]]
               /\ \A i, j \in 1 .. Len(q) : at[i] = at[j] => i = j
               /\ \A k \in ks \cap 1 .. n - 1 : \E i \in 1 .. Len(q) : at[i] = k
    BY <2>1
  <2>5. CASE n \notin ks
    <3>1. ks \cap 1 .. n = ks \cap 1 .. n - 1
      BY <2>2, <2>5
    <3>2. Good(q, n)
      BY <2>1, <3>1
    <3> HIDE DEF Good
    <3> QED
      BY <2>1, <2>2, <2>3, <2>5, <3>2
  <2>6. CASE n \in ks
    <3> DEFINE r   == Append(q, fs[n])
               to  == [i \in 1 .. Len(r) |-> IF i <= Len(q) THEN at[i] ELSE n]
    <3>0. /\ r \in Seq(S) /\ Len(r) = Len(q) + 1 /\ Len(q) \in Nat
          /\ \A i \in 1 .. Len(q) : r[i] = q[i]
          /\ r[Len(q) + 1] = fs[n]
      BY <2>1, <2>2
    <3> HIDE DEF r
    <3>1. \A i \in 1 .. Len(q) : i \in 1 .. Len(r) /\ i <= Len(q) /\ to[i] = at[i]
      BY <3>0
    <3>2. Len(q) + 1 \in 1 .. Len(r) /\ to[Len(q) + 1] = n
      BY <3>0
    <3>3. \A i \in 1 .. Len(r) : i \in 1 .. Len(q) \/ i = Len(q) + 1
      BY <3>0
    <3>4. \A i \in 1 .. Len(q) : at[i] \in ks /\ at[i] \in 1 .. n /\ at[i] # n
      BY <2>2, <2>4
    <3>5. to \in [1 .. Len(r) -> ks \cap 1 .. n]
      <4>1. n \in ks \cap 1 .. n
        BY <2>2, <2>6
      <4>2. \A i \in 1 .. Len(r) : to[i] \in ks \cap 1 .. n
        BY <3>1, <3>2, <3>3, <3>4, <4>1
      <4> QED
        BY <4>2
    <3> HIDE DEF to
    <3>6. \A i \in 1 .. Len(r) : r[i] = fs[to[i]]
      BY <2>4, <3>0, <3>1, <3>2, <3>3
    <3>7. \A i, j \in 1 .. Len(r) : to[i] = to[j] => i = j
      BY <2>4, <3>1, <3>2, <3>3, <3>4
    <3>8. \A k \in ks \cap 1 .. n : \E i \in 1 .. Len(r) : to[i] = k
      <4> SUFFICES ASSUME NEW k \in ks \cap 1 .. n PROVE \E i \in 1 .. Len(r) : to[i] = k
        OBVIOUS
      <4>1. CASE k = n
        BY <3>2, <4>1
      <4>2. CASE k # n
        <5>1. k \in ks \cap 1 .. n - 1
          BY <2>2, <4>2
        <5>2. PICK i \in 1 .. Len(q) : at[i] = k
          BY <2>4, <5>1
        <5> QED
          BY <3>1, <5>2
      <4> QED
        BY <4>1, <4>2
    <3>9. Good(r, n)
      BY <3>5, <3>6, <3>7, <3>8
    <3> HIDE DEF Good
    <3>10. kept[n] = r
      BY <2>3, <2>6 DEF r
    <3> QED
      BY <2>2, <3>0, <3>9, <3>10
  <2> QED
    BY <2>5, <2>6
<1>6. Len(fs) \in A
  <2> HIDE DEF A
  <2>1. 0 .. Len(fs) \subseteq A
    BY <1>0, <1>4, <1>5, Climb
  <2> QED
    BY <1>0, <2>1
<1>7. ks \cap 1 .. Len(fs) = ks
  OBVIOUS
<1>8. kept[Len(fs)] \in Seq(S) /\ Good(kept[Len(fs)], Len(fs))
  BY <1>6
<1>9. Picks(kept[Len(fs)], fs, ks)
  BY <1>7, <1>8 DEF Picks
<1> QED
  BY <1>1, <1>8, <1>9

-----------------------------------------------------------------------------
(* What the data are. *)

Imported  == Files \cup {Missing}
Places    == {d[f] : d \in Layouts, f \in Files}
AnyPath   == [hops : Seq(Places), file : Files]
FnNames   == UNION {ToSet(Defines[f]) : f \in Files}
Functions == [name : FnNames, file : Files]
Parsers   == [path : AnyPath, todo : Seq(Imported), loaded : SUBSET AnyPath,
              functions : Seq(Functions), diagnostics : BOOLEAN, declared : BOOLEAN]
Results   == [code : {"none", "ok", "errors", "failed"}, emitted : Seq(Functions)]

ProgramTyped ==
  imports \in Graphs /\ dir \in Layouts /\ broken \in SUBSET Broken /\ fault \in Faults

LEMMA ProgramIs ==
  ASSUME ProgramTyped, NEW f \in Files
  PROVE  /\ imports[f] \in Seq(Imported)
         /\ dir[f] \in Places
         /\ Defines[f] \in Seq(ToSet(Defines[f]))
         /\ f \in broken => Defines[f] # <<>>
  BY LoaderAssumption DEF ProgramTyped, Imported, Places

(* No two declarations of a program have one name; only of main there may *)
(* be more than one.                                                      *)
DistinctDefines ==
  \A f, g \in Files : \A i \in DOMAIN Defines[f], j \in DOMAIN Defines[g] :
    Defines[f][i] = Defines[g][j] /\ Defines[f][i] # "main" => f = g /\ i = j

NamedOnce(fs) ==
  \A i, j \in 1 .. Len(fs) :
    fs[i].name = fs[j].name /\ fs[i].name # "main" => i = j

LEMMA Labelled ==
  ASSUME NEW s \in Seq(FnNames), NEW f \in Files,
         NEW o, o = [i \in DOMAIN s |-> [name |-> s[i], file |-> f]]
  PROVE  /\ o \in Seq(Functions) /\ Len(o) = Len(s)
         /\ \A i \in 1 .. Len(s) : o[i].name = s[i] /\ o[i].file = f
<1>1. DOMAIN s = 1 .. Len(s) /\ Len(s) \in Nat /\ \A i \in 1 .. Len(s) : s[i] \in FnNames
  OBVIOUS
<1>2. \A i \in 1 .. Len(s) : [name |-> s[i], file |-> f] \in Functions
  BY <1>1 DEF Functions
<1> DEFINE n == Len(s)
<1>3. o = [i \in 1 .. n |-> [name |-> s[i], file |-> f]] /\ n \in Nat
  BY <1>1
<1> HIDE DEF n
<1>4. o \in [1 .. n -> Functions]
  BY <1>2, <1>3 DEF n
<1>5. o \in Seq(Functions) /\ Len(o) = n
  BY <1>3, <1>4
<1> QED
  BY <1>3, <1>5 DEF n

(* The declarations of a file that parse. *)
LEMMA OwnIs ==
  ASSUME ProgramTyped, NEW f \in Files
  PROVE  /\ Own(f) \in Seq(Functions)
         /\ \A i \in 1 .. Len(Own(f)) :
              Own(f)[i].file = f /\ Own(f)[i].name \in ToSet(Defines[f])
         /\ ToSet(Defines[f]) \ (IF f \in broken THEN {Head(Defines[f])} ELSE {})
              \subseteq Names(Own(f))
         /\ DistinctDefines => NamedOnce(Own(f))
<1> DEFINE S     == ToSet(Defines[f])
           D     == Defines[f]
           names == IF f \in broken THEN Tail(D) ELSE D
<1>1. D \in Seq(S) /\ (f \in broken => D # <<>>)
  BY ProgramIs
<1>2. S = {D[i] : i \in DOMAIN D} /\ S \subseteq FnNames
  BY DEF ToSet, FnNames
<1>3. Own(f) = [i \in DOMAIN names |-> [name |-> names[i], file |-> f]]
  BY DEF Own
<1>4. DistinctDefines => \A i, j \in DOMAIN D : D[i] = D[j] /\ D[i] # "main" => i = j
  BY DEF DistinctDefines
<1> HIDE DEF S, D
<1>5. CASE f \in broken
  <2> DEFINE T == Tail(D)
  <2>1. /\ names = T /\ T \in Seq(S) /\ Len(T) = Len(D) - 1
        /\ \A i \in 1 .. Len(T) : T[i] = D[i + 1]
    BY <1>1, <1>5, HeadTailProperties
  <2>2. Head(D) = D[1] /\ DOMAIN D = 1 .. Len(D) /\ Len(D) \in Nat
    BY <1>1
  <2> HIDE DEF T
  <2>3. T \in Seq(FnNames) /\ DOMAIN T = 1 .. Len(T) /\ Len(T) \in Nat
    BY <1>2, <2>1, SeqMonotonic
  <2>4. \A i \in 1 .. Len(T) : T[i] \in S /\ i + 1 \in DOMAIN D /\ i \in Int
    BY <2>1, <2>2, <2>3
  <2>5. Own(f) = [i \in DOMAIN T |-> [name |-> T[i], file |-> f]]
    BY <1>3, <2>1
  <2>6. Own(f) \in Seq(Functions) /\ Len(Own(f)) = Len(T)
    BY <2>3, <2>5, Labelled
  <2>7. \A i \in 1 .. Len(T) : Own(f)[i].name = T[i] /\ Own(f)[i].file = f
    BY <2>3, <2>5, Labelled
  <2>8. DistinctDefines => NamedOnce(Own(f))
    <3>1. SUFFICES ASSUME DistinctDefines, NEW i \in 1 .. Len(T), NEW j \in 1 .. Len(T),
                          Own(f)[i].name = Own(f)[j].name, Own(f)[i].name # "main"
                   PROVE  i = j
      BY <2>6 DEF NamedOnce
    <3>2. D[i + 1] = D[j + 1] /\ D[i + 1] # "main"
      BY <2>1, <2>7, <3>1
    <3>3. i + 1 = j + 1
      BY <1>4, <2>4, <3>1, <3>2
    <3> QED
      BY <2>4, <3>3
  <2>9. ASSUME NEW x \in S, x # Head(D)
        PROVE  x \in Names(Own(f))
    <3>1. PICK i \in 1 .. Len(D) : x = D[i]
      BY <1>2, <2>2
    <3>2. i # 1
      BY <2>2, <2>9, <3>1
    <3>3. i - 1 \in 1 .. Len(T) /\ (i - 1) + 1 = i
      BY <2>1, <2>2, <2>3, <3>2
    <3>4. T[i - 1] = x
      BY <2>1, <3>1, <3>3
    <3>5. i - 1 \in DOMAIN Own(f) /\ Own(f)[i - 1].name = x
      BY <2>6, <2>7, <3>3, <3>4
    <3> QED
      BY <3>5 DEF Names
  <2> QED
    BY <1>5, <2>4, <2>6, <2>7, <2>8, <2>9 DEF S, D
<1>6. CASE f \notin broken
  <2>1. names = D /\ DOMAIN D = 1 .. Len(D) /\ Len(D) \in Nat /\ \A i \in 1 .. Len(D) : D[i] \in S
    BY <1>1, <1>6
  <2>2. Own(f) = [i \in DOMAIN D |-> [name |-> D[i], file |-> f]]
    BY <1>3, <2>1
  <2>3. D \in Seq(FnNames)
    BY <1>1, <1>2, SeqMonotonic
  <2>4. Own(f) \in Seq(Functions) /\ Len(Own(f)) = Len(D)
    BY <2>2, <2>3, Labelled
  <2>5. \A i \in 1 .. Len(D) : Own(f)[i].name = D[i] /\ Own(f)[i].file = f
    BY <2>2, <2>3, Labelled
  <2>6. DistinctDefines => NamedOnce(Own(f))
    BY <1>4, <2>1, <2>4, <2>5 DEF NamedOnce
  <2>7. ASSUME NEW x \in S PROVE x \in Names(Own(f))
    <3>1. PICK i \in 1 .. Len(D) : x = D[i]
      BY <1>2, <2>1
    <3>2. i \in DOMAIN Own(f) /\ Own(f)[i].name = x
      BY <2>4, <2>5, <3>1
    <3> QED
      BY <3>2 DEF Names
  <2> QED
    BY <1>6, <2>1, <2>4, <2>5, <2>6, <2>7 DEF S, D
<1> QED
  BY <1>5, <1>6

(* A name that is in fs comes there for a first time. *)
LEMMA FirstExists ==
  ASSUME NEW fs \in Seq(Functions), NEW k \in 1 .. Len(fs)
  PROVE  \E i \in 1 .. Len(fs) : fs[i].name = fs[k].name /\ First(fs, i)
<1> DEFINE T == {i \in 1 .. Len(fs) : fs[i].name = fs[k].name}
<1>0. Len(fs) \in Nat
  OBVIOUS
<1>1. T \subseteq Nat /\ k \in T
  BY <1>0
<1>2. PICK i \in T : \A j \in T : i <= j
  BY <1>1, LeastExists
<1>3. \A j \in 1 .. i - 1 : j \in 1 .. Len(fs) /\ ~(i <= j)
  BY <1>0
<1>4. \A j \in 1 .. i - 1 : fs[j].name # fs[k].name
  BY <1>2, <1>3
<1> QED
  BY <1>4 DEF First

(* What a parser has after a module has been merged into it. *)
LEMMA MergeIs ==
  ASSUME NEW fs \in Seq(Functions), NEW t \in Seq(Functions),
         NEW m, m = merge_into(fs, t)
  PROVE  /\ m \in Seq(Functions)
         /\ Names(m) = Names(fs) \cup Names(t)
         /\ \A i \in 1 .. Len(m) : \/ \E j \in 1 .. Len(t) : m[i] = t[j]
                                   \/ \E j \in 1 .. Len(fs) : m[i] = fs[j]
         /\ NamedOnce(t) => NamedOnce(m)
<1> DEFINE ks == {i \in DOMAIN fs : ~has_function(t, fs[i].name) /\ First(fs, i)}
           q  == Kept(fs, ks)
<1>1. /\ DOMAIN fs = 1 .. Len(fs) /\ Len(fs) \in Nat
      /\ DOMAIN t = 1 .. Len(t) /\ Len(t) \in Nat
  OBVIOUS
<1>2. ks \subseteq 1 .. Len(fs)
  BY <1>1
<1>3. m = t \o q
  BY DEF merge_into
<1>4. \A i \in 1 .. Len(fs) : i \in ks <=>
        (\A j \in 1 .. Len(t) : t[j].name # fs[i].name) /\ First(fs, i)
  BY <1>1 DEF has_function
<1> HIDE DEF ks
<1>5. q \in Seq(Functions) /\ Picks(q, fs, ks)
  BY <1>2, KeptIs
<1> HIDE DEF q
<1>6. PICK at \in [1 .. Len(q) -> ks] :
             /\ \A i \in 1 .. Len(q) : q[i] = fs[at[i]]
             /\ \A i, j \in 1 .. Len(q) : at[i] = at[j] => i = j
             /\ \A k \in ks : \E i \in 1 .. Len(q) : at[i] = k
  BY <1>5 DEF Picks
<1>7. /\ m \in Seq(Functions) /\ Len(m) = Len(t) + Len(q) /\ Len(q) \in Nat
      /\ \A i \in 1 .. Len(t) + Len(q) : m[i] = IF i <= Len(t) THEN t[i] ELSE q[i - Len(t)]
  BY <1>3, <1>5, ConcatProperties
<1>8. \A i \in 1 .. Len(t) : i \in 1 .. Len(m) /\ m[i] = t[i]
  BY <1>1, <1>7
<1>9. \A i \in 1 .. Len(q) : i + Len(t) \in 1 .. Len(m) /\ m[i + Len(t)] = q[i]
  <2> SUFFICES ASSUME NEW i \in 1 .. Len(q)
               PROVE  i + Len(t) \in 1 .. Len(m) /\ m[i + Len(t)] = q[i]
    OBVIOUS
  <2>1. PICK k \in 1 .. Len(t) + Len(q) : k = i + Len(t)
    BY <1>1, <1>7
  <2>2. ~(k <= Len(t)) /\ k - Len(t) = i
    BY <1>1, <1>7, <2>1
  <2>3. m[k] = q[k - Len(t)]
    BY <1>7, <2>2
  <2> QED
    BY <1>7, <2>1, <2>2, <2>3
<1>10. \A i \in 1 .. Len(m) : i \in 1 .. Len(t) \/ \E j \in 1 .. Len(q) : i = j + Len(t)
  <2> SUFFICES ASSUME NEW i \in 1 .. Len(m), i \notin 1 .. Len(t)
               PROVE  \E j \in 1 .. Len(q) : i = j + Len(t)
    OBVIOUS
  <2>1. i - Len(t) \in 1 .. Len(q) /\ i = (i - Len(t)) + Len(t)
    BY <1>1, <1>7
  <2> QED
    BY <2>1
<1>11. \A i \in 1 .. Len(q) : at[i] \in 1 .. Len(fs) /\ at[i] \in ks
  BY <1>2, <1>6
<1>12. Names(m) = Names(fs) \cup Names(t)
  <2>0. DOMAIN m = 1 .. Len(m) /\ DOMAIN q = 1 .. Len(q)
    BY <1>5, <1>7
  <2>1. ASSUME NEW x \in Names(m) PROVE x \in Names(fs) \cup Names(t)
    <3>1. PICK i \in 1 .. Len(m) : x = m[i].name
      BY <2>0, <2>1 DEF Names
    <3>2. CASE i \in 1 .. Len(t)
      BY <1>1, <1>8, <3>1, <3>2 DEF Names
    <3>3. ASSUME NEW j \in 1 .. Len(q), i = j + Len(t)
          PROVE  x \in Names(fs)
      <4>1. x = fs[at[j]].name /\ at[j] \in DOMAIN fs
        BY <1>1, <1>6, <1>9, <1>11, <3>1, <3>3
      <4> QED
        BY <4>1 DEF Names
    <3> QED
      BY <1>10, <3>2, <3>3
  <2>2. ASSUME NEW x \in Names(t) PROVE x \in Names(m)
    <3>1. PICK i \in 1 .. Len(t) : x = t[i].name
      BY <1>1, <2>2 DEF Names
    <3> QED
      BY <1>8, <2>0, <3>1 DEF Names
  <2>3. ASSUME NEW x \in Names(fs), x \notin Names(t) PROVE x \in Names(m)
    <3>1. PICK k \in 1 .. Len(fs) : x = fs[k].name
      BY <1>1, <2>3 DEF Names
    <3>2. PICK i \in 1 .. Len(fs) : fs[i].name = x /\ First(fs, i)
      BY <3>1, FirstExists
    <3>3. \A j \in 1 .. Len(t) : t[j].name # x
      BY <1>1, <2>3 DEF Names
    <3>4. i \in ks
      BY <1>4, <3>2, <3>3
    <3>5. PICK j \in 1 .. Len(q) : at[j] = i
      BY <1>6, <3>4
    <3>6. j + Len(t) \in DOMAIN m /\ m[j + Len(t)].name = x
      BY <1>6, <1>9, <2>0, <3>2, <3>5
    <3> QED
      BY <3>6 DEF Names
  <2> QED
    BY <2>1, <2>2, <2>3
<1>13. ASSUME NEW i \in 1 .. Len(m)
       PROVE  \/ \E j \in 1 .. Len(t) : m[i] = t[j]
              \/ \E j \in 1 .. Len(fs) : m[i] = fs[j]
  <2>1. CASE i \in 1 .. Len(t)
    BY <1>8, <2>1
  <2>2. ASSUME NEW j \in 1 .. Len(q), i = j + Len(t)
        PROVE  \E l \in 1 .. Len(fs) : m[i] = fs[l]
    <3>1. m[i] = fs[at[j]] /\ at[j] \in 1 .. Len(fs)
      BY <1>6, <1>9, <1>11, <2>2
    <3> QED
      BY <3>1
  <2> QED
    BY <1>10, <2>1, <2>2
<1>14. ASSUME NamedOnce(t), NEW i \in 1 .. Len(m), NEW j \in 1 .. Len(m),
              m[i].name = m[j].name, m[i].name # "main"
       PROVE  i = j
  <2>1. ASSUME NEW k \in 1 .. Len(t), NEW l \in 1 .. Len(q) PROVE m[k].name # m[l + Len(t)].name
    <3>1. m[k] = t[k] /\ m[l + Len(t)] = fs[at[l]]
      BY <1>6, <1>8, <1>9
    <3>2. t[k].name # fs[at[l]].name
      BY <1>4, <1>11
    <3> QED
      BY <3>1, <3>2
  <2>2. ASSUME NEW k \in 1 .. Len(q), NEW l \in 1 .. Len(q),
               m[k + Len(t)].name = m[l + Len(t)].name
        PROVE  k = l
    <3>1. fs[at[k]].name = fs[at[l]].name
      BY <1>6, <1>9, <2>2
    <3>2. First(fs, at[k]) /\ First(fs, at[l])
      BY <1>4, <1>11
    <3>3. at[k] \in Int /\ at[l] \in Int /\ at[k] \in 1 .. Len(fs) /\ at[l] \in 1 .. Len(fs)
      BY <1>1, <1>11
    <3>4. ~(at[k] < at[l])
      <4>1. at[k] < at[l] => at[k] \in 1 .. at[l] - 1
        BY <3>3
      <4> QED
        BY <3>1, <3>2, <4>1 DEF First
    <3>5. ~(at[l] < at[k])
      <4>1. at[l] < at[k] => at[l] \in 1 .. at[k] - 1
        BY <3>3
      <4> QED
        BY <3>1, <3>2, <4>1 DEF First
    <3>6. at[k] = at[l]
      BY <3>3, <3>4, <3>5
    <3> QED
      BY <1>6, <3>6
  <2>3. CASE i \in 1 .. Len(t) /\ j \in 1 .. Len(t)
    BY <1>8, <1>14, <2>3 DEF NamedOnce
  <2>4. CASE i \in 1 .. Len(t) /\ j \notin 1 .. Len(t)
    BY <1>10, <1>14, <2>1, <2>4
  <2>5. CASE i \notin 1 .. Len(t) /\ j \in 1 .. Len(t)
    <3>1. PICK l \in 1 .. Len(q) : i = l + Len(t)
      BY <1>10, <2>5
    <3> QED
      BY <1>14, <2>1, <2>5, <3>1
  <2>6. CASE i \notin 1 .. Len(t) /\ j \notin 1 .. Len(t)
    <3>1. PICK k \in 1 .. Len(q) : i = k + Len(t)
      BY <1>10, <2>6
    <3>2. PICK l \in 1 .. Len(q) : j = l + Len(t)
      BY <1>10, <2>6
    <3> QED
      BY <1>14, <2>2, <3>1, <3>2
  <2> QED
    BY <2>3, <2>4, <2>5, <2>6
<1> QED
  BY <1>7, <1>12, <1>13, <1>14 DEF NamedOnce

(* What is emitted of the functions of the compiler's own parser. *)
LEMMA EmittedIs ==
  ASSUME NEW fs \in Seq(Functions), NEW e, e = Emitted(fs)
  PROVE  /\ e \in Seq(Functions)
         /\ Names(e) = Names(fs)
         /\ \A i, j \in 1 .. Len(e) : i # j /\ e[i].name = e[j].name =>
              /\ e[i].name # "main"
              /\ \E k, l \in 1 .. Len(fs) :
                   k # l /\ fs[k].name = e[i].name /\ fs[l].name = e[i].name
<1> DEFINE ks == {i \in DOMAIN fs : fs[i].name # "main"}
           ms == {i \in DOMAIN fs : fs[i].name = "main" /\ First(fs, i)}
           p  == Kept(fs, ks)
           q  == Kept(fs, ms)
<1>1. DOMAIN fs = 1 .. Len(fs) /\ Len(fs) \in Nat
  OBVIOUS
<1>2. ks \subseteq 1 .. Len(fs) /\ ms \subseteq 1 .. Len(fs)
  BY <1>1
<1>3. e = p \o q
  BY DEF Emitted
<1>4. \A i \in 1 .. Len(fs) : i \in ks <=> fs[i].name # "main"
  BY <1>1
<1>5. \A i \in 1 .. Len(fs) : i \in ms <=> fs[i].name = "main" /\ First(fs, i)
  BY <1>1
<1> HIDE DEF ks, ms
<1>6. p \in Seq(Functions) /\ Picks(p, fs, ks)
  BY <1>2, KeptIs
<1>7. q \in Seq(Functions) /\ Picks(q, fs, ms)
  BY <1>2, KeptIs
<1> HIDE DEF p, q
<1>8. PICK at \in [1 .. Len(p) -> ks] :
             /\ \A i \in 1 .. Len(p) : p[i] = fs[at[i]]
             /\ \A i, j \in 1 .. Len(p) : at[i] = at[j] => i = j
             /\ \A k \in ks : \E i \in 1 .. Len(p) : at[i] = k
  BY <1>6 DEF Picks
<1>9. PICK to \in [1 .. Len(q) -> ms] :
             /\ \A i \in 1 .. Len(q) : q[i] = fs[to[i]]
             /\ \A i, j \in 1 .. Len(q) : to[i] = to[j] => i = j
             /\ \A k \in ms : \E i \in 1 .. Len(q) : to[i] = k
  BY <1>7 DEF Picks
<1>10. /\ e \in Seq(Functions) /\ Len(e) = Len(p) + Len(q)
       /\ Len(p) \in Nat /\ Len(q) \in Nat
       /\ \A i \in 1 .. Len(p) + Len(q) : e[i] = IF i <= Len(p) THEN p[i] ELSE q[i - Len(p)]
  BY <1>3, <1>6, <1>7, ConcatProperties
<1>11. \A i \in 1 .. Len(p) :
         i \in 1 .. Len(e) /\ e[i] = fs[at[i]] /\ at[i] \in ks /\ at[i] \in 1 .. Len(fs)
  <2> SUFFICES ASSUME NEW i \in 1 .. Len(p)
               PROVE  /\ i \in 1 .. Len(e) /\ e[i] = fs[at[i]]
                      /\ at[i] \in ks /\ at[i] \in 1 .. Len(fs)
    OBVIOUS
  <2>1. i \in 1 .. Len(p) + Len(q) /\ i <= Len(p)
    BY <1>10
  <2>2. e[i] = p[i]
    BY <1>10, <2>1
  <2>3. at[i] \in ks /\ at[i] \in 1 .. Len(fs)
    BY <1>2, <1>8
  <2> QED
    BY <1>8, <1>10, <2>1, <2>2, <2>3
<1>12. \A i \in 1 .. Len(q) :
         /\ i + Len(p) \in 1 .. Len(e) /\ e[i + Len(p)] = fs[to[i]]
         /\ to[i] \in ms /\ to[i] \in 1 .. Len(fs)
  <2> SUFFICES ASSUME NEW i \in 1 .. Len(q)
               PROVE  /\ i + Len(p) \in 1 .. Len(e) /\ e[i + Len(p)] = fs[to[i]]
                      /\ to[i] \in ms /\ to[i] \in 1 .. Len(fs)
    OBVIOUS
  <2>1. PICK k \in 1 .. Len(p) + Len(q) : k = i + Len(p)
    BY <1>10
  <2>2. ~(k <= Len(p)) /\ k - Len(p) = i
    BY <1>10, <2>1
  <2>3. e[k] = q[k - Len(p)]
    BY <1>10, <2>2
  <2>4. to[i] \in ms /\ to[i] \in 1 .. Len(fs)
    BY <1>2, <1>9
  <2> QED
    BY <1>9, <1>10, <2>1, <2>2, <2>3, <2>4
<1>13. \A i \in 1 .. Len(e) : i \in 1 .. Len(p) \/ \E j \in 1 .. Len(q) : i = j + Len(p)
  <2> SUFFICES ASSUME NEW i \in 1 .. Len(e), i \notin 1 .. Len(p)
               PROVE  \E j \in 1 .. Len(q) : i = j + Len(p)
    OBVIOUS
  <2>1. i - Len(p) \in 1 .. Len(q) /\ i = (i - Len(p)) + Len(p)
    BY <1>10
  <2> QED
    BY <2>1
<1>14. \A i \in 1 .. Len(e) : \E k \in 1 .. Len(fs) : e[i] = fs[k]
  <2> SUFFICES ASSUME NEW i \in 1 .. Len(e) PROVE \E k \in 1 .. Len(fs) : e[i] = fs[k]
    OBVIOUS
  <2>1. CASE i \in 1 .. Len(p)
    <3>1. e[i] = fs[at[i]] /\ at[i] \in 1 .. Len(fs)
      BY <1>11, <2>1
    <3> QED
      BY <3>1
  <2>2. CASE i \notin 1 .. Len(p)
    <3>1. PICK j \in 1 .. Len(q) : i = j + Len(p)
      BY <1>13, <2>2
    <3>2. e[i] = fs[to[j]] /\ to[j] \in 1 .. Len(fs)
      BY <1>12, <3>1
    <3> QED
      BY <3>2
  <2> QED
    BY <2>1, <2>2
<1>15. Names(e) = Names(fs)
  <2>0. DOMAIN e = 1 .. Len(e)
    BY <1>10
  <2>1. ASSUME NEW x \in Names(e) PROVE x \in Names(fs)
    <3>1. PICK i \in 1 .. Len(e) : x = e[i].name
      BY <2>0, <2>1 DEF Names
    <3>2. PICK k \in 1 .. Len(fs) : e[i] = fs[k]
      BY <1>14
    <3>3. k \in DOMAIN fs /\ fs[k].name = x
      BY <1>1, <3>1, <3>2
    <3> QED
      BY <3>3 DEF Names
  <2>2. ASSUME NEW x \in Names(fs) PROVE x \in Names(e)
    <3>1. PICK k \in 1 .. Len(fs) : x = fs[k].name
      BY <1>1, <2>2 DEF Names
    <3>2. CASE x # "main"
      <4>1. PICK i \in 1 .. Len(p) : at[i] = k
        BY <1>4, <1>8, <3>1, <3>2
      <4>2. i \in DOMAIN e /\ e[i].name = x
        BY <1>11, <2>0, <3>1, <4>1
      <4> QED
        BY <4>2 DEF Names
    <3>3. CASE x = "main"
      <4>1. PICK l \in 1 .. Len(fs) : fs[l].name = x /\ First(fs, l)
        BY <3>1, FirstExists
      <4>2. PICK i \in 1 .. Len(q) : to[i] = l
        BY <1>5, <1>9, <3>3, <4>1
      <4>3. i + Len(p) \in DOMAIN e /\ e[i + Len(p)].name = x
        BY <1>12, <2>0, <4>1, <4>2
      <4> QED
        BY <4>3 DEF Names
    <3> QED
      BY <3>2, <3>3
  <2> QED
    BY <2>1, <2>2
<1>16. ASSUME NEW i \in 1 .. Len(e), NEW j \in 1 .. Len(e), i # j, e[i].name = e[j].name
       PROVE  /\ e[i].name # "main"
              /\ \E k, l \in 1 .. Len(fs) :
                   k # l /\ fs[k].name = e[i].name /\ fs[l].name = e[i].name
  <2>1. ASSUME NEW k \in 1 .. Len(p) PROVE e[k].name # "main"
    BY <1>4, <1>11
  <2>2. ASSUME NEW k \in 1 .. Len(q) PROVE e[k + Len(p)].name = "main"
    BY <1>5, <1>12
  <2>3. CASE i \in 1 .. Len(p) /\ j \in 1 .. Len(p)
    <3>1. at[i] # at[j] /\ at[i] \in 1 .. Len(fs) /\ at[j] \in 1 .. Len(fs)
      BY <1>8, <1>11, <1>16, <2>3
    <3>2. fs[at[i]].name = e[i].name /\ fs[at[j]].name = e[i].name
      BY <1>11, <1>16, <2>3
    <3> QED
      BY <2>1, <2>3, <3>1, <3>2
  <2>4. CASE i \in 1 .. Len(p) /\ j \notin 1 .. Len(p)
    BY <1>13, <1>16, <2>1, <2>2, <2>4
  <2>5. CASE i \notin 1 .. Len(p) /\ j \in 1 .. Len(p)
    BY <1>13, <1>16, <2>1, <2>2, <2>5
  <2>6. CASE i \notin 1 .. Len(p) /\ j \notin 1 .. Len(p)
    <3>1. PICK k \in 1 .. Len(q) : i = k + Len(p)
      BY <1>13, <2>6
    <3>2. PICK l \in 1 .. Len(q) : j = l + Len(p)
      BY <1>13, <2>6
    <3>3. to[k] # to[l]
      BY <1>9, <1>16, <3>1, <3>2
    <3>4. to[k] \in 1 .. Len(fs) /\ to[l] \in 1 .. Len(fs)
      BY <1>12
    <3>5. fs[to[k]].name = fs[to[l]].name
      BY <1>12, <1>16, <3>1, <3>2
    <3>6. First(fs, to[k]) /\ First(fs, to[l])
      BY <1>5, <1>12
    <3> DEFINE u == to[k]
               v == to[l]
    <3>7. /\ u \in Int /\ v \in Int /\ u # v /\ u > 0 /\ v > 0
          /\ fs[u].name = fs[v].name /\ First(fs, u) /\ First(fs, v)
      BY <1>1, <3>3, <3>4, <3>5, <3>6
    <3> HIDE DEF u, v
    <3>8. u \in 1 .. v - 1 \/ v \in 1 .. u - 1
      BY <3>7
    <3> QED
      BY <3>7, <3>8 DEF First
  <2> QED
    BY <2>3, <2>4, <2>5, <2>6
<1> QED
  BY <1>10, <1>15, <1>16

-----------------------------------------------------------------------------
(* Where import lines lead: the paths of import lines g and directories d. *)

Resolve(d, p, n) ==
  Path(IF d[n] = d[p.file] THEN p.hops ELSE Append(p.hops, d[n]), n)

LEMMA ResolveIs == \A p, n : resolve_import(p, n) = Resolve(dir, p, n)
  BY DEF resolve_import, Resolve

Leads(g, p) == ToSet(g[p.file]) \cap Files

PathsClosed(g, d, S) == \A p \in S : \A n \in Leads(g, p) : Resolve(d, p, n) \in S

(* The paths p leads to, itself and those of any length included. *)
Desc(g, d, p) ==
  {r \in AnyPath : \A S \in SUBSET AnyPath : p \in S /\ PathsClosed(g, d, S) => r \in S}

LEMMA ResolveTyped ==
  ASSUME NEW d \in Layouts, NEW p \in AnyPath, NEW n \in Files
  PROVE  /\ Resolve(d, p, n) \in AnyPath
         /\ Resolve(d, p, n).file = n
         /\ \/ d[n] = d[p.file] /\ Resolve(d, p, n).hops = p.hops
            \/ d[n] # d[p.file] /\ Len(Resolve(d, p, n).hops) = Len(p.hops) + 1
<1>1. p.hops \in Seq(Places) /\ p.file \in Files /\ d[n] \in Places
  BY DEF AnyPath, Places
<1>2. Append(p.hops, d[n]) \in Seq(Places) /\ Len(Append(p.hops, d[n])) = Len(p.hops) + 1
  BY <1>1
<1> QED
  BY <1>1, <1>2 DEF Resolve, Path, AnyPath

LEMMA DescSelf ==
  ASSUME NEW g, NEW d, NEW p \in AnyPath
  PROVE  p \in Desc(g, d, p)
  BY DEF Desc

LEMMA DescTyped ==
  ASSUME NEW g, NEW d, NEW p
  PROVE  Desc(g, d, p) \subseteq AnyPath
  BY DEF Desc

LEMMA DescLeast ==
  ASSUME NEW g, NEW d, NEW p, NEW S \in SUBSET AnyPath, p \in S, PathsClosed(g, d, S)
  PROVE  Desc(g, d, p) \subseteq S
  BY DEF Desc

LEMMA DescClosed ==
  ASSUME NEW g, NEW d \in Layouts, NEW p
  PROVE  PathsClosed(g, d, Desc(g, d, p))
<1> SUFFICES ASSUME NEW r \in Desc(g, d, p), NEW n \in Leads(g, r)
             PROVE  Resolve(d, r, n) \in Desc(g, d, p)
  BY DEF PathsClosed
<1>1. r \in AnyPath /\ n \in Files
  BY DEF Desc, Leads
<1>2. Resolve(d, r, n) \in AnyPath
  BY <1>1, ResolveTyped
<1>3. ASSUME NEW S \in SUBSET AnyPath, p \in S, PathsClosed(g, d, S)
      PROVE  Resolve(d, r, n) \in S
  <2>1. r \in S
    BY <1>3 DEF Desc
  <2> QED
    BY <1>3, <2>1 DEF PathsClosed
<1> QED
  BY <1>2, <1>3 DEF Desc

LEMMA DescTransitive ==
  ASSUME NEW g, NEW d \in Layouts, NEW p, NEW r \in Desc(g, d, p)
  PROVE  Desc(g, d, r) \subseteq Desc(g, d, p)
<1>1. Desc(g, d, p) \in SUBSET AnyPath
  BY DescTyped
<1> QED
  BY <1>1, DescClosed, DescLeast

(* On the way down a path only grows. *)
LEMMA DescLonger ==
  ASSUME NEW g, NEW d \in Layouts, NEW p \in AnyPath, NEW r \in Desc(g, d, p)
  PROVE  r.hops = p.hops \/ Len(r.hops) > Len(p.hops)
<1> DEFINE S == {x \in AnyPath : x.hops = p.hops \/ Len(x.hops) > Len(p.hops)}
<1>1. S \in SUBSET AnyPath /\ p \in S
  OBVIOUS
<1>2. ASSUME NEW x \in S, NEW n \in Leads(g, x)
      PROVE  Resolve(d, x, n) \in S
  <2>1. x \in AnyPath /\ n \in Files
    BY DEF Leads
  <2>2. x.hops \in Seq(Places) /\ p.hops \in Seq(Places)
    BY <2>1 DEF AnyPath
  <2>3. Len(x.hops) \in Nat /\ Len(p.hops) \in Nat
    BY <2>2
  <2> DEFINE y == Resolve(d, x, n)
  <2>4. y \in AnyPath /\ (y.hops = x.hops \/ Len(y.hops) = Len(x.hops) + 1)
    BY <2>1, ResolveTyped
  <2> HIDE DEF y
  <2>5. y.hops = p.hops \/ Len(y.hops) > Len(p.hops)
    BY <2>3, <2>4
  <2>6. y \in S
    BY <2>4, <2>5
  <2> QED
    BY <2>6 DEF y
<1>3. PathsClosed(g, d, S)
  BY <1>2 DEF PathsClosed
<1> HIDE DEF S
<1>4. r \in S
  BY <1>1, <1>3, DescLeast
<1> QED
  BY <1>4 DEF S

(* A file found under another path leads to the same files, as many hops   *)
(* further: x is from q what r is from p.                                  *)
Shifted(x, q, r, p) ==
  x.file = r.file /\ Len(x.hops) - Len(q.hops) = Len(r.hops) - Len(p.hops)

LEMMA DescShifts ==
  ASSUME NEW g, NEW d \in Layouts, NEW p \in AnyPath, NEW q \in AnyPath,
         p.file = q.file, NEW r \in Desc(g, d, p)
  PROVE  \E x \in Desc(g, d, q) : Shifted(x, q, r, p)
<1> DEFINE Like(r1) == \E x \in Desc(g, d, q) :
                         /\ x.file = r1.file
                         /\ Len(x.hops) - Len(q.hops) = Len(r1.hops) - Len(p.hops)
           S == {r1 \in AnyPath : Like(r1)}
<1>0. /\ \A x \in AnyPath : x.hops \in Seq(Places)
      /\ \A x \in AnyPath : Len(x.hops) \in Nat
  <2>1. \A x \in AnyPath : x.hops \in Seq(Places)
    BY DEF AnyPath
  <2> QED
    BY <2>1
<1>1. p \in S
  <2>1. q \in Desc(g, d, q)
    BY DescSelf
  <2>2. Len(q.hops) - Len(q.hops) = Len(p.hops) - Len(p.hops)
    BY <1>0
  <2>3. Like(p)
    BY <2>1, <2>2
  <2> HIDE DEF Like
  <2> QED
    BY <2>3
<1>2. ASSUME NEW r1 \in S, NEW n \in Leads(g, r1)
      PROVE  Resolve(d, r1, n) \in S
  <2>1. r1 \in AnyPath /\ n \in Files /\ Like(r1)
    BY DEF Leads
  <2>2. PICK x \in Desc(g, d, q) :
               x.file = r1.file /\ Len(x.hops) - Len(q.hops) = Len(r1.hops) - Len(p.hops)
    BY <2>1
  <2> DEFINE y == Resolve(d, x, n)
             z == Resolve(d, r1, n)
  <2>3. x \in AnyPath /\ n \in Leads(g, x)
    BY <2>2, DescTyped DEF Leads
  <2>4. y \in Desc(g, d, q)
    BY <2>3, DescClosed DEF PathsClosed
  <2>5. /\ y \in AnyPath /\ y.file = n
        /\ \/ d[n] = d[x.file] /\ y.hops = x.hops
           \/ d[n] # d[x.file] /\ Len(y.hops) = Len(x.hops) + 1
    BY <2>1, <2>3, ResolveTyped
  <2>6. /\ z \in AnyPath /\ z.file = n
        /\ \/ d[n] = d[r1.file] /\ z.hops = r1.hops
           \/ d[n] # d[r1.file] /\ Len(z.hops) = Len(r1.hops) + 1
    BY <2>1, ResolveTyped
  <2> HIDE DEF y, z
  <2>7. Len(y.hops) - Len(x.hops) = Len(z.hops) - Len(r1.hops)
    <3>1. CASE d[n] = d[r1.file]
      <4>1. Len(y.hops) = Len(x.hops) /\ Len(z.hops) = Len(r1.hops)
        BY <2>2, <2>5, <2>6, <3>1
      <4> QED
        BY <1>0, <2>1, <2>3, <4>1
    <3>2. CASE d[n] # d[r1.file]
      <4>1. Len(y.hops) = Len(x.hops) + 1 /\ Len(z.hops) = Len(r1.hops) + 1
        BY <2>2, <2>5, <2>6, <3>2
      <4> QED
        BY <1>0, <2>1, <2>3, <4>1
    <3> QED
      BY <3>1, <3>2
  <2>8. Len(y.hops) - Len(q.hops) = Len(z.hops) - Len(p.hops)
    <3>1. /\ Len(y.hops) \in Int /\ Len(q.hops) \in Int /\ Len(z.hops) \in Int
          /\ Len(p.hops) \in Int /\ Len(x.hops) \in Int /\ Len(r1.hops) \in Int
      BY <1>0, <2>1, <2>3, <2>5, <2>6
    <3> DEFINE a == Len(y.hops)
               b == Len(x.hops)
               c == Len(z.hops)
               k == Len(r1.hops)
               l == Len(q.hops)
               m == Len(p.hops)
    <3>2. /\ a \in Int /\ b \in Int /\ c \in Int /\ k \in Int /\ l \in Int /\ m \in Int
          /\ a - b = c - k /\ b - l = k - m
      BY <2>2, <2>7, <3>1
    <3> HIDE DEF a, b, c, k, l, m
    <3>3. a - l = c - m
      BY <3>2
    <3> QED
      BY <3>3 DEF a, c, l, m
  <2>9. Like(z)
    BY <2>4, <2>5, <2>6, <2>8
  <2> HIDE DEF Like
  <2>10. z \in S
    BY <2>6, <2>9
  <2> QED
    BY <2>10 DEF z
<1>3. PathsClosed(g, d, S)
  BY <1>2 DEF PathsClosed
<1>4. S \in SUBSET AnyPath
  OBVIOUS
<1> HIDE DEF S
<1>5. r \in S
  BY <1>1, <1>3, <1>4, DescLeast
<1> QED
  BY <1>5 DEF S, Shifted

-----------------------------------------------------------------------------
(* The inductive invariant, of parsers ps.  The parser at work is the last *)
(* one, and its loaded_ is the one that counts: every other parser gets it *)
(* back before it looks at its own again.                                  *)

LoadedIn(ps)     == ps[Len(ps)].loaded
OnStack(ps, p)   == \E k \in 2 .. Len(ps) : ps[k].path = p
Meets(ps, p, n)  == n \in Files /\ Resolve(dir, p, n) \in LoadedIn(ps)
Collected(ps, p) == /\ fault[p.file] = "none"
                    /\ \E k \in 1 .. Len(ps) :
                         Names(Own(p.file)) \subseteq Names(ps[k].functions)
Finished(ps, p)  == /\ \A n \in ToSet(imports[p.file]) : Meets(ps, p, n)
                    /\ Collected(ps, p)

(* Parsers at work are on paths of their own, all but the first in loaded_, *)
(* and each was opened by the one before.                                  *)
StackInv(ps) ==
  /\ ps[1].path = Path(<<>>, Root)
  /\ \A k \in 2 .. Len(ps) : ps[k].path \in LoadedIn(ps)
  /\ \A j, k \in 2 .. Len(ps) : ps[j].path = ps[k].path => j = k
  /\ \A k \in 1 .. Len(ps) : ps[k].declared => k = Len(ps) /\ ps[k].todo = <<>>
  /\ \A j, k \in 1 .. Len(ps) : j <= k => Len(ps[j].path.hops) <= Len(ps[k].path.hops)
  /\ \A j, k \in 1 .. Len(ps) : k = j + 1 => ps[k].path \in Desc(imports, dir, ps[j].path)
  /\ \A p \in LoadedIn(ps) : Len(p.hops) <= MaxHops

(* What is loaded is being parsed, or has been: then its functions are in  *)
(* the hands of some parser, and what it imports is loaded too.  No fault  *)
(* has ended the compiler in a file whose declarations have been read.     *)
CompleteInv(ps) ==
  /\ \A p \in LoadedIn(ps) : OnStack(ps, p) \/ Finished(ps, p)
  /\ \A k \in 1 .. Len(ps) :
       /\ ToSet(ps[k].todo) \subseteq ToSet(imports[ps[k].path.file])
       /\ \A n \in ToSet(imports[ps[k].path.file]) :
            n \in ToSet(ps[k].todo) \/ Meets(ps, ps[k].path, n)
       /\ ps[k].declared => /\ Names(Own(ps[k].path.file)) \subseteq Names(ps[k].functions)
                            /\ ps[k].diagnostics <=> ps[k].path.file \in broken
                            /\ fault[ps[k].path.file] = "none"

(* Nothing is loaded that the program does not import. *)
ReachInv(ps) ==
  /\ \A k \in 1 .. Len(ps) : ps[k].path.file \in Reachable
  /\ \A p \in LoadedIn(ps) : \E f \in Reachable \ {Missing} : p.file \in ToSet(imports[f])
  /\ OneDirectory => /\ \A k \in 1 .. Len(ps) : ps[k].path.hops = <<>>
                     /\ \A p \in LoadedIn(ps) : p.hops = <<>>

(* A parser has functions of finished modules it leads to, and, once it has *)
(* read its declarations, its own.                                         *)
ComesFrom(ps, k, f, r) ==
  /\ r.file = f
  /\ \/ r \in LoadedIn(ps) /\ ~OnStack(ps, r)
     \/ r = ps[k].path /\ ps[k].declared

OriginInv(ps) ==
  \A k \in 1 .. Len(ps) : \A i \in 1 .. Len(ps[k].functions) :
    /\ ps[k].functions[i].name \in ToSet(Defines[ps[k].functions[i].file])
    /\ \E r \in Desc(imports, dir, ps[k].path) : ComesFrom(ps, k, ps[k].functions[i].file, r)

-----------------------------------------------------------------------------
(* The parser at work becomes x, and is in the same place.                 *)

TopBecomes(s, t, x) ==
  /\ s \in Seq(Parsers) /\ Len(s) \in Nat \ {0} /\ t \in Seq(Parsers) /\ Len(t) = Len(s)
  /\ \A k \in 1 .. Len(s) - 1 : t[k] = s[k]
  /\ t[Len(s)] = x
  /\ x.path = s[Len(s)].path
  /\ x.loaded = s[Len(s)].loaded

LEMMA TopKeeps ==
  ASSUME NEW s, NEW t, NEW x, TopBecomes(s, t, x)
  PROVE  /\ Len(t) = Len(s) /\ Len(s) \in Nat \ {0}
         /\ LoadedIn(t) = LoadedIn(s)
         /\ \A k \in 1 .. Len(s) : t[k].path = s[k].path /\ (k # Len(s) => t[k] = s[k])
         /\ \A p : OnStack(t, p) <=> OnStack(s, p)
         /\ \A p, n : Meets(t, p, n) <=> Meets(s, p, n)
<1>1. Len(t) = Len(s) /\ Len(s) \in Nat \ {0}
  BY DEF TopBecomes
<1>2. LoadedIn(t) = LoadedIn(s)
  BY DEF TopBecomes, LoadedIn
<1>3. ASSUME NEW k \in 1 .. Len(s)
      PROVE  t[k].path = s[k].path /\ (k # Len(s) => t[k] = s[k])
  <2>1. CASE k = Len(s)
    BY <2>1 DEF TopBecomes
  <2>2. CASE k # Len(s)
    <3>1. k \in 1 .. Len(s) - 1
      BY <1>1, <2>2
    <3>2. t[k] = s[k]
      BY <3>1 DEF TopBecomes
    <3> QED
      BY <3>2
  <2> QED
    BY <2>1, <2>2
<1>4. ASSUME NEW p PROVE OnStack(t, p) <=> OnStack(s, p)
  <2>1. \A k \in 2 .. Len(s) : k \in 1 .. Len(s)
    BY <1>1
  <2> QED
    BY <1>1, <1>3, <2>1 DEF OnStack
<1>5. ASSUME NEW p, NEW n PROVE Meets(t, p, n) <=> Meets(s, p, n)
  BY <1>2 DEF Meets
<1> QED
  BY <1>1, <1>2, <1>3, <1>4, <1>5

LEMMA TopStack ==
  ASSUME NEW s, NEW t, NEW x, TopBecomes(s, t, x), StackInv(s),
         x.declared => x.todo = <<>>
  PROVE  StackInv(t)
<1>1. /\ Len(t) = Len(s) /\ Len(s) \in Nat \ {0}
      /\ LoadedIn(t) = LoadedIn(s)
      /\ \A k \in 1 .. Len(s) : t[k].path = s[k].path /\ (k # Len(s) => t[k] = s[k])
  BY TopKeeps
<1>2. t[Len(s)] = x
  BY DEF TopBecomes
<1>3. /\ 1 \in 1 .. Len(s)
      /\ \A k \in 2 .. Len(s) : k \in 1 .. Len(s)
  BY <1>1
<1>4. t[1].path = Path(<<>>, Root)
  BY <1>1, <1>3 DEF StackInv
<1>5. \A k \in 2 .. Len(t) : t[k].path \in LoadedIn(t)
  BY <1>1, <1>3 DEF StackInv
<1>6. \A j, k \in 2 .. Len(t) : t[j].path = t[k].path => j = k
  BY <1>1, <1>3 DEF StackInv
<1>7. \A k \in 1 .. Len(t) : t[k].declared => k = Len(t) /\ t[k].todo = <<>>
  BY <1>1, <1>2 DEF StackInv
<1>8. \A j, k \in 1 .. Len(t) : j <= k => Len(t[j].path.hops) <= Len(t[k].path.hops)
  BY <1>1 DEF StackInv
<1>9. \A j, k \in 1 .. Len(t) : k = j + 1 => t[k].path \in Desc(imports, dir, t[j].path)
  BY <1>1 DEF StackInv
<1>10. \A p \in LoadedIn(t) : Len(p.hops) <= MaxHops
  BY <1>1 DEF StackInv
<1> QED
  BY <1>4, <1>5, <1>6, <1>7, <1>8, <1>9, <1>10 DEF StackInv

LEMMA TopComplete ==
  ASSUME NEW s, NEW t, NEW x, TopBecomes(s, t, x), CompleteInv(s),
         Names(s[Len(s)].functions) \subseteq Names(x.functions),
         ToSet(x.todo) \subseteq ToSet(s[Len(s)].todo),
         \A n \in ToSet(s[Len(s)].todo) : n \in ToSet(x.todo) \/ Meets(s, x.path, n),
         x.declared => /\ Names(Own(x.path.file)) \subseteq Names(x.functions)
                       /\ x.diagnostics <=> x.path.file \in broken
                       /\ fault[x.path.file] = "none"
  PROVE  CompleteInv(t)
<1>1. /\ Len(t) = Len(s) /\ Len(s) \in Nat \ {0}
      /\ LoadedIn(t) = LoadedIn(s)
      /\ \A k \in 1 .. Len(s) : t[k].path = s[k].path /\ (k # Len(s) => t[k] = s[k])
      /\ \A p : OnStack(t, p) <=> OnStack(s, p)
      /\ \A p, n : Meets(t, p, n) <=> Meets(s, p, n)
  BY TopKeeps
<1>2. t[Len(s)] = x /\ x.path = s[Len(s)].path /\ Len(s) \in 1 .. Len(s)
  BY <1>1 DEF TopBecomes
<1>3. \A k \in 1 .. Len(s) : Names(s[k].functions) \subseteq Names(t[k].functions)
  BY <1>1, <1>2
<1>4. \A p : Collected(s, p) => Collected(t, p)
  <2> SUFFICES ASSUME NEW p, Collected(s, p) PROVE Collected(t, p)
    OBVIOUS
  <2>1. PICK k \in 1 .. Len(s) : /\ fault[p.file] = "none"
                                 /\ Names(Own(p.file)) \subseteq Names(s[k].functions)
    BY DEF Collected
  <2>2. k \in 1 .. Len(t) /\ Names(Own(p.file)) \subseteq Names(t[k].functions)
    BY <1>1, <1>3, <2>1
  <2> QED
    BY <2>1, <2>2 DEF Collected
<1>5. \A p : Finished(s, p) => Finished(t, p)
  BY <1>1, <1>4 DEF Finished
<1>6. \A p \in LoadedIn(t) : OnStack(t, p) \/ Finished(t, p)
  BY <1>1, <1>5 DEF CompleteInv
<1>7. ASSUME NEW k \in 1 .. Len(t)
      PROVE  /\ ToSet(t[k].todo) \subseteq ToSet(imports[t[k].path.file])
             /\ \A n \in ToSet(imports[t[k].path.file]) :
                  n \in ToSet(t[k].todo) \/ Meets(t, t[k].path, n)
             /\ t[k].declared => /\ Names(Own(t[k].path.file)) \subseteq Names(t[k].functions)
                                 /\ t[k].diagnostics <=> t[k].path.file \in broken
                                 /\ fault[t[k].path.file] = "none"
  <2>1. /\ ToSet(s[k].todo) \subseteq ToSet(imports[s[k].path.file])
        /\ \A n \in ToSet(imports[s[k].path.file]) :
             n \in ToSet(s[k].todo) \/ Meets(s, s[k].path, n)
        /\ s[k].declared => /\ Names(Own(s[k].path.file)) \subseteq Names(s[k].functions)
                            /\ s[k].diagnostics <=> s[k].path.file \in broken
                            /\ fault[s[k].path.file] = "none"
    BY <1>1, <1>7 DEF CompleteInv
  <2>2. CASE k = Len(s)
    BY <1>1, <1>2, <2>1, <2>2
  <2>3. CASE k # Len(s)
    BY <1>1, <2>1, <2>3
  <2> QED
    BY <2>2, <2>3
<1> QED
  BY <1>6, <1>7 DEF CompleteInv

LEMMA TopReach ==
  ASSUME NEW s, NEW t, NEW x, TopBecomes(s, t, x), ReachInv(s)
  PROVE  ReachInv(t)
<1>1. /\ Len(t) = Len(s)
      /\ LoadedIn(t) = LoadedIn(s)
      /\ \A k \in 1 .. Len(s) : t[k].path = s[k].path
  BY TopKeeps
<1> QED
  BY <1>1 DEF ReachInv

LEMMA TopOrigin ==
  ASSUME NEW s, NEW t, NEW x, TopBecomes(s, t, x), OriginInv(s), StackInv(s),
         x.declared \/ ~s[Len(s)].declared,
         \A i \in 1 .. Len(x.functions) :
           \/ \E j \in 1 .. Len(s[Len(s)].functions) : x.functions[i] = s[Len(s)].functions[j]
           \/ /\ x.declared /\ x.functions[i].file = x.path.file
              /\ x.functions[i].name \in ToSet(Defines[x.path.file]),
         x.path \in AnyPath
  PROVE  OriginInv(t)
<1>1. /\ Len(t) = Len(s) /\ Len(s) \in Nat \ {0}
      /\ LoadedIn(t) = LoadedIn(s)
      /\ \A k \in 1 .. Len(s) : t[k].path = s[k].path /\ (k # Len(s) => t[k] = s[k])
      /\ \A p : OnStack(t, p) <=> OnStack(s, p)
  BY TopKeeps
<1>2. t[Len(s)] = x /\ x.path = s[Len(s)].path
  BY DEF TopBecomes
<1>3. \A k \in 1 .. Len(s) : \A f, r : ComesFrom(s, k, f, r) => ComesFrom(t, k, f, r)
  BY <1>1, <1>2 DEF ComesFrom
<1> SUFFICES ASSUME NEW k \in 1 .. Len(t), NEW i \in 1 .. Len(t[k].functions)
             PROVE  /\ t[k].functions[i].name \in ToSet(Defines[t[k].functions[i].file])
                    /\ \E r \in Desc(imports, dir, t[k].path) :
                         ComesFrom(t, k, t[k].functions[i].file, r)
  BY DEF OriginInv
<1>4. ASSUME NEW j \in 1 .. Len(s[k].functions), t[k].functions[i] = s[k].functions[j]
      PROVE  /\ t[k].functions[i].name \in ToSet(Defines[t[k].functions[i].file])
             /\ \E r \in Desc(imports, dir, t[k].path) :
                  ComesFrom(t, k, t[k].functions[i].file, r)
  BY <1>1, <1>3, <1>4 DEF OriginInv
<1>5. CASE k # Len(s)
  BY <1>1, <1>4, <1>5
<1>6. CASE k = Len(s) /\ x.declared /\ x.functions[i].file = x.path.file
              /\ x.functions[i].name \in ToSet(Defines[x.path.file])
  <2>1. x.path \in Desc(imports, dir, t[k].path)
    BY <1>2, <1>6, DescSelf
  <2>2. ComesFrom(t, k, t[k].functions[i].file, x.path)
    BY <1>2, <1>6 DEF ComesFrom
  <2> QED
    BY <1>2, <1>6, <2>1, <2>2
<1> QED
  BY <1>2, <1>4, <1>5, <1>6

-----------------------------------------------------------------------------
(* The parser at work becomes x and opens y for the import line n.         *)

Opens(s, t, x, y, n) ==
  /\ s \in Seq(Parsers) /\ Len(s) \in Nat \ {0} /\ t \in Seq(Parsers) /\ Len(t) = Len(s) + 1
  /\ \A k \in 1 .. Len(s) - 1 : t[k] = s[k]
  /\ t[Len(s)] = x /\ t[Len(s) + 1] = y
  /\ n \in Files /\ n \in ToSet(s[Len(s)].todo)
  /\ x.path = s[Len(s)].path /\ x.functions = s[Len(s)].functions
  /\ ~x.declared /\ ~s[Len(s)].declared
  /\ ToSet(x.todo) \subseteq ToSet(s[Len(s)].todo)
  /\ ToSet(s[Len(s)].todo) \subseteq ToSet(x.todo) \cup {n}
  /\ y.path = Resolve(dir, x.path, n) /\ y.path \notin s[Len(s)].loaded
  /\ y.todo = imports[n] /\ y.functions = <<>> /\ ~y.declared
  /\ y.loaded = s[Len(s)].loaded \cup {y.path}
  /\ Len(y.path.hops) <= MaxHops

LEMMA OpenKeeps ==
  ASSUME NEW s, NEW t, NEW x, NEW y, NEW n, Opens(s, t, x, y, n)
  PROVE  /\ Len(t) = Len(s) + 1 /\ Len(s) \in Nat \ {0}
         /\ LoadedIn(t) = LoadedIn(s) \cup {y.path}
         /\ y.path \notin LoadedIn(s)
         /\ \A k \in 1 .. Len(s) :
              /\ k \in 1 .. Len(t) /\ t[k].path = s[k].path /\ t[k].functions = s[k].functions
              /\ k # Len(s) => t[k] = s[k]
         /\ t[Len(s) + 1] = y
         /\ \A k \in 1 .. Len(t) : k \in 1 .. Len(s) \/ k = Len(s) + 1
         /\ \A p : OnStack(t, p) <=> OnStack(s, p) \/ p = y.path
         /\ \A p, m : Meets(s, p, m) => Meets(t, p, m)
<1>1. Len(t) = Len(s) + 1 /\ Len(s) \in Nat \ {0} /\ t[Len(s) + 1] = y
  BY DEF Opens
<1>2. LoadedIn(t) = LoadedIn(s) \cup {y.path} /\ y.path \notin LoadedIn(s)
  BY <1>1 DEF Opens, LoadedIn
<1>3. ASSUME NEW k \in 1 .. Len(s)
      PROVE  /\ k \in 1 .. Len(t) /\ t[k].path = s[k].path /\ t[k].functions = s[k].functions
             /\ k # Len(s) => t[k] = s[k]
  <2>0. k \in 1 .. Len(t)
    BY <1>1
  <2>1. CASE k = Len(s)
    BY <2>0, <2>1 DEF Opens
  <2>2. CASE k # Len(s)
    <3>1. k \in 1 .. Len(s) - 1
      BY <1>1, <2>2
    <3>2. t[k] = s[k]
      BY <3>1 DEF Opens
    <3> QED
      BY <2>0, <3>2
  <2> QED
    BY <2>1, <2>2
<1>4. \A k \in 1 .. Len(t) : k \in 1 .. Len(s) \/ k = Len(s) + 1
  BY <1>1
<1>5. ASSUME NEW p PROVE OnStack(t, p) <=> OnStack(s, p) \/ p = y.path
  <2>1. \A k \in 2 .. Len(s) : k \in 1 .. Len(s) /\ k \in 2 .. Len(t)
    BY <1>1
  <2>2. Len(s) + 1 \in 2 .. Len(t)
    BY <1>1
  <2>3. \A k \in 2 .. Len(t) : k \in 2 .. Len(s) \/ k = Len(s) + 1
    BY <1>1
  <2>4. OnStack(s, p) => OnStack(t, p)
    BY <1>3, <2>1 DEF OnStack
  <2>5. p = y.path => OnStack(t, p)
    BY <1>1, <2>2 DEF OnStack
  <2>6. OnStack(t, p) => OnStack(s, p) \/ p = y.path
    BY <1>1, <1>3, <2>1, <2>3 DEF OnStack
  <2> QED
    BY <2>4, <2>5, <2>6
<1>6. ASSUME NEW p, NEW m, Meets(s, p, m) PROVE Meets(t, p, m)
  BY <1>2, <1>6 DEF Meets
<1> QED
  BY <1>1, <1>2, <1>3, <1>4, <1>5, <1>6

LEMMA OpenStack ==
  ASSUME ProgramTyped, NEW s, NEW t, NEW x, NEW y, NEW n, Opens(s, t, x, y, n),
         StackInv(s), CompleteInv(s)
  PROVE  StackInv(t)
<1>1. /\ Len(t) = Len(s) + 1 /\ Len(s) \in Nat \ {0}
      /\ LoadedIn(t) = LoadedIn(s) \cup {y.path}
      /\ y.path \notin LoadedIn(s)
      /\ \A k \in 1 .. Len(s) :
           /\ k \in 1 .. Len(t) /\ t[k].path = s[k].path
           /\ k # Len(s) => t[k] = s[k]
      /\ t[Len(s) + 1] = y
      /\ \A k \in 1 .. Len(t) : k \in 1 .. Len(s) \/ k = Len(s) + 1
  BY OpenKeeps
<1>2. /\ t[Len(s)] = x /\ x.path = s[Len(s)].path /\ ~x.declared /\ ~y.declared
      /\ y.path = Resolve(dir, x.path, n) /\ Len(y.path.hops) <= MaxHops
      /\ n \in Files /\ n \in ToSet(s[Len(s)].todo)
  BY DEF Opens
<1>3. /\ 1 \in 1 .. Len(s) /\ Len(s) \in 1 .. Len(s)
      /\ \A k \in 2 .. Len(s) : k \in 1 .. Len(s)
      /\ \A k \in 2 .. Len(t) : k \in 2 .. Len(s) \/ k = Len(s) + 1
  BY <1>1
<1>4. s \in Seq(Parsers) /\ \A k \in 1 .. Len(s) : s[k].path \in AnyPath
  <2>1. s \in Seq(Parsers)
    BY DEF Opens
  <2>2. \A k \in 1 .. Len(s) : s[k] \in Parsers
    BY <2>1
  <2> QED
    BY <2>1, <2>2 DEF Parsers
<1>5. x.path \in AnyPath /\ dir \in Layouts
  BY <1>2, <1>3, <1>4 DEF ProgramTyped
<1>6. y.path.hops = x.path.hops \/ Len(y.path.hops) = Len(x.path.hops) + 1
  BY <1>2, <1>5, ResolveTyped
<1>7. y.path \in Desc(imports, dir, x.path)
  <2>1. n \in Leads(imports, x.path)
    <3>1. n \in ToSet(imports[x.path.file])
      BY <1>2, <1>3 DEF CompleteInv
    <3> QED
      BY <1>2, <3>1 DEF Leads
  <2> QED
    BY <1>2, <1>5, <2>1, DescSelf, DescClosed DEF PathsClosed
<1>8. t[1].path = Path(<<>>, Root)
  BY <1>1, <1>3 DEF StackInv
<1>9. \A k \in 2 .. Len(t) : t[k].path \in LoadedIn(t)
  BY <1>1, <1>3 DEF StackInv
<1>10. \A j, k \in 2 .. Len(t) : t[j].path = t[k].path => j = k
  <2>1. \A j, k \in 2 .. Len(s) : s[j].path = s[k].path => j = k
    BY DEF StackInv
  <2>2. \A k \in 2 .. Len(s) : t[k].path \in LoadedIn(s) /\ t[k].path = s[k].path
    BY <1>1, <1>3 DEF StackInv
  <2> QED
    BY <1>1, <1>3, <2>1, <2>2
<1>11. \A k \in 1 .. Len(t) : t[k].declared => k = Len(t) /\ t[k].todo = <<>>
  <2>1. \A k \in 1 .. Len(s) : ~t[k].declared
    BY <1>1, <1>2 DEF StackInv
  <2> QED
    BY <1>1, <1>2, <2>1
<1>12. \A j, k \in 1 .. Len(t) : j <= k => Len(t[j].path.hops) <= Len(t[k].path.hops)
  <2>1. \A k \in 1 .. Len(s) : Len(s[k].path.hops) \in Nat
    <3>1. \A k \in 1 .. Len(s) : s[k].path.hops \in Seq(Places)
      BY <1>4 DEF AnyPath
    <3> QED
      BY <3>1
  <2>2. \A j, k \in 1 .. Len(s) : j <= k => Len(t[j].path.hops) <= Len(t[k].path.hops)
    BY <1>1 DEF StackInv
  <2>3. \A j \in 1 .. Len(s) : Len(t[j].path.hops) <= Len(x.path.hops)
    <3>1. \A j \in 1 .. Len(s) : j <= Len(s)
      BY <1>1
    <3> QED
      BY <1>2, <1>3, <2>2, <3>1
  <2>4. Len(x.path.hops) \in Nat /\ Len(x.path.hops) <= Len(y.path.hops)
    BY <1>2, <1>3, <1>6, <2>1
  <2>5. \A j \in 1 .. Len(s) : Len(t[j].path.hops) <= Len(y.path.hops)
    <3>1. \A j \in 1 .. Len(s) : Len(t[j].path.hops) \in Nat
      BY <1>1, <2>1
    <3>2. Len(y.path.hops) \in Nat
      BY <1>6, <2>4
    <3> SUFFICES ASSUME NEW j \in 1 .. Len(s)
                 PROVE  Len(t[j].path.hops) <= Len(y.path.hops)
      OBVIOUS
    <3> DEFINE a == Len(t[j].path.hops)
               b == Len(x.path.hops)
               c == Len(y.path.hops)
    <3>3. a \in Nat /\ b \in Nat /\ c \in Nat /\ a <= b /\ b <= c
      BY <2>3, <2>4, <3>1, <3>2
    <3> HIDE DEF a, b, c
    <3>4. a <= c
      BY <3>3
    <3> QED
      BY <3>4 DEF a, c
  <2>6. Len(y.path.hops) <= Len(y.path.hops)
    BY <1>6, <2>4
  <2>7. \A k \in 1 .. Len(s) : ~(Len(s) + 1 <= k)
    BY <1>1
  <2> QED
    BY <1>1, <2>2, <2>5, <2>6, <2>7
<1>13. \A j, k \in 1 .. Len(t) : k = j + 1 => t[k].path \in Desc(imports, dir, t[j].path)
  <2> SUFFICES ASSUME NEW j \in 1 .. Len(t), NEW k \in 1 .. Len(t), k = j + 1
               PROVE  t[k].path \in Desc(imports, dir, t[j].path)
    OBVIOUS
  <2>1. CASE k = Len(s) + 1
    <3>1. j = Len(s)
      BY <1>1, <2>1
    <3> QED
      BY <1>1, <1>2, <1>7, <2>1, <3>1
  <2>2. CASE k # Len(s) + 1
    <3>1. j \in 1 .. Len(s) /\ k \in 1 .. Len(s)
      BY <1>1, <2>2
    <3> QED
      BY <1>1, <3>1 DEF StackInv
  <2> QED
    BY <2>1, <2>2
<1>14. \A p \in LoadedIn(t) : Len(p.hops) <= MaxHops
  BY <1>1, <1>2 DEF StackInv
<1> QED
  BY <1>8, <1>9, <1>10, <1>11, <1>12, <1>13, <1>14 DEF StackInv

LEMMA OpenComplete ==
  ASSUME NEW s, NEW t, NEW x, NEW y, NEW n, Opens(s, t, x, y, n), CompleteInv(s)
  PROVE  CompleteInv(t)
<1>1. /\ Len(t) = Len(s) + 1 /\ Len(s) \in Nat \ {0}
      /\ LoadedIn(t) = LoadedIn(s) \cup {y.path}
      /\ \A k \in 1 .. Len(s) :
           /\ k \in 1 .. Len(t) /\ t[k].path = s[k].path /\ t[k].functions = s[k].functions
           /\ k # Len(s) => t[k] = s[k]
      /\ t[Len(s) + 1] = y
      /\ \A k \in 1 .. Len(t) : k \in 1 .. Len(s) \/ k = Len(s) + 1
      /\ \A p : OnStack(t, p) <=> OnStack(s, p) \/ p = y.path
      /\ \A p, m : Meets(s, p, m) => Meets(t, p, m)
  BY OpenKeeps
<1>2. /\ t[Len(s)] = x /\ x.path = s[Len(s)].path /\ ~x.declared /\ ~y.declared
      /\ y.path = Resolve(dir, x.path, n)
      /\ n \in Files /\ n \in ToSet(s[Len(s)].todo)
      /\ ToSet(x.todo) \subseteq ToSet(s[Len(s)].todo)
      /\ ToSet(s[Len(s)].todo) \subseteq ToSet(x.todo) \cup {n}
      /\ y.todo = imports[n]
  BY DEF Opens
<1>3. \A p : Finished(s, p) => Finished(t, p)
  <2>1. \A p : Collected(s, p) => Collected(t, p)
    BY <1>1 DEF Collected
  <2> QED
    BY <1>1, <2>1 DEF Finished
<1>4. \A p \in LoadedIn(t) : OnStack(t, p) \/ Finished(t, p)
  BY <1>1, <1>3 DEF CompleteInv
<1>5. Meets(t, x.path, n)
  BY <1>1, <1>2 DEF Meets
<1>6. y.path.file = n
  BY <1>2 DEF Resolve, Path
<1>7. ASSUME NEW k \in 1 .. Len(t)
      PROVE  /\ ToSet(t[k].todo) \subseteq ToSet(imports[t[k].path.file])
             /\ \A m \in ToSet(imports[t[k].path.file]) :
                  m \in ToSet(t[k].todo) \/ Meets(t, t[k].path, m)
             /\ t[k].declared => /\ Names(Own(t[k].path.file)) \subseteq Names(t[k].functions)
                                 /\ t[k].diagnostics <=> t[k].path.file \in broken
                                 /\ fault[t[k].path.file] = "none"
  <2>1. CASE k = Len(s) + 1
    BY <1>1, <1>2, <1>6, <2>1
  <2>2. ASSUME k \in 1 .. Len(s)
        PROVE /\ ToSet(s[k].todo) \subseteq ToSet(imports[s[k].path.file])
              /\ \A m \in ToSet(imports[s[k].path.file]) :
                   m \in ToSet(s[k].todo) \/ Meets(s, s[k].path, m)
              /\ s[k].declared => /\ Names(Own(s[k].path.file)) \subseteq Names(s[k].functions)
                                  /\ s[k].diagnostics <=> s[k].path.file \in broken
                                  /\ fault[s[k].path.file] = "none"
    BY <2>2 DEF CompleteInv
  <2>3. CASE k = Len(s)
    BY <1>1, <1>2, <1>5, <2>2, <2>3
  <2>4. CASE k \in 1 .. Len(s) /\ k # Len(s)
    BY <1>1, <2>2, <2>4
  <2> QED
    BY <1>1, <2>1, <2>3, <2>4
<1> QED
  BY <1>4, <1>7 DEF CompleteInv

LEMMA ReachableIs ==
  ASSUME ProgramTyped
  PROVE  /\ Root \in Reachable /\ Reachable \subseteq Imported
         /\ \A f \in Reachable \ {Missing} : f \in Files /\ ToSet(imports[f]) \subseteq Reachable
         /\ \A S \in SUBSET Imported : Root \in S /\ Closed(S) => Reachable \subseteq S
<1>1. Root \in Reachable
  BY LoaderAssumption DEF Reachable
<1>2. Reachable \subseteq Imported
  BY DEF Reachable, Imported
<1>3. ASSUME NEW f \in Reachable \ {Missing}, NEW n \in ToSet(imports[f])
      PROVE  f \in Files /\ n \in Reachable
  <2>1. f \in Files
    BY <1>2 DEF Imported
  <2>2. imports[f] \in Seq(Imported)
    BY <2>1, ProgramIs
  <2>3. n \in Imported
    BY <2>2 DEF ToSet
  <2>4. ASSUME NEW S \in SUBSET (Files \cup {Missing}), Root \in S, Closed(S)
        PROVE  n \in S
    <3>1. f \in S
      BY <2>4 DEF Reachable
    <3> QED
      BY <2>4, <3>1 DEF Closed
  <2> QED
    BY <2>1, <2>3, <2>4 DEF Reachable, Imported
<1>4. \A f \in Reachable \ {Missing} : f \in Files
  BY <1>2 DEF Imported
<1>5. \A S \in SUBSET Imported : Root \in S /\ Closed(S) => Reachable \subseteq S
  BY DEF Reachable, Imported
<1> QED
  BY <1>1, <1>2, <1>3, <1>4, <1>5

LEMMA OpenReach ==
  ASSUME ProgramTyped, NEW s, NEW t, NEW x, NEW y, NEW n, Opens(s, t, x, y, n),
         CompleteInv(s), ReachInv(s)
  PROVE  ReachInv(t)
<1>1. /\ Len(t) = Len(s) + 1 /\ Len(s) \in Nat \ {0}
      /\ LoadedIn(t) = LoadedIn(s) \cup {y.path}
      /\ \A k \in 1 .. Len(s) : t[k].path = s[k].path
      /\ t[Len(s) + 1] = y
      /\ \A k \in 1 .. Len(t) : k \in 1 .. Len(s) \/ k = Len(s) + 1
  BY OpenKeeps
<1>2. /\ x.path = s[Len(s)].path /\ Len(s) \in 1 .. Len(s)
      /\ y.path = Resolve(dir, x.path, n)
      /\ n \in Files /\ n \in ToSet(s[Len(s)].todo)
  BY <1>1 DEF Opens
<1>3. y.path.file = n /\ y.path.hops = IF dir[n] = dir[x.path.file] THEN x.path.hops
                                       ELSE Append(x.path.hops, dir[n])
  BY <1>2 DEF Resolve, Path
<1>4. x.path.file \in Reachable /\ n \in ToSet(imports[x.path.file])
  BY <1>2 DEF ReachInv, CompleteInv
<1>5. x.path.file \in Files
  <2>1. s[Len(s)] \in Parsers
    BY <1>2 DEF Opens
  <2> QED
    BY <1>2, <2>1 DEF Parsers, AnyPath
<1>6. x.path.file \in Reachable \ {Missing}
  BY <1>4, <1>5, LoaderAssumption
<1>7. n \in Reachable
  BY <1>4, <1>6, ReachableIs
<1>8. OneDirectory => y.path.hops = <<>>
  <2>1. OneDirectory => dir[n] = dir[x.path.file]
    BY <1>2, <1>5 DEF OneDirectory
  <2>2. OneDirectory => x.path.hops = <<>>
    BY <1>2 DEF ReachInv
  <2> QED
    BY <1>3, <2>1, <2>2
<1>9. \A k \in 1 .. Len(t) : t[k].path.file \in Reachable
  BY <1>1, <1>3, <1>7 DEF ReachInv
<1>10. \A p \in LoadedIn(t) : \E f \in Reachable \ {Missing} : p.file \in ToSet(imports[f])
  BY <1>1, <1>3, <1>4, <1>6 DEF ReachInv
<1>11. OneDirectory => /\ \A k \in 1 .. Len(t) : t[k].path.hops = <<>>
                       /\ \A p \in LoadedIn(t) : p.hops = <<>>
  BY <1>1, <1>8 DEF ReachInv
<1> QED
  BY <1>9, <1>10, <1>11 DEF ReachInv

LEMMA OpenOrigin ==
  ASSUME NEW s, NEW t, NEW x, NEW y, NEW n, Opens(s, t, x, y, n),
         StackInv(s), OriginInv(s)
  PROVE  OriginInv(t)
<1>1. /\ Len(t) = Len(s) + 1 /\ Len(s) \in Nat \ {0}
      /\ LoadedIn(t) = LoadedIn(s) \cup {y.path}
      /\ y.path \notin LoadedIn(s)
      /\ \A k \in 1 .. Len(s) :
           t[k].path = s[k].path /\ t[k].functions = s[k].functions
      /\ t[Len(s) + 1] = y
      /\ \A k \in 1 .. Len(t) : k \in 1 .. Len(s) \/ k = Len(s) + 1
      /\ \A p : OnStack(t, p) <=> OnStack(s, p) \/ p = y.path
  BY OpenKeeps
<1>2. ~s[Len(s)].declared /\ y.functions = <<>>
  BY DEF Opens
<1>3. \A k \in 1 .. Len(s) : ~s[k].declared
  BY <1>2 DEF StackInv
<1>4. \A k \in 1 .. Len(s) : \A f, r : ComesFrom(s, k, f, r) => ComesFrom(t, k, f, r)
  BY <1>1, <1>3 DEF ComesFrom
<1> SUFFICES ASSUME NEW k \in 1 .. Len(t), NEW i \in 1 .. Len(t[k].functions)
             PROVE  /\ t[k].functions[i].name \in ToSet(Defines[t[k].functions[i].file])
                    /\ \E r \in Desc(imports, dir, t[k].path) :
                         ComesFrom(t, k, t[k].functions[i].file, r)
  BY DEF OriginInv
<1>5. k \in 1 .. Len(s)
  <2>1. Len(<<>>) = 0 /\ 1 .. 0 = {}
    OBVIOUS
  <2> QED
    BY <1>1, <1>2, <2>1
<1>6. t[k].path = s[k].path /\ t[k].functions = s[k].functions
  BY <1>1, <1>5
<1> QED
  BY <1>4, <1>5, <1>6 DEF OriginInv

-----------------------------------------------------------------------------
(* The parser at work is done; the one before becomes x, with what it had. *)

Closes(s, t, x) ==
  /\ s \in Seq(Parsers) /\ Len(s) \in Nat /\ Len(s) > 1
  /\ t \in Seq(Parsers) /\ Len(t) = Len(s) - 1
  /\ \A k \in 1 .. Len(s) - 2 : t[k] = s[k]
  /\ t[Len(s) - 1] = x
  /\ s[Len(s)].declared
  /\ x.path = s[Len(s) - 1].path /\ x.todo = s[Len(s) - 1].todo
  /\ x.declared = s[Len(s) - 1].declared
  /\ x.functions = merge_into(s[Len(s)].functions, s[Len(s) - 1].functions)
  /\ x.loaded = s[Len(s)].loaded

LEMMA CloseKeeps ==
  ASSUME NEW s, NEW t, NEW x, Closes(s, t, x)
  PROVE  /\ Len(t) = Len(s) - 1 /\ Len(s) \in Nat /\ Len(s) > 1
         /\ Len(s) - 1 \in 1 .. Len(t) /\ Len(s) \in 1 .. Len(s)
         /\ LoadedIn(t) = LoadedIn(s)
         /\ \A k \in 1 .. Len(t) :
              /\ k \in 1 .. Len(s) /\ k # Len(s)
              /\ t[k].path = s[k].path /\ t[k].todo = s[k].todo
              /\ t[k].declared = s[k].declared
              /\ k # Len(s) - 1 => t[k] = s[k]
         /\ t[Len(s) - 1] = x
         /\ \A k \in 1 .. Len(s) : k \in 1 .. Len(t) \/ k = Len(s)
         /\ \A p, m : Meets(s, p, m) <=> Meets(t, p, m)
         /\ x.functions = merge_into(s[Len(s)].functions, s[Len(s) - 1].functions)
<1>1. /\ Len(t) = Len(s) - 1 /\ Len(s) \in Nat /\ Len(s) > 1 /\ t[Len(s) - 1] = x
      /\ x.functions = merge_into(s[Len(s)].functions, s[Len(s) - 1].functions)
  BY DEF Closes
<1>2. Len(s) - 1 \in 1 .. Len(t) /\ Len(s) \in 1 .. Len(s)
  BY <1>1
<1>3. LoadedIn(t) = LoadedIn(s)
  BY <1>1 DEF Closes, LoadedIn
<1>4. ASSUME NEW k \in 1 .. Len(t)
      PROVE  /\ k \in 1 .. Len(s) /\ k # Len(s)
             /\ t[k].path = s[k].path /\ t[k].todo = s[k].todo
             /\ t[k].declared = s[k].declared
             /\ k # Len(s) - 1 => t[k] = s[k]
  <2>0. k \in 1 .. Len(s) /\ k # Len(s)
    BY <1>1
  <2>1. CASE k = Len(s) - 1
    BY <2>0, <2>1 DEF Closes
  <2>2. CASE k # Len(s) - 1
    <3>1. k \in 1 .. Len(s) - 2
      BY <1>1, <2>2
    <3>2. t[k] = s[k]
      BY <3>1 DEF Closes
    <3> QED
      BY <2>0, <3>2
  <2> QED
    BY <2>1, <2>2
<1>5. \A k \in 1 .. Len(s) : k \in 1 .. Len(t) \/ k = Len(s)
  BY <1>1
<1>6. \A p, m : Meets(s, p, m) <=> Meets(t, p, m)
  BY <1>3 DEF Meets
<1> QED
  BY <1>1, <1>2, <1>3, <1>4, <1>5, <1>6

LEMMA CloseStack ==
  ASSUME NEW s, NEW t, NEW x, Closes(s, t, x), StackInv(s)
  PROVE  StackInv(t)
<1>1. /\ Len(t) = Len(s) - 1 /\ Len(s) \in Nat /\ Len(s) > 1
      /\ LoadedIn(t) = LoadedIn(s)
      /\ \A k \in 1 .. Len(t) :
           /\ k \in 1 .. Len(s) /\ k # Len(s)
           /\ t[k].path = s[k].path /\ t[k].todo = s[k].todo
           /\ t[k].declared = s[k].declared
  BY CloseKeeps
<1>2. /\ 1 \in 1 .. Len(t)
      /\ \A k \in 2 .. Len(t) : k \in 1 .. Len(t) /\ k \in 2 .. Len(s)
  BY <1>1
<1>3. t[1].path = Path(<<>>, Root)
  BY <1>1, <1>2 DEF StackInv
<1>4. \A k \in 2 .. Len(t) : t[k].path \in LoadedIn(t)
  BY <1>1, <1>2 DEF StackInv
<1>5. \A j, k \in 2 .. Len(t) : t[j].path = t[k].path => j = k
  BY <1>1, <1>2 DEF StackInv
<1>6. \A k \in 1 .. Len(t) : t[k].declared => k = Len(t) /\ t[k].todo = <<>>
  BY <1>1 DEF StackInv
<1>7. \A j, k \in 1 .. Len(t) : j <= k => Len(t[j].path.hops) <= Len(t[k].path.hops)
  BY <1>1 DEF StackInv
<1>8. \A j, k \in 1 .. Len(t) : k = j + 1 => t[k].path \in Desc(imports, dir, t[j].path)
  BY <1>1 DEF StackInv
<1>9. \A p \in LoadedIn(t) : Len(p.hops) <= MaxHops
  BY <1>1 DEF StackInv
<1> QED
  BY <1>3, <1>4, <1>5, <1>6, <1>7, <1>8, <1>9 DEF StackInv

LEMMA CloseNames ==
  ASSUME NEW s, NEW t, NEW x, Closes(s, t, x)
  PROVE  /\ \A p : Collected(s, p) => Collected(t, p)
         /\ Names(s[Len(s)].functions) \subseteq Names(x.functions)
         /\ \A i \in 1 .. Len(x.functions) :
              \/ \E j \in 1 .. Len(s[Len(s) - 1].functions) :
                   x.functions[i] = s[Len(s) - 1].functions[j]
              \/ \E j \in 1 .. Len(s[Len(s)].functions) :
                   x.functions[i] = s[Len(s)].functions[j]
<1>1. /\ Len(t) = Len(s) - 1 /\ Len(s) \in Nat /\ Len(s) > 1
      /\ Len(s) - 1 \in 1 .. Len(t) /\ Len(s) \in 1 .. Len(s)
      /\ \A k \in 1 .. Len(t) : k \in 1 .. Len(s) /\ (k # Len(s) - 1 => t[k] = s[k])
      /\ t[Len(s) - 1] = x
      /\ \A k \in 1 .. Len(s) : k \in 1 .. Len(t) \/ k = Len(s)
      /\ x.functions = merge_into(s[Len(s)].functions, s[Len(s) - 1].functions)
  BY CloseKeeps
<1>2. s[Len(s)] \in Parsers /\ s[Len(s) - 1] \in Parsers
  BY <1>1 DEF Closes
<1>3. s[Len(s)].functions \in Seq(Functions) /\ s[Len(s) - 1].functions \in Seq(Functions)
  BY <1>2 DEF Parsers
<1>4. /\ Names(x.functions)
           = Names(s[Len(s)].functions) \cup Names(s[Len(s) - 1].functions)
      /\ \A i \in 1 .. Len(x.functions) :
           \/ \E j \in 1 .. Len(s[Len(s) - 1].functions) :
                x.functions[i] = s[Len(s) - 1].functions[j]
           \/ \E j \in 1 .. Len(s[Len(s)].functions) :
                x.functions[i] = s[Len(s)].functions[j]
  <2> DEFINE fs == s[Len(s)].functions
             ts == s[Len(s) - 1].functions
             m  == x.functions
  <2>1. fs \in Seq(Functions) /\ ts \in Seq(Functions) /\ m = merge_into(fs, ts)
    BY <1>1, <1>3
  <2> HIDE DEF fs, ts, m
  <2>2. /\ Names(m) = Names(fs) \cup Names(ts)
        /\ \A i \in 1 .. Len(m) : \/ \E j \in 1 .. Len(ts) : m[i] = ts[j]
                                  \/ \E j \in 1 .. Len(fs) : m[i] = fs[j]
    BY <2>1, MergeIs
  <2> QED
    BY <2>2 DEF fs, ts, m
<1>5. ASSUME NEW p, Collected(s, p) PROVE Collected(t, p)
  <2>1. PICK k \in 1 .. Len(s) : /\ fault[p.file] = "none"
                                 /\ Names(Own(p.file)) \subseteq Names(s[k].functions)
    BY <1>5 DEF Collected
  <2>2. CASE k \in 1 .. Len(t) /\ k # Len(s) - 1
    BY <1>1, <2>1, <2>2 DEF Collected
  <2>3. CASE k = Len(s) - 1 \/ k = Len(s)
    <3>1. Names(Own(p.file)) \subseteq Names(t[Len(s) - 1].functions)
      BY <1>1, <1>4, <2>1, <2>3
    <3> QED
      BY <1>1, <2>1, <3>1 DEF Collected
  <2> QED
    BY <1>1, <2>2, <2>3
<1> QED
  BY <1>4, <1>5

LEMMA CloseComplete ==
  ASSUME NEW s, NEW t, NEW x, Closes(s, t, x), StackInv(s), CompleteInv(s)
  PROVE  CompleteInv(t)
<1>1. /\ Len(t) = Len(s) - 1 /\ Len(s) \in Nat /\ Len(s) > 1
      /\ Len(s) - 1 \in 1 .. Len(t) /\ Len(s) \in 1 .. Len(s)
      /\ LoadedIn(t) = LoadedIn(s)
      /\ \A k \in 1 .. Len(t) :
           /\ k \in 1 .. Len(s) /\ k # Len(s)
           /\ t[k].path = s[k].path /\ t[k].todo = s[k].todo
           /\ t[k].declared = s[k].declared
      /\ t[Len(s) - 1] = x
      /\ \A p, m : Meets(s, p, m) <=> Meets(t, p, m)
  BY CloseKeeps
<1>2. /\ \A p : Collected(s, p) => Collected(t, p)
      /\ Names(s[Len(s)].functions) \subseteq Names(x.functions)
  BY CloseNames
<1>3. s[Len(s)].declared /\ s[Len(s)].todo = <<>>
  BY <1>1 DEF Closes, StackInv
<1>4. \A k \in 1 .. Len(t) : ~t[k].declared
  BY <1>1 DEF StackInv
<1>5. Finished(t, s[Len(s)].path)
  <2>1. ToSet(<<>>) = {}
    BY DEF ToSet
  <2>2. \A n \in ToSet(imports[s[Len(s)].path.file]) : Meets(s, s[Len(s)].path, n)
    BY <1>1, <1>3, <2>1 DEF CompleteInv
  <2>3. /\ Names(Own(s[Len(s)].path.file)) \subseteq Names(s[Len(s)].functions)
        /\ fault[s[Len(s)].path.file] = "none"
    BY <1>1, <1>3 DEF CompleteInv
  <2>4. Names(Own(s[Len(s)].path.file)) \subseteq Names(t[Len(s) - 1].functions)
    BY <1>1, <1>2, <2>3
  <2>5. Collected(t, s[Len(s)].path)
    BY <1>1, <2>3, <2>4 DEF Collected
  <2> QED
    BY <1>1, <2>2, <2>5 DEF Finished
<1>6. \A p : Finished(s, p) => Finished(t, p)
  BY <1>1, <1>2 DEF Finished
<1>7. \A p : OnStack(s, p) => OnStack(t, p) \/ p = s[Len(s)].path
  <2> SUFFICES ASSUME NEW p, OnStack(s, p), p # s[Len(s)].path PROVE OnStack(t, p)
    OBVIOUS
  <2>1. PICK k \in 2 .. Len(s) : s[k].path = p
    BY DEF OnStack
  <2>2. k \in 2 .. Len(t) /\ k \in 1 .. Len(t)
    BY <1>1, <2>1
  <2> QED
    BY <1>1, <2>1, <2>2 DEF OnStack
<1>8. \A p \in LoadedIn(t) : OnStack(t, p) \/ Finished(t, p)
  BY <1>1, <1>5, <1>6, <1>7 DEF CompleteInv
<1>9. \A k \in 1 .. Len(t) :
        /\ ToSet(t[k].todo) \subseteq ToSet(imports[t[k].path.file])
        /\ \A n \in ToSet(imports[t[k].path.file]) :
             n \in ToSet(t[k].todo) \/ Meets(t, t[k].path, n)
  BY <1>1 DEF CompleteInv
<1> QED
  BY <1>4, <1>8, <1>9 DEF CompleteInv

LEMMA CloseReach ==
  ASSUME NEW s, NEW t, NEW x, Closes(s, t, x), ReachInv(s)
  PROVE  ReachInv(t)
<1>1. /\ LoadedIn(t) = LoadedIn(s)
      /\ \A k \in 1 .. Len(t) : k \in 1 .. Len(s) /\ t[k].path = s[k].path
  BY CloseKeeps
<1> QED
  BY <1>1 DEF ReachInv

LEMMA CloseOrigin ==
  ASSUME ProgramTyped, NEW s, NEW t, NEW x, Closes(s, t, x), StackInv(s), OriginInv(s)
  PROVE  OriginInv(t)
<1>1. /\ Len(t) = Len(s) - 1 /\ Len(s) \in Nat /\ Len(s) > 1
      /\ Len(s) - 1 \in 1 .. Len(t) /\ Len(s) \in 1 .. Len(s)
      /\ LoadedIn(t) = LoadedIn(s)
      /\ \A k \in 1 .. Len(t) :
           /\ k \in 1 .. Len(s) /\ k # Len(s)
           /\ t[k].path = s[k].path
           /\ t[k].declared = s[k].declared
           /\ k # Len(s) - 1 => t[k] = s[k]
      /\ t[Len(s) - 1] = x
  BY CloseKeeps
<1>2. \A p : OnStack(t, p) => OnStack(s, p)
  <2> SUFFICES ASSUME NEW p, OnStack(t, p) PROVE OnStack(s, p)
    OBVIOUS
  <2>1. PICK k \in 2 .. Len(t) : t[k].path = p
    BY DEF OnStack
  <2>2. k \in 2 .. Len(s) /\ k \in 1 .. Len(t)
    BY <1>1
  <2> QED
    BY <1>1, <2>1, <2>2 DEF OnStack
<1>3. \A k \in 1 .. Len(t) : \A f, r : ComesFrom(s, k, f, r) => ComesFrom(t, k, f, r)
  BY <1>1, <1>2 DEF ComesFrom
<1>4. s[Len(s)].path \in LoadedIn(t) /\ ~OnStack(t, s[Len(s)].path)
  <2>1. Len(s) \in 2 .. Len(s)
    BY <1>1
  <2>2. s[Len(s)].path \in LoadedIn(t)
    BY <1>1, <2>1 DEF StackInv
  <2>3. ASSUME NEW k \in 2 .. Len(t) PROVE t[k].path # s[Len(s)].path
    <3>1. k \in 2 .. Len(s) /\ k # Len(s) /\ k \in 1 .. Len(t)
      BY <1>1
    <3>2. s[k].path # s[Len(s)].path
      BY <2>1, <3>1 DEF StackInv
    <3> QED
      BY <1>1, <3>1, <3>2
  <2> QED
    BY <2>2, <2>3 DEF OnStack
<1>5. \A f, r : ComesFrom(s, Len(s), f, r) => ComesFrom(t, Len(s) - 1, f, r)
  BY <1>1, <1>2, <1>4 DEF ComesFrom
<1>6. Desc(imports, dir, s[Len(s)].path) \subseteq Desc(imports, dir, x.path)
  <2>1. Len(s) - 1 \in 1 .. Len(s) /\ Len(s) = (Len(s) - 1) + 1
    BY <1>1
  <2>2. s[Len(s)].path \in Desc(imports, dir, s[Len(s) - 1].path)
    BY <1>1, <2>1 DEF StackInv
  <2>3. x.path = s[Len(s) - 1].path
    BY <1>1
  <2> QED
    BY <2>2, <2>3, DescTransitive DEF ProgramTyped
<1> SUFFICES ASSUME NEW k \in 1 .. Len(t), NEW i \in 1 .. Len(t[k].functions)
             PROVE  /\ t[k].functions[i].name \in ToSet(Defines[t[k].functions[i].file])
                    /\ \E r \in Desc(imports, dir, t[k].path) :
                         ComesFrom(t, k, t[k].functions[i].file, r)
  BY DEF OriginInv
<1>7. ASSUME NEW j \in 1 .. Len(s[k].functions), t[k].functions[i] = s[k].functions[j]
      PROVE  /\ t[k].functions[i].name \in ToSet(Defines[t[k].functions[i].file])
             /\ \E r \in Desc(imports, dir, t[k].path) :
                  ComesFrom(t, k, t[k].functions[i].file, r)
  BY <1>1, <1>3, <1>7 DEF OriginInv
<1>8. CASE k # Len(s) - 1
  BY <1>1, <1>7, <1>8
<1>9. ASSUME k = Len(s) - 1, NEW j \in 1 .. Len(s[Len(s)].functions),
             x.functions[i] = s[Len(s)].functions[j]
      PROVE  /\ t[k].functions[i].name \in ToSet(Defines[t[k].functions[i].file])
             /\ \E r \in Desc(imports, dir, t[k].path) :
                  ComesFrom(t, k, t[k].functions[i].file, r)
  <2>1. /\ s[Len(s)].functions[j].name \in ToSet(Defines[s[Len(s)].functions[j].file])
        /\ \E r \in Desc(imports, dir, s[Len(s)].path) :
             ComesFrom(s, Len(s), s[Len(s)].functions[j].file, r)
    BY <1>1, <1>9 DEF OriginInv
  <2>2. t[k] = x
    BY <1>1, <1>9
  <2> QED
    BY <1>5, <1>6, <1>9, <2>1, <2>2
<1>10. CASE k = Len(s) - 1
  <2>1. t[k] = x
    BY <1>1, <1>10
  <2>2. \/ \E j \in 1 .. Len(s[Len(s) - 1].functions) :
             x.functions[i] = s[Len(s) - 1].functions[j]
        \/ \E j \in 1 .. Len(s[Len(s)].functions) :
             x.functions[i] = s[Len(s)].functions[j]
    BY <2>1, CloseNames
  <2>3. CASE \E j \in 1 .. Len(s[Len(s) - 1].functions) :
               x.functions[i] = s[Len(s) - 1].functions[j]
    BY <1>7, <1>10, <2>1, <2>3
  <2>4. CASE \E j \in 1 .. Len(s[Len(s)].functions) :
               x.functions[i] = s[Len(s)].functions[j]
    BY <1>9, <1>10, <2>4
  <2> QED
    BY <2>2, <2>3, <2>4
<1> QED
  BY <1>8, <1>10

-----------------------------------------------------------------------------
(* A module has not come in before its own declarations are read.  If it   *)
(* had, under a longer path, that path would lead to it under a longer one *)
(* yet, and there is no end to that; under the same path it is at work.    *)

LEMMA FilePaths ==
  ASSUME NEW p \in AnyPath, NEW r \in AnyPath, p.file = r.file, p.hops = r.hops
  PROVE  p = r
  BY DEF AnyPath

LEMMA NotOwnYet ==
  ASSUME ProgramTyped, NEW s \in Seq(Parsers), Len(s) \in Nat \ {0},
         StackInv(s), CompleteInv(s), OriginInv(s), ~s[Len(s)].declared,
         NEW i \in 1 .. Len(s[Len(s)].functions),
         s[Len(s)].functions[i].file = s[Len(s)].path.file
  PROVE  Len(s) = 1 /\ \E p \in LoadedIn(s) : p.file = Root
<1> DEFINE D == Len(s)
           q == s[D].path
<1>0. D \in 1 .. D /\ D \in Nat \ {0} /\ s[D] \in Parsers
  OBVIOUS
<1>1. q \in AnyPath /\ LoadedIn(s) \subseteq AnyPath
  BY <1>0 DEF Parsers, LoadedIn
<1>2. PICK r \in Desc(imports, dir, q) : ComesFrom(s, D, q.file, r)
  BY <1>0 DEF OriginInv
<1>3. r \in AnyPath /\ r \in LoadedIn(s) /\ ~OnStack(s, r) /\ r.file = q.file
  BY <1>2, DescTyped DEF ComesFrom
<1>4. CASE D = 1
  <2>1. r.file = Root
    BY <1>3, <1>4 DEF StackInv, Path
  <2> QED
    BY <1>3, <1>4, <2>1
<1>5. CASE D # 1
  <2>0. dir \in Layouts
    BY DEF ProgramTyped
  <2>1. D \in 2 .. D
    <3> HIDE DEF D
    <3> QED
      BY <1>0, <1>5
  <2>2. OnStack(s, q)
    BY <2>1 DEF OnStack
  <2>3. r # q
    BY <1>3, <2>2
  <2>4. Len(r.hops) > Len(q.hops)
    BY <1>1, <1>2, <1>3, <2>0, <2>3, DescLonger, FilePaths
  <2>5. \A x \in AnyPath : Len(x.hops) \in Nat
    <3>1. \A x \in AnyPath : x.hops \in Seq(Places)
      BY DEF AnyPath
    <3> QED
      BY <3>1
  <2>6. \A x : OnStack(s, x) => Len(x.hops) <= Len(q.hops)
    <3> SUFFICES ASSUME NEW x, OnStack(s, x) PROVE Len(x.hops) <= Len(q.hops)
      OBVIOUS
    <3>1. PICK k \in 2 .. D : s[k].path = x
      BY DEF OnStack
    <3>2. k \in 1 .. D /\ k <= D
      BY <1>0, <3>1
    <3> QED
      BY <1>0, <3>1, <3>2 DEF StackInv
  <2> HIDE DEF D, q
  <2> DEFINE X == {x \in Desc(imports, dir, r) :
                     x \in LoadedIn(s) /\ Len(x.hops) > Len(q.hops)}
  <2>7. r \in X /\ X \in SUBSET AnyPath
    BY <1>1, <1>3, <2>4, DescSelf
  <2>8. ASSUME NEW x \in X, NEW n \in Leads(imports, x)
        PROVE  Resolve(dir, x, n) \in X
    <3>1. x \in AnyPath /\ n \in Files /\ n \in ToSet(imports[x.file])
      BY <2>7 DEF Leads
    <3>2. ~OnStack(s, x)
      <4>1. Len(x.hops) \in Nat /\ Len(q.hops) \in Nat /\ Len(x.hops) > Len(q.hops)
        BY <1>1, <2>5, <3>1
      <4>2. ~(Len(x.hops) <= Len(q.hops))
        BY <4>1
      <4> QED
        BY <2>6, <4>2
    <3>3. Resolve(dir, x, n) \in LoadedIn(s)
      BY <3>1, <3>2 DEF CompleteInv, Finished, Meets
    <3>4. Resolve(dir, x, n) \in Desc(imports, dir, r)
      BY <2>0, DescClosed DEF PathsClosed
    <3>5. \/ Resolve(dir, x, n).hops = x.hops
          \/ Len(Resolve(dir, x, n).hops) = Len(x.hops) + 1
      BY <2>0, <3>1, ResolveTyped
    <3>6. Len(Resolve(dir, x, n).hops) > Len(q.hops)
      BY <1>1, <2>5, <3>1, <3>5
    <3> QED
      BY <3>3, <3>4, <3>6
  <2>9. Desc(imports, dir, r) \subseteq X
    <3>1. PathsClosed(imports, dir, X)
      BY <2>8 DEF PathsClosed
    <3> HIDE DEF X
    <3> QED
      BY <2>7, <3>1, DescLeast
  <2>10. \A x \in Desc(imports, dir, r) : x \in AnyPath /\ Len(x.hops) \in 0 .. MaxHops
    <3>1. \A x \in Desc(imports, dir, r) : x \in LoadedIn(s)
      BY <2>9
    <3>2. \A x \in LoadedIn(s) : Len(x.hops) <= MaxHops
      BY DEF StackInv
    <3>3. MaxHops \in Nat
      BY LoaderAssumption
    <3> QED
      BY <1>1, <2>5, <3>1, <3>2, <3>3
  <2> HIDE DEF X
  <2> DEFINE Same == {x \in Desc(imports, dir, r) : x.file = q.file}
             T    == {Len(x.hops) : x \in Same}
  <2>11. T \subseteq 0 .. MaxHops /\ Len(r.hops) \in T
    <3>1. r \in Same
      BY <1>3, DescSelf
    <3> QED
      BY <2>10, <3>1
  <2>12. PICK l \in T : \A m \in T : m <= l
    <3>1. MaxHops \in Nat
      BY LoaderAssumption
    <3> HIDE DEF T
    <3> QED
      BY <2>11, <3>1, GreatestExists
  <2>13. PICK x \in Same : Len(x.hops) = l
    BY <2>12
  <2>14. x \in AnyPath /\ x.file = q.file /\ x \in Desc(imports, dir, r)
    BY <2>10
  <2> HIDE DEF Same, T
  <2>15. PICK y \in Desc(imports, dir, x) : Shifted(y, x, r, q)
    BY <1>1, <1>2, <2>0, <2>14, DescShifts
  <2>16. y \in Desc(imports, dir, r)
    BY <2>0, <2>14, DescTransitive
  <2>17. Len(y.hops) \in T
    BY <1>3, <2>15, <2>16 DEF Same, T, Shifted
  <2>18. Len(y.hops) <= Len(x.hops)
    BY <2>12, <2>13, <2>17
  <2> DEFINE a == Len(y.hops)
             b == Len(x.hops)
             c == Len(r.hops)
             e == Len(q.hops)
  <2>19. /\ a \in Nat /\ b \in Nat /\ c \in Nat /\ e \in Nat
         /\ a <= b /\ c > e /\ a - b = c - e
    BY <1>1, <1>3, <2>4, <2>5, <2>10, <2>14, <2>15, <2>16, <2>18 DEF Shifted
  <2> HIDE DEF a, b, c, e
  <2>20. FALSE
    BY <2>19
  <2> QED
    BY <2>20
<1> QED
  BY <1>4, <1>5

-----------------------------------------------------------------------------
(* No parser has a name twice, but for main and, when a module imports the *)
(* file given to the compiler, the names of that file.                     *)

RootTwice(fs) ==
  /\ RootIsImported
  /\ \A i, j \in 1 .. Len(fs) :
       fs[i].name = fs[j].name /\ fs[i].name # "main" =>
         i = j \/ fs[i].name \in ToSet(Defines[Root])

SingleInv(ps) ==
  \A k \in 1 .. Len(ps) :
    \/ NamedOnce(ps[k].functions)
    \/ k = 1 /\ ps[k].declared /\ RootTwice(ps[k].functions)

LEMMA TopSingle ==
  ASSUME NEW s, NEW t, NEW x, TopBecomes(s, t, x), SingleInv(s),
         x.functions = s[Len(s)].functions, x.declared = s[Len(s)].declared
  PROVE  SingleInv(t)
<1>1. /\ Len(t) = Len(s) /\ Len(s) \in Nat \ {0}
      /\ \A k \in 1 .. Len(s) : k # Len(s) => t[k] = s[k]
  BY TopKeeps
<1>2. t[Len(s)] = x
  BY DEF TopBecomes
<1>3. \A k \in 1 .. Len(s) : t[k].functions = s[k].functions /\ t[k].declared = s[k].declared
  BY <1>1, <1>2
<1> QED
  BY <1>1, <1>3 DEF SingleInv

LEMMA OpenSingle ==
  ASSUME NEW s, NEW t, NEW x, NEW y, NEW n, Opens(s, t, x, y, n), SingleInv(s), StackInv(s)
  PROVE  SingleInv(t)
<1>1. /\ Len(t) = Len(s) + 1
      /\ \A k \in 1 .. Len(s) : t[k].functions = s[k].functions
      /\ t[Len(s) + 1] = y
      /\ \A k \in 1 .. Len(t) : k \in 1 .. Len(s) \/ k = Len(s) + 1
  BY OpenKeeps
<1>2. ~s[Len(s)].declared /\ y.functions = <<>>
  BY DEF Opens
<1>3. \A k \in 1 .. Len(s) : ~s[k].declared
  BY <1>2 DEF StackInv
<1>4. NamedOnce(<<>>)
  BY DEF NamedOnce
<1>5. \A k \in 1 .. Len(t) : NamedOnce(t[k].functions)
  BY <1>1, <1>2, <1>3, <1>4 DEF SingleInv
<1> QED
  BY <1>5 DEF SingleInv

LEMMA CloseSingle ==
  ASSUME NEW s, NEW t, NEW x, Closes(s, t, x), SingleInv(s), StackInv(s)
  PROVE  SingleInv(t)
<1>1. /\ Len(t) = Len(s) - 1 /\ Len(s) \in Nat /\ Len(s) > 1
      /\ Len(s) - 1 \in 1 .. Len(t) /\ Len(s) \in 1 .. Len(s)
      /\ \A k \in 1 .. Len(t) : k \in 1 .. Len(s) /\ k # Len(s) /\ (k # Len(s) - 1 => t[k] = s[k])
      /\ t[Len(s) - 1] = x
      /\ x.functions = merge_into(s[Len(s)].functions, s[Len(s) - 1].functions)
  BY CloseKeeps
<1>2. \A k \in 1 .. Len(t) : ~s[k].declared /\ NamedOnce(s[k].functions)
  BY <1>1 DEF StackInv, SingleInv
<1>3. NamedOnce(x.functions)
  <2>1. s[Len(s)] \in Parsers /\ s[Len(s) - 1] \in Parsers
    BY <1>1 DEF Closes
  <2> DEFINE fs == s[Len(s)].functions
             ts == s[Len(s) - 1].functions
             m  == x.functions
  <2>2. fs \in Seq(Functions) /\ ts \in Seq(Functions) /\ m = merge_into(fs, ts)
    BY <1>1, <2>1 DEF Parsers
  <2>3. NamedOnce(ts)
    BY <1>1, <1>2
  <2> HIDE DEF fs, ts, m
  <2>4. NamedOnce(m)
    BY <2>2, <2>3, MergeIs
  <2> QED
    BY <2>4 DEF m
<1>4. \A k \in 1 .. Len(t) : NamedOnce(t[k].functions)
  BY <1>1, <1>2, <1>3
<1> QED
  BY <1>4 DEF SingleInv

(* The parser at work reads its declarations. *)
LEMMA DeclareSingle ==
  ASSUME ProgramTyped, DistinctDefines, NEW s, NEW t, NEW x, TopBecomes(s, t, x),
         StackInv(s), CompleteInv(s), ReachInv(s), OriginInv(s), SingleInv(s),
         ~s[Len(s)].declared, x.declared,
         x.functions = s[Len(s)].functions \o Own(s[Len(s)].path.file)
  PROVE  SingleInv(t)
<1>1. /\ Len(t) = Len(s) /\ Len(s) \in Nat \ {0}
      /\ \A k \in 1 .. Len(s) : k # Len(s) => t[k] = s[k]
  BY TopKeeps
<1>2. t[Len(s)] = x /\ s \in Seq(Parsers) /\ Len(s) \in 1 .. Len(s)
  BY <1>1 DEF TopBecomes
<1> DEFINE fs  == s[Len(s)].functions
           f   == s[Len(s)].path.file
           own == Own(f)
           m   == x.functions
<1>3. s[Len(s)] \in Parsers
  BY <1>2
<1>4. fs \in Seq(Functions) /\ f \in Files
  BY <1>3 DEF Parsers, AnyPath
<1>5. NamedOnce(fs)
  BY <1>2 DEF SingleInv
<1>6. /\ own \in Seq(Functions) /\ NamedOnce(own)
      /\ \A i \in 1 .. Len(own) : own[i].name \in ToSet(Defines[f])
  BY <1>4, OwnIs
<1>7. \A i \in 1 .. Len(fs) : fs[i].name \in ToSet(Defines[fs[i].file])
  BY <1>2 DEF OriginInv
<1>8. \A i \in 1 .. Len(fs) : fs[i] \in Functions /\ fs[i].file \in Files
  <2>1. \A i \in 1 .. Len(fs) : fs[i] \in Functions
    BY <1>4
  <2> QED
    BY <2>1 DEF Functions
<1>9. \A i \in 1 .. Len(fs) :
        fs[i].file = f => Len(s) = 1 /\ \E p \in LoadedIn(s) : p.file = Root
  BY <1>1, <1>2, NotOwnYet
<1>10. (\E p \in LoadedIn(s) : p.file = Root) => RootIsImported
  BY DEF ReachInv, RootIsImported
<1>11. Len(s) = 1 => f = Root
  BY DEF StackInv, Path
<1>12. m = fs \o own
  OBVIOUS
<1> HIDE DEF fs, f, own, m
<1>13. \A i \in 1 .. Len(fs), j \in 1 .. Len(own) :
         fs[i].name = own[j].name /\ fs[i].name # "main" => fs[i].file = f
  BY <1>4, <1>6, <1>7, <1>8 DEF DistinctDefines, ToSet
<1>14. /\ Len(m) = Len(fs) + Len(own) /\ Len(fs) \in Nat /\ Len(own) \in Nat
       /\ \A i \in 1 .. Len(fs) + Len(own) :
            m[i] = IF i <= Len(fs) THEN fs[i] ELSE own[i - Len(fs)]
  BY <1>4, <1>6, <1>12, ConcatProperties
<1>15. \A i \in 1 .. Len(m) :
         \/ i \in 1 .. Len(fs) /\ m[i] = fs[i]
         \/ i - Len(fs) \in 1 .. Len(own) /\ m[i] = own[i - Len(fs)]
  <2> SUFFICES ASSUME NEW i \in 1 .. Len(m)
               PROVE  \/ i \in 1 .. Len(fs) /\ m[i] = fs[i]
                      \/ i - Len(fs) \in 1 .. Len(own) /\ m[i] = own[i - Len(fs)]
    OBVIOUS
  <2>1. CASE i <= Len(fs)
    BY <1>14, <2>1
  <2>2. CASE ~(i <= Len(fs))
    <3>1. i - Len(fs) \in 1 .. Len(own)
      BY <1>14, <2>2
    <3>2. m[i] = own[i - Len(fs)]
      BY <1>14, <2>2
    <3> QED
      BY <3>1, <3>2
  <2> QED
    BY <2>1, <2>2
<1>16. ASSUME NEW i \in 1 .. Len(m), NEW j \in 1 .. Len(m), m[i].name = m[j].name, i # j,
              m[i].name # "main"
       PROVE  Len(s) = 1 /\ RootIsImported /\ m[i].name \in ToSet(Defines[Root])
  <2>1. ASSUME NEW k \in 1 .. Len(fs), NEW l \in 1 .. Len(own),
               fs[k].name = own[l].name, m[i].name = own[l].name
        PROVE  Len(s) = 1 /\ RootIsImported /\ m[i].name \in ToSet(Defines[Root])
    BY <1>6, <1>9, <1>10, <1>11, <1>13, <1>16, <2>1
  <2>2. CASE i \in 1 .. Len(fs) /\ m[i] = fs[i] /\ j \in 1 .. Len(fs) /\ m[j] = fs[j]
    BY <1>5, <1>16, <2>2 DEF NamedOnce
  <2>3. CASE /\ i - Len(fs) \in 1 .. Len(own) /\ m[i] = own[i - Len(fs)]
             /\ j - Len(fs) \in 1 .. Len(own) /\ m[j] = own[j - Len(fs)]
    <3>1. i - Len(fs) = j - Len(fs)
      BY <1>6, <1>16, <2>3 DEF NamedOnce
    <3>2. i = j
      BY <1>14, <3>1
    <3> QED
      BY <1>16, <3>2
  <2>4. CASE /\ i \in 1 .. Len(fs) /\ m[i] = fs[i]
             /\ j - Len(fs) \in 1 .. Len(own) /\ m[j] = own[j - Len(fs)]
    BY <1>16, <2>1, <2>4
  <2>5. CASE /\ j \in 1 .. Len(fs) /\ m[j] = fs[j]
             /\ i - Len(fs) \in 1 .. Len(own) /\ m[i] = own[i - Len(fs)]
    BY <1>16, <2>1, <2>5
  <2> QED
    BY <1>15, <2>2, <2>3, <2>4, <2>5
<1>17. NamedOnce(m) \/ (Len(s) = 1 /\ RootTwice(m))
  <2>1. SUFFICES ASSUME ~NamedOnce(m) PROVE Len(s) = 1 /\ RootTwice(m)
    OBVIOUS
  <2>2. Len(s) = 1 /\ RootIsImported
    BY <1>16, <2>1 DEF NamedOnce
  <2>3. \A i, j \in 1 .. Len(m) :
          m[i].name = m[j].name /\ m[i].name # "main" =>
            i = j \/ m[i].name \in ToSet(Defines[Root])
    BY <1>16
  <2> QED
    BY <2>2, <2>3 DEF RootTwice
<1>18. ASSUME NEW k \in 1 .. Len(t)
       PROVE  \/ NamedOnce(t[k].functions)
              \/ k = 1 /\ t[k].declared /\ RootTwice(t[k].functions)
  <2>1. CASE k # Len(s)
    BY <1>1, <2>1 DEF SingleInv
  <2>2. CASE k = Len(s)
    <3>1. t[k].functions = m /\ t[k].declared
      BY <1>2, <2>2 DEF m
    <3> QED
      BY <1>17, <2>2, <3>1
  <2> QED
    BY <2>1, <2>2
<1> QED
  BY <1>18 DEF SingleInv

-----------------------------------------------------------------------------
(* The program stays as it is. *)

LEMMA ProgramStays ==
  ASSUME UNCHANGED program
  PROVE  /\ imports' = imports /\ dir' = dir /\ broken' = broken /\ fault' = fault
         /\ Reachable' = Reachable
         /\ OneDirectory' <=> OneDirectory
         /\ RootIsImported' <=> RootIsImported
<1>1. imports' = imports /\ dir' = dir /\ broken' = broken /\ fault' = fault
  BY DEF program
<1>2. Reachable' = Reachable
  BY <1>1 DEF Reachable, Closed
<1>3. OneDirectory' <=> OneDirectory
  BY <1>1 DEF OneDirectory
<1>4. RootIsImported' <=> RootIsImported
  BY <1>1, <1>2 DEF RootIsImported
<1> QED
  BY <1>1, <1>2, <1>3, <1>4

LEMMA StackStays ==
  ASSUME UNCHANGED program, StackInv(parsers') PROVE StackInv(parsers)'
<1>1. imports' = imports /\ dir' = dir
  BY ProgramStays
<1> QED
  BY <1>1 DEF StackInv

LEMMA CompleteStays ==
  ASSUME UNCHANGED program, CompleteInv(parsers') PROVE CompleteInv(parsers)'
<1>1. imports' = imports /\ dir' = dir /\ broken' = broken /\ fault' = fault
  BY ProgramStays
<1>2. \A f : Own(f)' = Own(f)
  BY <1>1 DEF Own
<1>3. \A p : OnStack(parsers, p)' <=> OnStack(parsers', p)
  BY DEF OnStack
<1>4. \A p, n : Meets(parsers, p, n)' <=> Meets(parsers', p, n)
  BY <1>1 DEF Meets
<1>5. \A p : Collected(parsers, p)' <=> Collected(parsers', p)
  BY <1>1, <1>2 DEF Collected
<1>6. \A p : Finished(parsers, p)' <=> Finished(parsers', p)
  BY <1>1, <1>4, <1>5 DEF Finished
<1> QED
  BY <1>1, <1>2, <1>3, <1>4, <1>6 DEF CompleteInv

LEMMA ReachStays ==
  ASSUME UNCHANGED program, ReachInv(parsers') PROVE ReachInv(parsers)'
<1>1. /\ imports' = imports
      /\ Reachable' = Reachable
      /\ OneDirectory' <=> OneDirectory
  BY ProgramStays
<1> QED
  BY <1>1 DEF ReachInv

LEMMA OriginStays ==
  ASSUME UNCHANGED program, OriginInv(parsers') PROVE OriginInv(parsers)'
<1>1. imports' = imports /\ dir' = dir
  BY ProgramStays
<1> QED
  BY <1>1 DEF OriginInv

LEMMA SingleStays ==
  ASSUME UNCHANGED program, SingleInv(parsers') PROVE SingleInv(parsers)'
<1>1. RootIsImported' <=> RootIsImported
  BY ProgramStays
<1>2. \A k \in 1 .. Len(parsers') :
        RootTwice(parsers[k].functions)' <=> RootTwice(parsers'[k].functions)
  BY <1>1 DEF RootTwice
<1> QED
  BY <1>2 DEF SingleInv

-----------------------------------------------------------------------------
(* The invariant, and what each step does to it. *)

IInv ==
  /\ ProgramTyped
  /\ result \in Results
  /\ parsers \in Seq(Parsers)
  /\ Working <=> parsers # <<>>
  /\ parsers # <<>> => /\ StackInv(parsers) /\ CompleteInv(parsers)
                       /\ ReachInv(parsers) /\ OriginInv(parsers)
  /\ CleanExitIsComplete

DInv == IInv /\ (parsers # <<>> => SingleInv(parsers)) /\ NoDoubleDefinition

LEMMA TopIs ==
  ASSUME IInv, Working
  PROVE  /\ parsers \in Seq(Parsers) /\ parsers # <<>> /\ Depth \in Nat \ {0} /\ Depth = Len(parsers)
         /\ Top = parsers[Len(parsers)] /\ Top \in Parsers
         /\ StackInv(parsers) /\ CompleteInv(parsers)
         /\ ReachInv(parsers) /\ OriginInv(parsers)
         /\ Below = SubSeq(parsers, 1, Len(parsers) - 1)
<1>1. parsers \in Seq(Parsers) /\ parsers # <<>>
  BY DEF IInv
<1>2. Depth \in Nat \ {0} /\ Depth = Len(parsers)
  BY <1>1, EmptySeq DEF Depth
<1>3. Top = parsers[Len(parsers)] /\ Top \in Parsers
  BY <1>1, <1>2 DEF Top
<1> QED
  BY <1>1, <1>2, <1>3 DEF IInv, Below

(* While the compiler works the parsers are all there is to look at. *)
LEMMA WorksOn ==
  ASSUME IInv, Working, UNCHANGED <<program, result>>, parsers' \in Seq(Parsers),
         parsers' # <<>>, StackInv(parsers'), CompleteInv(parsers'),
         ReachInv(parsers'), OriginInv(parsers')
  PROVE  IInv'
<1>1. UNCHANGED program /\ result' = result
  OBVIOUS
<1>2. ProgramTyped' /\ result' \in Results
  BY <1>1, ProgramStays DEF IInv, ProgramTyped
<1>3. Working'
  BY <1>1 DEF Working, Running
<1>4. StackInv(parsers)' /\ CompleteInv(parsers)' /\ ReachInv(parsers)' /\ OriginInv(parsers)'
  <2>1. StackInv(parsers)'
    BY <1>1, StackStays
  <2>2. CompleteInv(parsers)'
    BY <1>1, CompleteStays
  <2>3. ReachInv(parsers)'
    BY <1>1, ReachStays
  <2>4. OriginInv(parsers)'
    BY <1>1, OriginStays
  <2> QED
    BY <2>1, <2>2, <2>3, <2>4
<1>5. CleanExitIsComplete'
  <2>1. result'.code = "none"
    BY <1>1 DEF Working, Running
  <2> QED
    BY <2>1 DEF CleanExitIsComplete
<1> QED
  BY <1>2, <1>3, <1>4, <1>5 DEF IInv

LEMMA TopReplaced ==
  ASSUME IInv, Working, NEW x \in Parsers, x.path = Top.path, x.loaded = Top.loaded,
         parsers' = Append(Below, x)
  PROVE  TopBecomes(parsers, parsers', x) /\ parsers' # <<>>
<1>1. /\ parsers \in Seq(Parsers) /\ Len(parsers) \in Nat \ {0}
      /\ Top = parsers[Len(parsers)]
      /\ Below = SubSeq(parsers, 1, Len(parsers) - 1)
  BY TopIs
<1> DEFINE n == Len(parsers) - 1
<1>2. n \in 0 .. Len(parsers) /\ n + 1 = Len(parsers)
  BY <1>1
<1>3. parsers' = Append(SubSeq(parsers, 1, n), x)
  BY <1>1
<1> HIDE DEF n
<1>4. /\ parsers' \in Seq(Parsers)
      /\ Len(parsers') = n + 1
      /\ \A k \in 1 .. n : parsers'[k] = parsers[k]
      /\ parsers'[n + 1] = x
  <2>1. parsers \in Seq(Parsers) /\ n \in 0 .. Len(parsers) /\ x \in Parsers
    BY <1>1, <1>2
  <2> DEFINE t == Append(SubSeq(parsers, 1, n), x)
  <2>2. /\ t \in Seq(Parsers) /\ Len(t) = n + 1
        /\ \A k \in 1 .. n : t[k] = parsers[k]
        /\ t[n + 1] = x
    BY ONLY <2>1, Replaced
  <2> HIDE DEF t
  <2>3. parsers' = t
    BY <1>3 DEF t
  <2> QED
    BY <2>2, <2>3
<1>5. n = Len(parsers) - 1
  BY DEF n
<1>6. parsers' # <<>>
  BY <1>1, <1>2, <1>4
<1> QED
  BY <1>1, <1>2, <1>4, <1>5, <1>6 DEF TopBecomes

LEMMA HeadIs ==
  ASSUME NEW S, NEW q \in Seq(S), q # <<>>
  PROVE  /\ Head(q) \in S /\ Head(q) \in ToSet(q) /\ Tail(q) \in Seq(S)
         /\ ToSet(Tail(q)) \subseteq ToSet(q)
         /\ ToSet(q) \subseteq ToSet(Tail(q)) \cup {Head(q)}
<1>1. /\ Head(q) \in S /\ Tail(q) \in Seq(S) /\ Len(Tail(q)) = Len(q) - 1
      /\ \A i \in 1 .. Len(Tail(q)) : Tail(q)[i] = q[i + 1]
  BY HeadTailProperties
<1>2. Len(q) \in Nat \ {0} /\ DOMAIN q = 1 .. Len(q) /\ Head(q) = q[1]
  BY EmptySeq
<1>3. DOMAIN Tail(q) = 1 .. Len(Tail(q))
  BY <1>1
<1>4. Head(q) \in ToSet(q)
  <2>1. 1 \in DOMAIN q
    BY <1>2
  <2> QED
    BY <1>2, <2>1 DEF ToSet
<1>5. ASSUME NEW x \in ToSet(Tail(q)) PROVE x \in ToSet(q)
  <2>1. PICK i \in 1 .. Len(Tail(q)) : x = Tail(q)[i]
    BY <1>3, <1>5 DEF ToSet
  <2>2. i + 1 \in DOMAIN q /\ x = q[i + 1]
    BY <1>1, <1>2, <2>1
  <2> QED
    BY <2>2 DEF ToSet
<1>6. ASSUME NEW x \in ToSet(q), x # Head(q) PROVE x \in ToSet(Tail(q))
  <2>1. PICK i \in 1 .. Len(q) : x = q[i]
    BY <1>2 DEF ToSet
  <2>2. i # 1
    BY <1>2, <1>6, <2>1
  <2>3. i - 1 \in 1 .. Len(Tail(q)) /\ (i - 1) + 1 = i
    BY <1>1, <1>2, <2>2
  <2>4. i - 1 \in DOMAIN Tail(q) /\ x = Tail(q)[i - 1]
    BY <1>1, <1>3, <2>1, <2>3
  <2> QED
    BY <2>4 DEF ToSet
<1> QED
  BY <1>1, <1>4, <1>5, <1>6

LEMMA NextLineIs ==
  ASSUME NEW p \in Parsers, p.todo # <<>>
  PROVE  /\ NextLine(p) \in Parsers
         /\ NextLine(p).path = p.path /\ NextLine(p).loaded = p.loaded
         /\ NextLine(p).functions = p.functions /\ NextLine(p).declared = p.declared
         /\ NextLine(p).diagnostics = p.diagnostics
         /\ NextLine(p).todo = Tail(p.todo)
         /\ Head(p.todo) \in Imported /\ Head(p.todo) \in ToSet(p.todo)
         /\ ToSet(Tail(p.todo)) \subseteq ToSet(p.todo)
         /\ ToSet(p.todo) \subseteq ToSet(Tail(p.todo)) \cup {Head(p.todo)}
<1>1. p.todo \in Seq(Imported)
  BY DEF Parsers
<1>2. /\ Head(p.todo) \in Imported /\ Head(p.todo) \in ToSet(p.todo)
      /\ Tail(p.todo) \in Seq(Imported)
      /\ ToSet(Tail(p.todo)) \subseteq ToSet(p.todo)
      /\ ToSet(p.todo) \subseteq ToSet(Tail(p.todo)) \cup {Head(p.todo)}
  BY <1>1, HeadIs
<1> QED
  BY <1>2 DEF NextLine, Parsers

(* A module that is loaded is passed over. *)
LEMMA AlreadyLoadedStep ==
  ASSUME IInv, AlreadyLoaded
  PROVE  IInv' /\ (SingleInv(parsers) => SingleInv(parsers)')
<1> DEFINE x == NextLine(Top)
           h == Head(Top.todo)
<1>1. /\ Working /\ Top.todo # <<>> /\ Resolves(Top.path, h)
      /\ resolve_import(Top.path, h) \in Top.loaded
      /\ parsers' = Append(Below, x)
      /\ UNCHANGED <<program, result>>
  BY DEF AlreadyLoaded, Importing
<1>2. /\ Top \in Parsers /\ Top = parsers[Len(parsers)] /\ Len(parsers) \in Nat \ {0}
      /\ StackInv(parsers) /\ CompleteInv(parsers)
      /\ ReachInv(parsers) /\ OriginInv(parsers)
  BY <1>1, TopIs
<1>3. /\ x \in Parsers
      /\ x.path = Top.path /\ x.loaded = Top.loaded
      /\ x.functions = Top.functions /\ x.declared = Top.declared
      /\ x.todo = Tail(Top.todo)
      /\ ToSet(x.todo) \subseteq ToSet(Top.todo)
      /\ ToSet(Top.todo) \subseteq ToSet(x.todo) \cup {h}
  BY <1>1, <1>2, NextLineIs
<1>4. ~Top.declared
  <2>1. Len(parsers) \in 1 .. Len(parsers)
    BY <1>2
  <2> QED
    BY <1>1, <1>2, <2>1 DEF StackInv
<1>5. Meets(parsers, x.path, h)
  BY <1>1, <1>2, <1>3, ResolveIs DEF Meets, LoadedIn, Resolves
<1> HIDE DEF x, h
<1>6. TopBecomes(parsers, parsers', x) /\ parsers' # <<>>
  BY <1>1, <1>3, TopReplaced
<1>7. parsers' \in Seq(Parsers)
  BY <1>6 DEF TopBecomes
<1>8. StackInv(parsers')
  BY <1>2, <1>3, <1>4, <1>6, TopStack
<1>9. CompleteInv(parsers')
  BY <1>2, <1>3, <1>4, <1>5, <1>6, TopComplete
<1>10. ReachInv(parsers')
  BY <1>2, <1>6, TopReach
<1>11. OriginInv(parsers')
  <2>1. x.path \in AnyPath
    BY <1>3 DEF Parsers
  <2> QED
    BY <1>2, <1>3, <1>4, <1>6, <2>1, TopOrigin
<1>12. SingleInv(parsers) => SingleInv(parsers')
  BY <1>2, <1>3, <1>6, TopSingle
<1> QED
  BY <1>1, <1>6, <1>7, <1>8, <1>9, <1>10, <1>11, <1>12, WorksOn, SingleStays

(* A module is opened: its parser starts above the one that asks for it.   *)
LEMMA SummonStep ==
  ASSUME IInv, Summon
  PROVE  IInv' /\ (SingleInv(parsers) => SingleInv(parsers)')
<1> DEFINE h == Head(Top.todo)
           r == resolve_import(Top.path, h)
           l == Top.loaded \cup {r}
           z == NextLine(Top)
           x == [z EXCEPT !.loaded = l]
           y == Parser(r, imports[r.file], l)
<1>1. /\ Working /\ Top.todo # <<>> /\ Resolves(Top.path, h)
      /\ r \notin Top.loaded
      /\ parsers' = Below \o <<x, y>>
      /\ UNCHANGED <<program, result>>
  BY DEF Summon, Importing
<1>2. /\ Top \in Parsers /\ Top = parsers[Len(parsers)] /\ Len(parsers) \in Nat \ {0}
      /\ parsers \in Seq(Parsers) /\ parsers # <<>>
      /\ StackInv(parsers) /\ CompleteInv(parsers)
      /\ ReachInv(parsers) /\ OriginInv(parsers)
      /\ Below = SubSeq(parsers, 1, Len(parsers) - 1)
  BY <1>1, TopIs
<1>3. ProgramTyped /\ dir \in Layouts
  BY DEF IInv, ProgramTyped
<1>4. r = Resolve(dir, Top.path, h) /\ h \in Files /\ Len(r.hops) <= MaxHops
  BY <1>1, ResolveIs DEF Resolves
<1>5. Top.path \in AnyPath /\ Top.loaded \in SUBSET AnyPath
  BY <1>2 DEF Parsers
<1>6. r \in AnyPath /\ r.file = h
  BY <1>3, <1>4, <1>5, ResolveTyped
<1>7. l \in SUBSET AnyPath
  BY <1>5, <1>6
<1>8. /\ z \in Parsers
      /\ z.path = Top.path /\ z.functions = Top.functions /\ z.declared = Top.declared
      /\ z.todo = Tail(Top.todo)
      /\ h \in ToSet(Top.todo)
      /\ ToSet(z.todo) \subseteq ToSet(Top.todo)
      /\ ToSet(Top.todo) \subseteq ToSet(z.todo) \cup {h}
  BY <1>1, <1>2, NextLineIs
<1>9. ~Top.declared
  <2>1. Len(parsers) \in 1 .. Len(parsers)
    BY <1>2
  <2> QED
    BY <1>1, <1>2, <2>1 DEF StackInv
<1>10. imports[h] \in Seq(Imported)
  BY <1>3, <1>4, ProgramIs
<1> HIDE DEF h, r, l, z
<1>11. /\ x \in Parsers
       /\ x.path = z.path /\ x.functions = z.functions /\ x.declared = z.declared
       /\ x.todo = z.todo /\ x.loaded = l
  BY <1>7, <1>8 DEF Parsers
<1>12. /\ y \in Parsers
       /\ y.path = r /\ y.functions = <<>> /\ ~y.declared
       /\ y.todo = imports[h] /\ y.loaded = l
  BY <1>6, <1>7, <1>10 DEF Parsers, Parser
<1> HIDE DEF x, y
<1>13. /\ parsers' \in Seq(Parsers)
       /\ Len(parsers') = Len(parsers) + 1
       /\ \A k \in 1 .. Len(parsers) - 1 : parsers'[k] = parsers[k]
       /\ parsers'[Len(parsers)] = x /\ parsers'[Len(parsers) + 1] = y
  <2>1. PushedOn(parsers', parsers, x, y)
    BY <1>1, <1>2 DEF PushedOn
  <2>2. parsers \in Seq(Parsers) /\ parsers # <<>> /\ x \in Parsers /\ y \in Parsers
    BY <1>2, <1>11, <1>12
  <2> QED
    BY ONLY <2>1, <2>2, Pushed
<1>14. l = Top.loaded \cup {r}
  BY DEF l
<1>15. Opens(parsers, parsers', x, y, h)
  BY <1>1, <1>2, <1>4, <1>8, <1>9, <1>11, <1>12, <1>13, <1>14 DEF Opens
<1>16. parsers' # <<>>
  BY <1>2, <1>13
<1>17. StackInv(parsers')
  BY <1>2, <1>3, <1>15, OpenStack
<1>18. CompleteInv(parsers')
  BY <1>2, <1>15, OpenComplete
<1>19. ReachInv(parsers')
  BY <1>2, <1>3, <1>15, OpenReach
<1>20. OriginInv(parsers')
  BY <1>2, <1>15, OpenOrigin
<1>21. SingleInv(parsers) => SingleInv(parsers')
  BY <1>2, <1>15, OpenSingle
<1> QED
  BY <1>1, <1>13, <1>16, <1>17, <1>18, <1>19, <1>20, <1>21, WorksOn, SingleStays

Joined(m, fs, own) == m = fs \o own

LEMMA JoinIs ==
  ASSUME NEW fs \in Seq(Functions), NEW own \in Seq(Functions), NEW m, Joined(m, fs, own)
  PROVE  /\ m \in Seq(Functions)
         /\ Names(fs) \subseteq Names(m) /\ Names(own) \subseteq Names(m)
         /\ \A i \in 1 .. Len(m) : \/ \E j \in 1 .. Len(fs) : m[i] = fs[j]
                                   \/ \E j \in 1 .. Len(own) : m[i] = own[j]
<1>1. /\ m \in Seq(Functions)
      /\ Len(m) = Len(fs) + Len(own) /\ Len(fs) \in Nat /\ Len(own) \in Nat
      /\ \A i \in 1 .. Len(fs) + Len(own) :
           m[i] = IF i <= Len(fs) THEN fs[i] ELSE own[i - Len(fs)]
  BY ConcatProperties DEF Joined
<1>2. DOMAIN m = 1 .. Len(m) /\ DOMAIN fs = 1 .. Len(fs) /\ DOMAIN own = 1 .. Len(own)
  BY <1>1
<1> DEFINE a == Len(fs)
           b == Len(own)
<1>3. a \in Nat /\ b \in Nat /\ Len(m) = a + b
      /\ \A i \in 1 .. a + b : m[i] = IF i <= a THEN fs[i] ELSE own[i - a]
  BY <1>1
<1> HIDE DEF a, b
<1>4. ASSUME NEW i \in 1 .. a PROVE i \in 1 .. a + b /\ m[i] = fs[i]
  BY <1>3
<1>5. ASSUME NEW i \in 1 .. b PROVE i + a \in 1 .. a + b /\ m[i + a] = own[i]
  <2>1. i + a \in 1 .. a + b /\ ~(i + a <= a) /\ i + a - a = i
    BY <1>3
  <2> QED
    BY <1>3, <2>1
<1>6. ASSUME NEW i \in 1 .. a + b, ~(i <= a) PROVE i - a \in 1 .. b /\ m[i] = own[i - a]
  <2>1. i - a \in 1 .. b
    BY <1>3, <1>6
  <2> QED
    BY <1>3, <1>6, <2>1
<1>7. ASSUME NEW i \in 1 .. a + b
      PROVE  \/ \E j \in 1 .. a : m[i] = fs[j]
             \/ \E j \in 1 .. b : m[i] = own[j]
  <2>1. CASE i <= a
    <3>1. i \in 1 .. a
      BY <1>3, <2>1
    <3> QED
      BY <1>4, <3>1
  <2>2. CASE ~(i <= a)
    BY <1>6, <2>2
  <2> QED
    BY <2>1, <2>2
<1>8. Names(fs) \subseteq Names(m)
  BY <1>2, <1>3, <1>4 DEF Names, a
<1>9. Names(own) \subseteq Names(m)
  <2> SUFFICES ASSUME NEW v \in Names(own) PROVE v \in Names(m)
    OBVIOUS
  <2>1. PICK i \in 1 .. b : v = own[i].name
    BY <1>2 DEF Names, b
  <2>2. i + a \in DOMAIN m /\ m[i + a].name = v
    BY <1>2, <1>3, <1>5, <2>1
  <2> QED
    BY <2>2 DEF Names
<1> QED
  BY <1>1, <1>3, <1>7, <1>8, <1>9 DEF a, b

(* The declarations of the file are read. *)
LEMMA DeclarationsStep ==
  ASSUME IInv, Declarations
  PROVE  IInv' /\ (DistinctDefines /\ SingleInv(parsers) => SingleInv(parsers)')
<1> DEFINE fs  == Top.functions
           f   == Top.path.file
           own == Own(f)
           m   == fs \o own
           bad == f \in broken
           x   == [Top EXCEPT !.functions   = m,
                              !.diagnostics = bad,
                              !.declared    = TRUE]
<1>1. /\ Working /\ Top.todo = <<>> /\ ~Top.declared /\ fault[f] = "none"
      /\ parsers' = Append(Below, x)
      /\ UNCHANGED <<program, result>>
  BY DEF Declarations, Fault
<1>2. /\ Top \in Parsers /\ Top = parsers[Len(parsers)] /\ Len(parsers) \in Nat \ {0}
      /\ StackInv(parsers) /\ CompleteInv(parsers)
      /\ ReachInv(parsers) /\ OriginInv(parsers)
  BY <1>1, TopIs
<1>3. ProgramTyped
  BY DEF IInv
<1>4. Top.path \in AnyPath /\ f \in Files /\ fs \in Seq(Functions)
  BY <1>2 DEF Parsers, AnyPath
<1>5. /\ own \in Seq(Functions)
      /\ \A i \in 1 .. Len(own) : own[i].file = f /\ own[i].name \in ToSet(Defines[f])
  BY <1>3, <1>4, OwnIs
<1> HIDE DEF own, fs
<1>6. /\ m \in Seq(Functions)
      /\ Names(fs) \subseteq Names(m) /\ Names(own) \subseteq Names(m)
      /\ \A i \in 1 .. Len(m) : \/ \E j \in 1 .. Len(fs) : m[i] = fs[j]
                                \/ \E j \in 1 .. Len(own) : m[i] = own[j]
  <2>1. Joined(m, fs, own)
    BY DEF Joined
  <2> HIDE DEF m
  <2> QED
    BY <1>4, <1>5, <2>1, JoinIs
<1> HIDE DEF m
<1>7. /\ x \in Parsers
      /\ x.path = Top.path /\ x.loaded = Top.loaded /\ x.todo = Top.todo
      /\ x.functions = m /\ x.declared /\ x.diagnostics = bad
  <2>1. bad \in BOOLEAN
    OBVIOUS
  <2> HIDE DEF bad
  <2> QED
    BY <1>2, <1>6, <2>1 DEF Parsers
<1>8. x.diagnostics <=> f \in broken
  BY <1>7
<1> HIDE DEF x
<1>9. TopBecomes(parsers, parsers', x) /\ parsers' # <<>>
  BY <1>1, <1>7, TopReplaced
<1>10. parsers' \in Seq(Parsers)
  BY <1>9 DEF TopBecomes
<1>11. StackInv(parsers')
  BY <1>1, <1>2, <1>7, <1>9, TopStack
<1>12. CompleteInv(parsers')
  <2>1. Names(parsers[Len(parsers)].functions) \subseteq Names(x.functions)
    BY <1>2, <1>6, <1>7 DEF fs
  <2>2. ToSet(x.todo) \subseteq ToSet(parsers[Len(parsers)].todo)
    BY <1>2, <1>7
  <2>3. \A n \in ToSet(parsers[Len(parsers)].todo) :
          n \in ToSet(x.todo) \/ Meets(parsers, x.path, n)
    BY <1>2, <1>7
  <2>4. Names(Own(x.path.file)) \subseteq Names(x.functions)
    BY <1>6, <1>7 DEF own
  <2>5. (x.diagnostics <=> x.path.file \in broken) /\ fault[x.path.file] = "none"
    BY <1>1, <1>7, <1>8
  <2> QED
    BY <1>2, <1>9, <2>1, <2>2, <2>3, <2>4, <2>5, TopComplete
<1>13. ReachInv(parsers')
  BY <1>2, <1>9, TopReach
<1>14. OriginInv(parsers')
  <2>1. \A i \in 1 .. Len(x.functions) :
          \/ \E j \in 1 .. Len(parsers[Len(parsers)].functions) :
               x.functions[i] = parsers[Len(parsers)].functions[j]
          \/ /\ x.declared /\ x.functions[i].file = x.path.file
             /\ x.functions[i].name \in ToSet(Defines[x.path.file])
    BY <1>2, <1>5, <1>6, <1>7 DEF fs
  <2>2. x.path \in AnyPath
    BY <1>4, <1>7
  <2> QED
    BY <1>2, <1>7, <1>9, <2>1, <2>2, TopOrigin
<1>15. DistinctDefines /\ SingleInv(parsers) => SingleInv(parsers')
  <2>1. x.functions = parsers[Len(parsers)].functions \o Own(parsers[Len(parsers)].path.file)
    BY <1>2, <1>7 DEF m, own, fs
  <2>2. ~parsers[Len(parsers)].declared
    BY <1>1, <1>2
  <2> QED
    BY <1>2, <1>3, <1>7, <1>9, <2>1, <2>2, DeclareSingle
<1> QED
  BY <1>1, <1>9, <1>10, <1>11, <1>12, <1>13, <1>14, <1>15, WorksOn, SingleStays

(* A finished module returns to the one that asked for it. *)
LEMMA ReturnStep ==
  ASSUME IInv, Return
  PROVE  IInv' /\ (SingleInv(parsers) => SingleInv(parsers)')
<1> DEFINE u  == parsers[Len(parsers) - 1]
           fs == Top.functions
           ts == u.functions
           m  == merge_into(fs, ts)
           x  == Merged(u, Top)
           n  == Len(parsers) - 2
<1>1. /\ Working /\ Top.declared /\ Depth > 1
      /\ parsers' = Append(SubSeq(parsers, 1, Depth - 2), Merged(parsers[Depth - 1], Top))
      /\ UNCHANGED <<program, result>>
  BY DEF Return
<1>2. /\ parsers \in Seq(Parsers) /\ Depth = Len(parsers)
      /\ Top \in Parsers /\ Top = parsers[Len(parsers)] /\ Len(parsers) \in Nat \ {0}
      /\ StackInv(parsers) /\ CompleteInv(parsers)
      /\ ReachInv(parsers) /\ OriginInv(parsers)
  BY <1>1, TopIs
<1>3. ProgramTyped
  BY DEF IInv
<1>4. Len(parsers) > 1 /\ n \in 0 .. Len(parsers) /\ n + 1 = Len(parsers) - 1
      /\ n = Len(parsers) - 2 /\ Len(parsers) - 1 \in 1 .. Len(parsers)
  BY <1>1, <1>2
<1>5. u \in Parsers
  BY <1>2, <1>4
<1>6. parsers' = Append(SubSeq(parsers, 1, n), x)
  BY <1>1, <1>2
<1>7. fs \in Seq(Functions) /\ ts \in Seq(Functions)
  BY <1>2, <1>5 DEF Parsers
<1>8. m \in Seq(Functions)
  BY <1>7, MergeIs
<1>9. x = [u EXCEPT !.functions = m, !.loaded = Top.loaded]
  BY DEF Merged
<1> HIDE DEF m, n, u, x
<1>10. /\ x \in Parsers
       /\ x.path = u.path /\ x.todo = u.todo /\ x.declared = u.declared
       /\ x.functions = m /\ x.loaded = Top.loaded
  BY <1>2, <1>5, <1>8, <1>9 DEF Parsers
<1>11. /\ parsers' \in Seq(Parsers)
       /\ Len(parsers') = n + 1
       /\ \A k \in 1 .. n : parsers'[k] = parsers[k]
       /\ parsers'[n + 1] = x
  BY <1>2, <1>4, <1>6, <1>10, Replaced
<1>12. Closes(parsers, parsers', x)
  <2>1. x.functions = merge_into(parsers[Len(parsers)].functions, parsers[Len(parsers) - 1].functions)
    BY <1>2, <1>10 DEF m, u
  <2>2. /\ x.path = parsers[Len(parsers) - 1].path /\ x.todo = parsers[Len(parsers) - 1].todo
        /\ x.declared = parsers[Len(parsers) - 1].declared
        /\ x.loaded = parsers[Len(parsers)].loaded
    BY <1>2, <1>10 DEF u
  <2>3. Len(parsers') = Len(parsers) - 1 /\ parsers'[Len(parsers) - 1] = x
    BY <1>4, <1>11
  <2>4. \A k \in 1 .. Len(parsers) - 2 : parsers'[k] = parsers[k]
    BY <1>4, <1>11
  <2> QED
    BY <1>1, <1>2, <1>4, <1>11, <2>1, <2>2, <2>3, <2>4 DEF Closes
<1>13. parsers' # <<>>
  BY <1>2, <1>4, <1>11
<1>14. StackInv(parsers')
  BY <1>2, <1>12, CloseStack
<1>15. CompleteInv(parsers')
  BY <1>2, <1>12, CloseComplete
<1>16. ReachInv(parsers')
  BY <1>2, <1>12, CloseReach
<1>17. OriginInv(parsers')
  BY <1>2, <1>3, <1>12, CloseOrigin
<1>18. SingleInv(parsers) => SingleInv(parsers')
  BY <1>2, <1>12, CloseSingle
<1> QED
  BY <1>1, <1>11, <1>13, <1>14, <1>15, <1>16, <1>17, <1>18, WorksOn, SingleStays

(* The compiler gives up over something that is wrong with the program. *)
LEMMA GivesUpStep ==
  ASSUME IInv, GivesUp,
         \/ Missing \in Reachable
         \/ ~OneDirectory
         \/ \E f \in Reachable \ {Missing} : fault[f] # "none"
  PROVE  IInv' /\ parsers' = <<>> /\ NoDoubleDefinition'
<1>1. /\ parsers' = <<>>
      /\ result' = [code |-> "failed", emitted |-> <<>>]
      /\ UNCHANGED program
  BY DEF GivesUp
<1>2. /\ Reachable' = Reachable /\ (OneDirectory' <=> OneDirectory) /\ fault' = fault
      /\ ProgramTyped'
  BY <1>1, ProgramStays DEF IInv, ProgramTyped
<1>3. CleanExitIsComplete'
  BY <1>1, <1>2 DEF CleanExitIsComplete
<1>4. result' \in Results
  BY <1>1 DEF Results
<1>5. ~Working'
  BY <1>1 DEF Working, Running
<1>6. parsers' \in Seq(Parsers)
  BY <1>1
<1>7. IInv'
  BY <1>1, <1>2, <1>3, <1>4, <1>5, <1>6 DEF IInv
<1>8. NoDoubleDefinition'
  BY <1>1 DEF NoDoubleDefinition
<1> QED
  BY <1>1, <1>7, <1>8

(* A file it has got to ends it. *)
LEMMA ThrowsStep ==
  ASSUME IInv, Throws
  PROVE  IInv' /\ parsers' = <<>> /\ NoDoubleDefinition'
<1>1. Working /\ GivesUp /\ fault[Top.path.file] # "none"
  BY DEF Throws, Fault
<1>2. /\ Top \in Parsers /\ Top = parsers[Len(parsers)] /\ Len(parsers) \in Nat \ {0}
      /\ ReachInv(parsers)
  BY <1>1, TopIs
<1>3. Top.path.file \in Files /\ Top.path.file \in Reachable
  <2>1. Len(parsers) \in 1 .. Len(parsers)
    BY <1>2
  <2> QED
    BY <1>2, <2>1 DEF Parsers, AnyPath, ReachInv
<1>4. Top.path.file \in Reachable \ {Missing}
  BY <1>3, LoaderAssumption
<1> QED
  BY <1>1, <1>4, GivesUpStep

(* No file answers to an import. *)
LEMMA CannotSummonStep ==
  ASSUME IInv, CannotSummon
  PROVE  IInv' /\ parsers' = <<>> /\ NoDoubleDefinition'
<1> DEFINE h == Head(Top.todo)
<1>1. /\ Working /\ Top.todo # <<>> /\ ~Resolves(Top.path, h)
      /\ GivesUp
  BY DEF CannotSummon, Importing
<1>2. /\ Top \in Parsers /\ Top = parsers[Len(parsers)] /\ Len(parsers) \in Nat \ {0}
      /\ CompleteInv(parsers) /\ ReachInv(parsers)
  BY <1>1, TopIs
<1>3. ProgramTyped /\ dir \in Layouts
  BY DEF IInv, ProgramTyped
<1>4. h \in Imported /\ h \in ToSet(Top.todo)
  BY <1>1, <1>2, NextLineIs
<1>5. Top.path \in AnyPath /\ Top.path.file \in Files /\ Top.path.file \in Reachable
  <2>1. Len(parsers) \in 1 .. Len(parsers)
    BY <1>2
  <2> QED
    BY <1>2, <2>1 DEF Parsers, AnyPath, ReachInv
<1>6. h \in ToSet(imports[Top.path.file])
  <2>1. Len(parsers) \in 1 .. Len(parsers)
    BY <1>2
  <2> QED
    BY <1>2, <1>4, <2>1 DEF CompleteInv
<1> HIDE DEF h
<1>7. Missing \in Reachable \/ ~OneDirectory
  <2>1. CASE h \notin Files
    <3>1. h = Missing
      BY <1>4, <2>1 DEF Imported
    <3>2. Top.path.file \in Reachable \ {Missing}
      BY <1>5, LoaderAssumption
    <3> QED
      BY <1>3, <1>6, <3>1, <3>2, ReachableIs
  <2>2. CASE h \in Files
    <3> SUFFICES ASSUME OneDirectory PROVE FALSE
      OBVIOUS
    <3>1. Top.path.hops = <<>>
      <4>1. Len(parsers) \in 1 .. Len(parsers)
        BY <1>2
      <4> QED
        BY <1>2, <4>1 DEF ReachInv
    <3>2. resolve_import(Top.path, h).hops = <<>>
      BY <1>5, <2>2, <3>1 DEF OneDirectory, resolve_import, Path
    <3>3. Len(<<>>) <= MaxHops
      BY LoaderAssumption
    <3> QED
      BY <1>1, <2>2, <3>2, <3>3 DEF Resolves
  <2> QED
    BY <2>1, <2>2
<1> QED
  BY <1>1, <1>7, GivesUpStep

(* What is loaded when the compiler's own parser is alone again is all the *)
(* program leads to, and that parser has the functions of all of it.       *)
LEMMA AllCollected ==
  ASSUME ProgramTyped, NEW s \in Seq(Parsers), Len(s) = 1,
         StackInv(s), CompleteInv(s), s[1].declared
  PROVE  /\ Missing \notin Reachable
         /\ \A f \in Reachable : /\ f \in Files /\ fault[f] = "none"
                                /\ Names(Own(f)) \subseteq Names(s[1].functions)
<1> DEFINE X == {Root} \cup {p.file : p \in LoadedIn(s)}
<1>1. s[1] \in Parsers /\ s[1].path.file = Root /\ s[1].todo = <<>> /\ 1 \in 1 .. Len(s)
  BY DEF StackInv, Path
<1>2. LoadedIn(s) \subseteq AnyPath
  BY <1>1 DEF LoadedIn, Parsers
<1>3. \A p \in LoadedIn(s) : p.file \in Files /\ Finished(s, p)
  <2> SUFFICES ASSUME NEW p \in LoadedIn(s) PROVE p.file \in Files /\ Finished(s, p)
    OBVIOUS
  <2>1. ~OnStack(s, p)
    BY DEF OnStack
  <2>2. p.file \in Files
    BY <1>2 DEF AnyPath
  <2> QED
    BY <2>1, <2>2 DEF CompleteInv
<1>4. \A p, n : Meets(s, p, n) => n \in X
  <2> SUFFICES ASSUME NEW p, NEW n, Meets(s, p, n) PROVE n \in X
    OBVIOUS
  <2>1. Resolve(dir, p, n) \in LoadedIn(s) /\ Resolve(dir, p, n).file = n
    BY DEF Meets, Resolve, Path
  <2> QED
    BY <2>1
<1>5. X \subseteq Files
  BY <1>3, LoaderAssumption
<1>6. ToSet(imports[Root]) \subseteq X
  <2>1. ToSet(s[1].todo) = {}
    BY <1>1 DEF ToSet
  <2>2. \A n \in ToSet(imports[Root]) : Meets(s, s[1].path, n)
    BY <1>1, <2>1 DEF CompleteInv
  <2> HIDE DEF X
  <2> QED
    BY <1>4, <2>2
<1>7. ASSUME NEW p \in LoadedIn(s) PROVE ToSet(imports[p.file]) \subseteq X
  <2>1. \A n \in ToSet(imports[p.file]) : Meets(s, p, n)
    BY <1>3, <1>7 DEF Finished
  <2> HIDE DEF X
  <2> QED
    BY <1>4, <2>1
<1>8. Closed(X)
  <2> SUFFICES ASSUME NEW f \in X PROVE ToSet(imports[f]) \subseteq X
    BY DEF Closed
  <2>1. f = Root \/ \E p \in LoadedIn(s) : f = p.file
    OBVIOUS
  <2> HIDE DEF X
  <2> QED
    BY <1>6, <1>7, <2>1
<1>9. Root \in X
  OBVIOUS
<1>10. \A f \in X : f = Root \/ \E p \in LoadedIn(s) : f = p.file
  OBVIOUS
<1> HIDE DEF X
<1>11. Reachable \subseteq X
  <2>1. X \in SUBSET Imported
    BY <1>5 DEF Imported
  <2> QED
    BY <1>8, <1>9, <2>1, ReachableIs
<1>12. Missing \notin Reachable
  BY <1>5, <1>11, LoaderAssumption
<1>13. ASSUME NEW f \in Reachable
       PROVE  /\ f \in Files /\ fault[f] = "none"
              /\ Names(Own(f)) \subseteq Names(s[1].functions)
  <2>1. f \in Files
    BY <1>5, <1>11
  <2>2. CASE f = Root
    BY <1>1, <2>1, <2>2 DEF CompleteInv
  <2>3. CASE \E p \in LoadedIn(s) : f = p.file
    <3>1. PICK p \in LoadedIn(s) : f = p.file
      BY <2>3
    <3>2. PICK k \in 1 .. Len(s) : /\ fault[p.file] = "none"
                                   /\ Names(Own(p.file)) \subseteq Names(s[k].functions)
      BY <1>3, <3>1 DEF Finished, Collected
    <3>3. k = 1
      BY <3>2
    <3> QED
      BY <2>1, <3>1, <3>2, <3>3
  <2> QED
    BY <1>10, <1>11, <2>2, <2>3
<1> QED
  BY <1>12, <1>13

(* The C program is written. *)
LEMMA EmitStep ==
  ASSUME IInv, Emit
  PROVE  IInv' /\ parsers' = <<>> /\ (SingleInv(parsers) => NoDoubleDefinition')
<1> DEFINE fs == Top.functions
           e  == Emitted(fs)
           c  == IF Top.diagnostics THEN "errors" ELSE "ok"
<1>1. /\ Working /\ Top.declared /\ Depth = 1
      /\ parsers' = <<>>
      /\ result' = [code |-> c, emitted |-> e]
      /\ UNCHANGED program
  BY DEF Emit
<1>2. /\ parsers \in Seq(Parsers) /\ Len(parsers) = 1
      /\ Top \in Parsers /\ Top = parsers[1]
      /\ StackInv(parsers) /\ CompleteInv(parsers)
  BY <1>1, TopIs
<1>3. ProgramTyped
  BY DEF IInv
<1>4. fs \in Seq(Functions)
  BY <1>2 DEF Parsers
<1>5. /\ e \in Seq(Functions)
      /\ Names(e) = Names(fs)
      /\ \A i, j \in 1 .. Len(e) : i # j /\ e[i].name = e[j].name =>
           /\ e[i].name # "main"
           /\ \E k, l \in 1 .. Len(fs) :
                k # l /\ fs[k].name = e[i].name /\ fs[l].name = e[i].name
  <2>1. e = Emitted(fs)
    OBVIOUS
  <2> HIDE DEF e, fs
  <2> QED
    BY <1>4, <2>1, EmittedIs
<1>6. c \in {"errors", "ok"} /\ (c = "ok" => ~Top.diagnostics)
  OBVIOUS
<1> HIDE DEF fs, e, c
<1>7. /\ Missing \notin Reachable
      /\ \A f \in Reachable : /\ f \in Files /\ fault[f] = "none"
                             /\ Names(Own(f)) \subseteq Names(fs)
  BY <1>1, <1>2, <1>3, AllCollected DEF fs
<1>8. \A f \in Reachable :
        ToSet(Defines[f]) \ (IF f \in broken THEN {Head(Defines[f])} ELSE {}) \subseteq Names(e)
  <2> SUFFICES ASSUME NEW f \in Reachable
               PROVE  ToSet(Defines[f]) \ (IF f \in broken THEN {Head(Defines[f])} ELSE {})
                        \subseteq Names(e)
    OBVIOUS
  <2>1. ToSet(Defines[f]) \ (IF f \in broken THEN {Head(Defines[f])} ELSE {})
          \subseteq Names(Own(f))
    BY <1>3, <1>7, OwnIs
  <2> QED
    BY <1>5, <1>7, <2>1
<1>9. c = "ok" => Root \notin broken
  <2>1. 1 \in 1 .. Len(parsers)
    BY <1>2
  <2>2. parsers[1].path.file = Root
    BY <1>2 DEF StackInv, Path
  <2>3. parsers[1].diagnostics <=> Root \in broken
    BY <1>1, <1>2, <2>1, <2>2 DEF CompleteInv
  <2> QED
    BY <1>2, <1>6, <2>3
<1>10. /\ Reachable' = Reachable /\ broken' = broken /\ fault' = fault
       /\ (RootIsImported' <=> RootIsImported) /\ ProgramTyped'
  BY <1>1, <1>3, ProgramStays DEF ProgramTyped
<1>11. result'.code = c /\ result'.emitted = e
  BY <1>1
<1>12. CleanExitIsComplete'
  BY <1>6, <1>7, <1>8, <1>9, <1>10, <1>11 DEF CleanExitIsComplete
<1>13. result' \in Results
  BY <1>1, <1>5, <1>6 DEF Results
<1>14. ~Working'
  BY <1>6, <1>11 DEF Working, Running
<1>15. parsers' \in Seq(Parsers)
  BY <1>1
<1>16. IInv'
  BY <1>1, <1>10, <1>12, <1>13, <1>14, <1>15 DEF IInv
<1>17. ASSUME SingleInv(parsers) PROVE NoDoubleDefinition'
  <2>1. DOMAIN e = 1 .. Len(e)
    BY <1>5
  <2>2. NamedOnce(fs) \/ RootTwice(fs)
    <3>1. 1 \in 1 .. Len(parsers) /\ fs = parsers[1].functions
      BY <1>2 DEF fs
    <3> QED
      BY <1>17, <3>1 DEF SingleInv
  <2>3. \A i, j \in 1 .. Len(e) : e[i].name = e[j].name =>
          i = j \/ (RootIsImported /\ e[i].name \in ToSet(Defines[Root]))
    <3> SUFFICES ASSUME NEW i \in 1 .. Len(e), NEW j \in 1 .. Len(e),
                        e[i].name = e[j].name, i # j
                 PROVE  RootIsImported /\ e[i].name \in ToSet(Defines[Root])
      OBVIOUS
    <3>1. PICK k \in 1 .. Len(fs), l \in 1 .. Len(fs) :
            k # l /\ fs[k].name = e[i].name /\ fs[l].name = e[i].name
      BY <1>5
    <3>2. e[i].name # "main"
      BY <1>5
    <3> QED
      BY <2>2, <3>1, <3>2 DEF NamedOnce, RootTwice
  <2> QED
    BY <1>10, <1>11, <2>1, <2>3 DEF NoDoubleDefinition
<1> QED
  BY <1>1, <1>16, <1>17

LEMMA InitEstablishes ==
  ASSUME Init
  PROVE  IInv /\ SingleInv(parsers) /\ NoDoubleDefinition
<1> DEFINE r == Path(<<>>, Root)
           y == Parser(r, imports[Root], {})
<1>1. ProgramTyped /\ parsers = <<y>> /\ result = Running
  BY DEF Init, ProgramTyped
<1>2. Root \in Files /\ MaxHops \in Nat
  BY LoaderAssumption
<1>3. r \in AnyPath /\ r.file = Root /\ r.hops = <<>>
  BY <1>2 DEF AnyPath, Path
<1>4. imports[Root] \in Seq(Imported)
  BY <1>1, <1>2, ProgramIs
<1> HIDE DEF r
<1>5. /\ y \in Parsers
      /\ y.path = r /\ y.todo = imports[Root] /\ y.loaded = {}
      /\ y.functions = <<>> /\ ~y.declared
  BY <1>3, <1>4 DEF Parser, Parsers
<1> HIDE DEF y
<1>6. /\ parsers \in Seq(Parsers) /\ Len(parsers) = 1 /\ parsers[1] = y
      /\ parsers # <<>> /\ LoadedIn(parsers) = {}
      /\ 2 .. Len(parsers) = {}
      /\ \A k \in 1 .. Len(parsers) : k = 1
  BY <1>1, <1>5 DEF LoadedIn
<1>7. StackInv(parsers)
  <2>1. parsers[1].path = Path(<<>>, Root)
    BY <1>5, <1>6 DEF r
  <2>2. \A j, k \in 1 .. Len(parsers) : j <= k => Len(parsers[j].path.hops) <= Len(parsers[k].path.hops)
    <3>1. Len(<<>>) <= Len(<<>>)
      OBVIOUS
    <3> QED
      BY <1>3, <1>5, <1>6, <3>1
  <2>3. \A j, k \in 1 .. Len(parsers) : k # j + 1
    BY <1>6
  <2> QED
    BY <1>5, <1>6, <2>1, <2>2, <2>3 DEF StackInv
<1>8. CompleteInv(parsers)
  BY <1>3, <1>5, <1>6 DEF CompleteInv
<1>9. ReachInv(parsers)
  <2>1. Root \in Reachable
    BY <1>1, ReachableIs
  <2> QED
    BY <1>3, <1>5, <1>6, <2>1 DEF ReachInv
<1>10. OriginInv(parsers)
  <2>1. \A k \in 1 .. Len(parsers) : 1 .. Len(parsers[k].functions) = {}
    BY <1>5, <1>6
  <2> QED
    BY <2>1 DEF OriginInv
<1>11. SingleInv(parsers)
  BY <1>5, <1>6 DEF SingleInv, NamedOnce
<1>12. result \in Results /\ Working
  BY <1>1 DEF Results, Running, Working
<1>13. CleanExitIsComplete /\ NoDoubleDefinition
  BY <1>1 DEF CleanExitIsComplete, NoDoubleDefinition, Running
<1> QED
  BY <1>1, <1>6, <1>7, <1>8, <1>9, <1>10, <1>11, <1>12, <1>13 DEF IInv

LEMMA VarsStay ==
  ASSUME IInv, UNCHANGED vars
  PROVE  IInv' /\ (SingleInv(parsers) => SingleInv(parsers)')
<1>1. UNCHANGED program /\ parsers' = parsers /\ result' = result
  BY DEF vars, program
<1>2. CASE parsers # <<>>
  <2>1. Working /\ parsers' # <<>> /\ parsers' \in Seq(Parsers)
    BY <1>1, <1>2 DEF IInv
  <2>2. StackInv(parsers') /\ CompleteInv(parsers') /\ ReachInv(parsers') /\ OriginInv(parsers')
    <3>1. StackInv(parsers) /\ CompleteInv(parsers) /\ ReachInv(parsers) /\ OriginInv(parsers)
      BY <1>2 DEF IInv
    <3> QED
      BY <1>1, <3>1
  <2>3. IInv'
    BY <1>1, <2>1, <2>2, WorksOn
  <2>4. SingleInv(parsers) => SingleInv(parsers')
    BY <1>1
  <2> QED
    BY <1>1, <2>3, <2>4, SingleStays
<1>3. CASE parsers = <<>>
  <2>1. Reachable' = Reachable /\ (OneDirectory' <=> OneDirectory) /\ ProgramTyped'
        /\ broken' = broken /\ fault' = fault
    BY <1>1, ProgramStays DEF IInv, ProgramTyped
  <2>2. CleanExitIsComplete'
    BY <1>1, <2>1 DEF IInv, CleanExitIsComplete
  <2>3. Working' <=> Working
    BY <1>1 DEF Working, Running
  <2>4. IInv'
    BY <1>1, <1>3, <2>1, <2>2, <2>3 DEF IInv
  <2>5. SingleInv(parsers) => SingleInv(parsers')
    BY <1>1
  <2> QED
    BY <1>1, <2>4, <2>5, SingleStays
<1> QED
  BY <1>2, <1>3

(* The steps together. *)
LEMMA StepKeeps ==
  ASSUME IInv, [Next]_vars
  PROVE  IInv'
<1>1. CASE CannotSummon
  BY <1>1, CannotSummonStep
<1>2. CASE AlreadyLoaded
  BY <1>2, AlreadyLoadedStep
<1>3. CASE Summon
  BY <1>3, SummonStep
<1>4. CASE Declarations
  BY <1>4, DeclarationsStep
<1>5. CASE Return
  BY <1>5, ReturnStep
<1>6. CASE Emit
  BY <1>6, EmitStep
<1>7. CASE Throws
  BY <1>7, ThrowsStep
<1>8. CASE UNCHANGED vars
  BY <1>8, VarsStay
<1> QED
  BY <1>1, <1>2, <1>3, <1>4, <1>5, <1>6, <1>7, <1>8 DEF Next

LEMMA StepKeepsSingle ==
  ASSUME DistinctDefines, DInv, [Next]_vars
  PROVE  DInv'
<1>1. IInv /\ IInv'
  BY StepKeeps DEF DInv
<1>2. CASE CannotSummon \/ Throws
  BY <1>1, <1>2, CannotSummonStep, ThrowsStep DEF DInv
<1>3. CASE AlreadyLoaded \/ Summon \/ Declarations \/ Return
  <2>1. Working /\ result' = result
    BY <1>3 DEF AlreadyLoaded, Summon, Declarations, Return, Importing
  <2>2. SingleInv(parsers)
    BY <1>1, <2>1 DEF DInv, IInv
  <2>3. SingleInv(parsers)'
    BY <1>1, <1>3, <2>2, AlreadyLoadedStep, SummonStep, DeclarationsStep, ReturnStep
  <2>4. NoDoubleDefinition'
    BY <2>1 DEF NoDoubleDefinition, Working, Running
  <2> QED
    BY <1>1, <2>3, <2>4 DEF DInv
<1>4. CASE Emit
  <2>1. Working
    BY <1>4 DEF Emit
  <2>2. SingleInv(parsers)
    BY <1>1, <2>1 DEF DInv, IInv
  <2> QED
    BY <1>1, <1>4, <2>2, EmitStep DEF DInv
<1>5. CASE UNCHANGED vars
  <2>1. UNCHANGED program /\ parsers' = parsers /\ result' = result
    BY <1>5 DEF vars, program
  <2>2. (parsers # <<>> => SingleInv(parsers))'
    BY <1>1, <1>5, <2>1, VarsStay DEF DInv
  <2>3. RootIsImported' <=> RootIsImported
    BY <2>1, ProgramStays
  <2>4. NoDoubleDefinition'
    BY <2>1, <2>3 DEF DInv, NoDoubleDefinition
  <2> QED
    BY <1>1, <2>2, <2>4 DEF DInv
<1> QED
  BY <1>2, <1>3, <1>4, <1>5 DEF Next

-----------------------------------------------------------------------------
(* What follows from the invariant. *)

LEMMA TypesFollow ==
  ASSUME IInv
  PROVE  TypeOK
<1>1. imports \in Graphs /\ dir \in Layouts /\ broken \subseteq Broken /\ fault \in Faults
  BY DEF IInv, ProgramTyped
<1>2. result.code \in {"none", "ok", "errors", "failed"}
  BY DEF IInv, Results
<1>3. ASSUME NEW k \in DOMAIN parsers
      PROVE  /\ parsers[k].path.file \in Files
             /\ Len(parsers[k].path.hops) <= MaxHops
             /\ \A i \in DOMAIN parsers[k].functions :
                  parsers[k].functions[i].file \in Files
  <2>1. /\ parsers \in Seq(Parsers) /\ DOMAIN parsers = 1 .. Len(parsers)
        /\ Len(parsers) \in Nat /\ parsers # <<>>
    BY DEF IInv
  <2>2. parsers[k] \in Parsers
    BY <2>1
  <2>3. /\ parsers[k].path.file \in Files /\ parsers[k].functions \in Seq(Functions)
    BY <2>2 DEF Parsers, AnyPath
  <2>4. \A i \in DOMAIN parsers[k].functions : parsers[k].functions[i] \in Functions
    BY <2>3
  <2>5. Len(parsers[k].path.hops) <= MaxHops
    <3>1. StackInv(parsers)
      BY <2>1 DEF IInv
    <3>2. CASE k = 1
      <4>1. parsers[k].path.hops = <<>>
        BY <3>1, <3>2 DEF StackInv, Path
      <4> QED
        BY <4>1, LoaderAssumption
    <3>3. CASE k # 1
      <4>1. k \in 2 .. Len(parsers)
        BY <2>1, <3>3
      <4> QED
        BY <3>1, <4>1 DEF StackInv
    <3> QED
      BY <3>2, <3>3
  <2> QED
    BY <2>3, <2>4, <2>5 DEF Functions
<1> QED
  BY <1>1, <1>2, <1>3 DEF TypeOK

LEMMA OnceFollows ==
  ASSUME IInv
  PROVE  ParsedOnce
<1> SUFFICES ASSUME OneDirectory, NEW j \in DOMAIN parsers, NEW k \in 2 .. Depth,
                    ~parsers[k].declared
             PROVE  /\ j \notin {1, k} => parsers[j].path.file # parsers[k].path.file
                    /\ \A i \in DOMAIN parsers[j].functions :
                         parsers[j].functions[i].file # parsers[k].path.file
  BY DEF ParsedOnce
<1>1. /\ parsers \in Seq(Parsers) /\ DOMAIN parsers = 1 .. Len(parsers)
      /\ Len(parsers) \in Nat /\ parsers # <<>>
      /\ j \in 1 .. Len(parsers) /\ k \in 2 .. Len(parsers) /\ k \in 1 .. Len(parsers)
  BY DEF IInv, Depth
<1>2. StackInv(parsers) /\ ReachInv(parsers) /\ OriginInv(parsers)
  BY <1>1 DEF IInv
<1>3. /\ parsers[j] \in Parsers /\ parsers[k] \in Parsers
      /\ parsers[j].path \in AnyPath /\ parsers[k].path \in AnyPath
      /\ parsers[j].functions \in Seq(Functions)
  <2>1. parsers[j] \in Parsers /\ parsers[k] \in Parsers
    BY <1>1
  <2> QED
    BY <2>1 DEF Parsers
<1>4. /\ parsers[j].path.hops = <<>> /\ parsers[k].path.hops = <<>>
      /\ \A p \in LoadedIn(parsers) : p.hops = <<>>
  BY <1>1, <1>2 DEF ReachInv
<1>5. j \notin {1, k} => parsers[j].path.file # parsers[k].path.file
  <2> SUFFICES ASSUME j # 1, j # k, parsers[j].path.file = parsers[k].path.file
               PROVE  FALSE
    OBVIOUS
  <2>1. parsers[j].path = parsers[k].path
    BY <1>3, <1>4, FilePaths
  <2>2. j \in 2 .. Len(parsers)
    BY <1>1
  <2> QED
    BY <1>1, <1>2, <2>1, <2>2 DEF StackInv
<1>6. ASSUME NEW i \in DOMAIN parsers[j].functions,
             parsers[j].functions[i].file = parsers[k].path.file
      PROVE  FALSE
  <2>1. i \in 1 .. Len(parsers[j].functions)
    BY <1>3
  <2>2. PICK r \in Desc(imports, dir, parsers[j].path) :
          ComesFrom(parsers, j, parsers[j].functions[i].file, r)
    BY <1>1, <1>2, <2>1 DEF OriginInv
  <2>3. r \in AnyPath /\ r.file = parsers[k].path.file
    BY <1>6, <2>2, DescTyped DEF ComesFrom
  <2>4. CASE r \in LoadedIn(parsers) /\ ~OnStack(parsers, r)
    <3>1. r = parsers[k].path
      BY <1>3, <1>4, <2>3, <2>4, FilePaths
    <3> QED
      BY <1>1, <2>4, <3>1 DEF OnStack
  <2>5. CASE r = parsers[j].path /\ parsers[j].declared
    <3>1. j = Len(parsers)
      BY <1>1, <1>2, <2>5 DEF StackInv
    <3>2. j # 1
      BY <1>1, <3>1
    <3>3. j # k
      BY <2>5
    <3> QED
      BY <1>5, <2>3, <2>5, <3>2, <3>3
  <2> QED
    BY <2>2, <2>4, <2>5 DEF ComesFrom
<1> QED
  BY <1>5, <1>6

-----------------------------------------------------------------------------
(* For every program, however its files import each other and wherever     *)
(* they are kept, the parsers are where paths lead and their functions are *)
(* of files of the program.                                                *)
THEOREM StateIsTyped == Spec => []TypeOK
<1>1. Init => IInv
  BY InitEstablishes
<1>2. IInv /\ [Next]_vars => IInv'
  BY StepKeeps
<1>3. IInv => TypeOK
  BY TypesFollow
<1> QED
  BY <1>1, <1>2, <1>3, PTL DEF Spec

(* A compilation that writes C has read every module imported, through     *)
(* cycles and diamonds, and has every function of it but those in error,   *)
(* and one that gives up has a module missing, more than one directory, or *)
(* imports a file that cannot be read, lexed or evaluated.                 *)
THEOREM NothingIsLost == Spec => []CleanExitIsComplete
<1>1. Init => IInv
  BY InitEstablishes
<1>2. IInv /\ [Next]_vars => IInv'
  BY StepKeeps
<1>3. IInv => CleanExitIsComplete
  BY DEF IInv
<1> QED
  BY <1>1, <1>2, <1>3, PTL DEF Spec

(* With all files in one directory none is parsed again while it is being  *)
(* parsed or after its functions have been collected, but for the file     *)
(* given to the compiler.                                                  *)
THEOREM NoneParsedAgain == Spec => []ParsedOnce
<1>1. Init => IInv
  BY InitEstablishes
<1>2. IInv /\ [Next]_vars => IInv'
  BY StepKeeps
<1>3. IInv => ParsedOnce
  BY OnceFollows
<1> QED
  BY <1>1, <1>2, <1>3, PTL DEF Spec

(* If no two declarations of the program but mains share a name, the C     *)
(* program defines no function twice, whatever paths a module is found under; only *)
(* the functions of the file given to the compiler may be there twice, and *)
(* only when a module imports it.                                          *)
THEOREM NoneDefinedTwice == DistinctDefines /\ Spec => []NoDoubleDefinition
<1> SUFFICES ASSUME DistinctDefines PROVE Spec => []NoDoubleDefinition
  OBVIOUS
<1>1. Init => DInv
  BY InitEstablishes DEF DInv
<1>2. DInv /\ [Next]_vars => DInv'
  BY StepKeepsSingle
<1>3. DInv => NoDoubleDefinition
  BY DEF DInv
<1> QED
  BY <1>1, <1>2, <1>3, PTL DEF Spec
=============================================================================
