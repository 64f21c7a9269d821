------------------------ MODULE GenCollectionsProofs ------------------------
(***************************************************************************)
(* Proofs about the vectors, queues and maps of the emitted runtime, for   *)
(* any table sizes, buffers, keys and values.                              *)
(***************************************************************************)
EXTENDS GenCollections, FiniteSetTheorems, SequenceTheorems, TLAPS

Data == Seq(Values \cup {Null})

Vecs == {o \in [len : Nat, data : Data] : o.len <= Len(o.data)}

(* A ring has no positions until it has a buffer. *)
Queues ==
  {o \in [len : Nat, head : Nat, tail : Nat, data : Data] :
     /\ o.len <= Len(o.data)
     /\ IF Len(o.data) = 0 THEN o.head = 0 /\ o.tail = 0
                           ELSE o.head < Len(o.data) /\ o.tail < Len(o.data)}

Sound(kind, o) == (kind = "vec" => o \in Vecs) /\ (kind = "queue" => o \in Queues)

(* Tables have their functions' shape; what is in one has its handle       *)
(* issued and its slot below the capacity.                                 *)
Shape ==
  /\ next = [k \in Kinds |-> next[k]] /\ cap = [k \in Kinds |-> cap[k]]
  /\ objs = [k \in Kinds |-> objs[k]]
  /\ \A k \in Kinds : objs[k] = [h \in Slots |-> objs[k][h]]

Counters ==
  \A k \in Kinds : /\ next[k] \in 1 .. MaxHandles[k] + 1
                   /\ cap[k] \in Nat /\ (cap[k] = 0 \/ cap[k] >= InitialSlots)

SlotOK(k, h, o, n, c) == o # Null => h \in 1 .. n - 1 /\ h < c /\ Sound(k, o)

IInv ==
  /\ Shape
  /\ Counters
  /\ \A k \in Kinds : \A h \in Slots : SlotOK(k, h, objs[k][h], next[k], cap[k])
  /\ FewHandlesFit

-----------------------------------------------------------------------------
LEMMA HandlesHold ==
  ASSUME NEW k \in Kinds
  PROVE  MaxHandles[k] \in Nat /\ 1 .. MaxHandles[k] \subseteq Handles /\ Handles \subseteq Nat
<1> DEFINE R == Range(MaxHandles)
<1>1. R = {MaxHandles[j] : j \in Kinds} /\ \A j \in Kinds : MaxHandles[j] \in Nat
  BY CollectionsAssumption DEF Range
<1>2. \A j \in Kinds : j = "vec" \/ j = "queue" \/ j = "map"
  BY CollectionsAssumption
<1>3. \E m \in R : \A y \in R : m >= y
  <2> DEFINE at(j) == IF j \in Kinds THEN MaxHandles[j] ELSE 0
             v == at("vec")
             q == at("queue")
             m == at("map")
  <2>1. v \in Nat /\ q \in Nat /\ m \in Nat
    BY <1>1
  <2>2. \A y \in R : y = v \/ y = q \/ y = m
    BY <1>1, <1>2
  <2>3. \A y \in {v, q, m} : y \in R \/ y = 0
    BY <1>1
  <2>4. R \subseteq Nat /\ MaxHandles[k] \in R
    BY <1>1
  <2> HIDE DEF v, q, m, R
  <2>8. ASSUME \A y \in R : 0 >= y PROVE \E x \in R : \A y \in R : x >= y
    <3>1. \A y \in R : y = 0
      BY <2>4, <2>8
    <3>2. PICK x \in R : TRUE
      BY <2>4
    <3>3. x = 0 /\ \A y \in R : x >= y
      BY <3>1
    <3> QED
      BY <3>3
  <2>5. CASE v >= q /\ v >= m
    <3>1. \A y \in R : v >= y
      BY <2>1, <2>2, <2>5
    <3>2. CASE v \in R
      BY <3>1, <3>2
    <3>3. CASE v = 0
      BY <2>1, <2>4, <2>8, <3>1, <3>3
    <3> QED
      BY <2>3, <3>2, <3>3
  <2>6. CASE q >= v /\ q >= m
    <3>1. \A y \in R : q >= y
      BY <2>1, <2>2, <2>6
    <3>2. CASE q \in R
      BY <3>1, <3>2
    <3>3. CASE q = 0
      BY <2>1, <2>4, <2>8, <3>1, <3>3
    <3> QED
      BY <2>3, <3>2, <3>3
  <2>7. CASE m >= v /\ m >= q
    <3>1. \A y \in R : m >= y
      BY <2>1, <2>2, <2>7
    <3>2. CASE m \in R
      BY <3>1, <3>2
    <3>3. CASE m = 0
      BY <2>1, <2>4, <2>8, <3>1, <3>3
    <3> QED
      BY <2>3, <3>2, <3>3
  <2> QED
    BY <2>1, <2>5, <2>6, <2>7
<1>4. Max(R) \in R /\ \A y \in R : Max(R) >= y
  <2> HIDE DEF R
  <2> QED
    BY <1>3 DEF Max
<1>5. Handles = 1 .. Max(R)
  BY DEF Handles
<1>6. MaxHandles[k] \in R /\ R \subseteq Nat /\ MaxHandles[k] \in Nat
  BY <1>1
<1> DEFINE w == Max(R)
           a == MaxHandles[k]
<1>7. w \in Nat /\ a \in Nat /\ w >= a /\ Handles = 1 .. w
  BY <1>4, <1>5, <1>6
<1> HIDE DEF w, R
<1> QED
  BY <1>7

LEMMA NewCapIs ==
  ASSUME Counters, NEW k \in Kinds, NEW h \in Nat \ {0}, NEW n, n = NewCap(k, h)
  PROVE  /\ n \in Nat /\ n >= cap[k] /\ n >= InitialSlots
         /\ h >= n => n = h
<1>1. /\ cap[k] \in Nat /\ (cap[k] = 0 \/ cap[k] >= InitialSlots)
      /\ InitialSlots \in Nat \ {0}
  BY CollectionsAssumption DEF Counters
<1> QED
  BY <1>1 DEF NewCap

(* What a call does to the tables. *)
Stays == UNCHANGED <<next, cap, objs, status>>

Changes(k, h, o) ==
  /\ k \in Kinds /\ h \in Slots /\ There(k, h)
  /\ o = Null \/ Sound(k, o)
  /\ Becomes(k, h, o)

Issues(k) ==
  /\ k \in Kinds /\ next[k] <= MaxHandles[k] /\ status = "running"
  /\ NoTable(k, next[k]) \/ PastTable(k, next[k]) \/ Made(k, next[k])

LEMMA StaysKeeps ==
  ASSUME IInv, Stays
  PROVE  IInv'
BY DEF IInv, Stays, Shape, Counters, FewHandlesFit

LEMMA ChangesKeeps ==
  ASSUME IInv, NEW k, NEW h, NEW o, Changes(k, h, o)
  PROVE  IInv'
<1>1. /\ k \in Kinds /\ h \in Slots /\ objs[k][h] # Null
      /\ o = Null \/ Sound(k, o)
      /\ objs' = [objs EXCEPT ![k][h] = o]
      /\ next' = next /\ cap' = cap /\ status' = status
  BY DEF Changes, Becomes, There
<1>2. Shape /\ Counters /\ FewHandlesFit
  BY DEF IInv
<1>3. /\ objs' = [j \in Kinds |-> objs'[j]]
      /\ \A j \in Kinds : objs'[j] = [i \in Slots |-> objs'[j][i]]
      /\ objs'[k][h] = o
      /\ \A j \in Kinds, i \in Slots : j # k \/ i # h => objs'[j][i] = objs[j][i]
  BY <1>1, <1>2 DEF Shape
<1>4. Shape' /\ Counters' /\ FewHandlesFit'
  BY <1>1, <1>2, <1>3 DEF Shape, Counters, FewHandlesFit
<1>5. ASSUME NEW j \in Kinds, NEW i \in Slots
      PROVE  SlotOK(j, i, objs'[j][i], next[j], cap[j])
  <2>1. SlotOK(j, i, objs[j][i], next[j], cap[j])
    BY DEF IInv
  <2>2. CASE j = k /\ i = h
    BY <1>1, <1>3, <2>1, <2>2 DEF SlotOK
  <2>3. CASE j # k \/ i # h
    BY <1>3, <2>1, <2>3
  <2> QED
    BY <2>2, <2>3
<1> QED
  BY <1>1, <1>4, <1>5 DEF IInv

LEMMA NewIsSound ==
  ASSUME NEW k \in Kinds
  PROVE  Sound(k, NewObject(k))
<1>1. <<>> \in Data /\ Len(<<>>) = 0
  BY DEF Data
<1>2. CASE k = "vec"
  BY <1>1, <1>2 DEF Sound, NewObject, Vecs
<1>3. CASE k = "queue"
  BY <1>1, <1>3 DEF Sound, NewObject, Queues
<1>4. CASE k = "map"
  BY <1>4 DEF Sound
<1> QED
  BY <1>2, <1>3, <1>4, CollectionsAssumption

LEMMA IssuesKeeps ==
  ASSUME IInv, NEW k, Issues(k)
  PROVE  IInv'
<1> DEFINE h == next[k]
           n == NewCap(k, h)
<1>1. /\ k \in Kinds /\ h <= MaxHandles[k] /\ status = "running"
      /\ Shape /\ Counters /\ FewHandlesFit
  BY DEF Issues, IInv
<1>2. /\ h \in Nat \ {0} /\ MaxHandles[k] \in Nat /\ h \in Handles /\ h \in Slots
      /\ cap[k] \in Nat /\ InitialSlots \in Nat \ {0}
  BY <1>1, HandlesHold, CollectionsAssumption DEF Counters, Slots
<1>3. /\ n \in Nat /\ n >= cap[k] /\ n >= InitialSlots
      /\ h >= n => n = h
  BY <1>1, <1>2, NewCapIs
<1>4. next' = [next EXCEPT ![k] = h + 1]
  BY DEF Issues, NoTable, PastTable, Made, TakeHandle
<1>5. /\ next' = [j \in Kinds |-> next'[j]]
      /\ next'[k] = h + 1 /\ \A j \in Kinds : j # k => next'[j] = next[j]
  BY <1>1, <1>4 DEF Shape
<1> HIDE DEF n
<1>6. CASE NoTable(k, h)
  <2>1. cap' = cap /\ objs' = objs /\ status' = status
    BY <1>6 DEF NoTable
  <2>2. Shape' /\ FewHandlesFit'
    BY <1>1, <1>5, <2>1 DEF Shape, FewHandlesFit
  <2>3. Counters'
    BY <1>1, <1>2, <1>5, <2>1 DEF Counters
  <2>4. ASSUME NEW j \in Kinds, NEW i \in Slots
        PROVE  SlotOK(j, i, objs[j][i], next'[j], cap[j])
    <3>1. SlotOK(j, i, objs[j][i], next[j], cap[j])
      BY DEF IInv
    <3> QED
      BY <1>2, <1>5, <3>1 DEF SlotOK
  <2> QED
    BY <2>1, <2>2, <2>3, <2>4 DEF IInv
<1>7. CASE PastTable(k, h)
  <2>1. /\ h >= n /\ cap' = [cap EXCEPT ![k] = n] /\ status' = "past" /\ objs' = objs
    BY <1>7 DEF PastTable, n
  <2>2. /\ cap' = [j \in Kinds |-> cap'[j]]
        /\ cap'[k] = n /\ \A j \in Kinds : j # k => cap'[j] = cap[j]
    BY <1>1, <2>1 DEF Shape
  <2>3. Shape'
    BY <1>1, <1>5, <2>1, <2>2 DEF Shape
  <2>4. FewHandlesFit'
    BY <1>1, <1>2, <1>3, <1>5, <2>1, <2>2 DEF FewHandlesFit
  <2>5. Counters'
    BY <1>1, <1>2, <1>3, <1>5, <2>2 DEF Counters
  <2>6. ASSUME NEW j \in Kinds, NEW i \in Slots
        PROVE  SlotOK(j, i, objs[j][i], next'[j], cap'[j])
    <3>1. SlotOK(j, i, objs[j][i], next[j], cap[j])
      BY DEF IInv
    <3>2. i \in Int
      BY <1>1, HandlesHold DEF Slots
    <3> QED
      BY <1>2, <1>3, <1>5, <2>2, <3>1, <3>2 DEF SlotOK
  <2> QED
    BY <2>1, <2>3, <2>4, <2>5, <2>6 DEF IInv
<1>8. CASE Made(k, h)
  <2>1. /\ h < n /\ cap' = [cap EXCEPT ![k] = n] /\ status' = status
        /\ objs' = [objs EXCEPT ![k][h] = NewObject(k)]
    BY <1>8 DEF Made, n
  <2>2. /\ cap' = [j \in Kinds |-> cap'[j]]
        /\ cap'[k] = n /\ \A j \in Kinds : j # k => cap'[j] = cap[j]
    BY <1>1, <2>1 DEF Shape
  <2>3. /\ objs' = [j \in Kinds |-> objs'[j]]
        /\ \A j \in Kinds : objs'[j] = [i \in Slots |-> objs'[j][i]]
        /\ objs'[k][h] = NewObject(k)
        /\ \A j \in Kinds, i \in Slots : j # k \/ i # h => objs'[j][i] = objs[j][i]
    BY <1>1, <1>2, <2>1 DEF Shape
  <2>4. Shape'
    BY <1>5, <2>2, <2>3 DEF Shape
  <2>5. FewHandlesFit'
    BY <1>1, <2>1 DEF FewHandlesFit
  <2>6. Counters'
    BY <1>1, <1>2, <1>3, <1>5, <2>2 DEF Counters
  <2>7. ASSUME NEW j \in Kinds, NEW i \in Slots
        PROVE  SlotOK(j, i, objs'[j][i], next'[j], cap'[j])
    <3>1. SlotOK(j, i, objs[j][i], next[j], cap[j])
      BY DEF IInv
    <3>2. i \in Int
      BY <1>1, HandlesHold DEF Slots
    <3>3. CASE j = k /\ i = h
      BY <1>1, <1>2, <1>5, <2>1, <2>2, <2>3, <3>3, NewIsSound DEF SlotOK
    <3>4. CASE j # k \/ i # h
      <4>1. objs'[j][i] = objs[j][i]
        BY <2>3, <3>4
      <4> QED
        BY <1>2, <1>3, <1>5, <2>2, <3>1, <3>2, <4>1 DEF SlotOK
    <3> QED
      BY <3>3, <3>4
  <2> QED
    BY <2>1, <2>4, <2>5, <2>6, <2>7 DEF IInv
<1> QED
  BY <1>6, <1>7, <1>8 DEF Issues

-----------------------------------------------------------------------------
(* What a call makes of one collection.                                    *)

LEMMA Modulo ==
  ASSUME NEW a \in Nat, NEW n \in Nat \ {0}
  PROVE  /\ a % n \in 0 .. n - 1
         /\ a < n => a % n = a
         /\ n <= a /\ a < n + n => a % n = a - n
<1>1. a % n \in 0 .. n - 1
  OBVIOUS
<1>2. a < n => a % n = a
  OBVIOUS
<1>3. n <= a /\ a < n + n => a % n = a - n
  OBVIOUS
<1> QED
  BY <1>1, <1>2, <1>3

(* A sequence with one member replaced. *)
LEMMA Rewritten ==
  ASSUME NEW S, NEW s \in Seq(S), NEW i \in 1 .. Len(s), NEW x \in S,
         NEW r, r = [s EXCEPT ![i] = x]
  PROVE  /\ r \in Seq(S) /\ Len(r) = Len(s) /\ r[i] = x
         /\ \A j \in 1 .. Len(s) : j # i => r[j] = s[j]
<1>1. r \in Seq(S) /\ Len(r) = Len(s)
  OBVIOUS
<1>2. r[i] = x /\ \A j \in 1 .. Len(s) : j # i => r[j] = s[j]
  OBVIOUS
<1> QED
  BY <1>1, <1>2

LEMMA Filled ==
  ASSUME NEW S, NEW n \in Nat, NEW g \in [1 .. n -> S]
  PROVE  g \in Seq(S) /\ Len(g) = n
OBVIOUS

(* There is room for one element more, and nothing has moved. *)
LEMMA BufferGrows ==
  ASSUME NEW d \in Data, NEW l \in Nat, l <= Len(d), NEW g,
         LET newCap == IF Len(d) = 0 THEN InitialCap ELSE 2 * Len(d)
         IN  g = IF l < Len(d) THEN d
                 ELSE [i \in 1 .. newCap |-> IF i <= Len(d) THEN d[i] ELSE Null]
  PROVE  /\ g \in Data /\ Len(g) \in Nat /\ l < Len(g) /\ Len(d) <= Len(g)
         /\ \A i \in 1 .. Len(d) : g[i] = d[i]
         /\ l < Len(d) => g = d
         /\ Len(d) = 0 => Len(g) = InitialCap
<1> DEFINE c == Len(d)
           n == IF c = 0 THEN InitialCap ELSE 2 * c
<1>1. c \in Nat /\ n \in Nat /\ n > c /\ InitialCap \in Nat \ {0}
  BY CollectionsAssumption DEF Data
<1>2. \A i \in 1 .. c : d[i] \in Values \cup {Null}
  BY DEF Data
<1>3. g = IF l < c THEN d ELSE [i \in 1 .. n |-> IF i <= c THEN d[i] ELSE Null]
  OBVIOUS
<1>4. c = 0 => n = InitialCap
  OBVIOUS
<1>5. c = Len(d) /\ l <= c
  OBVIOUS
<1> HIDE DEF c, n
<1>6. CASE l < c
  BY <1>1, <1>3, <1>5, <1>6
<1>7. CASE ~(l < c)
  <2>1. g = [i \in 1 .. n |-> IF i <= c THEN d[i] ELSE Null]
    BY <1>3, <1>7
  <2>2. \A i \in 1 .. n : (IF i <= c THEN d[i] ELSE Null) \in Values \cup {Null}
    BY <1>1, <1>2
  <2>5. n \in Nat /\ g \in [1 .. n -> Values \cup {Null}]
    BY <1>1, <2>1, <2>2
  <2>3. g \in Data /\ Len(g) = n
    <3>1. g \in Seq(Values \cup {Null}) /\ Len(g) = n
      BY ONLY <2>5, Filled
    <3> QED
      BY <3>1 DEF Data
  <2>4. \A i \in 1 .. c : g[i] = d[i]
    BY <1>1, <2>1
  <2> QED
    BY <1>1, <1>4, <1>5, <1>7, <2>3, <2>4
<1> QED
  BY <1>6, <1>7

VecPushed(v, x) ==
  LET g == Grown(v) IN [g EXCEPT !.data[g.len + 1] = x, !.len = @ + 1]

LEMMA VecPushIs ==
  ASSUME NEW v \in Vecs, NEW x \in Values, NEW p, p = VecPushed(v, x)
  PROVE  /\ p \in Vecs /\ p.len = v.len + 1 /\ p.data[v.len + 1] = x
         /\ \A i \in 1 .. v.len : p.data[i] = v.data[i]
<1> DEFINE d == v.data
           l == v.len
           g == Grown(v)
           e == g.data
<1>1. v \in [len : Nat, data : Data] /\ d \in Data /\ l \in Nat /\ l <= Len(d)
  BY DEF Vecs
<1>2. g = [v EXCEPT !.data = e]
  BY <1>1 DEF Grown
<1>3. e = LET newCap == IF Len(d) = 0 THEN InitialCap ELSE 2 * Len(d)
          IN  IF l < Len(d) THEN d
              ELSE [i \in 1 .. newCap |-> IF i <= Len(d) THEN d[i] ELSE Null]
  BY <1>1 DEF Grown, Cap
<1> HIDE DEF g, e
<1>4. /\ e \in Data /\ Len(e) \in Nat /\ l < Len(e) /\ Len(d) <= Len(e)
      /\ \A i \in 1 .. Len(d) : e[i] = d[i]
  BY <1>1, <1>3, BufferGrows
<1> DEFINE f == [e EXCEPT ![l + 1] = x]
<1>5. p = [len |-> l + 1, data |-> f]
  BY <1>1, <1>2 DEF VecPushed, g
<1>6. l + 1 \in 1 .. Len(e)
  BY <1>1, <1>4
<1>7. /\ f \in Data /\ Len(f) = Len(e) /\ f[l + 1] = x
      /\ \A j \in 1 .. Len(e) : j # l + 1 => f[j] = e[j]
  <2>1. e \in Seq(Values \cup {Null}) /\ x \in Values \cup {Null}
    BY <1>4 DEF Data
  <2> QED
    BY <1>6, <2>1, Rewritten DEF Data
<1> HIDE DEF f, d, l
<1>8. \A i \in 1 .. l : f[i] = d[i]
  BY <1>1, <1>4, <1>7
<1>9. p \in Vecs
  BY <1>1, <1>4, <1>5, <1>6, <1>7 DEF Vecs
<1> QED
  BY <1>5, <1>7, <1>8, <1>9 DEF d, l

VecWritten(v, i, x) == [v EXCEPT !.data[i + 1] = x]

LEMMA VecSetIs ==
  ASSUME NEW v \in Vecs, NEW i \in 0 .. v.len - 1, NEW x \in Values,
         NEW p, p = VecWritten(v, i, x)
  PROVE  /\ p \in Vecs /\ p.len = v.len /\ p.data[i + 1] = x
         /\ \A j \in 1 .. v.len : j # i + 1 => p.data[j] = v.data[j]
<1> DEFINE d == v.data
           l == v.len
           f == [d EXCEPT ![i + 1] = x]
<1>1. v \in [len : Nat, data : Data] /\ d \in Data /\ l \in Nat /\ l <= Len(d)
  BY DEF Vecs
<1>2. p = [len |-> l, data |-> f]
  BY <1>1 DEF VecWritten
<1>3. i + 1 \in 1 .. Len(d) /\ Len(d) \in Nat
  BY <1>1 DEF Data
<1>4. /\ f \in Data /\ Len(f) = Len(d) /\ f[i + 1] = x
      /\ \A j \in 1 .. Len(d) : j # i + 1 => f[j] = d[j]
  <2>1. d \in Seq(Values \cup {Null}) /\ x \in Values \cup {Null}
    BY <1>1 DEF Data
  <2> QED
    BY <1>3, <2>1, Rewritten DEF Data
<1> HIDE DEF f, d, l
<1>5. p \in Vecs
  BY <1>1, <1>2, <1>4 DEF Vecs
<1>6. \A j \in 1 .. l : j # i + 1 => f[j] = d[j]
  BY <1>1, <1>3, <1>4
<1>7. p.len = l /\ p.data = f
  BY <1>2
<1> QED
  BY <1>4, <1>5, <1>6, <1>7 DEF d, l

QueuePushed(o, x) ==
  LET q == Grown(o)
  IN  [q EXCEPT !.data[q.tail + 1] = x, !.tail = After(q, q.tail), !.len = @ + 1]

(* The ring after a push; the buffer it had, if that was not full. *)
LEMMA QueuePushIs ==
  ASSUME NEW o \in Queues, NEW x \in Values, NEW p, p = QueuePushed(o, x)
  PROVE  /\ p \in Queues
         /\ p.len = o.len + 1 /\ p.head = o.head
         /\ p.data[o.tail + 1] = x /\ Len(p.data) > 0
         /\ p.tail = (o.tail + 1) % Len(p.data)
         /\ \A j \in 1 .. Len(o.data) : j # o.tail + 1 => p.data[j] = o.data[j]
         /\ Len(o.data) = 0 => Len(p.data) = InitialCap
         /\ o.len < Len(o.data) => Len(p.data) = Len(o.data)
<1> DEFINE d == o.data
           l == o.len
           t == o.tail
           g == Grown(o)
           e == g.data
<1>1. /\ o \in [len : Nat, head : Nat, tail : Nat, data : Data]
      /\ d \in Data /\ l \in Nat /\ t \in Nat /\ o.head \in Nat /\ l <= Len(d)
      /\ IF Len(d) = 0 THEN o.head = 0 /\ t = 0 ELSE o.head < Len(d) /\ t < Len(d)
  BY DEF Queues
<1>2. g = [o EXCEPT !.data = e]
  BY <1>1 DEF Grown
<1>3. e = LET newCap == IF Len(d) = 0 THEN InitialCap ELSE 2 * Len(d)
          IN  IF l < Len(d) THEN d
              ELSE [i \in 1 .. newCap |-> IF i <= Len(d) THEN d[i] ELSE Null]
  BY <1>1 DEF Grown, Cap
<1> HIDE DEF g, e
<1>4. /\ e \in Data /\ Len(e) \in Nat /\ l < Len(e) /\ Len(d) <= Len(e)
      /\ \A i \in 1 .. Len(d) : e[i] = d[i]
      /\ l < Len(d) => e = d
      /\ Len(d) = 0 => Len(e) = InitialCap
  BY <1>1, <1>3, BufferGrows
<1> DEFINE f == [e EXCEPT ![t + 1] = x]
           u == (t + 1) % Len(e)
<1>5. p = [len |-> l + 1, head |-> o.head, tail |-> u, data |-> f]
  BY <1>1, <1>2 DEF QueuePushed, After, Cap, g
<1>6. t + 1 \in 1 .. Len(e) /\ t < Len(e) /\ o.head < Len(e) /\ Len(d) \in Nat
  BY <1>1, <1>4 DEF Data
<1>7. /\ f \in Data /\ Len(f) = Len(e) /\ f[t + 1] = x
      /\ \A j \in 1 .. Len(e) : j # t + 1 => f[j] = e[j]
  <2>1. e \in Seq(Values \cup {Null}) /\ x \in Values \cup {Null}
    BY <1>4 DEF Data
  <2> QED
    BY <1>6, <2>1, Rewritten DEF Data
<1>8. u \in Nat /\ u < Len(e)
  <2>1. t + 1 \in Nat /\ Len(e) \in Nat \ {0}
    BY <1>1, <1>4
  <2>2. u \in 0 .. Len(e) - 1
    BY <2>1, Modulo
  <2> QED
    BY <2>1, <2>2
<1>9. u = (t + 1) % Len(f)
  BY <1>7
<1> HIDE DEF f, d, l, t, u
<1>10. \A i \in 1 .. Len(d) : i # t + 1 => f[i] = d[i]
  BY <1>4, <1>6, <1>7
<1>11. p \in Queues
  BY <1>1, <1>4, <1>5, <1>6, <1>7, <1>8 DEF Queues
<1>12. p.len = l + 1 /\ p.head = o.head /\ p.tail = u /\ p.data = f
  BY <1>5
<1> QED
  BY <1>1, <1>4, <1>7, <1>9, <1>10, <1>11, <1>12 DEF d, l, t

LEMMA PoppedIs ==
  ASSUME NEW o \in Queues, o.len > 0, NEW p, p = Popped(o)
  PROVE  /\ p \in Queues
         /\ p.len = o.len - 1 /\ p.tail = o.tail /\ p.data = o.data
         /\ p.head = (o.head + 1) % Len(o.data)
<1> DEFINE d == o.data
           l == o.len
           u == (o.head + 1) % Len(d)
<1>1. /\ o \in [len : Nat, head : Nat, tail : Nat, data : Data]
      /\ d \in Data /\ l \in Nat /\ o.tail \in Nat /\ o.head \in Nat /\ l <= Len(d)
      /\ IF Len(d) = 0 THEN o.head = 0 /\ o.tail = 0 ELSE o.head < Len(d) /\ o.tail < Len(d)
  BY DEF Queues
<1>2. p = [len |-> l - 1, head |-> u, tail |-> o.tail, data |-> d]
  BY <1>1 DEF Popped, After, Cap
<1>3. Len(d) \in Nat \ {0} /\ o.head + 1 \in Nat /\ l > 0
  BY <1>1 DEF Data
<1>4. u \in 0 .. Len(d) - 1
  BY <1>3, Modulo
<1>5. l - 1 \in Nat /\ l - 1 <= Len(d) /\ u \in Nat /\ u < Len(d) /\ Len(d) # 0 /\ o.tail < Len(d)
  BY <1>1, <1>3, <1>4
<1>6. p.len = l - 1 /\ p.head = u /\ p.tail = o.tail /\ p.data = d
  BY <1>2
<1> HIDE DEF d, l, u
<1>7. p \in Queues
  BY <1>1, <1>2, <1>5 DEF Queues
<1> QED
  BY <1>6, <1>7 DEF d, l, u

-----------------------------------------------------------------------------
(* Every call leaves the tables alone, changes one collection or issues a  *)
(* handle.                                                                 *)

LEMMA FailsStays ==
  ASSUME Fails
  PROVE  Stays
BY DEF Fails, Unchanged, Stays

LEMMA ThereIs ==
  ASSUME IInv, NEW k, NEW h, There(k, h), h \in Slots \cup {-1}
  PROVE  k \in Kinds /\ h \in Slots /\ objs[k][h] # Null /\ Sound(k, objs[k][h])
<1>1. k \in Kinds /\ h \in 0 .. cap[k] - 1 /\ objs[k][h] # Null
  BY DEF There, InTable
<1>2. h # -1
  BY <1>1 DEF IInv, Counters
<1>3. SlotOK(k, h, objs[k][h], next[k], cap[k])
  BY <1>1, <1>2 DEF IInv
<1> QED
  BY <1>1, <1>2, <1>3 DEF SlotOK

LEMMA NewKeeps ==
  ASSUME IInv, status = "running", NEW k \in Kinds, New(k)
  PROVE  IInv'
<1>1. CASE Fails
  BY <1>1, FailsStays, StaysKeeps
<1>2. CASE next[k] <= MaxHandles[k] /\ ~Fails
  <2>1. Issues(k)
    BY <1>2 DEF New, Issues
  <2> QED
    BY <2>1, IssuesKeeps
<1> QED
  BY <1>1, <1>2 DEF New

LEMMA FreeKeeps ==
  ASSUME IInv, NEW k, NEW h \in Slots \cup {-1}, Free(k, h)
  PROVE  IInv'
<1>1. CASE Fails
  BY <1>1, FailsStays, StaysKeeps
<1>2. CASE There(k, h) /\ Becomes(k, h, Null)
  <2>1. Changes(k, h, Null)
    BY <1>2, ThereIs DEF Changes
  <2> QED
    BY <2>1, ChangesKeeps
<1> QED
  BY <1>1, <1>2 DEF Free

LEMMA LengthKeeps ==
  ASSUME IInv, NEW k, NEW h, Length(k, h)
  PROVE  IInv'
<1>1. Stays
  BY FailsStays DEF Length, Unchanged, Stays
<1> QED
  BY <1>1, StaysKeeps

LEMMA VecPushKeeps ==
  ASSUME IInv, NEW h \in Slots, NEW x \in Values, vec_push(h, x)
  PROVE  IInv'
<1>1. CASE Fails
  BY <1>1, FailsStays, StaysKeeps
<1>2. CASE There("vec", h) /\ ~Fails
  <2> DEFINE v == objs["vec"][h]
             p == VecPushed(v, x)
  <2>1. Becomes("vec", h, p)
    BY <1>2 DEF vec_push, VecPushed
  <2>2. "vec" \in Kinds /\ v \in Vecs
    BY <1>2, ThereIs DEF Sound
  <2> HIDE DEF v, p
  <2>3. p \in Vecs
    <3>1. p = VecPushed(v, x)
      BY DEF p
    <3> QED
      BY <2>2, <3>1, VecPushIs
  <2>4. Changes("vec", h, p)
    BY <1>2, <2>1, <2>2, <2>3 DEF Changes, Sound
  <2> QED
    BY <2>4, ChangesKeeps
<1> QED
  BY <1>1, <1>2 DEF vec_push

LEMMA VecGetKeeps ==
  ASSUME IInv, NEW h, NEW i, vec_get(h, i)
  PROVE  IInv'
<1>1. Stays
  BY FailsStays DEF vec_get, VecMisses, Unchanged, Stays
<1> QED
  BY <1>1, StaysKeeps

LEMMA VecSetKeeps ==
  ASSUME IInv, NEW h \in Slots, NEW i, NEW x \in Values, vec_set(h, i, x)
  PROVE  IInv'
<1>1. CASE VecMisses(h, i)
  BY <1>1, FailsStays, StaysKeeps DEF VecMisses
<1>2. CASE VecHas(h, i) /\ ~VecMisses(h, i)
  <2> DEFINE v == objs["vec"][h]
             p == VecWritten(v, i, x)
  <2>1. Becomes("vec", h, p) /\ There("vec", h) /\ i \in 0 .. v.len - 1
    BY <1>2 DEF vec_set, VecHas, VecWritten
  <2>2. "vec" \in Kinds /\ v \in Vecs
    BY <2>1, ThereIs DEF Sound
  <2>3. p = VecWritten(v, i, x)
    OBVIOUS
  <2> HIDE DEF v, p
  <2>4. p \in Vecs
    BY ONLY <2>1, <2>2, <2>3, VecSetIs, x \in Values
  <2>5. Changes("vec", h, p)
    BY <2>1, <2>2, <2>4 DEF Changes, Sound
  <2> QED
    BY <2>5, ChangesKeeps
<1> QED
  BY <1>1, <1>2 DEF vec_set

LEMMA QueuePushKeeps ==
  ASSUME IInv, NEW h \in Slots, NEW x \in Values, queue_push(h, x)
  PROVE  IInv'
<1>1. CASE Fails
  BY <1>1, FailsStays, StaysKeeps
<1>2. CASE There("queue", h) /\ ~Fails
  <2> DEFINE v == objs["queue"][h]
             p == QueuePushed(v, x)
  <2>1. Becomes("queue", h, p)
    BY <1>2 DEF queue_push, QueuePushed
  <2>2. "queue" \in Kinds /\ v \in Queues
    BY <1>2, ThereIs DEF Sound
  <2> HIDE DEF v, p
  <2>3. p \in Queues
    <3>1. p = QueuePushed(v, x)
      BY DEF p
    <3> QED
      BY <2>2, <3>1, QueuePushIs
  <2>4. Changes("queue", h, p)
    BY <1>2, <2>1, <2>2, <2>3 DEF Changes, Sound
  <2> QED
    BY <2>4, ChangesKeeps
<1> QED
  BY <1>1, <1>2 DEF queue_push

LEMMA QueuePopKeeps ==
  ASSUME IInv, NEW h \in Slots, queue_pop(h)
  PROVE  IInv'
<1>1. CASE Fails
  BY <1>1, FailsStays, StaysKeeps
<1>2. CASE QueueFilled(h) /\ ~Fails
  <2> DEFINE v == objs["queue"][h]
             p == Popped(v)
  <2>1. Becomes("queue", h, p) /\ There("queue", h) /\ v.len > 0
    BY <1>2 DEF queue_pop, QueueFilled
  <2>2. "queue" \in Kinds /\ v \in Queues
    BY <2>1, ThereIs DEF Sound
  <2>3. p = Popped(v)
    OBVIOUS
  <2> HIDE DEF v, p
  <2>4. p \in Queues
    BY ONLY <2>1, <2>2, <2>3, PoppedIs
  <2>5. Changes("queue", h, p)
    BY <2>1, <2>2, <2>4 DEF Changes, Sound
  <2> QED
    BY <2>5, ChangesKeeps
<1> QED
  BY <1>1, <1>2 DEF queue_pop

LEMMA QueuePeekKeeps ==
  ASSUME IInv, NEW h, queue_peek(h)
  PROVE  IInv'
<1>1. Stays
  BY FailsStays DEF queue_peek, Unchanged, Stays
<1> QED
  BY <1>1, StaysKeeps

LEMMA MapSetKeeps ==
  ASSUME IInv, NEW h \in Slots, NEW key, NEW x, map_set(h, key, x)
  PROVE  IInv'
<1>1. CASE Fails
  BY <1>1, FailsStays, StaysKeeps
<1>2. CASE There("map", h) /\ ~Fails
  <2>1. "map" \in Kinds
    BY <1>2, ThereIs
  <2>2. Becomes("map", h, Assigned(objs["map"][h], key, x))
    BY <1>2 DEF map_set
  <2>3. Changes("map", h, Assigned(objs["map"][h], key, x))
    BY <1>2, <2>1, <2>2 DEF Changes, Sound
  <2> QED
    BY <2>3, ChangesKeeps
<1> QED
  BY <1>1, <1>2 DEF map_set

LEMMA MapReadKeeps ==
  ASSUME IInv, NEW h, NEW key, map_get(h, key) \/ map_has(h, key)
  PROVE  IInv'
<1>1. Stays
  BY FailsStays DEF map_get, map_has, Unchanged, Stays
<1> QED
  BY <1>1, StaysKeeps

LEMMA InitIsSound ==
  ASSUME Init
  PROVE  IInv
<1>1. Shape
  BY DEF Init, Shape
<1>2. Counters
  BY HandlesHold DEF Init, Counters
<1>3. \A k \in Kinds : \A h \in Slots : SlotOK(k, h, objs[k][h], next[k], cap[k])
  BY DEF Init, SlotOK
<1> QED
  BY <1>1, <1>2, <1>3 DEF IInv, Init, FewHandlesFit

LEMMA StepKeeps ==
  IInv /\ [Next]_vars => IInv'
<1> SUFFICES ASSUME IInv, [Next]_vars PROVE IInv'
  OBVIOUS
<1>1. CASE UNCHANGED vars
  BY <1>1, StaysKeeps DEF vars, Stays
<1>2. CASE Next
  <2>1. status = "running" /\ Call
    BY <1>2 DEF Next
  <2>2. ASSUME NEW k \in Kinds, New(k) PROVE IInv'
    BY <2>1, <2>2, NewKeeps
  <2>3. ASSUME NEW k \in Kinds, NEW h \in Slots \cup {-1}, Free(k, h) \/ Length(k, h)
        PROVE  IInv'
    BY <2>3, FreeKeeps, LengthKeeps
  <2>4. ASSUME NEW h \in Slots, NEW x \in Values, vec_push(h, x) \/ queue_push(h, x)
        PROVE  IInv'
    BY <2>4, VecPushKeeps, QueuePushKeeps
  <2>5. ASSUME NEW h \in Slots, NEW i \in Index,
               vec_get(h, i) \/ \E x \in Values : vec_set(h, i, x)
        PROVE  IInv'
    BY <2>5, VecGetKeeps, VecSetKeeps
  <2>6. ASSUME NEW h \in Slots, queue_pop(h) \/ queue_peek(h) PROVE IInv'
    BY <2>6, QueuePopKeeps, QueuePeekKeeps
  <2>7. ASSUME NEW h \in Slots, NEW key \in Keys,
               \/ map_get(h, key)
               \/ map_has(h, key)
               \/ \E x \in Values : map_set(h, key, x)
        PROVE  IInv'
    BY <2>7, MapReadKeeps, MapSetKeeps
  <2> QED
    BY <2>1, <2>2, <2>3, <2>4, <2>5, <2>6, <2>7 DEF Call
<1> QED
  BY <1>1, <1>2

THEOREM Invariance == Spec => []IInv
BY InitIsSound, StepKeeps, PTL DEF Spec

LEMMA SoundBuffer ==
  ASSUME NEW k, k = "vec" \/ k = "queue", NEW o, Sound(k, o)
  PROVE  /\ BufferOK(o)
         /\ k = "queue" /\ Cap(o) > 0 => {o.head, o.tail} \subseteq 0 .. Cap(o) - 1
<1>1. o.len \in Nat /\ o.data \in Data /\ o.len <= Len(o.data) /\ Len(o.data) \in Nat
  BY DEF Sound, Vecs, Queues, Data
<1>2. \A i \in DOMAIN o.data : o.data[i] \in Values \cup {Null}
  BY <1>1 DEF Data
<1>3. BufferOK(o)
  BY <1>1, <1>2 DEF BufferOK, Cap
<1>4. ASSUME k = "queue", Cap(o) > 0
      PROVE  {o.head, o.tail} \subseteq 0 .. Cap(o) - 1
  <2>1. o \in Queues
    BY <1>4 DEF Sound
  <2>2. o.head \in Nat /\ o.tail \in Nat /\ o.head < Len(o.data) /\ o.tail < Len(o.data)
    BY <1>1, <1>4, <2>1 DEF Queues, Cap
  <2> QED
    BY <1>1, <2>2 DEF Cap
<1> QED
  BY <1>3, <1>4

(* Every collection there is has its handle issued and its slot in the     *)
(* table, its length within its buffer and, in a queue, both ring          *)
(* positions too (_dmc_resize and the growth of vec_push and queue_push).  *)
THEOREM StateIsTyped == Spec => []TypeOK
<1>1. IInv => TypeOK
  <2> SUFFICES ASSUME IInv PROVE TypeOK
    OBVIOUS
  <2>1. \A k \in Kinds : next[k] \in 1 .. MaxHandles[k] + 1 /\ cap[k] \in Nat
    BY DEF IInv, Counters
  <2>2. ASSUME NEW c \in Live
        PROVE  LET o == objs[c[1]][c[2]] IN
               /\ c[2] < next[c[1]] /\ c[2] < cap[c[1]]
               /\ c[1] # "map" => BufferOK(o)
               /\ c[1] = "queue" /\ Cap(o) > 0 => {o.head, o.tail} \subseteq 0 .. Cap(o) - 1
    <3> DEFINE k == c[1]
               h == c[2]
               o == objs[k][h]
    <3>1. k \in Kinds /\ h \in Slots /\ o # Null
      BY DEF Live, Slots
    <3>2. SlotOK(k, h, o, next[k], cap[k])
      BY <3>1 DEF IInv
    <3>3. next[k] \in Nat /\ (k = "vec" \/ k = "queue" \/ k = "map")
      <4>1. MaxHandles[k] \in Nat
        BY <3>1, HandlesHold
      <4>2. next[k] \in 1 .. MaxHandles[k] + 1
        BY <2>1, <3>1
      <4>3. k \in {"vec", "queue", "map"}
        BY <3>1, CollectionsAssumption
      <4> HIDE DEF k
      <4> QED
        BY <4>1, <4>2, <4>3
    <3> HIDE DEF k, h, o
    <3>4. h < next[k] /\ h < cap[k] /\ Sound(k, o)
      BY <3>1, <3>2, <3>3 DEF SlotOK
    <3>5. k # "map" => BufferOK(o)
      BY <3>3, <3>4, SoundBuffer
    <3>6. k = "queue" /\ Cap(o) > 0 => {o.head, o.tail} \subseteq 0 .. Cap(o) - 1
      BY <3>4, SoundBuffer
    <3> QED
      BY <3>4, <3>5, <3>6 DEF k, h, o
  <2> QED
    BY <2>1, <2>2 DEF TypeOK
<1> QED
  BY <1>1, Invariance, PTL

(* A handle goes past its table only when as many collections of its kind  *)
(* were made as the table holds, and more than its first size: the off by  *)
(* one of the _new calls (_dmc_resize is asked for h slots for handle h)   *)
(* needs a full table, however many failures and frees came before.        *)
THEOREM OnlyAFullTableIsPassed == Spec => []FewHandlesFit
BY Invariance, PTL DEF IInv

-----------------------------------------------------------------------------
(* The refinement.  First the steps of Collections, in terms of the value  *)
(* its variable live has here.                                             *)

Abs == [c \in Live |-> Content(c)]

Nothing(kind) == IF kind = "map" THEN [k \in {} |-> 0] ELSE <<>>

Promised == Promise!Next \/ Promise!NotThere

LEMMA StepRefused ==
  ASSUME reply' = -1, Abs' = Abs
  PROVE  Promised
BY DEF Promised, Promise!Next, Promise!Refused, Promise!Answers, Abs

LEMMA StepNotThere ==
  ASSUME reply' = 0, Abs' = Abs
  PROVE  Promised
BY DEF Promised, Promise!NotThere, Promise!Answers, Abs

LEMMA StepNew ==
  ASSUME NEW c \in Kinds \X Handles, c \notin DOMAIN Abs, reply' = c[2],
         Abs' = [d \in DOMAIN Abs \cup {c} |-> IF d = c THEN Nothing(c[1]) ELSE Abs[d]]
  PROVE  Promised
<1>1. Promise!New(c)
  BY DEF Promise!New, Promise!Empty, Nothing, Abs
<1> QED
  BY <1>1 DEF Promised, Promise!Next

LEMMA StepFree ==
  ASSUME NEW c \in DOMAIN Abs, reply' = 0,
         Abs' = [d \in DOMAIN Abs \ {c} |-> Abs[d]]
  PROVE  Promised
<1>1. Promise!Free(c)
  BY DEF Promise!Free, Abs
<1> QED
  BY <1>1 DEF Promised, Promise!Next, Abs

LEMMA StepLength ==
  ASSUME NEW c \in DOMAIN Abs, Abs' = Abs,
         reply' = IF c[1] = "map" THEN Cardinality(DOMAIN Abs[c]) ELSE Len(Abs[c])
  PROVE  Promised
<1>1. Promise!Cardinality(DOMAIN Abs[c]) = Cardinality(DOMAIN Abs[c])
  BY DEF Promise!Cardinality, Cardinality
<1>2. Promise!Length(c)
  BY <1>1 DEF Promise!Length, Promise!Answers, Abs
<1> QED
  BY <1>2 DEF Promised, Promise!Next, Abs

LEMMA StepPush ==
  ASSUME NEW c \in DOMAIN Abs, c[1] = "vec" \/ c[1] = "queue", NEW x \in Values,
         reply' = 0, Abs' = [Abs EXCEPT ![c] = Append(Abs[c], x)]
  PROVE  Promised
<1>1. Promise!Push(c, x)
  BY DEF Promise!Push, Promise!Becomes, Abs
<1>2. c \in Promise!Of("vec") \/ c \in Promise!Of("queue")
  BY DEF Promise!Of, Abs
<1> QED
  BY <1>1, <1>2 DEF Promised, Promise!Next

LEMMA StepVecSet ==
  ASSUME NEW c \in DOMAIN Abs, c[1] = "vec", NEW i \in DOMAIN Abs[c], NEW x \in Values,
         reply' = 0, Abs' = [Abs EXCEPT ![c] = [Abs[c] EXCEPT ![i] = x]]
  PROVE  Promised
<1>1. Promise!VecSet(c, i, x)
  BY DEF Promise!VecSet, Promise!Becomes, Abs
<1>2. c \in Promise!Of("vec")
  BY DEF Promise!Of, Abs
<1> QED
  BY <1>1, <1>2 DEF Promised, Promise!Next, Abs

LEMMA StepVecGet ==
  ASSUME NEW c \in DOMAIN Abs, c[1] = "vec", NEW i \in DOMAIN Abs[c],
         reply' = Abs[c][i], Abs' = Abs
  PROVE  Promised
<1>1. Promise!VecGet(c, i)
  BY DEF Promise!VecGet, Promise!Answers, Abs
<1>2. c \in Promise!Of("vec")
  BY DEF Promise!Of, Abs
<1> QED
  BY <1>1, <1>2 DEF Promised, Promise!Next, Abs

LEMMA StepPop ==
  ASSUME NEW c \in DOMAIN Abs, c[1] = "queue", Abs[c] # <<>>,
         reply' = Head(Abs[c]), Abs' = [Abs EXCEPT ![c] = Tail(Abs[c])]
  PROVE  Promised
<1>1. Promise!Pop(c)
  BY DEF Promise!Pop, Promise!Becomes, Abs
<1>2. c \in Promise!Of("queue")
  BY DEF Promise!Of, Abs
<1> QED
  BY <1>1, <1>2 DEF Promised, Promise!Next

LEMMA StepPeek ==
  ASSUME NEW c \in DOMAIN Abs, c[1] = "queue", Abs[c] # <<>>,
         reply' = Head(Abs[c]), Abs' = Abs
  PROVE  Promised
<1>1. Promise!Peek(c)
  BY DEF Promise!Peek, Promise!Answers, Abs
<1>2. c \in Promise!Of("queue")
  BY DEF Promise!Of, Abs
<1> QED
  BY <1>1, <1>2 DEF Promised, Promise!Next

LEMMA StepGet ==
  ASSUME NEW c \in DOMAIN Abs, c[1] = "map", NEW k \in Keys, k \in DOMAIN Abs[c],
         reply' = Abs[c][k], Abs' = Abs
  PROVE  Promised
<1>1. Promise!Get(c, k)
  BY DEF Promise!Get, Promise!Answers, Abs
<1>2. c \in Promise!Of("map")
  BY DEF Promise!Of, Abs
<1> QED
  BY <1>1, <1>2 DEF Promised, Promise!Next

LEMMA StepHas ==
  ASSUME NEW c \in DOMAIN Abs, c[1] = "map", NEW k \in Keys,
         reply' = IF k \in DOMAIN Abs[c] THEN 1 ELSE 0, Abs' = Abs
  PROVE  Promised
<1>1. Promise!Has(c, k)
  BY DEF Promise!Has, Promise!Answers, Abs
<1>2. c \in Promise!Of("map")
  BY DEF Promise!Of, Abs
<1> QED
  BY <1>1, <1>2 DEF Promised, Promise!Next

LEMMA StepPut ==
  ASSUME NEW c \in DOMAIN Abs, c[1] = "map", NEW k \in Keys, NEW x \in Values,
         reply' = 0,
         Abs' = [Abs EXCEPT ![c] = [j \in DOMAIN Abs[c] \cup {k} |->
                                      IF j = k THEN x ELSE Abs[c][j]]]
  PROVE  Promised
<1>1. Promise!Put(c, k, x)
  BY DEF Promise!Put, Promise!Becomes, Abs
<1>2. c \in Promise!Of("map")
  BY DEF Promise!Of, Abs
<1> QED
  BY <1>1, <1>2 DEF Promised, Promise!Next

-----------------------------------------------------------------------------
(* What a collection means, and what makes its meaning that of the         *)
(* specification: a vector and a ring hold values, not what realloc left,  *)
(* where they have elements; a ring's tail is its head and length further  *)
(* on; a map has one node for a key and counts its keys.                   *)

Meaning(k, o) ==
  CASE k = "vec"   -> [i \in 1 .. o.len |-> At(o, i - 1)]
    [] k = "queue" -> [i \in 1 .. o.len |-> At(o, (o.head + i - 1) % Cap(o))]
    [] k = "map"   ->
         [key \in {j \in Keys : Nodes(o, j) # {}} |->
            LET i == CHOOSE i \in Nodes(o, key) : TRUE
            IN  o.buckets[Bucket(key)][i].value]

WholeVec(o) == o \in Vecs /\ \A i \in 1 .. o.len : o.data[i] \in Values

(* The place of the i-th element, in a buffer of n. *)
Place(o, i, n) == ((o.head + i - 1) % n) + 1

WholeRing(o) ==
  /\ o \in Queues
  /\ Len(o.data) = 0 \/ Len(o.data) = InitialCap
  /\ Len(o.data) # 0 => /\ o.tail = (o.head + o.len) % Len(o.data)
                        /\ \A i \in 1 .. o.len : o.data[Place(o, i, Len(o.data))] \in Values

Node == [key : Keys, value : Values]

KeysIn(m) == {k \in Keys : Nodes(m, k) # {}}

Maps ==
  {m \in [used : Nat, buckets : {<<>>} \cup [1 .. Buckets -> Seq(Node)]] :
     /\ \A k \in Keys : \A i, j \in Nodes(m, k) : i = j
     /\ IsFiniteSet(KeysIn(m)) /\ m.used = Cardinality(KeysIn(m))}

Whole(k, o) ==
  /\ k = "vec" => WholeVec(o)
  /\ k = "queue" => WholeRing(o)
  /\ k = "map" => o \in Maps

WholeAll == \A k \in Kinds : \A h \in Slots : objs[k][h] # Null => Whole(k, objs[k][h])

(* The values are those of a C int, no queue holds more than its first     *)
(* buffer, and no value or collection is Null.                             *)
FirstBuffers ==
  /\ \A v \in Values : ToInt(v) = v
  /\ "queue" \in Kinds => MaxLen["queue"] \in Nat /\ MaxLen["queue"] <= InitialCap
  /\ Null \notin Values \cup Vecs \cup Queues \cup Maps

LEMMA AppendIs ==
  ASSUME NEW S, NEW s \in Seq(S), NEW x \in S, NEW r \in Seq(S),
         Len(r) = Len(s) + 1, r[Len(s) + 1] = x, \A i \in 1 .. Len(s) : r[i] = s[i]
  PROVE  r = Append(s, x)
<1>1. Append(s, x) \in Seq(S) /\ Len(Append(s, x)) = Len(s) + 1 /\ Len(s) \in Nat
  OBVIOUS
<1>2. \A i \in 1 .. Len(s) + 1 : Append(s, x)[i] = r[i]
  <2> SUFFICES ASSUME NEW i \in 1 .. Len(s) + 1 PROVE Append(s, x)[i] = r[i]
    OBVIOUS
  <2>1. CASE i = Len(s) + 1
    BY <1>1, <2>1
  <2>2. CASE i \in 1 .. Len(s)
    BY <1>1, <2>2
  <2> QED
    BY <1>1, <2>1, <2>2
<1> QED
  BY <1>1, <1>2, SeqEqual

LEMMA TailIs ==
  ASSUME NEW S, NEW s \in Seq(S), s # <<>>, NEW r \in Seq(S),
         Len(r) = Len(s) - 1, \A i \in 1 .. Len(r) : r[i] = s[i + 1]
  PROVE  r = Tail(s)
<1>1. Tail(s) \in Seq(S) /\ Len(Tail(s)) = Len(s) - 1 /\ Len(s) \in Nat
  OBVIOUS
<1>2. \A i \in 1 .. Len(r) : Tail(s)[i] = r[i]
  BY <1>1
<1> QED
  BY <1>1, <1>2, SeqEqual

(* The sequences that vectors and queues mean. *)
LEMMA VecMeans ==
  ASSUME NEW v, WholeVec(v)
  PROVE  /\ Meaning("vec", v) \in Seq(Values) /\ Len(Meaning("vec", v)) = v.len
         /\ v.len \in Nat /\ v.len <= Len(v.data) /\ v \in Vecs
         /\ \A i \in 1 .. v.len : Meaning("vec", v)[i] = v.data[i] /\ v.data[i] \in Values
<1> DEFINE l == v.len
           d == v.data
           m == [i \in 1 .. l |-> d[i]]
<1>1. l \in Nat /\ l <= Len(d) /\ v \in Vecs /\ \A i \in 1 .. l : d[i] \in Values
  BY DEF WholeVec, Vecs
<1>2. Meaning("vec", v) = m
  BY <1>1 DEF Meaning, At
<1>3. m \in [1 .. l -> Values] /\ l \in Nat
  BY <1>1
<1>4. m \in Seq(Values) /\ Len(m) = l
  BY ONLY <1>3, Filled
<1>5. \A i \in 1 .. l : m[i] = d[i]
  OBVIOUS
<1> HIDE DEF m
<1> QED
  BY <1>1, <1>2, <1>4, <1>5

LEMMA RingMeans ==
  ASSUME NEW o, WholeRing(o)
  PROVE  /\ Meaning("queue", o) \in Seq(Values) /\ Len(Meaning("queue", o)) = o.len
         /\ o.len \in Nat /\ o.len <= Len(o.data) /\ o \in Queues
         /\ \A i \in 1 .. o.len :
              /\ Meaning("queue", o)[i] = o.data[Place(o, i, Len(o.data))]
              /\ o.data[Place(o, i, Len(o.data))] \in Values
<1> DEFINE l == o.len
           d == o.data
           m == [i \in 1 .. l |-> d[Place(o, i, Len(d))]]
<1>1. l \in Nat /\ l <= Len(d) /\ o \in Queues /\ Len(d) \in Nat
  BY DEF WholeRing, Queues, Data
<1>2. Meaning("queue", o) = m
  BY <1>1 DEF Meaning, At, Place, Cap
<1>3. \A i \in 1 .. l : d[Place(o, i, Len(d))] \in Values
  <2>1. CASE Len(d) = 0
    BY <1>1, <2>1
  <2>2. CASE Len(d) # 0
    BY <2>2 DEF WholeRing
  <2> QED
    BY <2>1, <2>2
<1>4. m \in [1 .. l -> Values] /\ l \in Nat
  BY <1>1, <1>3
<1>5. m \in Seq(Values) /\ Len(m) = l
  BY ONLY <1>4, Filled
<1>6. \A i \in 1 .. l : m[i] = d[Place(o, i, Len(d))]
  OBVIOUS
<1> HIDE DEF m
<1> QED
  BY <1>1, <1>2, <1>3, <1>5, <1>6

LEMMA VecPushMeans ==
  ASSUME FirstBuffers, NEW v, WholeVec(v), NEW x \in Values, NEW p, p = VecPushed(v, x)
  PROVE  WholeVec(p) /\ Meaning("vec", p) = Append(Meaning("vec", v), x)
<1>1. /\ p \in Vecs /\ p.len = v.len + 1 /\ p.data[v.len + 1] = x
      /\ \A i \in 1 .. v.len : p.data[i] = v.data[i]
  BY VecPushIs DEF WholeVec
<1>2. /\ Meaning("vec", v) \in Seq(Values) /\ Len(Meaning("vec", v)) = v.len
      /\ v.len \in Nat
      /\ \A i \in 1 .. v.len : Meaning("vec", v)[i] = v.data[i] /\ v.data[i] \in Values
  BY VecMeans
<1>3. \A i \in 1 .. v.len + 1 : i \in 1 .. v.len \/ i = v.len + 1
  BY <1>2
<1>4. WholeVec(p)
  BY <1>1, <1>2, <1>3 DEF WholeVec
<1>5. /\ Meaning("vec", p) \in Seq(Values) /\ Len(Meaning("vec", p)) = p.len
      /\ \A i \in 1 .. p.len : Meaning("vec", p)[i] = p.data[i]
  BY <1>4, VecMeans
<1> DEFINE s == Meaning("vec", v)
           r == Meaning("vec", p)
<1>6. /\ s \in Seq(Values) /\ r \in Seq(Values) /\ Len(r) = Len(s) + 1
      /\ r[Len(s) + 1] = x /\ \A i \in 1 .. Len(s) : r[i] = s[i]
  BY <1>1, <1>2, <1>5
<1> HIDE DEF s, r
<1>7. r = Append(s, x)
  BY ONLY <1>6, AppendIs, x \in Values
<1> QED
  BY <1>4, <1>7 DEF s, r

LEMMA VecSetMeans ==
  ASSUME NEW v, WholeVec(v), NEW i \in 0 .. v.len - 1, NEW x \in Values,
         NEW p, p = VecWritten(v, i, x)
  PROVE  WholeVec(p) /\ Meaning("vec", p) = [Meaning("vec", v) EXCEPT ![i + 1] = x]
<1>1. /\ p \in Vecs /\ p.len = v.len /\ p.data[i + 1] = x
      /\ \A j \in 1 .. v.len : j # i + 1 => p.data[j] = v.data[j]
  <2>1. v \in Vecs
    BY DEF WholeVec
  <2> QED
    BY <2>1, VecSetIs
<1>2. /\ Meaning("vec", v) \in Seq(Values) /\ Len(Meaning("vec", v)) = v.len
      /\ v.len \in Nat
      /\ \A j \in 1 .. v.len : Meaning("vec", v)[j] = v.data[j] /\ v.data[j] \in Values
  BY VecMeans
<1>3. WholeVec(p)
  BY <1>1, <1>2 DEF WholeVec
<1>4. /\ Meaning("vec", p) \in Seq(Values) /\ Len(Meaning("vec", p)) = p.len
      /\ \A j \in 1 .. p.len : Meaning("vec", p)[j] = p.data[j]
  BY <1>3, VecMeans
<1> DEFINE s == Meaning("vec", v)
           r == Meaning("vec", p)
           t == [s EXCEPT ![i + 1] = x]
<1>5. s \in Seq(Values) /\ r \in Seq(Values) /\ Len(r) = Len(s) /\ i + 1 \in 1 .. Len(s)
  BY <1>1, <1>2, <1>4
<1>6. r[i + 1] = x /\ \A j \in 1 .. Len(s) : j # i + 1 => r[j] = s[j]
  <2>1. i + 1 \in 1 .. v.len
    BY <1>2
  <2>2. r[i + 1] = x
    BY <1>1, <1>4, <2>1
  <2>3. ASSUME NEW j \in 1 .. v.len, j # i + 1 PROVE r[j] = s[j]
    <3>1. r[j] = p.data[j]
      BY <1>1, <1>4
    <3>2. p.data[j] = v.data[j] /\ s[j] = v.data[j]
      BY <1>1, <1>2, <2>3
    <3> QED
      BY <3>1, <3>2
  <2> HIDE DEF s, r
  <2> QED
    BY <2>2, <2>3, <1>2 DEF s
<1>7. t = [s EXCEPT ![i + 1] = x]
  OBVIOUS
<1> HIDE DEF s, r, t
<1>8. /\ t \in Seq(Values) /\ Len(t) = Len(s) /\ t[i + 1] = x
      /\ \A j \in 1 .. Len(s) : j # i + 1 => t[j] = s[j]
  BY ONLY <1>5, <1>7, Rewritten, x \in Values
<1>9. \A j \in 1 .. Len(r) : r[j] = t[j]
  BY <1>5, <1>6, <1>8
<1>10. r = t
  BY ONLY <1>5, <1>8, <1>9, SeqEqual
<1> QED
  BY <1>3, <1>7, <1>10 DEF s, r

(* Positions in a ring of n. *)
LEMMA RingStep ==
  ASSUME NEW n \in Nat \ {0}, NEW h \in 0 .. n - 1, NEW a \in 0 .. n
  PROVE  (h + a) % n = IF h + a < n THEN h + a ELSE h + a - n
<1>1. h + a \in Nat /\ h + a < n + n
  OBVIOUS
<1>2. CASE h + a < n
  BY <1>1, <1>2, Modulo
<1>3. CASE n <= h + a
  <2> DEFINE b == h + a
  <2>1. b \in Nat /\ b < n + n /\ n <= b
    BY <1>1, <1>3
  <2> HIDE DEF b
  <2>2. b % n = b - n
    BY <2>1, Modulo
  <2> QED
    BY <1>3, <2>2 DEF b
<1> QED
  BY <1>1, <1>2, <1>3

LEMMA RingArithmetic ==
  ASSUME NEW n \in Nat \ {0}, NEW h \in 0 .. n - 1, NEW l \in 0 .. n
  PROVE  /\ l < n => (((h + l) % n) + 1) % n = (h + (l + 1)) % n
         /\ \A i \in 1 .. l : l < n => (h + i - 1) % n # (h + l) % n
         /\ l > 0 => (((h + 1) % n) + (l - 1)) % n = (h + l) % n
         /\ \A i \in 1 .. l - 1 : (((h + 1) % n) + i - 1) % n = (h + (i + 1) - 1) % n
<1>1. ASSUME l < n PROVE (((h + l) % n) + 1) % n = (h + (l + 1)) % n
  <2>1. (h + l) % n = IF h + l < n THEN h + l ELSE h + l - n
    BY RingStep
  <2>2. (h + (l + 1)) % n = IF h + (l + 1) < n THEN h + (l + 1) ELSE h + (l + 1) - n
    <3>1. l + 1 \in 0 .. n
      BY <1>1
    <3> QED
      BY <3>1, RingStep
  <2> DEFINE t == (h + l) % n
  <2>3. t \in 0 .. n - 1
    BY <2>1, <1>1
  <2>4. (t + 1) % n = IF t + 1 < n THEN t + 1 ELSE t + 1 - n
    <3>1. 1 \in 0 .. n
      OBVIOUS
    <3> HIDE DEF t
    <3> QED
      BY <2>3, <3>1, RingStep
  <2> QED
    BY <1>1, <2>1, <2>2, <2>4
<1>2. ASSUME NEW i \in 1 .. l, l < n PROVE (h + i - 1) % n # (h + l) % n
  <2> DEFINE a == i - 1
  <2>1. a \in 0 .. n /\ a < l /\ h + i - 1 = h + a
    BY <1>2
  <2>2. (h + l) % n = IF h + l < n THEN h + l ELSE h + l - n
    BY RingStep
  <2> HIDE DEF a
  <2>3. (h + a) % n = IF h + a < n THEN h + a ELSE h + a - n
    BY <2>1, RingStep
  <2> QED
    BY <1>2, <2>1, <2>2, <2>3
<1> DEFINE g == (h + 1) % n
<1>3. g = (IF h + 1 < n THEN h + 1 ELSE h + 1 - n) /\ g \in 0 .. n - 1
  <2>1. 1 \in 0 .. n
    OBVIOUS
  <2>2. g = IF h + 1 < n THEN h + 1 ELSE h + 1 - n
    BY <2>1, RingStep
  <2> QED
    BY <2>2
<1> HIDE DEF g
<1>4. ASSUME l > 0 PROVE (g + (l - 1)) % n = (h + l) % n
  <2> DEFINE a == l - 1
  <2>1. a \in 0 .. n /\ a < n
    BY <1>4
  <2>2. (h + l) % n = IF h + l < n THEN h + l ELSE h + l - n
    BY RingStep
  <2>3. l = a + 1
    OBVIOUS
  <2> HIDE DEF a
  <2>4. (g + a) % n = IF g + a < n THEN g + a ELSE g + a - n
    BY <1>3, <2>1, RingStep
  <2>5. (g + a) % n = (h + l) % n
    BY <1>3, <2>1, <2>2, <2>3, <2>4
  <2> QED
    BY <2>5 DEF a
<1>5. ASSUME NEW i \in 1 .. l - 1 PROVE (g + i - 1) % n = (h + (i + 1) - 1) % n
  <2> DEFINE a == i - 1
  <2>1. a \in 0 .. n /\ i \in 0 .. n /\ i < n /\ i = a + 1 /\ g + i - 1 = g + a /\ h + (i + 1) - 1 = h + i
    BY <1>3
  <2> HIDE DEF a
  <2>2. (h + i) % n = IF h + i < n THEN h + i ELSE h + i - n
    BY <2>1, RingStep
  <2>3. (g + a) % n = IF g + a < n THEN g + a ELSE g + a - n
    BY <1>3, <2>1, RingStep
  <2>4. (g + a) % n = (h + i) % n
    BY <1>3, <2>1, <2>2, <2>3
  <2> QED
    BY <2>1, <2>4
<1> QED
  BY <1>1, <1>2, <1>4, <1>5 DEF g

LEMMA RingPushMeans ==
  ASSUME FirstBuffers, NEW o, WholeRing(o), o.len < InitialCap,
         NEW x \in Values, NEW p, p = QueuePushed(o, x)
  PROVE  WholeRing(p) /\ Meaning("queue", p) = Append(Meaning("queue", o), x)
<1> DEFINE d == o.data
           l == o.len
           h == o.head
           n == Len(p.data)
<1>1. /\ p \in Queues
      /\ p.len = l + 1 /\ p.head = h
      /\ p.data[o.tail + 1] = x /\ n > 0
      /\ p.tail = (o.tail + 1) % n
      /\ \A j \in 1 .. Len(d) : j # o.tail + 1 => p.data[j] = d[j]
      /\ Len(d) = 0 => n = InitialCap
      /\ l < Len(d) => n = Len(d)
  BY QueuePushIs DEF WholeRing
<1>2. /\ Meaning("queue", o) \in Seq(Values) /\ Len(Meaning("queue", o)) = l
      /\ l \in Nat /\ l <= Len(d)
      /\ \A i \in 1 .. l : /\ Meaning("queue", o)[i] = d[Place(o, i, Len(d))]
                           /\ d[Place(o, i, Len(d))] \in Values
  BY RingMeans
<1>3. /\ h \in Nat /\ o.tail \in Nat /\ Len(d) \in Nat /\ InitialCap \in Nat \ {0}
      /\ IF Len(d) = 0 THEN h = 0 /\ o.tail = 0 ELSE h < Len(d) /\ o.tail < Len(d)
      /\ Len(d) = 0 \/ Len(d) = InitialCap
      /\ Len(d) # 0 => o.tail = (h + l) % Len(d)
  BY CollectionsAssumption DEF WholeRing, Queues, Data
<1>4. n = InitialCap /\ l < n /\ h < n
  BY <1>1, <1>2, <1>3
<1>5. o.tail = (h + l) % n
  <2>1. CASE Len(d) = 0
    <3>1. h + l = 0 /\ 0 \in Nat /\ 0 < n
      BY <1>2, <1>3, <1>4, <2>1
    <3>2. (h + l) % n = 0
      BY <1>3, <1>4, <3>1, Modulo
    <3> QED
      BY <1>3, <2>1, <3>2
  <2>2. CASE Len(d) # 0
    BY <1>3, <1>4, <2>2
  <2> QED
    BY <2>1, <2>2
<1> DEFINE at(i) == (h + i - 1) % n
<1>6. /\ n \in Nat \ {0} /\ h \in 0 .. n - 1 /\ l \in 0 .. n
      /\ (((h + l) % n) + 1) % n = (h + (l + 1)) % n
      /\ \A i \in 1 .. l : at(i) # (h + l) % n /\ at(i) \in 0 .. n - 1
  <2>1. n \in Nat \ {0} /\ h \in 0 .. n - 1 /\ l \in 0 .. n
    BY <1>2, <1>3, <1>4
  <2>2. \A i \in 1 .. l : at(i) \in 0 .. n - 1
    <3> SUFFICES ASSUME NEW i \in 1 .. l PROVE at(i) \in 0 .. n - 1
      OBVIOUS
    <3>1. h + i - 1 \in Nat
      BY <2>1
    <3> HIDE DEF n, h, l
    <3> QED
      BY <2>1, <3>1, Modulo
  <2> HIDE DEF n, h, l
  <2>4. l < n
    BY <1>4
  <2>5. l < n => (((h + l) % n) + 1) % n = (h + (l + 1)) % n
    BY ONLY <2>1, RingArithmetic
  <2>6. \A i \in 1 .. l : l < n => (h + i - 1) % n # (h + l) % n
    BY ONLY <2>1, RingArithmetic
  <2>3. /\ (((h + l) % n) + 1) % n = (h + (l + 1)) % n
        /\ \A i \in 1 .. l : (h + i - 1) % n # (h + l) % n
    BY <2>4, <2>5, <2>6
  <2> QED
    BY <2>1, <2>2, <2>3
<1>7. p.tail = (p.head + p.len) % n
  BY <1>1, <1>5, <1>6
<1>8. \A i \in 1 .. l + 1 : Place(p, i, n) = at(i) + 1
  BY <1>1 DEF Place
<1>9. ASSUME NEW i \in 1 .. l
      PROVE  p.data[at(i) + 1] = Meaning("queue", o)[i] /\ p.data[at(i) + 1] \in Values
  <2>1. Len(d) = n
    BY <1>2, <1>3, <1>4
  <2>2. Place(o, i, Len(d)) = at(i) + 1
    BY <2>1 DEF Place
  <2>3. at(i) + 1 \in 1 .. Len(d) /\ at(i) + 1 # o.tail + 1
    <3>1. at(i) \in 0 .. n - 1 /\ at(i) # o.tail
      BY <1>5, <1>6
    <3> HIDE DEF at, n, d
    <3> QED
      BY <1>3, <2>1, <3>1
  <2>4. p.data[at(i) + 1] = d[at(i) + 1]
    BY <1>1, <2>3
  <2> QED
    BY <1>2, <2>2, <2>4
<1>10. at(l + 1) = o.tail
  <2>1. h + (l + 1) - 1 = h + l
    BY <1>2, <1>3
  <2> QED
    BY <1>5, <2>1
<1>11. \A i \in 1 .. l + 1 : p.data[Place(p, i, n)] \in Values
  <2> SUFFICES ASSUME NEW i \in 1 .. l + 1 PROVE p.data[Place(p, i, n)] \in Values
    OBVIOUS
  <2>1. i \in 1 .. l \/ i = l + 1
    BY <1>2
  <2> QED
    BY <1>1, <1>8, <1>9, <1>10, <2>1
<1>12. WholeRing(p)
  BY <1>1, <1>4, <1>7, <1>11 DEF WholeRing
<1>13. /\ Meaning("queue", p) \in Seq(Values) /\ Len(Meaning("queue", p)) = p.len
       /\ \A i \in 1 .. p.len : Meaning("queue", p)[i] = p.data[Place(p, i, n)]
  BY <1>12, RingMeans
<1> DEFINE s == Meaning("queue", o)
           r == Meaning("queue", p)
<1>14. s \in Seq(Values) /\ r \in Seq(Values) /\ Len(r) = Len(s) + 1
  BY <1>1, <1>2, <1>13
<1>15. r[Len(s) + 1] = x
  <2>1. l + 1 \in 1 .. p.len
    BY <1>1, <1>2
  <2>2. r[l + 1] = p.data[Place(p, l + 1, n)]
    BY <1>13, <2>1
  <2>3. l + 1 \in 1 .. l + 1
    BY <1>2
  <2>4. Place(p, l + 1, n) = o.tail + 1
    BY <1>8, <1>10, <2>3
  <2>5. r[l + 1] = x
    BY <1>1, <2>2, <2>4
  <2> QED
    BY <1>2, <2>5
<1>16. \A i \in 1 .. Len(s) : r[i] = s[i]
  <2> SUFFICES ASSUME NEW i \in 1 .. l PROVE r[i] = s[i]
    BY <1>2
  <2>1. i \in 1 .. p.len /\ i \in 1 .. l + 1
    BY <1>1, <1>2
  <2> QED
    BY <1>8, <1>9, <1>13, <2>1
<1> HIDE DEF s, r
<1>17. r = Append(s, x)
  BY ONLY <1>14, <1>15, <1>16, AppendIs, x \in Values
<1> QED
  BY <1>12, <1>17 DEF s, r

LEMMA RingPopMeans ==
  ASSUME NEW o, WholeRing(o), o.len > 0, NEW p, p = Popped(o)
  PROVE  /\ WholeRing(p) /\ Meaning("queue", p) = Tail(Meaning("queue", o))
         /\ Meaning("queue", o) # <<>>
         /\ Head(Meaning("queue", o)) = At(o, o.head) /\ At(o, o.head) \in Values
<1> DEFINE d == o.data
           l == o.len
           h == o.head
           n == Len(d)
<1>1. /\ p \in Queues /\ p.len = l - 1 /\ p.tail = o.tail /\ p.data = d
      /\ p.head = (h + 1) % n
  BY PoppedIs DEF WholeRing
<1>2. /\ Meaning("queue", o) \in Seq(Values) /\ Len(Meaning("queue", o)) = l
      /\ l \in Nat /\ l <= n
      /\ \A i \in 1 .. l : /\ Meaning("queue", o)[i] = d[Place(o, i, n)]
                           /\ d[Place(o, i, n)] \in Values
  BY RingMeans
<1>3. /\ n \in Nat \ {0} /\ h \in 0 .. n - 1 /\ l \in 1 .. n
      /\ n = InitialCap /\ o.tail = (h + l) % n
  BY <1>2 DEF WholeRing, Queues, Data
<1>4. /\ (((h + 1) % n) + (l - 1)) % n = (h + l) % n
      /\ \A i \in 1 .. l - 1 : (((h + 1) % n) + i - 1) % n = (h + (i + 1) - 1) % n
  <2>1. l \in 0 .. n /\ l > 0
    BY <1>3
  <2> HIDE DEF n, h, l
  <2> QED
    BY <1>3, <2>1, RingArithmetic
<1>5. p.tail = (p.head + p.len) % n
  BY <1>1, <1>3, <1>4
<1>6. ASSUME NEW i \in 1 .. l - 1
      PROVE  /\ p.data[Place(p, i, n)] = Meaning("queue", o)[i + 1]
             /\ p.data[Place(p, i, n)] \in Values
  <2>1. Place(p, i, n) = Place(o, i + 1, n)
    BY <1>1, <1>4 DEF Place
  <2>2. i + 1 \in 1 .. l
    BY <1>3
  <2> QED
    BY <1>1, <1>2, <2>1, <2>2
<1>7. WholeRing(p)
  BY <1>1, <1>3, <1>5, <1>6 DEF WholeRing
<1>8. /\ Meaning("queue", p) \in Seq(Values) /\ Len(Meaning("queue", p)) = p.len
      /\ \A i \in 1 .. p.len : Meaning("queue", p)[i] = p.data[Place(p, i, n)]
  BY <1>1, <1>7, RingMeans
<1> DEFINE s == Meaning("queue", o)
           r == Meaning("queue", p)
<1>9. s \in Seq(Values) /\ r \in Seq(Values) /\ Len(r) = Len(s) - 1 /\ Len(s) > 0
  BY <1>1, <1>2, <1>3, <1>8
<1>10. \A i \in 1 .. Len(r) : r[i] = s[i + 1]
  BY <1>1, <1>6, <1>8
<1>11. s[1] = At(o, h) /\ s[1] \in Values
  <2>1. Place(o, 1, n) = h + 1
    <3>1. h + 1 - 1 = h /\ h \in Nat /\ h < n
      BY <1>3
    <3>2. h % n = h
      BY <1>3, <3>1, Modulo
    <3> QED
      BY <3>1, <3>2 DEF Place
  <2>2. 1 \in 1 .. l
    BY <1>3
  <2> QED
    BY <1>2, <2>1, <2>2 DEF At
<1> HIDE DEF s, r
<1>12. s # <<>> /\ Head(s) = s[1]
  BY <1>9
<1>13. r = Tail(s)
  BY ONLY <1>9, <1>10, <1>12, TailIs
<1> QED
  BY <1>7, <1>11, <1>12, <1>13 DEF s, r

(* The chains of a map. *)
AllChains == [1 .. Buckets -> Seq(Node)]

LEMMA BucketIs ==
  ASSUME NEW key \in Keys
  PROVE  Bucket(key) \in 1 .. Buckets
<1>1. key \in Int /\ Buckets \in Nat \ {0}
  BY CollectionsAssumption
<1>2. key % Buckets \in 0 .. Buckets - 1
  BY <1>1
<1> QED
  BY <1>1, <1>2 DEF Bucket

LEMMA FilledChains ==
  ASSUME NEW B \in AllChains
  PROVE  B # <<>>
<1>1. DOMAIN B = 1 .. Buckets /\ 1 \in 1 .. Buckets
  BY CollectionsAssumption DEF AllChains
<1>2. DOMAIN <<>> = {}
  OBVIOUS
<1> QED
  BY <1>1, <1>2

LEMMA ChainsAre ==
  ASSUME NEW m, m.buckets \in {<<>>} \cup AllChains
  PROVE  /\ Chains(m) \in AllChains
         /\ m.buckets # <<>> => Chains(m) = m.buckets
         /\ m.buckets = <<>> => \A b \in 1 .. Buckets : Chains(m)[b] = <<>>
<1>1. CASE m.buckets = <<>>
  <2>1. Chains(m) = [b \in 1 .. Buckets |-> <<>>]
    BY <1>1 DEF Chains
  <2>2. <<>> \in Seq(Node)
    OBVIOUS
  <2> QED
    BY <1>1, <2>1, <2>2 DEF AllChains
<1>2. CASE m.buckets # <<>>
  BY <1>2 DEF Chains
<1> QED
  BY <1>1, <1>2

LEMMA NodesAre ==
  ASSUME NEW m, m.buckets \in {<<>>} \cup AllChains, NEW key \in Keys,
         NEW s, s = Chains(m)[Bucket(key)]
  PROVE  /\ s \in Seq(Node) /\ DOMAIN s = 1 .. Len(s) /\ Len(s) \in Nat
         /\ Nodes(m, key) = {i \in 1 .. Len(s) : s[i].key = key}
         /\ Nodes(m, key) # {} => Chains(m) = m.buckets
<1>1. Bucket(key) \in 1 .. Buckets /\ Chains(m) \in AllChains
  BY BucketIs, ChainsAre
<1>2. s \in Seq(Node)
  BY <1>1 DEF AllChains
<1>3. DOMAIN s = 1 .. Len(s) /\ Len(s) \in Nat
  BY <1>2
<1>4. Nodes(m, key) = {i \in 1 .. Len(s) : s[i].key = key}
  BY <1>3 DEF Nodes
<1>5. ASSUME Nodes(m, key) # {} PROVE Chains(m) = m.buckets
  <2>1. CASE m.buckets = <<>>
    <3>1. s = <<>>
      BY <1>1, <2>1, ChainsAre
    <3>2. Len(s) = 0
      BY <3>1
    <3> QED
      BY <1>4, <1>5, <3>2
  <2>2. CASE m.buckets # <<>>
    BY <2>2, ChainsAre
  <2> QED
    BY <2>1, <2>2
<1> QED
  BY <1>2, <1>3, <1>4, <1>5

LEMMA MapMeans ==
  ASSUME NEW m \in Maps
  PROVE  /\ m.used \in Nat /\ m.buckets \in {<<>>} \cup AllChains
         /\ DOMAIN Meaning("map", m) = KeysIn(m)
         /\ Meaning("map", m) = [k \in KeysIn(m) |-> Meaning("map", m)[k]]
         /\ \A k \in KeysIn(m) : \A i \in Nodes(m, k) :
              /\ Meaning("map", m)[k] = Chains(m)[Bucket(k)][i].value
              /\ m.buckets[Bucket(k)][i].value = Chains(m)[Bucket(k)][i].value
              /\ Chains(m)[Bucket(k)][i].value \in Values
<1>1. m.used \in Nat /\ m.buckets \in {<<>>} \cup AllChains
  BY DEF Maps, AllChains
<1> DEFINE val(k) == LET i == CHOOSE i \in Nodes(m, k) : TRUE
                     IN  m.buckets[Bucket(k)][i].value
<1>2. Meaning("map", m) = [k \in KeysIn(m) |-> val(k)]
  BY DEF Meaning, KeysIn
<1>3. ASSUME NEW k \in KeysIn(m), NEW i \in Nodes(m, k)
      PROVE  /\ val(k) = Chains(m)[Bucket(k)][i].value
             /\ m.buckets[Bucket(k)][i].value = Chains(m)[Bucket(k)][i].value
             /\ Chains(m)[Bucket(k)][i].value \in Values
  <2> DEFINE s == Chains(m)[Bucket(k)]
  <2>1. k \in Keys /\ s = Chains(m)[Bucket(k)]
    BY DEF KeysIn
  <2> HIDE DEF s
  <2>2. /\ s \in Seq(Node) /\ Len(s) \in Nat
        /\ Nodes(m, k) = {j \in 1 .. Len(s) : s[j].key = k}
        /\ Chains(m) = m.buckets
    BY <1>1, <2>1, NodesAre
  <2>3. i \in 1 .. Len(s) /\ s[i] \in Node
    BY <2>2
  <2>4. s[i].value \in Values
    BY <2>3 DEF Node
  <2>5. \A j \in Nodes(m, k) : j = i
    BY <2>1 DEF Maps
  <2>6. (CHOOSE j \in Nodes(m, k) : TRUE) = i
    BY <2>5
  <2>7. val(k) = m.buckets[Bucket(k)][i].value
    BY <2>6
  <2> QED
    BY <2>1, <2>2, <2>4, <2>7
<1> HIDE DEF val
<1> QED
  BY <1>1, <1>2, <1>3

LEMMA Prepended ==
  ASSUME NEW S, NEW s \in Seq(S), NEW e \in S, NEW r, r = <<e>> \o s
  PROVE  /\ r \in Seq(S) /\ Len(r) = Len(s) + 1 /\ r[1] = e
         /\ \A i \in 1 .. Len(s) : r[i + 1] = s[i]
<1>1. <<e>> \in Seq(S) /\ Len(<<e>>) = 1 /\ <<e>>[1] = e
  OBVIOUS
<1>2. r \in Seq(S) /\ Len(r) = Len(s) + 1
  BY <1>1
<1>3. r[1] = e
  BY <1>1
<1>4. \A i \in 1 .. Len(s) : r[i + 1] = s[i]
  BY <1>1
<1> QED
  BY <1>2, <1>3, <1>4

NodeOf(key, x) == [key |-> key, value |-> x]

(* map_set gives the key's node the value, or puts a node in front of the  *)
(* key's chain; the other chains stay.                                     *)
LEMMA AssignedIs ==
  ASSUME NEW m \in Maps, NEW key \in Keys, NEW x \in Values,
         NEW p, p = Assigned(m, key, x), NEW b, b = Bucket(key)
  PROVE  /\ p = [used |-> p.used, buckets |-> p.buckets]
         /\ p.buckets \in AllChains
         /\ \A c \in 1 .. Buckets : c # b => p.buckets[c] = Chains(m)[c]
         /\ Nodes(m, key) # {} =>
              /\ p.used = m.used /\ Len(p.buckets[b]) = Len(Chains(m)[b])
              /\ \A i \in 1 .. Len(Chains(m)[b]) :
                   p.buckets[b][i] = IF i \in Nodes(m, key) THEN NodeOf(key, x)
                                                            ELSE Chains(m)[b][i]
         /\ Nodes(m, key) = {} =>
              /\ p.used = m.used + 1 /\ Len(p.buckets[b]) = Len(Chains(m)[b]) + 1
              /\ p.buckets[b][1] = NodeOf(key, x)
              /\ \A i \in 1 .. Len(Chains(m)[b]) : p.buckets[b][i + 1] = Chains(m)[b][i]
<1> DEFINE C == Chains(m)
           s == C[b]
           N == Nodes(m, key)
           node == NodeOf(key, x)
<1>1. /\ b \in 1 .. Buckets /\ m.buckets \in {<<>>} \cup AllChains /\ C \in AllChains
      /\ m \in [used : Nat, buckets : {<<>>} \cup AllChains]
  BY BucketIs, MapMeans, ChainsAre DEF Maps, AllChains
<1>2. /\ s \in Seq(Node) /\ DOMAIN s = 1 .. Len(s) /\ Len(s) \in Nat
      /\ N \subseteq 1 .. Len(s)
  <2>1. s = Chains(m)[Bucket(key)]
    OBVIOUS
  <2> HIDE DEF s
  <2> QED
    BY <1>1, <2>1, NodesAre
<1>6. N # {} => C = m.buckets
  BY <1>1, NodesAre
<1>3. node \in Node
  BY DEF NodeOf, Node
<1>4. CASE N # {}
  <2> DEFINE t == [i \in 1 .. Len(s) |-> IF i \in N THEN node ELSE s[i]]
             B == [C EXCEPT ![b] = t]
  <2>1. C = m.buckets
    BY <1>4, <1>6
  <2>2. p = [m EXCEPT !.buckets = [m.buckets EXCEPT ![b] =
               [i \in DOMAIN m.buckets[b] |-> IF i \in N THEN node ELSE m.buckets[b][i]]]]
    BY <1>4 DEF Assigned, NodeOf
  <2> HIDE DEF C, N
  <2>10. p = [m EXCEPT !.buckets = [C EXCEPT ![b] =
               [i \in DOMAIN C[b] |-> IF i \in N THEN node ELSE C[b][i]]]]
    BY ONLY <2>1, <2>2
  <2>3. p = [m EXCEPT !.buckets = B]
    BY ONLY <1>2, <2>10
  <2>4. t \in [1 .. Len(s) -> Node] /\ Len(s) \in Nat
    BY <1>2, <1>3
  <2>5. t \in Seq(Node) /\ Len(t) = Len(s)
    BY ONLY <2>4, Filled
  <2>6. \A i \in 1 .. Len(s) : t[i] = IF i \in N THEN node ELSE s[i]
    OBVIOUS
  <2> HIDE DEF t
  <2>7. B \in AllChains /\ B[b] = t /\ \A c \in 1 .. Buckets : c # b => B[c] = C[c]
    BY <1>1, <2>5 DEF AllChains
  <2>8. p = [used |-> m.used, buckets |-> B]
    BY <1>1, <2>3
  <2>9. p.used = m.used /\ p.buckets = B
    BY <2>8
  <2> HIDE DEF B
  <2> QED
    BY <1>4, <2>5, <2>6, <2>7, <2>8, <2>9 DEF C, N
<1>5. CASE N = {}
  <2> DEFINE t == <<node>> \o s
             B == [C EXCEPT ![b] = t]
  <2>1. p = [used |-> m.used + 1, buckets |-> B]
    BY <1>5 DEF Assigned, NodeOf
  <2>2. t = <<node>> \o s
    OBVIOUS
  <2> HIDE DEF t, node, s
  <2>3. /\ t \in Seq(Node) /\ Len(t) = Len(s) + 1 /\ t[1] = node
        /\ \A i \in 1 .. Len(s) : t[i + 1] = s[i]
    BY ONLY <1>2, <1>3, <2>2, Prepended
  <2>4. B \in AllChains /\ B[b] = t /\ \A c \in 1 .. Buckets : c # b => B[c] = C[c]
    BY <1>1, <2>3 DEF AllChains
  <2>5. p.used = m.used + 1 /\ p.buckets = B
    BY <2>1
  <2> HIDE DEF B
  <2> QED
    BY <1>5, <2>1, <2>3, <2>4, <2>5 DEF node, s
<1> QED
  BY <1>4, <1>5

LEMMA KeyPut ==
  ASSUME NEW m \in Maps, NEW key \in Keys, NEW x \in Values,
         NEW p, p = Assigned(m, key, x)
  PROVE  /\ \A i, j \in Nodes(p, key) : i = j
         /\ Nodes(p, key) # {}
         /\ \A i \in Nodes(p, key) : Chains(p)[Bucket(key)][i].value = x
<1> DEFINE b == Bucket(key)
           s == Chains(m)[b]
           r == Chains(p)[b]
           N == Nodes(m, key)
           node == NodeOf(key, x)
<1>1. /\ m.buckets \in {<<>>} \cup AllChains
      /\ p.buckets \in {<<>>} \cup AllChains /\ p.buckets \in AllChains
  BY AssignedIs, MapMeans
<1>2. Chains(p) = p.buckets /\ r = p.buckets[b]
  BY <1>1, FilledChains, ChainsAre
<1>3. /\ s \in Seq(Node) /\ Len(s) \in Nat /\ N = {i \in 1 .. Len(s) : s[i].key = key}
  BY <1>1, NodesAre
<1>4. /\ r \in Seq(Node) /\ Len(r) \in Nat
      /\ Nodes(p, key) = {i \in 1 .. Len(r) : r[i].key = key}
  BY <1>1, NodesAre
<1>5. node.key = key /\ node.value = x
  BY DEF NodeOf
<1>6. CASE N # {}
  <2>1. /\ Len(r) = Len(s)
        /\ \A i \in 1 .. Len(s) : r[i] = IF i \in N THEN node ELSE s[i]
    BY <1>2, <1>6, AssignedIs
  <2> HIDE DEF r, s, node
  <2>2. Nodes(p, key) = N
    BY <1>3, <1>4, <1>5, <2>1
  <2>3. \A i \in N : r[i].value = x
    BY <1>3, <1>5, <2>1
  <2>4. \A i, j \in N : i = j
    BY DEF Maps
  <2> QED
    BY <1>6, <2>2, <2>3, <2>4 DEF r
<1>7. CASE N = {}
  <2>1. /\ Len(r) = Len(s) + 1 /\ r[1] = node
        /\ \A i \in 1 .. Len(s) : r[i + 1] = s[i]
    BY <1>2, <1>7, AssignedIs
  <2> HIDE DEF r, s, node
  <2>2. ASSUME NEW i \in Nodes(p, key) PROVE i = 1
    <3>1. i \in 1 .. Len(s) + 1 /\ r[i].key = key
      BY <1>4, <2>1
    <3>2. CASE i # 1
      <4> DEFINE j == i - 1
      <4>1. j \in 1 .. Len(s) /\ i = j + 1
        BY <1>3, <3>1, <3>2
      <4> HIDE DEF j
      <4>2. s[j].key = key
        BY <2>1, <3>1, <4>1
      <4> QED
        BY <1>3, <1>7, <4>1, <4>2
    <3> QED
      BY <3>2
  <2>3. 1 \in Nodes(p, key) /\ r[1].value = x
    BY <1>3, <1>4, <1>5, <2>1
  <2> QED
    BY <2>2, <2>3 DEF r
<1> QED
  BY <1>6, <1>7

LEMMA KeyKept ==
  ASSUME NEW m \in Maps, NEW key \in Keys, NEW x \in Values,
         NEW p, p = Assigned(m, key, x), NEW k \in Keys, k # key
  PROVE  /\ \A i, j \in Nodes(p, k) : i = j
         /\ Nodes(p, k) # {} <=> Nodes(m, k) # {}
         /\ \A i \in Nodes(p, k) : \E j \in Nodes(m, k) :
              Chains(p)[Bucket(k)][i] = Chains(m)[Bucket(k)][j]
<1> DEFINE b == Bucket(key)
           c == Bucket(k)
           s == Chains(m)[c]
           r == Chains(p)[c]
           N == Nodes(m, key)
           M == Nodes(m, k)
           node == NodeOf(key, x)
<1>1. /\ m.buckets \in {<<>>} \cup AllChains
      /\ p.buckets \in {<<>>} \cup AllChains /\ p.buckets \in AllChains
  BY AssignedIs, MapMeans
<1>2. Chains(p) = p.buckets /\ r = p.buckets[c] /\ c \in 1 .. Buckets
  BY <1>1, FilledChains, ChainsAre, BucketIs
<1>3. s \in Seq(Node) /\ Len(s) \in Nat /\ M = {i \in 1 .. Len(s) : s[i].key = k}
  BY <1>1, NodesAre
<1>4. /\ r \in Seq(Node) /\ Len(r) \in Nat
      /\ Nodes(p, k) = {i \in 1 .. Len(r) : r[i].key = k}
  BY <1>1, NodesAre
<1>5. node.key = key
  BY DEF NodeOf
<1>6. \A i, j \in M : i = j
  BY DEF Maps
<1>7. CASE c # b
  <2>1. r = s
    BY <1>2, <1>7, AssignedIs
  <2> HIDE DEF r, s
  <2>2. Nodes(p, k) = M
    BY <1>3, <1>4, <2>1
  <2> QED
    BY <1>6, <2>1, <2>2 DEF r, s
<1>8. CASE c = b /\ N # {}
  <2>1. /\ Len(r) = Len(s)
        /\ \A i \in 1 .. Len(s) : r[i] = IF i \in N THEN node ELSE s[i]
    BY <1>2, <1>8, AssignedIs
  <2>2. N = {i \in 1 .. Len(s) : s[i].key = key}
    BY <1>1, <1>8, NodesAre
  <2> HIDE DEF r, s, node
  <2>3. \A i \in 1 .. Len(s) : r[i].key = s[i].key
    BY <1>5, <2>1, <2>2
  <2>4. Nodes(p, k) = M
    BY <1>3, <1>4, <2>1, <2>3
  <2>5. \A i \in M : r[i] = s[i]
    BY <1>3, <2>1, <2>2
  <2> QED
    BY <1>6, <2>4, <2>5 DEF r, s
<1>9. CASE c = b /\ N = {}
  <2>1. /\ Len(r) = Len(s) + 1 /\ r[1] = node
        /\ \A i \in 1 .. Len(s) : r[i + 1] = s[i]
    BY <1>2, <1>9, AssignedIs
  <2> HIDE DEF r, s, node
  <2>2. ASSUME NEW i \in Nodes(p, k) PROVE i - 1 \in M /\ r[i] = s[i - 1] /\ i \in Int
    <3>1. i \in 1 .. Len(s) + 1 /\ r[i].key = k /\ i # 1
      BY <1>4, <1>5, <2>1
    <3> DEFINE j == i - 1
    <3>2. j \in 1 .. Len(s) /\ i = j + 1
      BY <1>3, <3>1
    <3> HIDE DEF j
    <3>3. r[i] = s[j]
      BY <2>1, <3>2
    <3>4. j \in M
      BY <1>3, <3>1, <3>2, <3>3
    <3> QED
      BY <3>1, <3>3, <3>4 DEF j
  <2>3. \A i \in M : i + 1 \in Nodes(p, k)
    <3> SUFFICES ASSUME NEW i \in M PROVE i + 1 \in Nodes(p, k)
      OBVIOUS
    <3>1. i \in 1 .. Len(s) /\ s[i].key = k
      BY <1>3
    <3>2. i + 1 \in 1 .. Len(r) /\ r[i + 1] = s[i]
      BY <1>3, <2>1, <3>1
    <3> QED
      BY <1>4, <3>1, <3>2
  <2>4. ASSUME NEW i \in Nodes(p, k), NEW j \in Nodes(p, k) PROVE i = j
    <3>1. i \in Int /\ j \in Int /\ i - 1 = j - 1
      BY <1>6, <2>2
    <3> QED
      BY <3>1
  <2> HIDE DEF M
  <2>5. Nodes(p, k) # {} <=> M # {}
    BY <2>2, <2>3
  <2> QED
    BY <2>2, <2>4, <2>5 DEF r, s, M
<1> QED
  BY <1>7, <1>8, <1>9

(* map_set puts the value under the key and leaves the other keys. *)
LEMMA PutMeans ==
  ASSUME NEW m \in Maps, NEW key \in Keys, NEW x \in Values,
         NEW p, p = Assigned(m, key, x)
  PROVE  /\ p \in Maps
         /\ Meaning("map", p) = [j \in DOMAIN Meaning("map", m) \cup {key} |->
                                   IF j = key THEN x ELSE Meaning("map", m)[j]]
<1> DEFINE mm == Meaning("map", m)
           mp == Meaning("map", p)
<1>1. /\ Nodes(p, key) # {} /\ \A i, j \in Nodes(p, key) : i = j
      /\ \A i \in Nodes(p, key) : Chains(p)[Bucket(key)][i].value = x
  BY KeyPut
<1>2. ASSUME NEW k \in Keys, k # key
      PROVE  /\ \A i, j \in Nodes(p, k) : i = j
             /\ Nodes(p, k) # {} <=> Nodes(m, k) # {}
             /\ \A i \in Nodes(p, k) : \E j \in Nodes(m, k) :
                  Chains(p)[Bucket(k)][i] = Chains(m)[Bucket(k)][j]
  BY <1>2, KeyKept
<1>3. KeysIn(p) = KeysIn(m) \cup {key}
  BY <1>1, <1>2 DEF KeysIn
<1>4. \A k \in Keys : \A i, j \in Nodes(p, k) : i = j
  BY <1>1, <1>2
<1>5. IsFiniteSet(KeysIn(m)) /\ m.used = Cardinality(KeysIn(m)) /\ m.used \in Nat
  BY DEF Maps
<1>6. IsFiniteSet(KeysIn(p)) /\ p.used = Cardinality(KeysIn(p)) /\ p.used \in Nat
  <2>1. CASE Nodes(m, key) # {}
    <3>1. KeysIn(p) = KeysIn(m)
      BY <1>3, <2>1 DEF KeysIn
    <3>2. p.used = m.used
      BY <2>1, AssignedIs
    <3> QED
      BY <1>5, <3>1, <3>2
  <2>2. CASE Nodes(m, key) = {}
    <3>1. key \notin KeysIn(m)
      BY <2>2 DEF KeysIn
    <3>2. IsFiniteSet(KeysIn(p)) /\ Cardinality(KeysIn(p)) = Cardinality(KeysIn(m)) + 1
      BY <1>3, <1>5, <3>1, FS_AddElement
    <3>3. p.used = m.used + 1
      BY <2>2, AssignedIs
    <3> QED
      BY <1>5, <3>2, <3>3
  <2> QED
    BY <2>1, <2>2
<1>7. p \in Maps
  <2>1. p = [used |-> p.used, buckets |-> p.buckets] /\ p.buckets \in AllChains
    BY AssignedIs
  <2>2. p \in [used : Nat, buckets : {<<>>} \cup [1 .. Buckets -> Seq(Node)]]
    BY <1>6, <2>1 DEF AllChains
  <2> QED
    BY <1>4, <1>6, <2>2 DEF Maps
<1>8. /\ DOMAIN mm = KeysIn(m)
      /\ \A k \in KeysIn(m) : \A i \in Nodes(m, k) : mm[k] = Chains(m)[Bucket(k)][i].value
  BY MapMeans
<1>9. /\ DOMAIN mp = KeysIn(p) /\ mp = [k \in KeysIn(p) |-> mp[k]]
      /\ \A k \in KeysIn(p) : \A i \in Nodes(p, k) : mp[k] = Chains(p)[Bucket(k)][i].value
  BY <1>7, MapMeans
<1> HIDE DEF mm, mp
<1>10. ASSUME NEW k \in KeysIn(p)
       PROVE  mp[k] = IF k = key THEN x ELSE mm[k]
  <2>1. k \in Keys
    BY DEF KeysIn
  <2>2. PICK i \in Nodes(p, k) : TRUE
    BY DEF KeysIn
  <2>3. mp[k] = Chains(p)[Bucket(k)][i].value
    BY <1>9
  <2>4. CASE k = key
    BY <1>1, <2>2, <2>3, <2>4
  <2>5. CASE k # key
    <3>1. PICK j \in Nodes(m, k) : Chains(p)[Bucket(k)][i] = Chains(m)[Bucket(k)][j]
      BY <1>2, <2>1, <2>5
    <3>2. k \in KeysIn(m)
      BY <2>1, <3>1 DEF KeysIn
    <3>3. mm[k] = Chains(m)[Bucket(k)][j].value
      BY <1>8, <3>2
    <3> QED
      BY <2>3, <2>5, <3>1, <3>3
  <2> QED
    BY <2>4, <2>5
<1>11. mp = [j \in DOMAIN mm \cup {key} |-> IF j = key THEN x ELSE mm[j]]
  BY <1>3, <1>8, <1>9, <1>10
<1> QED
  BY <1>7, <1>11 DEF mm, mp

-----------------------------------------------------------------------------
(* What a call does to all that the collections mean. *)

LEMMA ContentIs ==
  /\ Abs = [c \in Live |-> Meaning(c[1], objs[c[1]][c[2]])]
  /\ Abs' = [c \in Live' |-> Meaning(c[1], objs'[c[1]][c[2]])]
  /\ DOMAIN Abs = Live
  /\ Live = {c \in Kinds \X Handles : objs[c[1]][c[2]] # Null}
  /\ Live' = {c \in Kinds \X Handles : objs'[c[1]][c[2]] # Null}
<1>1. Abs = [c \in Live |-> Meaning(c[1], objs[c[1]][c[2]])]
  BY DEF Abs, Content, Meaning
<1>2. Abs' = [c \in Live' |-> Meaning(c[1], objs'[c[1]][c[2]])]
  BY DEF Abs, Content, Meaning
<1>3. /\ Live = {c \in Kinds \X Handles : objs[c[1]][c[2]] # Null}
      /\ Live' = {c \in Kinds \X Handles : objs'[c[1]][c[2]] # Null}
  BY DEF Live
<1>4. DOMAIN Abs = Live
  BY DEF Abs
<1> QED
  BY <1>1, <1>2, <1>3, <1>4

LEMMA ObjectsStay ==
  ASSUME objs' = objs
  PROVE  Abs' = Abs /\ (WholeAll => WholeAll')
<1>1. Live' = Live
  BY DEF Live
<1>2. Abs' = Abs
  BY <1>1, ContentIs
<1> QED
  BY <1>2 DEF WholeAll

(* The collection behind a handle. *)
LEMMA Behind ==
  ASSUME IInv, NEW k, NEW h, There(k, h), h \in Slots \cup {-1}, NEW c, c = <<k, h>>
  PROVE  /\ k \in Kinds /\ h \in Slots /\ objs[k][h] # Null
         /\ c \in DOMAIN Abs /\ c \in Kinds \X Handles /\ c[1] = k /\ c[2] = h
         /\ Abs[c] = Meaning(k, objs[k][h])
         /\ WholeAll => Whole(k, objs[k][h])
<1>1. k \in Kinds /\ h \in Slots /\ objs[k][h] # Null
  BY ThereIs
<1>2. h \in Handles
  <2>1. SlotOK(k, h, objs[k][h], next[k], cap[k])
    BY <1>1 DEF IInv
  <2>2. h # 0
    BY <1>1, <2>1 DEF SlotOK
  <2> QED
    BY <1>1, <2>2 DEF Slots
<1>3. c \in Kinds \X Handles /\ c[1] = k /\ c[2] = h
  BY <1>1, <1>2
<1>4. c \in Live
  BY <1>1, <1>3 DEF Live
<1>5. c \in DOMAIN Abs /\ Abs[c] = Meaning(k, objs[k][h])
  BY <1>3, <1>4, ContentIs
<1>6. WholeAll => Whole(k, objs[k][h])
  BY <1>1 DEF WholeAll
<1> QED
  BY <1>1, <1>3, <1>5, <1>6

LEMMA ObjectBecomes ==
  ASSUME IInv, NEW k, NEW h \in Slots \cup {-1}, NEW o, There(k, h), Becomes(k, h, o),
         NEW c, c = <<k, h>>
  PROVE  /\ \A d \in Kinds \X Handles : d # c => objs'[d[1]][d[2]] = objs[d[1]][d[2]]
         /\ objs'[k][h] = o
         /\ \A j \in Kinds, i \in Slots : j # k \/ i # h => objs'[j][i] = objs[j][i]
<1>1. k \in Kinds /\ h \in Slots /\ objs' = [objs EXCEPT ![k][h] = o]
  BY ThereIs DEF Becomes
<1>2. Shape
  BY DEF IInv
<1>3. /\ objs'[k][h] = o
      /\ \A j \in Kinds, i \in Slots : j # k \/ i # h => objs'[j][i] = objs[j][i]
  BY <1>1, <1>2 DEF Shape
<1>4. ASSUME NEW d \in Kinds \X Handles, d # c
      PROVE  objs'[d[1]][d[2]] = objs[d[1]][d[2]]
  <2>1. d[1] \in Kinds /\ d[2] \in Slots /\ (d[1] # k \/ d[2] # h)
    BY <1>4 DEF Slots
  <2> QED
    BY <1>3, <2>1
<1> QED
  BY <1>3, <1>4

LEMMA ContentBecomes ==
  ASSUME IInv, WholeAll, NEW k, NEW h \in Slots \cup {-1}, NEW o, o # Null, Whole(k, o),
         There(k, h), Becomes(k, h, o), NEW c, c = <<k, h>>
  PROVE  WholeAll' /\ Abs' = [Abs EXCEPT ![c] = Meaning(k, o)]
<1>1. /\ k \in Kinds /\ h \in Slots /\ objs[k][h] # Null
      /\ c \in Live /\ c \in Kinds \X Handles /\ c[1] = k /\ c[2] = h
  BY Behind, ContentIs
<1>2. /\ \A d \in Kinds \X Handles : d # c => objs'[d[1]][d[2]] = objs[d[1]][d[2]]
      /\ objs'[k][h] = o
      /\ \A j \in Kinds, i \in Slots : j # k \/ i # h => objs'[j][i] = objs[j][i]
  BY ObjectBecomes
<1>3. Live' = Live
  <2>1. \A d \in Kinds \X Handles : objs'[d[1]][d[2]] # Null <=> objs[d[1]][d[2]] # Null
    BY <1>1, <1>2
  <2> QED
    BY <2>1, ContentIs
<1>4. \A d \in Live : Meaning(d[1], objs'[d[1]][d[2]]) = IF d = c THEN Meaning(k, o) ELSE Abs[d]
  <2> SUFFICES ASSUME NEW d \in Live
               PROVE  Meaning(d[1], objs'[d[1]][d[2]]) = IF d = c THEN Meaning(k, o) ELSE Abs[d]
    OBVIOUS
  <2>1. d \in Kinds \X Handles /\ Abs[d] = Meaning(d[1], objs[d[1]][d[2]])
    BY ContentIs
  <2> QED
    BY <1>1, <1>2, <2>1
<1>5. Abs' = [Abs EXCEPT ![c] = Meaning(k, o)]
  <2>1. Abs' = [d \in Live |-> IF d = c THEN Meaning(k, o) ELSE Abs[d]]
    BY <1>3, <1>4, ContentIs
  <2>2. Abs = [d \in Live |-> Abs[d]]
    BY ContentIs
  <2> QED
    BY <1>1, <2>1, <2>2
<1>6. WholeAll'
  BY <1>1, <1>2 DEF WholeAll
<1> QED
  BY <1>5, <1>6

LEMMA ContentGoes ==
  ASSUME IInv, WholeAll, NEW k, NEW h \in Slots \cup {-1},
         There(k, h), Becomes(k, h, Null), NEW c, c = <<k, h>>
  PROVE  WholeAll' /\ Abs' = [d \in DOMAIN Abs \ {c} |-> Abs[d]]
<1>1. /\ k \in Kinds /\ h \in Slots /\ objs[k][h] # Null
      /\ c \in Live /\ c \in Kinds \X Handles /\ c[1] = k /\ c[2] = h
  BY Behind, ContentIs
<1>2. /\ \A d \in Kinds \X Handles : d # c => objs'[d[1]][d[2]] = objs[d[1]][d[2]]
      /\ objs'[k][h] = Null
      /\ \A j \in Kinds, i \in Slots : j # k \/ i # h => objs'[j][i] = objs[j][i]
  BY ObjectBecomes
<1>3. Live' = Live \ {c}
  BY <1>1, <1>2, ContentIs
<1>4. \A d \in Live \ {c} : Meaning(d[1], objs'[d[1]][d[2]]) = Abs[d]
  <2> SUFFICES ASSUME NEW d \in Live, d # c
               PROVE  Meaning(d[1], objs'[d[1]][d[2]]) = Abs[d]
    OBVIOUS
  <2>1. d \in Kinds \X Handles /\ Abs[d] = Meaning(d[1], objs[d[1]][d[2]])
    BY ContentIs
  <2> QED
    BY <1>2, <2>1
<1>5. Abs' = [d \in DOMAIN Abs \ {c} |-> Abs[d]]
  BY <1>3, <1>4, ContentIs
<1>6. WholeAll'
  BY <1>1, <1>2 DEF WholeAll
<1> QED
  BY <1>5, <1>6

LEMMA NewMeans ==
  ASSUME FirstBuffers, NEW k \in Kinds
  PROVE  /\ Whole(k, NewObject(k)) /\ NewObject(k) # Null
         /\ Meaning(k, NewObject(k)) = Nothing(k)
<1>1. <<>> \in Data /\ Len(<<>>) = 0
  BY DEF Data
<1>2. CASE k = "vec"
  <2> DEFINE o == NewObject(k)
  <2>1. o = [len |-> 0, data |-> <<>>]
    BY <1>2 DEF NewObject
  <2>2. o \in Vecs /\ o.len = 0
    BY <1>1, <2>1 DEF Vecs
  <2> HIDE DEF o
  <2>3. WholeVec(o)
    BY <2>2 DEF WholeVec
  <2>4. Meaning("vec", o) \in Seq(Values) /\ Len(Meaning("vec", o)) = 0
    BY <2>2, <2>3, VecMeans
  <2>5. Meaning("vec", o) = <<>>
    BY <2>4
  <2>6. o # Null
    BY <2>2 DEF FirstBuffers
  <2> QED
    BY <1>2, <2>3, <2>5, <2>6 DEF Whole, Nothing, o
<1>3. CASE k = "queue"
  <2> DEFINE o == NewObject(k)
  <2>1. o = [len |-> 0, head |-> 0, tail |-> 0, data |-> <<>>]
    BY <1>3 DEF NewObject
  <2>2. o \in Queues /\ o.len = 0 /\ Len(o.data) = 0
    BY <1>1, <2>1 DEF Queues
  <2> HIDE DEF o
  <2>3. WholeRing(o)
    BY <2>2 DEF WholeRing
  <2>4. Meaning("queue", o) \in Seq(Values) /\ Len(Meaning("queue", o)) = 0
    BY <2>2, <2>3, RingMeans
  <2>5. Meaning("queue", o) = <<>>
    BY <2>4
  <2>6. o # Null
    BY <2>2 DEF FirstBuffers
  <2> QED
    BY <1>3, <2>3, <2>5, <2>6 DEF Whole, Nothing, o
<1>4. CASE k = "map"
  <2> DEFINE o == NewObject(k)
  <2>1. o = [used |-> 0, buckets |-> <<>>]
    BY <1>4 DEF NewObject
  <2>2. o.buckets = <<>> /\ o.used = 0
    BY <2>1
  <2>3. o \in [used : Nat, buckets : {<<>>} \cup [1 .. Buckets -> Seq(Node)]]
    BY <2>1
  <2> HIDE DEF o
  <2>4. \A j \in Keys : Nodes(o, j) = {}
    <3> SUFFICES ASSUME NEW j \in Keys PROVE Nodes(o, j) = {}
      OBVIOUS
    <3>1. Chains(o)[Bucket(j)] = <<>>
      BY <2>2, BucketIs, ChainsAre
    <3>2. Len(<<>>) = 0
      OBVIOUS
    <3> DEFINE s == Chains(o)[Bucket(j)]
    <3>3. s = Chains(o)[Bucket(j)]
      OBVIOUS
    <3> HIDE DEF s
    <3>4. Nodes(o, j) = {i \in 1 .. Len(s) : s[i].key = j}
      BY <2>2, <3>3, NodesAre
    <3> QED
      BY <3>1, <3>2, <3>3, <3>4
  <2>5. KeysIn(o) = {}
    BY <2>4 DEF KeysIn
  <2>6. o \in Maps
    BY <2>2, <2>3, <2>4, <2>5, FS_EmptySet DEF Maps
  <2>7. Meaning("map", o) = [j \in {} |-> Meaning("map", o)[j]]
    BY <2>5, <2>6, MapMeans
  <2>8. Meaning("map", o) = [j \in {} |-> 0]
    BY <2>7
  <2>9. o # Null
    BY <2>6 DEF FirstBuffers
  <2> QED
    BY <1>4, <2>6, <2>8, <2>9 DEF Whole, Nothing, o
<1> QED
  BY <1>2, <1>3, <1>4, CollectionsAssumption

Placed(k, h) == objs' = [objs EXCEPT ![k][h] = NewObject(k)]

LEMMA ContentComes ==
  ASSUME IInv, WholeAll, FirstBuffers, NEW k \in Kinds, next[k] <= MaxHandles[k],
         NEW h, h = next[k], Placed(k, h),
         NEW c, c = <<k, h>>
  PROVE  /\ WholeAll' /\ c \in Kinds \X Handles /\ c \notin DOMAIN Abs
         /\ Abs' = [d \in DOMAIN Abs \cup {c} |-> IF d = c THEN Nothing(k) ELSE Abs[d]]
<1>1. /\ h \in Handles /\ h \in Slots /\ h \in Nat \ {0}
      /\ c \in Kinds \X Handles /\ c[1] = k /\ c[2] = h
  BY HandlesHold DEF IInv, Counters, Slots
<1>2. /\ objs'[k][h] = NewObject(k)
      /\ \A j \in Kinds, i \in Slots : j # k \/ i # h => objs'[j][i] = objs[j][i]
  BY <1>1 DEF IInv, Shape, Placed
<1>3. \A d \in Kinds \X Handles : d # c => objs'[d[1]][d[2]] = objs[d[1]][d[2]]
  <2> SUFFICES ASSUME NEW d \in Kinds \X Handles, d # c
               PROVE  objs'[d[1]][d[2]] = objs[d[1]][d[2]]
    OBVIOUS
  <2>1. d[1] \in Kinds /\ d[2] \in Slots /\ (d[1] # k \/ d[2] # h)
    BY DEF Slots
  <2> QED
    BY <1>2, <2>1
<1>4. Whole(k, NewObject(k)) /\ NewObject(k) # Null /\ Meaning(k, NewObject(k)) = Nothing(k)
  BY NewMeans
<1>5. c \notin Live
  <2>1. SlotOK(k, h, objs[k][h], next[k], cap[k])
    BY <1>1 DEF IInv
  <2>2. objs[k][h] = Null
    BY <1>1, <2>1 DEF SlotOK
  <2> QED
    BY <1>1, <2>2, ContentIs
<1>6. Live' = Live \cup {c}
  BY <1>1, <1>2, <1>3, <1>4, ContentIs
<1>7. \A d \in Live' : Meaning(d[1], objs'[d[1]][d[2]]) = IF d = c THEN Nothing(k) ELSE Abs[d]
  <2> SUFFICES ASSUME NEW d \in Live'
               PROVE  Meaning(d[1], objs'[d[1]][d[2]]) = IF d = c THEN Nothing(k) ELSE Abs[d]
    OBVIOUS
  <2>1. CASE d = c
    BY <1>1, <1>2, <1>4, <2>1
  <2>2. CASE d # c
    <3>1. d \in Live /\ d \in Kinds \X Handles
      BY <1>6, <2>2, ContentIs
    <3>2. Abs[d] = Meaning(d[1], objs[d[1]][d[2]])
      BY <3>1, ContentIs
    <3> QED
      BY <1>3, <2>2, <3>1, <3>2
  <2> QED
    BY <2>1, <2>2
<1>8. Abs' = [d \in DOMAIN Abs \cup {c} |-> IF d = c THEN Nothing(k) ELSE Abs[d]]
  BY <1>6, <1>7, ContentIs
<1>9. WholeAll'
  BY <1>1, <1>2, <1>4 DEF WholeAll
<1> QED
  BY <1>1, <1>5, <1>8, <1>9, ContentIs

(* A step of Collections, or none. *)
Kept == WholeAll' /\ (Promised \/ (Abs' = Abs /\ reply' = reply))

LEMMA FailsIsKept ==
  ASSUME WholeAll, Fails
  PROVE  Kept
<1>1. reply' = -1 /\ objs' = objs
  BY DEF Fails, Return, Unchanged
<1>2. Abs' = Abs /\ WholeAll'
  BY <1>1, ObjectsStay
<1> QED
  BY <1>1, <1>2, StepRefused DEF Kept

LEMMA NewIsKept ==
  ASSUME IInv, WholeAll, FirstBuffers, NEW k \in Kinds, New(k)
  PROVE  Kept
<1> DEFINE h == next[k]
<1>1. CASE Fails
  BY <1>1, FailsIsKept
<1>2. CASE NoTable(k, h)
  <2>1. reply' = -1 /\ objs' = objs
    BY <1>2 DEF NoTable, Return
  <2>2. Abs' = Abs /\ WholeAll'
    BY <2>1, ObjectsStay
  <2> QED
    BY <2>1, <2>2, StepRefused DEF Kept
<1>3. CASE PastTable(k, h)
  <2>1. reply' = reply /\ objs' = objs
    BY <1>3 DEF PastTable
  <2>2. Abs' = Abs /\ WholeAll'
    BY <2>1, ObjectsStay
  <2> QED
    BY <2>1, <2>2 DEF Kept
<1>4. CASE Made(k, h) /\ h <= MaxHandles[k]
  <2> DEFINE c == <<k, h>>
  <2>1. Placed(k, h) /\ reply' = h /\ h = next[k] /\ next[k] <= MaxHandles[k]
    BY <1>4 DEF Made, Return, Placed
  <2>2. c[1] = k /\ c[2] = h /\ c = <<k, h>>
    OBVIOUS
  <2> HIDE DEF c, h
  <2>3. /\ WholeAll' /\ c \in Kinds \X Handles /\ c \notin DOMAIN Abs
        /\ Abs' = [d \in DOMAIN Abs \cup {c} |-> IF d = c THEN Nothing(k) ELSE Abs[d]]
    BY <2>1, <2>2, ContentComes
  <2>4. Promised
    BY <2>1, <2>2, <2>3, StepNew
  <2> QED
    BY <2>3, <2>4 DEF Kept
<1> QED
  BY <1>1, <1>2, <1>3, <1>4 DEF New

LEMMA FreeIsKept ==
  ASSUME IInv, WholeAll, NEW k, NEW h \in Slots \cup {-1}, Free(k, h)
  PROVE  Kept
<1>1. CASE Fails
  BY <1>1, FailsIsKept
<1>2. CASE There(k, h) /\ Becomes(k, h, Null) /\ Return(0)
  <2> DEFINE c == <<k, h>>
  <2>1. c = <<k, h>> /\ reply' = 0
    BY <1>2 DEF Return
  <2> HIDE DEF c
  <2>2. c \in DOMAIN Abs
    BY <1>2, <2>1, Behind
  <2>3. WholeAll' /\ Abs' = [d \in DOMAIN Abs \ {c} |-> Abs[d]]
    BY <1>2, <2>1, ContentGoes
  <2>4. Promised
    BY <2>1, <2>2, <2>3, StepFree
  <2> QED
    BY <2>3, <2>4 DEF Kept
<1> QED
  BY <1>1, <1>2 DEF Free

LEMMA LengthIsKept ==
  ASSUME IInv, WholeAll, NEW k \in Kinds, NEW h \in Slots \cup {-1}, Length(k, h)
  PROVE  Kept
<1>1. CASE Fails
  BY <1>1, FailsIsKept
<1>2. CASE There(k, h) /\ ~Fails
  <2> DEFINE c == <<k, h>>
             o == objs[k][h]
  <2>1. /\ c = <<k, h>> /\ objs' = objs
        /\ reply' = IF k = "map" THEN o.used ELSE o.len
    BY <1>2 DEF Length, Return, Unchanged
  <2> HIDE DEF c
  <2>2. c \in DOMAIN Abs /\ c[1] = k /\ Abs[c] = Meaning(k, o) /\ Whole(k, o)
    BY <1>2, <2>1, Behind
  <2>3. Abs' = Abs /\ WholeAll'
    BY <2>1, ObjectsStay
  <2> HIDE DEF o
  <2>4. reply' = IF c[1] = "map" THEN Cardinality(DOMAIN Abs[c]) ELSE Len(Abs[c])
    <3>1. CASE k = "map"
      <4>1. o \in Maps
        BY <2>2, <3>1 DEF Whole
      <4>2. DOMAIN Meaning("map", o) = KeysIn(o) /\ o.used = Cardinality(KeysIn(o))
        BY <4>1, MapMeans DEF Maps
      <4> QED
        BY <2>1, <2>2, <3>1, <4>2
    <3>2. CASE k = "vec"
      <4>1. Len(Meaning("vec", o)) = o.len
        BY <2>2, <3>2, VecMeans DEF Whole
      <4> QED
        BY <2>1, <2>2, <3>2, <4>1
    <3>3. CASE k = "queue"
      <4>1. Len(Meaning("queue", o)) = o.len
        BY <2>2, <3>3, RingMeans DEF Whole
      <4> QED
        BY <2>1, <2>2, <3>3, <4>1
    <3> QED
      BY <3>1, <3>2, <3>3, CollectionsAssumption
  <2>5. Promised
    BY <2>2, <2>3, <2>4, StepLength
  <2> QED
    BY <2>3, <2>5 DEF Kept
<1> QED
  BY <1>1, <1>2 DEF Length

LEMMA VecPushIsKept ==
  ASSUME IInv, WholeAll, FirstBuffers, NEW h \in Slots, NEW x \in Values, vec_push(h, x)
  PROVE  Kept
<1>1. CASE Fails
  BY <1>1, FailsIsKept
<1>2. CASE There("vec", h) /\ ~Fails
  <2> DEFINE c == <<"vec", h>>
             o == objs["vec"][h]
             p == VecPushed(o, x)
  <2>1. c = <<"vec", h>> /\ reply' = 0 /\ Becomes("vec", h, p) /\ p = VecPushed(o, x)
    BY <1>2 DEF vec_push, Return, VecPushed
  <2> HIDE DEF c, p
  <2>2. c \in DOMAIN Abs /\ c[1] = "vec" /\ Abs[c] = Meaning("vec", o) /\ Whole("vec", o)
    BY <1>2, <2>1, Behind
  <2> HIDE DEF o
  <2>3. WholeVec(p) /\ Meaning("vec", p) = Append(Meaning("vec", o), x)
    BY <2>1, <2>2, VecPushMeans DEF Whole
  <2>4. Whole("vec", p) /\ p # Null
    BY <2>3 DEF Whole, WholeVec, FirstBuffers
  <2>5. WholeAll' /\ Abs' = [Abs EXCEPT ![c] = Meaning("vec", p)]
    BY <1>2, <2>1, <2>4, ContentBecomes
  <2>6. Abs' = [Abs EXCEPT ![c] = Append(Abs[c], x)]
    BY <2>2, <2>3, <2>5
  <2>7. Promised
    BY <2>1, <2>2, <2>6, StepPush
  <2> QED
    BY <2>5, <2>7 DEF Kept
<1> QED
  BY <1>1, <1>2 DEF vec_push

LEMMA VecGetIsKept ==
  ASSUME IInv, WholeAll, FirstBuffers, NEW h \in Slots, NEW i, vec_get(h, i)
  PROVE  Kept
<1>1. CASE Fails
  BY <1>1, FailsIsKept
<1>2. CASE VecHas(h, i) /\ ~Fails
  <2> DEFINE c == <<"vec", h>>
             o == objs["vec"][h]
             j == i + 1
  <2>1. /\ c = <<"vec", h>> /\ There("vec", h) /\ i \in 0 .. o.len - 1
        /\ reply' = ToInt(o.data[j]) /\ objs' = objs
    BY <1>2 DEF vec_get, VecMisses, VecHas, Return, Unchanged, At
  <2> HIDE DEF c
  <2>2. c \in DOMAIN Abs /\ c[1] = "vec" /\ Abs[c] = Meaning("vec", o) /\ Whole("vec", o)
    BY <2>1, Behind
  <2>3. Abs' = Abs /\ WholeAll'
    BY <2>1, ObjectsStay
  <2> HIDE DEF o
  <2> DEFINE s == Meaning("vec", o)
  <2>4. /\ s \in Seq(Values) /\ Len(s) = o.len /\ o.len \in Nat
        /\ \A n \in 1 .. o.len : s[n] = o.data[n] /\ o.data[n] \in Values
    BY <2>2, VecMeans DEF Whole
  <2> HIDE DEF s
  <2>5. j \in 1 .. o.len
    BY <2>1, <2>4
  <2>6. j \in DOMAIN s /\ s[j] = o.data[j] /\ o.data[j] \in Values
    BY <2>4, <2>5
  <2>7. reply' = s[j]
    BY <2>1, <2>6 DEF FirstBuffers
  <2> HIDE DEF j
  <2>8. j \in DOMAIN Abs[c] /\ reply' = Abs[c][j]
    BY <2>2, <2>6, <2>7 DEF s
  <2>9. Promised
    BY <2>2, <2>3, <2>8, StepVecGet
  <2> QED
    BY <2>3, <2>9 DEF Kept
<1> QED
  BY <1>1, <1>2 DEF vec_get, VecMisses

LEMMA VecSetIsKept ==
  ASSUME IInv, WholeAll, FirstBuffers, NEW h \in Slots, NEW i, NEW x \in Values,
         vec_set(h, i, x)
  PROVE  Kept
<1>1. CASE Fails
  BY <1>1, FailsIsKept
<1>2. CASE VecHas(h, i) /\ ~Fails
  <2> DEFINE c == <<"vec", h>>
             o == objs["vec"][h]
             p == VecWritten(o, i, x)
             j == i + 1
  <2>1. /\ c = <<"vec", h>> /\ There("vec", h) /\ i \in 0 .. o.len - 1
        /\ reply' = 0 /\ Becomes("vec", h, p) /\ p = VecWritten(o, i, x)
    BY <1>2 DEF vec_set, VecMisses, VecHas, Return, VecWritten
  <2> HIDE DEF c, p
  <2>2. c \in DOMAIN Abs /\ c[1] = "vec" /\ Abs[c] = Meaning("vec", o) /\ Whole("vec", o)
    BY <2>1, Behind
  <2> HIDE DEF o
  <2> DEFINE s == Meaning("vec", o)
  <2>3. WholeVec(p) /\ Meaning("vec", p) = [s EXCEPT ![j] = x]
    BY <2>1, <2>2, VecSetMeans DEF Whole
  <2>4. Whole("vec", p) /\ p # Null
    BY <2>3 DEF Whole, WholeVec, FirstBuffers
  <2>5. WholeAll' /\ Abs' = [Abs EXCEPT ![c] = Meaning("vec", p)]
    BY <2>1, <2>4, ContentBecomes
  <2>6. s \in Seq(Values) /\ Len(s) = o.len /\ o.len \in Nat
    BY <2>2, VecMeans DEF Whole
  <2>7. j \in DOMAIN s
    BY <2>1, <2>6
  <2> HIDE DEF s, j
  <2>8. j \in DOMAIN Abs[c] /\ Abs' = [Abs EXCEPT ![c] = [Abs[c] EXCEPT ![j] = x]]
    BY <2>2, <2>3, <2>5, <2>7 DEF s
  <2>9. Promised
    BY <2>1, <2>2, <2>8, StepVecSet
  <2> QED
    BY <2>5, <2>9 DEF Kept
<1> QED
  BY <1>1, <1>2 DEF vec_set, VecMisses

LEMMA QueuePushIsKept ==
  ASSUME IInv, WholeAll, FirstBuffers, NEW h \in Slots, NEW x \in Values, queue_push(h, x)
  PROVE  Kept
<1>1. CASE Fails
  BY <1>1, FailsIsKept
<1>2. CASE There("queue", h) /\ ~Fails
  <2> DEFINE c == <<"queue", h>>
             o == objs["queue"][h]
             p == QueuePushed(o, x)
  <2>1. /\ c = <<"queue", h>> /\ o.len < MaxLen["queue"]
        /\ reply' = 0 /\ Becomes("queue", h, p) /\ p = QueuePushed(o, x)
    BY <1>2 DEF queue_push, Return, QueuePushed
  <2> HIDE DEF c, p
  <2>2. /\ c \in DOMAIN Abs /\ c[1] = "queue" /\ Abs[c] = Meaning("queue", o)
        /\ Whole("queue", o) /\ "queue" \in Kinds
    BY <1>2, <2>1, Behind
  <2> HIDE DEF o
  <2>3. WholeRing(o)
    BY <2>2 DEF Whole
  <2>4. o.len < InitialCap
    <3>1. o.len \in Nat /\ InitialCap \in Nat
      BY <2>3, RingMeans, CollectionsAssumption
    <3>2. MaxLen["queue"] \in Nat /\ MaxLen["queue"] <= InitialCap
      BY <2>2 DEF FirstBuffers
    <3> QED
      BY <2>1, <3>1, <3>2
  <2>5. WholeRing(p) /\ Meaning("queue", p) = Append(Meaning("queue", o), x)
    BY <2>1, <2>3, <2>4, RingPushMeans
  <2>6. Whole("queue", p) /\ p # Null
    BY <2>5 DEF Whole, WholeRing, FirstBuffers
  <2>7. WholeAll' /\ Abs' = [Abs EXCEPT ![c] = Meaning("queue", p)]
    BY <1>2, <2>1, <2>6, ContentBecomes
  <2>8. Abs' = [Abs EXCEPT ![c] = Append(Abs[c], x)]
    BY <2>2, <2>5, <2>7
  <2>9. Promised
    BY <2>1, <2>2, <2>8, StepPush
  <2> QED
    BY <2>7, <2>9 DEF Kept
<1> QED
  BY <1>1, <1>2 DEF queue_push

(* The oldest element is a value, and is what the queue means first. *)
LEMMA OldestIs ==
  ASSUME FirstBuffers, NEW o, WholeRing(o), o.len > 0, NEW x \in Oldest(o)
  PROVE  Meaning("queue", o) # <<>> /\ ToInt(x) = Head(Meaning("queue", o))
<1> DEFINE p == Popped(o)
<1>1. p = Popped(o)
  OBVIOUS
<1> HIDE DEF p
<1>2. /\ Meaning("queue", o) # <<>>
      /\ Head(Meaning("queue", o)) = At(o, o.head) /\ At(o, o.head) \in Values
  BY <1>1, RingPopMeans
<1>3. At(o, o.head) # Null
  BY <1>2 DEF FirstBuffers
<1>4. x = At(o, o.head)
  BY <1>3 DEF Oldest
<1>5. ToInt(x) = x
  BY <1>2, <1>4 DEF FirstBuffers
<1> QED
  BY <1>2, <1>4, <1>5

LEMMA QueuePopIsKept ==
  ASSUME IInv, WholeAll, FirstBuffers, NEW h \in Slots, queue_pop(h)
  PROVE  Kept
<1>1. CASE Fails
  BY <1>1, FailsIsKept
<1>2. CASE QueueFilled(h) /\ ~Fails
  <2> DEFINE c == <<"queue", h>>
             o == objs["queue"][h]
             p == Popped(o)
  <2>1. /\ c = <<"queue", h>> /\ There("queue", h) /\ o.len > 0
        /\ \E x \in Oldest(o) : reply' = ToInt(x)
        /\ Becomes("queue", h, p) /\ p = Popped(o)
    BY <1>2 DEF queue_pop, QueueFilled, Return
  <2> HIDE DEF c, p
  <2>2. /\ c \in DOMAIN Abs /\ c[1] = "queue" /\ Abs[c] = Meaning("queue", o)
        /\ Whole("queue", o)
    BY <2>1, Behind
  <2> HIDE DEF o
  <2>3. WholeRing(o)
    BY <2>2 DEF Whole
  <2>4. Abs[c] # <<>> /\ reply' = Head(Abs[c])
    BY <2>1, <2>2, <2>3, OldestIs
  <2>5. WholeRing(p) /\ Meaning("queue", p) = Tail(Meaning("queue", o))
    BY <2>1, <2>3, RingPopMeans
  <2>6. Whole("queue", p) /\ p # Null
    BY <2>5 DEF Whole, WholeRing, FirstBuffers
  <2>7. WholeAll' /\ Abs' = [Abs EXCEPT ![c] = Meaning("queue", p)]
    BY <2>1, <2>6, ContentBecomes
  <2>8. Abs' = [Abs EXCEPT ![c] = Tail(Abs[c])]
    BY <2>2, <2>5, <2>7
  <2>9. Promised
    BY <2>2, <2>4, <2>8, StepPop
  <2> QED
    BY <2>7, <2>9 DEF Kept
<1> QED
  BY <1>1, <1>2 DEF queue_pop

LEMMA QueuePeekIsKept ==
  ASSUME IInv, WholeAll, FirstBuffers, NEW h \in Slots, queue_peek(h)
  PROVE  Kept
<1>1. CASE Fails
  BY <1>1, FailsIsKept
<1>2. CASE QueueFilled(h) /\ ~Fails
  <2> DEFINE c == <<"queue", h>>
             o == objs["queue"][h]
  <2>1. /\ c = <<"queue", h>> /\ There("queue", h) /\ o.len > 0
        /\ \E x \in Oldest(o) : reply' = ToInt(x)
        /\ objs' = objs
    BY <1>2 DEF queue_peek, QueueFilled, Return, Unchanged
  <2> HIDE DEF c
  <2>2. /\ c \in DOMAIN Abs /\ c[1] = "queue" /\ Abs[c] = Meaning("queue", o)
        /\ Whole("queue", o)
    BY <2>1, Behind
  <2> HIDE DEF o
  <2>3. WholeRing(o)
    BY <2>2 DEF Whole
  <2>4. Abs[c] # <<>> /\ reply' = Head(Abs[c])
    BY <2>1, <2>2, <2>3, OldestIs
  <2>5. Abs' = Abs /\ WholeAll'
    BY <2>1, ObjectsStay
  <2>6. Promised
    BY <2>2, <2>4, <2>5, StepPeek
  <2> QED
    BY <2>5, <2>6 DEF Kept
<1> QED
  BY <1>1, <1>2 DEF queue_peek

LEMMA MapSetIsKept ==
  ASSUME IInv, WholeAll, FirstBuffers, NEW h \in Slots, NEW key \in Keys, NEW x \in Values,
         map_set(h, key, x)
  PROVE  Kept
<1>1. CASE Fails
  BY <1>1, FailsIsKept
<1>2. CASE There("map", h) /\ ~Fails
  <2> DEFINE c == <<"map", h>>
             o == objs["map"][h]
             p == Assigned(o, key, x)
  <2>1. /\ c = <<"map", h>> /\ reply' = 0
        /\ Becomes("map", h, p) /\ p = Assigned(o, key, x)
    BY <1>2 DEF map_set, Return
  <2> HIDE DEF c, p
  <2>2. c \in DOMAIN Abs /\ c[1] = "map" /\ Abs[c] = Meaning("map", o) /\ Whole("map", o)
    BY <1>2, <2>1, Behind
  <2> HIDE DEF o
  <2>3. o \in Maps
    BY <2>2 DEF Whole
  <2>9. p = Assigned(o, key, x)
    BY <2>1
  <2>4. /\ p \in Maps
        /\ Meaning("map", p) = [j \in DOMAIN Meaning("map", o) \cup {key} |->
                                  IF j = key THEN x ELSE Meaning("map", o)[j]]
    BY ONLY <2>3, <2>9, key \in Keys, x \in Values, PutMeans
  <2>5. Whole("map", p) /\ p # Null
    BY <2>4 DEF Whole, FirstBuffers
  <2>6. WholeAll' /\ Abs' = [Abs EXCEPT ![c] = Meaning("map", p)]
    BY <1>2, <2>1, <2>5, ContentBecomes
  <2>7. Abs' = [Abs EXCEPT ![c] = [j \in DOMAIN Abs[c] \cup {key} |->
                                     IF j = key THEN x ELSE Abs[c][j]]]
    BY <2>2, <2>4, <2>6
  <2>8. Promised
    BY <2>1, <2>2, <2>7, StepPut
  <2> QED
    BY <2>6, <2>8 DEF Kept
<1> QED
  BY <1>1, <1>2 DEF map_set

LEMMA MapGetIsKept ==
  ASSUME IInv, WholeAll, FirstBuffers, NEW h \in Slots, NEW key \in Keys, map_get(h, key)
  PROVE  Kept
<1>1. CASE Fails
  BY <1>1, FailsIsKept
<1>2. CASE MapHas(h, key) /\ ~Fails
  <2> DEFINE c == <<"map", h>>
             o == objs["map"][h]
  <2>1. /\ c = <<"map", h>> /\ There("map", h) /\ Nodes(o, key) # {} /\ objs' = objs
        /\ \E i \in Nodes(o, key) : reply' = ToInt(o.buckets[Bucket(key)][i].value)
    BY <1>2 DEF map_get, MapHas, Return, Unchanged
  <2> HIDE DEF c
  <2>2. c \in DOMAIN Abs /\ c[1] = "map" /\ Abs[c] = Meaning("map", o) /\ Whole("map", o)
    BY <2>1, Behind
  <2> HIDE DEF o
  <2>3. o \in Maps /\ key \in KeysIn(o)
    BY <2>1, <2>2 DEF Whole, KeysIn
  <2>4. PICK i \in Nodes(o, key) : reply' = ToInt(o.buckets[Bucket(key)][i].value)
    BY <2>1
  <2> DEFINE v == o.buckets[Bucket(key)][i].value
  <2>5. DOMAIN Meaning("map", o) = KeysIn(o) /\ Meaning("map", o)[key] = v /\ v \in Values
    BY <2>3, MapMeans
  <2>6. reply' = ToInt(v)
    BY <2>4
  <2> HIDE DEF v
  <2>7. reply' = v
    BY <2>5, <2>6 DEF FirstBuffers
  <2>8. key \in DOMAIN Abs[c] /\ reply' = Abs[c][key]
    BY <2>2, <2>3, <2>5, <2>7
  <2>9. Abs' = Abs /\ WholeAll'
    BY <2>1, ObjectsStay
  <2>10. Promised
    BY <2>2, <2>8, <2>9, StepGet
  <2> QED
    BY <2>9, <2>10 DEF Kept
<1> QED
  BY <1>1, <1>2 DEF map_get

LEMMA MapHasIsKept ==
  ASSUME IInv, WholeAll, NEW h \in Slots, NEW key \in Keys, map_has(h, key)
  PROVE  Kept
<1>1. objs' = objs /\ reply' = IF MapHas(h, key) THEN 1 ELSE 0
  BY DEF map_has, Return, Unchanged
<1>2. Abs' = Abs /\ WholeAll'
  BY <1>1, ObjectsStay
<1>3. CASE There("map", h)
  <2> DEFINE c == <<"map", h>>
             o == objs["map"][h]
  <2>1. c = <<"map", h>> /\ (MapHas(h, key) <=> Nodes(o, key) # {})
    BY <1>3 DEF MapHas
  <2> HIDE DEF c
  <2>2. c \in DOMAIN Abs /\ c[1] = "map" /\ Abs[c] = Meaning("map", o) /\ Whole("map", o)
    BY <1>3, <2>1, Behind
  <2> HIDE DEF o
  <2>3. DOMAIN Meaning("map", o) = KeysIn(o)
    BY <2>2, MapMeans DEF Whole
  <2>4. reply' = IF key \in DOMAIN Abs[c] THEN 1 ELSE 0
    BY <1>1, <2>1, <2>2, <2>3 DEF KeysIn
  <2>5. Promised
    BY <1>2, <2>2, <2>4, StepHas
  <2> QED
    BY <1>2, <2>5 DEF Kept
<1>4. CASE ~There("map", h)
  <2>1. reply' = 0
    BY <1>1, <1>4 DEF MapHas
  <2> QED
    BY <1>2, <2>1, StepNotThere DEF Kept
<1> QED
  BY <1>3, <1>4

(* The calls implement sequences, first-in first-out queues and maps, each *)
(* handle its own, for every table, buffer, number of buckets and keys:    *)
(* where vec_push grows a buffer, realloc leaves what it held; a ring that *)
(* wraps hands out in order; a key of a long chain has one value.  The     *)
(* values must be those of a C int, which vec_get, queue_pop and map_get   *)
(* return, and a queue must stay in its first buffer: beyond it the growth *)
(* of queue_push mixes the order up, as the run GenQueueOrder shows.       *)
THEOREM CollectionsImplemented == FirstBuffers /\ Spec => ImplementsCollections
<1> SUFFICES ASSUME FirstBuffers PROVE Spec => ImplementsCollections
  OBVIOUS
<1>1. Init => IInv /\ WholeAll
  BY InitIsSound DEF Init, WholeAll
<1>2. Init => Promise!Init
  <2> SUFFICES ASSUME Init PROVE Promise!Init
    OBVIOUS
  <2>1. \A c \in Kinds \X Handles : objs[c[1]][c[2]] = Null
    BY DEF Init, Slots
  <2>2. Live = {}
    BY <2>1 DEF Live
  <2> QED
    BY <2>2 DEF Init, Promise!Init
<1>3. IInv /\ [Next]_vars => IInv'
  BY StepKeeps
<1>4. IInv /\ WholeAll /\ [Next]_vars =>
        WholeAll' /\ [Promise!Next \/ Promise!NotThere]_(Promise!vars)
  <2> SUFFICES ASSUME IInv, WholeAll, [Next]_vars
               PROVE  WholeAll' /\ [Promise!Next \/ Promise!NotThere]_(Promise!vars)
    OBVIOUS
  <2>1. Kept
    <3>1. CASE UNCHANGED vars
      <4>1. Abs' = Abs /\ WholeAll' /\ reply' = reply
        BY <3>1, ObjectsStay DEF vars
      <4> QED
        BY <4>1 DEF Kept
    <3>2. CASE Next
      <4>1. Call
        BY <3>2 DEF Next
      <4>2. ASSUME NEW k \in Kinds, New(k) PROVE Kept
        BY <4>2, NewIsKept
      <4>3. ASSUME NEW k \in Kinds, NEW h \in Slots \cup {-1}, Free(k, h) \/ Length(k, h)
            PROVE  Kept
        BY <4>3, FreeIsKept, LengthIsKept
      <4>4. ASSUME NEW h \in Slots, NEW x \in Values, vec_push(h, x) \/ queue_push(h, x)
            PROVE  Kept
        BY <4>4, VecPushIsKept, QueuePushIsKept
      <4>5. ASSUME NEW h \in Slots, NEW i \in Index,
                   vec_get(h, i) \/ \E x \in Values : vec_set(h, i, x)
            PROVE  Kept
        BY <4>5, VecGetIsKept, VecSetIsKept
      <4>6. ASSUME NEW h \in Slots, queue_pop(h) \/ queue_peek(h) PROVE Kept
        BY <4>6, QueuePopIsKept, QueuePeekIsKept
      <4>7. ASSUME NEW h \in Slots, NEW key \in Keys,
                   \/ map_get(h, key)
                   \/ map_has(h, key)
                   \/ \E x \in Values : map_set(h, key, x)
            PROVE  Kept
        BY <4>7, MapGetIsKept, MapHasIsKept, MapSetIsKept
      <4> QED
        BY <4>1, <4>2, <4>3, <4>4, <4>5, <4>6, <4>7 DEF Call
    <3> QED
      BY <3>1, <3>2
  <2>2. CASE Promised
    BY <2>1, <2>2 DEF Kept, Promised
  <2>3. CASE Abs' = Abs /\ reply' = reply
    <3>1. Promise!vars' = Promise!vars
      BY <2>3 DEF Promise!vars, Abs
    <3> QED
      BY <2>1, <3>1 DEF Kept
  <2> QED
    BY <2>1, <2>2, <2>3 DEF Kept
<1> QED
  BY <1>1, <1>2, <1>3, <1>4, PTL DEF Spec, ImplementsCollections, Promise!Spec
=============================================================================
