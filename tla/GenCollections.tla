--------------------------- MODULE GenCollections ---------------------------
(***************************************************************************)
(* The vectors, queues and maps of the C runtime that compiler/dmc.cpp     *)
(* writes at the head of every program (emit_runtime).  One action is one  *)
(* call.  Every kind has its own table of pointers, its own counter of     *)
(* handles and its own _dmc_resize function of one shape.                  *)
(*                                                                         *)
(* Only vec_len and queue_len check a handle against the table; to the     *)
(* other calls the program passes a handle inside it.  The calls also rely *)
(* on realloc, malloc and the calloc of map_set to succeed; only calloc in *)
(* the _new calls and the realloc of a table may fail here.  A handle that *)
(* is written past its table ends the run: nothing can be said after it.   *)
(***************************************************************************)
EXTENDS Integers, Sequences, FiniteSets, SequencesExt

CONSTANTS
  Kinds,        \* the kinds of collection in use
  Values,       \* long long values that are stored
  Keys,         \* long long keys
  InitialSlots, \* slots of the first table, 64 in the code
  InitialCap,   \* elements of the first buffer, 4 in the code
  Buckets,      \* buckets of a map, 8 in the code
  IntRange,     \* a C int wraps modulo this
  MaxHandles,   \* bound: kind -> handles issued
  MaxLen,       \* bound: elements in a vector, in a queue
  MaxLive,      \* bound: collections at a time
  Null

ASSUME CollectionsAssumption ==
  /\ Kinds \subseteq {"vec", "queue", "map"}
  /\ Values \subseteq Int
  /\ Keys \subseteq Int
  /\ InitialCap \in Nat \ {0}
  /\ Buckets \in Nat \ {0}
  /\ IntRange \in Nat \ {0}
  /\ InitialSlots \in Nat \ {0}
  /\ MaxHandles \in [Kinds -> Nat]

VARIABLES
  next,   \* kind -> the next handle
  cap,    \* kind -> slots in the table
  objs,   \* kind -> handle -> the collection, or Null
  reply,  \* what the last call returned
  status  \* "running", or "past" after a write past a table

vars == <<next, cap, objs, reply, status>>

Handles == 1 .. Max(Range(MaxHandles))
Slots   == Handles \cup {0}

(* A C int made from a long long. *)
ToInt(v) ==
  LET r == v % IntRange IN IF 2 * r >= IntRange THEN r - IntRange ELSE r

(* What calloc leaves: no buffer, no buckets. *)
NewObject(kind) ==
  CASE kind = "vec"   -> [len |-> 0, data |-> <<>>]
    [] kind = "queue" -> [len |-> 0, head |-> 0, tail |-> 0, data |-> <<>>]
    [] kind = "map"   -> [used |-> 0, buckets |-> <<>>]

Init ==
  /\ next  = [k \in Kinds |-> 1]
  /\ cap   = [k \in Kinds |-> 0]
  /\ objs  = [k \in Kinds |-> [h \in Slots |-> Null]]
  /\ reply = 0
  /\ status = "running"

Live == {c \in Kinds \X Handles : objs[c[1]][c[2]] # Null}

Return(r) == reply' = r
Unchanged == UNCHANGED <<next, cap, objs, status>>
Fails     == Return(-1) /\ Unchanged

(* A slot of the table, and the collection in it. *)
InTable(kind, h) == kind \in Kinds /\ h \in 0 .. cap[kind] - 1
There(kind, h)   == InTable(kind, h) /\ objs[kind][h] # Null

Gone(kind, h) == InTable(kind, h) /\ objs[kind][h] = Null

Becomes(kind, h, o) ==
  /\ objs' = [objs EXCEPT ![kind][h] = o]
  /\ UNCHANGED <<next, cap, status>>

-----------------------------------------------------------------------------
(* _new and _free, the same for the three kinds.                           *)

BugNoFirstTable(kind, need) ==
  IF need <= cap[kind] THEN cap[kind]
  ELSE IF 2 * cap[kind] < need THEN need ELSE 2 * cap[kind]

(* _dmc_resize: asked for h slots to hold a handle h, which takes h + 1 *)
NewCap(kind, need) ==
  LET doubled == IF cap[kind] = 0 THEN InitialSlots ELSE 2 * cap[kind]
  IN  IF need <= cap[kind] THEN cap[kind]
      ELSE IF doubled < need THEN need ELSE doubled

TakeHandle(kind) == next' = [next EXCEPT ![kind] = @ + 1]

(* realloc fails and the handle is used up. *)
NoTable(kind, h) ==
  /\ h > cap[kind]
  /\ TakeHandle(kind)
  /\ Return(-1)
  /\ UNCHANGED <<cap, objs, status>>

(* The table has no slot h. *)
PastTable(kind, h) ==
  /\ h >= NewCap(kind, h)
  /\ TakeHandle(kind)
  /\ cap'    = [cap EXCEPT ![kind] = NewCap(kind, h)]
  /\ status' = "past"
  /\ UNCHANGED <<objs, reply>>

Made(kind, h) ==
  /\ h < NewCap(kind, h)
  /\ Cardinality(Live) < MaxLive
  /\ TakeHandle(kind)
  /\ cap'  = [cap EXCEPT ![kind] = NewCap(kind, h)]
  /\ objs' = [objs EXCEPT ![kind][h] = NewObject(kind)]
  /\ Return(h)
  /\ UNCHANGED status

New(kind) ==
  \/ Fails
  \/ /\ next[kind] <= MaxHandles[kind]
     /\ \/ NoTable(kind, next[kind])
        \/ PastTable(kind, next[kind])
        \/ Made(kind, next[kind])

Free(kind, h) ==
  \/ Gone(kind, h) /\ Fails
  \/ There(kind, h) /\ Becomes(kind, h, Null) /\ Return(0)

Length(kind, h) ==
  \/ kind # "map" /\ ~InTable(kind, h) /\ Fails
  \/ Gone(kind, h) /\ Fails
  \/ /\ There(kind, h)
     /\ Return(IF kind = "map" THEN objs[kind][h].used ELSE objs[kind][h].len)
     /\ Unchanged

-----------------------------------------------------------------------------
(* Vectors and queues keep a buffer that doubles; what realloc adds to it  *)
(* holds anything, Null here.                                              *)

Cap(o) == Len(o.data)

BugGrownLate(o) ==
  LET newCap == IF Cap(o) = 0 THEN InitialCap ELSE 2 * Cap(o)
  IN  IF o.len <= Cap(o) /\ Cap(o) > 0 THEN o
      ELSE [o EXCEPT !.data = [i \in 1 .. newCap |-> Null]]

Grown(o) ==
  LET newCap == IF Cap(o) = 0 THEN InitialCap ELSE 2 * Cap(o)
  IN  IF o.len < Cap(o) THEN o
      ELSE [o EXCEPT !.data = [i \in 1 .. newCap |->
                                 IF i <= Cap(o) THEN o.data[i] ELSE Null]]

(* data[i], counted from 0 *)
At(o, i) == o.data[i + 1]

vec_push(h, x) ==
  \/ Gone("vec", h) /\ Fails
  \/ /\ There("vec", h)
     /\ objs["vec"][h].len < MaxLen["vec"]
     /\ LET v == Grown(objs["vec"][h])
        IN  Becomes("vec", h, [v EXCEPT !.data[v.len + 1] = x, !.len = @ + 1])
     /\ Return(0)

VecHas(h, i) == There("vec", h) /\ i \in 0 .. objs["vec"][h].len - 1

VecMisses(h, i) ==
  InTable("vec", h) /\ ~VecHas(h, i) /\ Fails

vec_get(h, i) ==
  \/ VecMisses(h, i)
  \/ VecHas(h, i) /\ Return(ToInt(At(objs["vec"][h], i))) /\ Unchanged

vec_set(h, i, x) ==
  \/ VecMisses(h, i)
  \/ /\ VecHas(h, i)
     /\ Becomes("vec", h, [objs["vec"][h] EXCEPT !.data[i + 1] = x])
     /\ Return(0)

(* The position after i in the ring of q *)
After(q, i) == (i + 1) % Cap(q)

queue_push(h, x) ==
  \/ Gone("queue", h) /\ Fails
  \/ /\ There("queue", h)
     /\ objs["queue"][h].len < MaxLen["queue"]
     /\ LET q == Grown(objs["queue"][h])
        IN  Becomes("queue", h,
              [q EXCEPT !.data[q.tail + 1] = x,
                        !.tail = After(q, q.tail),
                        !.len  = @ + 1])
     /\ Return(0)

QueueEmpty(h) ==
  InTable("queue", h) /\ (There("queue", h) => objs["queue"][h].len = 0)

QueueFilled(h) == There("queue", h) /\ objs["queue"][h].len > 0

(* The element at the head; one that realloc left there is any value. *)
Oldest(q) == IF At(q, q.head) = Null THEN Values ELSE {At(q, q.head)}

BugPopKeepsHead(q) == [q EXCEPT !.len = @ - 1]

Popped(q) == [q EXCEPT !.head = After(q, q.head), !.len = @ - 1]

queue_pop(h) ==
  \/ QueueEmpty(h) /\ Fails
  \/ /\ QueueFilled(h)
     /\ \E x \in Oldest(objs["queue"][h]) : Return(ToInt(x))
     /\ Becomes("queue", h, Popped(objs["queue"][h]))

queue_peek(h) ==
  \/ QueueEmpty(h) /\ Fails
  \/ /\ QueueFilled(h)
     /\ \E x \in Oldest(objs["queue"][h]) : Return(ToInt(x))
     /\ Unchanged

-----------------------------------------------------------------------------
(* Maps: a fixed number of chains, new nodes in front. *)

Bucket(key) == (key % Buckets) + 1

Chains(m) == IF m.buckets = <<>> THEN [b \in 1 .. Buckets |-> <<>>] ELSE m.buckets
Nodes(m, key) ==
  LET chain == Chains(m)[Bucket(key)]
  IN  {i \in DOMAIN chain : chain[i].key = key}

Assigned(m, key, value) ==
  LET node == [key |-> key, value |-> value] IN
  IF Nodes(m, key) # {}
  THEN [m EXCEPT !.buckets[Bucket(key)] =
          [i \in DOMAIN @ |-> IF i \in Nodes(m, key) THEN node ELSE @[i]]]
  ELSE [used    |-> m.used + 1,
        buckets |-> [Chains(m) EXCEPT ![Bucket(key)] = <<node>> \o @]]

map_set(h, key, value) ==
  \/ Gone("map", h) /\ Fails
  \/ /\ There("map", h)
     /\ Becomes("map", h, Assigned(objs["map"][h], key, value))
     /\ Return(0)

MapHas(h, key) == There("map", h) /\ Nodes(objs["map"][h], key) # {}

map_get(h, key) ==
  \/ InTable("map", h) /\ ~MapHas(h, key) /\ Fails
  \/ /\ MapHas(h, key)
     /\ LET m == objs["map"][h]
        IN  \E i \in Nodes(m, key) :
              Return(ToInt(m.buckets[Bucket(key)][i].value))
     /\ Unchanged

map_has(h, key) ==
  /\ InTable("map", h)
  /\ Return(IF MapHas(h, key) THEN 1 ELSE 0)
  /\ Unchanged

-----------------------------------------------------------------------------
(* The program passes any handle it may hold, an index one past the end or *)
(* below zero, and any value and key.                                      *)
Index == -1 .. MaxLen["vec"]

Call ==
  \/ \E kind \in Kinds : New(kind)
  \/ \E kind \in Kinds, h \in Slots \cup {-1} : Free(kind, h) \/ Length(kind, h)
  \/ \E h \in Slots :
       \/ \E x \in Values : vec_push(h, x) \/ queue_push(h, x)
       \/ \E i \in Index : vec_get(h, i) \/ \E x \in Values : vec_set(h, i, x)
       \/ queue_pop(h)
       \/ queue_peek(h)
       \/ \E key \in Keys :
            \/ map_get(h, key)
            \/ map_has(h, key)
            \/ \E x \in Values : map_set(h, key, x)

Next == status = "running" /\ Call

Spec == Init /\ [][Next]_vars

-----------------------------------------------------------------------------
BufferOK(o) ==
  /\ o.len \in 0 .. Cap(o)
  /\ \A i \in DOMAIN o.data : o.data[i] \in Values \cup {Null}

(* Lengths and ring positions stay inside the buffers, full or growing. *)
TypeOK ==
  /\ \A k \in Kinds : next[k] \in 1 .. MaxHandles[k] + 1 /\ cap[k] \in Nat
  /\ \A c \in Live :
       LET o == objs[c[1]][c[2]] IN
       /\ c[2] < next[c[1]] /\ c[2] < cap[c[1]]
       /\ c[1] # "map" => BufferOK(o)
       /\ c[1] = "queue" /\ Cap(o) > 0 => {o.head, o.tail} \subseteq 0 .. Cap(o) - 1

(* As long as a program has made fewer collections of each kind than the   *)
(* first table has slots, freed ones and failures included, every handle   *)
(* has its slot, also where tables of other kinds are full.                *)
FewHandlesFit ==
  status = "past" => \E k \in Kinds : next[k] > InitialSlots /\ next[k] - 1 = cap[k]

Content(c) ==
  LET o == objs[c[1]][c[2]] IN
  CASE c[1] = "vec"   -> [i \in 1 .. o.len |-> At(o, i - 1)]
    [] c[1] = "queue" -> [i \in 1 .. o.len |-> At(o, (o.head + i - 1) % Cap(o))]
    [] c[1] = "map"   ->
         [key \in {k \in Keys : Nodes(o, k) # {}} |->
            LET i == CHOOSE i \in Nodes(o, key) : TRUE
            IN  o.buckets[Bucket(key)][i].value]

(* The calls implement sequences, first-in first-out queues and maps, each *)
(* handle its own, and answer with the value that was stored.              *)
Promise == INSTANCE Collections WITH live <- [c \in Live |-> Content(c)]

ImplementsCollections == Promise!Spec
=============================================================================
