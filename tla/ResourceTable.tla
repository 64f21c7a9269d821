---------------------------- MODULE ResourceTable ----------------------------
(***************************************************************************)
(* What the standalone runtime (runtime/) promises its caller, with no     *)
(* table, address or capacity in sight: every successful open hands out a  *)
(* handle nobody has seen before, a handle owns one private object until   *)
(* it is closed, and a closed handle is dead for good.                     *)
(***************************************************************************)
EXTENDS Integers

CONSTANTS
  Kinds,      \* what an object may be: memory, file or socket
  Byte,       \* values of one byte of a memory object
  MaxSize,    \* no object is larger than this
  Limit,      \* how many handles may ever be issued
  NoOut       \* reply of a call that reads nothing

VARIABLES
  issued,     \* handles 0 .. issued-1 have been handed out
  objs,       \* live handle -> the object it owns
  reply       \* byte delivered by the last call, if any

vars == <<issued, objs, reply>>

Init ==
  /\ issued = 0
  /\ objs   = [h \in {} |-> 0]
  /\ reply  = NoOut

(* A new object of n zero bytes, under the next handle in line. *)
Acquire(kind, n) ==
  /\ issued < Limit
  /\ objs'   = [h \in DOMAIN objs \cup {issued} |->
                  IF h = issued
                  THEN [kind |-> kind, data |-> [i \in 0 .. n - 1 |-> 0]]
                  ELSE objs[h]]
  /\ issued' = issued + 1
  /\ reply'  = NoOut

(* The owner of h stores or fetches one byte that lies inside its object. *)
Store(h, i, v) ==
  /\ objs'  = [objs EXCEPT ![h] =
                 [kind |-> objs[h].kind, data |-> [objs[h].data EXCEPT ![i] = v]]]
  /\ reply' = NoOut
  /\ UNCHANGED issued

Fetch(h, i) ==
  /\ reply' = objs[h].data[i]
  /\ UNCHANGED <<issued, objs>>

(* The object goes away and its handle with it. *)
Dispose(h) ==
  /\ objs'  = [x \in DOMAIN objs \ {h} |-> objs[x]]
  /\ reply' = NoOut
  /\ UNCHANGED issued

(* A refused call, or one whose effect lies outside the table. *)
NoEffect ==
  /\ reply' = NoOut
  /\ UNCHANGED <<issued, objs>>

Next ==
  \/ \E kind \in Kinds, n \in 0 .. MaxSize : Acquire(kind, n)
  \/ \E h \in DOMAIN objs : \E i \in DOMAIN objs[h].data :
       \/ \E v \in Byte : Store(h, i, v)
       \/ Fetch(h, i)
  \/ \E h \in DOMAIN objs : Dispose(h)
  \/ NoEffect

Spec == Init /\ [][Next]_vars
=============================================================================
