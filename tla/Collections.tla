----------------------------- MODULE Collections -----------------------------
(***************************************************************************)
(* What the collections of a Demonic C program are to that program: a      *)
(* vector is a sequence, a queue hands its elements out in the order they  *)
(* came, a map is a partial function, and each belongs to one handle.      *)
(***************************************************************************)
EXTENDS Integers, Sequences, FiniteSets

CONSTANTS
  Kinds,    \* the kinds of collection: "vec", "queue", "map"
  Values,   \* what is stored
  Keys,     \* the keys of maps
  Handles   \* handles that may be issued

VARIABLES
  live,     \* <<kind, handle>> -> content, for the collections there are
  reply     \* what the last call returned

vars == <<live, reply>>

Empty(kind) == IF kind = "map" THEN [k \in {} |-> 0] ELSE <<>>

Of(kind) == {c \in DOMAIN live : c[1] = kind}

Becomes(c, content, answer) ==
  /\ live'  = [live EXCEPT ![c] = content]
  /\ reply' = answer

Answers(answer) == reply' = answer /\ UNCHANGED live

Init == live = [c \in {} |-> <<>>] /\ reply = 0

New(c) ==
  /\ c \notin DOMAIN live
  /\ live'  = [d \in DOMAIN live \cup {c} |->
                 IF d = c THEN Empty(c[1]) ELSE live[d]]
  /\ reply' = c[2]

Free(c) ==
  /\ live'  = [d \in DOMAIN live \ {c} |-> live[d]]
  /\ reply' = 0

Push(c, x) == Becomes(c, Append(live[c], x), 0)

Length(c) ==
  Answers(IF c[1] = "map" THEN Cardinality(DOMAIN live[c]) ELSE Len(live[c]))

VecSet(c, i, x) ==
  i \in DOMAIN live[c] /\ Becomes(c, [live[c] EXCEPT ![i] = x], 0)
VecGet(c, i)    == i \in DOMAIN live[c] /\ Answers(live[c][i])

Pop(c)  == live[c] # <<>> /\ Becomes(c, Tail(live[c]), Head(live[c]))
Peek(c) == live[c] # <<>> /\ Answers(Head(live[c]))

Put(c, k, x) ==
  Becomes(c, [j \in DOMAIN live[c] \cup {k} |-> IF j = k THEN x ELSE live[c][j]], 0)
Get(c, k) == k \in DOMAIN live[c] /\ Answers(live[c][k])
Has(c, k) == Answers(IF k \in DOMAIN live[c] THEN 1 ELSE 0)

(* A call the collection cannot serve changes nothing.  Which calls those  *)
(* are is left open here, so that refining this says nothing of whether a  *)
(* refusal, or NotThere below, was the right answer.                       *)
Refused == Answers(-1)

Next ==
  \/ Refused
  \/ \E c \in Kinds \X Handles : New(c)
  \/ \E c \in DOMAIN live : Free(c) \/ Length(c)
  \/ \E c \in Of("vec") :
       \/ \E x \in Values : Push(c, x) \/ \E i \in DOMAIN live[c] : VecSet(c, i, x)
       \/ \E i \in DOMAIN live[c] : VecGet(c, i)
  \/ \E c \in Of("queue") : Pop(c) \/ Peek(c) \/ \E x \in Values : Push(c, x)
  \/ \E c \in Of("map"), k \in Keys :
       Get(c, k) \/ Has(c, k) \/ \E x \in Values : Put(c, k, x)

(* A map that is not there has no key. *)
NotThere == Answers(0)

Spec == Init /\ [][Next \/ NotThere]_vars
=============================================================================
