-------------------------- MODULE DmcThreadsProofs --------------------------
(***************************************************************************)
(* Proofs about DmcThreads, for any number of threads, any table size and  *)
(* any number of objects.                                                  *)
(***************************************************************************)
EXTENDS DmcThreads, TLAPS

(* Whoever is about to fill a slot has room for it. *)
Bounds ==
  /\ used <= cap
  /\ cap = 0 \/ cap >= DMC_MIN_HANDLES
  /\ \A t \in Threads : pc[t] = "take" => used < cap
  /\ \A t \in Threads : pc[t] \in {"publish", "capacity"} => ~TableFull

IInv == TypeOK /\ MutualExclusion /\ HandlesAreUnique /\ Bounds

(* What the steps outside the lock have in common. *)
Outside(t) ==
  /\ pc[t] \notin Locked
  /\ \E p \in Points \ Locked : pc' = [pc EXCEPT ![t] = p]
  /\ h' = h \/ \E i \in Handles : h' = [h EXCEPT ![t] = i]
  /\ obj' \in [Threads -> Objects \cup {None}]
  /\ slot' \in [Threads -> 0 .. block]
  /\ slots' \in [Handles -> Objects \cup {None}]
  /\ heap' \subseteq Objects
  /\ UNCHANGED <<lock, block, at, cap, used, own, shared, status>>

LEMMA ZeroIsHandle == 0 \in Handles
BY ThreadsAssumption DEF Handles

LEMMA InitInv == Init => IInv
<1> SUFFICES ASSUME Init PROVE IInv
  OBVIOUS
<1>1. TypeOK
  BY ThreadsAssumption, ZeroIsHandle DEF Init, TypeOK, Points
<1>2. MutualExclusion
  BY ThreadsAssumption DEF Init, MutualExclusion, Locked
<1>3. HandlesAreUnique
  BY DEF Init, HandlesAreUnique, Issued
<1>4. Bounds
  BY ThreadsAssumption DEF Init, Bounds
<1> QED
  BY <1>1, <1>2, <1>3, <1>4 DEF IInv

(* A call that is over leaves everything about its thread in order.        *)
LEMMA ReturnTyped ==
  ASSUME TypeOK, NEW t \in Threads, Return(t)
  PROVE  /\ pc' = [pc EXCEPT ![t] = "idle"]
         /\ h' = [h EXCEPT ![t] = 0]
         /\ obj' \in [Threads -> Objects \cup {None}]
         /\ slot' \in [Threads -> 0 .. block]
BY DEF Return, TypeOK

LEMMA ReturnOutside ==
  ASSUME TypeOK, NEW t \in Threads, pc[t] \notin Locked, Return(t),
         UNCHANGED <<table, heap, own, shared, status>>
  PROVE  Outside(t)
<1>1. "idle" \in Points \ Locked
  BY DEF Points, Locked
<1> QED
  BY <1>1, ReturnTyped, ZeroIsHandle DEF Outside, table, TypeOK

LEMMA RangeStep ==
  ASSUME TypeOK, NEW t \in Threads, NEW now, NEW next \in Points \ Locked,
         now \notin Locked, Range(t, now, next)
  PROVE  Outside(t)
<1>1. CASE h[t] < cap
  BY <1>1 DEF Range, At, Goto, Outside, table, TypeOK
<1>2. CASE ~(h[t] < cap)
  BY <1>2, ReturnOutside DEF Range, At
<1> QED
  BY <1>1, <1>2

LEMMA KindStep ==
  ASSUME TypeOK, NEW t \in Threads, NEW now, NEW next \in Points \ Locked,
         now \notin Locked, Kind(t, now, next)
  PROVE  Outside(t) \/ Undefined("moved")
<1>1. CASE Stale(t, now, at)
  BY <1>1 DEF Stale
<1>2. CASE /\ At(t, now) /\ at = block
           /\ slot' = [slot EXCEPT ![t] = at]
           /\ Goto(t, next)
           /\ UNCHANGED <<table, heap, h, obj, own, shared, status>>
  BY <1>2 DEF At, Goto, Outside, table, TypeOK
<1>3. CASE /\ At(t, now) /\ Return(t)
           /\ UNCHANGED <<table, heap, own, shared, status>>
  BY <1>3, ReturnOutside DEF At
<1> QED
  BY <1>1, <1>2, <1>3 DEF Kind

LEMMA ValueStep ==
  ASSUME TypeOK, NEW t \in Threads, NEW now, NEW next \in Points \ Locked,
         now \notin Locked, Value(t, now, next)
  PROVE  Outside(t)
BY DEF Value, At, Goto, Outside, table, TypeOK

LEMMA ReadIsOutside ==
  ASSUME TypeOK, NEW t \in Threads, ReadStep(t)
  PROVE  Outside(t) \/ Undefined("moved")
<1> USE DEF Points, Locked, Read
<1>1. CASE Range(t, "read_range", "read_kind")
  BY <1>1, RangeStep
<1>2. CASE Kind(t, "read_kind", "read_size")
  BY <1>2, KindStep
<1>3. CASE ReadSize(t)
  <2>1. CASE Stale(t, "read_size", slot[t])
    BY <2>1 DEF Stale
  <2>2. CASE ~Stale(t, "read_size", slot[t]) /\ slots[h[t]] # None
    BY <1>3, <2>2 DEF ReadSize, At, Goto, Outside, table, TypeOK
  <2>3. CASE ~Stale(t, "read_size", slot[t]) /\ slots[h[t]] = None
    BY <1>3, <2>3, ReturnOutside DEF ReadSize, At
  <2> QED
    BY <2>1, <2>2, <2>3
<1>4. CASE Stale(t, "read_value", slot[t])
  BY <1>4 DEF Stale
<1>5. CASE Value(t, "read_value", "read")
  BY <1>5, ValueStep
<1>6. CASE ReadByte(t)
  BY <1>6, ReturnOutside DEF ReadByte, At
<1> QED
  BY <1>1, <1>2, <1>3, <1>4, <1>5, <1>6 DEF ReadStep

LEMMA FreeIsOutside ==
  ASSUME TypeOK, NEW t \in Threads, FreeStep(t)
  PROVE  Outside(t) \/ Undefined("moved")
<1> USE DEF Points, Locked, Free
<1>1. CASE Range(t, "free_range", "free_kind")
  BY <1>1, RangeStep
<1>2. CASE Kind(t, "free_kind", "free_value")
  BY <1>2, KindStep
<1>3. CASE Stale(t, "free_value", slot[t])
  BY <1>3 DEF Stale
<1>4. CASE Value(t, "free_value", "free")
  BY <1>4, ValueStep
<1>5. CASE FreeObject(t)
  BY <1>5 DEF FreeObject, At, Goto, Outside, table, TypeOK
<1>6. CASE Zero(t)
  BY <1>6 DEF Zero, Stale, At, Goto, Outside, TypeOK
<1>7. CASE Release(t)
  BY <1>7, ReturnOutside DEF Release, Stale, At
<1> QED
  BY <1>1, <1>2, <1>3, <1>4, <1>5, <1>6, <1>7 DEF FreeStep

LEMMA BeginIsOutside ==
  ASSUME TypeOK, NEW t \in Threads, Begin(t)
  PROVE  \/ Outside(t)
         \/ Allocate(t)
<1>1. CASE Allocate(t)
  BY <1>1
<1>2. ASSUME NEW i \in Handles, Call(t, i) PROVE Outside(t)
  <2>1. PICK p \in {"read_range", "free_range"} : Goto(t, p)
    BY <1>2 DEF Call
  <2> QED
    BY <1>2, <2>1 DEF Call, At, Goto, Outside, table, TypeOK, Points, Locked, Read, Free
<1> QED
  BY <1>1, <1>2 DEF Begin

LEMMA CallocIsObject ==
  ASSUME Fresh # {}
  PROVE  calloc \in Objects /\ calloc \in Fresh
BY DEF calloc, Fresh

LEMMA AllocateIsOutside ==
  ASSUME TypeOK, NEW t \in Threads, Allocate(t)
  PROVE  Outside(t)
BY CallocIsObject DEF Allocate, At, Goto, Outside, table, TypeOK, Points, Locked

LEMMA ContinueIsOutside ==
  ASSUME TypeOK, NEW t \in Threads, ReadStep(t) \/ FreeStep(t) \/ Gone(t)
  PROVE  Outside(t) \/ Undefined("moved") \/ Undefined("freed")
BY ReadIsOutside, FreeIsOutside DEF Gone

-----------------------------------------------------------------------------
(* The steps outside the lock. *)

LEMMA OutsideKeeps ==
  ASSUME IInv, NEW t \in Threads, Outside(t)
  PROVE  IInv'
<1> USE DEF IInv, Outside
<1> PICK p \in Points \ Locked : pc' = [pc EXCEPT ![t] = p]
  OBVIOUS
<1>1. TypeOK'
  BY DEF TypeOK
<1>2. \A u \in Threads : pc'[u] \in Locked <=> pc[u] \in Locked
  BY DEF TypeOK
<1>3. \A u \in Threads : pc'[u] \in Locked => pc'[u] = pc[u] /\ h'[u] = h[u]
  BY DEF TypeOK
<1>4. MutualExclusion'
  BY <1>2 DEF MutualExclusion
<1>5. \A u \in Threads : Issued(u)' = Issued(u)
  <2> TAKE u \in Threads
  <2>1. "unlock" \in Locked
    BY DEF Locked
  <2>2. (pc[u] = "unlock" <=> pc'[u] = "unlock") /\ (pc[u] = "unlock" => h'[u] = h[u])
    BY <2>1, <1>2, <1>3 DEF TypeOK
  <2> QED
    BY <2>2 DEF Issued
<1>6. HandlesAreUnique'
  BY <1>5 DEF HandlesAreUnique
<1>7. Bounds'
  <2>1. {"take", "publish", "capacity"} \subseteq Locked
    BY DEF Locked
  <2>2. TableFull' <=> TableFull
    BY DEF TableFull, Needed
  <2> QED
    BY <2>1, <2>2, <1>3 DEF Bounds
<1> QED
  BY <1>1, <1>4, <1>6, <1>7

LEMMA UndefinedKeeps ==
  ASSUME IInv, NEW why \in {"moved", "freed"}, Undefined(why)
  PROVE  IInv'
<1>1. TypeOK'
  BY DEF IInv, Undefined, TypeOK, table, locals
<1>2. MutualExclusion' /\ HandlesAreUnique' /\ Bounds'
  BY DEF IInv, Undefined, table, locals, MutualExclusion, HandlesAreUnique, Issued,
         Bounds, TableFull, Needed
<1> QED
  BY <1>1, <1>2 DEF IInv

-----------------------------------------------------------------------------
(* The steps under the lock. *)

(* Whoever is between lock and unlock is alone there. *)
LEMMA AloneInside ==
  ASSUME MutualExclusion, NEW t \in Threads, pc[t] \in Locked
  PROVE  lock = t /\ \A u \in Threads : pc[u] \in Locked => u = t
BY DEF MutualExclusion

LEMMA UnlockedMeansNoneInside ==
  ASSUME MutualExclusion, lock = None
  PROVE  \A u \in Threads : pc[u] \notin Locked
BY ThreadsAssumption DEF MutualExclusion

(* The thread t goes from one point under the lock to another, and nobody  *)
(* else is there.                                                          *)
Inside(t, p) ==
  /\ p \in Locked \ {"unlock"}
  /\ pc' = [pc EXCEPT ![t] = p]
  /\ lock' = t
  /\ \A u \in Threads \ {t} : pc[u] \notin Locked
  /\ pc[t] # "unlock"
  /\ UNCHANGED <<used, own, h>>

LEMMA InsideKeepsOrder ==
  ASSUME IInv, NEW t \in Threads, NEW p, Inside(t, p)
  PROVE  MutualExclusion' /\ HandlesAreUnique'
<1> USE DEF IInv, Inside
<1>1. MutualExclusion'
  BY DEF MutualExclusion, TypeOK
<1>2. \A u \in Threads : Issued(u)' = Issued(u)
  <2> TAKE u \in Threads
  <2>1. (pc[u] = "unlock" <=> pc'[u] = "unlock")
    BY DEF TypeOK
  <2> QED
    BY <2>1 DEF Issued
<1> QED
  BY <1>1, <1>2 DEF HandlesAreUnique

LEMMA LockKeeps ==
  ASSUME IInv, NEW t \in Threads, Lock(t)
  PROVE  IInv'
<1> USE DEF IInv, Lock, At, Goto
<1>1. TypeOK'
  BY DEF TypeOK, Points, Locked
<1>2. Inside(t, "ensure")
  BY UnlockedMeansNoneInside DEF Inside, Locked
<1>3. Bounds'
  BY <1>2 DEF Bounds, Inside, Locked, TableFull, Needed, TypeOK
<1> QED
  BY <1>1, <1>2, <1>3, InsideKeepsOrder

LEMMA EnsureKeeps ==
  ASSUME IInv, NEW t \in Threads, Ensure(t)
  PROVE  IInv'
<1> USE DEF IInv, Ensure, At, Goto
<1>1. TypeOK'
  <2>1. block' \in {block, block + 1}
    OBVIOUS
  <2>2. \E p \in Points : pc' = [pc EXCEPT ![t] = p]
    BY DEF Points, Locked
  <2>3. block' \in Nat /\ at \in 0 .. block' /\ 0 .. block \subseteq 0 .. block'
    BY <2>1 DEF TypeOK
  <2> QED
    BY <2>2, <2>3 DEF TypeOK
<1>2. "ensure" \in Locked
  BY DEF Locked
<1>3. PICK p \in {"refuse", "take", "publish"} : Inside(t, p)
  BY <1>2, AloneInside DEF Inside, Locked
<1>4. Bounds'
  <2>1. TableFull' <=> TableFull
    BY DEF TableFull, Needed
  <2>2. \A u \in Threads \ {t} : pc'[u] = pc[u]
    BY <1>3 DEF Inside, TypeOK
  <2>3. pc'[t] = p
    BY <1>3 DEF Inside, TypeOK
  <2>4. p = "take" => Needed <= cap
    BY <2>3 DEF TypeOK
  <2>5. p = "publish" => ~TableFull
    BY <2>3 DEF TypeOK
  <2>6. Needed <= cap => used < cap
    BY ThreadsAssumption DEF Needed, Larger, TypeOK
  <2>7. \A u \in Threads : pc'[u] = "take" => used < cap
    BY <2>2, <2>3, <2>4, <2>6 DEF Bounds
  <2>8. \A u \in Threads : pc'[u] \in {"publish", "capacity"} => ~TableFull
    BY <2>2, <2>3, <2>5 DEF Bounds
  <2> QED
    BY <2>1, <2>7, <2>8 DEF Bounds
<1> QED
  BY <1>1, <1>3, <1>4, InsideKeepsOrder

LEMMA PublishKeeps ==
  ASSUME IInv, NEW t \in Threads, Publish(t)
  PROVE  IInv'
<1> USE DEF IInv, Publish, At, Goto
<1>1. TypeOK'
  BY DEF TypeOK, Points, Locked
<1>2. Inside(t, "capacity")
  BY AloneInside DEF Inside, Locked
<1>3. Bounds'
  BY <1>2 DEF Bounds, Inside, Locked, TableFull, Needed, TypeOK
<1> QED
  BY <1>1, <1>2, <1>3, InsideKeepsOrder

(* The new capacity has room for one more and stays within the maximum. *)
LEMMA NewCapacityFits ==
  ASSUME TypeOK, ~TableFull
  PROVE  /\ NewCapacity \in 0 .. DMC_MAX_HANDLES
         /\ NewCapacity > used
         /\ NewCapacity >= DMC_MIN_HANDLES
BY ThreadsAssumption DEF TypeOK, TableFull, NewCapacity, Needed, Larger

LEMMA CapacityKeeps ==
  ASSUME IInv, NEW t \in Threads, Capacity(t)
  PROVE  IInv'
<1> USE DEF IInv, Capacity, At, Goto
<1>1. ~TableFull
  BY DEF Bounds
<1>2. TypeOK'
  BY <1>1, NewCapacityFits DEF TypeOK, Points, Locked
<1>3. Inside(t, "take")
  BY AloneInside DEF Inside, Locked
<1>4. Bounds'
  <2>1. cap' \in Nat /\ used \in Nat /\ cap' > used /\ cap' >= DMC_MIN_HANDLES
    BY <1>1, NewCapacityFits DEF TypeOK
  <2>2. ~TableFull'
    BY <1>1 DEF TableFull, Needed
  <2>3. used' <= cap' /\ used' < cap'
    BY <2>1
  <2> QED
    BY <2>1, <2>2, <2>3 DEF Bounds
<1> QED
  BY <1>2, <1>3, <1>4, InsideKeepsOrder

LEMMA TakeKeeps ==
  ASSUME IInv, NEW t \in Threads, Take(t)
  PROVE  IInv'
<1> USE DEF IInv, Take, At, Goto
<1>1. used < cap /\ used \in Handles /\ used \in Nat
  BY ThreadsAssumption DEF Bounds, TypeOK, Handles
<1>2. TypeOK'
  <2>1. used' \in 0 .. DMC_MAX_HANDLES
    <3>1. cap \in Nat /\ cap <= DMC_MAX_HANDLES /\ DMC_MAX_HANDLES \in Nat
      BY ThreadsAssumption DEF TypeOK
    <3>2. used' = used + 1
      OBVIOUS
    <3> HIDE DEF IInv, Take, At, Goto
    <3> QED
      BY <1>1, <3>1, <3>2
  <2>2. "unlock" \in Points
    BY DEF Points, Locked
  <2>3. slots' \in [Handles -> Objects \cup {None}] /\ h' \in [Threads -> Handles]
    BY <1>1 DEF TypeOK
  <2> QED
    BY <2>1, <2>2, <2>3 DEF TypeOK
<1>3. lock = t /\ \A u \in Threads : pc[u] \in Locked => u = t
  BY AloneInside DEF Locked
<1>4. MutualExclusion'
  BY DEF MutualExclusion, TypeOK, Locked
<1>5. \A u \in Threads \ {t} : Issued(u)' = Issued(u)
  BY DEF Issued, TypeOK
<1>6. Issued(t)' = Issued(t) \cup {used}
  BY DEF Issued, TypeOK
<1>7. \A u \in Threads : Issued(u) \subseteq 0 .. used - 1
  BY DEF HandlesAreUnique
<1>8. HandlesAreUnique'
  <2>1. UNION {Issued(u)' : u \in Threads} = (UNION {Issued(u) : u \in Threads}) \cup {used}
    BY <1>5, <1>6
  <2>2. 0 .. used' - 1 = (0 .. used - 1) \cup {used}
    BY <1>1
  <2>3. ASSUME NEW u \in Threads, NEW v \in Threads, u # v
        PROVE  Issued(u)' \cap Issued(v)' = {}
    <3>1. Issued(u) \cap Issued(v) = {}
      BY <2>3 DEF HandlesAreUnique
    <3>2. used \notin Issued(u) /\ used \notin Issued(v)
      BY <1>1, <1>7
    <3> QED
      BY <1>5, <1>6, <2>3, <3>1, <3>2
  <2> QED
    BY <2>1, <2>2, <2>3 DEF HandlesAreUnique
<1>9. Bounds'
  <2>1. \A u \in Threads : pc'[u] \notin {"take", "publish", "capacity"}
    BY <1>3 DEF TypeOK, Locked
  <2> QED
    BY <1>1, <2>1 DEF Bounds, TypeOK
<1> QED
  BY <1>2, <1>4, <1>8, <1>9

(* The lock is given back and the call is over. *)
LEMMA LeavesKeeps ==
  ASSUME IInv, NEW t \in Threads, pc[t] \in Locked, Return(t),
         lock' = None, heap' \subseteq Objects,
         \A u \in Threads : Issued(u)' = Issued(u),
         own' \in [Threads -> SUBSET Handles],
         UNCHANGED <<block, at, cap, used, slots, shared, status>>
  PROVE  IInv'
<1> USE DEF IInv
<1>1. TypeOK'
  BY ReturnTyped, ZeroIsHandle DEF TypeOK, Points
<1>2. \A u \in Threads : pc'[u] \notin Locked
  BY AloneInside, ReturnTyped DEF TypeOK, Locked
<1>3. MutualExclusion'
  BY <1>2, ThreadsAssumption DEF MutualExclusion
<1>4. HandlesAreUnique'
  BY DEF HandlesAreUnique
<1>5. Bounds'
  BY <1>2 DEF Bounds, Locked
<1> QED
  BY <1>1, <1>3, <1>4, <1>5

LEMMA UnlockKeeps ==
  ASSUME IInv, NEW t \in Threads, Unlock(t)
  PROVE  IInv'
<1>1. pc[t] \in Locked /\ heap' \subseteq Objects
  BY DEF IInv, TypeOK, Unlock, At, Locked
<1>2. own' \in [Threads -> SUBSET Handles]
  BY DEF IInv, TypeOK, Unlock
<1>3. \A u \in Threads : Issued(u)' = Issued(u)
  BY DEF IInv, TypeOK, Unlock, At, Return, Issued
<1> QED
  BY <1>1, <1>2, <1>3, LeavesKeeps DEF Unlock

LEMMA RefuseKeeps ==
  ASSUME IInv, NEW t \in Threads, Refuse(t)
  PROVE  IInv'
<1>1. pc[t] \in Locked /\ heap' \subseteq Objects /\ own' \in [Threads -> SUBSET Handles]
  BY DEF IInv, TypeOK, Refuse, At, Locked
<1>2. \A u \in Threads : Issued(u)' = Issued(u)
  BY DEF IInv, TypeOK, Refuse, At, Return, Issued
<1> QED
  BY <1>1, <1>2, LeavesKeeps DEF Refuse

-----------------------------------------------------------------------------
LEMMA StepKeeps ==
  ASSUME IInv, [Next]_vars
  PROVE  IInv'
<1>1. CASE UNCHANGED vars
  BY <1>1 DEF vars, table, locals, IInv, TypeOK, MutualExclusion, HandlesAreUnique,
              Issued, Bounds, TableFull, Needed
<1>2. ASSUME NEW t \in Threads, Begin(t) PROVE IInv'
  BY <1>2, BeginIsOutside, AllocateIsOutside, OutsideKeeps DEF IInv
<1>3. ASSUME NEW t \in Threads, Continue(t) PROVE IInv'
  <2>1. CASE ReadStep(t) \/ FreeStep(t) \/ Gone(t)
    BY <2>1, ContinueIsOutside, OutsideKeeps, UndefinedKeeps DEF IInv
  <2> QED
    BY <1>3, <2>1, EnsureKeeps, PublishKeeps, CapacityKeeps, TakeKeeps, UnlockKeeps,
       RefuseKeeps DEF Continue
<1> QED
  BY <1>1, <1>2, <1>3, LockKeeps DEF Next

(* In every state of every run, for any number of threads and any size of  *)
(* the table: types, one thread at a time between DMC_LOCK and DMC_UNLOCK, *)
(* and every slot below dmc_slots_used given to exactly one thread, also   *)
(* while a call is in the middle of growing the table.                     *)
THEOREM TableIsSound ==
  Spec => [](TypeOK /\ MutualExclusion /\ HandlesAreUnique)
<1>1. IInv => TypeOK /\ MutualExclusion /\ HandlesAreUnique
  BY DEF IInv
<1> QED
  BY <1>1, InitInv, StepKeeps, PTL DEF Spec

(* The variables of the table and of every thread stay in their ranges, at *)
(* every point of every interleaving.                                      *)
THEOREM StateIsTyped == Spec => []TypeOK
BY TableIsSound, PTL

-----------------------------------------------------------------------------
(* Who owns the objects, and where a thread can come to use memory that is *)
(* gone.                                                                   *)

(* From calloc until the object is in a slot or free. *)
Pending == {"reserve", "ensure", "publish", "capacity", "take", "refuse"}
InCall  == Free \cup Read

(* An object that has no slot yet is allocated and nobody else's.          *)
PendingIsOwn ==
  /\ \A t \in Threads : pc[t] \in Pending =>
       obj[t] \in heap /\ \A i \in Handles : slots[i] # obj[t]
  /\ \A t, u \in Threads :
       t # u /\ pc[t] \in Pending /\ pc[u] \in Pending => obj[t] # obj[u]

SlotsDiffer ==
  \A i, j \in Handles : slots[i] = slots[j] /\ slots[i] # None => i = j

HeapIsHeld ==
  \A o \in heap : \/ \E i \in Handles : slots[i] = o
                  \/ \E t \in Threads : pc[t] \in Pending /\ obj[t] = o

(* A slot of a freed object is about to be zeroed. *)
FreedIsZeroed ==
  /\ \A i \in Handles : slots[i] # None /\ slots[i] \notin heap =>
       \E t \in Threads : pc[t] = "zero" /\ h[t] = i
  /\ \A t \in Threads : pc[t] = "zero" => slots[h[t]] \notin heap

(* What a thread has fetched from a slot is still there, or was freed.     *)
FetchedIsKnown ==
  \A t \in Threads : pc[t] \in {"read", "free"} =>
    /\ slots[h[t]] \in {None, obj[t]}
    /\ slots[h[t]] = None => obj[t] \notin heap

HandlesAreUsed ==
  /\ \A i \in Handles : i >= used => slots[i] = None
  /\ \A t \in Threads : pc[t] \in InCall => h[t] < used

OwnInv ==
  /\ PendingIsOwn
  /\ SlotsDiffer
  /\ HeapIsHeld
  /\ FreedIsZeroed
  /\ FetchedIsKnown
  /\ HandlesAreUsed

LEMMA InitOwn == Init => OwnInv
BY DEF Init, OwnInv, PendingIsOwn, SlotsDiffer, HeapIsHeld, FreedIsZeroed, FetchedIsKnown,
       HandlesAreUsed, Pending, InCall, Free, Read

(* The other threads stand still. *)
Alone(t) ==
  \A u \in Threads \ {t} : pc'[u] = pc[u] /\ h'[u] = h[u] /\ obj'[u] = obj[u]

(* A step that neither allocates, frees nor fetches. *)
Neutral(t) ==
  /\ Alone(t)
  /\ UNCHANGED <<heap, slots, used>>
  /\ pc[t] # "zero"
  /\ pc'[t] \notin {"read", "free", "zero"}
  /\ pc[t] \in Pending <=> pc'[t] \in Pending
  /\ pc[t] \in Pending => obj'[t] = obj[t]
  /\ pc'[t] \in InCall => h'[t] < used

LEMMA NeutralKeeps ==
  ASSUME IInv, OwnInv, NEW t \in Threads, Neutral(t)
  PROVE  OwnInv'
<1> USE DEF OwnInv, Neutral, Alone
<1>1. PendingIsOwn'
  BY DEF PendingIsOwn
<1>2. SlotsDiffer'
  BY DEF SlotsDiffer
<1>3. HeapIsHeld'
  BY DEF HeapIsHeld
<1>4. FreedIsZeroed'
  BY DEF FreedIsZeroed
<1>5. FetchedIsKnown'
  BY DEF FetchedIsKnown
<1>6. HandlesAreUsed'
  BY DEF HandlesAreUsed
<1> QED
  BY <1>1, <1>2, <1>3, <1>4, <1>5, <1>6

LEMMA AllocateOwn ==
  ASSUME IInv, OwnInv, NEW t \in Threads, Allocate(t)
  PROVE  OwnInv'
<1> DEFINE o == calloc
<1>1. /\ o \in Objects /\ o \notin heap
      /\ \A i \in Handles : slots[i] # o
      /\ \A u \in Threads : obj[u] # o
  BY CallocIsObject DEF Fresh, InHand, Allocate
<1>2. /\ heap' = heap \cup {o} /\ pc'[t] = "reserve" /\ obj'[t] = o
      /\ pc[t] = "idle" /\ h' = h /\ slots' = slots /\ used' = used
      /\ Alone(t)
  BY DEF Allocate, At, Goto, Alone, IInv, TypeOK, table
<1> HIDE DEF o
<1> USE DEF OwnInv, Alone
<1>3. PendingIsOwn'
  BY <1>1, <1>2 DEF PendingIsOwn, Pending
<1>4. SlotsDiffer'
  BY <1>2 DEF SlotsDiffer
<1>5. HeapIsHeld'
  BY <1>1, <1>2 DEF HeapIsHeld, Pending
<1>6. FreedIsZeroed'
  BY <1>1, <1>2 DEF FreedIsZeroed, IInv, TypeOK
<1>7. FetchedIsKnown'
  BY <1>1, <1>2 DEF FetchedIsKnown
<1>8. HandlesAreUsed'
  BY <1>2 DEF HandlesAreUsed, InCall, Free, Read
<1> QED
  BY <1>3, <1>4, <1>5, <1>6, <1>7, <1>8

LEMMA TakeOwn ==
  ASSUME IInv, OwnInv, NEW t \in Threads, Take(t)
  PROVE  OwnInv'
<1>1. used \in Handles /\ used \in Nat
  BY ThreadsAssumption DEF IInv, Take, At, Bounds, TypeOK, Handles
<1>2. /\ heap' = heap /\ pc'[t] = "unlock" /\ pc[t] = "take" /\ obj' = obj
      /\ used' = used + 1
      /\ slots' \in [Handles -> Objects \cup {None}]
      /\ slots'[used] = obj[t]
      /\ \A i \in Handles \ {used} : slots'[i] = slots[i]
      /\ Alone(t)
  BY <1>1 DEF Take, At, Goto, Alone, IInv, TypeOK
<1>3. /\ obj[t] \in heap /\ obj[t] \in Objects
      /\ \A i \in Handles : slots[i] # obj[t]
      /\ slots[used] = None
      /\ \A u \in Threads : h[u] \in Handles /\ h[u] \in Nat
      /\ None \notin heap
  <2>1. obj[t] \in heap /\ \A i \in Handles : slots[i] # obj[t]
    BY <1>2 DEF OwnInv, PendingIsOwn, Pending
  <2>2. heap \subseteq Objects /\ None \notin heap
    BY ThreadsAssumption DEF IInv, TypeOK
  <2>3. slots[used] = None
    BY <1>1 DEF OwnInv, HandlesAreUsed
  <2>4. \A u \in Threads : h[u] \in Handles /\ h[u] \in Nat
    BY ThreadsAssumption DEF IInv, TypeOK, Handles
  <2> QED
    BY <2>1, <2>2, <2>3, <2>4
<1>4. \A u \in Threads : pc[u] \in InCall => slots'[h[u]] = slots[h[u]]
  BY <1>1, <1>2, <1>3 DEF OwnInv, HandlesAreUsed
<1> USE DEF OwnInv, Alone
<1>5. PendingIsOwn'
  BY <1>1, <1>2, <1>3 DEF PendingIsOwn, Pending
<1>6. SlotsDiffer'
  BY <1>1, <1>2, <1>3 DEF SlotsDiffer
<1>7. HeapIsHeld'
  BY <1>1, <1>2, <1>3 DEF HeapIsHeld, Pending
<1>8. FreedIsZeroed'
  BY <1>1, <1>2, <1>3, <1>4 DEF FreedIsZeroed, InCall, Free
<1>9. FetchedIsKnown'
  BY <1>1, <1>2, <1>3, <1>4 DEF FetchedIsKnown, InCall, Free, Read
<1>10. HandlesAreUsed'
  BY <1>1, <1>2, <1>3 DEF HandlesAreUsed, InCall, Free, Read, Handles
<1> QED
  BY <1>5, <1>6, <1>7, <1>8, <1>9, <1>10

LEMMA RefuseOwn ==
  ASSUME IInv, OwnInv, NEW t \in Threads, Refuse(t)
  PROVE  OwnInv'
<1>1. /\ heap' = heap \ {obj[t]} /\ pc'[t] = "idle" /\ pc[t] = "refuse"
      /\ used' = used /\ slots' = slots
      /\ Alone(t)
  BY DEF Refuse, At, Return, Alone, IInv, TypeOK
<1> USE DEF OwnInv, Alone
<1>2. PendingIsOwn'
  BY <1>1 DEF PendingIsOwn, Pending
<1>3. SlotsDiffer'
  BY <1>1 DEF SlotsDiffer
<1>4. HeapIsHeld'
  BY <1>1 DEF HeapIsHeld, Pending
<1>5. FreedIsZeroed'
  BY <1>1 DEF FreedIsZeroed, PendingIsOwn, Pending
<1>6. FetchedIsKnown'
  BY <1>1 DEF FetchedIsKnown
<1>7. HandlesAreUsed'
  BY <1>1 DEF HandlesAreUsed, InCall, Free, Read
<1> QED
  BY <1>2, <1>3, <1>4, <1>5, <1>6, <1>7

LEMMA ValueOwn ==
  ASSUME IInv, OwnInv, NEW t \in Threads,
         NEW now \in {"read_value", "free_value"}, NEW next \in {"read", "free"},
         Value(t, now, next)
  PROVE  OwnInv'
<1>1. /\ heap' = heap /\ pc'[t] = next /\ pc[t] = now /\ obj'[t] = slots[h[t]]
      /\ used' = used /\ slots' = slots /\ h' = h
      /\ Alone(t)
  BY DEF Value, At, Goto, Alone, IInv, TypeOK, table
<1>2. None \notin heap
  BY ThreadsAssumption DEF IInv, TypeOK
<1> USE DEF OwnInv, Alone
<1>3. PendingIsOwn'
  BY <1>1 DEF PendingIsOwn, Pending
<1>4. SlotsDiffer'
  BY <1>1 DEF SlotsDiffer
<1>5. HeapIsHeld'
  BY <1>1 DEF HeapIsHeld, Pending
<1>6. FreedIsZeroed'
  BY <1>1 DEF FreedIsZeroed
<1>7. FetchedIsKnown'
  BY <1>1, <1>2 DEF FetchedIsKnown
<1>8. HandlesAreUsed'
  BY <1>1 DEF HandlesAreUsed, InCall, Free, Read
<1> QED
  BY <1>3, <1>4, <1>5, <1>6, <1>7, <1>8

LEMMA FreeObjectOwn ==
  ASSUME IInv, OwnInv, NEW t \in Threads, FreeObject(t)
  PROVE  OwnInv'
<1>1. /\ heap' = heap \ {obj[t]} /\ pc'[t] = "zero" /\ pc[t] = "free"
      /\ used' = used /\ slots' = slots /\ h' = h
      /\ obj[t] \in heap \cup {None}
      /\ Alone(t)
  BY DEF FreeObject, At, Goto, Alone, IInv, TypeOK, table
<1>2. None \notin heap /\ h[t] \in Handles
  BY ThreadsAssumption DEF IInv, TypeOK
<1> USE DEF OwnInv, Alone
<1>3. slots[h[t]] = obj[t]
  BY <1>1, <1>2 DEF FetchedIsKnown
<1>4. PendingIsOwn'
  BY <1>1, <1>2, <1>3 DEF PendingIsOwn, Pending
<1>5. SlotsDiffer'
  BY <1>1 DEF SlotsDiffer
<1>6. HeapIsHeld'
  BY <1>1 DEF HeapIsHeld, Pending
<1>7. FreedIsZeroed'
  <2>1. ASSUME NEW i \in Handles, slots[i] # None, slots[i] \notin heap'
        PROVE  \E u \in Threads : pc'[u] = "zero" /\ h'[u] = i
    <3>1. CASE slots[i] = obj[t]
      BY <1>1, <1>2, <1>3, <2>1, <3>1 DEF SlotsDiffer
    <3>2. CASE slots[i] # obj[t]
      <4>1. slots[i] \notin heap
        BY <1>1, <2>1, <3>2
      <4> QED
        BY <1>1, <2>1, <4>1 DEF FreedIsZeroed
    <3> QED
      BY <3>1, <3>2
  <2>2. \A u \in Threads : pc'[u] = "zero" => slots'[h'[u]] \notin heap'
    BY <1>1, <1>3 DEF FreedIsZeroed
  <2> QED
    BY <1>1, <2>1, <2>2 DEF FreedIsZeroed
<1>8. FetchedIsKnown'
  BY <1>1 DEF FetchedIsKnown
<1>9. HandlesAreUsed'
  BY <1>1 DEF HandlesAreUsed, InCall, Free, Read
<1> QED
  BY <1>4, <1>5, <1>6, <1>7, <1>8, <1>9

LEMMA ZeroOwn ==
  ASSUME IInv, OwnInv, NEW t \in Threads, Zero(t)
  PROVE  OwnInv' \/ Undefined("moved")
<1> SUFFICES ASSUME ~Stale(t, "zero", slot[t]) PROVE OwnInv'
  BY DEF Stale
<1> DEFINE i == h[t]
<1>1. i \in Handles /\ None \notin heap
  BY ThreadsAssumption DEF IInv, TypeOK
<1>2. /\ heap' = heap /\ pc'[t] = "release" /\ pc[t] = "zero"
      /\ used' = used /\ h' = h
      /\ slots'[i] = None
      /\ \A j \in Handles \ {i} : slots'[j] = slots[j]
      /\ Alone(t)
  BY <1>1 DEF Zero, At, Goto, Alone, IInv, TypeOK
<1>3. slots[i] \notin heap
  BY <1>2 DEF OwnInv, FreedIsZeroed
<1>4. \A u \in Threads : h[u] \in Handles
  BY DEF IInv, TypeOK
<1> HIDE DEF i
<1> USE DEF OwnInv, Alone
<1>5. PendingIsOwn'
  BY <1>1, <1>2 DEF PendingIsOwn, Pending
<1>6. SlotsDiffer'
  BY <1>1, <1>2 DEF SlotsDiffer
<1>7. HeapIsHeld'
  BY <1>1, <1>2, <1>3 DEF HeapIsHeld, Pending
<1>8. FreedIsZeroed'
  <2>1. ASSUME NEW j \in Handles, slots'[j] # None, slots'[j] \notin heap'
        PROVE  \E u \in Threads : pc'[u] = "zero" /\ h'[u] = j
    <3>1. j # i /\ slots[j] # None /\ slots[j] \notin heap
      BY <1>2, <2>1
    <3>2. PICK u \in Threads : pc[u] = "zero" /\ h[u] = j
      BY <3>1 DEF FreedIsZeroed
    <3>3. u # t
      BY <3>1, <3>2 DEF i
    <3> QED
      BY <1>2, <3>2, <3>3
  <2>2. ASSUME NEW u \in Threads, pc'[u] = "zero" PROVE slots'[h'[u]] \notin heap'
    BY <1>1, <1>2, <1>4, <2>2 DEF FreedIsZeroed
  <2> QED
    BY <2>1, <2>2 DEF FreedIsZeroed
<1>9. FetchedIsKnown'
  <2> SUFFICES ASSUME NEW u \in Threads, pc'[u] \in {"read", "free"}
               PROVE  /\ slots'[h'[u]] \in {None, obj'[u]}
                      /\ slots'[h'[u]] = None => obj'[u] \notin heap'
    BY DEF FetchedIsKnown
  <2>1. u # t /\ pc[u] \in {"read", "free"} /\ h'[u] = h[u] /\ obj'[u] = obj[u]
    BY <1>2
  <2>2. slots[h[u]] \in {None, obj[u]} /\ (slots[h[u]] = None => obj[u] \notin heap)
    BY <2>1 DEF FetchedIsKnown
  <2>3. CASE h[u] = i
    BY <1>2, <1>3, <2>1, <2>2, <2>3
  <2>4. CASE h[u] # i
    BY <1>2, <1>4, <2>1, <2>2, <2>4
  <2> QED
    BY <2>3, <2>4
<1>10. HandlesAreUsed'
  BY <1>1, <1>2 DEF HandlesAreUsed, InCall, Free, Read
<1> QED
  BY <1>5, <1>6, <1>7, <1>8, <1>9, <1>10

-----------------------------------------------------------------------------
(* The other steps neither allocate, free nor fetch. *)

LEMMA ReturnNeutral ==
  ASSUME IInv, NEW t \in Threads, Return(t),
         pc[t] \notin Pending \cup {"zero"}, UNCHANGED <<heap, slots, used>>
  PROVE  Neutral(t)
BY DEF IInv, TypeOK, Return, Neutral, Alone, Pending, InCall, Free, Read

LEMMA RangeNeutral ==
  ASSUME IInv, OwnInv, NEW t \in Threads,
         Range(t, "read_range", "read_kind") \/ Range(t, "free_range", "free_kind")
  PROVE  Neutral(t)
<1>1. pc[t] \in {"read_range", "free_range"} /\ UNCHANGED <<heap, slots, used>>
  BY DEF Range, At, table
<1>2. pc[t] \notin Pending \cup {"zero"} /\ h[t] < used
  BY <1>1 DEF Pending, OwnInv, HandlesAreUsed, InCall, Free, Read
<1>3. CASE Return(t)
  BY <1>1, <1>2, <1>3, ReturnNeutral
<1>4. CASE \E p \in {"read_kind", "free_kind"} : Goto(t, p) /\ UNCHANGED <<h, obj, slot>>
  BY <1>1, <1>2, <1>4 DEF Goto, Neutral, Alone, Pending, InCall, IInv, TypeOK
<1> QED
  BY <1>3, <1>4 DEF Range

LEMMA KindNeutral ==
  ASSUME IInv, OwnInv, NEW t \in Threads,
         NEW now \in {"read_kind", "free_kind"}, NEW next \in {"read_size", "free_value"},
         Kind(t, now, next)
  PROVE  Neutral(t) \/ Undefined("moved")
<1> SUFFICES ASSUME ~Stale(t, now, at) PROVE Neutral(t)
  BY DEF Stale
<1>1. pc[t] = now /\ UNCHANGED <<heap, slots, used>>
  BY DEF Kind, At, table
<1>2. pc[t] \notin Pending \cup {"zero"} /\ h[t] < used
  BY <1>1 DEF Pending, OwnInv, HandlesAreUsed, InCall, Free, Read
<1>3. CASE Return(t)
  BY <1>1, <1>2, <1>3, ReturnNeutral
<1>4. CASE Goto(t, next) /\ UNCHANGED <<h, obj>>
  BY <1>1, <1>2, <1>4 DEF Goto, Neutral, Alone, Pending, InCall, IInv, TypeOK
<1> QED
  BY <1>3, <1>4 DEF Kind

LEMMA ReadSizeNeutral ==
  ASSUME IInv, OwnInv, NEW t \in Threads, ReadSize(t)
  PROVE  Neutral(t) \/ Undefined("moved")
<1> SUFFICES ASSUME ~Stale(t, "read_size", slot[t]) PROVE Neutral(t)
  BY DEF Stale
<1>1. pc[t] = "read_size" /\ UNCHANGED <<heap, slots, used>>
  BY DEF ReadSize, At, table
<1>2. pc[t] \notin Pending \cup {"zero"} /\ h[t] < used
  BY <1>1 DEF Pending, OwnInv, HandlesAreUsed, InCall, Free, Read
<1>3. CASE Return(t)
  BY <1>1, <1>2, <1>3, ReturnNeutral
<1>4. CASE Goto(t, "read_value") /\ UNCHANGED <<h, obj, slot>>
  BY <1>1, <1>2, <1>4 DEF Goto, Neutral, Alone, Pending, InCall, IInv, TypeOK
<1> QED
  BY <1>3, <1>4 DEF ReadSize

LEMMA ReadOwn ==
  ASSUME IInv, OwnInv, NEW t \in Threads, ReadStep(t)
  PROVE  OwnInv' \/ Undefined("moved")
<1>1. CASE Range(t, "read_range", "read_kind")
  BY <1>1, RangeNeutral, NeutralKeeps
<1>2. CASE Kind(t, "read_kind", "read_size")
  BY <1>2, KindNeutral, NeutralKeeps
<1>3. CASE ReadSize(t)
  BY <1>3, ReadSizeNeutral, NeutralKeeps
<1>4. CASE Stale(t, "read_value", slot[t])
  BY <1>4 DEF Stale
<1>5. CASE Value(t, "read_value", "read")
  BY <1>5, ValueOwn
<1>6. CASE ReadByte(t)
  BY <1>6, ReturnNeutral, NeutralKeeps DEF ReadByte, At, Pending, table
<1> QED
  BY <1>1, <1>2, <1>3, <1>4, <1>5, <1>6 DEF ReadStep

LEMMA FreeOwn ==
  ASSUME IInv, OwnInv, NEW t \in Threads, FreeStep(t)
  PROVE  OwnInv' \/ Undefined("moved")
<1>1. CASE Range(t, "free_range", "free_kind")
  BY <1>1, RangeNeutral, NeutralKeeps
<1>2. CASE Kind(t, "free_kind", "free_value")
  BY <1>2, KindNeutral, NeutralKeeps
<1>3. CASE Stale(t, "free_value", slot[t])
  BY <1>3 DEF Stale
<1>4. CASE Value(t, "free_value", "free")
  BY <1>4, ValueOwn
<1>5. CASE FreeObject(t)
  BY <1>5, FreeObjectOwn
<1>6. CASE Zero(t)
  BY <1>6, ZeroOwn
<1>7. CASE Release(t)
  BY <1>7, ReturnNeutral, NeutralKeeps DEF Release, Stale, At, Pending, table
<1> QED
  BY <1>1, <1>2, <1>3, <1>4, <1>5, <1>6, <1>7 DEF FreeStep

LEMMA UsableIsUsed ==
  ASSUME IInv, NEW t \in Threads, NEW i \in Handles, i \in Usable(t)
  PROVE  i < used
<1>1. PICK u \in Threads : i \in own[u]
  BY DEF Usable
<1>2. i \in 0 .. used - 1
  BY <1>1 DEF IInv, HandlesAreUnique, Issued
<1> QED
  BY <1>2 DEF IInv, TypeOK

LEMMA CallNeutral ==
  ASSUME IInv, NEW t \in Threads, NEW i \in Handles, Call(t, i)
  PROVE  Neutral(t)
<1>1. i < used
  BY UsableIsUsed DEF Call
<1>2. PICK p \in {"read_range", "free_range"} : Goto(t, p)
  BY DEF Call
<1> QED
  BY <1>1, <1>2 DEF Call, At, Goto, Neutral, Alone, Pending, InCall, IInv, TypeOK, table

LEMMA LockNeutral ==
  ASSUME IInv, NEW t \in Threads, Lock(t)
  PROVE  Neutral(t)
BY DEF Lock, At, Goto, Neutral, Alone, Pending, InCall, Free, Read, IInv, TypeOK

LEMMA InsideNeutral ==
  ASSUME IInv, NEW t \in Threads, Ensure(t) \/ Publish(t) \/ Capacity(t)
  PROVE  Neutral(t)
<1>1. PICK p \in {"refuse", "take", "publish", "capacity"} :
        /\ pc' = [pc EXCEPT ![t] = p]
        /\ pc[t] \in {"ensure", "publish", "capacity"}
        /\ UNCHANGED <<heap, slots, used, h, obj>>
  BY DEF Ensure, Publish, Capacity, At, Goto
<1> QED
  BY <1>1 DEF Neutral, Alone, Pending, InCall, Free, Read, IInv, TypeOK

LEMMA UndefinedOwn ==
  ASSUME IInv, OwnInv, NEW why, Undefined(why)
  PROVE  OwnInv'
BY DEF Undefined, table, locals, OwnInv, PendingIsOwn, SlotsDiffer, HeapIsHeld,
       FreedIsZeroed, FetchedIsKnown, HandlesAreUsed

LEMMA StepOwn ==
  ASSUME IInv, OwnInv, [Next]_vars
  PROVE  OwnInv'
<1>1. CASE UNCHANGED vars
  BY <1>1 DEF vars, table, locals, OwnInv, PendingIsOwn, SlotsDiffer, HeapIsHeld,
              FreedIsZeroed, FetchedIsKnown, HandlesAreUsed
<1>2. ASSUME NEW t \in Threads, Begin(t) PROVE OwnInv'
  BY <1>2, AllocateOwn, CallNeutral, NeutralKeeps DEF Begin
<1>3. ASSUME NEW t \in Threads, Lock(t) PROVE OwnInv'
  BY <1>3, LockNeutral, NeutralKeeps
<1>4. ASSUME NEW t \in Threads, Continue(t) PROVE OwnInv'
  <2>1. CASE Ensure(t) \/ Publish(t) \/ Capacity(t)
    BY <2>1, InsideNeutral, NeutralKeeps
  <2>2. CASE Take(t)
    BY <2>2, TakeOwn
  <2>3. CASE Unlock(t)
    BY <2>3, ReturnNeutral, NeutralKeeps DEF Unlock, At, Pending
  <2>4. CASE Refuse(t)
    BY <2>4, RefuseOwn
  <2>5. CASE ReadStep(t)
    BY <2>5, ReadOwn, UndefinedOwn
  <2>6. CASE FreeStep(t)
    BY <2>6, FreeOwn, UndefinedOwn
  <2>7. CASE Gone(t)
    BY <2>7, UndefinedOwn DEF Gone
  <2> QED
    BY <1>4, <2>1, <2>2, <2>3, <2>4, <2>5, <2>6, <2>7 DEF Continue
<1> QED
  BY <1>1, <1>2, <1>3, <1>4 DEF Next

LEMMA OwnershipInductive == Spec => [](IInv /\ OwnInv)
BY InitInv, InitOwn, StepKeeps, StepOwn, PTL DEF Spec

LEMMA OverlapOfOwn ==
  ASSUME IInv, OwnInv
  PROVE  FreedMeansOverlap
<1> SUFFICES ASSUME NEW t \in Threads, TouchesFreed(t), slots[h[t]] # None
             PROVE  \E u \in Threads \ {t} : pc[u] = "zero" /\ h[u] = h[t]
  BY DEF FreedMeansOverlap
<1>1. pc[t] \in {"read", "free"} /\ h[t] \in Handles
  BY DEF TouchesFreed, IInv, TypeOK
<1>2. slots[h[t]] = obj[t]
  BY <1>1 DEF OwnInv, FetchedIsKnown
<1>3. slots[h[t]] \notin heap
  BY <1>2 DEF TouchesFreed
<1>4. PICK u \in Threads : pc[u] = "zero" /\ h[u] = h[t]
  BY <1>1, <1>3 DEF OwnInv, FreedIsZeroed
<1> QED
  BY <1>1, <1>4

LEMMA RestOfOwn ==
  ASSUME IInv, OwnInv
  PROVE  OwnedOnceAtRest
<1> SUFFICES ASSUME \A t \in Threads : pc[t] = "idle"
             PROVE  /\ heap = {slots[i] : i \in Handles} \ {None}
                    /\ SlotsDiffer
  BY DEF OwnedOnceAtRest, SlotsDiffer
<1>1. heap \subseteq {slots[i] : i \in Handles} \ {None}
  <2>1. None \notin heap
    BY ThreadsAssumption DEF IInv, TypeOK
  <2> QED
    BY <2>1 DEF OwnInv, HeapIsHeld, Pending
<1>2. {slots[i] : i \in Handles} \ {None} \subseteq heap
  BY DEF OwnInv, FreedIsZeroed
<1> QED
  BY <1>1, <1>2 DEF OwnInv

(* For any number of threads and objects: while no call is under way, what *)
(* is allocated is in the table, each object once; and a freed object is   *)
(* touched only where two calls on one handle overlap.                     *)
THEOREM Ownership == Spec => [](OwnedOnceAtRest /\ FreedMeansOverlap)
<1>1. IInv /\ OwnInv => OwnedOnceAtRest /\ FreedMeansOverlap
  BY RestOfOwn, OverlapOfOwn
<1> QED
  BY <1>1, OwnershipInductive, PTL

(* Between the calls nothing is leaked and nothing is in the table twice.  *)
THEOREM NothingLeaks == Spec => []OwnedOnceAtRest
BY Ownership, PTL

-----------------------------------------------------------------------------
(* What a program may rely on whose threads keep to their own handles, and *)
(* when the table is found moved away.                                     *)

(* A call that has found its slot in use, and one that has its address.    *)
Seen     == {"read_size", "read_value", "read", "free_value", "free"}
Pointing == {"read_size", "read_value", "free_value", "free", "zero"}

(* Where handles are not passed on, a call's slot stays as it was found.   *)
CallsAreOwn ==
  ~shared => \A t \in Threads :
    /\ pc[t] \in InCall => h[t] \in own[t]
    /\ pc[t] \in Seen => slots[h[t]] # None

(* Only a table that is full moves: the first one has no slots in use.     *)
MovesWhenFull ==
  /\ at # block => \E t \in Threads : pc[t] = "publish"
  /\ \A t \in Threads : pc[t] = "publish" => used = 0 \/ used >= DMC_MIN_HANDLES
  /\ used < DMC_MIN_HANDLES =>
       \A t \in Threads : pc[t] \in Pointing => slot[t] = block

PrivInv == CallsAreOwn /\ MovesWhenFull /\ PrivateHandlesAreSafe

LEMMA InitPriv == Init => PrivInv
BY DEF Init, PrivInv, CallsAreOwn, MovesWhenFull, PrivateHandlesAreSafe,
       InCall, Free, Read, Seen, Pointing

(* The other threads stand still, what they hold included. *)
Still(t) ==
  /\ Alone(t)
  /\ \A u \in Threads \ {t} : slot'[u] = slot[u] /\ own'[u] = own[u]
  /\ UNCHANGED <<shared, status>>

(* A step that leaves the table where it is and as it is. *)
Quiet(t) ==
  /\ Still(t)
  /\ UNCHANGED <<slots, used, block, at>>
  /\ own[t] \subseteq own'[t]
  /\ pc[t] # "publish" /\ pc'[t] # "publish"
  /\ pc'[t] \in InCall => shared \/ h'[t] \in own[t]
  /\ pc'[t] \in Seen => shared \/ slots[h'[t]] # None
  /\ pc'[t] \in Pointing => slot'[t] = block \/ (pc[t] \in Pointing /\ slot'[t] = slot[t])

LEMMA QuietKeeps ==
  ASSUME PrivInv, NEW t \in Threads, Quiet(t)
  PROVE  PrivInv'
<1> USE DEF PrivInv, Quiet, Still, Alone
<1>1. CallsAreOwn'
  BY DEF CallsAreOwn
<1>2. MovesWhenFull'
  BY DEF MovesWhenFull
<1>3. PrivateHandlesAreSafe'
  BY DEF PrivateHandlesAreSafe
<1> QED
  BY <1>1, <1>2, <1>3

LEMMA ReturnQuiet ==
  ASSUME TypeOK, NEW t \in Threads, Return(t), pc[t] # "publish",
         \A u \in Threads \ {t} : own'[u] = own[u], own[t] \subseteq own'[t],
         UNCHANGED <<slots, used, block, at, shared, status>>
  PROVE  Quiet(t)
BY DEF TypeOK, Return, Quiet, Still, Alone, InCall, Free, Read, Seen, Pointing

LEMMA RangeQuiet ==
  ASSUME TypeOK, PrivInv, NEW t \in Threads,
         Range(t, "read_range", "read_kind") \/ Range(t, "free_range", "free_kind")
  PROVE  Quiet(t)
<1>1. /\ pc[t] \in {"read_range", "free_range"}
      /\ UNCHANGED <<slots, used, block, at, own, shared, status>>
  BY DEF Range, At, table
<1>2. CASE Return(t)
  BY <1>1, <1>2, ReturnQuiet
<1>3. CASE \E p \in {"read_kind", "free_kind"} : Goto(t, p) /\ UNCHANGED <<h, obj, slot>>
  BY <1>1, <1>3 DEF Goto, Quiet, Still, Alone, TypeOK, InCall, Free, Read, Seen, Pointing,
                    PrivInv, CallsAreOwn
<1> QED
  BY <1>2, <1>3 DEF Range

LEMMA KindQuiet ==
  ASSUME TypeOK, PrivInv, NEW t \in Threads,
         NEW now \in {"read_kind", "free_kind"}, NEW next \in {"read_size", "free_value"},
         Kind(t, now, next), ~Stale(t, now, at)
  PROVE  Quiet(t)
<1>1. /\ pc[t] = now /\ UNCHANGED <<slots, used, block, at, own, shared, status>>
  BY DEF Kind, At, table
<1>2. CASE Return(t)
  BY <1>1, <1>2, ReturnQuiet
<1>3. CASE /\ Goto(t, next) /\ UNCHANGED <<h, obj>>
           /\ slots[h[t]] # None /\ slot' = [slot EXCEPT ![t] = at] /\ at = block
  BY <1>1, <1>3 DEF Goto, Quiet, Still, Alone, TypeOK, InCall, Free, Read, Seen, Pointing,
                    PrivInv, CallsAreOwn
<1> QED
  BY <1>2, <1>3 DEF Kind

LEMMA ReadSizeQuiet ==
  ASSUME TypeOK, PrivInv, NEW t \in Threads, ReadSize(t), ~Stale(t, "read_size", slot[t])
  PROVE  Quiet(t)
<1>1. /\ pc[t] = "read_size" /\ UNCHANGED <<slots, used, block, at, own, shared, status>>
  BY DEF ReadSize, At, table
<1>2. CASE Return(t)
  BY <1>1, <1>2, ReturnQuiet
<1>3. CASE Goto(t, "read_value") /\ UNCHANGED <<h, obj, slot>>
  BY <1>1, <1>3 DEF Goto, Quiet, Still, Alone, TypeOK, InCall, Free, Read, Seen, Pointing,
                    PrivInv, CallsAreOwn
<1> QED
  BY <1>2, <1>3 DEF ReadSize

LEMMA ValueQuiet ==
  ASSUME TypeOK, PrivInv, NEW t \in Threads,
         NEW now \in {"read_value", "free_value"}, NEW next \in {"read", "free"},
         Value(t, now, next)
  PROVE  Quiet(t)
<1>1. /\ pc[t] = now /\ pc'[t] = next /\ slot[t] = block
      /\ UNCHANGED <<h, slot, slots, used, block, at, own, shared, status>>
      /\ Alone(t)
  BY DEF Value, At, Goto, Alone, TypeOK, table
<1> QED
  BY <1>1 DEF Quiet, Still, InCall, Free, Read, Seen, Pointing, PrivInv, CallsAreOwn

LEMMA FreeObjectQuiet ==
  ASSUME TypeOK, PrivInv, NEW t \in Threads, FreeObject(t)
  PROVE  Quiet(t)
<1>1. /\ pc[t] = "free" /\ pc'[t] = "zero"
      /\ UNCHANGED <<h, slot, slots, used, block, at, own, shared, status>>
      /\ Alone(t)
  BY DEF FreeObject, At, Goto, Alone, TypeOK, table
<1> QED
  BY <1>1 DEF Quiet, Still, InCall, Free, Read, Seen, Pointing, PrivInv, CallsAreOwn

LEMMA BeginQuiet ==
  ASSUME TypeOK, PrivInv, NEW t \in Threads, Begin(t)
  PROVE  Quiet(t)
<1>1. CASE Allocate(t)
  BY <1>1 DEF Allocate, At, Goto, Quiet, Still, Alone, TypeOK, table,
              InCall, Free, Read, Seen, Pointing
<1>2. ASSUME NEW i \in Handles, Call(t, i) PROVE Quiet(t)
  <2>1. PICK p \in {"read_range", "free_range"} : Goto(t, p)
    BY <1>2 DEF Call
  <2>2. shared \/ i \in own[t]
    BY <1>2 DEF Call, Usable
  <2> QED
    BY <1>2, <2>1, <2>2 DEF Call, At, Goto, Quiet, Still, Alone, TypeOK, table,
                            InCall, Seen, Pointing
<1> QED
  BY <1>1, <1>2 DEF Begin

LEMMA InsideQuiet ==
  ASSUME TypeOK, PrivInv, NEW t \in Threads, Lock(t) \/ Capacity(t)
  PROVE  Quiet(t)
<1>1. PICK p \in {"ensure", "take"} :
        /\ pc' = [pc EXCEPT ![t] = p]
        /\ pc[t] \in {"reserve", "capacity"}
        /\ UNCHANGED <<h, obj, slot, slots, used, block, at, own, shared, status>>
  BY DEF Lock, Capacity, At, Goto
<1> QED
  BY <1>1 DEF Quiet, Still, Alone, TypeOK, InCall, Free, Read, Seen, Pointing

-----------------------------------------------------------------------------
(* The steps that move or change the table. *)

LEMMA OwnDiffer ==
  ASSUME IInv, NEW t \in Threads, NEW u \in Threads, t # u
  PROVE  own[t] \cap own[u] = {}
BY DEF IInv, HandlesAreUnique, Issued

LEMMA FullOrFirst ==
  ASSUME IInv, Needed > cap
  PROVE  used = 0 \/ used >= DMC_MIN_HANDLES
BY ThreadsAssumption DEF IInv, TypeOK, Bounds, Needed, Larger

LEMMA FirstIsUncalled ==
  ASSUME IInv, OwnInv, used = 0, NEW t \in Threads
  PROVE  pc[t] \notin InCall
BY DEF IInv, TypeOK, Handles, OwnInv, HandlesAreUsed

LEMMA EnsurePriv ==
  ASSUME IInv, OwnInv, PrivInv, NEW t \in Threads, Ensure(t)
  PROVE  PrivInv'
<1>1. PICK p \in {"refuse", "take", "publish"} :
        /\ pc' = [pc EXCEPT ![t] = p]
        /\ p = "publish" => Needed > cap
        /\ p # "publish" => block' = block
  BY DEF Ensure, Goto
<1>2. /\ pc[t] = "ensure" /\ pc'[t] = p
      /\ UNCHANGED <<h, obj, slot, slots, used, at, own, shared, status>>
      /\ \A u \in Threads \ {t} : pc'[u] = pc[u]
  BY <1>1 DEF Ensure, At, IInv, TypeOK
<1>3. \A u \in Threads : pc[u] = "publish" => u = t
  BY <1>2, AloneInside DEF IInv, Locked
<1>4. at = block
  BY <1>2, <1>3 DEF PrivInv, MovesWhenFull
<1> USE DEF PrivInv
<1>5. CallsAreOwn'
  BY <1>2 DEF CallsAreOwn, InCall, Free, Read, Seen
<1>6. MovesWhenFull'
  <2>1. CASE p = "publish"
    <3>1. used = 0 \/ used >= DMC_MIN_HANDLES
      BY <1>1, <2>1, FullOrFirst
    <3>2. used = 0 => \A u \in Threads : pc'[u] \notin Pointing
      BY <1>2, <2>1, FirstIsUncalled DEF InCall, Free, Read, Pointing
    <3>3. used' < DMC_MIN_HANDLES => used = 0
      BY <1>2, <3>1, ThreadsAssumption DEF IInv, TypeOK
    <3> QED
      BY <1>2, <1>3, <2>1, <3>1, <3>2, <3>3 DEF MovesWhenFull
  <2>2. CASE p # "publish"
    BY <1>1, <1>2, <1>4, <2>2 DEF MovesWhenFull, Pointing
  <2> QED
    BY <2>1, <2>2
<1>7. PrivateHandlesAreSafe'
  BY <1>2 DEF PrivateHandlesAreSafe
<1> QED
  BY <1>5, <1>6, <1>7

LEMMA PublishPriv ==
  ASSUME IInv, PrivInv, NEW t \in Threads, Publish(t)
  PROVE  PrivInv'
<1>1. /\ pc[t] = "publish" /\ pc'[t] = "capacity" /\ at' = block
      /\ UNCHANGED <<h, obj, slot, slots, used, block, own, shared, status>>
      /\ \A u \in Threads \ {t} : pc'[u] = pc[u]
  BY DEF Publish, At, Goto, IInv, TypeOK
<1> USE DEF PrivInv
<1>2. CallsAreOwn'
  BY <1>1 DEF CallsAreOwn, InCall, Free, Read, Seen
<1>3. MovesWhenFull'
  BY <1>1 DEF MovesWhenFull, Pointing
<1>4. PrivateHandlesAreSafe'
  BY <1>1 DEF PrivateHandlesAreSafe
<1> QED
  BY <1>2, <1>3, <1>4

LEMMA TakePriv ==
  ASSUME IInv, OwnInv, PrivInv, NEW t \in Threads, Take(t)
  PROVE  PrivInv'
<1>1. used \in Handles /\ used \in Nat
  BY ThreadsAssumption DEF IInv, Take, At, Bounds, TypeOK, Handles
<1>2. /\ pc[t] = "take" /\ pc'[t] = "unlock" /\ used' = used + 1
      /\ \A i \in Handles \ {used} : slots'[i] = slots[i]
      /\ UNCHANGED <<block, at, slot, own, shared, status>>
      /\ \A u \in Threads \ {t} : pc'[u] = pc[u] /\ h'[u] = h[u]
  BY <1>1 DEF Take, At, Goto, IInv, TypeOK
<1>3. \A u \in Threads : pc[u] \in InCall => slots'[h[u]] = slots[h[u]]
  BY <1>1, <1>2 DEF OwnInv, HandlesAreUsed, IInv, TypeOK, Handles
<1>4. \A u \in Threads : pc[u] # "publish"
  BY <1>2, AloneInside DEF IInv, Locked
<1> USE DEF PrivInv
<1>5. CallsAreOwn'
  BY <1>2, <1>3 DEF CallsAreOwn, InCall, Free, Read, Seen
<1>6. MovesWhenFull'
  <2>1. used' < DMC_MIN_HANDLES => used < DMC_MIN_HANDLES
    BY <1>1, <1>2, ThreadsAssumption
  <2> QED
    BY <1>2, <1>4, <2>1 DEF MovesWhenFull, Pointing
<1>7. PrivateHandlesAreSafe'
  BY <1>2 DEF PrivateHandlesAreSafe, Take, At
<1> QED
  BY <1>5, <1>6, <1>7

LEMMA ZeroPriv ==
  ASSUME IInv, PrivInv, NEW t \in Threads, Zero(t), ~Stale(t, "zero", slot[t])
  PROVE  PrivInv'
<1> DEFINE i == h[t]
<1>1. /\ pc[t] = "zero" /\ pc'[t] = "release"
      /\ \A j \in Handles \ {i} : slots'[j] = slots[j]
      /\ UNCHANGED <<h, block, at, used, slot, own, shared, status>>
      /\ \A u \in Threads \ {t} : pc'[u] = pc[u]
  BY DEF Zero, At, Goto, IInv, TypeOK
<1>2. \A u \in Threads : h[u] \in Handles
  BY DEF IInv, TypeOK
<1> USE DEF PrivInv
<1>3. CallsAreOwn'
  <2> SUFFICES ASSUME ~shared, NEW u \in Threads
               PROVE  /\ pc'[u] \in InCall => h[u] \in own[u]
                      /\ pc'[u] \in Seen => slots'[h[u]] # None
    BY <1>1 DEF CallsAreOwn
  <2>1. i \in own[t]
    BY <1>1 DEF CallsAreOwn, InCall, Free
  <2>2. CASE u = t
    BY <1>1, <2>1, <2>2 DEF Seen
  <2>3. CASE u # t
    <3>1. pc[u] \in InCall => h[u] # i
      BY <2>1, <2>3, OwnDiffer DEF CallsAreOwn
    <3>2. pc[u] \in Seen => pc[u] \in InCall
      BY DEF Seen, InCall, Free, Read
    <3> HIDE DEF i
    <3> QED
      BY <1>1, <1>2, <2>3, <3>1, <3>2 DEF CallsAreOwn
  <2> QED
    BY <2>2, <2>3
<1>4. MovesWhenFull'
  BY <1>1 DEF MovesWhenFull, Pointing
<1>5. PrivateHandlesAreSafe'
  BY <1>1 DEF PrivateHandlesAreSafe
<1> QED
  BY <1>3, <1>4, <1>5

LEMMA StalePriv ==
  ASSUME IInv, OwnInv, PrivInv, NEW t \in Threads, NEW now \in InCall, NEW pointer,
         Stale(t, now, pointer), pointer = at \/ (now \in Pointing /\ pointer = slot[t])
  PROVE  PrivInv'
<1>1. /\ pc[t] = now /\ pointer # block /\ status' = "moved"
      /\ UNCHANGED <<pc, h, slot, slots, used, block, at, own, shared>>
  BY DEF Stale, At, Undefined, table, locals
<1>2. used # 0
  BY <1>1, FirstIsUncalled
<1>3. used >= DMC_MIN_HANDLES
  BY <1>1, <1>2, ThreadsAssumption DEF PrivInv, MovesWhenFull, IInv, TypeOK
<1> USE DEF PrivInv
<1>4. CallsAreOwn'
  BY <1>1 DEF CallsAreOwn
<1>5. MovesWhenFull'
  BY <1>1 DEF MovesWhenFull
<1>6. PrivateHandlesAreSafe'
  BY <1>1, <1>3 DEF PrivateHandlesAreSafe
<1> QED
  BY <1>4, <1>5, <1>6

LEMMA GonePriv ==
  ASSUME IInv, OwnInv, PrivInv, NEW t \in Threads, Gone(t)
  PROVE  PrivInv'
<1>1. /\ status' = "freed"
      /\ UNCHANGED <<pc, h, slot, slots, used, block, at, own, shared>>
  BY DEF Gone, Undefined, table, locals
<1>2. pc[t] \in {"read", "free"}
  BY DEF Gone, TouchesFreed
<1> USE DEF PrivInv
<1>3. shared
  <2> SUFFICES ASSUME ~shared PROVE FALSE
    BY DEF IInv, TypeOK
  <2>1. h[t] \in own[t] /\ slots[h[t]] # None
    BY <1>2 DEF CallsAreOwn, InCall, Free, Read, Seen
  <2>2. PICK u \in Threads \ {t} : pc[u] = "zero" /\ h[u] = h[t]
    BY <2>1, OverlapOfOwn DEF Gone, FreedMeansOverlap
  <2>3. h[t] \in own[u]
    BY <2>2 DEF CallsAreOwn, InCall, Free
  <2> QED
    BY <2>1, <2>2, <2>3, OwnDiffer
<1>4. CallsAreOwn'
  BY <1>1 DEF CallsAreOwn
<1>5. MovesWhenFull'
  BY <1>1 DEF MovesWhenFull
<1>6. PrivateHandlesAreSafe'
  BY <1>1, <1>3 DEF PrivateHandlesAreSafe
<1> QED
  BY <1>4, <1>5, <1>6

LEMMA ReadPriv ==
  ASSUME IInv, OwnInv, PrivInv, NEW t \in Threads, ReadStep(t)
  PROVE  PrivInv'
<1>0. TypeOK
  BY DEF IInv
<1>1. CASE Range(t, "read_range", "read_kind")
  BY <1>0, <1>1, RangeQuiet, QuietKeeps
<1>2. CASE Kind(t, "read_kind", "read_size")
  BY <1>0, <1>2, KindQuiet, QuietKeeps, StalePriv DEF InCall, Read
<1>3. CASE ReadSize(t)
  BY <1>0, <1>3, ReadSizeQuiet, QuietKeeps, StalePriv DEF InCall, Read, Pointing
<1>4. CASE Stale(t, "read_value", slot[t])
  BY <1>4, StalePriv DEF InCall, Read, Pointing
<1>5. CASE Value(t, "read_value", "read")
  BY <1>0, <1>5, ValueQuiet, QuietKeeps
<1>6. CASE ReadByte(t)
  BY <1>0, <1>6, ReturnQuiet, QuietKeeps DEF ReadByte, At, table
<1> QED
  BY <1>1, <1>2, <1>3, <1>4, <1>5, <1>6 DEF ReadStep

LEMMA FreePriv ==
  ASSUME IInv, OwnInv, PrivInv, NEW t \in Threads, FreeStep(t)
  PROVE  PrivInv'
<1>0. TypeOK
  BY DEF IInv
<1>1. CASE Range(t, "free_range", "free_kind")
  BY <1>0, <1>1, RangeQuiet, QuietKeeps
<1>2. CASE Kind(t, "free_kind", "free_value")
  BY <1>0, <1>2, KindQuiet, QuietKeeps, StalePriv DEF InCall, Free
<1>3. CASE Stale(t, "free_value", slot[t])
  BY <1>3, StalePriv DEF InCall, Free, Pointing
<1>4. CASE Value(t, "free_value", "free")
  BY <1>0, <1>4, ValueQuiet, QuietKeeps
<1>5. CASE FreeObject(t)
  BY <1>0, <1>5, FreeObjectQuiet, QuietKeeps
<1>6. CASE Zero(t)
  BY <1>6, ZeroPriv, StalePriv DEF InCall, Free, Pointing
<1>7. CASE Release(t)
  <2>1. CASE Stale(t, "release", at)
    BY <2>1, StalePriv DEF InCall, Free
  <2>2. CASE ~Stale(t, "release", at)
    BY <1>0, <1>7, <2>2, ReturnQuiet, QuietKeeps DEF Release, At, table
  <2> QED
    BY <2>1, <2>2
<1> QED
  BY <1>1, <1>2, <1>3, <1>4, <1>5, <1>6, <1>7 DEF FreeStep

LEMMA StepPriv ==
  ASSUME IInv, OwnInv, PrivInv, [Next]_vars
  PROVE  PrivInv'
<1>0. TypeOK
  BY DEF IInv
<1>1. CASE UNCHANGED vars
  BY <1>1 DEF vars, table, locals, PrivInv, CallsAreOwn, MovesWhenFull, PrivateHandlesAreSafe
<1>2. ASSUME NEW t \in Threads, Begin(t) \/ Lock(t) PROVE PrivInv'
  BY <1>0, <1>2, BeginQuiet, InsideQuiet, QuietKeeps
<1>3. ASSUME NEW t \in Threads, Continue(t) PROVE PrivInv'
  <2>1. CASE Ensure(t)
    BY <2>1, EnsurePriv
  <2>2. CASE Publish(t)
    BY <2>2, PublishPriv
  <2>3. CASE Capacity(t)
    BY <1>0, <2>3, InsideQuiet, QuietKeeps
  <2>4. CASE Take(t)
    BY <2>4, TakePriv
  <2>5. CASE Unlock(t)
    <3>1. /\ \A u \in Threads \ {t} : own'[u] = own[u]
          /\ own[t] \subseteq own'[t]
      BY <1>0, <2>5 DEF Unlock, TypeOK
    <3> QED
      BY <1>0, <2>5, <3>1, ReturnQuiet, QuietKeeps DEF Unlock, At
  <2>6. CASE Refuse(t)
    BY <1>0, <2>6, ReturnQuiet, QuietKeeps DEF Refuse, At
  <2>7. CASE ReadStep(t)
    BY <2>7, ReadPriv
  <2>8. CASE FreeStep(t)
    BY <2>8, FreePriv
  <2>9. CASE Gone(t)
    BY <2>9, GonePriv
  <2> QED
    BY <1>3, <2>1, <2>2, <2>3, <2>4, <2>5, <2>6, <2>7, <2>8, <2>9 DEF Continue
<1> QED
  BY <1>1, <1>2, <1>3 DEF Next

(* For any number of threads: threads that keep to their own handles touch *)
(* no freed object, and the table is found moved away only after every     *)
(* handle of the first table has been issued.                              *)
THEOREM PrivateHandles == Spec => []PrivateHandlesAreSafe
<1>1. PrivInv => PrivateHandlesAreSafe
  BY DEF PrivInv
<1>2. Spec => [](IInv /\ OwnInv)
  BY OwnershipInductive
<1> QED
  BY <1>1, <1>2, InitPriv, StepPriv, PTL DEF Spec
=============================================================================
