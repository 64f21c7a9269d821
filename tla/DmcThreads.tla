----------------------------- MODULE DmcThreads -----------------------------
(***************************************************************************)
(* The handle table of runtime/core built with DMC_RUNTIME_THREADS, and    *)
(* the memory calls on top of it, made by several threads at a time.  An   *)
(* action is what a thread does between two accesses to shared state:      *)
(* dmc_reserve works under dmc_mutex, dmc_get and everything its caller    *)
(* does with the slot it returns do not.  (The lock of dmc_release is not  *)
(* reached: its callers have zeroed the slot, so its check refuses.)       *)
(*                                                                         *)
(* Where a thread reads a table that realloc has moved away, or frees or   *)
(* uses an object that is gone, the C program is undefined: status says    *)
(* why and nothing more is known.  Accesses are otherwise atomic and in    *)
(* program order.  dmc_error_text is left out.                             *)
(***************************************************************************)
EXTENDS Integers, FiniteSets

CONSTANTS
  Threads,
  Objects,           \* addresses calloc can return
  DMC_MIN_HANDLES,   \* slots of the first table
  DMC_MAX_HANDLES,   \* slots the table may never exceed
  None               \* no thread, no object

ASSUME ThreadsAssumption ==
  /\ DMC_MIN_HANDLES \in Nat \ {0}
  /\ DMC_MAX_HANDLES \in Nat
  /\ DMC_MIN_HANDLES <= DMC_MAX_HANDLES
  /\ None \notin Threads \cup Objects

VARIABLES
  lock,      \* who holds dmc_mutex
  block,     \* realloc calls that moved the table: which block is valid
  at,        \* dmc_slots: the block it points to
  cap,       \* dmc_slots_cap
  used,      \* dmc_slots_used
  slots,     \* contents of the table: slot -> object, None when unused
  heap,      \* objects allocated and not yet freed
  pc,        \* thread -> what it does next
  h,         \* thread -> the handle of its call
  obj,       \* thread -> the object its call has in hand
  slot,      \* thread -> the block its slot pointer leads into
  own,       \* thread -> handles dmc_mem_alloc has returned to it
  shared,    \* does a thread also use handles of the others
  status     \* "running", or what made the program undefined

table  == <<lock, block, at, cap, used, slots>>
locals == <<pc, h, obj, slot>>
vars   == <<table, heap, locals, own, shared, status>>

Handles == 0 .. DMC_MAX_HANDLES - 1

Locked == {"ensure", "publish", "capacity", "take", "unlock", "refuse"}
Free   == {"free_range", "free_kind", "free_value", "free", "zero", "release"}
Read   == {"read_range", "read_kind", "read_size", "read_value", "read"}
Points == {"idle", "reserve"} \cup Locked \cup Free \cup Read

Init ==
  /\ lock   = None
  /\ block  = 0
  /\ at     = 0
  /\ cap    = 0
  /\ used   = 0
  /\ slots  = [i \in Handles |-> None]
  /\ heap   = {}
  /\ pc     = [t \in Threads |-> "idle"]
  /\ h      = [t \in Threads |-> 0]
  /\ obj    = [t \in Threads |-> None]
  /\ slot   = [t \in Threads |-> 0]
  /\ own    = [t \in Threads |-> {}]
  /\ shared \in BOOLEAN
  /\ status = "running"

(* Thread t is at point p of a program that is still defined. *)
At(t, p)  == status = "running" /\ pc[t] = p
Goto(t, p) == pc' = [pc EXCEPT ![t] = p]

(* The call is over, its variables are gone. *)
Return(t) ==
  /\ pc'   = [pc EXCEPT ![t] = "idle"]
  /\ h'    = [h EXCEPT ![t] = 0]
  /\ obj'  = [obj EXCEPT ![t] = None]
  /\ slot' = [slot EXCEPT ![t] = 0]

Undefined(why) ==
  /\ status' = why
  /\ UNCHANGED <<table, heap, locals, own, shared>>

-----------------------------------------------------------------------------
(* dmc_mem_alloc: calloc, dmc_reserve, and free when there is no handle.   *)

(* calloc returns an address no live object has; one that a thread or a    *)
(* slot still points to may come back in C, here freeing it is an error.   *)
(* Which of the others it is makes no difference.                          *)
InHand == {slots[i] : i \in Handles} \cup {obj[t] : t \in Threads}
Fresh  == Objects \ (heap \cup InHand)
calloc == CHOOSE o \in Fresh : TRUE

Allocate(t) ==
  /\ At(t, "idle")
  /\ Fresh # {}
  /\ heap' = heap \cup {calloc}
  /\ obj'  = [obj EXCEPT ![t] = calloc]
  /\ Goto(t, "reserve")
  /\ UNCHANGED <<table, h, slot, own, shared, status>>

Lock(t) ==
  /\ At(t, "reserve")
  /\ lock = None
  /\ lock' = t
  /\ Goto(t, "ensure")
  /\ UNCHANGED <<block, at, cap, used, slots, heap, h, obj, slot, own, shared, status>>

(* dmc_ensure_capacity(dmc_slots_used + 1) *)
Larger(x, y) == IF x < y THEN y ELSE x
Needed == Larger(used + 1, DMC_MIN_HANDLES)

BugTableFull == used > DMC_MAX_HANDLES

TableFull == Needed > DMC_MAX_HANDLES

NewCapacity ==
  LET doubled == Larger(IF cap = 0 THEN DMC_MIN_HANDLES ELSE 2 * cap, Needed)
  IN  IF doubled > DMC_MAX_HANDLES THEN DMC_MAX_HANDLES ELSE doubled

(* realloc leaves the table where it is or frees the block it was in. *)
Ensure(t) ==
  /\ At(t, "ensure")
  /\ \/ TableFull /\ Goto(t, "refuse") /\ UNCHANGED block
     \/ Needed <= cap /\ Goto(t, "take") /\ UNCHANGED block
     \/ /\ ~TableFull
        /\ Needed > cap
        /\ \/ Goto(t, "refuse") /\ UNCHANGED block
           \/ Goto(t, "publish") /\ block' \in {block, block + 1}
  /\ UNCHANGED <<lock, at, cap, used, slots, heap, h, obj, slot, own, shared, status>>

Publish(t) ==
  /\ At(t, "publish")
  /\ at' = block
  /\ Goto(t, "capacity")
  /\ UNCHANGED <<lock, block, cap, used, slots, heap, h, obj, slot, own, shared, status>>

Capacity(t) ==
  /\ At(t, "capacity")
  /\ cap' = NewCapacity
  /\ Goto(t, "take")
  /\ UNCHANGED <<lock, block, at, used, slots, heap, h, obj, slot, own, shared, status>>

BugReusesSlots(t) ==
  LET empty == {i \in 0 .. used - 1 : slots[i] = None}
      i     == IF empty = {} THEN used ELSE CHOOSE j \in empty : TRUE
  IN  /\ At(t, "take")
      /\ h'     = [h EXCEPT ![t] = i]
      /\ used'  = IF empty = {} THEN used + 1 ELSE used
      /\ slots' = [slots EXCEPT ![i] = obj[t]]
      /\ Goto(t, "unlock")
      /\ UNCHANGED <<lock, block, at, cap, heap, obj, slot, own, shared, status>>

(* The slot is filled before anybody else has its handle. *)
Take(t) ==
  /\ At(t, "take")
  /\ h'     = [h EXCEPT ![t] = used]
  /\ used'  = used + 1
  /\ slots' = [slots EXCEPT ![used] = obj[t]]
  /\ Goto(t, "unlock")
  /\ UNCHANGED <<lock, block, at, cap, heap, obj, slot, own, shared, status>>

(* DMC_UNLOCK and the return of the handle *)
Unlock(t) ==
  /\ At(t, "unlock")
  /\ lock' = None
  /\ own'  = [own EXCEPT ![t] = @ \cup {h[t]}]
  /\ Return(t)
  /\ UNCHANGED <<block, at, cap, used, slots, heap, shared, status>>

BugRefuseKeepsLock(t) ==
  /\ At(t, "refuse")
  /\ heap' = heap \ {obj[t]}
  /\ Return(t)
  /\ UNCHANGED <<table, own, shared, status>>

BugRefuseLeaks(t) ==
  /\ At(t, "refuse")
  /\ lock' = None
  /\ Return(t)
  /\ UNCHANGED <<block, at, cap, used, slots, heap, own, shared, status>>

(* DMC_UNLOCK, and dmc_mem_alloc frees the object. *)
Refuse(t) ==
  /\ At(t, "refuse")
  /\ lock' = None
  /\ heap' = heap \ {obj[t]}
  /\ Return(t)
  /\ UNCHANGED <<block, at, cap, used, slots, own, shared, status>>

-----------------------------------------------------------------------------
(* dmc_mem_read, for dmc_mem_write and dmc_mem_size too, and dmc_mem_free: *)
(* both begin with dmc_get.                                                *)

(* Handles a program may hold: issued to this thread, or to any of them. *)
Usable(t) == IF shared THEN UNION {own[u] : u \in Threads} ELSE own[t]

Call(t, i) ==
  /\ At(t, "idle")
  /\ i \in Usable(t)
  /\ h' = [h EXCEPT ![t] = i]
  /\ \E p \in {"read_range", "free_range"} : Goto(t, p)
  /\ UNCHANGED <<table, heap, obj, slot, own, shared, status>>

(* handle >= dmc_slots_cap: no handle in use is, the table only grows. *)
Range(t, now, next) ==
  /\ At(t, now)
  /\ IF h[t] < cap THEN Goto(t, next) /\ UNCHANGED <<h, obj, slot>> ELSE Return(t)
  /\ UNCHANGED <<table, heap, own, shared, status>>

(* A pointer into a block that realloc has freed. *)
Stale(t, now, pointer) == At(t, now) /\ pointer # block /\ Undefined("moved")

(* dmc_slots[handle].kind, and the address of the slot *)
Kind(t, now, next) ==
  \/ Stale(t, now, at)
  \/ /\ At(t, now)
     /\ at = block
     /\ slots[h[t]] # None
     /\ slot' = [slot EXCEPT ![t] = at]
     /\ Goto(t, next)
     /\ UNCHANGED <<table, heap, h, obj, own, shared, status>>
  \/ /\ At(t, now)
     /\ at = block
     /\ slots[h[t]] = None
     /\ Return(t)
     /\ UNCHANGED <<table, heap, own, shared, status>>

(* slot->value through the pointer dmc_get returned *)
Value(t, now, next) ==
  /\ At(t, now)
  /\ slot[t] = block
  /\ obj' = [obj EXCEPT ![t] = slots[h[t]]]
  /\ Goto(t, next)
  /\ UNCHANGED <<table, heap, h, slot, own, shared, status>>

(* dmc_mem_read compares slot->size with the index: 0 in a zeroed slot. *)
ReadSize(t) ==
  \/ Stale(t, "read_size", slot[t])
  \/ /\ At(t, "read_size")
     /\ slot[t] = block
     /\ IF slots[h[t]] # None THEN Goto(t, "read_value") /\ UNCHANGED <<h, obj, slot>>
                              ELSE Return(t)
     /\ UNCHANGED <<table, heap, own, shared, status>>

(* An object that is gone is read or freed again; or read through the null *)
(* pointer of a slot that was zeroed since its size was read.              *)
TouchesFreed(t) ==
  \/ pc[t] = "read" /\ obj[t] \notin heap
  \/ pc[t] = "free" /\ obj[t] \notin heap \cup {None}

Gone(t) == status = "running" /\ TouchesFreed(t) /\ Undefined("freed")

ReadByte(t) ==
  /\ At(t, "read")
  /\ obj[t] \in heap
  /\ Return(t)
  /\ UNCHANGED <<table, heap, own, shared, status>>

(* free(slot->value); free(NULL) does nothing. *)
FreeObject(t) ==
  /\ At(t, "free")
  /\ obj[t] \in heap \cup {None}
  /\ heap' = heap \ {obj[t]}
  /\ obj'  = [obj EXCEPT ![t] = None]
  /\ Goto(t, "zero")
  /\ UNCHANGED <<table, h, slot, own, shared, status>>

BugNotZeroed(t) ==
  /\ At(t, "zero")
  /\ Goto(t, "release")
  /\ UNCHANGED <<table, heap, h, obj, slot, own, shared, status>>

(* *slot = (dmc_slot){0} *)
Zero(t) ==
  \/ Stale(t, "zero", slot[t])
  \/ /\ At(t, "zero")
     /\ slot[t] = block
     /\ slots' = [slots EXCEPT ![h[t]] = None]
     /\ Goto(t, "release")
     /\ UNCHANGED <<lock, block, at, cap, used, heap, h, obj, slot, own, shared, status>>

(* dmc_release: its check finds the slot empty. *)
Release(t) ==
  \/ Stale(t, "release", at)
  \/ /\ At(t, "release")
     /\ at = block
     /\ Return(t)
     /\ UNCHANGED <<table, heap, own, shared, status>>

ReadStep(t) ==
  \/ Range(t, "read_range", "read_kind")
  \/ Kind(t, "read_kind", "read_size")
  \/ ReadSize(t)
  \/ Stale(t, "read_value", slot[t])
  \/ Value(t, "read_value", "read")
  \/ ReadByte(t)

FreeStep(t) ==
  \/ Range(t, "free_range", "free_kind")
  \/ Kind(t, "free_kind", "free_value")
  \/ Stale(t, "free_value", slot[t])
  \/ Value(t, "free_value", "free")
  \/ FreeObject(t)
  \/ Zero(t)
  \/ Release(t)

(* What a thread does inside a call, other than waiting for the lock. *)
Continue(t) ==
  \/ Ensure(t) \/ Publish(t) \/ Capacity(t) \/ Take(t) \/ Unlock(t) \/ Refuse(t)
  \/ ReadStep(t) \/ FreeStep(t) \/ Gone(t)

Begin(t) ==
  \/ Allocate(t)
  \/ \E i \in Handles : Call(t, i)

Next == \E t \in Threads : Begin(t) \/ Lock(t) \/ Continue(t)

(* A thread that is inside a call goes on; which waiting thread gets the   *)
(* mutex is up to the system, and the program need not make calls.         *)
Spec == Init /\ [][Next]_vars /\ \A t \in Threads : WF_vars(Continue(t))

-----------------------------------------------------------------------------
TypeOK ==
  /\ lock \in Threads \cup {None}
  /\ block \in Nat /\ at \in 0 .. block
  /\ cap \in 0 .. DMC_MAX_HANDLES
  /\ used \in 0 .. DMC_MAX_HANDLES
  /\ slots \in [Handles -> Objects \cup {None}]
  /\ heap \subseteq Objects
  /\ pc \in [Threads -> Points]
  /\ h \in [Threads -> Handles]
  /\ obj \in [Threads -> Objects \cup {None}]
  /\ slot \in [Threads -> 0 .. block]
  /\ own \in [Threads -> SUBSET Handles]
  /\ shared \in BOOLEAN
  /\ status \in {"running", "moved", "freed"}

(* One thread at a time is between DMC_LOCK and DMC_UNLOCK, and the mutex  *)
(* is free when none is.                                                   *)
MutualExclusion ==
  \A t \in Threads : pc[t] \in Locked <=> lock = t

(* dmc_reserve gives no slot to two callers and loses none: every slot     *)
(* below dmc_slots_used went to exactly one thread.                        *)
Issued(t) == own[t] \cup (IF pc[t] = "unlock" THEN {h[t]} ELSE {})

HandlesAreUnique ==
  /\ UNION {Issued(t) : t \in Threads} = 0 .. used - 1
  /\ \A t, u \in Threads : t # u => Issued(t) \cap Issued(u) = {}

(* While no thread is in a call the table owns what is allocated, each     *)
(* object once: races between calls leak nothing and leave no slot behind  *)
(* that points to a freed object.                                          *)
OwnedOnceAtRest ==
  (status = "running" /\ \A t \in Threads : pc[t] = "idle") =>
    /\ heap = {slots[i] : i \in Handles} \ {None}
    /\ \A i, j \in Handles : slots[i] = slots[j] /\ slots[i] # None => i = j

(* Threads that keep to their own handles never touch a freed object; what *)
(* is left to go wrong is the table moving under a call that holds a       *)
(* pointer into it, and that takes more handles than the first table has.  *)
PrivateHandlesAreSafe ==
  /\ status = "freed" => shared
  /\ status = "moved" => used >= DMC_MIN_HANDLES

(* A freed object is touched only where two calls on one handle overlap:   *)
(* the thread that is about to and another that has not returned or has    *)
(* zeroed the slot meanwhile; calls one after the other are refused.       *)
FreedMeansOverlap ==
  \A t \in Threads : TouchesFreed(t) =>
    \/ \E u \in Threads \ {t} : pc[u] = "zero" /\ h[u] = h[t]
    \/ slots[h[t]] = None

(* The mutex is given back on every path, the refusals included. *)
LockIsReturned ==
  \A t \in Threads : (lock = t) ~> (lock # t \/ status # "running")
=============================================================================
