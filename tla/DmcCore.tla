------------------------------- MODULE DmcCore -------------------------------
(***************************************************************************)
(* The standalone C runtime, built without DMC_RUNTIME_THREADS: the handle *)
(* table of runtime/core and the memory, file and socket calls of          *)
(* runtime/mem, runtime/fs and runtime/net that live on top of it.         *)
(*                                                                         *)
(* One action is one API call made by the program.  The C heap, the open   *)
(* FILEs and the open descriptors are one map from addresses to objects.   *)
(* A handle of (dmc_handle)-1 and a result of -1 are the one value Failed. *)
(* Of an error message only its sort is kept.                              *)
(***************************************************************************)
EXTENDS Integers, FiniteSets

CONSTANTS
  DMC_MIN_HANDLES,    \* slots of the first table
  DMC_MAX_HANDLES,    \* slots the table may never exceed
  DMC_MEM_MAX_SIZE,   \* largest memory object
  Sizes,              \* sizes a program asks dmc_mem_alloc for
  Byte,               \* values of a byte
  Addr,               \* addresses the allocator and the system can hand out
  Null,               \* the null pointer
  Failed,             \* -1, as a handle and as a result
  NoOut               \* "no byte was stored through the output pointer"

ASSUME HandlesAssumption ==
  /\ DMC_MIN_HANDLES \in Nat \ {0}
  /\ DMC_MAX_HANDLES \in Nat
  /\ DMC_MIN_HANDLES <= DMC_MAX_HANDLES
  /\ Failed \in Nat
  /\ Failed >= DMC_MAX_HANDLES

ASSUME DataAssumption ==
  /\ DMC_MEM_MAX_SIZE \in Nat
  /\ Sizes \subseteq Nat
  /\ 0 \in Byte
  /\ Null \notin Addr

VARIABLES
  dmc_slots,        \* the table: slot -> [kind, value, size]
  dmc_slots_cap,
  dmc_slots_used,
  dmc_error_text,   \* sort of the last message, "" when there is none
  heap,             \* address -> the object allocated there, or NoObject
  last              \* the last call, its result and the byte it stored

table == <<dmc_slots, dmc_slots_cap, dmc_slots_used>>
vars  == <<dmc_slots, dmc_slots_cap, dmc_slots_used, dmc_error_text, heap, last>>

Kinds    == {"MEMORY", "FILE", "SOCKET"}
Errors   == {"", "full", "memory", "handle", "argument", "bounds", "io"}
Data     == UNION {[0 .. n - 1 -> Byte] : n \in 0 .. DMC_MEM_MAX_SIZE}
NoObject == [kind |-> "NONE", data |-> <<>>]
Zeroed(n) == [i \in 0 .. n - 1 |-> 0]

(* dmc_slot; an unused or zeroed entry is EmptySlot. *)
Slot      == [kind : Kinds \cup {"NONE"}, value : Addr \cup {Null}, size : Nat]
EmptySlot == [kind |-> "NONE", value |-> Null, size |-> 0]

Init ==
  /\ dmc_slots_cap  = 0
  /\ dmc_slots      = [h \in 0 .. dmc_slots_cap - 1 |-> EmptySlot]
  /\ dmc_slots_used = 0
  /\ dmc_error_text = ""
  /\ heap           = [a \in Addr |-> NoObject]
  /\ last           = [call |-> "none", code |-> 0, out |-> NoOut]

-----------------------------------------------------------------------------
(* Replies. *)

Answer(call, code, out) == last' = [call |-> call, code |-> code, out |-> out]

(* The call succeeds and leaves the message of an earlier call in place. *)
Succeed(call, code, out) ==
  /\ Answer(call, code, out)
  /\ UNCHANGED dmc_error_text

(* The call returns -1 after dmc_set_error(msg), or without calling it. *)
Refuse(call, msg) ==
  /\ dmc_error_text' = msg
  /\ Answer(call, Failed, NoOut)

RefuseSilently(call) ==
  /\ UNCHANGED dmc_error_text
  /\ Answer(call, Failed, NoOut)

-----------------------------------------------------------------------------
(* runtime/core: the handle table. *)

AtLeast(x, y) == IF x < y THEN y ELSE x
AtMost(x, y)  == IF x > y THEN y ELSE x

(* dmc_ensure_capacity(dmc_slots_used + 1) *)
Needed    == AtLeast(dmc_slots_used + 1, DMC_MIN_HANDLES)
TableFull == Needed > DMC_MAX_HANDLES
Grows     == Needed > dmc_slots_cap
BugUnclampedCapacity ==
  IF ~Grows THEN dmc_slots_cap
  ELSE IF dmc_slots_cap = 0 THEN DMC_MIN_HANDLES ELSE 2 * dmc_slots_cap

NewCapacity ==
  LET doubled == IF dmc_slots_cap = 0 THEN DMC_MIN_HANDLES ELSE 2 * dmc_slots_cap
  IN  IF Grows THEN AtMost(AtLeast(doubled, Needed), DMC_MAX_HANDLES)
               ELSE dmc_slots_cap

(* The table after the realloc, its new entries cleared. *)
BugFreshTable == [h \in 0 .. NewCapacity - 1 |-> EmptySlot]

GrownTable ==
  [h \in 0 .. NewCapacity - 1 |->
     IF h < dmc_slots_cap THEN dmc_slots[h] ELSE EmptySlot]

(* Why dmc_reserve may refuse: the table is full, or realloc fails. *)
ReserveErrors ==
  IF TableFull THEN {"full"} ELSE IF Grows THEN {"memory"} ELSE {}

BugReserveReusesSlot(kind, a, size) ==
  LET freed == {h \in 0 .. dmc_slots_used - 1 : dmc_slots[h].kind = "NONE"}
      slot  == IF freed = {} THEN dmc_slots_used ELSE CHOOSE h \in freed : TRUE
  IN  /\ ~TableFull
      /\ dmc_slots'      = [GrownTable EXCEPT ![slot] =
                              [kind |-> kind, value |-> a, size |-> size]]
      /\ dmc_slots_cap'  = NewCapacity
      /\ dmc_slots_used' = dmc_slots_used + 1

dmc_reserve(kind, a, size) ==
  /\ ~TableFull
  /\ dmc_slots'      = [GrownTable EXCEPT ![dmc_slots_used] =
                          [kind |-> kind, value |-> a, size |-> size]]
  /\ dmc_slots_cap'  = NewCapacity
  /\ dmc_slots_used' = dmc_slots_used + 1

(* dmc_get(h, kind) returns a slot. *)
Resolves(h, kind) == h < dmc_slots_cap /\ dmc_slots[h].kind = kind

(* dmc_release(h) on a table t: whether it accepts h, and what it leaves. *)
Releases(t, h) == h < dmc_slots_cap /\ t[h].kind # "NONE"
Released(t, h) == IF Releases(t, h) THEN [t EXCEPT ![h] = EmptySlot] ELSE t

BadHandle(call, h, kind) ==
  /\ ~Resolves(h, kind)
  /\ Refuse(call, "handle")
  /\ UNCHANGED <<table, heap>>

(* dmc_set_error(NULL): the program clears the message before a call. *)
ClearError ==
  /\ dmc_error_text' = ""
  /\ Answer("set_error", 0, NoOut)
  /\ UNCHANGED <<table, heap>>

-----------------------------------------------------------------------------
(* What the constructors of the three kinds share: an object has just been *)
(* obtained at address a; it is entered in the table or given back.        *)

(* free, fclose or close of the object at a *)
BugDiscardForgotten(hp, a) == hp

Discard(hp, a) == [hp EXCEPT ![a] = NoObject]

Obtained(kind, a, n) ==
  [heap EXCEPT ![a] = [kind |-> kind, data |-> Zeroed(n)]]

ReserveOrDiscard(call, kind, a, n) ==
  \/ /\ dmc_reserve(kind, a, n)
     /\ heap' = Obtained(kind, a, n)
     /\ Succeed(call, dmc_slots_used, NoOut)
  \/ /\ \E msg \in ReserveErrors : Refuse(call, msg)
     /\ heap' = Discard(Obtained(kind, a, n), a)
     /\ UNCHANGED table

Free(a) == heap[a] = NoObject

-----------------------------------------------------------------------------
(* runtime/mem *)

MemAlloc(size) ==
  \/ /\ size = 0 \/ size > DMC_MEM_MAX_SIZE
     /\ Refuse("mem_alloc", "argument")
     /\ UNCHANGED <<table, heap>>
  \/ /\ size \in 1 .. DMC_MEM_MAX_SIZE
     /\ \/ Refuse("mem_alloc", "memory") /\ UNCHANGED <<table, heap>>
        \/ \E a \in Addr : Free(a) /\ ReserveOrDiscard("mem_alloc", "MEMORY", a, size)

(* The size goes through an output pointer; the model keeps no copy of it. *)
MemSize(h, out) ==
  \/ /\ out = Null
     /\ RefuseSilently("mem_size")
     /\ UNCHANGED <<table, heap>>
  \/ out # Null /\ BadHandle("mem_size", h, "MEMORY")
  \/ /\ out # Null
     /\ Resolves(h, "MEMORY")
     /\ Succeed("mem_size", 0, NoOut)
     /\ UNCHANGED <<table, heap>>

OutOfBounds(call, h, i) ==
  /\ Resolves(h, "MEMORY")
  /\ i >= dmc_slots[h].size
  /\ Refuse(call, "bounds")
  /\ UNCHANGED <<table, heap>>

InBounds(h, i) == Resolves(h, "MEMORY") /\ i < dmc_slots[h].size

MemRead(h, i, out) ==
  \/ /\ out = Null
     /\ RefuseSilently("mem_read")
     /\ UNCHANGED <<table, heap>>
  \/ out # Null /\ BadHandle("mem_read", h, "MEMORY")
  \/ out # Null /\ OutOfBounds("mem_read", h, i)
  \/ /\ out # Null
     /\ InBounds(h, i)
     /\ Succeed("mem_read", 0, heap[dmc_slots[h].value].data[i])
     /\ UNCHANGED <<table, heap>>

(* The heap with byte i of the object at a overwritten. *)
Stored(a, i, v) ==
  [heap EXCEPT ![a] =
     [kind |-> heap[a].kind, data |-> [heap[a].data EXCEPT ![i] = v]]]

MemWrite(h, i, v) ==
  \/ BadHandle("mem_write", h, "MEMORY")
  \/ OutOfBounds("mem_write", h, i)
  \/ /\ InBounds(h, i)
     /\ heap' = Stored(dmc_slots[h].value, i, v)
     /\ Succeed("mem_write", 0, NoOut)
     /\ UNCHANGED table

(* The slot is zeroed first, then handed to dmc_release, whose answer is *)
(* the answer of the call.                                               *)
MemFree(h) ==
  \/ BadHandle("mem_free", h, "MEMORY")
  \/ /\ Resolves(h, "MEMORY")
     /\ heap' = Discard(heap, dmc_slots[h].value)
     /\ LET zeroed   == [dmc_slots EXCEPT ![h] = EmptySlot]
            accepted == Releases(zeroed, h)
        IN  /\ dmc_slots'      = Released(zeroed, h)
            /\ dmc_error_text' = IF accepted THEN dmc_error_text ELSE "handle"
            /\ Answer("mem_free", IF accepted THEN 0 ELSE Failed, NoOut)
     /\ UNCHANGED <<dmc_slots_cap, dmc_slots_used>>

-----------------------------------------------------------------------------
(* runtime/fs.  The bytes of a file are outside the model: what fread,     *)
(* fwrite, fflush and fclose report is any outcome they may report.        *)

(* ok: both strings are there; opened: fopen succeeds *)
FileOpen(ok) ==
  \/ /\ ~ok
     /\ Refuse("file_open", "argument")
     /\ UNCHANGED <<table, heap>>
  \/ /\ ok
     /\ \/ Refuse("file_open", "io") /\ UNCHANGED <<table, heap>>
        \/ \E a \in Addr : Free(a) /\ ReserveOrDiscard("file_open", "FILE", a, 0)

FileTransfer(call, h, ok, Outcome) ==
  \/ /\ ~ok
     /\ Refuse(call, "argument")
     /\ UNCHANGED <<table, heap>>
  \/ ok /\ BadHandle(call, h, "FILE")
  \/ /\ ok
     /\ Resolves(h, "FILE")
     /\ Outcome
     /\ UNCHANGED <<table, heap>>

(* A read error is reported after the buffer has been filled. *)
FileRead(h, ok) ==
  FileTransfer("file_read", h, ok,
    Refuse("file_read", "io") \/ Succeed("file_read", 0, NoOut))

(* A short write fails too, but leaves no message. *)
FileWrite(h, ok) ==
  FileTransfer("file_write", h, ok,
    \/ Refuse("file_write", "io")
    \/ RefuseSilently("file_write")
    \/ Succeed("file_write", 0, NoOut))

(* The slot is given up whatever fclose or close answers. *)
CloseSlot(call, h, kind) ==
  \/ BadHandle(call, h, kind)
  \/ /\ Resolves(h, kind)
     /\ heap'      = Discard(heap, dmc_slots[h].value)
     /\ dmc_slots' = [dmc_slots EXCEPT ![h] = EmptySlot]
     /\ Succeed(call, 0, NoOut) \/ RefuseSilently(call)
     /\ UNCHANGED <<dmc_slots_cap, dmc_slots_used>>

FileClose(h) == CloseSlot("file_close", h, "FILE")

-----------------------------------------------------------------------------
(* runtime/net.  Lookup and connection fail or succeed; a descriptor that  *)
(* could not be connected is closed before the call returns.               *)

TcpConnect ==
  \/ Refuse("tcp_connect", "io") /\ UNCHANGED <<table, heap>>
  \/ \E a \in Addr : Free(a) /\ ReserveOrDiscard("tcp_connect", "SOCKET", a, 0)

(* dmc_get runs before the pointers are looked at; neither a null pointer *)
(* nor a failed send or recv leaves a message.                            *)
TcpTransfer(call, h, ok) ==
  \/ BadHandle(call, h, "SOCKET")
  \/ /\ Resolves(h, "SOCKET")
     /\ RefuseSilently(call) \/ (ok /\ Succeed(call, 0, NoOut))
     /\ UNCHANGED <<table, heap>>

TcpSend(h, ok) == TcpTransfer("tcp_send", h, ok)
TcpRecv(h, ok) == TcpTransfer("tcp_recv", h, ok)
TcpClose(h)    == CloseSlot("tcp_close", h, "SOCKET")

-----------------------------------------------------------------------------
(* The program calls with any handle, one it got or one it made up; an     *)
(* index runs one past the largest object; pointers may be null.           *)
Handle  == 0 .. DMC_MAX_HANDLES - 1 \cup {Failed}
Index   == 0 .. DMC_MEM_MAX_SIZE
Pointer == Addr \cup {Null}

Next ==
  \/ ClearError
  \/ \E size \in Sizes : MemAlloc(size)
  \/ \E ok \in BOOLEAN : FileOpen(ok)
  \/ TcpConnect
  \/ \E h \in Handle :
       \/ \E out \in Pointer : MemSize(h, out)
       \/ \E i \in Index, out \in Pointer : MemRead(h, i, out)
       \/ \E i \in Index, v \in Byte : MemWrite(h, i, v)
       \/ MemFree(h)
       \/ \E ok \in BOOLEAN : FileRead(h, ok) \/ FileWrite(h, ok)
       \/ FileClose(h)
       \/ \E ok \in BOOLEAN : TcpSend(h, ok) \/ TcpRecv(h, ok)
       \/ TcpClose(h)

Spec == Init /\ [][Next]_vars

-----------------------------------------------------------------------------
TypeOK ==
  /\ dmc_slots_cap \in 0 .. DMC_MAX_HANDLES
  /\ dmc_slots_used \in 0 .. dmc_slots_cap
  /\ dmc_slots \in [0 .. dmc_slots_cap - 1 -> Slot]
  /\ dmc_error_text \in Errors
  /\ heap \in [Addr -> [kind : Kinds, data : Data] \cup {NoObject}]
  /\ last.code \in Handle
  /\ last.out \in Byte \cup {NoOut}

(* The handles whose slot holds an object. *)
Live == {h \in 0 .. dmc_slots_cap - 1 : dmc_slots[h].kind # "NONE"}

(* No call, failed or not, leaks an object, frees one twice or lets two    *)
(* handles share one: live slots and allocated objects correspond one to   *)
(* one, and a slot knows the kind of its object.                           *)
OwnedExactlyOnce ==
  /\ \A h \in Live : /\ dmc_slots[h].value \in Addr
                     /\ heap[dmc_slots[h].value].kind = dmc_slots[h].kind
  /\ \A g, h \in Live : dmc_slots[g].value = dmc_slots[h].value => g = h
  /\ \A a \in Addr : heap[a] # NoObject => \E h \in Live : dmc_slots[h].value = a

(* The size dmc_mem_read and dmc_mem_write check an index against is the   *)
(* size of the buffer the slot points to, so a checked access is in it.    *)
CheckedAccessStaysInBuffer ==
  \A h \in Live : dmc_slots[h].kind = "MEMORY" =>
    DOMAIN heap[dmc_slots[h].value].data = 0 .. dmc_slots[h].size - 1

(* Only slots dmc_reserve has handed out hold anything, and a slot without *)
(* an object carries no stale pointer or size into dmc_get.                *)
UnusedSlotsAreClear ==
  /\ \A h \in Live : h < dmc_slots_used
  /\ \A h \in DOMAIN dmc_slots \ Live : dmc_slots[h] = EmptySlot

(* A handle whose object is gone never works again: its slot is not given  *)
(* to another object, so a stale handle cannot reach somebody else's data. *)
DeadHandleStaysDead ==
  [][\A h \in 0 .. dmc_slots_used - 1 :
       dmc_slots[h].kind = "NONE" => dmc_slots'[h].kind = "NONE"]_vars

(* The runtime implements the abstract table of owned objects. *)
Promise == INSTANCE ResourceTable WITH
  MaxSize <- DMC_MEM_MAX_SIZE,
  Limit   <- DMC_MAX_HANDLES,
  issued  <- dmc_slots_used,
  objs    <- [h \in Live |-> heap[dmc_slots[h].value]],
  reply   <- last.out

ImplementsResourceTable == Promise!Spec

(* dmc_runtime_smoke.c takes a zero from dmc_mem_free for a successful     *)
(* free: a call that did free the buffer answers 0.                        *)
MemFreeReportsSuccess ==
  [][(/\ last'.call = "mem_free"
      /\ dmc_slots' # dmc_slots) => last'.code = 0]_vars
=============================================================================
