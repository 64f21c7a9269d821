---------------------------- MODULE DmcCoreProofs ----------------------------
(***************************************************************************)
(* Proofs about DmcCore for every table size, every set of addresses and   *)
(* every set of bytes.  The four invariants of DmcCore are inductive only  *)
(* together: a handle reaches an object through its slot, so the type of   *)
(* the byte that is read, the ownership and the size check lean on one     *)
(* another.                                                                *)
(***************************************************************************)
EXTENDS DmcCore, TLAPS

IInv ==
  /\ TypeOK
  /\ OwnedExactlyOnce
  /\ CheckedAccessStaysInBuffer
  /\ UnusedSlotsAreClear

(* What the rest of a step leaves: a message and a reply of their types. *)
GoodReply ==
  /\ dmc_error_text' \in Errors
  /\ last'.code \in Handle
  /\ last'.out \in Byte \cup {NoOut}

-----------------------------------------------------------------------------
(* The five things a call can do to the table and the objects.             *)
Quiet == UNCHANGED <<table, heap>> /\ last'.out = NoOut

Enters(kind, a, n) ==
  /\ Free(a)
  /\ dmc_reserve(kind, a, n)
  /\ heap' = Obtained(kind, a, n)
  /\ last'.out = NoOut

Reads(h, i) ==
  /\ InBounds(h, i)
  /\ UNCHANGED <<table, heap>>
  /\ last'.out = heap[dmc_slots[h].value].data[i]

Writes(h, i, v) ==
  /\ InBounds(h, i)
  /\ heap' = Stored(dmc_slots[h].value, i, v)
  /\ UNCHANGED table
  /\ last'.out = NoOut

Closes(h, kind) ==
  /\ Resolves(h, kind)
  /\ heap' = Discard(heap, dmc_slots[h].value)
  /\ dmc_slots' = [dmc_slots EXCEPT ![h] = EmptySlot]
  /\ UNCHANGED <<dmc_slots_cap, dmc_slots_used>>
  /\ last'.out = NoOut

Effect ==
  \/ Quiet
  \/ \E kind \in Kinds, a \in Addr, n \in 0 .. DMC_MEM_MAX_SIZE : Enters(kind, a, n)
  \/ \E h \in Handle, i \in Index : Reads(h, i)
  \/ \E h \in Handle, i \in Index, v \in Byte : Writes(h, i, v)
  \/ \E h \in Handle, kind \in Kinds : Closes(h, kind)

-----------------------------------------------------------------------------
(* The table after a reallocation keeps every old slot, clears every new   *)
(* one and has room for one more handle, unless the table is full.         *)
LEMMA CapacityLemma ==
  ASSUME TypeOK, ~TableFull
  PROVE  /\ NewCapacity \in 0 .. DMC_MAX_HANDLES
         /\ dmc_slots_cap <= NewCapacity
         /\ dmc_slots_used < NewCapacity
  BY HandlesAssumption
  DEF TypeOK, TableFull, NewCapacity, Needed, Grows, AtLeast, AtMost

(* A call that answers without touching the table or an object.            *)
LEMMA QuietStep ==
  ASSUME IInv, GoodReply, UNCHANGED <<table, heap>>
  PROVE  IInv'
<1>1. TypeOK'
  BY DEF IInv, TypeOK, GoodReply, table, Handle
<1>2. OwnedExactlyOnce' /\ CheckedAccessStaysInBuffer' /\ UnusedSlotsAreClear'
  BY DEF IInv, table, OwnedExactlyOnce, CheckedAccessStaysInBuffer,
         UnusedSlotsAreClear, Live
<1> QED  BY <1>1, <1>2 DEF IInv

(* An object of the right kind and size is entered in the table.           *)
LEMMA EntersStep ==
  ASSUME IInv, GoodReply,
         NEW kind \in Kinds, NEW a \in Addr, NEW n \in 0 .. DMC_MEM_MAX_SIZE,
         Enters(kind, a, n)
  PROVE  /\ IInv'
         /\ dmc_slots_used \notin Live
         /\ Live' = Live \cup {dmc_slots_used}
         /\ \A h \in Live : /\ dmc_slots'[h] = dmc_slots[h]
                            /\ dmc_slots[h].value \in Addr \ {a}
         /\ dmc_slots'[dmc_slots_used].value = a
<1> USE DEF Enters
<1> DEFINE slot == [kind |-> kind, value |-> a, size |-> n]
           u    == dmc_slots_used
<1>1. /\ NewCapacity \in 0 .. DMC_MAX_HANDLES
      /\ dmc_slots_cap <= NewCapacity
      /\ u < NewCapacity
  BY CapacityLemma DEF IInv, dmc_reserve
<1>2. /\ dmc_slots_cap' = NewCapacity
      /\ u' = u + 1
      /\ dmc_slots' = [GrownTable EXCEPT ![u] = slot]
  BY DEF dmc_reserve
<1>3. /\ u \in 0 .. dmc_slots_cap
      /\ dmc_slots_cap \in Nat
      /\ NewCapacity \in Nat
      /\ dmc_slots \in [0 .. dmc_slots_cap - 1 -> Slot]
  BY <1>1, HandlesAssumption DEF IInv, TypeOK
<1>4. GrownTable \in [0 .. NewCapacity - 1 -> Slot]
  BY <1>1, <1>3 DEF GrownTable, EmptySlot, Slot
<1>5. slot \in Slot /\ slot.kind = kind /\ slot.value = a /\ slot.size = n
  BY DataAssumption DEF Slot
<1>6. \A h \in 0 .. NewCapacity - 1 :
        dmc_slots'[h] = IF h = u THEN slot
                        ELSE IF h < dmc_slots_cap THEN dmc_slots[h] ELSE EmptySlot
  BY <1>1, <1>2, <1>3, <1>4 DEF GrownTable
<1>7. Live' = Live \cup {u}
  BY <1>1, <1>2, <1>3, <1>5, <1>6 DEF Live, EmptySlot, Kinds
<1>8. u \notin Live
  BY <1>3 DEF IInv, UnusedSlotsAreClear, Live
<1>9. \A h \in Live : dmc_slots'[h] = dmc_slots[h]
  BY <1>1, <1>3, <1>6, <1>8 DEF Live
<1>10. dmc_slots'[u] = slot
  BY <1>1, <1>3, <1>6
<1>11. Zeroed(n) \in [0 .. n - 1 -> Byte] /\ DOMAIN Zeroed(n) = 0 .. n - 1
  BY DataAssumption DEF Zeroed
<1>12. /\ heap'[a] = [kind |-> kind, data |-> Zeroed(n)]
       /\ \A b \in Addr \ {a} : heap'[b] = heap[b]
       /\ heap' \in [Addr -> [kind : Kinds, data : Data] \cup {NoObject}]
  BY <1>11 DEF Obtained, IInv, TypeOK, Data
<1>13. \A h \in Live : dmc_slots[h].value \in Addr \ {a}
  BY DEF IInv, OwnedExactlyOnce, Free, NoObject, Live
<1>14. TypeOK'
  BY <1>1, <1>2, <1>3, <1>4, <1>5, <1>12 DEF TypeOK, GoodReply, Handle
<1>15. OwnedExactlyOnce'
  <2>1. \A h \in Live' : /\ dmc_slots'[h].value \in Addr
                         /\ heap'[dmc_slots'[h].value].kind = dmc_slots'[h].kind
    BY <1>5, <1>7, <1>9, <1>10, <1>12, <1>13 DEF IInv, OwnedExactlyOnce
  <2>2. \A g, h \in Live' : dmc_slots'[g].value = dmc_slots'[h].value => g = h
    BY <1>5, <1>7, <1>9, <1>10, <1>13 DEF IInv, OwnedExactlyOnce
  <2>3. \A b \in Addr : heap'[b] # NoObject => \E h \in Live' : dmc_slots'[h].value = b
    BY <1>5, <1>7, <1>9, <1>10, <1>12 DEF IInv, OwnedExactlyOnce
  <2> QED  BY <2>1, <2>2, <2>3 DEF OwnedExactlyOnce
<1>16. CheckedAccessStaysInBuffer'
  BY <1>5, <1>7, <1>9, <1>10, <1>11, <1>12, <1>13
  DEF IInv, CheckedAccessStaysInBuffer
<1>17. UnusedSlotsAreClear'
  <2>1. \A h \in Live' : h < u'
    BY <1>2, <1>3, <1>7 DEF IInv, UnusedSlotsAreClear, Live
  <2>2. \A h \in DOMAIN dmc_slots' \ Live' : dmc_slots'[h] = EmptySlot
    BY <1>2, <1>3, <1>4, <1>6, <1>7 DEF IInv, UnusedSlotsAreClear
  <2> QED  BY <2>1, <2>2 DEF UnusedSlotsAreClear
<1> QED  BY <1>5, <1>7, <1>8, <1>9, <1>10, <1>13, <1>14, <1>15, <1>16, <1>17 DEF IInv

(* An object obtained and given back at once leaves the heap as it was.    *)
LEMMA DiscardUndoes ==
  ASSUME TypeOK, NEW kind, NEW a \in Addr, NEW n, Free(a)
  PROVE  Discard(Obtained(kind, a, n), a) = heap
  BY DEF Discard, Obtained, TypeOK, Free

(* A checked write stays in one object and keeps its kind and length.      *)
LEMMA WritesStep ==
  ASSUME IInv, GoodReply,
         NEW h \in Handle, NEW i \in Index, NEW v \in Byte,
         Writes(h, i, v)
  PROVE  IInv'
<1> USE DEF Writes
<1> DEFINE a == dmc_slots[h].value
<1>1. h \in Live /\ dmc_slots[h].kind = "MEMORY" /\ i < dmc_slots[h].size
  BY HandlesAssumption DEF InBounds, Resolves, Live, Handle, IInv, TypeOK
<1>2. /\ a \in Addr
      /\ heap[a].kind = "MEMORY"
      /\ DOMAIN heap[a].data = 0 .. dmc_slots[h].size - 1
  BY <1>1 DEF IInv, OwnedExactlyOnce, CheckedAccessStaysInBuffer
<1>3. heap \in [Addr -> [kind : Kinds, data : Data] \cup {NoObject}]
  BY DEF IInv, TypeOK
<1>4. heap[a] \in [kind : Kinds, data : Data]
  BY <1>2, <1>3 DEF NoObject
<1>5. heap'[a] = [kind |-> heap[a].kind, data |-> [heap[a].data EXCEPT ![i] = v]]
  BY <1>2, <1>3 DEF Stored
<1>6. /\ heap'[a].kind = heap[a].kind
      /\ heap'[a].data = [heap[a].data EXCEPT ![i] = v]
      /\ DOMAIN heap'[a].data = DOMAIN heap[a].data
  BY <1>4, <1>5
<1>7. heap'[a].data \in Data
  <2>1. PICK m \in 0 .. DMC_MEM_MAX_SIZE : heap[a].data \in [0 .. m - 1 -> Byte]
    BY <1>4 DEF Data
  <2>2. heap'[a].data \in [0 .. m - 1 -> Byte]
    BY <1>6, <2>1
  <2> QED  BY <2>1, <2>2 DEF Data
<1>8. heap'[a] \in [kind : Kinds, data : Data]
  BY <1>4, <1>5, <1>6, <1>7
<1>9. \A b \in Addr \ {a} : heap'[b] = heap[b]
  BY <1>3 DEF Stored
<1>10. heap' \in [Addr -> [kind : Kinds, data : Data] \cup {NoObject}]
  BY <1>2, <1>3, <1>8 DEF Stored
<1>11. heap'[a] # NoObject /\ heap[a] # NoObject
  BY <1>2, <1>6 DEF NoObject
<1>12. TypeOK'
  BY <1>10 DEF IInv, TypeOK, GoodReply, table, Handle
<1>13. Live' = Live /\ dmc_slots' = dmc_slots
  BY DEF Live, table
<1>14. OwnedExactlyOnce'
  BY <1>2, <1>6, <1>9, <1>11, <1>13 DEF IInv, OwnedExactlyOnce
<1>15. CheckedAccessStaysInBuffer'
  BY <1>2, <1>6, <1>9, <1>13 DEF IInv, OwnedExactlyOnce, CheckedAccessStaysInBuffer
<1>16. UnusedSlotsAreClear'
  BY <1>13 DEF IInv, UnusedSlotsAreClear, table
<1> QED  BY <1>12, <1>14, <1>15, <1>16 DEF IInv

(* An object is given back and its slot is cleared, in one call.           *)
LEMMA ClosesStep ==
  ASSUME IInv, GoodReply,
         NEW h \in Handle, NEW kind \in Kinds,
         Closes(h, kind)
  PROVE  /\ IInv'
         /\ h \in Live
         /\ Live' = Live \ {h}
         /\ \A g \in Live' : /\ dmc_slots'[g] = dmc_slots[g]
                             /\ dmc_slots[g].value \in Addr \ {dmc_slots[h].value}
<1> USE DEF Closes
<1> DEFINE a == dmc_slots[h].value
<1>1. h \in Live /\ h \in 0 .. dmc_slots_cap - 1
  BY HandlesAssumption DEF Resolves, Live, Handle, IInv, TypeOK, Kinds
<1>2. /\ dmc_slots \in [0 .. dmc_slots_cap - 1 -> Slot]
      /\ heap \in [Addr -> [kind : Kinds, data : Data] \cup {NoObject}]
      /\ a \in Addr
  BY <1>1 DEF IInv, TypeOK, OwnedExactlyOnce
<1>3. /\ dmc_slots'[h] = EmptySlot
      /\ \A g \in 0 .. dmc_slots_cap - 1 : g # h => dmc_slots'[g] = dmc_slots[g]
      /\ dmc_slots' \in [0 .. dmc_slots_cap - 1 -> Slot]
  BY <1>1, <1>2 DEF EmptySlot, Slot
<1>4. Live' = Live \ {h}
  BY <1>1, <1>3 DEF Live, EmptySlot
<1>5. /\ heap'[a] = NoObject
      /\ \A b \in Addr \ {a} : heap'[b] = heap[b]
      /\ heap' \in [Addr -> [kind : Kinds, data : Data] \cup {NoObject}]
  BY <1>2 DEF Discard
<1>6. \A g \in Live' : dmc_slots'[g] = dmc_slots[g] /\ dmc_slots[g].value \in Addr \ {a}
  BY <1>1, <1>3, <1>4 DEF IInv, OwnedExactlyOnce, Live
<1>7. TypeOK'
  BY <1>3, <1>5 DEF IInv, TypeOK, GoodReply, Handle
<1>8. OwnedExactlyOnce'
  BY <1>4, <1>5, <1>6 DEF IInv, OwnedExactlyOnce
<1>9. CheckedAccessStaysInBuffer'
  BY <1>4, <1>5, <1>6 DEF IInv, CheckedAccessStaysInBuffer
<1>10. UnusedSlotsAreClear'
  BY <1>1, <1>2, <1>3, <1>4 DEF IInv, UnusedSlotsAreClear
<1> QED  BY <1>1, <1>4, <1>6, <1>7, <1>8, <1>9, <1>10 DEF IInv

-----------------------------------------------------------------------------
(* The replies a call can give have their types.                           *)
LEMMA Replies ==
  ASSUME IInv, NEW call, NEW code \in Handle, NEW out \in Byte \cup {NoOut},
         NEW msg \in Errors
  PROVE  /\ Succeed(call, code, out) => GoodReply
         /\ Refuse(call, msg)        => GoodReply
         /\ RefuseSilently(call)     => GoodReply
         /\ 0 \in Handle /\ Failed \in Handle
  BY HandlesAssumption
  DEF Succeed, Refuse, RefuseSilently, Answer, GoodReply, IInv, TypeOK, Handle

LEMMA ZeroIsHandle == 0 \in Handle
  BY HandlesAssumption DEF Handle

(* A refused handle, a null pointer and a failed transfer are quiet.       *)
LEMMA QuietCall ==
  ASSUME IInv, NEW call,
         \/ \E msg \in Errors : Refuse(call, msg) /\ UNCHANGED <<table, heap>>
         \/ RefuseSilently(call) /\ UNCHANGED <<table, heap>>
         \/ Succeed(call, 0, NoOut) /\ UNCHANGED <<table, heap>>
         \/ \E h \in Handle, kind \in Kinds : BadHandle(call, h, kind)
         \/ \E h \in Handle, i \in Index : OutOfBounds(call, h, i)
  PROVE  GoodReply /\ Effect
<1>1. GoodReply /\ UNCHANGED <<table, heap>>
  BY Replies, ZeroIsHandle DEF BadHandle, OutOfBounds, Errors
<1>2. last'.out = NoOut
  BY DEF BadHandle, OutOfBounds, Refuse, RefuseSilently, Succeed, Answer
<1> QED  BY <1>1, <1>2 DEF Effect, Quiet

(* A constructor enters its object in the table or gives it back.          *)
LEMMA AcquireCall ==
  ASSUME IInv, NEW call,
         NEW kind \in Kinds, NEW a \in Addr, NEW n \in 0 .. DMC_MEM_MAX_SIZE,
         Free(a), ReserveOrDiscard(call, kind, a, n)
  PROVE  GoodReply /\ Effect
<1>1. CASE dmc_reserve(kind, a, n) /\ heap' = Obtained(kind, a, n)
           /\ Succeed(call, dmc_slots_used, NoOut)
  <2>1. dmc_slots_used \in Handle
    BY <1>1, CapacityLemma, HandlesAssumption DEF dmc_reserve, IInv, TypeOK, Handle
  <2>2. GoodReply
    BY <1>1, <2>1, Replies DEF Errors
  <2>3. last'.out = NoOut
    BY <1>1 DEF Succeed, Answer
  <2>4. Enters(kind, a, n)
    BY <1>1, <2>3 DEF Enters
  <2> QED  BY <2>2, <2>4 DEF Effect
<1>2. CASE (\E msg \in ReserveErrors : Refuse(call, msg))
           /\ heap' = Discard(Obtained(kind, a, n), a) /\ UNCHANGED table
  <2>1. ReserveErrors \subseteq Errors
    BY DEF ReserveErrors, Errors
  <2>2. UNCHANGED <<table, heap>>
    BY <1>2, DiscardUndoes DEF IInv
  <2> QED  BY <1>2, <2>1, <2>2, QuietCall
<1> QED  BY <1>1, <1>2 DEF ReserveOrDiscard

(* A destructor that resolves its handle gives up object and slot.         *)
LEMMA CloseCall ==
  ASSUME IInv, NEW call, NEW h \in Handle, NEW kind \in Kinds,
         CloseSlot(call, h, kind)
  PROVE  GoodReply /\ Effect
<1>1. CASE BadHandle(call, h, kind)
  BY <1>1, QuietCall
<1>2. CASE ~BadHandle(call, h, kind)
  <2>1. GoodReply
    BY <1>2, Replies, ZeroIsHandle DEF CloseSlot, Errors
  <2>2. Closes(h, kind)
    BY <1>2 DEF CloseSlot, Closes, Succeed, RefuseSilently, Answer
  <2> QED  BY <2>1, <2>2 DEF Effect
<1> QED  BY <1>1, <1>2

(* dmc_mem_free clears the slot itself, so dmc_release never accepts it.   *)
LEMMA MemFreeEffect ==
  ASSUME IInv, NEW h \in Handle, Resolves(h, "MEMORY"), MemFree(h)
  PROVE  /\ heap' = Discard(heap, dmc_slots[h].value)
         /\ dmc_slots' = [dmc_slots EXCEPT ![h] = EmptySlot]
         /\ UNCHANGED <<dmc_slots_cap, dmc_slots_used>>
         /\ Refuse("mem_free", "handle")
<1> DEFINE zeroed == [dmc_slots EXCEPT ![h] = EmptySlot]
<1>1. ~BadHandle("mem_free", h, "MEMORY")
  BY DEF BadHandle
<1>2. h \in DOMAIN dmc_slots
  BY HandlesAssumption DEF Resolves, Handle, IInv, TypeOK
<1>3. ~Releases(zeroed, h)
  BY <1>2 DEF Releases, EmptySlot
<1> QED  BY <1>1, <1>3 DEF MemFree, Released, Refuse

LEMMA MemFreeCall ==
  ASSUME IInv, NEW h \in Handle, MemFree(h)
  PROVE  GoodReply /\ Effect
<1>1. CASE BadHandle("mem_free", h, "MEMORY")
  BY <1>1, QuietCall DEF Kinds
<1>2. CASE Resolves(h, "MEMORY")
  <2>1. GoodReply
    BY <1>2, MemFreeEffect, Replies, ZeroIsHandle DEF Errors
  <2>2. Closes(h, "MEMORY")
    BY <1>2, MemFreeEffect DEF Closes, Refuse, Answer
  <2> QED  BY <2>1, <2>2 DEF Effect, Kinds
<1> QED  BY <1>1, <1>2 DEF MemFree

(* A checked read delivers a byte of the handle's own object.              *)
LEMMA ReadIsByte ==
  ASSUME IInv, NEW h \in Handle, NEW i \in Index, InBounds(h, i)
  PROVE  /\ h \in Live
         /\ i \in DOMAIN heap[dmc_slots[h].value].data
         /\ heap[dmc_slots[h].value].data[i] \in Byte
<1> DEFINE a == dmc_slots[h].value
<1>1. h \in Live /\ dmc_slots[h].kind = "MEMORY" /\ i < dmc_slots[h].size
  BY HandlesAssumption DEF InBounds, Resolves, Live, Handle, IInv, TypeOK
<1>2. /\ a \in Addr
      /\ heap[a].kind = "MEMORY"
      /\ DOMAIN heap[a].data = 0 .. dmc_slots[h].size - 1
  BY <1>1 DEF IInv, OwnedExactlyOnce, CheckedAccessStaysInBuffer
<1>3. heap[a] \in [kind : Kinds, data : Data]
  BY <1>2 DEF IInv, TypeOK, NoObject
<1>4. dmc_slots[h].size \in Nat
  BY <1>1 DEF IInv, TypeOK, Slot, Live
<1>5. i \in DOMAIN heap[a].data
  BY <1>1, <1>2, <1>4, DataAssumption DEF Index
<1>6. heap[a].data[i] \in Byte
  BY <1>3, <1>5 DEF Data
<1> QED  BY <1>1, <1>5, <1>6

-----------------------------------------------------------------------------
(* Every call of the runtime has one of the five effects.                  *)
LEMMA EveryCall ==
  ASSUME IInv, Next
  PROVE  GoodReply /\ Effect
<1> USE DEF Kinds
<1>1. CASE ClearError
  BY <1>1, ZeroIsHandle DEF ClearError, Answer, GoodReply, Errors, Effect, Quiet
<1>2. ASSUME NEW size \in Sizes, MemAlloc(size) PROVE GoodReply /\ Effect
  <2>1. CASE UNCHANGED <<table, heap>> /\ \E msg \in Errors : Refuse("mem_alloc", msg)
    BY <2>1, QuietCall
  <2>2. CASE \E a \in Addr : /\ size \in 0 .. DMC_MEM_MAX_SIZE
                             /\ Free(a)
                             /\ ReserveOrDiscard("mem_alloc", "MEMORY", a, size)
    BY <2>2, AcquireCall
  <2>3. size \in 1 .. DMC_MEM_MAX_SIZE => size \in 0 .. DMC_MEM_MAX_SIZE
    BY DataAssumption
  <2>4. "argument" \in Errors /\ "memory" \in Errors
    BY DEF Errors
  <2> QED  BY <1>2, <2>1, <2>2, <2>3, <2>4, Zenon DEF MemAlloc
<1>3. ASSUME NEW ok \in BOOLEAN, FileOpen(ok) PROVE GoodReply /\ Effect
  <2>1. CASE UNCHANGED <<table, heap>> /\ \E msg \in Errors : Refuse("file_open", msg)
    BY <2>1, QuietCall
  <2>2. CASE \E a \in Addr : Free(a) /\ ReserveOrDiscard("file_open", "FILE", a, 0)
    BY <2>2, AcquireCall, DataAssumption
  <2> QED  BY <1>3, <2>1, <2>2 DEF FileOpen, Errors
<1>4. CASE TcpConnect
  <2>1. CASE UNCHANGED <<table, heap>> /\ \E msg \in Errors : Refuse("tcp_connect", msg)
    BY <2>1, QuietCall
  <2>2. CASE \E a \in Addr : Free(a) /\ ReserveOrDiscard("tcp_connect", "SOCKET", a, 0)
    BY <2>2, AcquireCall, DataAssumption
  <2> QED  BY <1>4, <2>1, <2>2 DEF TcpConnect, Errors
<1>5. ASSUME NEW h \in Handle, NEW out \in Pointer, MemSize(h, out) PROVE GoodReply /\ Effect
  BY <1>5, QuietCall DEF MemSize
<1>6. ASSUME NEW h \in Handle, NEW i \in Index, NEW out \in Pointer, MemRead(h, i, out)
      PROVE  GoodReply /\ Effect
  <2>1. CASE InBounds(h, i) /\ UNCHANGED <<table, heap>>
             /\ Succeed("mem_read", 0, heap[dmc_slots[h].value].data[i])
    <3>1. GoodReply
      BY <2>1, ReadIsByte, Replies, ZeroIsHandle DEF Errors
    <3>2. Reads(h, i)
      BY <2>1 DEF Reads, Succeed, Answer
    <3> QED  BY <3>1, <3>2 DEF Effect
  <2> QED  BY <1>6, <2>1, QuietCall DEF MemRead
<1>7. ASSUME NEW h \in Handle, NEW i \in Index, NEW v \in Byte, MemWrite(h, i, v)
      PROVE  GoodReply /\ Effect
  <2>1. CASE InBounds(h, i) /\ heap' = Stored(dmc_slots[h].value, i, v)
             /\ Succeed("mem_write", 0, NoOut) /\ UNCHANGED table
    <3>1. GoodReply
      BY <2>1, Replies, ZeroIsHandle DEF Errors
    <3>2. Writes(h, i, v)
      BY <2>1 DEF Writes, Succeed, Answer
    <3> QED  BY <3>1, <3>2 DEF Effect
  <2> QED  BY <1>7, <2>1, QuietCall DEF MemWrite
<1>8. ASSUME NEW h \in Handle, MemFree(h) PROVE GoodReply /\ Effect
  BY <1>8, MemFreeCall
<1>9. ASSUME NEW h \in Handle, NEW ok \in BOOLEAN, FileRead(h, ok) \/ FileWrite(h, ok)
      PROVE  GoodReply /\ Effect
  BY <1>9, QuietCall DEF FileRead, FileWrite, FileTransfer, Errors
<1>10. ASSUME NEW h \in Handle, FileClose(h) \/ TcpClose(h) PROVE GoodReply /\ Effect
  BY <1>10, CloseCall DEF FileClose, TcpClose
<1>11. ASSUME NEW h \in Handle, NEW ok \in BOOLEAN, TcpSend(h, ok) \/ TcpRecv(h, ok)
       PROVE  GoodReply /\ Effect
  BY <1>11, QuietCall DEF TcpSend, TcpRecv, TcpTransfer, Errors
<1> QED
  BY <1>1, <1>2, <1>3, <1>4, <1>5, <1>6, <1>7, <1>8, <1>9, <1>10, <1>11 DEF Next

(* The conjunction of the four invariants holds in every state of every    *)
(* run, whatever the program calls and whatever the system answers.        *)
THEOREM Inductive == Spec => []IInv
<1>1. Init => IInv
  <2> SUFFICES ASSUME Init PROVE IInv
    OBVIOUS
  <2>1. 0 .. dmc_slots_cap - 1 = {} /\ DOMAIN dmc_slots = {}
    <3>1. dmc_slots_cap = 0
      BY DEF Init
    <3>2. 0 .. 0 - 1 = {}
      OBVIOUS
    <3> QED  BY <3>1, <3>2 DEF Init
  <2>2. dmc_slots \in [0 .. dmc_slots_cap - 1 -> Slot]
    <3>1. EmptySlot \in Slot
      BY DEF EmptySlot, Slot
    <3>2. dmc_slots = [h \in 0 .. dmc_slots_cap - 1 |-> EmptySlot]
      BY DEF Init
    <3> QED  BY ONLY <3>1, <3>2, Zenon
  <2>3. TypeOK
    <3>1. dmc_slots_cap \in 0 .. DMC_MAX_HANDLES /\ dmc_slots_used \in 0 .. dmc_slots_cap
      <4>1. dmc_slots_cap = 0 /\ dmc_slots_used = 0
        BY DEF Init
      <4> QED  BY ONLY <4>1, HandlesAssumption
    <3>2. dmc_error_text \in Errors /\ last.code \in Handle /\ last.out \in Byte \cup {NoOut}
      BY ZeroIsHandle DEF Init, Errors
    <3>3. heap \in [Addr -> [kind : Kinds, data : Data] \cup {NoObject}]
      BY DEF Init
    <3> QED  BY <2>2, <3>1, <3>2, <3>3 DEF TypeOK
  <2>4. Live = {}
    BY <2>1 DEF Live
  <2>5. OwnedExactlyOnce /\ CheckedAccessStaysInBuffer /\ UnusedSlotsAreClear
    BY <2>1, <2>4 DEF Init, OwnedExactlyOnce, CheckedAccessStaysInBuffer, UnusedSlotsAreClear
  <2> QED  BY <2>3, <2>5 DEF IInv
<1>2. IInv /\ [Next]_vars => IInv'
  <2> SUFFICES ASSUME IInv, [Next]_vars PROVE IInv'
    OBVIOUS
  <2>1. CASE Next
    <3>1. GoodReply /\ Effect
      BY <2>1, EveryCall
    <3>2. CASE Quiet
      BY <3>1, <3>2, QuietStep DEF Quiet
    <3>3. ASSUME NEW kind \in Kinds, NEW a \in Addr, NEW n \in 0 .. DMC_MEM_MAX_SIZE,
                 Enters(kind, a, n)
          PROVE  IInv'
      BY <3>1, <3>3, EntersStep
    <3>4. ASSUME NEW h \in Handle, NEW i \in Index, Reads(h, i) PROVE IInv'
      BY <3>1, <3>4, QuietStep DEF Reads
    <3>5. ASSUME NEW h \in Handle, NEW i \in Index, NEW v \in Byte, Writes(h, i, v)
          PROVE  IInv'
      BY <3>1, <3>5, WritesStep
    <3>6. ASSUME NEW h \in Handle, NEW kind \in Kinds, Closes(h, kind) PROVE IInv'
      BY <3>1, <3>6, ClosesStep
    <3> QED  BY <3>1, <3>2, <3>3, <3>4, <3>5, <3>6 DEF Effect
  <2>2. CASE UNCHANGED vars
    BY <2>2 DEF vars, IInv, TypeOK, OwnedExactlyOnce, CheckedAccessStaysInBuffer,
                UnusedSlotsAreClear, Live
  <2> QED  BY <2>1, <2>2
<1> QED  BY <1>1, <1>2, PTL DEF Spec

(* Types, ownership, checked accesses and clear slots, each by name.       *)
THEOREM TableIsSound ==
  Spec => /\ []TypeOK
          /\ []OwnedExactlyOnce
          /\ []CheckedAccessStaysInBuffer
          /\ []UnusedSlotsAreClear
<1>1. IInv => /\ TypeOK
              /\ OwnedExactlyOnce
              /\ CheckedAccessStaysInBuffer
              /\ UnusedSlotsAreClear
  BY DEF IInv
<1> QED  BY <1>1, Inductive, PTL

(* The table grows within its bounds, a slot holds the kind and address of *)
(* an object, and the error text is one of those the runtime sets.         *)
THEOREM StateIsTyped == Spec => []TypeOK
  BY TableIsSound, PTL

(* A handle whose object is gone is dead for good: no slot is handed out   *)
(* twice, because dmc_slots_used only grows.                               *)
THEOREM DeadHandles == Spec => DeadHandleStaysDead
<1> DEFINE StaysDead ==
             \A h \in 0 .. dmc_slots_used - 1 :
               dmc_slots[h].kind = "NONE" => dmc_slots'[h].kind = "NONE"
<1>1. IInv /\ [Next]_vars => [StaysDead]_vars
  <2> SUFFICES ASSUME IInv, Next PROVE StaysDead
    OBVIOUS
  <2> SUFFICES ASSUME NEW h \in 0 .. dmc_slots_used - 1, dmc_slots[h].kind = "NONE"
               PROVE  dmc_slots'[h].kind = "NONE"
    OBVIOUS
  <2>1. GoodReply /\ Effect
    BY EveryCall
  <2>2. h \in 0 .. dmc_slots_cap - 1 /\ h # dmc_slots_used /\ h \notin Live
    BY DEF IInv, TypeOK, Live
  <2>3. ASSUME NEW kind \in Kinds, NEW a \in Addr, NEW n \in 0 .. DMC_MEM_MAX_SIZE,
               Enters(kind, a, n)
        PROVE  dmc_slots'[h].kind = "NONE"
    <3>1. h \notin Live' /\ IInv'
      BY <2>1, <2>2, <2>3, EntersStep
    <3>2. h \in 0 .. dmc_slots_cap' - 1
      BY <2>2, <2>3, CapacityLemma DEF Enters, dmc_reserve, IInv, TypeOK
    <3> QED  BY <3>1, <3>2 DEF Live
  <2>4. ASSUME NEW g \in Handle, NEW kind \in Kinds, Closes(g, kind)
        PROVE  dmc_slots'[h].kind = "NONE"
    BY <2>2, <2>4 DEF Closes, EmptySlot, IInv, TypeOK
  <2> QED  BY <2>1, <2>3, <2>4 DEF Effect, Quiet, Reads, Writes, table
<1> QED  BY <1>1, Inductive, PTL DEF Spec, DeadHandleStaysDead

-----------------------------------------------------------------------------
(* The runtime keeps the promise of ResourceTable: each call maps to one   *)
(* step of it on the objects the live handles own.                         *)
THEOREM Implements == Spec => ImplementsResourceTable
<1> DEFINE objs == [h \in Live |-> heap[dmc_slots[h].value]]
<1>1. Init => Promise!Init
  <2> SUFFICES ASSUME Init PROVE Promise!Init
    OBVIOUS
  <2>1. Live = {}
    <3>1. dmc_slots_cap = 0
      BY DEF Init
    <3> QED  BY <3>1 DEF Live
  <2> QED  BY <2>1 DEF Init, Promise!Init
<1>2. IInv /\ [Next]_vars => [Promise!Next]_(Promise!vars)
  <2> SUFFICES ASSUME IInv, [Next]_vars PROVE [Promise!Next]_(Promise!vars)
    OBVIOUS
  <2>1. CASE UNCHANGED vars
    BY <2>1 DEF vars, Promise!vars, Live
  <2>2. CASE Next
    <3>1. GoodReply /\ Effect
      BY <2>2, EveryCall
    <3>2. CASE Quiet
      <4>1. objs' = objs /\ dmc_slots_used' = dmc_slots_used
        BY <3>2 DEF Quiet, table, Live
      <4>2. Promise!NoEffect
        BY <3>2, <4>1 DEF Promise!NoEffect, Quiet
      <4> QED  BY <4>2 DEF Promise!Next
    <3>3. ASSUME NEW kind \in Kinds, NEW a \in Addr, NEW n \in 0 .. DMC_MEM_MAX_SIZE,
                 Enters(kind, a, n)
          PROVE  Promise!Next
      <4> DEFINE new == [kind |-> kind, data |-> [i \in 0 .. n - 1 |-> 0]]
                 u   == dmc_slots_used
      <4>1. /\ u \notin Live
            /\ Live' = Live \cup {u}
            /\ \A h \in Live : /\ dmc_slots'[h] = dmc_slots[h]
                               /\ dmc_slots[h].value \in Addr \ {a}
            /\ dmc_slots'[u].value = a
        BY <3>1, <3>3, EntersStep
      <4>2. /\ heap'[a] = new
            /\ \A b \in Addr \ {a} : heap'[b] = heap[b]
        BY <3>3 DEF Enters, Obtained, Zeroed, IInv, TypeOK
      <4>3. objs' = [h \in DOMAIN objs \cup {u} |-> IF h = u THEN new ELSE objs[h]]
        BY <4>1, <4>2
      <4>4. u < DMC_MAX_HANDLES /\ u' = u + 1 /\ last'.out = NoOut
        BY <3>3, CapacityLemma, HandlesAssumption DEF Enters, dmc_reserve, IInv, TypeOK
      <4>5. Promise!Acquire(kind, n)
        BY <4>3, <4>4 DEF Promise!Acquire
      <4> QED  BY <4>5 DEF Promise!Next
    <3>4. ASSUME NEW h \in Handle, NEW i \in Index, Reads(h, i)
          PROVE  Promise!Next
      <4>1. h \in Live /\ i \in DOMAIN objs[h].data
        BY <3>4, ReadIsByte DEF Reads
      <4>2. objs' = objs /\ dmc_slots_used' = dmc_slots_used
        BY <3>4 DEF Reads, table, Live
      <4>3. Promise!Fetch(h, i)
        BY <3>4, <4>1, <4>2 DEF Promise!Fetch, Reads
      <4> QED  BY <4>1, <4>3 DEF Promise!Next
    <3>5. ASSUME NEW h \in Handle, NEW i \in Index, NEW v \in Byte, Writes(h, i, v)
          PROVE  Promise!Next
      <4>1. h \in Live /\ i \in DOMAIN objs[h].data
        BY <3>5, ReadIsByte DEF Writes
      <4>2. Live' = Live /\ dmc_slots' = dmc_slots
        BY <3>5 DEF Writes, table, Live
      <4>3. \A g \in Live : /\ dmc_slots[g].value \in Addr
                            /\ dmc_slots[g].value = dmc_slots[h].value => g = h
        BY <4>1 DEF IInv, OwnedExactlyOnce
      <4> DEFINE new == [kind |-> objs[h].kind, data |-> [objs[h].data EXCEPT ![i] = v]]
      <4>4. heap' = [heap EXCEPT ![dmc_slots[h].value] = new]
        BY <3>5, <4>1 DEF Writes, Stored
      <4>5. heap \in [Addr -> [kind : Kinds, data : Data] \cup {NoObject}]
        BY DEF IInv, TypeOK
      <4> HIDE DEF new
      <4>6. \A g \in Live : heap'[dmc_slots[g].value] = IF g = h THEN new ELSE objs[g]
        BY <4>1, <4>3, <4>4, <4>5
      <4>7. objs' = [objs EXCEPT ![h] = new]
        BY <4>1, <4>2, <4>6
      <4>8. Promise!Store(h, i, v)
        BY <3>5, <4>7 DEF Promise!Store, Writes, table, new
      <4> QED  BY <4>1, <4>8 DEF Promise!Next
    <3>6. ASSUME NEW h \in Handle, NEW kind \in Kinds, Closes(h, kind)
          PROVE  Promise!Next
      <4>1. /\ h \in Live
            /\ Live' = Live \ {h}
            /\ \A g \in Live' : /\ dmc_slots'[g] = dmc_slots[g]
                                /\ dmc_slots[g].value \in Addr \ {dmc_slots[h].value}
        BY <3>1, <3>6, ClosesStep
      <4>2. \A b \in Addr \ {dmc_slots[h].value} : heap'[b] = heap[b]
        BY <3>6 DEF Closes, Discard, IInv, TypeOK
      <4>3. objs' = [x \in DOMAIN objs \ {h} |-> objs[x]]
        BY <4>1, <4>2
      <4>4. Promise!Dispose(h)
        BY <3>6, <4>3 DEF Promise!Dispose, Closes
      <4> QED  BY <4>1, <4>4 DEF Promise!Next
    <3> QED  BY <3>1, <3>2, <3>3, <3>4, <3>5, <3>6 DEF Effect
  <2> QED  BY <2>1, <2>2
<1> QED  BY <1>1, <1>2, Inductive, PTL DEF Spec, ImplementsResourceTable, Promise!Spec
=============================================================================
