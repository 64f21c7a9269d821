----------------------------- MODULE GenHandles -----------------------------
(***************************************************************************)
(* The memory, file and regex calls of the C runtime that compiler/dmc.cpp *)
(* writes at the head of every program (emit_runtime).  All three take     *)
(* their handles from one counter, _dmc_next; memory and regexes share the *)
(* table _dmc_mem, files have _dmc_files.  One action is one call.         *)
(*                                                                         *)
(* Where the C code leaves its own tables, uses a pointer that is no       *)
(* longer valid or frees what it did not allocate, nothing is known of     *)
(* the program any more: status says why, and it takes no more steps.      *)
(***************************************************************************)
EXTENDS Integers, FiniteSets

CONSTANTS
  InitialSlots,  \* slots of the first tables, 128 in the code
  MaxSize,       \* largest memory object, 2^30 in the code
  Sizes,         \* sizes a program asks for
  Byte,          \* values of a byte
  Faults,        \* what can go wrong besides, a subset of AllFaults
  MaxHandles,    \* bound: handles issued
  NoOut          \* reply of a call that reads nothing

AllFaults ==
  {"calloc",      \* the buffer of mem_alloc cannot be had
   "half",        \* of the two reallocs of _dmc_resize_mem one fails
   "misuse",      \* a handle goes to the free function of another kind
   "table",       \* a handle past the fixed tables of arenas and databases
   "overflow",    \* top + n or off + i does not fit into a long long
   "regex_first"} \* regex_new when the table has no slot for its handle

ASSUME HandlesAssumption ==
  /\ InitialSlots \in Nat \ {0}
  /\ MaxSize \in Nat
  /\ Sizes \subseteq Int
  /\ 0 \in Byte
  /\ Faults \subseteq AllFaults
  /\ MaxHandles \in Nat

VARIABLES
  next,      \* _dmc_next
  mem,       \* _dmc_mem and what it points to: handle -> object
  mem_sz,    \* _dmc_mem_sz
  dangling,  \* realloc has moved a table that is still used at its old place
  files,     \* _dmc_files: handle -> is a FILE there
  status,    \* "running", or what made the program undefined
  last       \* the last call, what it returned and the byte it read

vars   == <<next, mem, mem_sz, dangling, files, status, last>>
tables == <<next, mem, mem_sz, dangling, files>>

Whats   == {"null", "heap", "mapped", "regex"}
Object(what, n) == [what |-> what, data |-> [i \in 0 .. n - 1 |-> 0]]
NoObject        == Object("null", 0)

Grown(table, cap, empty) ==
  [h \in 0 .. cap - 1 |-> IF h \in DOMAIN table THEN table[h] ELSE empty]

_dmc_mem_cap   == Cardinality(DOMAIN mem)
_dmc_files_cap == Cardinality(DOMAIN files)

Init ==
  /\ next     = 1
  /\ mem      = [h \in {} |-> NoObject]
  /\ mem_sz   = [h \in {} |-> 0]
  /\ dangling = FALSE
  /\ files    = [h \in {} |-> FALSE]
  /\ status   = "running"
  /\ last     = [call |-> "none", code |-> 0, out |-> NoOut]

Answer(call, code, out) ==
  /\ last' = [call |-> call, code |-> code, out |-> out]
  /\ UNCHANGED status

(* A call that only answers. *)
Says(call, code) == Answer(call, code, NoOut) /\ UNCHANGED tables
Fails(call)      == Says(call, -1)

Undefined(why) ==
  /\ status' = why
  /\ UNCHANGED <<tables, last>>

-----------------------------------------------------------------------------
(* _dmc_ensure: both tables get a slot for handle h, memory first.         *)

NewCap(cap, need) ==
  LET doubled == IF cap = 0 THEN InitialSlots ELSE 2 * cap
  IN  IF need <= cap THEN cap ELSE IF doubled < need THEN need ELSE doubled

MemCapFor(h)   == NewCap(_dmc_mem_cap, h + 1)
FilesCapFor(h) == NewCap(_dmc_files_cap, h + 1)

BugOwnCounter == UNCHANGED next
TakeHandle    == next' = next + 1

(* A table cannot grow: the call fails, its handle is used up, and the     *)
(* memory tables may have grown before the file table could not.           *)
EnsureFails(call) ==
  /\ TakeHandle
  /\ Answer(call, -1, NoOut)
  /\ \/ /\ MemCapFor(next) > _dmc_mem_cap
        /\ UNCHANGED <<mem, mem_sz, files>>
        /\ \/ UNCHANGED dangling
           \/ "half" \in Faults /\ _dmc_mem_cap > 0 /\ dangling' = TRUE
     \/ /\ FilesCapFor(next) > _dmc_files_cap
        /\ mem'    = Grown(mem, MemCapFor(next), NoObject)
        /\ mem_sz' = Grown(mem_sz, MemCapFor(next), 0)
        /\ UNCHANGED <<files, dangling>>

(* The tables have room: an object of size n goes into the one, or the     *)
(* outcome of fopen into the other.                                        *)
BugSizesNotGrown(h, o, n) ==
  /\ mem'    = [Grown(mem, MemCapFor(h), NoObject) EXCEPT ![h] = o]
  /\ mem_sz' = [mem_sz EXCEPT ![h] = n]
  /\ files'  = Grown(files, FilesCapFor(h), FALSE)
  /\ UNCHANGED dangling

BugSlotBefore(h, o, n) ==
  /\ mem'    = [Grown(mem, MemCapFor(h), NoObject) EXCEPT ![h - 1] = o]
  /\ mem_sz' = [Grown(mem_sz, MemCapFor(h), 0) EXCEPT ![h - 1] = n]
  /\ files'  = Grown(files, FilesCapFor(h), FALSE)
  /\ UNCHANGED dangling

EnterMem(h, o, n) ==
  /\ mem'    = [Grown(mem, MemCapFor(h), NoObject) EXCEPT ![h] = o]
  /\ mem_sz' = [Grown(mem_sz, MemCapFor(h), 0) EXCEPT ![h] = n]
  /\ files'  = Grown(files, FilesCapFor(h), FALSE)
  /\ UNCHANGED dangling

EnterFile(h, opened) ==
  /\ mem'    = Grown(mem, MemCapFor(h), NoObject)
  /\ mem_sz' = Grown(mem_sz, MemCapFor(h), 0)
  /\ files'  = [Grown(files, FilesCapFor(h), FALSE) EXCEPT ![h] = opened]
  /\ UNCHANGED dangling

(* A program that is still running calls; it opens while handles last. *)
Calls == status = "running" /\ next <= MaxHandles + 1
Opens == status = "running" /\ next <= MaxHandles

-----------------------------------------------------------------------------
(* Memory. *)

(* The handle is returned whether or not calloc found the memory. *)
mem_alloc(n) ==
  \/ Calls /\ (n <= 0 \/ n > MaxSize) /\ Fails("mem_alloc")
  \/ /\ Opens
     /\ n \in 1 .. MaxSize
     /\ \/ dangling /\ Undefined("half")
        \/ ~dangling /\ EnsureFails("mem_alloc")
        \/ /\ ~dangling
           /\ TakeHandle
           /\ \E o \in {Object("heap", n)}
                         \cup (IF "calloc" \in Faults THEN {NoObject} ELSE {}) :
                EnterMem(next, o, n)
           /\ Answer("mem_alloc", next, NoOut)

(* n bytes of the program's own memory under a handle.  The C call records *)
(* any pointer and any size it is given; programs here give the true ones. *)
mem_map(n) ==
  /\ Opens
  /\ n \in 0 .. MaxSize
  /\ \/ dangling /\ Undefined("half")
     \/ ~dangling /\ EnsureFails("mem_map")
     \/ /\ ~dangling
        /\ TakeHandle
        /\ EnterMem(next, Object("mapped", n), n)
        /\ Answer("mem_map", next, NoOut)

Here(h)   == h \in 0 .. _dmc_mem_cap - 1
Holds(h)  == Here(h) /\ mem[h].what # "null"

(* A table that has moved away is read at its old place; the calls read it *)
(* only for a handle below _dmc_mem_cap.                                   *)
Touches(h) == Calls /\ dangling /\ Here(h) /\ Undefined("half")
Sound(h) == Calls /\ (dangling => ~Here(h))

Cleared(h) ==
  /\ mem'    = [mem EXCEPT ![h] = NoObject]
  /\ mem_sz' = [mem_sz EXCEPT ![h] = 0]
  /\ UNCHANGED <<next, dangling, files>>

(* free of what calloc did not return is undefined. *)
mem_free(h) ==
  \/ Touches(h)
  \/ Sound(h) /\ ~Holds(h) /\ Fails("mem_free")
  \/ /\ Sound(h) /\ Holds(h)
     /\ mem[h].what # "heap"
     /\ "misuse" \in Faults
     /\ Undefined("misuse")
  \/ /\ Sound(h) /\ Holds(h)
     /\ mem[h].what = "heap"
     /\ Cleared(h)
     /\ Answer("mem_free", 0, NoOut)

mem_unmap(h) ==
  \/ Touches(h)
  \/ Sound(h) /\ ~Here(h) /\ Fails("mem_unmap")
  \/ Sound(h) /\ Here(h) /\ Cleared(h) /\ Answer("mem_unmap", 0, NoOut)

mem_size(h) ==
  \/ Touches(h)
  \/ Sound(h) /\ ~Here(h) /\ Fails("mem_size")
  \/ Sound(h) /\ Here(h) /\ Says("mem_size", mem_sz[h])

InBounds(h, i) == Holds(h) /\ i >= 0 /\ i < mem_sz[h]

(* The bounds check passes; whether the byte is there is another matter. *)
mem_write(h, i, v) ==
  \/ Touches(h)
  \/ Sound(h) /\ ~InBounds(h, i) /\ Fails("mem_write")
  \/ /\ Sound(h) /\ InBounds(h, i)
     /\ IF i \in DOMAIN mem[h].data
        THEN /\ mem' = [mem EXCEPT ![h].data[i] = v]
             /\ UNCHANGED <<next, mem_sz, dangling, files>>
             /\ Answer("mem_write", 0, NoOut)
        ELSE Undefined("access")

mem_read(h, i) ==
  \/ Touches(h)
  \/ Sound(h) /\ ~InBounds(h, i) /\ Fails("mem_read")
  \/ /\ Sound(h) /\ InBounds(h, i)
     /\ IF i \in DOMAIN mem[h].data
        THEN Answer("mem_read", 0, mem[h].data[i]) /\ UNCHANGED tables
        ELSE Undefined("access")

-----------------------------------------------------------------------------
(* Files: ok says that both strings are there.                             *)

file_open(ok) ==
  \/ Calls /\ ~ok /\ Fails("file_open")
  \/ /\ Opens
     /\ ok
     /\ \/ dangling /\ Undefined("half")
        \/ ~dangling /\ EnsureFails("file_open")
        \/ /\ ~dangling
           /\ TakeHandle
           /\ \E opened \in BOOLEAN :
                /\ EnterFile(next, opened)
                /\ Answer("file_open", IF opened THEN next ELSE -1, NoOut)

IsOpen(h) == h \in 0 .. _dmc_files_cap - 1 /\ files[h]

(* file_read answers with the empty string where the others answer -1; the *)
(* bytes of a file are outside the model.                                  *)
file_transfer(call, h) ==
  \/ Calls /\ ~IsOpen(h) /\ Fails(call)
  \/ Calls /\ IsOpen(h) /\ \E code \in {0, -1} : Says(call, code)

file_close(h) ==
  \/ Calls /\ ~IsOpen(h) /\ Fails("file_close")
  \/ /\ Calls /\ IsOpen(h)
     /\ files' = [files EXCEPT ![h] = FALSE]
     /\ UNCHANGED <<next, mem, mem_sz, dangling>>
     /\ \E code \in {0, -1} : Answer("file_close", code, NoOut)

-----------------------------------------------------------------------------
(* Regexes: no call checks the handle, and regex_new does not make room.   *)

HasSlot(h) == Here(h) /\ ~dangling

regex_new ==
  \/ Calls /\ Fails("regex_new")
  \/ /\ Opens /\ HasSlot(next)
     /\ TakeHandle
     /\ mem'    = [mem EXCEPT ![next] = Object("regex", 0)]
     /\ mem_sz' = [mem_sz EXCEPT ![next] = 0]
     /\ UNCHANGED <<dangling, files>>
     /\ Answer("regex_new", next, NoOut)
  \/ /\ Opens /\ ~HasSlot(next)
     /\ "regex_first" \in Faults
     /\ Undefined("regex_first")

(* The program passes a handle of a regex, freed or not, unless it errs. *)
MayBeRegex(h) == HasSlot(h) /\ mem[h].what \in {"null", "regex"}

regex_match(h) ==
  \/ Calls /\ ~MayBeRegex(h) /\ "misuse" \in Faults /\ Undefined("misuse")
  \/ /\ Calls /\ MayBeRegex(h)
     /\ \E code \in IF Holds(h) THEN {0, 1} ELSE {0} : Says("regex_match", code)

regex_free(h) ==
  \/ Calls /\ ~MayBeRegex(h) /\ "misuse" \in Faults /\ Undefined("misuse")
  \/ Calls /\ MayBeRegex(h) /\ ~Holds(h) /\ Fails("regex_free")
  \/ /\ Calls /\ MayBeRegex(h) /\ Holds(h)
     /\ mem' = [mem EXCEPT ![h] = NoObject]
     /\ UNCHANGED <<next, mem_sz, dangling, files>>
     /\ Answer("regex_free", 0, NoOut)

-----------------------------------------------------------------------------
Handle == -1 .. MaxHandles + 1
Index  == -1 .. MaxSize

Next ==
  \/ \E n \in Sizes : mem_alloc(n) \/ mem_map(n)
  \/ \E ok \in BOOLEAN : file_open(ok)
  \/ regex_new
  \/ \E h \in Handle :
       \/ mem_free(h) \/ mem_unmap(h) \/ mem_size(h)
       \/ \E i \in Index : mem_read(h, i) \/ \E v \in Byte : mem_write(h, i, v)
       \/ file_transfer("file_read", h) \/ file_transfer("file_write", h)
       \/ file_close(h)
       \/ regex_match(h) \/ regex_free(h)

-----------------------------------------------------------------------------
Data    == UNION {[0 .. n - 1 -> Byte] : n \in 0 .. MaxSize}
Objects == [what : Whats, data : Data]

TypeOK ==
  /\ next \in 1 .. MaxHandles + 1
  /\ _dmc_mem_cap \in Nat /\ _dmc_files_cap \in Nat
  /\ mem \in [0 .. _dmc_mem_cap - 1 -> Objects]
  /\ mem_sz \in [0 .. _dmc_mem_cap - 1 -> 0 .. MaxSize]
  /\ files \in [0 .. _dmc_files_cap - 1 -> BOOLEAN]
  /\ dangling \in BOOLEAN
  /\ status \in {"running", "access"} \cup AllFaults

InMem(h)  == h \in DOMAIN mem /\ mem[h].what # "null"
InFile(h) == h \in DOMAIN files /\ files[h]

(* Freed twice, used after it was freed, never issued or out of range: no  *)
(* call that passes its checks touches a byte outside a live object; only  *)
(* the faults the code does not guard against make a program undefined.    *)
AccessesAreSound == status # "access"
=============================================================================
