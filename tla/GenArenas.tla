----------------------------- MODULE GenArenas -----------------------------
(***************************************************************************)
(* The arenas and SQLite connections of the emitted C runtime, together    *)
(* with the memory, file and regex calls of GenHandles: all five kinds     *)
(* draw their handles from _dmc_next.  The tables of arenas and databases  *)
(* have a fixed size and the handle is their index.  What an arena's bytes *)
(* hold is left out: malloc does not clear them, a read gives any byte.    *)
(***************************************************************************)
EXTENDS GenHandles

CONSTANTS
  FixedSlots,   \* entries of _dmc_arenas and _dmc_db, 1024 in the code
  MaxLong       \* the largest long long

ASSUME ArenasAssumption ==
  /\ FixedSlots \in Nat \ {0}
  /\ MaxLong \in Nat

VARIABLES
  arenas,   \* _dmc_arenas, _dmc_arena_sz, _dmc_arena_top: handle -> arena
  blocks,   \* handle -> what arena_alloc gave out since the last reset
  dbs       \* _dmc_db: handle -> is a connection there

fixed   == <<arenas, blocks, dbs>>
allVars == <<vars, fixed>>

(* room is what malloc gave, sz what the code remembers of it. *)
Fixed   == 0 .. FixedSlots - 1
NoArena == [there |-> FALSE, room |-> 0, sz |-> 0, top |-> 0]
Arena(cap) == [there |-> TRUE, room |-> cap, sz |-> cap, top |-> 0]

InitAll ==
  /\ Init
  /\ arenas = [h \in Fixed |-> NoArena]
  /\ blocks = [h \in Fixed |-> {}]
  /\ dbs    = [h \in Fixed |-> FALSE]

(* Nothing changes but the handle counter: the tables of GenHandles.       *)
OtherTables == UNCHANGED <<mem, mem_sz, dangling, files>>

FixedFails(call)      == Fails(call) /\ UNCHANGED fixed
FixedSays(call, code) == Says(call, code) /\ UNCHANGED fixed
FixedUndefined(why) ==
  /\ why \in Faults
  /\ Undefined(why)
  /\ UNCHANGED fixed

(* The handle is taken first and is an index after: nothing compares it    *)
(* with the size of the table.                                             *)
Takes(call, code) ==
  /\ next \in Fixed
  /\ TakeHandle
  /\ OtherTables
  /\ Answer(call, code, NoOut)

PastTable == Opens /\ next \notin Fixed /\ FixedUndefined("table")

-----------------------------------------------------------------------------
(* Arenas. *)

(* The handle is returned whether or not malloc found the memory. *)
arena_new(cap) ==
  \/ Calls /\ cap < 0 /\ FixedFails("arena_new")
  \/ cap >= 0 /\ PastTable
  \/ /\ Opens
     /\ cap >= 0
     /\ Takes("arena_new", next)
     /\ \E a \in {Arena(cap)}
                   \cup (IF "calloc" \in Faults
                         THEN {[NoArena EXCEPT !.sz = cap]} ELSE {}) :
          arenas' = [arenas EXCEPT ![next] = a]
     /\ blocks' = [blocks EXCEPT ![next] = {}]
     /\ UNCHANGED dbs

(* The other calls look the handle up unchecked. *)
OutOfTable(h) == Calls /\ h \notin Fixed /\ FixedUndefined("table")
IsArena(h)    == Calls /\ h \in Fixed /\ arenas[h].there
NotArena(h)   == Calls /\ h \in Fixed /\ ~arenas[h].there

ArenaBecomes(h, a) ==
  /\ arenas' = [arenas EXCEPT ![h] = a]
  /\ UNCHANGED <<tables, dbs>>

BugAllocFits(h, n) == n >= 0 /\ arenas[h].top <= arenas[h].sz

AllocFits(h, n) == n >= 0 /\ arenas[h].top + n <= arenas[h].sz

arena_alloc(h, n) ==
  \/ OutOfTable(h)
  \/ NotArena(h) /\ FixedFails("arena_alloc")
  \/ /\ IsArena(h)
     /\ arenas[h].top + n > MaxLong
     /\ FixedUndefined("overflow")
  \/ /\ IsArena(h)
     /\ arenas[h].top + n <= MaxLong
     /\ ~AllocFits(h, n)
     /\ FixedFails("arena_alloc")
  \/ /\ IsArena(h)
     /\ AllocFits(h, n)
     /\ ArenaBecomes(h, [arenas[h] EXCEPT !.top = @ + n])
     /\ blocks' = [blocks EXCEPT ![h] = @ \cup {[off |-> arenas[h].top, n |-> n]}]
     /\ Answer("arena_alloc", arenas[h].top, NoOut)

BugReaches(h, off, i) == off >= 0 /\ i >= 0 /\ off + i <= arenas[h].sz

(* off comes from arena_alloc or not: only the whole arena is checked. *)
Reaches(h, off, i) == off >= 0 /\ i >= 0 /\ off + i < arenas[h].sz

Misses(call, h, off, i) ==
  \/ OutOfTable(h)
  \/ NotArena(h) /\ FixedFails(call)
  \/ IsArena(h) /\ off + i > MaxLong /\ FixedUndefined("overflow")
  \/ IsArena(h) /\ off + i <= MaxLong /\ ~Reaches(h, off, i) /\ FixedFails(call)

(* The check passes; whether the byte is there is another matter. *)
Passes(h, off, i) == IsArena(h) /\ Reaches(h, off, i)
IsThere(h, off, i) == off + i < arenas[h].room

arena_write(h, off, i, v) ==
  \/ Misses("arena_write", h, off, i)
  \/ /\ Passes(h, off, i)
     /\ IF IsThere(h, off, i) THEN Says("arena_write", 0) ELSE Undefined("access")
     /\ UNCHANGED fixed

arena_read(h, off, i) ==
  \/ Misses("arena_read", h, off, i)
  \/ /\ Passes(h, off, i)
     /\ IF IsThere(h, off, i)
        THEN \E v \in Byte : Answer("arena_read", 0, v) /\ UNCHANGED tables
        ELSE Undefined("access")
     /\ UNCHANGED fixed

arena_reset(h) ==
  \/ OutOfTable(h)
  \/ NotArena(h) /\ FixedFails("arena_reset")
  \/ /\ IsArena(h)
     /\ ArenaBecomes(h, [arenas[h] EXCEPT !.top = 0])
     /\ blocks' = [blocks EXCEPT ![h] = {}]
     /\ Answer("arena_reset", 0, NoOut)

arena_top(h) ==
  \/ OutOfTable(h)
  \/ NotArena(h) /\ FixedFails("arena_top")
  \/ IsArena(h) /\ FixedSays("arena_top", arenas[h].top)

arena_free(h) ==
  \/ OutOfTable(h)
  \/ NotArena(h) /\ FixedFails("arena_free")
  \/ /\ IsArena(h)
     /\ ArenaBecomes(h, NoArena)
     /\ blocks' = [blocks EXCEPT ![h] = {}]
     /\ Answer("arena_free", 0, NoOut)

-----------------------------------------------------------------------------
(* Databases, in a build with DMC_SQLITE: opened says that the URL begins  *)
(* with sqlite:// and that SQLite opened the file.                         *)

db_connect(opened) ==
  \/ Calls /\ ~opened /\ FixedFails("db_connect")
  \/ opened /\ PastTable
  \/ /\ Opens
     /\ opened
     /\ Takes("db_connect", next)
     /\ dbs' = [dbs EXCEPT ![next] = TRUE]
     /\ UNCHANGED <<arenas, blocks>>

(* These two do check the handle. *)
Connected(h) == h > 0 /\ h < FixedSlots /\ dbs[h]

(* The rows are outside the model: 0 stands for the buffer with them. *)
db_query(h) ==
  Calls /\ FixedSays("db_query", IF Connected(h) THEN 0 ELSE -1)

db_close(h) ==
  \/ Calls /\ ~Connected(h) /\ FixedFails("db_close")
  \/ /\ Calls /\ Connected(h)
     /\ dbs' = [dbs EXCEPT ![h] = FALSE]
     /\ UNCHANGED <<tables, arenas, blocks>>
     /\ Answer("db_close", 0, NoOut)

-----------------------------------------------------------------------------
NextFixed ==
  \/ \E n \in Sizes : arena_new(n)
  \/ \E opened \in BOOLEAN : db_connect(opened)
  \/ \E h \in Handle :
       \/ \E n \in Sizes : arena_alloc(h, n)
       \/ \E off \in Sizes, i \in Index :
            \/ arena_read(h, off, i)
            \/ \E v \in Byte : arena_write(h, off, i, v)
       \/ arena_reset(h) \/ arena_top(h) \/ arena_free(h)
       \/ db_query(h) \/ db_close(h)

NextAll == (Next /\ UNCHANGED fixed) \/ NextFixed

SpecAll == InitAll /\ [][NextAll]_allVars

-----------------------------------------------------------------------------
(* Types of all tables. *)
TypeOKAll ==
  /\ TypeOK
  /\ arenas \in [Fixed -> [there : BOOLEAN, room : Nat, sz : Nat, top : Nat]]
  /\ \A h \in Fixed : arenas[h].top <= arenas[h].sz
  /\ blocks \in [Fixed -> SUBSET [off : Nat, n : Nat]]
  /\ dbs \in [Fixed -> BOOLEAN]

InArena(h) == h \in Fixed /\ arenas[h].there
InDb(h)    == h \in Fixed /\ dbs[h]

Owners(h) == {k \in {"mem", "file", "arena", "db"} :
                \/ k = "mem"   /\ InMem(h)
                \/ k = "file"  /\ InFile(h)
                \/ k = "arena" /\ InArena(h)
                \/ k = "db"    /\ InDb(h)}

(* No handle names two objects of different kinds, in whatever order the   *)
(* five kinds are opened and closed: a program that closes the wrong kind  *)
(* of thing gets -1 or, for memory and regexes, hits its own object.       *)
OneOwnerAll ==
  \A h \in 0 .. next : \A j, k \in Owners(h) : j = k

(* What arena_alloc gave out since the last arena_reset lies inside the    *)
(* arena, block beside block, and arena_top is where the last one ends.    *)
BlocksDisjoint ==
  \A h \in Fixed : \A b \in blocks[h] :
    /\ arenas[h].there
    /\ 0 <= b.off /\ b.off + b.n <= arenas[h].top
    /\ arenas[h].top <= arenas[h].sz
    /\ \A c \in blocks[h] :
         b = c \/ b.off + b.n <= c.off \/ c.off + c.n <= b.off

(* A handle whose object is gone is never given to another object of any   *)
(* kind: a stale handle fails, it does not reach a stranger's data.        *)
DeadHandleStaysDeadAll ==
  [][\A h \in 0 .. next - 1 : Owners(h) = {} => Owners(h)' = {}]_allVars
=============================================================================
