--------------------------- MODULE GenArenasProofs ---------------------------
(***************************************************************************)
(* Proofs about the five kinds of handles of the emitted runtime, for      *)
(* every table size, every limit and every set of faults.  A call is       *)
(* reduced to what it does to one table; the invariants are proved of      *)
(* that.                                                                   *)
(***************************************************************************)
EXTENDS GenArenas, FiniteSetTheorems, TLAPS

(* The sizes the checks compare with are those of what is there. *)
SizesAreTrue ==
  /\ \A h \in DOMAIN mem :
       mem[h].what # "null" => DOMAIN mem[h].data = 0 .. mem_sz[h] - 1
  /\ \A h \in Fixed : arenas[h].there => arenas[h].room = arenas[h].sz

(* Handles that were not issued name nothing. *)
NothingAhead == \A h \in Nat : h >= next => Owners(h) = {}

OneOwnerEach == \A h \in Nat : \A j, k \in Owners(h) : j = k

IInv ==
  /\ TypeOKAll
  /\ SizesAreTrue
  /\ AccessesAreSound
  /\ BlocksDisjoint
  /\ NothingAhead
  /\ OneOwnerEach

-----------------------------------------------------------------------------
(* Tables that grow. *)

(* A table has as many slots as its domain. *)
LEMMA CapIsCardinality ==
  ASSUME NEW n \in Nat
  PROVE  Cardinality(0 .. n - 1) = n
  BY FS_Interval

LEMMA NewCapFits ==
  ASSUME NEW cap \in Nat, NEW need \in Nat
  PROVE  /\ NewCap(cap, need) \in Nat
         /\ NewCap(cap, need) >= need
         /\ NewCap(cap, need) >= cap
  BY HandlesAssumption DEF NewCap

(* Growing keeps the old entries and fills up with empty ones. *)
LEMMA GrownIsTyped ==
  ASSUME NEW S, NEW old \in Nat, NEW cap \in Nat, cap >= old,
         NEW table \in [0 .. old - 1 -> S], NEW empty \in S
  PROVE  /\ Grown(table, cap, empty) \in [0 .. cap - 1 -> S]
         /\ \A h \in 0 .. old - 1 : Grown(table, cap, empty)[h] = table[h]
         /\ \A h \in old .. cap - 1 : Grown(table, cap, empty)[h] = empty
  BY DEF Grown

(* What both tables of _dmc_ensure are for the handle about to be issued. *)
LEMMA Caps ==
  ASSUME TypeOK
  PROVE  /\ next \in Nat
         /\ MemCapFor(next) \in Nat /\ MemCapFor(next) > next
         /\ MemCapFor(next) >= _dmc_mem_cap
         /\ FilesCapFor(next) \in Nat /\ FilesCapFor(next) > next
         /\ FilesCapFor(next) >= _dmc_files_cap
<1>1. next \in Nat /\ next + 1 \in Nat
  BY HandlesAssumption DEF TypeOK
<1>2. _dmc_mem_cap \in Nat /\ _dmc_files_cap \in Nat
  BY DEF TypeOK
<1>3. /\ NewCap(_dmc_mem_cap, next + 1) \in Nat
      /\ NewCap(_dmc_mem_cap, next + 1) >= next + 1
      /\ NewCap(_dmc_mem_cap, next + 1) >= _dmc_mem_cap
  BY <1>1, <1>2, NewCapFits
<1>4. /\ NewCap(_dmc_files_cap, next + 1) \in Nat
      /\ NewCap(_dmc_files_cap, next + 1) >= next + 1
      /\ NewCap(_dmc_files_cap, next + 1) >= _dmc_files_cap
  BY <1>1, <1>2, NewCapFits
<1> QED  BY <1>1, <1>3, <1>4 DEF MemCapFor, FilesCapFor

LEMMA ObjectIsTyped ==
  ASSUME NEW what \in Whats, NEW n \in 0 .. MaxSize
  PROVE  /\ Object(what, n) \in Objects
         /\ Object(what, n).what = what
         /\ DOMAIN Object(what, n).data = 0 .. n - 1
<1>1. [i \in 0 .. n - 1 |-> 0] \in Data
  BY HandlesAssumption DEF Data
<1> QED  BY <1>1 DEF Object, Objects

LEMMA NoObjectIsTyped ==
  NoObject \in Objects /\ NoObject.what = "null"
  BY ObjectIsTyped, HandlesAssumption DEF NoObject, Whats
-----------------------------------------------------------------------------
(* The calls of GenHandles: what each may do to its tables. *)

MemSizesAreTrue ==
  \A h \in DOMAIN mem :
    mem[h].what # "null" => DOMAIN mem[h].data = 0 .. mem_sz[h] - 1

HandlesInv == TypeOK /\ MemSizesAreTrue

(* Nothing, or one object under the handle that is issued. *)
NoneEnters == \A h \in Nat : (InMem(h)' => InMem(h)) /\ (InFile(h)' => InFile(h))

OneEnters ==
  /\ next' = next + 1
  /\ \/ \A h \in Nat : (InMem(h)' => InMem(h) \/ h = next) /\ (InFile(h)' => InFile(h))
     \/ \A h \in Nat : (InMem(h)' => InMem(h)) /\ (InFile(h)' => InFile(h) \/ h = next)

StillSound == status' \in {"running"} \cup AllFaults

GoodStep ==
  /\ HandlesInv'
  /\ next' \in {next, next + 1}
  /\ NoneEnters \/ OneEnters

(* The tables when they are typed: their capacities are what they seem.    *)
LEMMA CapsNext ==
  ASSUME NEW m \in Nat, NEW f \in Nat,
         mem' \in [0 .. m - 1 -> Objects],
         mem_sz' \in [0 .. m - 1 -> 0 .. MaxSize],
         files' \in [0 .. f - 1 -> BOOLEAN],
         next' \in 1 .. MaxHandles + 1,
         dangling' \in BOOLEAN,
         StillSound
  PROVE  TypeOK'
<1>1. _dmc_mem_cap' = m /\ _dmc_files_cap' = f
  BY CapIsCardinality DEF _dmc_mem_cap, _dmc_files_cap
<1> QED  BY <1>1 DEF TypeOK, StillSound

LEMMA SameTables ==
  ASSUME HandlesInv, StillSound, UNCHANGED tables
  PROVE  GoodStep
<1>1. HandlesInv'
  BY DEF HandlesInv, TypeOK, MemSizesAreTrue, tables, StillSound,
         _dmc_mem_cap, _dmc_files_cap
<1> QED  BY <1>1 DEF GoodStep, NoneEnters, InMem, InFile, tables

(* Both tables have grown, one of them has a new entry at the handle.      *)
LEMMA GrownTables ==
  ASSUME TypeOK
  PROVE  LET m == MemCapFor(next)
             f == FilesCapFor(next)
         IN  /\ Grown(mem, m, NoObject) \in [0 .. m - 1 -> Objects]
             /\ Grown(mem_sz, m, 0) \in [0 .. m - 1 -> 0 .. MaxSize]
             /\ Grown(files, f, FALSE) \in [0 .. f - 1 -> BOOLEAN]
             /\ \A h \in 0 .. m - 1 :
                  Grown(mem, m, NoObject)[h] =
                    IF h \in 0 .. _dmc_mem_cap - 1 THEN mem[h] ELSE NoObject
             /\ \A h \in 0 .. m - 1 :
                  Grown(mem_sz, m, 0)[h] =
                    IF h \in 0 .. _dmc_mem_cap - 1 THEN mem_sz[h] ELSE 0
             /\ \A h \in 0 .. f - 1 :
                  Grown(files, f, FALSE)[h] =
                    IF h \in 0 .. _dmc_files_cap - 1 THEN files[h] ELSE FALSE
<1>1. /\ mem \in [0 .. _dmc_mem_cap - 1 -> Objects]
      /\ mem_sz \in [0 .. _dmc_mem_cap - 1 -> 0 .. MaxSize]
      /\ files \in [0 .. _dmc_files_cap - 1 -> BOOLEAN]
  BY DEF TypeOK
<1>2. NoObject \in Objects /\ 0 \in 0 .. MaxSize
  BY NoObjectIsTyped, HandlesAssumption
<1> QED  BY <1>1, <1>2 DEF Grown

LEMMA EnterMemStep ==
  ASSUME HandlesInv, StillSound, TakeHandle, next <= MaxHandles,
         NEW n \in 0 .. MaxSize, NEW o \in Objects,
         o.what # "null" => DOMAIN o.data = 0 .. n - 1,
         EnterMem(next, o, n)
  PROVE  GoodStep
<1> DEFINE m == MemCapFor(next)
           f == FilesCapFor(next)
<1>1. /\ next \in Nat /\ next \in 1 .. MaxHandles + 1
      /\ m \in Nat /\ m > next /\ m >= _dmc_mem_cap
      /\ f \in Nat /\ f > next /\ f >= _dmc_files_cap
      /\ _dmc_mem_cap \in Nat /\ _dmc_files_cap \in Nat
  BY Caps DEF HandlesInv, TypeOK
<1>2. next' \in 1 .. MaxHandles + 1 /\ next' = next + 1
  BY <1>1, HandlesAssumption DEF TakeHandle
<1>3. /\ mem' \in [0 .. m - 1 -> Objects]
      /\ mem_sz' \in [0 .. m - 1 -> 0 .. MaxSize]
      /\ files' \in [0 .. f - 1 -> BOOLEAN]
      /\ dangling' \in BOOLEAN
  BY GrownTables DEF EnterMem, HandlesInv, TypeOK
<1>4. /\ mem'[next] = o /\ mem_sz'[next] = n
      /\ \A h \in 0 .. m - 1 : h # next =>
           /\ mem'[h] = IF h \in 0 .. _dmc_mem_cap - 1 THEN mem[h] ELSE NoObject
           /\ mem_sz'[h] = IF h \in 0 .. _dmc_mem_cap - 1 THEN mem_sz[h] ELSE 0
      /\ \A h \in 0 .. f - 1 :
           files'[h] = IF h \in 0 .. _dmc_files_cap - 1 THEN files[h] ELSE FALSE
  <2> DEFINE M == Grown(mem, m, NoObject)
             Z == Grown(mem_sz, m, 0)
  <2>1. /\ M \in [0 .. m - 1 -> Objects]
        /\ Z \in [0 .. m - 1 -> 0 .. MaxSize]
        /\ \A h \in 0 .. m - 1 :
             /\ M[h] = IF h \in 0 .. _dmc_mem_cap - 1 THEN mem[h] ELSE NoObject
             /\ Z[h] = IF h \in 0 .. _dmc_mem_cap - 1 THEN mem_sz[h] ELSE 0
        /\ \A h \in 0 .. f - 1 :
             Grown(files, f, FALSE)[h] =
               IF h \in 0 .. _dmc_files_cap - 1 THEN files[h] ELSE FALSE
    BY GrownTables DEF HandlesInv
  <2>2. /\ mem' = [M EXCEPT ![next] = o]
        /\ mem_sz' = [Z EXCEPT ![next] = n]
        /\ files' = Grown(files, f, FALSE)
    BY DEF EnterMem
  <2>3. next \in 0 .. m - 1
    BY <1>1
  <2> HIDE DEF M, Z
  <2> QED  BY <2>1, <2>2, <2>3
<1>5. TypeOK'
  BY <1>1, <1>2, <1>3, CapsNext
<1>6. DOMAIN mem = 0 .. _dmc_mem_cap - 1 /\ DOMAIN files = 0 .. _dmc_files_cap - 1
  BY DEF HandlesInv, TypeOK
<1>7. MemSizesAreTrue'
  BY <1>3, <1>4, <1>6, NoObjectIsTyped DEF HandlesInv, MemSizesAreTrue
<1>8. \A h \in Nat : (InMem(h)' => InMem(h) \/ h = next) /\ (InFile(h)' => InFile(h))
  BY <1>3, <1>4, <1>6, NoObjectIsTyped DEF InMem, InFile
<1> QED  BY <1>2, <1>5, <1>7, <1>8 DEF GoodStep, HandlesInv, OneEnters

LEMMA EnterFileStep ==
  ASSUME HandlesInv, StillSound, TakeHandle, next <= MaxHandles,
         NEW opened \in BOOLEAN, EnterFile(next, opened)
  PROVE  GoodStep
<1> DEFINE m == MemCapFor(next)
           f == FilesCapFor(next)
           F == Grown(files, f, FALSE)
<1>1. /\ next \in Nat /\ next \in 1 .. MaxHandles + 1
      /\ m \in Nat /\ m > next /\ m >= _dmc_mem_cap
      /\ f \in Nat /\ f > next /\ f >= _dmc_files_cap
      /\ _dmc_mem_cap \in Nat /\ _dmc_files_cap \in Nat
  BY Caps DEF HandlesInv, TypeOK
<1>2. next' \in 1 .. MaxHandles + 1 /\ next' = next + 1
  BY <1>1, HandlesAssumption DEF TakeHandle
<1>3. /\ mem' \in [0 .. m - 1 -> Objects]
      /\ mem_sz' \in [0 .. m - 1 -> 0 .. MaxSize]
      /\ dangling' \in BOOLEAN
      /\ F \in [0 .. f - 1 -> BOOLEAN]
      /\ files' = [F EXCEPT ![next] = opened]
      /\ \A h \in 0 .. f - 1 : F[h] = IF h \in 0 .. _dmc_files_cap - 1 THEN files[h] ELSE FALSE
      /\ \A h \in 0 .. m - 1 :
           /\ mem'[h] = IF h \in 0 .. _dmc_mem_cap - 1 THEN mem[h] ELSE NoObject
           /\ mem_sz'[h] = IF h \in 0 .. _dmc_mem_cap - 1 THEN mem_sz[h] ELSE 0
  BY GrownTables DEF EnterFile, HandlesInv, TypeOK
<1> HIDE DEF F
<1>4. /\ files' \in [0 .. f - 1 -> BOOLEAN]
      /\ \A h \in 0 .. f - 1 : h # next => files'[h] = F[h]
  BY <1>1, <1>3
<1>5. TypeOK'
  BY <1>1, <1>2, <1>3, <1>4, CapsNext
<1>6. DOMAIN mem = 0 .. _dmc_mem_cap - 1 /\ DOMAIN files = 0 .. _dmc_files_cap - 1
  BY DEF HandlesInv, TypeOK
<1>7. MemSizesAreTrue'
  BY <1>3, <1>6, NoObjectIsTyped DEF HandlesInv, MemSizesAreTrue
<1>8. \A h \in Nat : (InMem(h)' => InMem(h)) /\ (InFile(h)' => InFile(h) \/ h = next)
  BY <1>3, <1>4, <1>6, NoObjectIsTyped DEF InMem, InFile
<1> QED  BY <1>2, <1>5, <1>7, <1>8 DEF GoodStep, HandlesInv, OneEnters

LEMMA EnsureFailsStep ==
  ASSUME HandlesInv, status = "running", next <= MaxHandles,
         NEW call, EnsureFails(call)
  PROVE  GoodStep /\ StillSound
<1>1. next' = next + 1 /\ next' \in 1 .. MaxHandles + 1
  BY HandlesAssumption DEF EnsureFails, TakeHandle, HandlesInv, TypeOK
<1>2. StillSound
  BY DEF EnsureFails, Answer, StillSound
<1>3. CASE UNCHANGED <<mem, mem_sz, files>> /\ dangling' \in BOOLEAN
  <2>1. HandlesInv'
    BY <1>1, <1>2, <1>3 DEF HandlesInv, TypeOK, MemSizesAreTrue, StillSound,
       _dmc_mem_cap, _dmc_files_cap
  <2> QED  BY <1>1, <1>2, <1>3, <2>1 DEF GoodStep, NoneEnters, InMem, InFile
<1>4. CASE /\ mem'    = Grown(mem, MemCapFor(next), NoObject)
           /\ mem_sz' = Grown(mem_sz, MemCapFor(next), 0)
           /\ UNCHANGED <<files, dangling>>
  <2> DEFINE m == MemCapFor(next)
  <2>1. /\ m \in Nat /\ m >= _dmc_mem_cap
        /\ _dmc_mem_cap \in Nat /\ _dmc_files_cap \in Nat
    BY Caps DEF HandlesInv, TypeOK
  <2>2. /\ mem' \in [0 .. m - 1 -> Objects]
        /\ mem_sz' \in [0 .. m - 1 -> 0 .. MaxSize]
        /\ \A h \in 0 .. m - 1 :
             /\ mem'[h] = IF h \in 0 .. _dmc_mem_cap - 1 THEN mem[h] ELSE NoObject
             /\ mem_sz'[h] = IF h \in 0 .. _dmc_mem_cap - 1 THEN mem_sz[h] ELSE 0
    BY <1>4, GrownTables DEF HandlesInv
  <2>3. /\ files' \in [0 .. _dmc_files_cap - 1 -> BOOLEAN] /\ dangling' \in BOOLEAN
        /\ files' = files /\ DOMAIN mem = 0 .. _dmc_mem_cap - 1
    BY <1>4 DEF HandlesInv, TypeOK
  <2>4. TypeOK'
    BY <1>1, <1>2, <2>1, <2>2, <2>3, CapsNext
  <2>5. MemSizesAreTrue'
    BY <2>2, <2>3, NoObjectIsTyped DEF HandlesInv, MemSizesAreTrue
  <2>6. NoneEnters
    BY <2>2, <2>3, NoObjectIsTyped DEF NoneEnters, InMem, InFile
  <2> QED  BY <1>1, <1>2, <2>4, <2>5, <2>6 DEF GoodStep, HandlesInv
<1> QED  BY <1>3, <1>4 DEF EnsureFails, HandlesInv, TypeOK

(* A slot of the table of memory and regexes gets an object of size n, or  *)
(* becomes empty.                                                          *)
LEMMA SlotStep ==
  ASSUME HandlesInv, StillSound,
         NEW h \in 0 .. _dmc_mem_cap - 1, NEW n \in 0 .. MaxSize, NEW o \in Objects,
         o.what # "null" => DOMAIN o.data = 0 .. n - 1,
         mem' = [mem EXCEPT ![h] = o],
         mem_sz' = [mem_sz EXCEPT ![h] = n],
         UNCHANGED <<dangling, files>>,
         \/ next' = next /\ (o.what # "null" => InMem(h))
         \/ TakeHandle /\ next <= MaxHandles /\ h = next
  PROVE  GoodStep
<1>1. next' \in 1 .. MaxHandles + 1
  BY HandlesAssumption DEF TakeHandle, HandlesInv, TypeOK
<1>2. /\ mem \in [0 .. _dmc_mem_cap - 1 -> Objects]
      /\ mem_sz \in [0 .. _dmc_mem_cap - 1 -> 0 .. MaxSize]
      /\ _dmc_mem_cap \in Nat /\ _dmc_files_cap \in Nat
      /\ files' \in [0 .. _dmc_files_cap - 1 -> BOOLEAN] /\ dangling' \in BOOLEAN
  BY DEF HandlesInv, TypeOK
<1>3. /\ mem' \in [0 .. _dmc_mem_cap - 1 -> Objects]
      /\ mem_sz' \in [0 .. _dmc_mem_cap - 1 -> 0 .. MaxSize]
      /\ mem'[h] = o /\ mem_sz'[h] = n
      /\ \A g \in 0 .. _dmc_mem_cap - 1 : g # h => mem'[g] = mem[g] /\ mem_sz'[g] = mem_sz[g]
  BY <1>2
<1>4. TypeOK'
  BY <1>1, <1>2, <1>3, CapsNext
<1>5. MemSizesAreTrue'
  BY <1>2, <1>3 DEF HandlesInv, MemSizesAreTrue
<1>6. \A g \in Nat : (InMem(g)' => InMem(g) \/ g = h) /\ InFile(g)' = InFile(g)
  BY <1>2, <1>3 DEF InMem, InFile
<1>7. InMem(h)' => o.what # "null"
  BY <1>3 DEF InMem
<1> QED  BY <1>4, <1>5, <1>6, <1>7 DEF GoodStep, HandlesInv, NoneEnters, OneEnters, TakeHandle

(* A byte is written where there is one. *)
LEMMA WriteStep ==
  ASSUME HandlesInv, StillSound,
         NEW h \in 0 .. _dmc_mem_cap - 1, InMem(h),
         NEW i \in DOMAIN mem[h].data, NEW v \in Byte,
         mem' = [mem EXCEPT ![h].data[i] = v],
         UNCHANGED <<next, mem_sz, dangling, files>>
  PROVE  GoodStep
<1> DEFINE n == mem_sz[h]
           d == [mem[h].data EXCEPT ![i] = v]
           o == [what |-> mem[h].what, data |-> d]
<1>1. /\ mem \in [0 .. _dmc_mem_cap - 1 -> Objects]
      /\ mem_sz \in [0 .. _dmc_mem_cap - 1 -> 0 .. MaxSize]
  BY DEF HandlesInv, TypeOK
<1>2. mem[h] \in Objects /\ n \in 0 .. MaxSize
  BY <1>1
<1>3. DOMAIN mem[h].data = 0 .. n - 1
  BY <1>1 DEF HandlesInv, MemSizesAreTrue, InMem
<1>4. d \in Data /\ DOMAIN d = DOMAIN mem[h].data
  <2>1. PICK k \in 0 .. MaxSize : mem[h].data \in [0 .. k - 1 -> Byte]
    BY <1>2 DEF Objects, Data
  <2>2. d \in [0 .. k - 1 -> Byte]
    BY <2>1
  <2> QED  BY <2>1, <2>2 DEF Data
<1>5. o \in Objects
  BY <1>2, <1>4 DEF Objects
<1>6. [mem[h] EXCEPT !.data = d] = o
  BY <1>2 DEF Objects
<1>7. mem' = [mem EXCEPT ![h] = o]
  BY <1>6
<1>8. mem_sz' = [mem_sz EXCEPT ![h] = n]
  BY <1>1
<1>9. DOMAIN o.data = 0 .. n - 1
  BY <1>3, <1>4
<1> HIDE DEF o, n
<1> QED  BY <1>2, <1>5, <1>7, <1>8, <1>9, SlotStep DEF n

LEMMA FileCloseStep ==
  ASSUME HandlesInv, StillSound,
         NEW h \in 0 .. _dmc_files_cap - 1,
         files' = [files EXCEPT ![h] = FALSE],
         UNCHANGED <<next, mem, mem_sz, dangling>>
  PROVE  GoodStep
<1>1. files' \in [0 .. _dmc_files_cap - 1 -> BOOLEAN]
  BY DEF HandlesInv, TypeOK
<1>2. TypeOK'
  BY <1>1, CapsNext DEF HandlesInv, TypeOK
<1>3. MemSizesAreTrue'
  BY DEF HandlesInv, MemSizesAreTrue
<1>4. NoneEnters
  BY <1>1 DEF NoneEnters, InMem, InFile, HandlesInv, TypeOK
<1> QED  BY <1>2, <1>3, <1>4 DEF GoodStep, HandlesInv

-----------------------------------------------------------------------------
(* The calls, one by one. *)

LEMMA OnlySays ==
  ASSUME HandlesInv, status = "running", NEW call, NEW code, Says(call, code)
  PROVE  GoodStep /\ StillSound
  BY SameTables DEF Says, Answer, StillSound

LEMMA BecomesUndefined ==
  ASSUME HandlesInv, NEW why \in AllFaults, Undefined(why)
  PROVE  GoodStep /\ StillSound
  BY SameTables DEF Undefined, StillSound

LEMMA EmptyIsTyped == 0 \in 0 .. MaxSize /\ {"half", "misuse", "regex_first"} \subseteq AllFaults
  BY HandlesAssumption DEF AllFaults

LEMMA MemAllocStep ==
  ASSUME HandlesInv, NEW n \in Sizes, mem_alloc(n)
  PROVE  GoodStep /\ StillSound
<1>1. CASE Fails("mem_alloc") /\ Calls
  BY <1>1, OnlySays DEF Fails, Calls
<1>2. CASE Undefined("half")
  BY <1>2, BecomesUndefined, EmptyIsTyped
<1>3. CASE Opens /\ EnsureFails("mem_alloc")
  BY <1>3, EnsureFailsStep DEF Opens
<1>4. ASSUME Opens, n \in 1 .. MaxSize, TakeHandle,
             NEW o \in {Object("heap", n), NoObject}, EnterMem(next, o, n),
             Answer("mem_alloc", next, NoOut)
      PROVE  GoodStep /\ StillSound
  <2>1. n \in 0 .. MaxSize
    BY <1>4, HandlesAssumption
  <2>2. o \in Objects /\ (o.what # "null" => DOMAIN o.data = 0 .. n - 1)
    BY <1>4, <2>1, ObjectIsTyped, NoObjectIsTyped DEF Whats
  <2>3. StillSound
    BY <1>4 DEF Opens, Answer, StillSound
  <2> QED  BY <1>4, <2>1, <2>2, <2>3, EnterMemStep DEF Opens
<1> QED  BY <1>1, <1>2, <1>3, <1>4 DEF mem_alloc

LEMMA MemMapStep ==
  ASSUME HandlesInv, NEW n \in Sizes, mem_map(n)
  PROVE  GoodStep /\ StillSound
<1>1. CASE Undefined("half")
  BY <1>1, BecomesUndefined, EmptyIsTyped
<1>2. CASE Opens /\ EnsureFails("mem_map")
  BY <1>2, EnsureFailsStep DEF Opens
<1>3. ASSUME Opens, n \in 0 .. MaxSize, TakeHandle,
             EnterMem(next, Object("mapped", n), n), Answer("mem_map", next, NoOut)
      PROVE  GoodStep /\ StillSound
  <2>1. StillSound
    BY <1>3 DEF Opens, Answer, StillSound
  <2>2. /\ Object("mapped", n) \in Objects
        /\ DOMAIN Object("mapped", n).data = 0 .. n - 1
    BY <1>3, ObjectIsTyped DEF Whats
  <2> QED  BY <1>3, <2>1, <2>2, EnterMemStep DEF Opens
<1> QED  BY <1>1, <1>2, <1>3 DEF mem_map

LEMMA ClearedStep ==
  ASSUME HandlesInv, status = "running", NEW h, Here(h),
         NEW n \in 0 .. MaxSize,
         mem' = [mem EXCEPT ![h] = NoObject],
         mem_sz' = [mem_sz EXCEPT ![h] = n],
         UNCHANGED <<next, dangling, files, status>>
  PROVE  GoodStep /\ StillSound
<1>1. StillSound
  BY DEF StillSound
<1> QED  BY <1>1, SlotStep, NoObjectIsTyped DEF Here

LEMMA TouchesStep ==
  ASSUME HandlesInv, NEW h, Touches(h)
  PROVE  GoodStep /\ StillSound
  BY BecomesUndefined, EmptyIsTyped DEF Touches

LEMMA MemFreeStep ==
  ASSUME HandlesInv, NEW h \in Handle, mem_free(h)
  PROVE  GoodStep /\ StillSound
<1>1. CASE Touches(h)
  BY <1>1, TouchesStep
<1>2. CASE Calls /\ Fails("mem_free")
  BY <1>2, OnlySays DEF Calls, Fails
<1>3. CASE Undefined("misuse")
  BY <1>3, BecomesUndefined, EmptyIsTyped
<1>4. CASE Calls /\ Holds(h) /\ Cleared(h) /\ Answer("mem_free", 0, NoOut)
  BY <1>4, ClearedStep, EmptyIsTyped DEF Calls, Holds, Cleared, Answer
<1> QED  BY <1>1, <1>2, <1>3, <1>4 DEF mem_free, Sound

LEMMA MemUnmapStep ==
  ASSUME HandlesInv, NEW h \in Handle, mem_unmap(h)
  PROVE  GoodStep /\ StillSound
<1>1. CASE Touches(h)
  BY <1>1, TouchesStep
<1>2. CASE Calls /\ Fails("mem_unmap")
  BY <1>2, OnlySays DEF Calls, Fails
<1>3. CASE Calls /\ Here(h) /\ Cleared(h) /\ Answer("mem_unmap", 0, NoOut)
  BY <1>3, ClearedStep, EmptyIsTyped DEF Calls, Cleared, Answer
<1> QED  BY <1>1, <1>2, <1>3 DEF mem_unmap, Sound

LEMMA MemSizeStep ==
  ASSUME HandlesInv, NEW h \in Handle, mem_size(h)
  PROVE  GoodStep /\ StillSound
<1>1. CASE Touches(h)
  BY <1>1, TouchesStep
<1>2. CASE Calls /\ (Fails("mem_size") \/ Says("mem_size", mem_sz[h]))
  BY <1>2, OnlySays DEF Calls, Fails
<1> QED  BY <1>1, <1>2 DEF mem_size, Sound

(* A checked index is one of the object's bytes: an unsound access is      *)
(* never reached.                                                          *)
LEMMA InBoundsIsThere ==
  ASSUME HandlesInv, NEW h \in Handle, NEW i \in Index, InBounds(h, i)
  PROVE  i \in DOMAIN mem[h].data /\ InMem(h) /\ h \in 0 .. _dmc_mem_cap - 1
<1>1. h \in DOMAIN mem /\ mem_sz[h] \in 0 .. MaxSize
  BY DEF InBounds, Holds, Here, HandlesInv, TypeOK
<1>2. i \in Int
  BY HandlesAssumption DEF Index
<1> QED  BY <1>1, <1>2, HandlesAssumption DEF InBounds, Holds, Here, HandlesInv, MemSizesAreTrue, InMem

LEMMA MemReadStep ==
  ASSUME HandlesInv, NEW h \in Handle, NEW i \in Index, mem_read(h, i)
  PROVE  GoodStep /\ StillSound
<1>1. CASE Touches(h)
  BY <1>1, TouchesStep
<1>2. CASE Calls /\ Fails("mem_read")
  BY <1>2, OnlySays DEF Calls, Fails
<1>3. ASSUME Calls, InBounds(h, i),
             IF i \in DOMAIN mem[h].data
             THEN Answer("mem_read", 0, mem[h].data[i]) /\ UNCHANGED tables
             ELSE Undefined("access")
      PROVE  GoodStep /\ StillSound
  <2>1. Answer("mem_read", 0, mem[h].data[i]) /\ UNCHANGED tables
    BY <1>3, InBoundsIsThere
  <2>2. StillSound
    BY <1>3, <2>1 DEF Calls, Answer, StillSound
  <2> QED  BY <2>1, <2>2, SameTables
<1> QED  BY <1>1, <1>2, <1>3 DEF mem_read, Sound

LEMMA MemWriteStep ==
  ASSUME HandlesInv, NEW h \in Handle, NEW i \in Index, NEW v \in Byte, mem_write(h, i, v)
  PROVE  GoodStep /\ StillSound
<1>1. CASE Touches(h)
  BY <1>1, TouchesStep
<1>2. CASE Calls /\ Fails("mem_write")
  BY <1>2, OnlySays DEF Calls, Fails
<1>3. ASSUME Calls, InBounds(h, i),
             IF i \in DOMAIN mem[h].data
             THEN /\ mem' = [mem EXCEPT ![h].data[i] = v]
                  /\ UNCHANGED <<next, mem_sz, dangling, files>>
                  /\ Answer("mem_write", 0, NoOut)
             ELSE Undefined("access")
      PROVE  GoodStep /\ StillSound
  <2>1. i \in DOMAIN mem[h].data /\ InMem(h) /\ h \in 0 .. _dmc_mem_cap - 1
    BY <1>3, InBoundsIsThere
  <2>2. StillSound
    BY <1>3, <2>1 DEF Calls, Answer, StillSound
  <2> QED  BY <1>3, <2>1, <2>2, WriteStep
<1> QED  BY <1>1, <1>2, <1>3 DEF mem_write, Sound

LEMMA FileOpenStep ==
  ASSUME HandlesInv, NEW ok \in BOOLEAN, file_open(ok)
  PROVE  GoodStep /\ StillSound
<1>1. CASE Calls /\ Fails("file_open")
  BY <1>1, OnlySays DEF Calls, Fails
<1>2. CASE Undefined("half")
  BY <1>2, BecomesUndefined, EmptyIsTyped
<1>3. CASE Opens /\ EnsureFails("file_open")
  BY <1>3, EnsureFailsStep DEF Opens
<1>4. ASSUME Opens, TakeHandle, NEW opened \in BOOLEAN, EnterFile(next, opened),
             UNCHANGED status
      PROVE  GoodStep /\ StillSound
  <2>1. StillSound
    BY <1>4 DEF Opens, StillSound
  <2> QED  BY <1>4, <2>1, EnterFileStep DEF Opens
<1> QED  BY <1>1, <1>2, <1>3, <1>4 DEF file_open, Answer

LEMMA FileTransferStep ==
  ASSUME HandlesInv, NEW h \in Handle, NEW call, file_transfer(call, h)
  PROVE  GoodStep /\ StillSound
  BY OnlySays DEF file_transfer, Calls, Fails

LEMMA FileCallStep ==
  ASSUME HandlesInv, NEW h \in Handle, file_close(h)
  PROVE  GoodStep /\ StillSound
<1>1. CASE Calls /\ Fails("file_close")
  BY <1>1, OnlySays DEF Calls, Fails
<1>2. ASSUME Calls, IsOpen(h), files' = [files EXCEPT ![h] = FALSE],
             UNCHANGED <<next, mem, mem_sz, dangling>>, UNCHANGED status
      PROVE  GoodStep /\ StillSound
  <2>1. StillSound
    BY <1>2 DEF Calls, StillSound
  <2> QED  BY <1>2, <2>1, FileCloseStep DEF IsOpen
<1> QED  BY <1>1, <1>2 DEF file_close, Answer

LEMMA RegexNewStep ==
  ASSUME HandlesInv, regex_new
  PROVE  GoodStep /\ StillSound
<1>1. CASE Calls /\ Fails("regex_new")
  BY <1>1, OnlySays DEF Calls, Fails
<1>2. CASE Undefined("regex_first")
  BY <1>2, BecomesUndefined, EmptyIsTyped
<1>3. ASSUME Opens, HasSlot(next), TakeHandle,
             mem' = [mem EXCEPT ![next] = Object("regex", 0)],
             mem_sz' = [mem_sz EXCEPT ![next] = 0],
             UNCHANGED <<dangling, files>>, UNCHANGED status
      PROVE  GoodStep /\ StillSound
  <2>1. StillSound
    BY <1>3 DEF Opens, StillSound
  <2>2. Object("regex", 0) \in Objects /\ DOMAIN Object("regex", 0).data = 0 .. 0 - 1
    BY ObjectIsTyped, EmptyIsTyped DEF Whats
  <2> QED  BY <1>3, <2>1, <2>2, EmptyIsTyped, SlotStep DEF Opens, HasSlot, Here
<1> QED  BY <1>1, <1>2, <1>3 DEF regex_new, Answer

LEMMA RegexMatchStep ==
  ASSUME HandlesInv, NEW h \in Handle, regex_match(h)
  PROVE  GoodStep /\ StillSound
<1>1. CASE Undefined("misuse")
  BY <1>1, BecomesUndefined, EmptyIsTyped
<1>2. ASSUME Calls, NEW code, Says("regex_match", code)
      PROVE  GoodStep /\ StillSound
  BY <1>2, OnlySays DEF Calls
<1> QED  BY <1>1, <1>2 DEF regex_match

(* regex_free leaves the size as it is: it was zero. *)
LEMMA RegexFreeStep ==
  ASSUME HandlesInv, NEW h \in Handle, regex_free(h)
  PROVE  GoodStep /\ StillSound
<1>1. CASE Undefined("misuse")
  BY <1>1, BecomesUndefined, EmptyIsTyped
<1>2. CASE Calls /\ Fails("regex_free")
  BY <1>2, OnlySays DEF Calls, Fails
<1>3. ASSUME Calls, MayBeRegex(h), mem' = [mem EXCEPT ![h] = NoObject],
             UNCHANGED <<next, mem_sz, dangling, files>>, UNCHANGED status
      PROVE  GoodStep /\ StillSound
  <2>1. Here(h) /\ mem_sz[h] \in 0 .. MaxSize /\ mem_sz' = [mem_sz EXCEPT ![h] = mem_sz[h]]
    BY <1>3 DEF MayBeRegex, HasSlot, Here, HandlesInv, TypeOK
  <2> QED  BY <1>3, <2>1, ClearedStep DEF Calls
<1> QED  BY <1>1, <1>2, <1>3 DEF regex_free, Answer

(* Every call of GenHandles does to its tables what was said above. *)
LEMMA HandlesStep ==
  ASSUME HandlesInv, Next
  PROVE  GoodStep /\ StillSound
<1>1. ASSUME NEW n \in Sizes, mem_alloc(n) \/ mem_map(n)
      PROVE  GoodStep /\ StillSound
  BY <1>1, MemAllocStep, MemMapStep
<1>2. ASSUME NEW ok \in BOOLEAN, file_open(ok)
      PROVE  GoodStep /\ StillSound
  BY <1>2, FileOpenStep
<1>3. CASE regex_new
  BY <1>3, RegexNewStep
<1>4. ASSUME NEW h \in Handle,
             \/ mem_free(h) \/ mem_unmap(h) \/ mem_size(h)
             \/ file_transfer("file_read", h) \/ file_transfer("file_write", h)
             \/ file_close(h) \/ regex_match(h) \/ regex_free(h)
      PROVE  GoodStep /\ StillSound
  BY <1>4, MemFreeStep, MemUnmapStep, MemSizeStep, FileTransferStep, FileCallStep,
     RegexMatchStep, RegexFreeStep
<1>5. ASSUME NEW h \in Handle, NEW i \in Index,
             mem_read(h, i) \/ \E v \in Byte : mem_write(h, i, v)
      PROVE  GoodStep /\ StillSound
  BY <1>5, MemReadStep, MemWriteStep
<1> QED  BY <1>1, <1>2, <1>3, <1>4, <1>5 DEF Next

-----------------------------------------------------------------------------
(* Arenas and databases. *)

FixedInv ==
  /\ arenas \in [Fixed -> [there : BOOLEAN, room : Nat, sz : Nat, top : Nat]]
  /\ \A h \in Fixed : arenas[h].top <= arenas[h].sz
  /\ blocks \in [Fixed -> SUBSET [off : Nat, n : Nat]]
  /\ dbs \in [Fixed -> BOOLEAN]
  /\ \A h \in Fixed : arenas[h].there => arenas[h].room = arenas[h].sz
  /\ BlocksDisjoint

NoneEntersFixed ==
  \A h \in Nat : (InArena(h)' => InArena(h)) /\ (InDb(h)' => InDb(h))

(* One handle more, and only in one of the two fixed tables.               *)
OneEntersFixed ==
  /\ next' = next + 1
  /\ \/ \A h \in Nat : (InArena(h)' => InArena(h) \/ h = next) /\ (InDb(h)' => InDb(h))
     \/ \A h \in Nat : (InArena(h)' => InArena(h)) /\ (InDb(h)' => InDb(h) \/ h = next)

(* A call of this module leaves the tables of GenHandles alone, but for    *)
(* the counter.                                                            *)
FixedStep ==
  /\ FixedInv'
  /\ UNCHANGED <<mem, mem_sz, dangling, files>>
  /\ StillSound
  /\ \/ next' = next /\ NoneEntersFixed
     \/ next <= MaxHandles /\ OneEntersFixed

LEMMA FixedSame ==
  ASSUME FixedInv, UNCHANGED fixed
  PROVE  FixedInv' /\ NoneEntersFixed
  BY DEF FixedInv, fixed, BlocksDisjoint, NoneEntersFixed, InArena, InDb

LEMMA FixedOnlySays ==
  ASSUME FixedInv, status = "running", NEW call, NEW code, FixedSays(call, code)
  PROVE  FixedStep
  BY FixedSame DEF FixedSays, Says, Answer, tables, FixedStep, StillSound

LEMMA FixedBecomesUndefined ==
  ASSUME FixedInv, NEW why, FixedUndefined(why)
  PROVE  FixedStep
  BY FixedSame, HandlesAssumption DEF FixedUndefined, Undefined, tables, FixedStep, StillSound

(* The arena under a handle is replaced, its blocks with it. *)
LEMMA ArenaBecomesStep ==
  ASSUME FixedInv, NEW h \in Fixed,
         NEW a \in [there : BOOLEAN, room : Nat, sz : Nat, top : Nat],
         NEW B \in SUBSET [off : Nat, n : Nat],
         arenas' = [arenas EXCEPT ![h] = a],
         blocks' = [blocks EXCEPT ![h] = B],
         UNCHANGED dbs,
         a.top <= a.sz,
         a.there => a.room = a.sz,
         \A b \in B : /\ a.there
                      /\ b.off + b.n <= a.top
                      /\ \A c \in B : b = c \/ b.off + b.n <= c.off \/ c.off + c.n <= b.off
  PROVE  /\ FixedInv'
         /\ \A g \in Nat : (InArena(g)' => InArena(g) \/ (g = h /\ a.there)) /\ InDb(g)' = InDb(g)
<1>1. /\ arenas' \in [Fixed -> [there : BOOLEAN, room : Nat, sz : Nat, top : Nat]]
      /\ blocks' \in [Fixed -> SUBSET [off : Nat, n : Nat]]
      /\ dbs' \in [Fixed -> BOOLEAN]
      /\ arenas'[h] = a /\ blocks'[h] = B
      /\ \A g \in Fixed : g # h => arenas'[g] = arenas[g] /\ blocks'[g] = blocks[g]
  BY DEF FixedInv
<1>2. \A g \in Fixed : arenas'[g].top <= arenas'[g].sz
  BY <1>1 DEF FixedInv
<1>3. \A g \in Fixed : arenas'[g].there => arenas'[g].room = arenas'[g].sz
  BY <1>1 DEF FixedInv
<1>4. BlocksDisjoint'
  <2> SUFFICES ASSUME NEW g \in Fixed, NEW b \in blocks'[g]
               PROVE  /\ arenas'[g].there
                      /\ 0 <= b.off /\ b.off + b.n <= arenas'[g].top
                      /\ arenas'[g].top <= arenas'[g].sz
                      /\ \A c \in blocks'[g] :
                           b = c \/ b.off + b.n <= c.off \/ c.off + c.n <= b.off
    BY DEF BlocksDisjoint
  <2>1. CASE g = h
    BY <1>1, <1>2, <2>1
  <2>2. CASE g # h
    BY <1>1, <2>2 DEF FixedInv, BlocksDisjoint
  <2> QED  BY <2>1, <2>2
<1>5. \A g \in Nat : (InArena(g)' => InArena(g) \/ (g = h /\ a.there)) /\ InDb(g)' = InDb(g)
  BY <1>1 DEF InArena, InDb
<1> QED  BY <1>1, <1>2, <1>3, <1>4, <1>5 DEF FixedInv

Arenas == [there : BOOLEAN, room : Nat, sz : Nat, top : Nat]

(* What is left of an arena when its top moves. *)
LEMMA TopMoves ==
  ASSUME NEW r \in Arenas, NEW n \in Nat
  PROVE  /\ [r EXCEPT !.top = n] \in Arenas
         /\ [r EXCEPT !.top = n].there = r.there
         /\ [r EXCEPT !.top = n].room = r.room
         /\ [r EXCEPT !.top = n].sz = r.sz
         /\ [r EXCEPT !.top = n].top = n
<1>1. PICK t \in BOOLEAN, m \in Nat, s \in Nat, p \in Nat :
        r = [there |-> t, room |-> m, sz |-> s, top |-> p]
  BY DEF Arenas
<1>2. [r EXCEPT !.top = n] = [there |-> t, room |-> m, sz |-> s, top |-> n]
  BY <1>1
<1> QED  BY <1>1, <1>2 DEF Arenas

(* malloc has found the memory or not. *)
LEMMA NewArenas ==
  ASSUME NEW cap \in Nat, NEW a \in {Arena(cap), [NoArena EXCEPT !.sz = cap], NoArena}
  PROVE  a \in Arenas /\ a.top <= a.sz /\ (a.there => a.room = a.sz)
<1>1. CASE a = Arena(cap)
  BY <1>1 DEF Arena, Arenas
<1>2. CASE a = [NoArena EXCEPT !.sz = cap]
  <2>1. a = [there |-> FALSE, room |-> 0, sz |-> cap, top |-> 0]
    BY <1>2 DEF NoArena
  <2> QED  BY <2>1 DEF Arenas
<1>3. CASE a = NoArena
  BY <1>3 DEF NoArena, Arenas
<1> QED  BY <1>1, <1>2, <1>3

(* The same when the arena has given out nothing. *)
LEMMA ArenaEmptiedStep ==
  ASSUME FixedInv, NEW h \in Fixed, NEW a \in Arenas,
         arenas' = [arenas EXCEPT ![h] = a],
         blocks' = [blocks EXCEPT ![h] = {}],
         UNCHANGED dbs,
         a.top <= a.sz,
         a.there => a.room = a.sz
  PROVE  /\ FixedInv'
         /\ \A g \in Nat : (InArena(g)' => InArena(g) \/ g = h) /\ InDb(g)' = InDb(g)
<1> DEFINE B == {}
<1>1. B \in SUBSET [off : Nat, n : Nat] /\ blocks' = [blocks EXCEPT ![h] = B]
  OBVIOUS
<1>2. \A b \in B : /\ a.there
                  /\ b.off + b.n <= a.top
                  /\ \A c \in B : b = c \/ b.off + b.n <= c.off \/ c.off + c.n <= b.off
  OBVIOUS
<1> HIDE DEF B
<1>3. /\ FixedInv'
      /\ \A g \in Nat : (InArena(g)' => InArena(g) \/ (g = h /\ a.there)) /\ InDb(g)' = InDb(g)
  BY <1>1, <1>2, ArenaBecomesStep DEF Arenas
<1> QED  BY <1>3

LEMMA ArenaNewStep ==
  ASSUME FixedInv, TypeOK, NEW cap \in Sizes, arena_new(cap)
  PROVE  FixedStep
<1>1. CASE Calls /\ FixedFails("arena_new")
  BY <1>1, FixedOnlySays DEF Calls, FixedFails, FixedSays, Fails
<1>2. CASE PastTable
  BY <1>2, FixedBecomesUndefined DEF PastTable
<1>3. ASSUME Opens, cap >= 0, Takes("arena_new", next),
             NEW a \in {Arena(cap), [NoArena EXCEPT !.sz = cap]},
             arenas' = [arenas EXCEPT ![next] = a],
             blocks' = [blocks EXCEPT ![next] = {}],
             UNCHANGED dbs
      PROVE  FixedStep
  <2>1. cap \in Nat
    BY <1>3, HandlesAssumption
  <2>2. a \in Arenas /\ a.top <= a.sz /\ (a.there => a.room = a.sz)
    BY <1>3, <2>1, NewArenas
  <2>3. /\ FixedInv'
        /\ \A g \in Nat : (InArena(g)' => InArena(g) \/ g = next) /\ InDb(g)' = InDb(g)
    <3>1. next \in Fixed
      BY <1>3 DEF Takes
    <3> QED  BY <1>3, <2>2, <3>1, ArenaEmptiedStep
  <2>4. StillSound /\ next' = next + 1 /\ UNCHANGED <<mem, mem_sz, dangling, files>>
    BY <1>3 DEF Takes, TakeHandle, OtherTables, Answer, Opens, StillSound
  <2> QED  BY <1>3, <2>3, <2>4 DEF FixedStep, OneEntersFixed, Opens
<1> QED  BY <1>1, <1>2, <1>3 DEF arena_new

LEMMA OutOfTableStep ==
  ASSUME FixedInv, NEW h, OutOfTable(h)
  PROVE  FixedStep
  BY FixedBecomesUndefined DEF OutOfTable

LEMMA NotArenaStep ==
  ASSUME FixedInv, NEW h, NEW call, NotArena(h), FixedFails(call)
  PROVE  FixedStep
  BY FixedOnlySays DEF NotArena, Calls, FixedFails, FixedSays, Fails

(* An arena that is there is changed by a call that answers. *)
LEMMA ArenaChanges ==
  ASSUME FixedInv, NEW h, IsArena(h), NEW a \in Arenas, NEW B \in SUBSET [off : Nat, n : Nat],
         ArenaBecomes(h, a), blocks' = [blocks EXCEPT ![h] = B], UNCHANGED status,
         a.top <= a.sz,
         a.there => a.room = a.sz,
         \A b \in B : /\ a.there
                      /\ b.off + b.n <= a.top
                      /\ \A c \in B : b = c \/ b.off + b.n <= c.off \/ c.off + c.n <= b.off
  PROVE  FixedStep
<1>1. h \in Fixed /\ InArena(h) /\ StillSound
  BY DEF IsArena, InArena, Calls, StillSound
<1>2. /\ FixedInv'
      /\ \A g \in Nat : (InArena(g)' => InArena(g) \/ (g = h /\ a.there)) /\ InDb(g)' = InDb(g)
  BY <1>1, ArenaBecomesStep DEF ArenaBecomes, Arenas
<1> QED  BY <1>1, <1>2 DEF FixedStep, NoneEntersFixed, ArenaBecomes, tables

LEMMA ArenaAllocStep ==
  ASSUME FixedInv, NEW h \in Handle, NEW n \in Sizes, arena_alloc(h, n)
  PROVE  FixedStep
<1>1. CASE OutOfTable(h)
  BY <1>1, OutOfTableStep
<1>2. CASE NotArena(h) /\ FixedFails("arena_alloc")
  BY <1>2, NotArenaStep
<1>3. CASE FixedUndefined("overflow")
  BY <1>3, FixedBecomesUndefined
<1>4. CASE IsArena(h) /\ FixedFails("arena_alloc")
  BY <1>4, FixedOnlySays DEF IsArena, Calls, FixedFails, FixedSays, Fails
<1>5. ASSUME IsArena(h), AllocFits(h, n),
             ArenaBecomes(h, [arenas[h] EXCEPT !.top = @ + n]),
             blocks' = [blocks EXCEPT ![h] = @ \cup {[off |-> arenas[h].top, n |-> n]}],
             UNCHANGED status
      PROVE  FixedStep
  <2> DEFINE a == [arenas[h] EXCEPT !.top = @ + n]
             new == [off |-> arenas[h].top, n |-> n]
             B == blocks[h] \cup {new}
  <2>1. h \in Fixed /\ arenas[h].there /\ arenas[h] \in Arenas /\ n \in Nat
    BY <1>5, HandlesAssumption DEF IsArena, AllocFits, FixedInv, Arenas
  <2>2. /\ a \in Arenas /\ a.there = arenas[h].there /\ a.room = arenas[h].room
        /\ a.sz = arenas[h].sz /\ a.top = arenas[h].top + n
    <3>1. arenas[h].top + n \in Nat
      BY <2>1 DEF Arenas
    <3> QED  BY <2>1, <3>1, TopMoves
  <2>3. a.top <= a.sz /\ a.room = a.sz
    BY <1>5, <2>1, <2>2 DEF AllocFits, FixedInv
  <2>4. new \in [off : Nat, n : Nat] /\ new.off = arenas[h].top /\ new.n = n
    BY <2>1 DEF Arenas
  <2>5. B \in SUBSET [off : Nat, n : Nat]
    BY <2>1, <2>4 DEF FixedInv
  <2>6. \A b \in blocks[h] : /\ b \in [off : Nat, n : Nat]
                              /\ b.off + b.n <= arenas[h].top
                              /\ \A c \in blocks[h] :
                                   b = c \/ b.off + b.n <= c.off \/ c.off + c.n <= b.off
    BY <2>1 DEF FixedInv, BlocksDisjoint
  <2>7. arenas[h].top \in Nat
    BY <2>1 DEF Arenas
  <2>8. \A b \in B : /\ a.there
                      /\ b.off + b.n <= a.top
                      /\ \A c \in B : b = c \/ b.off + b.n <= c.off \/ c.off + c.n <= b.off
    <3> HIDE DEF a, new
    <3> QED  BY <2>1, <2>2, <2>4, <2>6, <2>7
  <2>9. ArenaBecomes(h, a) /\ blocks' = [blocks EXCEPT ![h] = B]
    BY <1>5, <2>1 DEF FixedInv
  <2> HIDE DEF a, B
  <2> QED  BY <1>5, <2>2, <2>3, <2>5, <2>8, <2>9, ArenaChanges
<1> QED  BY <1>1, <1>2, <1>3, <1>4, <1>5 DEF arena_alloc, Answer

LEMMA MissesStep ==
  ASSUME FixedInv, NEW h, NEW off, NEW i, NEW call, Misses(call, h, off, i)
  PROVE  FixedStep
<1>1. CASE OutOfTable(h)
  BY <1>1, OutOfTableStep
<1>2. CASE NotArena(h) /\ FixedFails(call)
  BY <1>2, NotArenaStep
<1>3. CASE FixedUndefined("overflow")
  BY <1>3, FixedBecomesUndefined
<1>4. CASE IsArena(h) /\ FixedFails(call)
  BY <1>4, FixedOnlySays DEF IsArena, Calls, FixedFails, FixedSays, Fails
<1> QED  BY <1>1, <1>2, <1>3, <1>4 DEF Misses

(* An offset that passes the check lies in what malloc gave. *)
LEMMA PassesIsThere ==
  ASSUME FixedInv, NEW h, NEW off, NEW i, Passes(h, off, i)
  PROVE  IsThere(h, off, i)
  BY DEF FixedInv, Passes, IsThere, IsArena, Reaches

LEMMA ArenaAccessStep ==
  ASSUME FixedInv, NEW h \in Handle, NEW off \in Sizes, NEW i \in Index,
         arena_read(h, off, i) \/ \E v \in Byte : arena_write(h, off, i, v)
  PROVE  FixedStep
<1>1. CASE Misses("arena_read", h, off, i) \/ Misses("arena_write", h, off, i)
  BY <1>1, MissesStep
<1>2. ASSUME Passes(h, off, i), UNCHANGED <<tables, fixed, status>>
      PROVE  FixedStep
  BY <1>2, FixedSame DEF FixedStep, tables, Passes, IsArena, Calls, StillSound
<1>3. CASE arena_read(h, off, i)
  BY <1>1, <1>2, <1>3, PassesIsThere DEF arena_read, Answer
<1>4. ASSUME NEW v \in Byte, arena_write(h, off, i, v)
      PROVE  FixedStep
  BY <1>1, <1>2, <1>4, PassesIsThere DEF arena_write, Says, Answer
<1> QED  BY <1>3, <1>4

(* reset empties an arena, free takes it away: both forget its blocks.     *)
LEMMA ArenaResetStep ==
  ASSUME FixedInv, NEW h \in Handle, arena_reset(h) \/ arena_free(h)
  PROVE  FixedStep
<1>1. CASE OutOfTable(h)
  BY <1>1, OutOfTableStep
<1>2. CASE NotArena(h) /\ (FixedFails("arena_reset") \/ FixedFails("arena_free"))
  BY <1>2, NotArenaStep
<1>3. ASSUME IsArena(h), UNCHANGED status, blocks' = [blocks EXCEPT ![h] = {}],
             NEW a \in {NoArena, [arenas[h] EXCEPT !.top = 0]}, ArenaBecomes(h, a)
      PROVE  FixedStep
  <2>1. arenas[h] \in Arenas /\ (arenas[h].there => arenas[h].room = arenas[h].sz)
    BY <1>3 DEF IsArena, FixedInv, Arenas
  <2>2. a \in Arenas /\ a.top <= a.sz /\ (a.there => a.room = a.sz)
    <3>1. CASE a = NoArena
      BY <3>1, NewArenas
    <3>2. CASE a = [arenas[h] EXCEPT !.top = 0]
      BY <2>1, <3>2, TopMoves DEF Arenas
    <3> QED  BY <1>3, <3>1, <3>2
  <2>3. {} \in SUBSET [off : Nat, n : Nat] /\ \A b \in {} : FALSE
    OBVIOUS
  <2> QED  BY <1>3, <2>2, <2>3, ArenaChanges
<1> QED  BY <1>1, <1>2, <1>3 DEF arena_reset, arena_free, Answer

LEMMA ArenaTopStep ==
  ASSUME FixedInv, NEW h \in Handle, arena_top(h)
  PROVE  FixedStep
<1>1. CASE OutOfTable(h)
  BY <1>1, OutOfTableStep
<1>2. CASE NotArena(h) /\ FixedFails("arena_top")
  BY <1>2, NotArenaStep
<1>3. CASE IsArena(h) /\ FixedSays("arena_top", arenas[h].top)
  BY <1>3, FixedOnlySays DEF IsArena, Calls
<1> QED  BY <1>1, <1>2, <1>3 DEF arena_top

LEMMA DbStep ==
  ASSUME FixedInv, NEW h \in Handle, db_query(h) \/ db_close(h)
  PROVE  FixedStep
<1>1. CASE db_query(h)
  BY <1>1, FixedOnlySays DEF db_query, Calls
<1>2. CASE Calls /\ FixedFails("db_close")
  BY <1>2, FixedOnlySays DEF Calls, FixedFails, FixedSays, Fails
<1>3. ASSUME Calls, dbs' = [dbs EXCEPT ![h] = FALSE],
             UNCHANGED <<tables, arenas, blocks>>, UNCHANGED status
      PROVE  FixedStep
  <2>1. FixedInv' /\ NoneEntersFixed
    BY <1>3 DEF FixedInv, BlocksDisjoint, NoneEntersFixed, InArena, InDb
  <2> QED  BY <1>3, <2>1 DEF FixedStep, tables, Calls, StillSound
<1> QED  BY <1>1, <1>2, <1>3 DEF db_close, Answer

LEMMA DbConnectStep ==
  ASSUME FixedInv, TypeOK, NEW opened \in BOOLEAN, db_connect(opened)
  PROVE  FixedStep
<1>1. CASE Calls /\ FixedFails("db_connect")
  BY <1>1, FixedOnlySays DEF Calls, FixedFails, FixedSays, Fails
<1>2. CASE PastTable
  BY <1>2, FixedBecomesUndefined DEF PastTable
<1>3. ASSUME Opens, Takes("db_connect", next), dbs' = [dbs EXCEPT ![next] = TRUE],
             UNCHANGED <<arenas, blocks>>
      PROVE  FixedStep
  <2>1. /\ FixedInv'
        /\ \A h \in Nat : (InArena(h)' => InArena(h)) /\ (InDb(h)' => InDb(h) \/ h = next)
    BY <1>3 DEF FixedInv, BlocksDisjoint, InArena, InDb, Takes
  <2>2. StillSound /\ next' = next + 1 /\ UNCHANGED <<mem, mem_sz, dangling, files>>
    BY <1>3 DEF Takes, TakeHandle, OtherTables, Answer, Opens, StillSound
  <2> QED  BY <1>3, <2>1, <2>2 DEF FixedStep, OneEntersFixed, Opens
<1> QED  BY <1>1, <1>2, <1>3 DEF db_connect

LEMMA FixedNext ==
  ASSUME FixedInv, TypeOK, NextFixed
  PROVE  FixedStep
  BY ArenaNewStep, DbConnectStep, ArenaAllocStep, ArenaAccessStep, ArenaResetStep,
     ArenaTopStep, DbStep
  DEF NextFixed

-----------------------------------------------------------------------------
(* All calls together. *)

(* A handle keeps its owners or loses them; the one issued gains one kind. *)
OwnersStep ==
  \/ next' \in {next, next + 1} /\ \A h \in Nat : Owners(h)' \subseteq Owners(h)
  \/ /\ next' = next + 1
     /\ \E k : \A h \in Nat :
          Owners(h)' \subseteq Owners(h) \cup (IF h = next THEN {k} ELSE {})

StepsWell == HandlesInv' /\ FixedInv' /\ StillSound /\ OwnersStep

LEMMA IInvParts ==
  IInv <=> /\ HandlesInv /\ FixedInv /\ AccessesAreSound
           /\ NothingAhead /\ OneOwnerEach
  BY DEF IInv, TypeOKAll, SizesAreTrue, HandlesInv, MemSizesAreTrue, FixedInv

LEMMA HandlesOwners ==
  ASSUME GoodStep, UNCHANGED fixed
  PROVE  OwnersStep
<1>1. \A h \in Nat : InArena(h)' = InArena(h) /\ InDb(h)' = InDb(h)
  BY DEF fixed, InArena, InDb
<1>2. CASE NoneEnters
  BY <1>1, <1>2 DEF GoodStep, NoneEnters, OwnersStep, Owners
<1>3. CASE /\ next' = next + 1
           /\ \A h \in Nat : (InMem(h)' => InMem(h) \/ h = next) /\ (InFile(h)' => InFile(h))
  <2>1. \A h \in Nat :
          Owners(h)' \subseteq Owners(h) \cup (IF h = next THEN {"mem"} ELSE {})
    BY <1>1, <1>3 DEF Owners
  <2> QED  BY <1>3, <2>1 DEF OwnersStep
<1>4. CASE /\ next' = next + 1
           /\ \A h \in Nat : (InMem(h)' => InMem(h)) /\ (InFile(h)' => InFile(h) \/ h = next)
  <2>1. \A h \in Nat :
          Owners(h)' \subseteq Owners(h) \cup (IF h = next THEN {"file"} ELSE {})
    BY <1>1, <1>4 DEF Owners
  <2> QED  BY <1>4, <2>1 DEF OwnersStep
<1> QED  BY <1>2, <1>3, <1>4 DEF GoodStep, OneEnters

LEMMA FixedOwners ==
  ASSUME FixedStep
  PROVE  OwnersStep
<1>1. \A h \in Nat : InMem(h)' = InMem(h) /\ InFile(h)' = InFile(h)
  BY DEF FixedStep, InMem, InFile
<1>2. CASE next' = next /\ NoneEntersFixed
  BY <1>1, <1>2 DEF NoneEntersFixed, OwnersStep, Owners
<1>3. CASE /\ next' = next + 1
           /\ \A h \in Nat : (InArena(h)' => InArena(h) \/ h = next) /\ (InDb(h)' => InDb(h))
  <2>1. \A h \in Nat :
          Owners(h)' \subseteq Owners(h) \cup (IF h = next THEN {"arena"} ELSE {})
    BY <1>1, <1>3 DEF Owners
  <2> QED  BY <1>3, <2>1 DEF OwnersStep
<1>4. CASE /\ next' = next + 1
           /\ \A h \in Nat : (InArena(h)' => InArena(h)) /\ (InDb(h)' => InDb(h) \/ h = next)
  <2>1. \A h \in Nat :
          Owners(h)' \subseteq Owners(h) \cup (IF h = next THEN {"db"} ELSE {})
    BY <1>1, <1>4 DEF Owners
  <2> QED  BY <1>4, <2>1 DEF OwnersStep
<1> QED  BY <1>2, <1>3, <1>4 DEF FixedStep, OneEntersFixed

LEMMA FixedHandles ==
  ASSUME HandlesInv, FixedStep
  PROVE  HandlesInv'
<1>1. next' \in 1 .. MaxHandles + 1
  BY HandlesAssumption DEF FixedStep, OneEntersFixed, HandlesInv, TypeOK
<1> QED
  BY <1>1 DEF HandlesInv, TypeOK, MemSizesAreTrue, FixedStep, StillSound,
              _dmc_mem_cap, _dmc_files_cap

LEMMA StepsWellOrStutters ==
  ASSUME IInv, [NextAll]_allVars
  PROVE  StepsWell
<1>0. HandlesInv /\ FixedInv /\ AccessesAreSound
  BY IInvParts
<1>1. CASE Next /\ UNCHANGED fixed
  BY <1>0, <1>1, HandlesStep, FixedSame, HandlesOwners DEF StepsWell, GoodStep
<1>2. CASE NextFixed
  <2>1. FixedStep
    BY <1>0, <1>2, FixedNext DEF HandlesInv
  <2> QED  BY <1>0, <2>1, FixedHandles, FixedOwners DEF StepsWell, FixedStep
<1>3. CASE UNCHANGED allVars
  <2>1. StillSound
    BY <1>0, <1>3 DEF allVars, vars, StillSound, AccessesAreSound, HandlesInv, TypeOK
  <2>2. UNCHANGED tables /\ UNCHANGED fixed
    BY <1>3 DEF allVars, vars, tables, fixed
  <2> QED  BY <1>0, <2>1, <2>2, SameTables, FixedSame, HandlesOwners DEF StepsWell, GoodStep
<1> QED  BY <1>1, <1>2, <1>3 DEF NextAll

LEMMA OwnersStay ==
  ASSUME IInv, StepsWell
  PROVE  /\ NothingAhead' /\ OneOwnerEach'
         /\ \A h \in 0 .. next - 1 : Owners(h) = {} => Owners(h)' = {}
<1>1. next \in Nat /\ OwnersStep /\ NothingAhead /\ OneOwnerEach
  BY HandlesAssumption DEF StepsWell, IInv, TypeOKAll, TypeOK
<1>2. CASE next' \in {next, next + 1} /\ \A h \in Nat : Owners(h)' \subseteq Owners(h)
  BY <1>1, <1>2 DEF NothingAhead, OneOwnerEach
<1>3. ASSUME next' = next + 1,
             NEW k, \A h \in Nat :
                Owners(h)' \subseteq Owners(h) \cup (IF h = next THEN {k} ELSE {})
      PROVE  /\ NothingAhead' /\ OneOwnerEach'
             /\ \A h \in 0 .. next - 1 : Owners(h) = {} => Owners(h)' = {}
  <2>1. \A h \in Nat : h = next => Owners(h)' \subseteq {k}
    BY <1>1, <1>3 DEF NothingAhead
  <2>2. \A h \in Nat : h # next => Owners(h)' \subseteq Owners(h)
    BY <1>3
  <2>3. NothingAhead'
    BY <1>1, <1>3, <2>2 DEF NothingAhead
  <2>4. OneOwnerEach'
    <3>1. ASSUME NEW h \in Nat, NEW j \in Owners(h)', NEW l \in Owners(h)'
          PROVE  j = l
      <4>1. CASE h = next
        BY <2>1, <4>1
      <4>2. CASE h # next
        BY <1>1, <2>2, <4>2 DEF OneOwnerEach
      <4> QED  BY <4>1, <4>2
    <3> QED  BY <3>1 DEF OneOwnerEach
  <2> QED  BY <1>1, <2>2, <2>3, <2>4
<1> QED  BY <1>1, <1>2, <1>3 DEF OwnersStep

LEMMA Initially == InitAll => IInv
<1> SUFFICES ASSUME InitAll
             PROVE  IInv
  OBVIOUS
<1>1. Cardinality({}) = 0 /\ 0 .. 0 - 1 = {}
  BY FS_EmptySet
<1>2. _dmc_mem_cap = 0 /\ _dmc_files_cap = 0
  BY <1>1 DEF InitAll, Init, _dmc_mem_cap, _dmc_files_cap
<1>3. HandlesInv /\ AccessesAreSound
  <2>1. /\ mem \in [0 .. 0 - 1 -> Objects] /\ mem_sz \in [0 .. 0 - 1 -> 0 .. MaxSize]
        /\ files \in [0 .. 0 - 1 -> BOOLEAN] /\ DOMAIN mem = {}
    BY <1>1 DEF InitAll, Init
  <2>2. next = 1 /\ dangling = FALSE /\ status = "running"
    BY DEF InitAll, Init
  <2>3. TypeOK
    <3>1. 1 \in 1 .. MaxHandles + 1
      BY HandlesAssumption
    <3> QED  BY <1>2, <2>1, <2>2, <3>1 DEF TypeOK
  <2> QED  BY <2>1, <2>2, <2>3 DEF HandlesInv, MemSizesAreTrue, AccessesAreSound
<1>4. FixedInv
  BY DEF InitAll, FixedInv, BlocksDisjoint, NoArena
<1>5. \A h : Owners(h) = {}
  BY DEF InitAll, Init, Owners, InMem, InFile, InArena, InDb, NoArena
<1> QED  BY <1>3, <1>4, <1>5, IInvParts DEF NothingAhead, OneOwnerEach

LEMMA Stays ==
  ASSUME IInv, [NextAll]_allVars
  PROVE  /\ IInv'
         /\ \A h \in 0 .. next - 1 : Owners(h) = {} => Owners(h)' = {}
<1>1. StepsWell
  BY StepsWellOrStutters
<1>2. /\ NothingAhead' /\ OneOwnerEach'
      /\ \A h \in 0 .. next - 1 : Owners(h) = {} => Owners(h)' = {}
  BY <1>1, OwnersStay
<1>3. TypeOKAll' /\ SizesAreTrue' /\ BlocksDisjoint' /\ AccessesAreSound'
  BY <1>1, HandlesAssumption
  DEF StepsWell, StillSound, HandlesInv, FixedInv, MemSizesAreTrue, TypeOKAll, SizesAreTrue,
      AccessesAreSound, AllFaults
<1> QED  BY <1>2, <1>3 DEF IInv

-----------------------------------------------------------------------------
(* The inductive invariant holds in every state of the emitted runtime. *)
THEOREM Invariance == SpecAll => []IInv
<1>1. IInv /\ [NextAll]_allVars => IInv'
  BY Stays
<1> QED  BY Initially, <1>1, PTL DEF SpecAll

(* Every table keeps its type, however the tables grow. *)
THEOREM TypesHold == SpecAll => []TypeOKAll
<1>1. IInv => TypeOKAll
  BY DEF IInv
<1> QED  BY Invariance, <1>1, PTL

(* A call that passes its bounds check touches a byte that is there.       *)
THEOREM AccessSoundness == SpecAll => []AccessesAreSound
<1>1. IInv => AccessesAreSound
  BY DEF IInv
<1> QED  BY Invariance, <1>1, PTL

(* The five kinds of handles of the one counter never collide.             *)
THEOREM OneOwner == SpecAll => []OneOwnerAll
<1>1. IInv => OneOwnerAll
  <2> SUFFICES ASSUME IInv
               PROVE  OneOwnerAll
    OBVIOUS
  <2>1. OneOwnerEach /\ \A h \in 0 .. next : h \in Nat
    BY DEF IInv
  <2> QED  BY <2>1 DEF OneOwnerEach, OneOwnerAll
<1> QED  BY Invariance, <1>1, PTL

(* The blocks of an arena lie side by side inside what malloc gave.        *)
THEOREM DisjointBlocks == SpecAll => []BlocksDisjoint
<1>1. IInv => BlocksDisjoint
  BY DEF IInv
<1> QED  BY Invariance, <1>1, PTL

(* No call gives the handle of an object that is gone to another one.      *)
THEOREM DeadHandles == SpecAll => DeadHandleStaysDeadAll
<1>1. IInv /\ [NextAll]_allVars =>
        [\A h \in 0 .. next - 1 : Owners(h) = {} => Owners(h)' = {}]_allVars
  BY Stays
<1> QED  BY Invariance, <1>1, PTL DEF SpecAll, DeadHandleStaysDeadAll
=============================================================================
