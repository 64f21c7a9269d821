# Demonic-C: a verification project

Demonic-C is a small language compiled to C. `src/compiler/dmc.cpp` holds the
compiler, the C runtime it writes at the head of every program, and the `dmc`
commands (packages, build, test, format, lint); `src/runtime/` holds a second,
standalone C runtime. These modules model the parts of both that keep state and
take decisions over several steps. TLC checks them on small instances, and TLAPS
proves their safety properties for every size (section 4).

All line numbers are those of `src/compiler/dmc.cpp` unless a file is named.

## 1. Inventory

| Component | State | Operations | Interacts with |
|---|---|---|---|
| Standalone runtime: `src/runtime/{core,mem,fs,net}` | handle table (slots, capacity, used), last error text | `dmc_reserve`, `dmc_release`, `dmc_get`, memory, file and TCP calls | the program calls it; heap, stdio and sockets behind it |
| the same with `DMC_RUNTIME_THREADS` | the same, and a mutex | the same, some of them locked | several threads |
| Module loader (280-375) | per parser: path, import lines, `loaded_`, `functions_`, `diagnostics_` | read an import, parse the module, merge, emit | recursion: a parser creates one for each import |
| Statement parser (668-911) | open blocks, `scopes_`, C text so far | each statement, block and switch | fills the function bodies the loader merges |
| Declaration loop and recovery (295-327, 639-699) | token position, attributes, diagnostics | declarations, `skip_to_decl` | calls the statement parser |
| Expressions, folding, types (913-1373) | token position, `scopes_` | precedence climbing, `try_fold`, `infer_type` | called by statements |
| Lexer (36-89) | position | tokens | called by each parser |
| Test harness: `emit` (224-257), `command_test` of `src/tools/dmc_host.py` | none beyond one command | compile, build, run, count | reads the source text, runs the compiler and the program |
| Emitted runtime, memory, files, regexes (383-463, 572-574) | `_dmc_mem`, `_dmc_mem_sz`, `_dmc_files`, one counter `_dmc_next` | `mem_*`, `file_*`, `regex_*` | the compiled program calls it; shared counter |
| Emitted runtime, arenas and databases (580-608) | `_dmc_arenas`, `_dmc_arena_sz`, `_dmc_arena_top`, `_dmc_db` | `arena_*`, `db_*` | the same counter, tables of 1024 entries |
| Emitted runtime, collections (475-532) | three tables and three counters | `vec_*`, `queue_*`, `map_*` | the compiled program calls it |
| Emitted runtime, the rest (464-474, 533-637) | static text buffers | `text_*`, sockets, ports, interrupts | |
| Package manager (1407-1703, 2159-2226) | directories under `$HOME/.dmc/packages` | install, update, uninstall, list, search, publish | several `dmc` processes share the directory |
| Project commands (1705-1772, 1807-1850, 2083-2111), `command_build` | the project's files, generated files of fixed names | `new`, `init`, `fmt`, `build` | several processes and an editor share the directory |
| Formatter (1790-1805) | indentation counter, line by line | one pass | `fmt` |
| Linter, `doc`, `bundle`, `run`, `login`, `deprecate` | none | one command each | read or write one file |
| Self-hosted compiler and language tests (`src/test-files`), wrappers (`src/stdlib`), editor, playground | none of their own | | input of the compiler |

What makes each one correct, and what is hard about it:

* **Handle tables** (both runtimes). A program keeps plain integers. Whatever the
  order of calls, a handle names its own object or nothing, through reallocations
  of the table, failures of any call, and use after free. The hard parts are
  *acquire the object, then its slot* (partial failure), limits, and tables that
  share a counter.
* **Threads**. The lock is inside `dmc_reserve` and `dmc_release`; `dmc_get` and
  all that its callers do with the slot go without. What the lock covers must hold
  for any schedule, and what it does not cover should go wrong only where the
  program shares a handle or the table moves.
* **Collections**. They are a sequence, a FIFO and a partial function; the hard
  parts are the ring that wraps, chains with two keys in one bucket, and growth.
* **Statement parser**. It drops statements it takes for unreachable and rebuilds
  `switch`; the C program must do what the source does. Its scopes must agree with
  the C braces it writes.
* **Declaration loop**. After an error it goes on from the next keyword, so an
  error may cost the declaration behind it, its attributes, or (with an `import`
  that stands too late) the end of the loop.
* **Test harness**. A verdict travels from the tokens of a source through
  folding, C, an exit code and a count of words in the text: a file that passes
  must have run all its tests.
* **Module loader**. In graphs with diamonds and cycles it must end, lose nothing,
  and define nothing twice, although `loaded_` is passed down by copy and
  assigned back.
* **Package manager, project commands**. Nothing is locked, and every command is a
  series of file system calls, so two commands interleave, a process may die in
  the middle, and what it leaves behind is found by the next.

## 2. Modules and how they correspond to the code

| Module | Models | One action is |
|---|---|---|
| `ResourceTable` | abstract: privately owned objects under handles used once | an open, a close, one byte read or written |
| `DmcCore` | `src/runtime/{core,mem,fs,net}`, single-threaded build | one API call, with every failure it can meet |
| `DmcThreads` | `dmc_reserve`, `dmc_get`, `dmc_release` and the memory calls of the threaded build | what a thread does between two accesses to shared state |
| `BlockParser` | `function`, `block`, `statement`, `switch_statement` | one statement read; or a body opened or closed |
| `Declarations` | `parse_imports`, `structure`, `parse_enum`, `function`, `skip_to_decl`, the loop over them | one declaration read or recovered from |
| `Expressions` | `parse_binary`, `unary_expr`, `try_fold`; the value of C text; the meaning of the source | (operators only) |
| `TestProgram` | `command_test`, the harness `emit` writes, the run of the program; extends `Declarations` and `Expressions` | one step of the driver, one declaration, one call |
| `ModuleLoader` | `collect_declarations`, `resolve_import`, `merge_into`, `emit` | one turn of the import loop; the declarations of one file; one return |
| `Collections` | abstract: sequence, FIFO, partial function, by handle | one operation |
| `GenCollections` | `vec_*`, `queue_*`, `map_*` of `emit_runtime` | one call |
| `GenHandles` | `mem_*`, `file_*`, `regex_*` of `emit_runtime` | one call |
| `GenArenas` | `arena_*`, `db_*`, composed with `GenHandles` over the shared counter | one call |
| `PackageStore` | install, update and uninstall of `cmd_pkg` | one file system call of one process |
| `Formatter` | `format_dmc_code`, and what `lex` sees of a text | (operators only) |
| `Commands` | `new`, `init`, `fmt`, `fmt --check` and both `build` commands; extends `Formatter` | one file system call of one process, or a save of the editor |
| `DmcCoreProofs`, `DmcThreadsProofs`, `ModuleLoaderProofs`, `GenCollectionsProofs`, `GenArenasProofs`, `PackageStoreProofs`, `CommandsProofs` | the theorems about the module of that name, with their proofs (`GenArenasProofs`: also about `GenHandles`, `CommandsProofs`: also about `Formatter`) | |
| `CompilerProofs` | the theorems about `BlockParser`, `Expressions`, `Declarations` and `TestProgram` | |
| `MC...` | constants for TLC | |

**DmcCore.** The variables carry the names of the C statics. `heap` maps an
address to the object there (a buffer, a FILE or a socket), so that a leak or a
double free is visible: the allocator may hand out any free address and reuse it.
Table growth (`NewCapacity`, doubled and clamped) is part of `dmc_reserve`, as in
the code. An error message is reduced to its sort. A byte index is a number, and
the calls are tried with indices and handles on both sides of every limit.
`ResourceTable` is the promise; the refinement mapping reads the object of a live
handle through its slot.

**DmcThreads.** `pc` says where in its call a thread is, `lock` is the mutex, `block`
counts the tables `realloc` has moved away from, and `at` is the one `dmc_slots`
points to: between `Ensure` (which runs `realloc`) and `Publish` they differ, and
whoever reads the table then reads freed memory. A thread that has got a slot pointer
keeps the block it leads into, since a later `realloc` leaves the pointer behind.
`shared` says, for a whole behaviour, whether threads use one another's handles; `own`
are the handles a thread was given. Objects are compared by identity: an address that
a thread or a slot still points to is not handed out again, so a use after free stays
visible. The lock of `dmc_release` is never reached (its callers have cleared the
slot and its own check refuses), as finding 1 says. Reads and writes of single words
are taken to be atomic and in program order; C promises less, so what fails here
fails in C, and what holds here holds for compilers and machines that keep to this.

**BlockParser.** Recursive descent is the sequence `open` of blocks not yet closed,
with the statements each has collected. A statement is represented by the set of
things running it may do, once in the sense of the source (`src`) and once in that
of the C text (`out`), together with the two facts `block_inner` tests about its
text (does it start with `return`; does it contain `proc_exit`). One pass of a
loop body stands for any number. Expressions, wording and parse errors are left
out.

`Features` lists things programs may contain that the code gets wrong:
`nested_exit` (see findings), `default_early` (a `default` before another label:
the last label's body is moved to it, `EmittedMeansSource` fails), `case_let` (a
variable declared under one label is still in scope under the next,
`InferredTypeIsDeclared` fails), `for_shadow` (the variable of a `for` is never
bound, so a hidden outer one gives it its type). The passing run has them off;
with any one of them on, the property named fails. What the run shows is that
statements without these four, combined in any way its bounds allow, keep the
properties. Calls whose name begins with `return` are not in the model.

`infer_type` goes by the text of an expression. It looks a name up only if it begins
with a letter (1281), while the lexer lets names begin with `_` (47), and it takes a name
spelt like the C name of an enum's value (`E_A`) for that value (1263). `LookedUp` are
the other names, and `InferredTypeIsDeclared` speaks of these only. `Underscored` and
`EnumValues` say which names are of the two sorts; for `let _s: string = "a"; let t = _s;`
the code declares `int t`, and so does the model.

**Declarations.** A token is an attribute bracket, a keyword, a word, or the rest of a
declaration behind its keyword, which says how it reads: `ok`; `bad` (an error inside);
`open` (its brace is missing, so that it goes on into what follows); `range` (a literal
that makes `std::stoll` throw an exception `collect_declarations` does not catch). An
unclosed enum takes any token for a variant and ends at the next brace; the C that
comes of it is no C, which `garbled` remembers. Of the head of a function (and of what
else a C compiler looks at) the field `sig` keeps what decides whether the emitted C can
be compiled and how it can be called: no parameters and an `int` result, parameters, no
result, or something C refuses by itself (`refused`: an unknown type or name, a value of
a wrong type, a name the C library, the emitted runtime, harness or types have). What stands behind `struct`, `enum` or
`fn`, and only that, says how it reads (`SourcesAssumption`): this is how a file is cut
into tokens here, and no restriction on files.

**Expressions.** The text of an operation stands in parentheses, so what C makes of it
follows from what it makes of its parts and does not depend on precedence again: a text
is represented by its worth. `Digits` carries two values besides, decimal and that of a
C literal, since a leading zero means octal to C and nothing to `stoll`. The mutual
recursion of `parse_binary` and `unary_expr` is one function by depth of call,
`Levels`; with every token the calls go one level deeper. `Meaning` is a reference
definition: it splits the source at the operator that binds least, the last of its
kind, instead of climbing. A set holds the value, or is empty where the program traps.

**TestProgram.** The compiler's exit code, `Builds` (does a C compiler accept the
program), the calls `main` makes and the verdict follow one another. The compiler checks
little of what C asks for, so `Builds` has a list, `Refused`: a declaration that is
`refused` by itself (of a `main` only where it is emitted); a test that takes parameters
or gives no result (237 writes `f() == 0`), a benchmark that takes parameters (246 writes
`f()`); two functions of one name, since nothing but a second `main` is filtered (299,
172-227); two benchmarks (two `_t` in one block, 245); no harness and no `main`.
`RefusedType` is the same for structs and enums. `Returned` is what a call gives back:
nothing where the statement divides by zero (`Traps`; C may also drop such a statement
where its value is not used), anything for a `main` without a result, whose value becomes
the exit status all the same (1176-1182). An exit status counts modulo `ExitRange`, 256 in
the systems C runs on.

`PlainProgram` names the programs for which a verdict means what it says: no test called
`main` (it is never run), no function of the file or of a module that calls
`proc_exit(0)` (the run ends in success, whatever stands behind it), no literal with a
leading zero, no result wider than an `int`. `FailHasACause` judges by `Declared`, which
is read off the source, and not by what the compiler collected. Taken for granted are a
file that can be lexed and whose modules load (`ModuleLoader` has what happens otherwise),
an installed `cc` with `libsqlite3.so.0`, and bodies that are `return e;`, `e;` where
nothing is returned, or `proc_exit(0);`.

**ModuleLoader.** `parsers` is the recursion, the compiler's own parser first.
Paths are chains of directories because `resolve_import` joins and never
normalises: in two directories a cycle finds the same file under ever longer
paths, until the system refuses the path (`MaxHops`). A state's program (graph,
layout, files with an error in them) is chosen in `Init` and never changes. A module
with a bad declaration loses that function, and its diagnostics are not merged: the
compiler exits with 0. `CleanExitIsComplete` says that nothing else is lost.

`fault` is what no parser recovers from, one sort per file: `text` (it cannot be read,
329, or the lexer throws, 73; both come at 288, before the file has a parser), `imports`
(an import line is malformed, 324, outside the `try` of 296) and `literal` (`std::stoll`
throws `out_of_range`, which the handler at 300 does not catch). `Throws` ends every
parser for them as `CannotSummon` does for a module that is not found, and
`CleanExitIsComplete` lists them among the reasons for giving up.

`merge_into` passes over a name the target has (`has_function`, 371) and `emit` writes
the first `main` only (259); both keep some members of a list in order, which is the
recursive function `Kept`. The files a program reaches are `Reachable`, the least set
that holds main and what its members import. Of the candidates of `resolve_import` only
the importer's own directory is modelled (339); not its `src/` (344), the `-I`
directories (347) and the working directory (351), where the same file has other paths
again. Nor are two spellings of one name (`a`, `"a.dmc"`, `./a`), which are two paths in
`loaded_` even in one directory; what is said of one directory is said of programs that
spell a module in one way.

**GenCollections.** A vector, queue or map is the C struct: a queue has `len`,
`head`, `tail` and the buffer with its old contents, a map its chains in order.
`ToInt` is the cast to `int` of the getters. `Collections` is the promise; the
mapping unrolls the ring from `head` and collects the chains. The resize functions
are asked for `h` slots where handle `h` needs `h + 1`: the handle a table is full at
is written past its end. `status` then is `past`, and no further step is taken;
`FewHandlesFit` says that this takes as many handles as the table has slots.
`Collections` lets any call be refused, or answer that there is nothing, as long as it
changes nothing: that a call is refused only when it must be is not part of the promise
and not checked.

**GenHandles.** Memory, files and regexes share `_dmc_next` but not their tables.
Where the C code would leave its tables or use a dead pointer nothing can be said
of the program, so `status` says why and no further step is taken. `Faults` says
what may go wrong besides the calls' own failures: `half` (the second of two
reallocs fails), `misuse` (a handle is given to the free function of another kind),
`regex_first` (`regex_new` without room for its handle), `calloc` (the block of
`mem_alloc` cannot be had: the handle is issued all the same, because `mem_alloc`
(427) does not look at the result of `calloc`; accesses stay sound with it, at the
price of a longer run, so the run leaves it off). `mem_map` (442) records whatever
pointer and size it is given; the model's programs give a pointer to that many bytes, and
`AccessesAreSound` holds on that condition. `AccessesAreSound` and `OneOwnerAll` hold up to
the call that `status` stops at: they do not catch the fault itself.

**GenArenas.** The tables of arenas and connections have a fixed size
(`FixedSlots`, 1024 in the code) and the shared counter has none: `table` is the
access past their end, `overflow` the sum in `arena_alloc` or in an index that does
not fit in a `long long`. `blocks` is history: what `arena_alloc` gave out since the
last reset. `arena_new` does not look at what `malloc` returned either; `calloc`
covers that too.

**Commands.** A file is empty between its opening and its closing, and `linked` says
whether the open file is still the one under its name, as in `PackageStore`. Contents
are what the properties tell apart: a source is a list of lines, a generated C file or a
binary is given by the source it was made from. The history variables are `saved`
(what the user last put into a source), `harmed` (files that a kill, a short
write or a second writer may have spoiled) and `left` (generated files a failed or
killed build left). `fmt` prefixes the indentation also inside a string that spans
lines, which changes the program: `SourcesSurvive` leaves such sources out.

**PackageStore.** Per package `store` holds the version of its `dmc.toml`, or one
of three other states: no directory, no manifest, an empty manifest. `linked` says
whether the file a process has open is still the one in the directory, since an
unlinked file swallows what is written to it. `alone` and `lost` are history, used
only by the properties. Every process goes through the calls of its command in the
order of the code; `remove_all` is three of them (list, unlink, rmdir) and throws
when the directory has been filled again meanwhile. Versions are numbers in the
order of the registry's text. `Outdated` keeps the quotes that `installed_packages`
(1545) leaves around an installed version: `"` sorts before any digit, so an
installed package is always outdated and the branch that reports it up to date
cannot be reached. Fault `write` lets the manifest fail to open for other reasons
than a removed directory; then `HalfDoneHasACause` and `SoleCommandTakesEffect`
fail, since `install_package` (1611) drops the result of `write_package_meta` and
leaves the empty directory.

## 3. Runs

| Run | Instance | States | What it shows |
|---|---|---|---|
| `core` | table 1 -> 2 -> 3 slots, three addresses (symmetric), sizes around the limit 2, two byte values | 60,000 | no call leaks, frees twice or shares an object; a dead handle stays dead; `ResourceTable` is implemented |
| `core_free` (violation) | two slots | | a successful `dmc_mem_free` answers -1 |
| `threads` | two threads, four objects, table 1 -> 2 slots, then full; `calloc` and `realloc` may fail; handles kept or shared | 175,000 | the table gives each slot to one caller; at rest it owns what is allocated; own handles are safe until the table moves; a freed object is touched only where calls on one handle overlap; the mutex is given back |
| `block` | five statements, three blocks deep, two names (one with `_` in front), two types | 1,485,000 | the C means what the source means; parser scopes agree with C scopes on the names that are looked up |
| `block_exit` (violation) | three statements | | an exit inside an `if` removes what follows |
| `loader` | every graph of two imports per file over main, three modules and a missing one, in one or two directories; bad declarations in main, in a module, in both, in none; one of three faults in a module, a literal out of range in main, or none | 1,316,000 | loading ends; a clean exit has lost nothing but bad declarations; the compiler gives up only over a module not found or a fault in what is imported; nothing but the main file comes in twice; a module is parsed once |
| `test_programs` | some 9,100 files of up to three items (tests, benchmarks, helpers, `main`, structs, enums, imports; well formed, in error, not closed; with names used twice, parameters, no result, or refused by C) and a test for each of 7344 expressions, with and without `--bench` | 223,000 | a file that passes has run all its tests and each is zero by its source; one that fails has a cause in its source; folding changes no value; recovery costs at most the neighbour; every file gets as far as a verdict or its program's start |
| `gen_collections` | two of three queues, a vector and a map, two live at a time, a table of three slots, colliding keys -1 and 1 | 110,000 | `Collections` is implemented; a table takes as many handles as it has slots |
| `gen_queue_order` (violation) | one queue, three elements, buffer 2 | | growing loses the oldest element |
| `gen_handles` | all five kinds on one counter, tables 2 -> 4, fixed tables of 3, three handles, every call with every handle from -1 to one past the last | 140,000 | checked accesses are sound, blocks of an arena are disjoint, a handle has one owner, a dead one stays dead |
| `packages` | three symmetric processes, two versions, an unknown package and an unknown version, kill anywhere | 525,000 | a half-done package has a cause; an undisturbed command did what it said |
| `commands` | two symmetric processes and an editor for three commands or saves; one process for two commands on 426 texts; kills and short writes anywhere | 1,336,000 | `fmt` keeps the program and is idempotent; a project is whole, a source survives and no generated file is left but for a named cause; an undisturbed command did what it said |

**Why the bounds suffice.** The tables start at 1 or 2 slots instead of 64 or 128,
so that growing twice (or growing and being clamped) and the slot at either edge
are within reach; nothing depends on the figure itself, except handle 64 of the
collection tables, which is a hazard of its own (below). A buffer starts at two
elements: vectors outgrow it, and a ring of two already wraps. Queues do not
outgrow it in the passing run, because the push that does is the finding
`gen_queue_order`. Two keys in one bucket, one negative, are the cases a chain
distinguishes; two live collections are what confusing their handles takes, and the
third queue is the one that no longer fits its table.
`IntRange` of 4 stands for 2^32 and the values stored lie within it: that wider ones
do not come back is in section 5. Five statements are what a switch with two labels and
a jump needs, or a loop with an `if` and a statement behind it; three levels
reach a switch in a loop in a function. Three modules make every shape of
import that `loaded_` tells apart (self-import, cycle of two or three, diamond);
`MaxHops` of 3 passes the directories twice. Three processes let two interfere while
a third sees the result. Two threads suffice for every race on a handle, as only
two are ever at one; with four objects a thread can hold one, the table two, and one
be on its way, so that freeing and allocating again never waits for an address. In
`test_programs` the third item comes from a shorter list than the first two, since
nothing stands behind it that it could damage; two operators next to each other, or one
behind a parenthesis or a unary operator, are the cases climbing tells apart, and the
operands 0, 3, 5 and a variable make quotients that truncate and sums that go below
zero. In `commands` three commands are a build that leaves something, one that
finds it and one beside them; lists of one and two lines over all kinds of line, and of
three over those that differ in a string, are what indentation depends on.

`MaxStatements`, `MaxDepth`, `MaxHops`, `MaxHandles`, `MaxLen`, `MaxLive` and
`MaxBegun` are all the bounds there are; `DMC_MIN_HANDLES`, `DMC_MAX_HANDLES`,
`DMC_MEM_MAX_SIZE`, `FixedSlots`, `InitialSlots`, `InitialCap`, `Buckets`, `MaxLong`,
`IntRange` and `ExitRange` are constants of the code with smaller values.

**Deadlock** is not checked in `loader`, `test_programs` (a compiler and its driver
end), `gen_collections`, `gen_handles`, `threads` (an undefined program takes no step)
and `commands` (`MaxBegun`).

**Fairness.** `ModuleLoader` has weak fairness of `Next`: the compiler is one thread
that never waits, so as long as a step remains it takes it. `TestProgram` has the same
of the driver's and the compiler's steps, but of none the tested program takes: it may
run for ever and `command_test` sets no timeout. `DmcThreads` has weak fairness of
what a thread does inside a call other than waiting for the mutex: threads are
scheduled, but POSIX mutexes promise no order among those who wait, and a program need
make no call. The other modules have safety properties alone: a program may stop
calling its runtime, a user may stop typing.

## 4. Proofs

Every theorem is about the whole specification of its module, for all values of the
constants that satisfy the module's named assumption. The bounds of section 3 are
constants too, so a theorem holds for each of their values. Six theorems have a
hypothesis besides: `NoLateExit`, `NothingHidden`, `DistinctDefines`, `FirstBuffers`
and, twice, that fault `write` is off. Each is explained below, holds of the instance
that is checked, and leaves out a case in which the property is false.

### The standalone runtime

`DmcCoreProofs`, for every table size, maximum, set of addresses and set of bytes
(assumptions `HandlesAssumption` and `DataAssumption`):

* `Inductive`: the conjunction `IInv` of the four invariants of `DmcCore` holds
  always. They are inductive only together: a handle reaches its object through
  its slot, so that a byte read has its type, an access its bounds and a close
  its one owner all rest on the other three.
* `TableIsSound`, `StateIsTyped`: hence each of the four. (Two of them,
  `CheckedAccessStaysInBuffer` and `UnusedSlotsAreClear`, are proved here and not among
  the run's properties; so is `MutualExclusion` below.)
* `DeadHandles`: no step revives a dead handle.
* `Implements`: `DmcCore` implements `ResourceTable`. Each call is reduced to one of
  five *effects* on the table (nothing, an object enters, a byte is read, a byte is
  written, an object leaves), and each effect to a step of `ResourceTable`. The
  reduction is `EveryCall`; a new call needs one more case there.

`DmcThreadsProofs`, for any number of threads and objects and any table sizes
(`ThreadsAssumption`):

* `TableIsSound`, `StateIsTyped`: types, `MutualExclusion` and `HandlesAreUnique`.
  Inductive with one more conjunct, `Bounds`: at each point inside the lock, what
  `dmc_reserve` has established about `used`, `cap` and the table so far (room for one
  more slot when it takes one, for instance). It rests on mutual exclusion, because no
  other thread may undo what a point has established.
* `Ownership`, `NothingLeaks`: `FreedMeansOverlap` and `OwnedOnceAtRest`. `OwnInv` says
  where every allocated object is: in one slot, or in the hands of one thread between
  `calloc` and taking a slot; or, freed, in a slot that the thread which freed it is
  about to clear.
* `PrivateHandles`: `PrivateHandlesAreSafe`. `PrivInv` adds that in a program that
  does not share, the handle of every call is the caller's own (`CallsAreOwn`), and
  that a table moves only when it is full (`MovesWhenFull`).

### The emitted runtime

`GenArenasProofs`, for any first table sizes, fixed tables, largest `long long` and set
of `Faults` (`HandlesAssumption` of `GenHandles`, `ArenasAssumption`):

* `Invariance`: `IInv` is `TypeOKAll`, `AccessesAreSound` and `BlocksDisjoint` with
  three more. `SizesAreTrue`: the size table a check compares with is that of the
  buffer itself, which makes `AccessesAreSound` inductive. `NothingAhead`: no
  table has anything at a handle the shared counter has not reached, which makes
  `OneOwnerEach` inductive, since a constructor of one kind writes into its own
  tables only and never looks at those of the others.
* `TypesHold`, `AccessSoundness`, `OneOwner`, `DisjointBlocks`: the four invariants of
  the run.
* `DeadHandles`: no step lets a dead handle name an object again. Every step is
  shown to be one of a few moves on one table (an object put at `next`, one changed in
  place, one removed), and the moves have these facts as lemmas.

`GenCollectionsProofs`, for any tables, buffers, buckets, keys and values
(`CollectionsAssumption`):

* `Invariance`, `StateIsTyped`: every collection has its handle issued, its slot in the
  table and its length (and, in a queue that has a buffer, both positions) within its
  buffer. Each call *stays*, *changes* one object or *issues* one handle.
* `OnlyAFullTableIsPassed`: `FewHandlesFit`, a conjunct of `IInv`. The set of handles
  of a kind that were issued is an interval, so its size is the counter.
* `CollectionsImplemented`: `FirstBuffers /\ Spec => ImplementsCollections`. Besides
  the types it needs `WholeAll`: in a vector and a ring there is a value wherever there
  is an element, `tail` is `(head + len) % n`, a map has each key once and all its
  keys in their buckets, and `used` is their number. With these a push is
  an `Append` and a pop a `Tail` through the wrap, and replacing a value in a chain
  changes the function at that key only. `FirstBuffers` asks three things. The values
  fit a C `int`, because the getters return one (a vector of wider values gives back
  others: section 5). A queue has no more elements than its first buffer, because
  the push that outgrows it loses elements, which is finding 3: the theorem without this
  hypothesis is false. And `Null`, which stands for an empty slot, is no value.

### The compiler

`CompilerProofs` is about four modules. Of `BlockParser`, for any names, types,
statements, nesting and number (`FeaturesAssumption`):

* `ScopesAreTyped`: `TypeOK`. Its strengthening `TInv` counts the scopes: one for the
  parameters and one for each open block but the switches.
* `EmittedMeans`: `NoLateExit /\ Spec => []EmittedMeansSource`. For an open block the
  invariant `Good` says that what has been collected means the same in source and C,
  that nothing falls through a block with a terminator, that a `proc_exit` stands in
  the outermost block only, and that a `default` is the last label. `NoLateExit`
  leaves out the features `nested_exit` (finding 2) and `default_early`, with either of
  which the property is false.
* `InferredIsDeclared`: `NothingHidden /\ Spec => []InferredTypeIsDeclared`. `BoundAt`
  says which parser scope belongs to which open C block (a `switch` has none) and that
  they bind the same names to the same types. A `for` binds its variable in C only, so
  that the innermost scope below it that knows the name must say `int`, or none may.
  The theorem is about the names of `LookedUp`; of the others it is false.
  `NothingHidden` leaves out `case_let` and `for_shadow`.

Of `Expressions`, `Declarations` and `TestProgram`, for files and expressions of any
length, any modules, any value of the variable, and any width of an `int` and of an exit
status (`SourcesAssumption`, `NumbersAssumption`: tokens stand where section 2 says they do, a
function that is said to read well has a body that `expression` reads, and so have
those of the modules):

* `ParserKeepsMeaning`: the text emitted for an expression is worth what the expression
  means, folded or not, if its literals are read by C and `stoll` as they are written.
  It is proved level by level of the recursion. `Whole` says that a stretch of tokens is
  closed in parentheses and ends in an operand. `LeftGood` is the invariant of the loop in
  `parse_binary`: what has been read up to here is whole, is worth what it means, and
  its operators bind at least as tightly as `min_prec` asks and as the next operator;
  `ReadTo` says that behind what a call returns an operator binds less. The key is that,
  when left and right side are joined, the operator between them is the one at which
  `Meaning` splits the stretch. `FunctionsKeepMeaning` is `EmittedIsWorthTheSource`.
* `RecoveryLosesLittle`: `LossIsLocal`. The invariant `PInv` says of the tokens passed so
  far what the property says of all. `NothingLost`: without a message, `functions` is
  what the modules bring and then what is declared before `index`, in order.
  `GoodAreKept`: with or without one, a function that reads well and was passed is
  there. These are not inductive alone, because the loop may come to rest in the middle of
  the attributes of a good function, which then loses some: `NextInPlace` says that it
  does not when the function comes right behind a collected one, or when nothing is
  wrong before it. What each declaration reads, and where recovery goes on, is in
  lemmas of its own (`StructureReads` to `StaysInPlace`).
* `TestProgramTyped`: `TypeOKTest`.
* `PassIsDeserved`, `FailIsDeserved`: `PassIsEarned` and `FailHasACause`. `TestInv` adds to
  `PInv` what each stage of the driver rests on (`StageInv`: the program that runs was
  compiled without a message, and every call so far was of the function it had to be
  and returned zero), and why it ended as it did (`Earned`, `Caused`). `FailHasACause`
  speaks of what the source declares, so that without a message `functions` must be
  `Declared`, which is `LossIsLocal`'s equation: then C refuses the program exactly where it
  refuses what the source declares. `NoMessage`
  leads from a function that is called back to the tokens it was declared by, and
  `ParserKeepsMeaning` from what it returned to what its source means.

`ModuleLoaderProofs`, for every import graph, layout, set of broken files and longest
path (`LoaderAssumption`: import lists are sequences of files or `Missing`, a file in
error declares something, and `Faults` gives each file one of the faults or none):

* `StateIsTyped`, `NothingIsLost`, `NoneParsedAgain`: `TypeOK`, `CleanExitIsComplete`,
  `ParsedOnce`. `StackInv` describes the recursion: the path of each parser but the
  first is loaded, is one the parser below it leads to, and occurs once; only the
  innermost has read its declarations. `ReachInv` and `CompleteInv` say that what is
  loaded is imported by the program, and is still being parsed or finished: then its
  functions are with some parser and what it imports is loaded too; and that a file
  whose declarations have been read has no fault, so that a compiler that gives up has
  met a fault of a file it reaches, a missing module or a second directory. `OriginInv`
  says that a function a parser holds is of a finished module its path leads to, or of
  its own.
* `NoneDefinedTwice`: `DistinctDefines /\ Spec => []NoDoubleDefinition`. `SingleInv`
  says that each parser has a name once. The hard case is a module whose own functions
  are put behind the imported ones without a test (297, against 371): they must not have
  come in already, under another path. `NotOwnYet` shows that they cannot: if a
  file were loaded under a longer path before it is read under this one, the imports
  that lead from the one to the other would lead from there to a still longer one,
  and so on; but a loaded path has at most `MaxHops` directories.
  `DistinctDefines` says that no two declarations but `main`s have one name. Where two
  files do declare the same name, the C program has both, because of that missing test;
  the property is about modules that are loaded more than once.

### Packages and projects

`PackageStoreProofs`, for any number of processes, packages and versions
(`RegistryAssumption`):

* `StoreIsTyped`: whatever fails, a manifest names a version the registry has of
  that very package.
* `NothingHalfDone`: without fault `write`, and with processes killed anywhere, a
  package is half-done only while a process is at it or after one died at it.
  `HalfDoneHasACause` is too weak to be inductive, as it does not say that the process
  will clear the package away. The strengthening `Cause` asks for the one that will:
  of an empty manifest the process that has that very file open, of an empty directory
  one that is about to write into it or to remove it. Each step either makes
  its own process such a one or was not taken by it (`CauseStays`).
* `SoleCommandsTakeEffect`: without fault `write`, a command that had its package to
  itself has done what it says when it ends. `Sole` is what such a command may count on
  at each step: no other is at its package, the directory it made is there when it
  opens the manifest, and the manifest it opened is still in it when it writes.

`CommandsProofs`, for any number of processes and any texts (`CommandsAssumption`: texts
do not contain the two marks that stand for *no file* and *half a file*):

* `Invariance`: `IInv` is stated per command (`Fine`: its shape, what it has read,
  how far it has got) and per pair of commands (`Apart`: two that write one file of the
  project have spoilt it, and one that counts as undisturbed shares no file), so that
  a step of one process disturbs the others only through `disk` and `harmed`. To these
  come `FilesAreKept` (a file nobody writes holds the user's program), `NothingMade` and
  `LeftoverIsOpened`.
* `StateIsTyped`, `SourcesStay`, `ProjectStaysWhole`, `NothingIsLeftOver`: the four
  invariants of the run. `SourcesStay` rests on lemmas about `Formatter`: what
  `format_dmc_code` makes of a text depends on the rests of its lines alone and keeps
  them, hence it is idempotent and keeps the `Program` of a text without strings that
  span lines.
* `SoleCommandsTakeEffect`: an undisturbed command has done what it reports.

### What stays with TLC

* Liveness: `Terminates`, `EveryFileIsDecided`, `LockIsReturned`. They rest on fairness
  and `ENABLED`, which the prover does not treat.
* `ImplementsCollections` for a queue that grows: it is false (run `gen_queue_order`).

The library's induction theorems cannot be instantiated by the provers installed here.
Where a proof needs induction on a number (`Kept`, the stack of parsers, the longest
loaded path, the innermost scope that knows a name) it is by least counterexample:
`LeastExists`, from the well-foundedness of `<` on `Nat`. A function defined by
recursion on a number is shown to exist and to satisfy its equation in the same way
(`RecursionExists` in `CompilerProofs`), one fixed step function at a time.

## 5. Findings

1. `dmc_mem_free` zeroes the slot and then asks `dmc_release` to do the same, which
   sees an empty slot and answers -1: a successful free reports failure and the smoke
   program can only exit with 2.
2. `proc_exit` inside an `if` removes all that follows in the enclosing block (718).
3. `queue_push` grows a ring that has wrapped by `realloc` and loses an element (517).

Each of the three has a run. The following were met while modelling; the models
contain them as the behaviour of the code, or as a fault or feature that the
passing run leaves off because the property named would fail:

* Standalone runtime: a short write and a failing close (of files and sockets) set no
  message for `dmc_last_error`.
* Threaded build: `dmc_get` takes no lock, so that a table that moves takes the slot
  pointers of other threads with it, even where no handle is shared.
* Statement parser: features `default_early`, `case_let`, `for_shadow` (section 2); a
  variable whose name begins with `_` is taken for an `int` by `infer_type` (1281).
* Declaration loop: a misplaced `import` hangs the compiler (309); a literal too large
  for `stoll` ends it with the exception's text (952); an error costs the function
  behind it its attributes, because `skip_to_decl` goes on from `fn`.
* Expressions: `010 + x` is 8 + x, `010 + 1` is 11.
* Harness: two `#[bench]` functions are two `_t` in one C block and do not compile; two
  functions of one name, a test with parameters or without a result and a name the
  runtime has are found out by the C compiler alone (`FAIL build`); a test called `main` is never run; `proc_exit(0)` in a test passes the file; a result
  that is a multiple of 2^32 passes.
* Loader: a broken module loses functions and the compiler exits with 0 (360); the main
  file is parsed twice when a module imports it (286); a literal out of range in any module
  ends the compiler without saying where (300); a cycle across directories ends
  only at the longest path the system accepts (339).
* Emitted runtime: `regex_new` and the first handle that fills a collection table
  write past their tables (572, 509); `mem_alloc`, `arena_new` do not look at `calloc`
  and `malloc`; arenas and databases index fixed tables with an unlimited counter (584,
  602); getters of collections and `queue_pop` cut a value to `int` (512, 518, 519, 529).
* Commands: `fmt` indents the inside of strings that span lines; a killed `new` leaves a
  project that `new` refuses to complete; a failed build leaves the generated C file;
  `dmc x.dmc -o missing/x.c` writes nothing and exits with 0.
* Packages: `install_package` (1611) drops the result of `write_package_meta` (fault
  `write`); `installed_packages` (1545) keeps the quotes round a version, and an
  installed package is always outdated.

## 6. Not modelled, and the plan

Not modelled at all: the text functions and their static buffers (their state is the
last result alone), sockets, ports, interrupts and system calls of the emitted runtime
(each is one call of the operating system), the registry's search, list, publish and
`resolve_dependencies` (they change nothing), `login` and `deprecate` (one file
nothing reads), `doc`, doctests, `bundle`, `run`, the linter's messages, the
self-hosted compiler, editor and playground.

Modelled only in part:

* the lexer: only which blanks, comments and quotes belong to a string; names,
  numbers and operators are split character by character without state;
* expressions: calls, fields, indexing, assignment and strings are not folded and have
  no part in it; of type inference, whose result is the C type of a `let` without one
  (733-746) and otherwise the source of warnings, only that of a variable is modelled;
* the statement parser: without `try`, `asm` and the patterns of enums; scopes and
  `current_ret_` left over after an error (300);
* the loader: without structs and enums, which merge as functions do, without the
  candidates and spellings of a path named in section 2, and without the visibility of functions to the importers of a diamond (1211-1373);
* the package manager: without what only reads.

What comes next, most important first:

1. The queue past its first buffer in the case that is right (`head = 0`), as a
   weaker hypothesis than `FirstBuffers`.
2. `TextBuffers`: the static buffers several calls return (450, 472, 547-552).
3. Visibility of imported functions in a diamond, together with the types that
   `infer_type` finds for them.
4. `ModuleLoader` and `Declarations` composed: what a module brings along is given to
   `Declarations` as a constant, `Imported`, and follows from the loader's own theorems.
