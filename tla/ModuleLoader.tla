---------------------------- MODULE ModuleLoader ----------------------------
(***************************************************************************)
(* compiler/dmc.cpp, Parser::collect_declarations and what it calls: a     *)
(* parser reads the import lines of its file, parses each imported module  *)
(* with a parser of its own unless its path is in loaded_, merges what     *)
(* that one collected, then reads the declarations of its file.  The       *)
(* parser of the file given to the compiler emits the C program.           *)
(*                                                                         *)
(* One action is one turn of the import loop, the reading of one file's    *)
(* declarations, one return to the importing parser, or the emission; the  *)
(* recursion of collect_declarations is the sequence parsers.  Imports of  *)
(* builtin modules only fill the set imports_, which nothing reads, and    *)
(* are left out.  A file is known by where it is; the path it is found     *)
(* under is the chain of directories that led to it, because               *)
(* resolve_import joins importer_dir and name and never normalises.  Of    *)
(* the places it looks in, only that one is modelled: not src/, the -I     *)
(* directories and the working directory, and no second spelling of a name *)
(* in one directory, which would be another path in loaded_.               *)
(***************************************************************************)
EXTENDS Integers, Sequences, FiniteSets, SequencesExt

CONSTANTS
  Files,        \* source files
  Root,         \* the file given on the command line
  Missing,      \* what an import names that no file answers to
  Graphs,       \* the import lines programs may have: file -> sequence
  Layouts,      \* where programs may keep them: file -> directory
  Defines,      \* file -> sequence of the functions it declares
  Broken,       \* files that may hold a declaration that does not parse
  Faults,       \* what else may be wrong: file -> one of FaultKinds
  MaxHops       \* directories in a path the system still accepts

(* What no parser recovers from: a file that cannot be read or does not    *)
(* lex, an import line that does not parse, a number in an expression that *)
(* stoll finds out of range.                                               *)
FaultKinds == {"none", "text", "imports", "literal"}

ASSUME LoaderAssumption ==
  /\ Root \in Files
  /\ Missing \notin Files
  /\ \A g \in Graphs :
       /\ DOMAIN g = Files
       /\ \A f \in Files : g[f] \in Seq(Files \cup {Missing})
  /\ \A d \in Layouts : DOMAIN d = Files
  /\ DOMAIN Defines = Files
  /\ \A f \in Files : Defines[f] \in Seq(ToSet(Defines[f]))
  /\ Broken \subseteq {f \in Files : Defines[f] # <<>>}
  /\ Faults \subseteq [Files -> FaultKinds]
  /\ MaxHops \in Nat

VARIABLES
  imports,    \* the import lines of this program
  dir,        \* where its files are
  broken,     \* the files that do hold a bad declaration
  fault,      \* what else is wrong with them
  parsers,    \* the parsers at work, the compiler's own first
  result      \* exit code of the compiler and the definitions it emitted

program == <<imports, dir, broken, fault>>
vars    == <<imports, dir, broken, fault, parsers, result>>

Running == [code |-> "none", emitted |-> <<>>]

(* A path: the directories passed on the way, and the file at its end. *)
Path(hops, file) == [hops |-> hops, file |-> file]

Parser(path, todo, loaded) ==
  [path        |-> path,
   todo        |-> todo,       \* import lines not yet handled
   loaded      |-> loaded,     \* loaded_
   functions   |-> <<>>,       \* functions_: [name, file]
   diagnostics |-> FALSE,      \* diagnostics_ is not empty
   declared    |-> FALSE]      \* the declarations of the file have been read

Init ==
  /\ imports \in Graphs
  /\ dir \in Layouts
  /\ broken \in SUBSET Broken
  /\ fault \in Faults
  /\ parsers = <<Parser(Path(<<>>, Root), imports[Root], {})>>
  /\ result  = Running

-----------------------------------------------------------------------------
Depth    == Len(parsers)
Top      == parsers[Depth]
Below    == SubSeq(parsers, 1, Depth - 1)
Working   == result = Running
Fault     == fault[Top.path.file]
Importing == Working /\ Top.todo # <<>> /\ Fault \notin {"text", "imports"}

(* resolve_import: the path an import line of the file found under path    *)
(* leads to, and whether a file is found there.                            *)
resolve_import(path, name) ==
  Path(IF dir[name] = dir[path.file] THEN path.hops
                                     ELSE Append(path.hops, dir[name]), name)

BugAnyLength(path, name) == name \in Files

Resolves(path, name) ==
  name \in Files /\ Len(resolve_import(path, name).hops) <= MaxHops

BugSkipKeepsLine(p) ==
  IF resolve_import(p.path, Head(p.todo)) \in p.loaded THEN p
  ELSE [p EXCEPT !.todo = Tail(p.todo)]

NextLine(p) == [p EXCEPT !.todo = Tail(p.todo)]

(* An exception that reaches main: it ends every parser, the compiler      *)
(* reports it and writes nothing.                                          *)
GivesUp ==
  /\ parsers' = <<>>
  /\ result'  = [code |-> "failed", emitted |-> <<>>]
  /\ UNCHANGED program

(* No candidate is a regular file. *)
CannotSummon ==
  /\ Importing
  /\ ~Resolves(Top.path, Head(Top.todo))
  /\ GivesUp

(* Reading and lexing come before the file's parser exists, all its import *)
(* lines before the first is handled, and both outside the try: none of    *)
(* them leaves a trace of the file.  The handler around a declaration      *)
(* catches runtime_error, which out_of_range is not.                       *)
Throws ==
  /\ Working
  /\ \/ Fault \in {"text", "imports"}
     \/ Fault = "literal" /\ Top.todo = <<>> /\ ~Top.declared
  /\ GivesUp

AlreadyLoaded ==
  /\ Importing
  /\ Resolves(Top.path, Head(Top.todo))
  /\ resolve_import(Top.path, Head(Top.todo)) \in Top.loaded
  /\ parsers' = Append(Below, NextLine(Top))
  /\ UNCHANGED <<program, result>>

(* The new parser starts from a copy of loaded_. *)
Summon ==
  /\ Importing
  /\ Resolves(Top.path, Head(Top.todo))
  /\ LET path   == resolve_import(Top.path, Head(Top.todo))
         loaded == Top.loaded \cup {path}
     IN  /\ path \notin Top.loaded
         /\ parsers' = Below \o <<[NextLine(Top) EXCEPT !.loaded = loaded],
                                  Parser(path, imports[path.file], loaded)>>
  /\ UNCHANGED <<program, result>>

(* Own functions go behind the imported ones, unfiltered; a declaration    *)
(* that does not parse leaves a diagnostic and takes its function with it. *)
Own(file) ==
  LET names == IF file \in broken THEN Tail(Defines[file]) ELSE Defines[file]
  IN  [i \in DOMAIN names |-> [name |-> names[i], file |-> file]]

Declarations ==
  /\ Working
  /\ Top.todo = <<>>
  /\ ~Top.declared
  /\ Fault = "none"
  /\ parsers' = Append(Below,
       [Top EXCEPT !.functions   = Top.functions \o Own(Top.path.file),
                   !.diagnostics = Top.path.file \in broken,
                   !.declared    = TRUE])
  /\ UNCHANGED <<program, result>>

has_function(fs, name) == \E i \in DOMAIN fs : fs[i].name = name

(* The members of fs at the positions ks, in their order. *)
Kept(fs, ks) ==
  LET kept[i \in 0 .. Len(fs)] ==
        IF i = 0 THEN <<>>
        ELSE IF i \in ks THEN Append(kept[i - 1], fs[i]) ELSE kept[i - 1]
  IN  kept[Len(fs)]

(* Where a name comes for the first time in fs. *)
First(fs, i) == \A j \in 1 .. i - 1 : fs[j].name # fs[i].name

BugMergeUnfiltered(fs, target) == target \o fs

(* merge_into: one after the other, those the target does not have by then *)
merge_into(fs, target) ==
  target \o Kept(fs, {i \in DOMAIN fs : ~has_function(target, fs[i].name) /\ First(fs, i)})

BugLoadedNotReturned(parent, mod) ==
  [parent EXCEPT !.functions = merge_into(mod.functions, parent.functions)]

BugMergeOwnOnly(parent, mod) ==
  LET own == SelectSeq(mod.functions, LAMBDA f : f.file = mod.path.file)
  IN  [parent EXCEPT !.functions = merge_into(own, parent.functions),
                     !.loaded    = mod.loaded]

Merged(parent, mod) ==
  [parent EXCEPT !.functions = merge_into(mod.functions, parent.functions),
                 !.loaded    = mod.loaded]

Return ==
  /\ Working
  /\ Top.declared
  /\ Depth > 1
  /\ parsers' = Append(SubSeq(parsers, 1, Depth - 2),
                       Merged(parsers[Depth - 1], Top))
  /\ UNCHANGED <<program, result>>

(* emit: every function but main as it comes, of the mains the first.  The *)
(* C text is written whether or not there are diagnostics.                 *)
Emitted(fs) ==
  Kept(fs, {i \in DOMAIN fs : fs[i].name # "main"})
    \o Kept(fs, {i \in DOMAIN fs : fs[i].name = "main" /\ First(fs, i)})

Emit ==
  /\ Working
  /\ Top.declared
  /\ Depth = 1
  /\ result'  = [code    |-> IF Top.diagnostics THEN "errors" ELSE "ok",
                 emitted |-> Emitted(Top.functions)]
  /\ parsers' = <<>>
  /\ UNCHANGED program

Next == CannotSummon \/ Throws \/ AlreadyLoaded \/ Summon \/ Declarations \/ Return \/ Emit

(* The compiler is one thread: while it can take a step it takes one. *)
Spec == Init /\ [][Next]_vars /\ WF_vars(Next)

-----------------------------------------------------------------------------
TypeOK ==
  /\ imports \in Graphs
  /\ dir \in Layouts
  /\ broken \subseteq Broken
  /\ fault \in Faults
  /\ result.code \in {"none", "ok", "errors", "failed"}
  /\ \A k \in DOMAIN parsers :
       /\ parsers[k].path.file \in Files
       /\ Len(parsers[k].path.hops) <= MaxHops
       /\ \A i \in DOMAIN parsers[k].functions :
            parsers[k].functions[i].file \in Files

(* What the import lines lead to, from the file given to the compiler: what *)
(* is in every set that holds that file and all its members import.        *)
Closed(S) == \A f \in S \ {Missing} : ToSet(imports[f]) \subseteq S

Reachable ==
  {f \in Files \cup {Missing} :
     \A S \in SUBSET (Files \cup {Missing}) : Root \in S /\ Closed(S) => f \in S}

Names(fs) == {fs[i].name : i \in DOMAIN fs}

OneDirectory == \A f, g \in Files : dir[f] = dir[g]

(* A compilation that writes a C program has read every module that is     *)
(* imported, however indirectly, and has every function of it: nothing is  *)
(* lost in a diamond or a cycle, where the second importer finds the       *)
(* module already loaded, and no missing or unreadable module is passed    *)
(* over.  The errors of an imported module stay with its parser: what is   *)
(* missing then is of that module, and never more than the declarations in *)
(* error.  The compiler gives up only where a module is missing, where its *)
(* directories make paths too long, or over a file it cannot read or lex,  *)
(* a bad import line or a number out of range in what is imported.         *)
CleanExitIsComplete ==
  /\ result.code = "ok" => Root \notin broken
  /\ result.code \in {"ok", "errors"} =>
       /\ Missing \notin Reachable
       /\ \A f \in Reachable :
            LET lost == IF f \in broken THEN {Head(Defines[f])} ELSE {}
            IN  /\ fault[f] = "none"
                /\ ToSet(Defines[f]) \ lost \subseteq Names(result.emitted)
  /\ result.code = "failed" =>
       \/ Missing \in Reachable
       \/ ~OneDirectory
       \/ \E f \in Reachable \ {Missing} : fault[f] # "none"

RootIsImported == \E f \in Reachable \ {Missing} : Root \in ToSet(imports[f])

(* The C program defines no function twice; only the file given to the     *)
(* compiler, which is not in loaded_, comes in again when a module imports *)
(* it, and then its own functions are there twice and no others.           *)
NoDoubleDefinition ==
  \A i, j \in DOMAIN result.emitted :
    result.emitted[i].name = result.emitted[j].name =>
      i = j \/ (RootIsImported /\ result.emitted[i].name \in ToSet(Defines[Root]))

(* In one directory no module is parsed a second time: not while it is     *)
(* being parsed, and not after its functions have been collected.  Only    *)
(* the file given to the compiler may be parsed twice at a time.           *)
ParsedOnce ==
  OneDirectory =>
    \A j \in DOMAIN parsers, k \in 2 .. Depth : ~parsers[k].declared =>
      /\ j \notin {1, k} => parsers[j].path.file # parsers[k].path.file
      /\ \A i \in DOMAIN parsers[j].functions :
           parsers[j].functions[i].file # parsers[k].path.file

(* The recursion ends, cycles and all. *)
Terminates == <>~Working
=============================================================================
