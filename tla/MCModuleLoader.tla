--------------------------- MODULE MCModuleLoader ---------------------------
(* Small instances of ModuleLoader for TLC: the main file, three modules    *)
(* and a name nothing answers to, with at most two import lines per file.   *)
EXTENDS ModuleLoader

CONSTANTS main, a, b, c, none

AllFiles == {main, a, b, c}
Modules  == {a, b, c}

(* At most two lines, the order fixed: modules first. *)
Lines(names) ==
  LET order == <<none, main, a, b, c>>
  IN  {SelectSeq(order, LAMBDA f : f \in s) :
         s \in {s \in SUBSET names : Cardinality(s) <= 2}}

(* Every module may import every module, itself included, and a missing     *)
(* one; a may import main; c has one line at most.                          *)
AnyGraph ==
  {g \in [AllFiles -> Lines(AllFiles \cup {none})] :
     /\ \A f \in AllFiles : main \in ToSet(g[f]) => f = a
     /\ none \notin ToSet(g[main])
     /\ Len(g[c]) <= 1}

(* All files in one directory, or two of the modules in another. *)
OneOrTwoDirs == {[f \in AllFiles |-> IF f \in there THEN "lib" ELSE "src"] :
                   there \in {{}, {b, c}}}

(* Nothing worse than bad declarations, or one file with one fault. *)
OneFault ==
  LET Sound == [f \in AllFiles |-> "none"]
  IN  {Sound, [Sound EXCEPT ![main] = "literal"]} \cup
      {[Sound EXCEPT ![b] = kind] : kind \in FaultKinds}

(* Each file has a function of its own name; the main file has main too. *)
OwnFunctions == [f \in AllFiles |-> IF f = main THEN <<f, "main">> ELSE <<f>>]
=============================================================================
