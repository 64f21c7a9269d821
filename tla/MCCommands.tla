----------------------------- MODULE MCCommands -----------------------------
(* Small instances of Commands for TLC: two processes on a few sources, and *)
(* one process on every source of up to three lines.                        *)
EXTENDS Commands, TLC

CONSTANTS p1, p2

TwoProcs == {p1, p2}

Plain == {Template("main"), <<Line(3, "f {"), Line(0, "oops")>>}

Lines(rests) == {Line(lead, rest) : lead \in {0, 3}, rest \in rests}
Short == LET lines == Lines({"x;", "f {", "}", "} else {", "// {", "odd quotes", ""})
         IN  {<<a>> : a \in lines} \cup {<<a, b>> : a \in lines, b \in lines}
Longer == LET lines == Lines({"x;", "} else {", "odd quotes"})
          IN  {<<a, b, c>> : a \in lines, b \in lines, c \in lines}

AnyText == Plain \cup Short \cup Longer

ProcSymmetry == Permutations(TwoProcs)

(* On the many texts one process works alone, for two commands. *)
MCInit ==
  /\ Init
  /\ \E p \in Procs : cmd[p] = Idle
  /\ IF saved["main"] \in Short \cup Longer
     THEN begun = MaxBegun - 2 /\ \E p \in Procs : cmd[p] = Away
     ELSE begun = 0 /\ \A p \in Procs : cmd[p] = Idle
MCSpec == MCInit /\ [][Next]_vars
=============================================================================
