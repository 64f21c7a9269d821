--------------------------- MODULE MCPackageStore ---------------------------
(* Small instances of PackageStore for TLC. *)
EXTENDS PackageStore, TLC

CONSTANTS p1, p2, p3

ThreeProcs   == {p1, p2, p3}
ProcSymmetry == Permutations(ThreeProcs)

(* Two versions of one package, and a name the registry does not know. *)
SmallRegistry == [json |-> <<2, 1>>, yaml |-> <<>>]
=============================================================================
