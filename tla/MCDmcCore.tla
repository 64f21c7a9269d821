------------------------------ MODULE MCDmcCore ------------------------------
(* Small instances of DmcCore for TLC. *)
EXTENDS DmcCore, TLC

CONSTANTS a1, a2, a3

TwoAddr   == {a1, a2}
ThreeAddr == {a1, a2, a3}

(* Addresses are only compared with each other and with Null. *)
AddrSymmetry3 == Permutations(ThreeAddr)
=============================================================================
