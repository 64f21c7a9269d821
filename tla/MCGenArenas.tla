---------------------------- MODULE MCGenArenas ----------------------------
(* Sizes for GenArenas: negative, one within every bound, one past some.    *)
EXTENDS GenArenas

SomeSizes == {-1, 1, 2}
=============================================================================
