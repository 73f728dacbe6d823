----------------------------- MODULE MCRwImage -----------------------------
(* RwImage for one handle: paths and contents are interchangeable, since   *)
(* no definition chooses one of them.                                      *)
EXTENDS RwImage, TLC

Interchangeable == Permutations(Paths) \cup Permutations(Data)
============================================================================
