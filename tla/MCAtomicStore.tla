---------------------------- MODULE MCAtomicStore -----------------------------
(* AtomicStore on small instances. *)
EXTENDS AtomicStore, TLC

(* Writers are interchangeable, and so are readers (safety runs only). *)
Interchangeable == Permutations(Writers) \cup Permutations(Readers)
=============================================================================
