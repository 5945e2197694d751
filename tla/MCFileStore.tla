----------------------------- MODULE MCFileStore -----------------------------
(* Instances of FileStore for TLC. *)
EXTENDS FileStore, TLC

Symmetry == Permutations(Files) \cup Permutations(Requests) \cup Permutations(Organizations)
=============================================================================
