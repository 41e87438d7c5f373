---------------------------- MODULE MCFileStore -----------------------------
(* Instances of FileStore for TLC: ids and short codes are interchangeable, users and URLs are
   not when one of the URLs is long. *)
EXTENDS FileStore, TLC

Symmetry == Permutations(Ids) \cup Permutations(Codes)
=============================================================================
