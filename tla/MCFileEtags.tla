----------------------------- MODULE MCFileEtags -----------------------------
(* Small instances of FileEtags for TLC. *)
EXTENDS FileEtags, TLC

\* Requests differ only by what Init chooses for them.
Symmetry == Permutations(Request)
=============================================================================
