---------------------------- MODULE MCWorkerPool ----------------------------
(* Small instances of WorkerPool for TLC. *)
EXTENDS WorkerPool, TLC

\* Requests are interchangeable; the symmetry is used by safety runs only.
Symmetry == Permutations(Request)
=============================================================================
