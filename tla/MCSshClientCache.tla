-------------------------- MODULE MCSshClientCache --------------------------
(* Instances of SshClientCache for TLC.                                    *)
EXTENDS SshClientCache, TLC

Symmetry == Permutations(Task)
=============================================================================
