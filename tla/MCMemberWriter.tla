--------------------------- MODULE MCMemberWriter ----------------------------
(* Small instances of MemberWriter for TLC.  Threads and members are alike:  *)
(* every definition treats them so, and the run checks no liveness.          *)
EXTENDS MemberWriter, TLC

ThreadsAndMembers == Permutations(Writer) \cup Permutations(Member)
=============================================================================
