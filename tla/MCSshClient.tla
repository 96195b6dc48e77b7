---------------------------- MODULE MCSshClient ----------------------------
(* Instances of SshClient for TLC.                                         *)
EXTENDS SshClient, TLC
=============================================================================
