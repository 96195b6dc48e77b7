---------------------------- MODULE MCRpcStreams -----------------------------
(* Small instances of RpcStreams for TLC.  Requests are not declared to be  *)
(* symmetric: the run checks liveness.                                      *)
EXTENDS RpcStreams
=============================================================================
