----------------------------- MODULE MCRPCServer -----------------------------
(* The instance of RPCServer for TLC: its constants are given in the cfg.  *)
EXTENDS RPCServer

=============================================================================
