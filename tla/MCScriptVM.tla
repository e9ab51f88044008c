----------------------------- MODULE MCScriptVM -----------------------------
(* Instances of ScriptVM for TLC.                                          *)
EXTENDS ScriptVM

=============================================================================
