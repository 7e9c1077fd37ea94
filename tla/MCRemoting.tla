----------------------------- MODULE MCRemoting -----------------------------
(* Remoting for TLC.                                                       *)
EXTENDS Remoting
=============================================================================
