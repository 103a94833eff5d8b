------------------------------ MODULE MCServer ------------------------------
(* ServerRun as TLC checks it.                                             *)
EXTENDS ServerRun
=============================================================================
