---------------------------- MODULE MCCodeWriters ----------------------------
(* One unit, two visits of it. *)
EXTENDS CodeWriters
=============================================================================
