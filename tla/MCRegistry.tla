----------------------------- MODULE MCRegistry -----------------------------
(* Model-checking instance of Registry. *)
EXTENDS Registry
=============================================================================
