----------------------------- MODULE MCSettings -----------------------------
(* A small instance of Settings. *)
EXTENDS Settings, TLC
=============================================================================
