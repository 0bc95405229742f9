------------------------------- MODULE MCButton -------------------------------
(* Instances of Button. *)
EXTENDS Button
=============================================================================
