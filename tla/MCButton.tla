------------------------------ MODULE MCButton ------------------------------
(* Small instances of ZbButton for TLC. *)
EXTENDS ZbButton
=============================================================================
